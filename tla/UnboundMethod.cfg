SPECIFICATION Spec
CONSTANTS
  t1 = t1
  t2 = t2
  k1 = k1
  k2 = k2
  Threads = {t1, t2}
  Keys = {k1, k2}
  NoKey = NoKey
  Rounds = 2
  ForeignRounds = 1
CHECK_DEADLOCK FALSE
INVARIANTS NativeMethodsBound
