SPECIFICATION FairSpec
CONSTANTS
  t1 = t1
  t2 = t2
  k1 = k1
  k2 = k2
  Threads = {t1, t2}
  Keys = {k1, k2}
  NoKey = NoKey
  Rounds = 4
  ForeignRounds = 3
CHECK_DEADLOCK FALSE
INVARIANTS JniTypeOK NoThreadGoneAttached ValueMarksOwnAttachment
INVARIANTS TypeOK InstanceMeansReady FailedLoadIsFatal
PROPERTIES ExitEndsDetached
