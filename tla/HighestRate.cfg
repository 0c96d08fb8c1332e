SPECIFICATION Spec
CONSTANTS
  Programs = {"audio"}
  Turns = 1
  MaxDelay = 0
  PoolSize = 1
  Rates = {32000, 43100, 45100}
  Layouts = {1, 2}
  MaxListed = 2
INVARIANTS
  HighestRate
