SPECIFICATION BuildSpec
CONSTANTS
  Types = {"min", "full"}
  Configs = {"neon min", "neon full"}
  TypeOf <- TypeOfConfig
  Archives = {"avcodec", "avutil"}
  None = None
  MaxRuns = 3
  MaxLibRuns = 2
CHECK_DEADLOCK FALSE
INVARIANTS
  RebuildDelivers
  SameTypeDelivers
  ShippedMatchesSymbols
