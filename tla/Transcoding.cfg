SPECIFICATION Spec
CONSTANTS
  MaxStreams = 2
  MaxPackets = 4
  MaxDelay = 1
INVARIANTS
  WrittenAsRead
  StatusTellsEncoding
  CleanupMeetsSetUp
