SPECIFICATION FairSpec
CONSTANTS
  FrameSize = 2
  MaxInput = 3
  MaxPackets = 4
  MaxDelay = 2
INVARIANTS
  SamplesConserved
  FramesFullAndTimed
  WholeInputWritten
  ReleasedAtExit
PROPERTY Terminates
