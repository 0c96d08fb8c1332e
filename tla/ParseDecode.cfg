SPECIFICATION ParseFairSpec
CONSTANTS
  Programs = {"audio", "video"}
  InbufSize = 4
  RefillThresh = 2
  MaxFrameSize = 5
  MaxFrames = 4
  DecoderDelay = 2
INVARIANTS
  BytesInOrder
  OnlyLastFrameLost
PROPERTY Terminates
