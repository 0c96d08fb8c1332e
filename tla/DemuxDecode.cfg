SPECIFICATION Spec
CONSTANTS
  Programs = {"extract_mvs", "hw_decode", "qsvdec", "filtering", "demuxing"}
  MaxPackets = 4
  DecoderDelay = 2
INVARIANTS
  CleanRunDecodesAll
  OutputIncreasing
  ReleasedAtExit
