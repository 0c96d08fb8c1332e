SPECIFICATION Spec
CONSTANTS
  MaxPackets = 5
  DecoderDelay = 2
  EncoderDelay = 1
INVARIANTS
  OutputWellFormed
  CleanRunTranscodesAll
  RetriedOnlyByDrain
