SPECIFICATION Spec
CONSTANTS
  Programs = {"audio", "video", "vaapi"}
  Turns = 5
  MaxDelay = 3
  PoolSize = 3
  Rates = {32000, 48000}
  Layouts = {1, 2}
  MaxListed = 1
INVARIANTS
  EncodedAsSent
  ReferencesCounted
  PoolSuffices
