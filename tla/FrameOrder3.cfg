SPECIFICATION Spec
CONSTANTS
  N = 3
  MaxPackets = 4
  MaxIds = 4
  Codecs <- DefaultClient
INVARIANTS TypeOK EofMeansDrained DelayBound
PROPERTIES InOrder
