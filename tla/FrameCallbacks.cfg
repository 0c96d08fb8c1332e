SPECIFICATION FairSpec
CONSTANTS
  N = 2
  MaxPackets = 3
  MaxIds = 3
  Codecs <- AllClients
INVARIANTS OneSetupAtATime FreedCompletely
PROPERTIES ContextSettled CallsReturn
