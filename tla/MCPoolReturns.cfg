CONSTANTS
  a1 = a1
  a2 = a2
  PeerList <- TwoPeers
  MaxSlots = 1
  MaxRetries = 1
  MaxStrikes = 2
SPECIFICATION FairSpec
PROPERTIES
  RunReturns
CHECK_DEADLOCK FALSE
