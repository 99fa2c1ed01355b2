CONSTANTS
  a1 = a1
  a2 = a2
  PeerList <- TwoPeers
  MaxSlots = 1
  MaxRetries = 3
  MaxStrikes = 3
SPECIFICATION FairSpec
INVARIANTS
  TypeOK
  EachPeerOnce
  SlotsFilled
  ProductivePeersStay
PROPERTIES
  WorkersStop
CHECK_DEADLOCK FALSE
