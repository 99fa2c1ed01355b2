CONSTANTS
  udp = udp
  http = http
  p1 = p1
  p2 = p2
  Udp = udp
  Http <- HttpTrackers
  PeerLists <- Lists
  DhtLists <- Found
  maxRetries = 4
  MaxCopies = 1
  NumMeta = 3
SPECIFICATION FairSpec
INVARIANTS
  EveryPeerOnce
  HonestPeerVerifies
  StaleReplyNeedsCopy
PROPERTIES
  StartsOrExits
CHECK_DEADLOCK FALSE
