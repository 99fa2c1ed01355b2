CONSTANTS
  none = none
  Bits = 3
  Own <- Self
  bucketSize = 2
  Remote <- Nodes
  NoReply = none
  TxnMod = 3
  MaxLate = 0
  Strangers <- Nodes
  BootNodes <- Boot
  InfoHash <- Hash
  Knows <- Topology
  alpha = 2
  MaxOps = 2
SPECIFICATION FairSpec
INVARIANTS
  TypeOK
  PendingIsWaiting
  ReplyToItsQuery
  ClosestAsked
PROPERTIES
  OperationsEnd
CHECK_DEADLOCK FALSE
