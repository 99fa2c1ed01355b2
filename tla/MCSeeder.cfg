CONSTANTS
  a1 = a1
  a2 = a2
  a3 = a3
  none = none
  Addr <- ThreeAddrs
  NoAddr = none
  MaxConns = 2
  UploadSlots = 1
  MaxBlocks = 1
SPECIFICATION FairSpec
INVARIANTS
  TypeOK
  LimitHolds
  SlotsBounded
PROPERTIES
  InterestedGetsUnchoked
CHECK_DEADLOCK FALSE
