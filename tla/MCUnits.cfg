CONSTANTS
  a1 = a1
  a2 = a2
  a3 = a3
  t1 = t1
  t2 = t2
  t3 = t3
  t4 = t4
  Sources = {s1, s2}
  Found <- Lists
  ChanCap = 1
  Callers = {c1, c2}
  TierList <- AnnounceList
  Known4 = {p1, p2, p3}
  Known6 = {q1}
  MaxAdded = 1
  MaxDropped = 1
  Users = {u1, u2}
  Burst = 3
  MaxIO = 4
  Writers = {w1, w2}
  Values = {v1, v2}
  MaxSeq = 3
  Octets = {0, 1}
  Dirs <- Directories
  PieceLens = {1, 2, 3, 4}
  ReadMax = 2
  MaxBlocks = 9
  Loaders = {l1, l2}
  Shown = {1, 2}
  ResultsCap = 1
  MaxFailures = 2
SPECIFICATION Spec
INVARIANTS
  EachPeerDelivered
  TiersKept
  ViewFollows
  NoLostUpdate
  VerifyIsExact
  ProofsAreExact
  CountedOnce
PROPERTIES
  RateKept
CHECK_DEADLOCK FALSE
