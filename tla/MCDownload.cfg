CONSTANTS
  p1 = p1
  p2 = p2
  a = a
  s = s
  Piece = {p1, p2}
  Peers = {a}
  Seeds = {s}
  Bitfields <- AllOrOne
  NoPiece = NoPiece
  MaxSessions = 2
  MaxFaults = 2
  MayCancel = TRUE
SPECIFICATION FairSpec
INVARIANTS
  TypeOK
  NoLeakedReservation
  ExclusiveBeforeEndgame
  FrequencyExact
  OnlyVerifiedData
  NilIsCompleteBeforeEndgame
  IncompleteKeepsAll
PROPERTIES
  SeedStaysUntilDone
  FileReturns
