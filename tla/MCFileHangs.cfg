CONSTANTS
  p1 = p1
  p2 = p2
  a = a
  s = s
  Piece = {p1, p2}
  Peers = {a}
  Seeds = {}
  Bitfields <- AllOrOne
  NoPiece = NoPiece
  MaxSessions = 1
  MaxFaults = 0
  MayCancel = FALSE
SPECIFICATION FairSpec
PROPERTY FileReturns
CHECK_DEADLOCK FALSE
