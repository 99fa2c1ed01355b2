CONSTANTS
  p1 = p1
  p2 = p2
  o = o
  self = self
  Piece = {p1, p2}
  Peers = {o}
  Seeds = {}
  Bitfields <- OthersHaveOne
  Offers = {}
  NoPiece = NoPiece
  NoBitfield = NoBitfield
  NoJob = NoJob
  NumBlocks = 2
  MaxActive = 1
  WireCap = 3
  MaxCorrupt = 0
SPECIFICATION Spec
PROPERTIES
  ImplementsSession
