CONSTANTS
  p1 = p1
  p2 = p2
  o = o
  self = self
  Piece = {p1, p2}
  Peers = {}
  Seeds = {}
  Bitfields <- OthersHaveOne
  Offers = {}
  NoPiece = NoPiece
  NoBitfield = NoBitfield
  NoJob = NoJob
  NumBlocks = 2
  MaxActive = 1
  WireCap = 4
  MaxCorrupt = 1
SPECIFICATION Spec
INVARIANT InFlightBounded
