------------------------------ MODULE MCDownload ------------------------------
EXTENDS Download

CONSTANTS p1, p2, a, s

AllOrOne == [w \in Peers |-> {Piece, {p1}}]
=============================================================================
