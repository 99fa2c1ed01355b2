------------------------------- MODULE MCClient -------------------------------
EXTENDS Client

CONSTANTS udp, http, p1, p2

HttpTrackers == {http}
Lists == {<<>>, <<p1>>, <<p2, p1, p2>>}
Found == {<<>>, <<p2>>, <<p1, p2>>}
=============================================================================
