------------------------------ MODULE MCPeerPool ------------------------------
EXTENDS PeerPool

CONSTANTS a1, a2

TwoPeers == <<a1, a2>>
=============================================================================
