------------------------------ MODULE MCPipeline ------------------------------
EXTENDS Pipeline

CONSTANTS p1, p2, o

OthersHaveOne == [w \in Peers |-> {{p1}}]
=============================================================================
