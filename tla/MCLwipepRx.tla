------------------------------- MODULE MCLwipepRx -------------------------------
EXTENDS LwipepRx
CONSTANTS p1, p2
MCPdu == {p1, p2}
=============================================================================
