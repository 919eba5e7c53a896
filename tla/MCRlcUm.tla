---------------------------------- MODULE MCRlcUm ----------------------------------
EXTENDS RlcUm
=============================================================================
