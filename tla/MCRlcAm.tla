---------------------------------- MODULE MCRlcAm ----------------------------------
EXTENDS RlcAm
Infinity == -1      \* what p_infinity and kb_infinity become
=============================================================================
