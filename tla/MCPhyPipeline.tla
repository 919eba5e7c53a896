---------------------------------- MODULE MCPhyPipeline ----------------------------------
EXTENDS PhyPipeline
=============================================================================
