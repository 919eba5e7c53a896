------------------------------- MODULE MCLwipepTx -------------------------------
EXTENDS LwipepTx
MCAutoRatios == {<<0, 1>>, <<1, 0>>, <<1, 3>>, <<6, 4>>}
MCConsoleRatios == {<<2, 4>>, <<15, 0>>}
=============================================================================
