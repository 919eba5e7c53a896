---------------------------- MODULE MCLwipepControl ----------------------------
EXTENDS LwipepControl
MCWlanOnOff == {<<TRUE, TRUE>>, <<FALSE, FALSE>>}
MCWlanDefault == {<<TRUE, TRUE>>}
=============================================================================
