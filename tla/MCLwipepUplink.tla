----------------------------- MODULE MCLwipepUplink -----------------------------
EXTENDS LwipepUplink
MCSeq == 0 .. MaxSent - 1
MCPdu == [seq : MCSeq, copy : 1 .. MaxCopies]
=============================================================================
