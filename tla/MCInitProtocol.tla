--------------------------- MODULE MCInitProtocol ---------------------------
(* The requests and calls of a boot, for the constants of Mwdd32.          *)
EXTENDS InitProtocol

BootRequests == {OpenPacket, ClosePacket} \cup {IoctlPacket(c) : c \in Ring3}
BootIdcCalls == {ExportCall}
=============================================================================
