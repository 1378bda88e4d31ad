--------------------------- MODULE MCConfirmQueue ---------------------------
(* One reply, two senders in different processes and a third that shares a   *)
(* process with the first.                                                    *)
EXTENDS ConfirmQueue

CONSTANTS i1, s1, s2, s3, p1, p2

MCProcOf == [s \in Senders |-> IF s = s2 THEN p2 ELSE p1]
=============================================================================
