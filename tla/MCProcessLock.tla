---------------------------- MODULE MCProcessLock ----------------------------
(* Three threads, two of them in one process, and one process that dies once. *)
EXTENDS ProcessLock

CONSTANTS t1, t2, t3, p1, p2

MCProcOf == [t \in Threads |-> IF t = t3 THEN p2 ELSE p1]
=============================================================================
