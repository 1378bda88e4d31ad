--------------------------- MODULE MCHistoryFence ---------------------------
(* The sidebar p1 with a writer, the worker queue and a reset; one worker    *)
(* process, and the shutdown helper p3 that resets too.                      *)
EXTENDS HistoryFence

CONSTANTS w1, q, c1, r1, r3, p1, p2, p3

MCProcOf == [t \in Threads |-> IF t = c1 THEN p2 ELSE IF t = r3 THEN p3 ELSE p1]
=============================================================================
