--------------------------- MODULE MCSendPipeline ---------------------------
(* One reply and one sender.  *)
EXTENDS SendPipeline

CONSTANTS i1, s1, p1

MCProcOf == [s \in Senders |-> p1]

None ==
  [parts |-> 0, retries |-> 0, again |-> 0, faults |-> 0, removed |-> 0, late |-> 0,
   overtaken |-> 0, settled |-> 0, owed |-> 1]

\* Queue and records, with one write to the task at a time: a chain of retries; two
\* parts, one of them retried; two parts and a second send; a reply that is removed; a
\* record settled by hand and a retry, a second part, or a late write to the queue.
\* The task, with two: two parts and a failed write; a part settled by hand; two
\* parts and task writes that are overtaken.
MCBudgets ==
  { [None EXCEPT !.parts = 1, !.retries = 2, !.faults = 1],
    [None EXCEPT !.parts = 2, !.retries = 1, !.faults = 1],
    [None EXCEPT !.parts = 2, !.again = 1, !.faults = 1],
    [None EXCEPT !.parts = 1, !.retries = 1, !.faults = 1, !.removed = 1],
    [None EXCEPT !.parts = 1, !.retries = 1, !.faults = 1, !.settled = 1],
    [None EXCEPT !.parts = 2, !.faults = 1, !.settled = 1],
    [None EXCEPT !.parts = 2, !.late = 1, !.settled = 1],
    [None EXCEPT !.parts = 2, !.faults = 1, !.owed = 2],
    [None EXCEPT !.parts = 1, !.faults = 1, !.settled = 1, !.owed = 2],
    [None EXCEPT !.parts = 2, !.overtaken = 2, !.owed = 2] }

MCStale == { [None EXCEPT !.parts = 2, !.retries = 1, !.faults = 1] }
MCLate == { [None EXCEPT !.parts = 2, !.late = 1] }
MCOvertaken == { [None EXCEPT !.parts = 2, !.overtaken = 2, !.owed = 2] }
=============================================================================
