----------------------------- MODULE SendStatus -----------------------------
(***************************************************************************)
(* The status vocabularies of the send chain and the pure rules over them: *)
(* the confirm queue's transition table, the status that summarises the    *)
(* parts of one reply, and the way a bridge acknowledgement maps to the    *)
(* queue.  Every module of the chain uses these definitions.               *)
(***************************************************************************)

QueueStatuses ==
  {"pending", "approved", "rejected", "queued_to_bridge", "sent", "accepted", "failed"}

\* What `mark_send_result` accepts.
ResultStatuses == {"queued_to_bridge", "sent", "accepted", "failed"}

AllowedTransitions ==
  ({"pending"} \X {"approved", "rejected"}) \cup
  ({"approved"} \X ({"rejected"} \cup ResultStatuses)) \cup
  ({"queued_to_bridge"} \X {"sent", "accepted", "failed"}) \cup
  ({"accepted"} \X {"sent", "failed"}) \cup
  ({"failed"} \X {"sent", "accepted"})

ValidTransition(from, to) == from = to \/ <<from, to>> \in AllowedTransitions

BestPart(parts, fallback) ==   \* mutant: one part that arrived is enough
  IF "sent" \in parts THEN "sent" ELSE IF "accepted" \in parts THEN "accepted"
  ELSE IF "failed" \in parts THEN "failed" ELSE IF parts = {} THEN fallback ELSE "queued_to_bridge"

\* The status of a reply from the set of its parts' statuses.  `fallback` is
\* what each caller returns when there is no part at all.
Aggregate(parts, fallback) ==
  IF parts = {} THEN fallback
  ELSE IF "failed" \in parts THEN "failed"
  ELSE IF "queued_to_bridge" \in parts THEN "queued_to_bridge"
  ELSE IF "accepted" \in parts THEN "accepted"
  ELSE "sent"

-----------------------------------------------------------------------------
TerminalAcks == {"sent", "accepted", "failed", "blocked"}
ProgressAcks == {"retry", "inflight"}
AckStatuses  == TerminalAcks \cup ProgressAcks

\* The rank of a terminal acknowledgement; progress has none.
AckPriority(ack) ==
  IF ack = "sent" THEN 4 ELSE IF ack = "accepted" THEN 3
  ELSE IF ack = "blocked" THEN 2 ELSE IF ack = "failed" THEN 1 ELSE 0

\* The confirm queue has no "blocked": a blocked bridge record is a failed send.
QueueStatusOfAck(ack) == IF ack \in {"sent", "accepted"} THEN ack ELSE "failed"
=============================================================================
