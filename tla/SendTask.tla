------------------------------ MODULE SendTask ------------------------------
(***************************************************************************)
(* The task that shows the sending of one reply in the command center      *)
(* (tasks/manager.py and the task projections of send_commands.py).        *)
(*                                                                         *)
(* Every operator takes the stored task to the task one write leaves.      *)
(* Which bridge records a task waits for is spread over its metadata, its  *)
(* external id and its texts, and a write that brings new metadata         *)
(* replaces the old as a whole.                                            *)
(***************************************************************************)
EXTENDS Naturals, FiniteSetsExt, SendStatus

NoExternal == 0
Misread == 0    \* what a text that names a record together with its status is read as

ActiveTask == {"queued", "running", "waiting", "paused", "blocked"}
EndedTask == {"completed", "failed", "cancelled"}

NoTask(ids) ==
  [ st     |-> "absent",
    refs   |-> {},                        \* metadata: bridge_ids
    acks   |-> [b \in ids |-> "none"],    \* metadata: bridge_acks
    local  |-> {},                        \* metadata: parts that never were records
    ext    |-> NoExternal,                \* external_id
    said   |-> {},                        \* records named by detail and send_reason
    err    |-> {},                        \* records named by last_error
    summed |-> FALSE ]                    \* a text summarises the acknowledgements

NoneAcked(t) == [b \in DOMAIN t.acks |-> "none"]
Acked(t) == { b \in DOMAIN t.acks : t.acks[b] # "none" }
External(t) == {t.ext} \ {NoExternal}
Texts(t) == IF t.summed THEN {Misread} ELSE t.said \cup t.err

\* _task_references_bridge: any trace of the record will do.
Refers(t, b) == b \in t.refs \cup Acked(t) \cup External(t) \cup t.said \cup t.err

\* _bridge_ids_from_task.
TaskIds(t) == IF t.refs # {} THEN t.refs ELSE Acked(t) \cup External(t) \cup Texts(t)

TaskStatusOf(status) ==
  IF status \in {"sent", "accepted"} THEN "completed"
  ELSE IF status = "queued_to_bridge" THEN "queued" ELSE "failed"

\* _repair_bridge_send_tasks, before every create and update and in every list of
\* the tasks.  `known` has the acknowledgements of the records in the bridge.
RepairIds(t) == t.refs \cup External(t) \cup Texts(t)
Repaired(t, known) ==
  LET ids == RepairIds(t)
      end == IF \E b \in ids : known[b] = "failed" THEN "failed" ELSE "completed"
  IN IF t.st \in ActiveTask /\ ids # {} /\ \A b \in ids : b \in DOMAIN known /\ known[b] # "open"
     THEN [t EXCEPT !.st = end, !.refs = ids,
                    !.acks = [b \in DOMAIN t.acks |-> IF b \in ids THEN known[b] ELSE "none"],
                    !.said = @ \cup ids, !.err = IF end = "failed" THEN ids ELSE {}, !.summed = TRUE]
     ELSE t

\* _update_send_task_from_reply is two transactions.  create gives a task that
\* exists the metadata of a new one ...
Created(t, known) ==
  LET now == Repaired(t, known) IN
  [now EXCEPT !.st = IF @ = "absent" THEN "queued" ELSE @,
              !.refs = {}, !.acks = NoneAcked(t), !.local = {}]

\* ... and the transition brings its own detail; "release" is a block that says
\* why, and what ends the task says why too.
TaskOps == {"wait", "resume", "start", "block", "release", "cancel", "complete", "fail"}
StatusAfter(op) ==
  CASE op = "wait" -> "waiting" [] op = "resume" -> "queued" [] op = "start" -> "running"
    [] op \in {"block", "release"} -> "blocked" [] op = "cancel" -> "cancelled"
    [] op = "complete" -> "completed" [] op = "fail" -> "failed"
KeepsError(op) == op \notin {"release", "complete", "fail"}

Transitioned(t, known, op) ==
  LET now == Repaired(t, known) IN
  [now EXCEPT !.st = StatusAfter(op), !.said = {},
              !.err = IF KeepsError(op) THEN @ ELSE {},
              !.summed = @ /\ KeepsError(op) /\ now.err # {}]

\* _finish_send_task_from_result for a result with bridge records: one update.
Finished(t, known, result) ==
  LET queued == result.status = "queued_to_bridge" IN
  [Repaired(t, known) EXCEPT
     !.st = IF queued THEN "queued" ELSE "failed",
     !.refs = result.ids, !.acks = NoneAcked(t), !.local = result.local,
     !.ext = Min(result.ids), !.said = result.ids,
     !.err = IF queued THEN @ ELSE result.ids, !.summed = @ /\ queued]

\* _send_task_patch_for_bridge_ack: a completed task stays completed, and a task
\* that ended does not wait again.
PartOf(t, b) == IF b \in Acked(t) THEN t.acks[b] ELSE "queued_to_bridge"
ProjectedAlone(t, b, ack) ==   \* mutant: the other parts are not looked at
  [t EXCEPT !.refs = TaskIds(t) \cup {b}, !.acks[b] = QueueStatusOfAck(ack),
            !.st = TaskStatusOf(QueueStatusOfAck(ack))]

Projected(t, b, ack) ==
  LET ids  == TaskIds(t) \cup {b}
      next == [t EXCEPT !.refs = ids, !.acks[b] = QueueStatusOfAck(ack)]
      sum  == Aggregate({ PartOf(next, c) : c \in ids } \cup t.local, "failed")
  IN IF \/ t.st = "completed" /\ sum # "sent"
        \/ t.st \in EndedTask /\ sum = "queued_to_bridge"
     THEN [next EXCEPT !.err = IF t.st = "completed" THEN {} ELSE @]
     ELSE [next EXCEPT !.st = TaskStatusOf(sum), !.said = @ \cup (ids \ {Misread}),
                       !.err = IF sum = "failed" THEN ids \ {Misread} ELSE {}, !.summed = TRUE]

\* _requeue_send_tasks_for_bridge: `old` are the records that are retried.
Requeued(t, old, new) ==
  [t EXCEPT !.st = "queued",
            !.refs = { IF b \in old THEN new ELSE b : b \in TaskIds(t) },
            !.acks = [b \in DOMAIN t.acks |-> IF b \in old \cup {new} THEN "none" ELSE t.acks[b]],
            !.ext = IF @ \in old THEN new ELSE @,
            !.said = {new}, !.err = {}, !.summed = FALSE]
=============================================================================
