---------------------------- MODULE SendPipeline ----------------------------
(***************************************************************************)
(* The confirm queue composed with the bridge and the send tasks: how the  *)
(* acknowledgements of bridge records reach the reply in the queue and the *)
(* task that shows it.                                                     *)
(*                                                                         *)
(* An acknowledgement is durable first and projected later, by whoever     *)
(* wrote it or by the reconciliation of a later tick; a marker remembers   *)
(* which projections are complete, and compaction drops the records whose  *)
(* marker is current.  Meanwhile the operator retries failed records and   *)
(* may ask once more for a reply that was sent.  Queue and task are two    *)
(* stores: every projection writes one after the other.                    *)
(*                                                                         *)
(* Queue and senders are ConfirmQueue's, in a process that lives on; the   *)
(* bridge that stands in for the real one there is replaced by the outcome *)
(* of each record (SendBridge has the rest).                               *)
(***************************************************************************)
EXTENDS ConfirmQueue, RetryLineage, SendTask

CONSTANTS
  KeepResolved,   \* resolved records that compaction keeps
  Budgets         \* bounds: how many parts, retries, further sends of a reply, failed
                  \* writes, removed replies, late writes to the queue, overtaken writes
                  \* to a task and records settled by hand one behaviour may have, and
                  \* how many writes to the tasks may be under way at a time

ASSUME KeepAssumption == KeepResolved \in Nat
ASSUME BudgetAssumption ==
  Budgets \subseteq [parts : Nat, retries : Nat, again : Nat, faults : Nat, removed : Nat,
                      late : Nat, overtaken : Nat, settled : Nat, owed : Nat]

VARIABLES
  held,      \* the records in the bridge files
  ready,     \* ... that are activated
  parent,    \* retry_of
  outcome,   \* effective terminal acknowledgement, "open" until there is one
  byHand,    \* the records the operator acknowledged
  marker,    \* the acknowledgement whose projection the synced marker proves
  tick,      \* the worker's tick: "start" until it has reconciled, then "deliver"
  batch,     \* the records this tick delivers
  jobs,      \* projections under way
  retrying,  \* successors that retry_bridge_item calls have to give to the queue
  moving,    \* ... and, the queue having them, to the task
  task,      \* the send task of each reply
  telling,   \* task writes somebody has still to make: of which reply, which
             \* operation, and which of its two transactions is next
  posting,   \* the marked result with records a sender has still to give to the task
  spent      \* what was used of a budget, and how many writes may be under way

recordVars == <<held, ready, parent, outcome, byHand>>
workerVars == <<marker, tick, batch>>
retryVars  == <<retrying, moving>>
taskVars   == <<task, telling, posting>>
pvars == <<vars, recordVars, workerVars, retryVars, taskVars, jobs, spent>>

Outcomes == {"sent", "accepted", "failed"}
Job(who, b, ack) == [who |-> who, id |-> b, ack |-> ack, at |-> "queue"]
WorkerBusy == \E j \in jobs : j.who = "worker"

\* The bounds: some budget allows it.
Spend(kind, more) ==
  /\ spent' = [spent EXCEPT ![kind] = @ + more]
  /\ \E most \in Budgets : \A k \in DOMAIN most : spent'[k] <= most[k]
Faulty == Spend("faults", 1)

\* The acknowledgements a repair of the tasks reads.
Known == [b \in held |-> outcome[b]]

Ancestors(b) == AncestorsIn(parent, b)
Descendants(b) == DescendantsIn(parent, held, b)

PInit ==
  /\ Init
  /\ held = {} /\ ready = {}
  /\ parent = [b \in Ids |-> NoRecord]
  /\ outcome = [b \in Ids |-> "open"] /\ byHand = {}
  /\ marker = [b \in Ids |-> "none"]
  /\ tick = "start" /\ batch = {}
  /\ jobs = {} /\ retrying = {} /\ moving = {}
  /\ task = [i \in Items |-> NoTask(Ids)]
  /\ telling = {}
  /\ posting = [i \in Items |-> NoResult]
  /\ \E most \in Budgets :
       spent = [parts |-> 0, retries |-> 0, again |-> 0, faults |-> 0, removed |-> 0,
                late |-> 0, overtaken |-> 0, settled |-> 0, owed |-> most.owed]

\* What ConfirmQueue does on its own.  Whoever changes the queue has then to tell
\* the task, with no lock held in between.  The bounds: so many writes are under way
\* at a time, and each operation on a reply once.
Owed(i, op) == \E w \in telling : w.item = i /\ w.op = op
Owes(i, op) ==
  /\ ~Owed(i, op) /\ Cardinality(telling) < spent.owed
  /\ telling' = telling \cup {[item |-> i, op |-> op, at |-> "create"]}
  /\ UNCHANGED <<task, posting>>
TellsNothing == UNCHANGED taskVars

OperatorTells ==
  \E i \in Items :
    \/ Remove(i) /\ Spend("removed", 1) /\ Owes(i, "cancel")
    \/ /\ RetireObsolete(i) /\ Owes(i, "cancel")
       /\ IF status[i] = "approved" THEN UNCHANGED spent ELSE Spend("late", 1)
    \/ /\ UNCHANGED spent
       /\ \/ Enqueue(i) /\ Owes(i, "wait")
          \/ Approve(i) /\ Owes(i, "resume")
          \/ Reject(i) /\ Owes(i, "cancel")

\* A result with bridge records is one write to the task (PublishTask).
SenderEnds(i, r) ==
  IF r.ids = {} THEN Owes(i, IF r.status = "sent" THEN "complete" ELSE "fail")
  ELSE posting' = [posting EXCEPT ![i] = r] /\ UNCHANGED <<task, telling>>

\* The driver is called when the task shows that the send began.
SenderTells ==
  \E s \in Senders :
    \/ Execute(s) /\ ~Owed(target[s], "start") /\ Spend("parts", nextId' - nextId) /\ TellsNothing
    \/ /\ UNCHANGED spent
       /\ \/ (\E i \in Items : ClaimGranted(s, i)) /\ TellsNothing
          \/ Begin(s) /\ Owes(target[s], "start")
          \/ Release(s) /\ Owes(target[s], "release")
          \/ MarkResult(s) /\ SenderEnds(target[s], result[s])
          \/ QueueWriteFails(s) /\ TellsNothing

QueueStep ==
  /\ OperatorTells \/ SenderTells
  /\ held' = held \cup (nextId + 1 .. nextId')
  /\ UNCHANGED <<ready, parent, outcome, byHand, workerVars, retryVars, jobs>>

\* The two transactions of a task write.  One that belongs to the time before the
\* send and comes after its result is overtaken.
Overtaken(w) ==
  /\ w.op \in {"wait", "resume", "start", "release"}
  /\ Present(w.item) /\ refs[w.item] # {} /\ posting[w.item] = NoResult

CreateTask(w) ==
  /\ w.at = "create"
  /\ task' = [task EXCEPT ![w.item] = Created(@, Known)]
  /\ telling' = (telling \ {w}) \cup {[w EXCEPT !.at = "move"]}

TransitionTask(w) ==
  /\ w.at = "move"
  /\ task' = [task EXCEPT ![w.item] = Transitioned(@, Known, w.op)]
  /\ telling' = telling \ {w}

\* ... either can fail; the exception is swallowed.
TellTask(w) ==
  /\ w \in telling
  /\ \/ /\ CreateTask(w) \/ TransitionTask(w)
        /\ IF Overtaken(w) THEN Spend("overtaken", 1) ELSE UNCHANGED spent
     \/ Faulty /\ telling' = telling \ {w} /\ UNCHANGED task
  /\ UNCHANGED <<vars, recordVars, workerVars, retryVars, posting, jobs>>

\* The end of send_approved_confirm_item: the task gets the result, and the parts,
\* which nobody has touched so far, are activated.
PublishTask(i) ==
  /\ posting[i] # NoResult
  /\ task' = [task EXCEPT ![i] = Finished(@, Known, posting[i])]
  /\ ready' = ready \cup posting[i].ids
  /\ posting' = [posting EXCEPT ![i] = NoResult]
  /\ UNCHANGED <<vars, held, parent, outcome, byHand, workerVars, retryVars, telling, jobs, spent>>

\* ... when the ledger, the task or the activation fails, every staged part is
\* failed and that is projected.
PublishFails(i) ==
  /\ posting[i] # NoResult
  /\ Faulty
  /\ task' \in {task, [task EXCEPT ![i] = Finished(@, Known, posting[i])]}
  /\ outcome' = [b \in Ids |-> IF b \in posting[i].ids THEN "failed" ELSE outcome[b]]
  /\ jobs' = jobs \cup { Job("sender", b, "failed") : b \in posting[i].ids }
  /\ posting' = [posting EXCEPT ![i] = NoResult]
  /\ UNCHANGED <<vars, held, ready, parent, byHand, workerVars, retryVars, telling>>

\* send_approved_confirm_item for a reply that is not approved: as nobody else is
\* sending it the task is to be blocked.
SecondSend(i) ==
  /\ Spend("again", 1)
  /\ Present(i) /\ status[i] # "approved"
  /\ Owes(i, "block")
  /\ UNCHANGED <<vars, recordVars, workerVars, retryVars, jobs>>

\* The command center lists the tasks.
Repair(i) ==
  /\ Repaired(task[i], Known) # task[i]
  /\ task' = [task EXCEPT ![i] = Repaired(@, Known)]
  /\ UNCHANGED <<vars, recordVars, workerVars, retryVars, telling, posting, jobs, spent>>

\* _reconcile_unsynced_acks at the start of a tick: everything whose marker is not
\* current.  The records to deliver are read once, after that.
NeverSynced == { b \in held : outcome[b] # "open" /\ marker[b] = "none" }   \* mutant
Unsynced == { b \in held : outcome[b] # "open" /\ marker[b] # outcome[b] }
Reconcile ==
  /\ ~WorkerBusy /\ tick = "start"
  /\ tick' = "deliver"
  /\ batch' = { b \in held \cap ready : outcome[b] = "open" }
  /\ jobs' = jobs \cup { Job("worker", b, outcome[b]) : b \in Unsynced }
  /\ UNCHANGED <<vars, recordVars, marker, retryVars, taskVars, spent>>

\* The worker decides a record, or reads back that one it sent and that was accepted
\* arrived, and projects that before it does anything else.
WorkerDecides(b, to) ==
  /\ ~WorkerBusy /\ tick = "deliver"
  /\ \/ b \in batch /\ outcome[b] = "open"
     \/ b \in held \ byHand /\ outcome[b] = "accepted" /\ to = "sent"
  /\ outcome' = [outcome EXCEPT ![b] = to]
  /\ jobs' = jobs \cup {Job("worker", b, to)}
  /\ UNCHANGED <<vars, held, ready, parent, byHand, workerVars, retryVars, taskVars, spent>>

\* ack_sidebar_bridge_item: the operator settles a queued record by hand, with any
\* terminal status; without a backend's answer nobody reads back what became of it.
OperatorSettles(b, to) ==
  /\ b \in held \cap ready /\ outcome[b] = "open"
  /\ outcome' = [outcome EXCEPT ![b] = to]
  /\ byHand' = byHand \cup {b}
  /\ jobs' = jobs \cup {Job("operator", b, to)}
  /\ Spend("settled", 1)
  /\ UNCHANGED <<vars, held, ready, parent, workerVars, retryVars, taskVars>>

-----------------------------------------------------------------------------
(* sync_bridge_ack_to_send_state for one job: the queue, then the task.  Each of *)
(* the callers projects one record after the other.                              *)

Referencing(b) == { i \in Items : Present(i) /\ References(i, b) }

\* The queue is updated, or already shows the reply as sent.
QueueShows(j) ==
  \E i \in Referencing(j.id) :
    \/ ApplyBridgeAck(i, j.id, j.ack)
    \/ ~Claimed(i) /\ PreservedSent(i, j.id, j.ack) /\ UNCHANGED queueVars

\* Nobody references the record, the item is being sent, or the transition is
\* refused: the projection is not complete.
QueueRefuses(j) ==
  \A i \in Referencing(j.id) :
    \/ Claimed(i)
    \/ ~PreservedSent(i, j.id, j.ack) /\ ~ValidTransition(status[i], AckedStatus(i, j.id, j.ack))

SyncQueue(j) ==
  /\ j \in jobs /\ j.at = "queue"
  /\ \A k \in jobs : k.who = j.who => k.at = "queue"
  /\ \E at \in {"shown", "refused"} :
       /\ jobs' = (jobs \ {j}) \cup {[j EXCEPT !.at = at]}
       /\ IF at = "shown" THEN QueueShows(j) /\ UNCHANGED spent
          ELSE \/ QueueRefuses(j) /\ UNCHANGED <<queueVars, spent>>
               \/ /\ Faulty
                  /\ QueueShows(j) \/ UNCHANGED queueVars
  /\ UNCHANGED <<senderVars, procVars, nextId, effects, recordVars, workerVars, retryVars, taskVars>>

\* Only the worker keeps markers, and only of what reached queue and task.
Showing(b) == { i \in Items : Refers(task[i], b) }
TasksFollow(j) ==
  task' = [i \in Items |-> IF i \in Showing(j.id) THEN Projected(task[i], j.id, j.ack) ELSE task[i]]
Mark(j) ==
  marker' = IF j.who = "worker" /\ j.at = "shown" /\ Showing(j.id) # {}
            THEN [marker EXCEPT ![j.id] = j.ack] ELSE marker

SyncTask(j) ==
  /\ j \in jobs /\ j.at # "queue"
  /\ jobs' = jobs \ {j}
  /\ \/ TasksFollow(j) /\ Mark(j) /\ UNCHANGED spent
     \/ /\ Faulty
        /\ TasksFollow(j) \/ UNCHANGED task
        /\ UNCHANGED marker
  /\ UNCHANGED <<vars, recordVars, tick, batch, retryVars, telling, posting>>

Sync(j) == SyncQueue(j) \/ SyncTask(j)

-----------------------------------------------------------------------------
(* retry_bridge_item: a successor first, then the projections. *)

CanRetryRecord(b) ==   \* mutant: what became of the successors is not looked at
  /\ Spend("retries", 1)
  /\ b \in held /\ outcome[b] = "failed"

CanRetry(b) ==
  /\ Spend("retries", 1)
  /\ b \in held /\ outcome[b] = "failed"
  /\ \A d \in Descendants(b) : outcome[d] \in {"open", "failed"}

ReuseSuccessor(b) ==
  LET live == { d \in Descendants(b) : outcome[d] = "open" } IN
  /\ CanRetry(b) /\ live # {}
  /\ retrying' = retrying \cup {Max(live)}
  /\ UNCHANGED <<vars, recordVars, workerVars, moving, taskVars, jobs>>

CreateSuccessor(b) ==
  LET new == nextId + 1 IN
  /\ CanRetry(b) /\ \A d \in Descendants(b) : outcome[d] # "open"
  /\ new \in Ids /\ nextId' = new
  /\ held' = held \cup {new}
  /\ parent' = [parent EXCEPT ![new] = Max({b} \cup Descendants(b))]
  /\ retrying' = retrying \cup {new}
  /\ UNCHANGED <<queueVars, senderVars, procVars, effects, ready, outcome, byHand, workerVars, moving, taskVars, jobs>>

\* The queue moves from all the ancestors to the successor, then the task, and the
\* successor is activated; one that was decided meanwhile is projected instead.
Line(b) == {b} \cup Ancestors(b)
MoveQueue(b) ==
  /\ b \in retrying /\ retrying' = retrying \ {b}
  /\ \E i \in Items : RequeueBridgeResult(i, parent[b], Line(b), b)
  /\ moving' = moving \cup {b}
  /\ UNCHANGED <<senderVars, procVars, nextId, effects, recordVars, workerVars, taskVars, jobs, spent>>

Moved(b) == { i \in Items : \E a \in Line(b) : Refers(task[i], a) }
TasksMove(b) ==
  task' = [i \in Items |-> IF i \in Moved(b) THEN Requeued(task[i], Line(b), b) ELSE task[i]]

MoveTask(b) ==
  /\ b \in moving /\ moving' = moving \ {b}
  /\ Moved(b) # {} /\ TasksMove(b)
  /\ ready' = ready \cup {b}
  /\ jobs' = IF outcome[b] = "open" THEN jobs ELSE jobs \cup {Job("operator", b, outcome[b])}
  /\ UNCHANGED <<vars, held, parent, outcome, byHand, workerVars, retrying, telling, posting, spent>>

\* A successor that queue or task do not know is failed; when one of them cannot be
\* written it stays staged.
QueueLacks(b) ==
  b \in retrying /\ \A i \in Items, a \in Line(b) : i \notin Referencing(a)

MoveMissing(b) ==
  /\ QueueLacks(b) \/ (b \in moving /\ Moved(b) = {})
  /\ TasksMove(b)
  /\ outcome' = [outcome EXCEPT ![b] = IF @ = "open" THEN "failed" ELSE @]
  /\ retrying' = retrying \ {b} /\ moving' = moving \ {b}
  /\ UNCHANGED <<vars, held, ready, parent, byHand, workerVars, telling, posting, jobs, spent>>

MoveFails(b) ==
  /\ b \in retrying \cup moving /\ Faulty
  /\ retrying' = retrying \ {b} /\ moving' = moving \ {b}
  /\ UNCHANGED <<vars, recordVars, workerVars, taskVars, jobs>>

-----------------------------------------------------------------------------
(* compact: keep what is open, accepted, not projected, or new, and all that *)
(* those records retry.                                                      *)

Resolved == { b \in held : outcome[b] \in {"sent", "failed"} /\ marker[b] = outcome[b] }
Newest(S, n) == { b \in S : Cardinality({ c \in S : c > b }) < n }
Kept ==
  LET direct == (held \ Resolved) \cup Newest(Resolved, KeepResolved)
  IN direct \cup (held \cap UNION { Ancestors(b) : b \in direct })

\* The end of a tick; every so many ticks it compacts.
TickEnds ==
  /\ ~WorkerBusy /\ tick = "deliver"
  /\ tick' = "start" /\ batch' = {}
  /\ held' \in {held, Kept}
  /\ UNCHANGED <<vars, ready, parent, outcome, byHand, marker, jobs, retryVars, taskVars, spent>>

-----------------------------------------------------------------------------
Move(b) == MoveQueue(b) \/ MoveTask(b) \/ MoveMissing(b) \/ MoveFails(b)

BridgeWorkerStep ==
  \/ \E b \in Ids, to \in Outcomes : WorkerDecides(b, to)
  \/ Reconcile \/ TickEnds

PNext ==
  \/ QueueStep
  \/ \E i \in Items : PublishTask(i) \/ PublishFails(i) \/ SecondSend(i) \/ Repair(i)
  \/ \E w \in telling : TellTask(w)
  \/ BridgeWorkerStep
  \/ \E j \in jobs : Sync(j)
  \/ \E b \in Ids, to \in Outcomes : OperatorSettles(b, to)
  \/ \E b \in Ids : ReuseSuccessor(b) \/ CreateSuccessor(b) \/ Move(b)

PSpec == PInit /\ [][PNext]_pvars

\* The worker is one thread that goes on: it ticks, and ends the projections it began.
WorkerGoesOn == Reconcile \/ TickEnds \/ \E j \in jobs : j.who = "worker" /\ Sync(j)

PFairSpec == PSpec /\ WF_pvars(WorkerGoesOn)

-----------------------------------------------------------------------------
(* Properties *)

PTypeOK ==
  /\ TypeOK
  /\ ready \subseteq Ids /\ held \subseteq 1 .. nextId
  /\ parent \in [Ids -> Ids \cup {NoRecord}]
  /\ outcome \in [Ids -> Outcomes \cup {"open"}] /\ byHand \subseteq Ids
  /\ marker \in [Ids -> Outcomes \cup {"none"}]
  /\ tick \in {"start", "deliver"} /\ batch \subseteq Ids
  /\ jobs \subseteq [ who : {"worker", "operator", "sender"}, id : Ids, ack : Outcomes,
                       at : {"queue", "shown", "refused"} ]
  /\ retrying \cup moving \subseteq Ids
  /\ \A i \in Items : task[i].st \in ActiveTask \cup EndedTask \cup {"absent"}
  /\ telling \subseteq [item : Items, op : TaskOps, at : {"create", "move"}]

\* Nothing is open, under way, or waiting for the reconciliation, but for records
\* that were retried: nothing refers to those any more.
Replaced(b) == Descendants(b) # {}
Quiet ==
  /\ jobs = {} /\ retrying \cup moving = {}
  /\ \A i \in Items : posting[i] = NoResult
  /\ \A b \in held : outcome[b] # "open" /\ (b \in Unsynced => Replaced(b))

\* The part of the reply that a record was first created for.
Part(b) == CHOOSE r \in {b} \cup Ancestors(b) : parent[r] = NoRecord

\* The records that stand for the parts of a reply: the newest for each.
Leaves(i) ==
  { b \in 1 .. nextId : /\ Part(b) \in { Part(r) : r \in refs[i] }
                        /\ \A c \in 1 .. nextId : Part(c) = Part(b) => c <= b }

\* When everything is acknowledged and projected, the queue shows what happened to
\* the newest record of every part.
Converged ==
  Quiet => \A i \in Items : Present(i) /\ refs[i] # {} =>
    status[i] = Aggregate({ outcome[b] : b \in Leaves(i) } \cup local[i], "failed")

\* The same while nothing was retried and nobody wrote to the queue what was no
\* longer so, whatever order the acknowledgements of the parts were projected in
\* and however often (sync_bridge_ack_to_send_state).
ConvergedUnlessRetried == spent.retries = 0 /\ spent.late = 0 => Converged

\* A part that was delivered is not delivered again by a retry, whatever was
\* compacted in between.
Delivered(b) == outcome[b] \in {"sent", "accepted"}
DeliveredOnce ==
  \A a, b \in 1 .. nextId : Delivered(a) /\ Delivered(b) /\ Part(a) = Part(b) => a = b

\* The queue never shows more than happened: a reply shown as sent has no part
\* whose newest record failed or is undecided.
NeverOverstated ==
  \A i \in Items : status[i] = "sent" /\ refs[i] # {} =>
    \A b \in refs[i] : outcome[b] = "sent"

\* When everything is acknowledged and projected, the task shows what the queue
\* shows, in whatever order the two were written and whatever was listed and
\* repaired in between, unless the operator retried or asked again, or a write that
\* belongs before the send was made after it.
TaskShows == \A i \in Items : Present(i) /\ refs[i] # {} => task[i].st = TaskStatusOf(status[i])
TaskAgrees ==
  Quiet /\ spent.retries + spent.again + spent.late + spent.overtaken = 0 => TaskShows

\* A reply that waits for its records is not shown as blocked by a sender that gave
\* its claim back before ("The winner owns the task projection. A concurrent loser
\* must not overwrite its running task with a false blocked state.",
\* send_commands.py:308).
WinnerOwnsTask ==
  spent.retries + spent.again + spent.late + spent.faults = 0 =>
    \A i \in Items : status[i] = "queued_to_bridge" /\ posting[i] = NoResult =>
      task[i].st # "blocked"

\* Acknowledgements whose first projection failed are projected in the end, all
\* whose record both the queue and a task still know (_reconcile_unsynced_acks).
\* A retry, a second send, a removal or a failed write can make one of the two
\* forget a record: it then stays unsynced for good.
AllProjected ==
  \A b \in held : outcome[b] # "open" /\ Referencing(b) # {} /\ Showing(b) # {} =>
    marker[b] = outcome[b]
AlwaysProjected == []<>AllProjected

\* ... unless somebody wrote to the queue what was no longer so.
EventuallyProjected == []<>(spent.late = 0 => AllProjected)
=============================================================================
