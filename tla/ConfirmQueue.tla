---------------------------- MODULE ConfirmQueue ----------------------------
(***************************************************************************)
(* The human confirmation queue (reply_gate/confirm_queue.py) and the      *)
(* invocations of send_approved_confirm_item that drain it.                *)
(*                                                                         *)
(* Every queue method runs under the queue's cross-process lock, so each   *)
(* is one action.  Between its queue calls a sender holds nothing but its  *)
(* claim token: the operator, the bridge worker, other senders and crashes *)
(* act in between.                                                         *)
(***************************************************************************)
EXTENDS Naturals, FiniteSets, SendStatus

CONSTANTS
  Items,         \* replies that can be put in the queue
  Senders,       \* concurrent invocations of send_approved_confirm_item
  Procs,         \* operating system processes that run them
  ProcOf,        \* the process of each sender
  NoItem,        \* a sender that works on no item
  MaxStart,      \* bound: how often one process can be started
  MaxIds         \* bound: how many bridge records can be created

ASSUME ProcOfAssumption == ProcOf \in [Senders -> Procs]
ASSUME NoItemAssumption == NoItem \notin Items
ASSUME MaxStartAssumption == MaxStart \in Nat
ASSUME MaxIdsAssumption == MaxIds \in Nat

Ids == 1 .. MaxIds
NoClaim == [by |-> "nobody", start |-> 0]
NoId == 0

VARIABLES
  status,   \* status of each item, or "absent" (never enqueued) / "removed"
  claim,    \* the active send_claim: the sender whose token it is, and the start
            \* marker of that sender's process
  refs,     \* bridge_ids: the bridge records the item waits for
  acks,     \* bridge_acks: the queue status acknowledged for each of them
  retryOf,  \* retry_of: the record the last retry replaced
  local,    \* statuses of the parts that never reached the bridge
  pc,       \* what each sender is about to do
  target,   \* the item it works on
  result,   \* what its driver call returned
  alive,    \* is the process running
  starts,   \* its start marker
  nextId,   \* bridge records created so far
  effects   \* history: driver calls for the item that may have had an effect

queueVars  == <<status, claim, refs, acks, retryOf, local>>
senderVars == <<pc, target, result>>
procVars   == <<alive, starts>>
vars == <<queueVars, senderVars, procVars, nextId, effects>>

\* A driver result: its status, whether it keeps the item approved, the bridge
\* records it created and the parts that failed before any record.
Result(st, stay, ids, lost) == [status |-> st, stay |-> stay, ids |-> ids, local |-> lost]
NoResult == Result("none", FALSE, {}, {})
StayApproved == Result("failed", TRUE, {}, {})
Results ==
  {StayApproved} \cup
  [ status : ResultStatuses, stay : {FALSE}, ids : SUBSET Ids, local : SUBSET {"failed"} ]

Present(i) == status[i] \notin {"absent", "removed"}
TokenOf(s) == [by |-> s, start |-> starts[ProcOf[s]]]

\* The pid runs and its start marker is the recorded one.
OwnerAlive(c) == alive[ProcOf[c.by]] /\ starts[ProcOf[c.by]] = c.start

\* Mutant: the claim of a dead process counts as free.
ClaimedAlive(i) == claim[i] # NoClaim /\ OwnerAlive(claim[i])

Claimed(i) == claim[i] # NoClaim

References(i, b) == b \in refs[i] \/ retryOf[i] = b

PartStatus(i, b, a) == IF a[i][b] = "none" THEN "queued_to_bridge" ELSE a[i][b]
PartStatuses(i, ids, a) == { PartStatus(i, b, a) : b \in ids }

Init ==
  /\ status = [i \in Items |-> "absent"]
  /\ claim = [i \in Items |-> NoClaim]
  /\ refs = [i \in Items |-> {}]
  /\ acks = [i \in Items |-> [b \in Ids |-> "none"]]
  /\ retryOf = [i \in Items |-> NoId]
  /\ local = [i \in Items |-> {}]
  /\ pc = [s \in Senders |-> "idle"]
  /\ target = [s \in Senders |-> NoItem]
  /\ result = [s \in Senders |-> NoResult]
  /\ alive = [p \in Procs |-> TRUE]
  /\ starts = [p \in Procs |-> 1]
  /\ nextId = 0
  /\ effects = [i \in Items |-> 0]

-----------------------------------------------------------------------------
(* Operator actions. *)

Enqueue(i) ==
  /\ status[i] = "absent"
  /\ status' = [status EXCEPT ![i] = "pending"]
  /\ UNCHANGED <<claim, refs, acks, retryOf, local, senderVars, procVars, nextId, effects>>

\* Mutant: the active claim is not looked at.
ReviewRegardless(i, to) ==
  /\ Present(i) /\ ValidTransition(status[i], to)
  /\ status' = [status EXCEPT ![i] = to]
  /\ UNCHANGED <<claim, refs, acks, retryOf, local, senderVars, procVars, nextId, effects>>

\* _transition without a token: refused while a send claim is active.
Review(i, to) ==
  /\ Present(i)
  /\ ~Claimed(i)
  /\ ValidTransition(status[i], to)
  /\ status' = [status EXCEPT ![i] = to]
  /\ UNCHANGED <<claim, refs, acks, retryOf, local, senderVars, procVars, nextId, effects>>

Approve(i) == Review(i, "approved")
Reject(i)  == Review(i, "rejected")

\* _repair_obsolete_sidebar_test_confirm_items lists the approved items and marks
\* them failed one by one later, without a token and without looking again.  What
\* can be marked failed at all was approved once, so some list may still hold it.
RetireObsolete(i) == Review(i, "failed")

Remove(i) ==
  /\ Present(i)
  /\ ~Claimed(i)
  /\ status' = [status EXCEPT ![i] = "removed"]
  /\ UNCHANGED <<claim, refs, acks, retryOf, local, senderVars, procVars, nextId, effects>>

-----------------------------------------------------------------------------
(* send_approved_confirm_item, between its calls into the queue. *)

Start(s, i) == pc[s] = "idle" /\ alive[ProcOf[s]] /\ status[i] = "approved"

\* Mutant: an approved item is claimed whoever holds it.
ClaimOverwritten(s, i) ==
  /\ Start(s, i)
  /\ claim' = [claim EXCEPT ![i] = TokenOf(s)]
  /\ pc' = [pc EXCEPT ![s] = "claimed"]
  /\ target' = [target EXCEPT ![s] = i]
  /\ UNCHANGED <<status, refs, acks, retryOf, local, result, procVars, nextId, effects>>

\* claim_approved_for_send on an item nobody claims.
ClaimGranted(s, i) ==
  /\ Start(s, i)
  /\ ~Claimed(i)
  /\ claim' = [claim EXCEPT ![i] = TokenOf(s)]
  /\ pc' = [pc EXCEPT ![s] = "claimed"]
  /\ target' = [target EXCEPT ![s] = i]
  /\ UNCHANGED <<status, refs, acks, retryOf, local, result, procVars, nextId, effects>>

\* ... on an item whose claimant died: the outcome of its send is unknown, so
\* the claim is retired to failed, never taken over.
ClaimRetired(s, i) ==
  /\ Start(s, i)
  /\ Claimed(i)
  /\ ~OwnerAlive(claim[i])
  /\ status' = [status EXCEPT ![i] = "failed"]
  /\ claim' = [claim EXCEPT ![i] = NoClaim]
  /\ UNCHANGED <<refs, acks, retryOf, local, senderVars, procVars, nextId, effects>>

\* execute_confirmed.  A text-only send can stop at a precondition that keeps the
\* item approved; otherwise every part is queued to the bridge, sent by the
\* driver itself, or fails locally, and an exception tells nothing.
PreconditionFails(s) ==
  /\ result' = [result EXCEPT ![s] = StayApproved]
  /\ UNCHANGED <<nextId, effects>>

PartsQueued(s) ==
  \E n \in 1 .. (MaxIds - nextId), lost \in SUBSET {"failed"} :
    /\ result' = [result EXCEPT ![s] =
         Result(Aggregate({"queued_to_bridge"} \cup lost, "failed"), FALSE,
                (nextId + 1) .. (nextId + n), lost)]
    /\ nextId' = nextId + n
    /\ effects' = [effects EXCEPT ![target[s]] = @ + 1]

DriverAnswers(s) ==
  \E answer \in {"sent", "accepted", "failed"}, landed \in {0, 1} :
    /\ answer \in {"sent", "accepted"} => landed = 1
    /\ result' = [result EXCEPT ![s] = Result(answer, FALSE, {}, {})]
    /\ effects' = [effects EXCEPT ![target[s]] = @ + landed]
    /\ UNCHANGED nextId

\* The driver and the executor are set up, and the task is told.
Begin(s) ==
  /\ pc[s] = "claimed"
  /\ pc' = [pc EXCEPT ![s] = "begun"]
  /\ UNCHANGED <<queueVars, target, result, procVars, nextId, effects>>

Execute(s) ==
  /\ pc[s] = "begun"
  /\ pc' = [pc EXCEPT ![s] = "executed"]
  /\ PreconditionFails(s) \/ PartsQueued(s) \/ DriverAnswers(s)
  /\ UNCHANGED <<queueVars, target, procVars>>

\* release_send_claim and mark_send_result both demand the caller's token.
HoldsClaim(s) == status[target[s]] = "approved" /\ claim[target[s]] = TokenOf(s)

SenderDone(s) ==
  /\ pc' = [pc EXCEPT ![s] = "idle"]
  /\ target' = [target EXCEPT ![s] = NoItem]
  /\ result' = [result EXCEPT ![s] = NoResult]
  /\ UNCHANGED <<procVars, nextId, effects>>

\* _send_result_should_stay_approved.
StaysApproved(s) == result[s].stay

\* The driver could not be set up, or the result says the item stays approved.
Release(s) ==
  /\ pc[s] = "claimed" \/ (pc[s] = "executed" /\ StaysApproved(s))
  /\ HoldsClaim(s)
  /\ claim' = [claim EXCEPT ![target[s]] = NoClaim]
  /\ UNCHANGED <<status, refs, acks, retryOf, local>>
  /\ SenderDone(s)

MarkResult(s) ==
  LET i == target[s] IN
  /\ pc[s] = "executed" /\ ~StaysApproved(s)
  /\ HoldsClaim(s)
  /\ ValidTransition(status[i], result[s].status)
  /\ status' = [status EXCEPT ![i] = result[s].status]
  /\ claim' = [claim EXCEPT ![i] = NoClaim]
  /\ refs' = [refs EXCEPT ![i] = IF result[s].ids = {} THEN @ ELSE result[s].ids]
  /\ acks' = [acks EXCEPT ![i] = IF result[s].ids = {} THEN @ ELSE [b \in Ids |-> "none"]]
  /\ local' = [local EXCEPT ![i] = result[s].local]
  /\ UNCHANGED retryOf
  /\ SenderDone(s)

\* The queue refuses the token, or its database cannot be written: the exception
\* leaves send_approved_confirm_item and whatever claim there is stays.
QueueWriteFails(s) ==
  /\ pc[s] \in {"claimed", "executed"}
  /\ UNCHANGED queueVars
  /\ SenderDone(s)
-----------------------------------------------------------------------------
(* Processes die and are started again, under a new start marker. *)

Crash(p) ==
  /\ alive[p]
  /\ alive' = [alive EXCEPT ![p] = FALSE]
  /\ pc' = [s \in Senders |-> IF ProcOf[s] = p THEN "idle" ELSE pc[s]]
  /\ target' = [s \in Senders |-> IF ProcOf[s] = p THEN NoItem ELSE target[s]]
  /\ result' = [s \in Senders |-> IF ProcOf[s] = p THEN NoResult ELSE result[s]]
  /\ UNCHANGED <<queueVars, starts, nextId, effects>>

\* The driver call reached the outside world and the process died before it
\* could write anything down.
CrashDuringSend(p) ==
  \E s \in Senders :
    /\ ProcOf[s] = p /\ pc[s] = "begun" /\ alive[p]
    /\ alive' = [alive EXCEPT ![p] = FALSE]
    /\ pc' = [r \in Senders |-> IF ProcOf[r] = p THEN "idle" ELSE pc[r]]
    /\ target' = [r \in Senders |-> IF ProcOf[r] = p THEN NoItem ELSE target[r]]
    /\ result' = [r \in Senders |-> IF ProcOf[r] = p THEN NoResult ELSE result[r]]
    /\ effects' = [effects EXCEPT ![target[s]] = @ + 1]
    /\ UNCHANGED <<queueVars, starts, nextId>>

Restart(p) ==
  /\ ~alive[p] /\ starts[p] < MaxStart
  /\ alive' = [alive EXCEPT ![p] = TRUE]
  /\ starts' = [starts EXCEPT ![p] = @ + 1]
  /\ UNCHANGED <<queueVars, senderVars, nextId, effects>>

-----------------------------------------------------------------------------
(* The bridge side: an acknowledgement for one record reaches the item that *)
(* references it (update_referencing_bridge with the callback of            *)
(* sync_bridge_ack_to_send_state), or a retry replaces the record.          *)

\* The item's parts after acknowledgement `ack` of record b.  An id the item
\* references without expecting it becomes an expected part.
AckedRefs(i, b)      == refs[i] \cup {b}
AckedAcks(i, b, ack) == [acks[i] EXCEPT ![b] = QueueStatusOfAck(ack)]
LatestAckOnly(i, b, ack) == QueueStatusOfAck(ack)   \* mutant: the other parts are forgotten

AckedStatus(i, b, ack) ==
  Aggregate(PartStatuses(i, AckedRefs(i, b), [acks EXCEPT ![i] = AckedAcks(i, b, ack)]) \cup local[i], "failed")

\* A delivered item is never downgraded: the callback returns it unchanged.
PreservedSent(i, b, ack) == status[i] = "sent" /\ AckedStatus(i, b, ack) # "sent"

ApplyBridgeAck(i, b, ack) ==
  /\ Present(i) /\ ~Claimed(i) /\ References(i, b)
  /\ ~PreservedSent(i, b, ack)
  /\ ValidTransition(status[i], AckedStatus(i, b, ack))
  /\ status' = [status EXCEPT ![i] = AckedStatus(i, b, ack)]
  /\ refs' = [refs EXCEPT ![i] = AckedRefs(i, b)]
  /\ acks' = [acks EXCEPT ![i] = AckedAcks(i, b, ack)]
  /\ UNCHANGED <<claim, retryOf, local>>

\* requeue_bridge_result: `old` are the retry parent and its ancestors.  The
\* status is recomputed from the remaining parts, outside the transition table
\* and without the parts that failed locally.
RequeuedRefs(i, old, new) == (refs[i] \ old) \cup {new}
RequeuedAcks(i, old, new) == [b \in Ids |-> IF b \in old \cup {new} THEN "none" ELSE acks[i][b]]

RequeueBridgeResult(i, parent, old, new) ==
  /\ Present(i) /\ ~Claimed(i) /\ status[i] # "rejected"
  /\ \E b \in old : References(i, b)
  /\ refs' = [refs EXCEPT ![i] = RequeuedRefs(i, old, new)]
  /\ acks' = [acks EXCEPT ![i] = RequeuedAcks(i, old, new)]
  /\ status' = [status EXCEPT ![i] =
       Aggregate(PartStatuses(i, refs'[i], acks'), "queued_to_bridge")]
  /\ retryOf' = [retryOf EXCEPT ![i] = parent]
  /\ UNCHANGED <<claim, local>>

\* Standing alone, the queue gets any terminal ack for an existing record, and a
\* retry of any record that was not accepted ("sent" may have been a dry run).
BridgeAck(i, b, ack) ==
  /\ ApplyBridgeAck(i, b, ack)
  /\ UNCHANGED <<senderVars, procVars, nextId, effects>>

BridgeRetry(i, b) ==
  /\ nextId < MaxIds
  /\ b \in refs[i] /\ acks[i][b] # "accepted"
  /\ RequeueBridgeResult(i, b, {b}, nextId + 1)
  /\ nextId' = nextId + 1
  /\ UNCHANGED <<senderVars, procVars, effects>>

-----------------------------------------------------------------------------
OperatorStep(i) == Enqueue(i) \/ Approve(i) \/ Reject(i) \/ RetireObsolete(i) \/ Remove(i)

SenderStep(s) ==
  \/ \E i \in Items : ClaimGranted(s, i) \/ ClaimRetired(s, i)
  \/ Begin(s) \/ Execute(s) \/ Release(s) \/ MarkResult(s) \/ QueueWriteFails(s)

ProcStep(p) == Crash(p) \/ CrashDuringSend(p) \/ Restart(p)

BridgeStep(i) ==
  \E b \in 1 .. nextId : BridgeRetry(i, b) \/ \E ack \in TerminalAcks : BridgeAck(i, b, ack)

Next ==
  \/ \E i \in Items : OperatorStep(i) \/ BridgeStep(i)
  \/ \E s \in Senders : SenderStep(s)
  \/ \E p \in Procs : ProcStep(p)

Spec == Init /\ [][Next]_vars

-----------------------------------------------------------------------------
(* Properties *)

TypeOK ==
  /\ status \in [Items -> QueueStatuses \cup {"absent", "removed"}]
  /\ claim \in [Items -> {NoClaim} \cup [by : Senders, start : Nat]]
  /\ refs \in [Items -> SUBSET Ids]
  /\ acks \in [Items -> [Ids -> {"none"} \cup ResultStatuses]]
  /\ retryOf \in [Items -> Ids \cup {NoId}]
  /\ local \in [Items -> SUBSET {"failed"}]
  /\ pc \in [Senders -> {"idle", "claimed", "begun", "executed"}]
  /\ target \in [Senders -> Items \cup {NoItem}]
  /\ result \in [Senders -> Results \cup {NoResult}]
  /\ alive \in [Procs -> BOOLEAN]
  /\ starts \in [Procs -> Nat \ {0}]
  /\ nextId \in 0 .. MaxIds
  /\ effects \in [Items -> Nat]

\* One approved item causes at most one driver call with an outside effect, for
\* any number of concurrent senders, crashes and restarts
\* (claim_approved_for_send: "a single send invocation", "at-most-once delivery").
AtMostOneSend == \A i \in Items : effects[i] <= 1

\* After a driver call that may have had an effect the item is never open for
\* another sender again: while it is still approved, its claim is still held.
NeverReopenedAfterSend ==
  \A i \in Items : effects[i] > 0 /\ status[i] = "approved" => Claimed(i)

\* A sender that is between its claim and its result still holds the claim on
\* an approved item, whatever the operator, the bridge and other processes did.
SenderHoldsClaim ==
  \A s \in Senders : pc[s] # "idle" => HoldsClaim(s)

\* A claim ends only by its own sender, or, once that sender's process is gone,
\* by failing the item: nobody takes a claim over.
ClaimNeverStolen ==
  [][ \A i \in Items : Claimed(i) /\ claim'[i] # claim[i] =>
        \/ pc[claim[i].by] # "idle" /\ pc'[claim[i].by] = "idle" /\ OwnerAlive(claim[i])
        \/ ~OwnerAlive(claim[i]) /\ claim'[i] = NoClaim /\ status'[i] = "failed" ]_vars

\* Once the operator has rejected or removed a reply nothing is sent for it, even
\* by a sender that was already running.
NothingSentAfterRejection ==
  [][ \A i \in Items : status[i] \in {"rejected", "removed"} =>
        effects'[i] = effects[i] /\ status'[i] \in {"rejected", "removed"} ]_vars
=============================================================================
