------------------------ MODULE SendPipeline_proofs ------------------------
(***************************************************************************)
(* Theorems about the queue on its own and about the composed system.      *)
(*                                                                         *)
(* The queue: at most one send per approved reply, for any number of       *)
(* replies, senders and processes.  IInv adds to the safety invariants     *)
(* what links a running sender to its claim (SenderOK), a claim to the     *)
(* item's status (ClaimOK) and an untouched item to its history            *)
(* (UntouchedOK).                                                          *)
(*                                                                         *)
(* The composed system: PInv adds to IInv, whose steps it takes, what      *)
(* holds of the records.  Records nobody published have one holder         *)
(* (StagedOK); what a record retries has failed (LineageOK); the tasks     *)
(* name at most one record of a part, with no activated one after it       *)
(* (NamesOK); so the activated records of a part are one chain (ReadyOK),  *)
(* and only its end can be delivered.                                      *)
(* While nothing is retried and no list is late, PlainInv says how far the *)
(* projection of every acknowledgement has come in the queue; TaskInv says *)
(* the same of the tasks, and which of their writes are still to be made,  *)
(* while nobody asks again and no write is overtaken either.               *)
(***************************************************************************)
EXTENDS SendPipeline, WellFoundedInduction, TLAPS


SenderOK ==
  \A s \in Senders : pc[s] # "idle" =>
    /\ target[s] \in Items
    /\ alive[ProcOf[s]]
    /\ status[target[s]] = "approved"
    /\ claim[target[s]] = TokenOf(s)

ClaimOK == \A i \in Items : Claimed(i) => status[i] = "approved"

UntouchedOK ==
  /\ \A s \in Senders : pc[s] \in {"claimed", "begun"} => effects[target[s]] = 0
  /\ \A s \in Senders : pc[s] = "executed" /\ result[s].stay => effects[target[s]] = 0
  /\ \A i \in Items : status[i] \in {"absent", "pending"} => effects[i] = 0

IInv ==
  /\ TypeOK
  /\ SenderOK
  /\ ClaimOK
  /\ UntouchedOK
  /\ AtMostOneSend
  /\ NeverReopenedAfterSend

-----------------------------------------------------------------------------
(* What the helper operators return. *)

\* Summarising parts never invents a status: in particular never "approved",
\* "absent" or "pending" (_aggregate_queue_bridge_status).
LEMMA AggregateResult ==
  ASSUME NEW parts, NEW fallback \in ResultStatuses
  PROVE  Aggregate(parts, fallback) \in ResultStatuses
BY DEF Aggregate, ResultStatuses

\* An acknowledgement maps to a status the queue knows (_queue_status_from_bridge_ack).
LEMMA QueueStatusOfAckResult ==
  ASSUME NEW ack
  PROVE  QueueStatusOfAck(ack) \in ResultStatuses
BY DEF QueueStatusOfAck, ResultStatuses

\* Every transition of the table leads to a status, and none of them back to
\* "pending" (_validate_transition).
LEMMA TransitionResult ==
  ASSUME NEW from \in QueueStatuses, NEW to \in QueueStatuses, ValidTransition(from, to)
  PROVE  to = "pending" => from = "pending"
BY DEF ValidTransition, AllowedTransitions, QueueStatuses, ResultStatuses

\* A driver result built from well-typed parts is well typed.
LEMMA ResultType ==
  ASSUME NEW st \in ResultStatuses, NEW ids \in SUBSET Ids, NEW lost \in SUBSET {"failed"}
  PROVE  Result(st, FALSE, ids, lost) \in Results
BY DEF Result, Results

-----------------------------------------------------------------------------
(* Type correctness: one step per action. *)

\* Every field of the initial state has its type.
LEMMA TypeInit == Init => TypeOK
BY ProcOfAssumption, MaxIdsAssumption
DEF Init, TypeOK, QueueStatuses, ResultStatuses, Results, Ids, NoId

\* Approving, rejecting, retiring and removing an item keep the types.
LEMMA TypeOperator ==
  ASSUME TypeOK, NEW i \in Items, OperatorStep(i)
  PROVE  TypeOK'
<1>1. status' \in [Items -> QueueStatuses \cup {"absent", "removed"}]
  BY DEF TypeOK, OperatorStep, Enqueue, Approve, Reject, RetireObsolete, Review, Remove,
     QueueStatuses, ResultStatuses
<1>2. UNCHANGED <<claim, refs, acks, retryOf, local, senderVars, procVars, nextId, effects>>
  BY DEF OperatorStep, Enqueue, Approve, Reject, RetireObsolete, Review, Remove
<1> QED
  BY <1>1, <1>2 DEF TypeOK, senderVars, procVars

\* A result that is recorded is one of the driver, never the one that keeps the
\* reply approved.
LEMMA MarkedResult ==
  ASSUME TypeOK, NEW s \in Senders, MarkResult(s)
  PROVE  /\ result[s].status \in ResultStatuses /\ result[s].ids \in SUBSET Ids
         /\ result[s].local \in SUBSET {"failed"}
<1>1. result[s] \in Results \cup {NoResult} /\ ~result[s].stay
  BY DEF TypeOK, MarkResult, StaysApproved
<1>2. CASE result[s] = NoResult
  <2>1. result[s].status = "none" /\ status[target[s]] = "approved"
    BY <1>2 DEF MarkResult, StaysApproved, HoldsClaim, NoResult, Result
  <2> QED
    BY <2>1 DEF MarkResult, StaysApproved, ValidTransition, AllowedTransitions, ResultStatuses
<1>3. CASE result[s] \in Results
  <2>1. result[s] # StayApproved
    BY <1>1 DEF StayApproved, Result
  <2> QED
    BY <1>3, <2>1 DEF Results
<1> QED
  BY <1>1, <1>2, <1>3

\* Every step of send_approved_confirm_item keeps the types.
LEMMA TypeSender ==
  ASSUME TypeOK, NEW s \in Senders, SenderStep(s)
  PROVE  TypeOK'
<1> USE ProcOfAssumption, MaxIdsAssumption
<1>1. ASSUME NEW i \in Items, ClaimGranted(s, i) PROVE TypeOK'
  BY <1>1 DEF TypeOK, ClaimGranted, Start, TokenOf, procVars
<1>2. ASSUME NEW i \in Items, ClaimRetired(s, i) PROVE TypeOK'
  BY <1>2 DEF TypeOK, ClaimRetired, senderVars, procVars, QueueStatuses, ResultStatuses
<1>3. ASSUME Execute(s) PROVE TypeOK'
  <2>1. result' \in [Senders -> Results \cup {NoResult}] /\ nextId' \in 0 .. MaxIds
    <3>1. CASE PreconditionFails(s)
      BY <3>1 DEF TypeOK, PreconditionFails, Results
    <3>2. CASE PartsQueued(s)
      <4>1. PICK n \in 1 .. (MaxIds - nextId), lost \in SUBSET {"failed"} :
              /\ result' = [result EXCEPT ![s] =
                   Result(Aggregate({"queued_to_bridge"} \cup lost, "failed"), FALSE,
                          (nextId + 1) .. (nextId + n), lost)]
              /\ nextId' = nextId + n
        BY <3>2 DEF PartsQueued
      <4>2. Aggregate({"queued_to_bridge"} \cup lost, "failed") \in ResultStatuses
        BY AggregateResult DEF ResultStatuses
      <4>3. (nextId + 1) .. (nextId + n) \in SUBSET Ids
        BY DEF TypeOK, Ids
      <4>4. nextId' \in 0 .. MaxIds
        BY <4>1 DEF TypeOK
      <4> QED
        BY <4>1, <4>2, <4>3, <4>4, ResultType DEF TypeOK
    <3>3. CASE DriverAnswers(s)
      <4>1. PICK answer \in {"sent", "accepted", "failed"} :
              result' = [result EXCEPT ![s] = Result(answer, FALSE, {}, {})] /\ UNCHANGED nextId
        BY <3>3 DEF DriverAnswers
      <4>2. Result(answer, FALSE, {}, {}) \in Results
        BY ResultType DEF ResultStatuses
      <4> QED
        BY <4>1, <4>2 DEF TypeOK
    <3> QED
      BY <1>3, <3>1, <3>2, <3>3 DEF Execute
  <2>2. effects' \in [Items -> Nat]
    <3>1. \E n \in {0, 1} : \E i \in Items \cup {NoItem} : effects' = [effects EXCEPT ![i] = @ + n]
      <4>1. target[s] \in Items \cup {NoItem} /\ effects = [effects EXCEPT ![target[s]] = @ + 0]
        BY DEF TypeOK
      <4>2. CASE PreconditionFails(s)
        BY <4>1, <4>2 DEF PreconditionFails
      <4>3. CASE PartsQueued(s)
        BY <4>1, <4>3 DEF PartsQueued
      <4>4. CASE DriverAnswers(s)
        BY <4>1, <4>4 DEF DriverAnswers
      <4> QED
        BY <1>3, <4>2, <4>3, <4>4 DEF Execute
    <3>2. PICK n \in {0, 1}, i \in Items \cup {NoItem} : effects' = [effects EXCEPT ![i] = @ + n]
      BY <3>1
    <3>3. effects \in [Items -> Nat]
      BY DEF TypeOK
    <3>4. ASSUME NEW j \in Items PROVE effects'[j] \in Nat
      BY <3>2, <3>3
    <3> QED
      BY <3>2, <3>3, <3>4
  <2>3. pc' \in [Senders -> {"idle", "claimed", "begun", "executed"}]
    BY <1>3 DEF TypeOK, Execute
  <2> QED
    BY <1>3, <2>1, <2>2, <2>3 DEF TypeOK, Execute, queueVars, procVars
<1>4. ASSUME Release(s) PROVE TypeOK'
  BY <1>4 DEF TypeOK, Release, StaysApproved, SenderDone, procVars
<1>5. ASSUME MarkResult(s) PROVE TypeOK'
  <2>1. result[s].status \in ResultStatuses /\ result[s].ids \in SUBSET Ids
        /\ result[s].local \in SUBSET {"failed"}
    BY <1>5, MarkedResult
  <2>2. refs' \in [Items -> SUBSET Ids] /\ acks' \in [Items -> [Ids -> {"none"} \cup ResultStatuses]]
    BY <1>5, <2>1 DEF TypeOK, MarkResult, StaysApproved
  <2>3. status' \in [Items -> QueueStatuses \cup {"absent", "removed"}]
    BY <1>5, <2>1 DEF TypeOK, MarkResult, StaysApproved, QueueStatuses, ResultStatuses
  <2> QED
    BY <1>5, <2>1, <2>2, <2>3 DEF TypeOK, MarkResult, StaysApproved, SenderDone, procVars
<1>6. ASSUME QueueWriteFails(s) PROVE TypeOK'
  BY <1>6 DEF TypeOK, QueueWriteFails, SenderDone, queueVars, procVars
<1>7. ASSUME Begin(s) PROVE TypeOK'
  BY <1>7 DEF TypeOK, Begin, queueVars, procVars
<1> QED
  BY <1>1, <1>2, <1>3, <1>4, <1>5, <1>6, <1>7 DEF SenderStep

\* A crash or restart of a process keeps the types.
LEMMA TypeProc ==
  ASSUME TypeOK, NEW p \in Procs, ProcStep(p)
  PROVE  TypeOK'
<1> USE ProcOfAssumption, MaxIdsAssumption
<1>1. ASSUME Crash(p) PROVE TypeOK'
  BY <1>1 DEF TypeOK, Crash, queueVars
<1>2. ASSUME CrashDuringSend(p) PROVE TypeOK'
  <2>1. PICK s \in Senders : effects' = [effects EXCEPT ![target[s]] = @ + 1]
    BY <1>2 DEF CrashDuringSend
  <2>2. effects' \in [Items -> Nat]
    <3>1. effects \in [Items -> Nat]
      BY DEF TypeOK
    <3>2. ASSUME NEW j \in Items PROVE effects'[j] \in Nat
      BY <2>1, <3>1
    <3> QED
      BY <2>1, <3>1, <3>2
  <2>3. pc' \in [Senders -> {"idle", "claimed", "begun", "executed"}]
        /\ target' \in [Senders -> Items \cup {NoItem}]
        /\ result' \in [Senders -> Results \cup {NoResult}]
    BY <1>2 DEF TypeOK, CrashDuringSend
  <2> QED
    BY <1>2, <2>2, <2>3 DEF TypeOK, CrashDuringSend, queueVars
<1>3. ASSUME Restart(p) PROVE TypeOK'
  BY <1>3 DEF TypeOK, Restart, queueVars, senderVars
<1> QED
  BY <1>1, <1>2, <1>3 DEF ProcStep

\* An acknowledgement or retry that reaches the queue keeps the types.
LEMMA TypeAck ==
  ASSUME TypeOK, NEW i \in Items, NEW b \in Ids, NEW ack, ApplyBridgeAck(i, b, ack),
         UNCHANGED <<senderVars, procVars, nextId, effects>>
  PROVE  TypeOK'
<1>1. AckedStatus(i, b, ack) \in ResultStatuses
  BY AggregateResult DEF AckedStatus, ResultStatuses
<1>2. AckedRefs(i, b) \in SUBSET Ids /\ AckedAcks(i, b, ack) \in [Ids -> {"none"} \cup ResultStatuses]
  BY QueueStatusOfAckResult DEF TypeOK, AckedRefs, AckedAcks
<1>3. status' \in [Items -> QueueStatuses \cup {"absent", "removed"}]
  BY <1>1 DEF TypeOK, ApplyBridgeAck, QueueStatuses, ResultStatuses
<1> QED
  BY <1>2, <1>3 DEF TypeOK, ApplyBridgeAck, senderVars, procVars

LEMMA TypeRequeue ==
  ASSUME TypeOK, NEW i \in Items, NEW b \in Ids \cup {NoId}, NEW old, NEW new \in Ids,
         RequeueBridgeResult(i, b, old, new),
         UNCHANGED <<senderVars, procVars, effects>>, nextId' \in 0 .. MaxIds
  PROVE  TypeOK'
<1>1. RequeuedRefs(i, old, new) \in SUBSET Ids
      /\ RequeuedAcks(i, old, new) \in [Ids -> {"none"} \cup ResultStatuses]
  BY DEF TypeOK, RequeuedRefs, RequeuedAcks
<1>2. refs' \in [Items -> SUBSET Ids] /\ acks' \in [Items -> [Ids -> {"none"} \cup ResultStatuses]]
  BY <1>1 DEF TypeOK, RequeueBridgeResult
<1>3. status' \in [Items -> QueueStatuses \cup {"absent", "removed"}]
  <2>1. Aggregate(PartStatuses(i, refs'[i], acks'), "queued_to_bridge") \in ResultStatuses
    BY AggregateResult DEF ResultStatuses
  <2> QED
    BY <2>1 DEF TypeOK, RequeueBridgeResult, QueueStatuses, ResultStatuses
<1>4. retryOf' \in [Items -> Ids \cup {NoId}]
  BY DEF TypeOK, RequeueBridgeResult
<1> QED
  BY <1>2, <1>3, <1>4 DEF TypeOK, RequeueBridgeResult, senderVars, procVars

LEMMA TypeBridge ==
  ASSUME TypeOK, NEW i \in Items, BridgeStep(i)
  PROVE  TypeOK'
<1> USE MaxIdsAssumption
<1>1. \A b \in 1 .. nextId : b \in Ids
  BY DEF TypeOK, Ids
<1>2. ASSUME NEW b \in 1 .. nextId, NEW ack \in TerminalAcks, BridgeAck(i, b, ack)
      PROVE  TypeOK'
  BY <1>1, <1>2, TypeAck DEF BridgeAck
<1>3. ASSUME NEW b \in 1 .. nextId, BridgeRetry(i, b)
      PROVE  TypeOK'
  <2>1. nextId + 1 \in Ids /\ nextId' \in 0 .. MaxIds
    BY <1>3 DEF TypeOK, Ids, BridgeRetry
  <2> QED
    BY <1>1, <1>3, <2>1, TypeRequeue DEF BridgeRetry
<1> QED
  BY <1>2, <1>3 DEF BridgeStep

\* Every step keeps the types.
LEMMA TypeNext == TypeOK /\ [Next]_vars => TypeOK'
<1>1. ASSUME TypeOK, UNCHANGED vars PROVE TypeOK'
  BY <1>1 DEF TypeOK, vars, queueVars, senderVars, procVars
<1> QED
  BY <1>1, TypeOperator, TypeSender, TypeProc, TypeBridge DEF Next

\* Every field of the queue, the senders and the processes keeps its type in
\* every behaviour of the specification.
THEOREM TypeCorrect == Spec => []TypeOK
BY TypeInit, TypeNext, PTL DEF Spec

-----------------------------------------------------------------------------
(* The inductive invariant. *)

\* The invariant holds before anything is enqueued.
LEMMA SafeInit == Init => IInv
<1> SUFFICES ASSUME Init PROVE IInv
  OBVIOUS
<1>1. TypeOK
  BY TypeInit
<1> QED
  BY <1>1 DEF Init, IInv, SenderOK, ClaimOK, Claimed, UntouchedOK, AtMostOneSend, NeverReopenedAfterSend

\* The claims of two senders, or of a sender and nobody, are told apart by
\* their tokens.
LEMMA TokensDiffer ==
  ASSUME TypeOK, NEW s \in Senders
  PROVE  TokenOf(s) # NoClaim /\ \A r \in Senders : TokenOf(r) = TokenOf(s) => r = s
BY ProcOfAssumption DEF TypeOK, TokenOf, NoClaim

\* The operator acts on an item only while nobody sends it.
LEMMA SafeOperator ==
  ASSUME IInv, NEW i \in Items, OperatorStep(i)
  PROVE  IInv'
<1>1. TypeOK'
  BY TypeOperator DEF IInv
<1>2. UNCHANGED <<claim, pc, target, result, alive, starts, effects>>
  BY DEF OperatorStep, Enqueue, Approve, Reject, RetireObsolete, Review, Remove, senderVars, procVars
<1>3. PICK to \in {"pending", "approved", "rejected", "failed", "removed"} :
         /\ status' = [status EXCEPT ![i] = to]
         /\ to = "pending" => status[i] = "absent"
         /\ to = "pending" \/ ~Claimed(i)
         /\ to = "approved" => status[i] \in {"pending", "approved"}
  BY DEF OperatorStep, Enqueue, Approve, Reject, RetireObsolete, Review, Remove,
     ValidTransition, AllowedTransitions, ResultStatuses
<1>4. ~Claimed(i)
  BY <1>3 DEF IInv, ClaimOK
<1>5. \A s \in Senders : pc[s] # "idle" => target[s] # i
  BY <1>4, TokensDiffer DEF IInv, SenderOK, Claimed
<1>6. status[i] \in {"pending", "approved"} => effects[i] = 0
  BY <1>4 DEF IInv, TypeOK, UntouchedOK, AtMostOneSend, NeverReopenedAfterSend
<1>7. SenderOK'
  BY <1>2, <1>3, <1>5 DEF IInv, TypeOK, SenderOK, TokenOf
<1>8. ClaimOK'
  BY <1>2, <1>3, <1>4 DEF IInv, TypeOK, ClaimOK, Claimed
<1>9. UntouchedOK'
  BY <1>2, <1>3 DEF IInv, TypeOK, UntouchedOK
<1>10. AtMostOneSend' /\ NeverReopenedAfterSend'
  BY <1>2, <1>3, <1>6 DEF IInv, TypeOK, AtMostOneSend, NeverReopenedAfterSend, Claimed
<1> QED
  BY <1>1, <1>7, <1>8, <1>9, <1>10 DEF IInv

\* The bridge acts on an item only while nobody sends it, and gives it one of the
\* statuses of a result: never "approved" or "pending".
LEMMA SafeResult ==
  ASSUME IInv, TypeOK', NEW i \in Items, Present(i), ~Claimed(i),
         NEW to \in ResultStatuses, status' = [status EXCEPT ![i] = to],
         UNCHANGED <<claim, pc, target, result, alive, starts, effects>>
  PROVE  IInv'
<1>1. to \notin {"absent", "pending", "approved"}
  BY DEF ResultStatuses
<1>2. \A s \in Senders : pc[s] # "idle" => target[s] # i
  BY TokensDiffer DEF IInv, SenderOK, Claimed
<1>3. SenderOK'
  BY <1>2 DEF IInv, TypeOK, SenderOK, TokenOf
<1>4. ClaimOK'
  BY DEF IInv, TypeOK, ClaimOK, Claimed
<1>5. UntouchedOK'
  BY <1>1 DEF IInv, TypeOK, UntouchedOK
<1>6. AtMostOneSend' /\ NeverReopenedAfterSend'
  BY <1>1 DEF IInv, TypeOK, AtMostOneSend, NeverReopenedAfterSend, Claimed
<1> QED
  BY <1>3, <1>4, <1>5, <1>6 DEF IInv

\* An acknowledgement that reaches the queue.
LEMMA SafeAck ==
  ASSUME IInv, TypeOK', NEW i \in Items, NEW b, NEW ack, ApplyBridgeAck(i, b, ack),
         UNCHANGED <<pc, target, result, alive, starts, effects>>
  PROVE  IInv'
<1>1. AckedStatus(i, b, ack) \in ResultStatuses
  BY AggregateResult DEF AckedStatus, ResultStatuses
<1> QED
  BY <1>1, SafeResult DEF ApplyBridgeAck

\* A retry that takes the place of records in the queue.
LEMMA SafeRequeue ==
  ASSUME IInv, TypeOK', NEW i \in Items, NEW b, NEW old, NEW new, RequeueBridgeResult(i, b, old, new),
         UNCHANGED <<pc, target, result, alive, starts, effects>>
  PROVE  IInv'
<1>1. Aggregate(PartStatuses(i, refs'[i], acks'), "queued_to_bridge") \in ResultStatuses
  BY AggregateResult DEF ResultStatuses
<1> QED
  BY <1>1, SafeResult DEF RequeueBridgeResult

LEMMA SafeBridge ==
  ASSUME IInv, NEW i \in Items, BridgeStep(i)
  PROVE  IInv'
<1>1. TypeOK'
  BY TypeBridge DEF IInv
<1>2. ASSUME NEW b \in 1 .. nextId, NEW ack \in TerminalAcks, BridgeAck(i, b, ack)
      PROVE  IInv'
  BY <1>1, <1>2, SafeAck DEF BridgeAck, senderVars, procVars
<1>3. ASSUME NEW b \in 1 .. nextId, BridgeRetry(i, b)
      PROVE  IInv'
  BY <1>1, <1>3, SafeRequeue DEF BridgeRetry, senderVars, procVars
<1> QED
  BY <1>2, <1>3 DEF BridgeStep

\* A crash leaves every claim where it is and every sender of the process idle;
\* a restart changes the marker of a process that has no running sender.
LEMMA SafeProc ==
  ASSUME IInv, NEW p \in Procs, ProcStep(p)
  PROVE  IInv'
<1> USE ProcOfAssumption
<1>1. TypeOK'
  BY TypeProc DEF IInv
<1>2. UNCHANGED <<status, claim>>
  BY DEF ProcStep, Crash, CrashDuringSend, Restart, queueVars
<1>3. ClaimOK'
  BY <1>2 DEF IInv, ClaimOK, Claimed
<1>4. \A s \in Senders : pc'[s] # "idle" =>
        /\ pc'[s] = pc[s] /\ target'[s] = target[s] /\ result'[s] = result[s]
        /\ alive'[ProcOf[s]] = alive[ProcOf[s]] /\ starts'[ProcOf[s]] = starts[ProcOf[s]]
  <2>1. CASE Crash(p)
    BY <2>1 DEF IInv, TypeOK, Crash
  <2>2. CASE CrashDuringSend(p)
    <3>1. /\ \A s \in Senders : pc'[s] = IF ProcOf[s] = p THEN "idle" ELSE pc[s]
          /\ \A s \in Senders : ProcOf[s] # p => target'[s] = target[s] /\ result'[s] = result[s]
      BY <2>2 DEF CrashDuringSend
    <3>2. starts' = starts /\ alive' = [alive EXCEPT ![p] = FALSE]
      BY <2>2 DEF CrashDuringSend
    <3> QED
      BY <3>1, <3>2 DEF IInv, TypeOK
  <2>3. CASE Restart(p)
    <3>1. UNCHANGED senderVars /\ ~alive[p]
          /\ \A q \in Procs : q # p => alive'[q] = alive[q] /\ starts'[q] = starts[q]
      BY <2>3 DEF IInv, TypeOK, Restart
    <3>2. \A s \in Senders : pc[s] # "idle" => ProcOf[s] # p
      BY <3>1 DEF IInv, SenderOK
    <3> QED
      BY <3>1, <3>2 DEF senderVars
  <2> QED
    BY <2>1, <2>2, <2>3 DEF ProcStep
<1>5. SenderOK'
  BY <1>2, <1>4 DEF IInv, SenderOK, TokenOf
<1>6. CASE UNCHANGED effects
  <2>1. UntouchedOK'
    BY <1>2, <1>4, <1>6 DEF IInv, UntouchedOK, SenderOK
  <2>2. AtMostOneSend' /\ NeverReopenedAfterSend'
    BY <1>2, <1>6 DEF IInv, AtMostOneSend, NeverReopenedAfterSend, Claimed
  <2> QED
    BY <1>1, <1>3, <1>5, <2>1, <2>2 DEF IInv
<1>7. CASE CrashDuringSend(p)
  <2>1. PICK s \in Senders :
          /\ ProcOf[s] = p /\ pc[s] = "begun"
          /\ effects' = [effects EXCEPT ![target[s]] = @ + 1]
    BY <1>7 DEF CrashDuringSend
  <2>2. /\ target[s] \in Items /\ effects[target[s]] = 0
        /\ status[target[s]] = "approved" /\ claim[target[s]] = TokenOf(s)
    BY <2>1 DEF IInv, SenderOK, UntouchedOK
  <2>3. Claimed(target[s])
    BY <2>2, TokensDiffer DEF IInv, Claimed
  <2>4. \A r \in Senders : pc'[r] # "idle" => target'[r] # target[s]
    <3>1. \A r \in Senders : pc'[r] # "idle" => ProcOf[r] # p
      BY <1>7 DEF IInv, TypeOK, CrashDuringSend
    <3>2. ASSUME NEW r \in Senders, pc'[r] # "idle", target'[r] = target[s]
          PROVE  FALSE
      <4>1. claim[target[s]] = TokenOf(r)
        BY <1>4, <3>2 DEF IInv, SenderOK
      <4>2. r = s
        BY <4>1, <2>2, TokensDiffer DEF IInv
      <4> QED
        BY <2>1, <3>1, <3>2, <4>2
    <3> QED
      BY <3>2
  <2>5. UntouchedOK'
    <3>1. \A i \in Items : i # target[s] => effects'[i] = effects[i]
      BY <2>1 DEF IInv, TypeOK
    <3>2. \A r \in Senders : pc'[r] # "idle" => effects'[target'[r]] = effects[target[r]]
      BY <1>4, <2>4, <3>1 DEF IInv, SenderOK
    <3>3. \A i \in Items : status'[i] \in {"absent", "pending"} => effects'[i] = effects[i]
      BY <1>2, <2>2, <3>1
    <3> QED
      BY <1>2, <1>4, <3>2, <3>3 DEF IInv, UntouchedOK
  <2>6. AtMostOneSend' /\ NeverReopenedAfterSend'
    BY <1>2, <2>1, <2>2, <2>3 DEF IInv, TypeOK, AtMostOneSend, NeverReopenedAfterSend, Claimed
  <2> QED
    BY <1>1, <1>3, <1>5, <2>5, <2>6 DEF IInv
<1> QED
  BY <1>6, <1>7 DEF ProcStep, Crash, Restart

\* A running sender is the only one on its item, because the item's claim is its
\* token.
LEMMA OneSenderPerItem ==
  ASSUME IInv, NEW s \in Senders, NEW r \in Senders,
         pc[s] # "idle", pc[r] # "idle", target[r] = target[s]
  PROVE  r = s
BY TokensDiffer DEF IInv, SenderOK

\* A claim is granted only on an item nobody claims, and such an item has had no
\* effect yet.
LEMMA SafeClaim ==
  ASSUME IInv, NEW s \in Senders, NEW i \in Items, ClaimGranted(s, i)
  PROVE  IInv'
<1> USE ProcOfAssumption
<1>1. TypeOK'
  BY TypeSender DEF IInv, SenderStep
<1>2. /\ status[i] = "approved" /\ alive[ProcOf[s]] /\ ~Claimed(i) /\ pc[s] = "idle"
      /\ claim' = [claim EXCEPT ![i] = TokenOf(s)]
      /\ pc' = [pc EXCEPT ![s] = "claimed"]
      /\ target' = [target EXCEPT ![s] = i]
      /\ UNCHANGED <<status, result, alive, starts, effects>>
  BY DEF ClaimGranted, Start, procVars
<1>3. effects[i] = 0
  BY <1>2 DEF IInv, TypeOK, AtMostOneSend, NeverReopenedAfterSend
<1>4. \A r \in Senders : pc[r] # "idle" => r # s /\ target[r] # i
  BY <1>2, TokensDiffer DEF IInv, SenderOK, Claimed
<1>5. SenderOK'
  BY <1>2, <1>4 DEF IInv, TypeOK, SenderOK, TokenOf
<1>6. ClaimOK'
  BY <1>2 DEF IInv, TypeOK, ClaimOK, Claimed
<1>7. UntouchedOK'
  BY <1>2, <1>3, <1>4 DEF IInv, TypeOK, UntouchedOK
<1>8. AtMostOneSend' /\ NeverReopenedAfterSend'
  <2>1. Claimed(i)'
    BY <1>2, TokensDiffer DEF IInv, TypeOK, Claimed
  <2> QED
    BY <1>2, <2>1 DEF IInv, TypeOK, AtMostOneSend, NeverReopenedAfterSend, Claimed
<1> QED
  BY <1>1, <1>5, <1>6, <1>7, <1>8 DEF IInv

\* The claim that is retired belongs to no running sender.
LEMMA SafeRetire ==
  ASSUME IInv, NEW s \in Senders, NEW i \in Items, ClaimRetired(s, i)
  PROVE  IInv'
<1> USE ProcOfAssumption
<1>1. TypeOK'
  BY TypeSender DEF IInv, SenderStep
<1>2. /\ ~OwnerAlive(claim[i])
      /\ status' = [status EXCEPT ![i] = "failed"]
      /\ claim' = [claim EXCEPT ![i] = NoClaim]
      /\ UNCHANGED <<pc, target, result, alive, starts, effects>>
  BY DEF ClaimRetired, senderVars, procVars
<1>3. \A r \in Senders : pc[r] # "idle" => target[r] # i
  <2>1. ASSUME NEW r \in Senders, pc[r] # "idle", target[r] = i
        PROVE  OwnerAlive(claim[i])
    <3>1. claim[i] = TokenOf(r) /\ alive[ProcOf[r]]
      BY <2>1 DEF IInv, SenderOK
    <3>2. claim[i].by = r /\ claim[i].start = starts[ProcOf[r]]
      BY <3>1 DEF TokenOf
    <3> QED
      BY <3>1, <3>2 DEF OwnerAlive
  <2> QED
    BY <1>2, <2>1
<1>4. SenderOK'
  BY <1>2, <1>3 DEF IInv, TypeOK, SenderOK, TokenOf
<1>5. ClaimOK'
  BY <1>2 DEF IInv, TypeOK, ClaimOK, Claimed
<1>6. UntouchedOK'
  BY <1>2 DEF IInv, TypeOK, UntouchedOK
<1>7. AtMostOneSend' /\ NeverReopenedAfterSend'
  BY <1>2 DEF IInv, TypeOK, AtMostOneSend, NeverReopenedAfterSend, Claimed
<1> QED
  BY <1>1, <1>4, <1>5, <1>6, <1>7 DEF IInv

\* A sender that begins keeps its claim, and nothing has had an effect yet.
LEMMA SafeBegin ==
  ASSUME IInv, NEW s \in Senders, Begin(s)
  PROVE  IInv'
<1>1. TypeOK'
  BY TypeSender DEF IInv, SenderStep
<1>2. /\ pc[s] = "claimed" /\ pc' = [pc EXCEPT ![s] = "begun"]
      /\ UNCHANGED <<status, claim, target, result, alive, starts, effects>>
  BY DEF Begin, queueVars, procVars
<1>3. \A r \in Senders : pc'[r] = pc[r] \/ (r = s /\ pc'[r] = "begun")
  BY <1>2 DEF IInv, TypeOK
<1>4. SenderOK' /\ ClaimOK'
  BY <1>2, <1>3 DEF IInv, SenderOK, ClaimOK, Claimed, TokenOf
<1>5. UntouchedOK'
  BY <1>2, <1>3 DEF IInv, UntouchedOK
<1>6. AtMostOneSend' /\ NeverReopenedAfterSend'
  BY <1>2 DEF IInv, AtMostOneSend, NeverReopenedAfterSend, Claimed
<1> QED
  BY <1>1, <1>4, <1>5, <1>6 DEF IInv

\* The driver is called once per claim: the sender leaves "begun", and only a
\* result without effect keeps the item approved.
LEMMA SafeExecute ==
  ASSUME IInv, NEW s \in Senders, Execute(s)
  PROVE  IInv'
<1> DEFINE i == target[s]
<1>1. TypeOK'
  BY TypeSender DEF IInv, SenderStep
<1>2. /\ pc[s] = "begun" /\ pc' = [pc EXCEPT ![s] = "executed"]
      /\ UNCHANGED <<status, claim, target, alive, starts>>
  BY DEF Execute, queueVars, procVars
<1>3. i \in Items /\ effects[i] = 0 /\ claim[i] = TokenOf(s) /\ Claimed(i)
  BY <1>2, TokensDiffer DEF IInv, SenderOK, UntouchedOK, Claimed
<1>4. \A r \in Senders : pc[r] # "idle" /\ r # s => target[r] # i
  BY <1>2, OneSenderPerItem
<1>5. PICK n \in {0, 1} : effects' = [effects EXCEPT ![i] = @ + n] /\ (result'[s].stay => n = 0)
  <2>1. CASE PreconditionFails(s)
    <3>1. effects' = [effects EXCEPT ![i] = @ + 0]
      BY <2>1 DEF IInv, TypeOK, PreconditionFails
    <3> QED
      BY <3>1
  <2>2. CASE PartsQueued(s)
    <3>1. ~result'[s].stay
      BY <2>2 DEF IInv, TypeOK, PartsQueued, Result
    <3> QED
      BY <2>2, <3>1 DEF PartsQueued
  <2>3. CASE DriverAnswers(s)
    <3>1. ~result'[s].stay
      BY <2>3 DEF IInv, TypeOK, DriverAnswers, Result
    <3> QED
      BY <2>3, <3>1 DEF DriverAnswers
  <2> QED
    BY <2>1, <2>2, <2>3 DEF Execute
<1>6. \A r \in Senders : r # s => result'[r] = result[r]
  <2>1. \E x : result' = [result EXCEPT ![s] = x]
    BY DEF Execute, PreconditionFails, PartsQueued, DriverAnswers
  <2> QED
    BY <2>1 DEF IInv, TypeOK
<1>7. /\ \A j \in Items : j # i => effects'[j] = effects[j]
      /\ effects'[i] = n
  BY <1>3, <1>5 DEF IInv, TypeOK
<1>8. SenderOK'
  <2>1. \A r \in Senders : pc'[r] # "idle" => pc[r] # "idle"
    BY <1>2 DEF IInv, TypeOK
  <2> QED
    BY <1>2, <2>1 DEF IInv, SenderOK, TokenOf
<1>9. ClaimOK'
  BY <1>2 DEF IInv, ClaimOK, Claimed
<1>10. UntouchedOK'
  <2>1. ASSUME NEW r \in Senders, r # s, pc[r] # "idle"
        PROVE  effects'[target'[r]] = effects[target[r]]
    BY <1>2, <1>4, <1>7, <2>1 DEF IInv, SenderOK
  <2>2. status[i] = "approved"
    BY <1>2 DEF IInv, SenderOK
  <2>3. \A j \in Items : status'[j] \in {"absent", "pending"} => effects'[j] = 0
    BY <1>2, <1>7, <2>2 DEF IInv, UntouchedOK
  <2>4. result'[s].stay => effects'[target'[s]] = 0
    BY <1>2, <1>5, <1>7
  <2> QED
    BY <1>2, <1>6, <2>1, <2>3, <2>4, ZenonT(40) DEF IInv, TypeOK, UntouchedOK
<1>11. AtMostOneSend' /\ NeverReopenedAfterSend'
  BY <1>2, <1>3, <1>7 DEF IInv, AtMostOneSend, NeverReopenedAfterSend, Claimed
<1> QED
  BY <1>1, <1>8, <1>9, <1>10, <1>11 DEF IInv

\* The item is reopened only before the driver call or after one without effect.
LEMMA SafeRelease ==
  ASSUME IInv, NEW s \in Senders, Release(s)
  PROVE  IInv'
<1> DEFINE i == target[s]
<1>1. TypeOK'
  BY TypeSender DEF IInv, SenderStep
<1>2. /\ pc[s] # "idle" /\ claim' = [claim EXCEPT ![i] = NoClaim]
      /\ pc' = [pc EXCEPT ![s] = "idle"]
      /\ target' = [target EXCEPT ![s] = NoItem]
      /\ result' = [result EXCEPT ![s] = NoResult]
      /\ UNCHANGED <<status, alive, starts, effects>>
  BY DEF Release, StaysApproved, SenderDone, procVars
<1>3. i \in Items /\ effects[i] = 0
  BY <1>2 DEF IInv, Release, StaysApproved, SenderOK, UntouchedOK
<1>4. \A r \in Senders : pc'[r] # "idle" =>
        pc'[r] = pc[r] /\ target'[r] = target[r] /\ result'[r] = result[r] /\ target[r] # i
  BY <1>2, OneSenderPerItem DEF IInv, TypeOK
<1>5. SenderOK'
  BY <1>2, <1>4 DEF IInv, TypeOK, SenderOK, TokenOf
<1>6. ClaimOK'
  BY <1>2 DEF IInv, TypeOK, ClaimOK, Claimed
<1>7. UntouchedOK'
  BY <1>2, <1>4 DEF IInv, UntouchedOK
<1>8. AtMostOneSend' /\ NeverReopenedAfterSend'
  BY <1>2, <1>3 DEF IInv, TypeOK, AtMostOneSend, NeverReopenedAfterSend, Claimed
<1> QED
  BY <1>1, <1>5, <1>6, <1>7, <1>8 DEF IInv

\* A recorded result takes the item out of "approved".
LEMMA SafeMarkResult ==
  ASSUME IInv, NEW s \in Senders, MarkResult(s)
  PROVE  IInv'
<1> DEFINE i == target[s]
<1>1. TypeOK'
  BY TypeSender DEF IInv, SenderStep
<1>2. /\ pc[s] = "executed" /\ ~result[s].stay /\ claim' = [claim EXCEPT ![i] = NoClaim]
      /\ status' = [status EXCEPT ![i] = result[s].status]
      /\ pc' = [pc EXCEPT ![s] = "idle"]
      /\ target' = [target EXCEPT ![s] = NoItem]
      /\ result' = [result EXCEPT ![s] = NoResult]
      /\ UNCHANGED <<alive, starts, effects>>
  BY DEF MarkResult, StaysApproved, SenderDone, procVars
<1>3. result[s].status \notin {"absent", "pending", "approved"}
  BY MarkedResult DEF IInv, ResultStatuses
<1>4. \A r \in Senders : pc'[r] # "idle" =>
        pc'[r] = pc[r] /\ target'[r] = target[r] /\ result'[r] = result[r] /\ target[r] # i
  BY <1>2, OneSenderPerItem DEF IInv, TypeOK
<1>5. SenderOK'
  BY <1>2, <1>4 DEF IInv, TypeOK, SenderOK, TokenOf
<1>6. ClaimOK'
  BY <1>2 DEF IInv, TypeOK, ClaimOK, Claimed
<1>7. UntouchedOK'
  BY <1>2, <1>3, <1>4 DEF IInv, TypeOK, UntouchedOK
<1>8. AtMostOneSend' /\ NeverReopenedAfterSend'
  BY <1>2, <1>3 DEF IInv, TypeOK, AtMostOneSend, NeverReopenedAfterSend, Claimed
<1> QED
  BY <1>1, <1>5, <1>6, <1>7, <1>8 DEF IInv

\* A sender that cannot write its result leaves the claim behind, so the item
\* stays closed.
LEMMA SafeWriteFails ==
  ASSUME IInv, NEW s \in Senders, QueueWriteFails(s)
  PROVE  IInv'
<1>1. TypeOK'
  BY TypeSender DEF IInv, SenderStep
<1>2. /\ pc' = [pc EXCEPT ![s] = "idle"] /\ target' = [target EXCEPT ![s] = NoItem]
      /\ result' = [result EXCEPT ![s] = NoResult]
      /\ UNCHANGED <<status, claim, alive, starts, effects>>
  BY DEF QueueWriteFails, SenderDone, queueVars, procVars
<1>3. \A r \in Senders : pc'[r] # "idle" =>
        pc'[r] = pc[r] /\ target'[r] = target[r] /\ result'[r] = result[r]
  BY <1>2 DEF IInv, TypeOK
<1>4. SenderOK' /\ ClaimOK'
  BY <1>2, <1>3 DEF IInv, SenderOK, ClaimOK, Claimed, TokenOf
<1>5. UntouchedOK' /\ AtMostOneSend' /\ NeverReopenedAfterSend'
  BY <1>2, <1>3 DEF IInv, UntouchedOK, AtMostOneSend, NeverReopenedAfterSend, Claimed
<1> QED
  BY <1>1, <1>4, <1>5 DEF IInv

\* The invariant is inductive.
LEMMA SafeNext == IInv /\ [Next]_vars => IInv'
<1>1. ASSUME IInv, UNCHANGED vars PROVE IInv'
  BY <1>1 DEF IInv, TypeOK, SenderOK, ClaimOK, UntouchedOK, AtMostOneSend, NeverReopenedAfterSend,
     Claimed, TokenOf, vars, queueVars, senderVars, procVars
<1>2. ASSUME IInv, NEW s \in Senders, SenderStep(s) PROVE IInv'
  BY <1>2, SafeClaim, SafeRetire, SafeBegin, SafeExecute, SafeRelease, SafeMarkResult, SafeWriteFails
  DEF SenderStep
<1> QED
  BY <1>1, <1>2, SafeOperator, SafeBridge, SafeProc DEF Next

-----------------------------------------------------------------------------
(* The results. *)

\* The inductive invariant holds in every reachable state.
THEOREM Invariance == Spec => []IInv
BY SafeInit, SafeNext, PTL DEF Spec

\* However many invocations of send_approved_confirm_item race for an approved
\* reply, and whatever crashes, restarts, operators and bridge acknowledgements
\* do in between, at most one driver call with an effect is made for it.
THEOREM SendsAtMostOnce == Spec => []AtMostOneSend
<1>1. IInv => AtMostOneSend
  BY DEF IInv
<1> QED
  BY <1>1, Invariance, PTL

\* An item for which something may have gone out is never open to a second sender.
THEOREM StaysClosed == Spec => []NeverReopenedAfterSend
<1>1. IInv => NeverReopenedAfterSend
  BY DEF IInv
<1> QED
  BY <1>1, Invariance, PTL

\* A running sender never loses its claim.
THEOREM KeepsClaim == Spec => []SenderHoldsClaim
<1>1. IInv => SenderHoldsClaim
  BY DEF IInv, SenderOK, SenderHoldsClaim, HoldsClaim
<1> QED
  BY <1>1, Invariance, PTL

\* The action properties follow from the invariant of the state the step starts in.
LEMMA ClaimStep ==
  ASSUME IInv, IInv', [Next]_vars, NEW i \in Items, Claimed(i), claim'[i] # claim[i]
  PROVE  \/ pc[claim[i].by] # "idle" /\ pc'[claim[i].by] = "idle" /\ OwnerAlive(claim[i])
         \/ ~OwnerAlive(claim[i]) /\ claim'[i] = NoClaim /\ status'[i] = "failed"
<1>1. ASSUME NEW s \in Senders, NEW j \in Items, ClaimRetired(s, j)
      PROVE  ~OwnerAlive(claim[i]) /\ claim'[i] = NoClaim /\ status'[i] = "failed"
  BY <1>1 DEF IInv, TypeOK, ClaimRetired
<1>2. ASSUME NEW s \in Senders, Release(s) \/ MarkResult(s)
      PROVE  pc[claim[i].by] # "idle" /\ pc'[claim[i].by] = "idle" /\ OwnerAlive(claim[i])
  <2>1. /\ pc[s] # "idle" /\ pc' = [pc EXCEPT ![s] = "idle"]
        /\ claim' = [claim EXCEPT ![target[s]] = NoClaim]
    BY <1>2 DEF Release, StaysApproved, MarkResult, SenderDone
  <2>2. i = target[s] /\ claim[i] = TokenOf(s) /\ alive[ProcOf[s]]
    BY <2>1 DEF IInv, TypeOK, SenderOK
  <2> QED
    BY <2>1, <2>2 DEF IInv, TypeOK, TokenOf, OwnerAlive
<1>3. ASSUME NEW s \in Senders, NEW j \in Items, ClaimGranted(s, j)
      PROVE  FALSE
  BY <1>3 DEF IInv, TypeOK, ClaimGranted
<1>4. ASSUME NEW s \in Senders, Begin(s) \/ Execute(s) \/ QueueWriteFails(s)
      PROVE  FALSE
  BY <1>4 DEF Begin, Execute, QueueWriteFails, queueVars
<1>5. ASSUME NEW j \in Items, OperatorStep(j) \/ BridgeStep(j)
      PROVE  FALSE
  BY <1>5 DEF OperatorStep, Enqueue, Approve, Reject, RetireObsolete, Review, Remove,
     BridgeStep, BridgeAck, ApplyBridgeAck, BridgeRetry, RequeueBridgeResult
<1>6. ASSUME NEW p \in Procs, ProcStep(p)
      PROVE  FALSE
  BY <1>6 DEF ProcStep, Crash, CrashDuringSend, Restart, queueVars
<1>7. CASE UNCHANGED vars
  BY <1>7 DEF vars, queueVars
<1> QED
  BY <1>1, <1>2, <1>3, <1>4, <1>5, <1>6, <1>7 DEF Next, SenderStep

\* A claim is given up by its own sender, or retired with a failure once the
\* sender's process is gone (claim_approved_for_send).
THEOREM ClaimSafe == Spec => ClaimNeverStolen
<1>1. IInv /\ IInv' /\ [Next]_vars =>
        [ \A i \in Items : Claimed(i) /\ claim'[i] # claim[i] =>
            \/ pc[claim[i].by] # "idle" /\ pc'[claim[i].by] = "idle" /\ OwnerAlive(claim[i])
            \/ ~OwnerAlive(claim[i]) /\ claim'[i] = NoClaim /\ status'[i] = "failed" ]_vars
  BY ClaimStep
<1> QED
  BY <1>1, Invariance, PTL DEF Spec, ClaimNeverStolen

\* A step on a rejected or removed reply leaves it closed and sends nothing for it.
LEMMA RejectedStep ==
  ASSUME IInv, [Next]_vars, NEW i \in Items, status[i] \in {"rejected", "removed"}
  PROVE  effects'[i] = effects[i] /\ status'[i] \in {"rejected", "removed"}
<1>1. ASSUME NEW j \in Items, OperatorStep(j)
      PROVE  effects'[i] = effects[i] /\ status'[i] \in {"rejected", "removed"}
  BY <1>1 DEF IInv, TypeOK, OperatorStep, Enqueue, Approve, Reject, RetireObsolete, Review, Remove,
     Present, ValidTransition, AllowedTransitions, ResultStatuses
<1>2. ASSUME NEW j \in Items, BridgeStep(j)
      PROVE  effects'[i] = effects[i] /\ status'[i] \in {"rejected", "removed"}
  <2>1. CASE j # i
    BY <1>2, <2>1 DEF IInv, TypeOK, BridgeStep, BridgeAck, ApplyBridgeAck, BridgeRetry, RequeueBridgeResult
  <2>2. CASE j = i
    <3>1. ASSUME NEW b \in 1 .. nextId, NEW ack \in TerminalAcks, BridgeAck(i, b, ack)
          PROVE  FALSE
      <4>1. AckedStatus(i, b, ack) \in ResultStatuses
        BY AggregateResult DEF AckedStatus, ResultStatuses
      <4> QED
        BY <3>1, <4>1 DEF BridgeAck, ApplyBridgeAck, Present, ValidTransition, AllowedTransitions, ResultStatuses
    <3>2. ASSUME NEW b \in 1 .. nextId, BridgeRetry(i, b)
          PROVE  FALSE
      BY <3>2 DEF BridgeRetry, RequeueBridgeResult, Present
    <3> QED
      BY <1>2, <2>2, <3>1, <3>2 DEF BridgeStep
  <2> QED
    BY <2>1, <2>2
<1>3. ASSUME NEW s \in Senders, SenderStep(s)
      PROVE  effects'[i] = effects[i] /\ status'[i] \in {"rejected", "removed"}
  <2>1. pc[s] # "idle" => target[s] \in Items /\ target[s] # i
    BY DEF IInv, SenderOK
  <2>2. ASSUME NEW j \in Items, ClaimGranted(s, j) \/ ClaimRetired(s, j)
        PROVE  effects'[i] = effects[i] /\ status'[i] \in {"rejected", "removed"}
    BY <2>2 DEF IInv, TypeOK, ClaimGranted, ClaimRetired, Start
  <2>3. CASE Execute(s)
    BY <2>1, <2>3 DEF IInv, TypeOK, Execute, PreconditionFails, PartsQueued, DriverAnswers, queueVars
  <2>4. CASE Release(s) \/ MarkResult(s) \/ QueueWriteFails(s)
    BY <2>1, <2>4 DEF IInv, TypeOK, Release, MarkResult, QueueWriteFails, SenderDone, queueVars
  <2>5. CASE Begin(s)
    BY <2>5 DEF Begin, queueVars
  <2> QED
    BY <1>3, <2>2, <2>3, <2>4, <2>5 DEF SenderStep
<1>4. ASSUME NEW p \in Procs, ProcStep(p)
      PROVE  effects'[i] = effects[i] /\ status'[i] \in {"rejected", "removed"}
  <2>1. \A s \in Senders : pc[s] # "idle" => target[s] # i
    BY DEF IInv, SenderOK
  <2> QED
    BY <1>4, <2>1 DEF IInv, TypeOK, ProcStep, Crash, CrashDuringSend, Restart, queueVars
<1>5. CASE UNCHANGED vars
  BY <1>5 DEF vars, queueVars
<1> QED
  BY <1>1, <1>2, <1>3, <1>4, <1>5 DEF Next

\* Once the operator has rejected or removed a reply nothing is sent for it, even
\* by a sender that was already running (_transition refuses a claimed item).
THEOREM StaysRejected == Spec => NothingSentAfterRejection
<1>1. IInv /\ [Next]_vars =>
        [ \A i \in Items : status[i] \in {"rejected", "removed"} =>
            effects'[i] = effects[i] /\ status'[i] \in {"rejected", "removed"} ]_vars
  BY RejectedStep
<1> QED
  BY <1>1, Invariance, PTL DEF Spec, NothingSentAfterRejection

\* Every set of naturals with a member has a least one.
LEMMA LeastNatural ==
    ASSUME NEW S \in SUBSET Nat, S # {}
    PROVE  \E n \in S : \A m \in S : n <= m
<1> DEFINE R == OpToRel(<, Nat)
<1>1. \E x \in S : \A y \in S : <<y, x>> \notin R
  <2> HIDE DEF R
  <2>1. IsWellFoundedOn(R, Nat)
    BY NatLessThanWellFounded DEF R
  <2> QED
    BY <2>1, WFMin
<1>2. PICK x \in S : \A y \in S : <<y, x>> \notin R
  BY <1>1
<1>3. \A y \in S : ~(y < x)
  BY <1>2 DEF OpToRel
<1> QED
  BY <1>3

LEMMA MaxIs ==
    ASSUME NEW N \in Nat, NEW S \in SUBSET (0 .. N), S # {}
    PROVE  Max(S) \in S /\ \A y \in S : y <= Max(S)
<1> DEFINE T == { N - x : x \in S }
<1>1. T \in SUBSET Nat /\ T # {}
  <2>1. \A x \in S : N - x \in Nat
    OBVIOUS
  <2> QED
    BY <2>1
<1>2. PICK n \in T : \A m \in T : n <= m
  BY <1>1, LeastNatural
<1>3. PICK x \in S : n = N - x
  OBVIOUS
<1>4. \A y \in S : x >= y
  <2> TAKE y \in S
  <2>1. N - x <= N - y
    BY <1>2, <1>3
  <2> QED
    BY <2>1
<1> QED
  BY <1>4 DEF Max

LEMMA MinIs ==
    ASSUME NEW S \in SUBSET Nat, S # {}
    PROVE  Min(S) \in S
BY LeastNatural DEF Min

-----------------------------------------------------------------------------
(* Retry chains. *)

\* X holds the parent of r and of each of its members that has one.
Linked(P, r, X) == \A x \in {r} \cup X : P[x] # NoRecord => P[x] \in X

\* The least such set: the records that r retries.
Above(P, r) == { a \in DOMAIN P : \A X \in SUBSET DOMAIN P : Linked(P, r, X) => a \in X }

\* The equation that defines AncestorsIn.
IsAncestry(P, f) ==
  f = [s \in {NoRecord} \cup DOMAIN P |->
         IF s = NoRecord \/ P[s] = NoRecord THEN {} ELSE {P[s]} \cup f[P[s]]]

LEMMA AboveLinked ==
    ASSUME NEW n \in Nat, NEW P \in [1..n -> 0..n], NEW r \in 1..n
    PROVE  Linked(P, r, Above(P, r))
<1>1. \A p \in 0..n : p # NoRecord => p \in 1..n
  BY DEF NoRecord
<1> QED
  BY <1>1 DEF Linked, Above

LEMMA AboveLeast ==
    ASSUME NEW n \in Nat, NEW P \in [1..n -> 0..n], NEW r \in 1..n,
           NEW X \in SUBSET (1..n), Linked(P, r, X)
    PROVE  Above(P, r) \subseteq X
BY DEF Above

LEMMA AboveStep ==
    ASSUME NEW n \in Nat, NEW P \in [1..n -> 0..n], NEW r \in 1..n
    PROVE  Above(P, r) = IF P[r] = NoRecord THEN {} ELSE {P[r]} \cup Above(P, P[r])
<1>1. CASE P[r] = NoRecord
  <2>1. Linked(P, r, {})
    BY <1>1 DEF Linked
  <2> QED
    BY <1>1, <2>1, AboveLeast
<1>2. CASE P[r] # NoRecord
  <2>1. P[r] \in 1..n
    BY <1>2 DEF NoRecord
  <2>2. Linked(P, r, {P[r]} \cup Above(P, P[r]))
    BY <2>1, AboveLinked DEF Linked
  <2>3. Above(P, r) \subseteq {P[r]} \cup Above(P, P[r])
    <3>1. {P[r]} \cup Above(P, P[r]) \in SUBSET (1..n)
      BY <2>1 DEF Above
    <3> QED
      BY <2>2, <3>1, AboveLeast
  <2>4. Linked(P, r, Above(P, r))
    BY AboveLinked
  <2>5. P[r] \in Above(P, r) /\ Linked(P, P[r], Above(P, r))
    BY <1>2, <2>4 DEF Linked
  <2>6. Above(P, P[r]) \subseteq Above(P, r)
    <3>1. Above(P, r) \in SUBSET (1..n)
      BY DEF Above
    <3> QED
      BY <2>1, <2>5, <3>1, AboveLeast
  <2> QED
    BY <1>2, <2>3, <2>5, <2>6
<1> QED
  BY <1>1, <1>2

LEMMA AncestryExists ==
    ASSUME NEW n \in Nat, NEW P \in [1..n -> 0..n]
    PROVE  \E f : IsAncestry(P, f)
<1> DEFINE f == [s \in {NoRecord} \cup DOMAIN P |-> IF s = NoRecord THEN {} ELSE Above(P, s)]
<1>1. IsAncestry(P, f)
  <2>1. \A s \in {NoRecord} \cup DOMAIN P :
          f[s] = IF s = NoRecord \/ P[s] = NoRecord THEN {} ELSE {P[s]} \cup f[P[s]]
    <3> TAKE s \in {NoRecord} \cup DOMAIN P
    <3>1. CASE s = NoRecord
      BY <3>1
    <3>2. CASE s # NoRecord /\ P[s] = NoRecord
      BY <3>2, AboveStep
    <3>3. CASE s # NoRecord /\ P[s] # NoRecord
      <4>1. s \in 1..n /\ P[s] \in 1..n
        BY <3>3 DEF NoRecord
      <4> QED
        BY <3>3, <4>1, AboveStep
    <3> QED
      BY <3>1, <3>2, <3>3
  <2> QED
    BY <2>1 DEF IsAncestry
<1> QED
  BY <1>1

LEMMA AncestorsStep ==
    ASSUME NEW n \in Nat, NEW P \in [1..n -> 0..n], NEW r \in {NoRecord} \cup 1..n
    PROVE  AncestorsIn(P, r) =
             IF r = NoRecord \/ P[r] = NoRecord THEN {} ELSE {P[r]} \cup AncestorsIn(P, P[r])
<1> DEFINE g == CHOOSE f : IsAncestry(P, f)
<1>1. IsAncestry(P, g)
  BY AncestryExists
<1>2. \A s : AncestorsIn(P, s) = g[s]
  BY DEF AncestorsIn, IsAncestry
<1> HIDE DEF g
<1>3. g[r] = IF r = NoRecord \/ P[r] = NoRecord THEN {} ELSE {P[r]} \cup g[P[r]]
  BY <1>1 DEF IsAncestry
<1> QED
  BY <1>2, <1>3

\* r with the records it retries.
LineIn(P, r) == {r} \cup AncestorsIn(P, r)
PartIn(P, r) == CHOOSE q \in LineIn(P, r) : P[q] = NoRecord

\* A chain ends in one record that retries none, every record above the first
\* has been retried, and the chains of its members are parts of it.
Chained(P, r) ==
  /\ LineIn(P, r) \subseteq DOMAIN P
  /\ \E q \in LineIn(P, r) : P[q] = NoRecord /\ \A x \in LineIn(P, r) : P[x] = NoRecord => x = q
  /\ \A a \in LineIn(P, r) :
       LineIn(P, a) \subseteq LineIn(P, r) /\ (a = r \/ \E x \in DOMAIN P : P[x] = a)

LEMMA LineStep ==
    ASSUME NEW n \in Nat, NEW P \in [1..n -> 0..n], NEW r \in 1..n
    PROVE  LineIn(P, r) = IF P[r] = NoRecord THEN {r} ELSE {r} \cup LineIn(P, P[r])
<1>1. r # NoRecord
  BY DEF NoRecord
<1> QED
  BY <1>1, AncestorsStep DEF LineIn

LEMMA AllChained ==
    ASSUME NEW n \in Nat, NEW P \in [1..n -> 0..n], \A r \in 1..n : P[r] < r, NEW r \in 1..n
    PROVE  Chained(P, r)
<1> DEFINE Bad == { s \in 1..n : ~Chained(P, s) }
<1> SUFFICES ASSUME Bad # {} PROVE FALSE
  OBVIOUS
<1>1. Bad \in SUBSET Nat
  OBVIOUS
<1>2. PICK s \in Bad : \A t \in Bad : s <= t
  BY <1>1, LeastNatural
<1>3. s \in 1..n /\ ~Chained(P, s)
  OBVIOUS
<1>4. CASE P[s] = NoRecord
  <2>1. LineIn(P, s) = {s}
    BY <1>3, <1>4, LineStep
  <2> QED
    BY <1>3, <1>4, <2>1 DEF Chained
<1>5. CASE P[s] # NoRecord
  <2>1. P[s] \in 1..n /\ P[s] < s
    BY <1>3, <1>5 DEF NoRecord
  <2>2. Chained(P, P[s])
    BY <1>2, <1>3, <2>1
  <2>3. LineIn(P, s) = {s} \cup LineIn(P, P[s])
    BY <1>3, <1>5, LineStep
  <2>4. P[s] \in LineIn(P, P[s])
    BY DEF LineIn
  <2> HIDE DEF Bad
  <2>5. LineIn(P, s) \subseteq DOMAIN P
    BY <1>3, <2>2, <2>3 DEF Chained
  <2>6. \E q \in LineIn(P, s) : P[q] = NoRecord /\ \A x \in LineIn(P, s) : P[x] = NoRecord => x = q
    BY <1>5, <2>2, <2>3 DEF Chained
  <2>7. ASSUME NEW a \in LineIn(P, s)
        PROVE  LineIn(P, a) \subseteq LineIn(P, s) /\ (a = s \/ \E x \in DOMAIN P : P[x] = a)
    <3>1. CASE a = s
      BY <3>1
    <3>2. CASE a \in LineIn(P, P[s])
      <4>1. LineIn(P, a) \subseteq LineIn(P, s)
        BY <3>2, <2>2, <2>3 DEF Chained
      <4>2. a = P[s] \/ \E x \in DOMAIN P : P[x] = a
        BY <3>2, <2>2 DEF Chained
      <4> QED
        BY <4>1, <4>2, <1>3
    <3> QED
      BY <3>1, <3>2, <2>3
  <2>8. Chained(P, s)
    BY <2>5, <2>6, <2>7 DEF Chained
  <2> QED
    BY <2>8, <1>3
<1> QED
  BY <1>4, <1>5

\* The first record of a chain, which all its members share.
LEMMA PartIs ==
    ASSUME NEW n \in Nat, NEW P \in [1..n -> 0..n], \A r \in 1..n : P[r] < r, NEW r \in 1..n
    PROVE  /\ LineIn(P, r) \subseteq 1..n
           /\ PartIn(P, r) \in LineIn(P, r) /\ P[PartIn(P, r)] = NoRecord
           /\ \A a \in LineIn(P, r) :
                PartIn(P, a) = PartIn(P, r) /\ LineIn(P, a) \subseteq LineIn(P, r)
<1>1. Chained(P, r) /\ LineIn(P, r) \subseteq 1..n
  BY AllChained DEF Chained
<1>2. ASSUME NEW s \in 1..n
      PROVE  PartIn(P, s) \in LineIn(P, s) /\ P[PartIn(P, s)] = NoRecord
  <2>1. \E q \in LineIn(P, s) : P[q] = NoRecord
    BY AllChained DEF Chained
  <2> QED
    BY <2>1 DEF PartIn
<1>3. ASSUME NEW a \in LineIn(P, r)
      PROVE  PartIn(P, a) = PartIn(P, r) /\ LineIn(P, a) \subseteq LineIn(P, r)
  <2>1. a \in 1..n /\ LineIn(P, a) \subseteq LineIn(P, r)
    BY <1>1 DEF Chained
  <2>2. /\ PartIn(P, a) \in LineIn(P, r) /\ P[PartIn(P, a)] = NoRecord
        /\ PartIn(P, r) \in LineIn(P, r) /\ P[PartIn(P, r)] = NoRecord
    BY <2>1, <1>2
  <2> QED
    BY <1>1, <2>1, <2>2 DEF Chained
<1> QED
  BY <1>1, <1>2, <1>3

\* A record that retries none and is not retried is a chain of its own.
LEMMA LoneRecord ==
    ASSUME NEW n \in Nat, NEW P \in [1..n -> 0..n], \A r \in 1..n : P[r] < r,
           NEW r \in 1..n, P[r] = NoRecord, \A x \in 1..n : P[x] # r
    PROVE  LineIn(P, r) = {r} /\ PartIn(P, r) = r /\ \A x \in 1..n : PartIn(P, x) = r => x = r
<1>1. LineIn(P, r) = {r}
  BY LineStep
<1>2. PartIn(P, r) = r
  BY <1>1, PartIs
<1>3. ASSUME NEW x \in 1..n, PartIn(P, x) = r PROVE x = r
  <2>1. r \in LineIn(P, x) /\ Chained(P, x)
    BY <1>3, PartIs, AllChained
  <2> QED
    BY <2>1 DEF Chained
<1> QED
  BY <1>1, <1>2, <1>3

\* A new retry leaves the chains of the other records as they are.
LEMMA LineKept ==
    ASSUME NEW n \in Nat, NEW P \in [1..n -> 0..n], \A r \in 1..n : P[r] < r,
           NEW Q \in [1..n -> 0..n], \A r \in 1..n : Q[r] < r,
           NEW new \in 1..n, \A x \in 1..n : x # new => Q[x] = P[x] /\ P[x] # new
    PROVE  \A x \in 1..n : x # new => LineIn(Q, x) = LineIn(P, x) /\ PartIn(Q, x) = PartIn(P, x)
<1> DEFINE Bad == { s \in 1..n : s # new /\ LineIn(Q, s) # LineIn(P, s) }
<1>1. Bad = {}
  <2> SUFFICES ASSUME Bad # {} PROVE FALSE
    OBVIOUS
  <2>1. Bad \in SUBSET Nat
    OBVIOUS
  <2>2. PICK s \in Bad : \A t \in Bad : s <= t
    BY <2>1, LeastNatural
  <2>3. s \in 1..n /\ s # new /\ LineIn(Q, s) # LineIn(P, s)
    OBVIOUS
  <2> HIDE DEF Bad
  <2>4. /\ LineIn(P, s) = IF P[s] = NoRecord THEN {s} ELSE {s} \cup LineIn(P, P[s])
        /\ LineIn(Q, s) = IF Q[s] = NoRecord THEN {s} ELSE {s} \cup LineIn(Q, Q[s])
    <3>1. LineIn(P, s) = IF P[s] = NoRecord THEN {s} ELSE {s} \cup LineIn(P, P[s])
      BY <2>3, LineStep
    <3>2. LineIn(Q, s) = IF Q[s] = NoRecord THEN {s} ELSE {s} \cup LineIn(Q, Q[s])
      BY <2>3, LineStep
    <3> QED
      BY <3>1, <3>2
  <2>5. P[s] # NoRecord => P[s] \in 1..n /\ P[s] < s /\ P[s] # new
    BY <2>3 DEF NoRecord
  <2>6. P[s] # NoRecord => LineIn(Q, P[s]) = LineIn(P, P[s])
    BY <2>2, <2>3, <2>5 DEF Bad
  <2> QED
    BY <2>3, <2>4, <2>6
<1>2. ASSUME NEW x \in 1..n, x # new
      PROVE  LineIn(Q, x) = LineIn(P, x) /\ PartIn(Q, x) = PartIn(P, x)
  <2>1. LineIn(Q, x) = LineIn(P, x)
    BY <1>1, <1>2
  <2>2. new \notin LineIn(P, x) /\ LineIn(P, x) \subseteq 1..n
    <3>1. Chained(P, x) /\ P[new] < new
      BY AllChained
    <3>2. \A y \in 1..n : P[y] # new
      BY <3>1
    <3> QED
      BY <3>1, <3>2, <1>2 DEF Chained
  <2>3. \A q \in LineIn(P, x) : Q[q] = P[q]
    BY <2>2
  <2>4. PICK q \in LineIn(P, x) : P[q] = NoRecord /\ \A y \in LineIn(P, x) : P[y] = NoRecord => y = q
    <3>1. Chained(P, x)
      BY AllChained
    <3> QED
      BY <3>1 DEF Chained
  <2>5. PartIn(P, x) = q
    BY <2>4 DEF PartIn
  <2>6. PartIn(Q, x) = q
    BY <2>1, <2>3, <2>4 DEF PartIn
  <2> QED
    BY <2>1, <2>5, <2>6
<1> QED
  BY <1>2

-----------------------------------------------------------------------------
(* The invariants of the composed system. *)

TaskRecords ==
  [ st : ActiveTask \cup EndedTask \cup {"absent"}, refs : SUBSET (Ids \cup {Misread}),
    acks : [Ids -> {"none"} \cup Outcomes], local : SUBSET {"failed"},
    ext : Ids \cup {NoExternal}, said : SUBSET Ids, err : SUBSET Ids, summed : BOOLEAN ]

Kinds == {"parts", "retries", "again", "faults", "removed", "late", "overtaken", "settled", "owed"}

Typed ==
  /\ PTypeOK
  /\ task \in [Items -> TaskRecords]
  /\ posting \in [Items -> Results \cup {NoResult}]
  /\ \A i \in Items : posting[i] # NoResult => posting[i].ids # {}
  /\ spent \in [Kinds -> Nat]

\* A parent comes before its retry in the file, and is failed.
LineageOK ==
  /\ \A b \in Ids : parent[b] < b /\ (parent[b] # NoRecord => b <= nextId /\ outcome[parent[b]] = "failed")
  /\ \A b \in retrying \cup moving : parent[b] # NoRecord

\* A record that is staged and that nobody has looked at yet.
Untouched(b) ==
  /\ parent[b] = NoRecord /\ outcome[b] = "open" /\ marker[b] = "none" /\ b \notin ready
  /\ \A j \in jobs : j.id # b

\* A driver result with records is one of parts that are queued.
QueuedParts(r) == r.ids # {} => r.status = Aggregate({"queued_to_bridge"} \cup r.local, "failed")

\* Records nobody created yet, and those that a sender holds until its last step:
\* each has one holder.
StagedOK ==
  /\ \A b \in Ids : b > nextId => Untouched(b)
  /\ \A s \in Senders : QueuedParts(result[s]) /\ \A b \in result[s].ids : b <= nextId /\ Untouched(b)
  /\ \A i \in Items : QueuedParts(posting[i]) /\ \A b \in posting[i].ids : b <= nextId /\ Untouched(b)
  /\ \A s, r \in Senders : s # r => result[s].ids \cap result[r].ids = {}
  /\ \A i, k \in Items : i # k => posting[i].ids \cap posting[k].ids = {}
  /\ \A s \in Senders, i \in Items : result[s].ids \cap posting[i].ids = {}

\* Only a reply that was given to the bridge has records there.
EarlyOK ==
  \A i \in Items : status[i] \in {"absent", "pending", "approved", "rejected"} =>
    refs[i] = {} /\ retryOf[i] = NoId /\ posting[i] = NoResult

\* The tasks name at most one record of every part, and no activated record of the
\* part comes after it.
NamesOK ==
  /\ \A i \in Items, b \in Ids : Refers(task[i], b) => b <= nextId
  /\ \A i, k \in Items, a, b \in Ids :
       Refers(task[i], a) /\ Refers(task[k], b) /\ PartIn(parent, a) = PartIn(parent, b) => a = b
  /\ \A i \in Items, a \in ready, b \in Ids :
       Refers(task[i], b) /\ PartIn(parent, a) = PartIn(parent, b) => a \in LineIn(parent, b)

\* The activated records of a part form one chain, and only those are delivered.
ReadyOK ==
  /\ batch \subseteq ready
  /\ \A b \in Ids : Delivered(b) => b \in ready
  /\ \A a, b \in ready :
       PartIn(parent, a) = PartIn(parent, b) => a \in LineIn(parent, b) \/ b \in LineIn(parent, a)

\* What a projection or the queue says was sent was.
SentOK ==
  /\ \A j \in jobs : j.ack = "sent" => outcome[j.id] = "sent"
  /\ \A i \in Items, b \in Ids : acks[i][b] = "sent" => outcome[b] = "sent"

PInv ==
  /\ IInv /\ Typed /\ LineageOK /\ StagedOK /\ EarlyOK /\ NamesOK /\ ReadyOK /\ SentOK
  /\ NeverOverstated


-----------------------------------------------------------------------------
(* What one write leaves of a task. *)

KnownType(k) == DOMAIN k \subseteq Ids /\ \A b \in DOMAIN k : k[b] \in Outcomes \cup {"open"}

\* The records that a task refers to.
NamesOf(t) == { b \in Ids : Refers(t, b) }

LEMMA KnownIs == Typed => KnownType(Known)
<1> SUFFICES ASSUME Typed PROVE KnownType(Known)
  OBVIOUS
<1>1. held \subseteq Ids
  <2>1. held \subseteq 1 .. nextId /\ nextId \in 0 .. MaxIds
    BY DEF Typed, PTypeOK, TypeOK
  <2> QED
    BY <2>1, MaxIdsAssumption DEF Ids
<1>2. outcome \in [Ids -> Outcomes \cup {"open"}]
  BY DEF Typed, PTypeOK
<1> QED
  BY <1>1, <1>2 DEF KnownType, Known

LEMMA TextsAre ==
  ASSUME NEW t \in TaskRecords
  PROVE  /\ RepairIds(t) \subseteq NamesOf(t) \cup {Misread}
         /\ TaskIds(t) \subseteq NamesOf(t) \cup {Misread}
         /\ Acked(t) \subseteq NamesOf(t)
BY DEF TaskRecords, RepairIds, TaskIds, NamesOf, Refers, Texts, External, Acked, Misread, NoExternal

LEMMA RepairedIs ==
  ASSUME NEW t \in TaskRecords, NEW k, KnownType(k)
  PROVE  Repaired(t, k) \in TaskRecords /\ NamesOf(Repaired(t, k)) \subseteq NamesOf(t)
<1> DEFINE ids == RepairIds(t)
           end == IF \E b \in ids : k[b] = "failed" THEN "failed" ELSE "completed"
           R == [t EXCEPT !.st = end, !.refs = ids,
                    !.acks = [b \in DOMAIN t.acks |-> IF b \in ids THEN k[b] ELSE "none"],
                    !.said = @ \cup ids, !.err = IF end = "failed" THEN ids ELSE {}, !.summed = TRUE]
<1>1. CASE \A b \in ids : b \in DOMAIN k /\ k[b] # "open"
  <2>1. ids \subseteq Ids /\ \A b \in ids : k[b] \in Outcomes
    BY <1>1 DEF KnownType, Outcomes
  <2>2. ids \subseteq NamesOf(t)
    <3>1. 0 \notin Ids
      BY DEF Ids
    <3> QED
      BY <2>1, <3>1, TextsAre DEF Misread
  <2>3. end \in EndedTask
    BY DEF EndedTask
  <2> HIDE DEF ids, end
  <2>4. [b \in DOMAIN t.acks |-> IF b \in ids THEN k[b] ELSE "none"] \in [Ids -> {"none"} \cup Outcomes]
    BY <2>1 DEF TaskRecords
  <2>5. R \in TaskRecords
    BY <2>1, <2>3, <2>4 DEF TaskRecords
  <2>6. NamesOf(R) \subseteq NamesOf(t)
    <3> SUFFICES ASSUME NEW b \in Ids, Refers(R, b) PROVE b \in NamesOf(t)
      BY DEF NamesOf
    <3>1. R.refs = ids /\ R.ext = t.ext /\ R.said = t.said \cup ids /\ R.err \subseteq ids
      BY DEF TaskRecords
    <3>2. Acked(R) \subseteq ids
      BY DEF TaskRecords, Acked
    <3>3. b \in ids \cup External(t) \cup t.said
      BY <3>1, <3>2 DEF Refers, External
    <3> QED
      BY <3>3, <2>2 DEF NamesOf, Refers
  <2>7. Repaired(t, k) \in {t, R}
    BY DEF Repaired, ids, end
  <2> QED
    BY <2>5, <2>6, <2>7
<1>2. CASE ~(\A b \in ids : b \in DOMAIN k /\ k[b] # "open")
  BY <1>2 DEF Repaired
<1> QED
  BY <1>1, <1>2

LEMMA CreatedIs ==
  ASSUME NEW t \in TaskRecords, NEW k, KnownType(k)
  PROVE  Created(t, k) \in TaskRecords /\ NamesOf(Created(t, k)) \subseteq NamesOf(t)
<1> DEFINE now == Repaired(t, k)
           C == Created(t, k)
<1>1. now \in TaskRecords /\ NamesOf(now) \subseteq NamesOf(t)
  BY RepairedIs
<1>2. NoneAcked(t) \in [Ids -> {"none"} \cup Outcomes] /\ NoneAcked(t) = [b \in Ids |-> "none"]
  BY DEF NoneAcked, TaskRecords
<1>3. C = [now EXCEPT !.st = IF @ = "absent" THEN "queued" ELSE @,
                      !.refs = {}, !.acks = NoneAcked(t), !.local = {}]
  BY DEF Created
<1> HIDE DEF now, C
<1>4. C.refs = {} /\ C.acks = NoneAcked(t) /\ C.ext = now.ext /\ C.said = now.said /\ C.err = now.err
  BY <1>1, <1>3 DEF TaskRecords
<1>5. C \in TaskRecords
  BY <1>1, <1>2, <1>3 DEF TaskRecords, ActiveTask
<1>6. Acked(C) = {}
  BY <1>2, <1>4 DEF Acked
<1>7. ASSUME NEW b, Refers(C, b) PROVE Refers(now, b)
  BY <1>4, <1>6, <1>7 DEF Refers, External
<1> QED
  BY <1>1, <1>5, <1>7 DEF NamesOf, C

LEMMA TransitionedIs ==
  ASSUME NEW t \in TaskRecords, NEW k, KnownType(k), NEW op \in TaskOps
  PROVE  Transitioned(t, k, op) \in TaskRecords /\ NamesOf(Transitioned(t, k, op)) \subseteq NamesOf(t)
<1> DEFINE now == Repaired(t, k)
           W == Transitioned(t, k, op)
<1>1. now \in TaskRecords /\ NamesOf(now) \subseteq NamesOf(t)
  BY RepairedIs
<1>2. W = [now EXCEPT !.st = StatusAfter(op), !.said = {},
                      !.err = IF KeepsError(op) THEN @ ELSE {},
                      !.summed = @ /\ KeepsError(op) /\ now.err # {}]
  BY DEF Transitioned
<1>3. StatusAfter(op) \in ActiveTask \cup EndedTask
  BY DEF StatusAfter, TaskOps, ActiveTask, EndedTask
<1> HIDE DEF now, W
<1>4. (now.summed /\ KeepsError(op) /\ now.err # {}) \in BOOLEAN
  BY <1>1 DEF TaskRecords, KeepsError
<1>5. (IF KeepsError(op) THEN now.err ELSE {}) \in SUBSET Ids
  BY <1>1 DEF TaskRecords
<1>6. ASSUME NEW st \in ActiveTask \cup EndedTask, NEW err \in SUBSET Ids, NEW summed \in BOOLEAN
      PROVE  [now EXCEPT !.st = st, !.said = {}, !.err = err, !.summed = summed] \in TaskRecords
  <2>1. {} \in SUBSET Ids
    OBVIOUS
  <2> QED
    BY <1>1, <1>6, <2>1, Zenon DEF TaskRecords
<1>7. W = [now EXCEPT !.st = StatusAfter(op), !.said = {},
                      !.err = IF KeepsError(op) THEN now.err ELSE {},
                      !.summed = now.summed /\ KeepsError(op) /\ now.err # {}]
  BY <1>2, Zenon
<1>8. W \in TaskRecords
  BY <1>3, <1>4, <1>5, <1>6, <1>7, Zenon
<1>9. W.refs = now.refs /\ W.acks = now.acks /\ W.ext = now.ext /\ W.said = {} /\ W.err \subseteq now.err
  BY <1>1, <1>7 DEF TaskRecords
<1>10. ASSUME NEW b, Refers(W, b) PROVE Refers(now, b)
  BY <1>9, <1>10 DEF Refers, Acked, External
<1> QED
  BY <1>1, <1>8, <1>10 DEF NamesOf, W

LEMMA ResultIs ==
  ASSUME NEW r \in Results \cup {NoResult}
  PROVE  r.ids \in SUBSET Ids /\ r.local \in SUBSET {"failed"}
<1>1. CASE r = NoResult
  BY <1>1 DEF NoResult, Result
<1>2. CASE r = StayApproved
  BY <1>2 DEF StayApproved, Result
<1>3. CASE r \in [status : ResultStatuses, stay : {FALSE}, ids : SUBSET Ids, local : SUBSET {"failed"}]
  BY <1>3
<1> QED
  BY <1>1, <1>2, <1>3 DEF Results

\* The result that ends a send names the records it created.
LEMMA FinishedIs ==
  ASSUME NEW t \in TaskRecords, NEW k, KnownType(k), NEW r \in Results \cup {NoResult}, r.ids # {}
  PROVE  Finished(t, k, r) \in TaskRecords /\ NamesOf(Finished(t, k, r)) \subseteq NamesOf(t) \cup r.ids
<1>1. r.ids \subseteq Ids /\ r.local \subseteq {"failed"}
  BY ResultIs
<1>3. CASE r.ids # {}
  <2> DEFINE m == Min(r.ids)
             p == Repaired(t, k)
             F == Finished(t, k, r)
             queued == r.status = "queued_to_bridge"
  <2>1. m \in r.ids
    BY <1>1, <1>3, MinIs DEF Ids
  <2>2. p \in TaskRecords /\ NamesOf(p) \subseteq NamesOf(t)
    BY RepairedIs
  <2>3. NoneAcked(t) \in [Ids -> {"none"} \cup Outcomes] /\ NoneAcked(t) = [b \in Ids |-> "none"]
    BY DEF NoneAcked, TaskRecords
  <2>4. F = [p EXCEPT !.st = IF queued THEN "queued" ELSE "failed",
               !.refs = r.ids, !.acks = NoneAcked(t), !.local = r.local,
               !.ext = m, !.said = r.ids,
               !.err = IF queued THEN @ ELSE r.ids, !.summed = @ /\ queued]
    BY <1>3 DEF Finished
  <2>5. queued \in BOOLEAN
    OBVIOUS
  <2> HIDE DEF p, m, F, queued
  <2>6. (p.summed /\ queued) \in BOOLEAN
    OBVIOUS
  <2>7. F \in TaskRecords
    <3>1. m \in Ids /\ r.ids \in SUBSET Ids /\ r.local \in SUBSET {"failed"}
      BY <1>1, <2>1
    <3>2. NoneAcked(t) \in [Ids -> {"none"} \cup Outcomes]
      BY <2>3
    <3>3. (IF queued THEN "queued" ELSE "failed") \in ActiveTask \cup EndedTask
      BY DEF ActiveTask, EndedTask
    <3>4. (IF queued THEN p.err ELSE r.ids) \in SUBSET Ids
      BY <1>1, <2>2 DEF TaskRecords
    <3>5. ASSUME NEW st \in ActiveTask \cup EndedTask, NEW err \in SUBSET Ids, NEW summed \in BOOLEAN
          PROVE  [p EXCEPT !.st = st, !.refs = r.ids, !.acks = NoneAcked(t), !.local = r.local,
                           !.ext = m, !.said = r.ids, !.err = err, !.summed = summed] \in TaskRecords
      <4>1. ASSUME NEW ids \in SUBSET Ids, NEW lost \in SUBSET {"failed"}, NEW e \in Ids,
                   NEW A \in [Ids -> {"none"} \cup Outcomes]
            PROVE  [p EXCEPT !.st = st, !.refs = ids, !.acks = A, !.local = lost, !.ext = e,
                             !.said = ids, !.err = err, !.summed = summed] \in TaskRecords
        BY <2>2, <3>5, Zenon DEF TaskRecords
      <4> QED
        BY <3>1, <3>2, <4>1
    <3>6. [p EXCEPT !.st = IF queued THEN "queued" ELSE "failed",
                    !.refs = r.ids, !.acks = NoneAcked(t), !.local = r.local,
                    !.ext = m, !.said = r.ids,
                    !.err = IF queued THEN p.err ELSE r.ids, !.summed = p.summed /\ queued] \in TaskRecords
      BY <2>6, <3>3, <3>4, <3>5, Zenon
    <3> QED
      BY <2>4, <3>6
  <2>8. /\ F.refs = r.ids /\ F.acks = NoneAcked(t) /\ F.ext = m /\ F.said = r.ids
        /\ F.err \subseteq p.err \cup r.ids
    BY <2>2, <2>4 DEF TaskRecords
  <2>9. ASSUME NEW b, Refers(F, b) PROVE Refers(p, b) \/ b \in r.ids
    <3>1. Acked(F) = {}
      BY <2>3, <2>8 DEF Acked
    <3> QED
      BY <2>1, <2>8, <2>9, <3>1 DEF Refers, External
  <2> QED
    BY <2>2, <2>7, <2>9 DEF NamesOf, F
<1> QED
  BY <1>3

\* An acknowledgement is projected to a task that names its record.
LEMMA ProjectedIs ==
  ASSUME NEW t \in TaskRecords, NEW b \in Ids, NEW ack \in Outcomes, Refers(t, b)
  PROVE  Projected(t, b, ack) \in TaskRecords /\ NamesOf(Projected(t, b, ack)) \subseteq NamesOf(t)
<1> DEFINE ids  == TaskIds(t) \cup {b}
           next == [t EXCEPT !.refs = ids, !.acks[b] = QueueStatusOfAck(ack)]
           sum  == Aggregate({ PartOf(next, c) : c \in ids } \cup t.local, "failed")
           A == [next EXCEPT !.err = IF t.st = "completed" THEN {} ELSE @]
           B == [next EXCEPT !.st = TaskStatusOf(sum), !.said = @ \cup (ids \ {Misread}),
                       !.err = IF sum = "failed" THEN ids \ {Misread} ELSE {}, !.summed = TRUE]
<1>1. Projected(t, b, ack) \in {A, B}
  BY DEF Projected
<1>2. ids \subseteq NamesOf(t) \cup {Misread} /\ NamesOf(t) \subseteq Ids
  BY TextsAre DEF NamesOf
<1>3. QueueStatusOfAck(ack) \in Outcomes
  BY DEF QueueStatusOfAck, Outcomes
<1>4. TaskStatusOf(sum) \in ActiveTask \cup EndedTask
  BY DEF TaskStatusOf, ActiveTask, EndedTask
<1> HIDE DEF ids, sum
<1>5. next \in TaskRecords
  BY <1>2, <1>3 DEF TaskRecords
<1>6. /\ next.refs = ids /\ next.ext = t.ext /\ next.said = t.said /\ next.err = t.err
      /\ \A c \in Ids : next.acks[c] # "none" => c = b \/ t.acks[c] # "none"
  BY DEF TaskRecords
<1> HIDE DEF next
<1>7. A \in TaskRecords /\ B \in TaskRecords
  <2>1. A \in TaskRecords
    BY <1>5 DEF TaskRecords
  <2>2. ids \ {Misread} \subseteq Ids
    BY <1>2
  <2>3. B \in TaskRecords
    BY <1>4, <1>5, <2>2 DEF TaskRecords
  <2> QED
    BY <2>1, <2>3
<1>8. Acked(next) \subseteq NamesOf(t)
  BY <1>5, <1>6 DEF Acked, TaskRecords, NamesOf, Refers
<1>9. ASSUME NEW x \in {A, B}, NEW c \in Ids, Refers(x, c) PROVE c \in NamesOf(t)
  <2>1. /\ x.refs = next.refs /\ x.ext = next.ext /\ x.acks = next.acks
        /\ x.said \subseteq next.said \cup (ids \ {Misread})
        /\ x.err \subseteq next.err \cup (ids \ {Misread})
    BY <1>5, <1>9 DEF TaskRecords
  <2>2. c \in ids \cup Acked(next) \cup External(t) \cup t.said \cup t.err
    BY <1>6, <1>9, <2>1 DEF Refers, Acked, External
  <2>3. Misread \notin Ids
    BY DEF Ids, Misread
  <2> QED
    BY <1>2, <1>8, <1>9, <2>2, <2>3 DEF NamesOf, Refers
<1> QED
  BY <1>1, <1>7, <1>9 DEF NamesOf

\* A retry takes the place of the records it retries.
LEMMA RequeuedIs ==
  ASSUME NEW t \in TaskRecords, NEW old \in SUBSET Ids, NEW new \in Ids
  PROVE  /\ Requeued(t, old, new) \in TaskRecords
         /\ NamesOf(Requeued(t, old, new)) \subseteq (NamesOf(t) \ old) \cup {new}
<1> DEFINE R == Requeued(t, old, new)
           ids == { IF b \in old THEN new ELSE b : b \in TaskIds(t) }
           A == [b \in DOMAIN t.acks |-> IF b \in old \cup {new} THEN "none" ELSE t.acks[b]]
<1>1. R = [t EXCEPT !.st = "queued", !.refs = ids, !.acks = A, !.ext = IF @ \in old THEN new ELSE @,
                    !.said = {new}, !.err = {}, !.summed = FALSE]
  BY DEF Requeued
<1>2. ids \subseteq ((NamesOf(t) \ old) \cup {new, Misread}) /\ NamesOf(t) \subseteq Ids
  BY TextsAre DEF NamesOf
<1>3. A \in [Ids -> {"none"} \cup Outcomes] /\ \A c \in Ids : A[c] # "none" => c \in NamesOf(t) \ old
  BY DEF TaskRecords, NamesOf, Refers, Acked
<1> HIDE DEF R, ids, A
<1>4. R \in TaskRecords
  BY <1>1, <1>2, <1>3 DEF TaskRecords, ActiveTask
<1>5. /\ R.refs = ids /\ R.acks = A /\ R.said = {new} /\ R.err = {}
      /\ R.ext = IF t.ext \in old THEN new ELSE t.ext
  BY <1>1 DEF TaskRecords
<1>6. ASSUME NEW c \in Ids, Refers(R, c) PROVE c \in (NamesOf(t) \ old) \cup {new}
  <2>1. Misread \notin Ids
    BY DEF Ids, Misread
  <2>2. CASE c \in R.refs
    BY <1>2, <1>5, <1>6, <2>1, <2>2
  <2>3. CASE c \in Acked(R)
    BY <1>3, <1>5, <1>6, <2>3 DEF Acked
  <2>4. CASE c \in External(R)
    BY <1>5, <1>6, <2>4 DEF External, NamesOf, Refers
  <2>5. CASE c \in R.said \cup R.err
    BY <1>5, <2>5
  <2> QED
    BY <1>6, <2>2, <2>3, <2>4, <2>5 DEF Refers
<1> QED
  BY <1>4, <1>6 DEF NamesOf, R

-----------------------------------------------------------------------------
(* Steps of the composed system. *)

TellsTask == \E w \in telling : TellTask(w)
Settles(b) == \E to \in Outcomes : OperatorSettles(b, to)

LEMMA Steps ==
  ASSUME [PNext]_pvars
  PROVE  \/ UNCHANGED pvars
         \/ QueueStep
         \/ \E i \in Items : PublishTask(i) \/ PublishFails(i) \/ SecondSend(i) \/ Repair(i)
         \/ TellsTask
         \/ \E b \in Ids, to \in Outcomes : WorkerDecides(b, to)
         \/ Reconcile \/ TickEnds
         \/ \E j \in jobs : SyncQueue(j) \/ SyncTask(j)
         \/ \E b \in Ids : Settles(b) \/ ReuseSuccessor(b) \/ CreateSuccessor(b)
         \/ \E b \in Ids : MoveQueue(b) \/ MoveTask(b) \/ MoveMissing(b) \/ MoveFails(b)
BY DEF PNext, BridgeWorkerStep, Sync, Move, TellsTask, Settles

\* The queue's own steps are steps of ConfirmQueue.
LEMMA QueueStepIs ==
  ASSUME QueueStep
  PROVE  \/ \E i \in Items : OperatorStep(i)
         \/ \E s \in Senders : SenderStep(s)
BY DEF QueueStep, OperatorTells, SenderTells, OperatorStep, SenderStep

LEMMA RecordIs == Typed => \A b \in 1 .. nextId : b \in Ids
<1> SUFFICES ASSUME Typed, NEW b \in 1 .. nextId PROVE b \in Ids
  OBVIOUS
<1>1. nextId \in 0 .. MaxIds
  BY DEF Typed, PTypeOK, TypeOK
<1> QED
  BY <1>1, MaxIdsAssumption DEF Ids

\* What ConfirmQueue guarantees holds with the real acknowledgements and retries.
LEMMA QueueNext ==
  ASSUME IInv, Typed, [PNext]_pvars
  PROVE  IInv'
<1>0. TypeOK /\ nextId \in 0 .. MaxIds
  BY DEF Typed, PTypeOK, TypeOK
<1>1. CASE QueueStep
  BY <1>1, QueueStepIs, SafeNext DEF Next
<1>2. CASE UNCHANGED vars
  BY <1>2, SafeNext
<1>3. ASSUME NEW j \in jobs, SyncQueue(j) PROVE IInv'
  <2>1. j.id \in Ids /\ UNCHANGED <<senderVars, procVars, nextId, effects>>
    BY <1>3 DEF Typed, PTypeOK, SyncQueue
  <2>2. ASSUME NEW i \in Items, ApplyBridgeAck(i, j.id, j.ack) PROVE IInv'
    <3>1. TypeOK'
      BY <1>0, <2>1, <2>2, TypeAck
    <3> QED
      BY <2>1, <2>2, <3>1, SafeAck DEF senderVars, procVars
  <2>3. ASSUME UNCHANGED queueVars PROVE IInv'
    BY <2>1, <2>3, SafeNext DEF vars
  <2>4. (\E i \in Items : ApplyBridgeAck(i, j.id, j.ack)) \/ UNCHANGED queueVars
    BY <1>3 DEF SyncQueue, QueueShows, Referencing
  <2> QED
    BY <2>2, <2>3, <2>4
<1>4. ASSUME NEW b \in Ids, CreateSuccessor(b) PROVE IInv'
  <2>1. UNCHANGED <<queueVars, senderVars, procVars, effects>> /\ nextId' \in Ids
    BY <1>4 DEF CreateSuccessor
  <2>2. nextId' \in 0 .. MaxIds
    BY <2>1, MaxIdsAssumption DEF Ids
  <2> QED
    BY <2>1, <2>2 DEF IInv, TypeOK, SenderOK, ClaimOK, UntouchedOK, AtMostOneSend, NeverReopenedAfterSend,
       Claimed, TokenOf, queueVars, senderVars, procVars
<1>5. ASSUME NEW b \in Ids, MoveQueue(b) PROVE IInv'
  <2>1. UNCHANGED <<senderVars, procVars, nextId, effects>>
    BY <1>5 DEF MoveQueue
  <2>2. PICK i \in Items : RequeueBridgeResult(i, parent[b], Line(b), b)
    BY <1>5 DEF MoveQueue
  <2>3. parent[b] \in Ids \cup {NoId}
    BY DEF Typed, PTypeOK, NoRecord, NoId
  <2>4. TypeOK'
    BY <1>0, <2>1, <2>2, <2>3, TypeRequeue
  <2> QED
    BY <2>1, <2>2, <2>4, SafeRequeue DEF senderVars, procVars
<1>6. ASSUME \/ \E i \in Items : PublishTask(i) \/ PublishFails(i) \/ SecondSend(i) \/ Repair(i)
             \/ TellsTask
             \/ \E b \in Ids, to \in Outcomes : WorkerDecides(b, to)
             \/ Reconcile \/ TickEnds \/ UNCHANGED pvars
             \/ \E j \in jobs : SyncTask(j)
             \/ \E b \in Ids : Settles(b) \/ ReuseSuccessor(b)
             \/ \E b \in Ids : MoveTask(b) \/ MoveMissing(b) \/ MoveFails(b)
      PROVE  UNCHANGED vars
  BY <1>6 DEF PublishTask, PublishFails, SecondSend, Repair, TellsTask, TellTask, WorkerDecides, Reconcile, TickEnds, SyncTask,
     Settles, OperatorSettles, ReuseSuccessor, MoveTask, MoveMissing, MoveFails, pvars
<1> QED
  BY <1>1, <1>2, <1>3, <1>4, <1>5, <1>6, Steps

\* The chains of the outbox are those of the lemmas.
LEMMA ParentsAre ==
  ASSUME Typed, LineageOK
  PROVE  /\ MaxIds \in Nat /\ Ids = 1 .. MaxIds
         /\ parent \in [1 .. MaxIds -> 0 .. MaxIds]
         /\ \A r \in 1 .. MaxIds : parent[r] < r
<1>1. MaxIds \in Nat /\ Ids = 1 .. MaxIds
  BY MaxIdsAssumption DEF Ids
<1>2. Ids \cup {NoRecord} = 0 .. MaxIds
  BY <1>1 DEF NoRecord
<1> QED
  BY <1>1, <1>2 DEF Typed, PTypeOK, LineageOK

LEMMA LineIs ==
  ASSUME Typed, LineageOK, NEW b \in Ids
  PROVE  /\ Line(b) = LineIn(parent, b) /\ Part(b) = PartIn(parent, b)
         /\ Line(b) \subseteq Ids /\ b \in Line(b)
<1>1. Line(b) = LineIn(parent, b) /\ Part(b) = PartIn(parent, b)
  BY DEF Line, Part, Ancestors, LineIn, PartIn
<1>2. LineIn(parent, b) \subseteq Ids /\ b \in LineIn(parent, b)
  BY ParentsAre, PartIs DEF LineIn
<1> QED
  BY <1>1, <1>2

\* What a step does to the tasks and to the records they name.
Fewer == \A i \in Items : NamesOf(task'[i]) \subseteq NamesOf(task[i])
Publishes(i) ==
  /\ PublishTask(i) \/ PublishFails(i)
  /\ NamesOf(task'[i]) \subseteq NamesOf(task[i]) \cup posting[i].ids
  /\ \A k \in Items \ {i} : task'[k] = task[k]
Moves(b) ==
  /\ MoveTask(b) \/ MoveMissing(b)
  /\ \A i \in Items : IF i \in Moved(b) THEN NamesOf(task'[i]) \subseteq (NamesOf(task[i]) \ Line(b)) \cup {b}
                                        ELSE task'[i] = task[i]

LEMMA TellStep ==
  ASSUME Typed, NEW w \in telling, TellTask(w)
  PROVE  task' \in [Items -> TaskRecords] /\ Fewer
<1>1. task \in [Items -> TaskRecords] /\ KnownType(Known)
  BY KnownIs DEF Typed
<1>2. w.item \in Items /\ w.op \in TaskOps
  BY DEF Typed, PTypeOK
<1>3. task[w.item] \in TaskRecords
  BY <1>1, <1>2
<1>4. /\ Created(task[w.item], Known) \in TaskRecords
      /\ NamesOf(Created(task[w.item], Known)) \subseteq NamesOf(task[w.item])
  BY <1>1, <1>3, CreatedIs
<1>5. /\ Transitioned(task[w.item], Known, w.op) \in TaskRecords
      /\ NamesOf(Transitioned(task[w.item], Known, w.op)) \subseteq NamesOf(task[w.item])
  BY <1>1, <1>2, <1>3, TransitionedIs
<1>6. \/ task' = task
      \/ task' = [task EXCEPT ![w.item] = Created(task[w.item], Known)]
      \/ task' = [task EXCEPT ![w.item] = Transitioned(task[w.item], Known, w.op)]
  BY DEF TellTask, CreateTask, TransitionTask
<1> QED
  BY <1>1, <1>2, <1>4, <1>5, <1>6 DEF Fewer

LEMMA TaskStep ==
  ASSUME IInv, Typed, LineageOK, [PNext]_pvars
  PROVE  /\ task' \in [Items -> TaskRecords]
         /\ Fewer \/ (\E i \in Items : Publishes(i)) \/ (\E b \in Ids : Moves(b))
<1>0. task \in [Items -> TaskRecords] /\ KnownType(Known) /\ posting \in [Items -> Results \cup {NoResult}]
  BY KnownIs DEF Typed
<1>1. ASSUME UNCHANGED task PROVE task' \in [Items -> TaskRecords] /\ Fewer
  BY <1>0, <1>1 DEF Fewer
<1>2. ASSUME QueueStep PROVE UNCHANGED task
  BY <1>2 DEF QueueStep, OperatorTells, SenderTells, SenderEnds, Owes, TellsNothing, taskVars
<1>3. ASSUME NEW i \in Items, SecondSend(i) PROVE UNCHANGED task
  BY <1>3 DEF SecondSend, Owes
<1>9. ASSUME TellsTask PROVE task' \in [Items -> TaskRecords] /\ Fewer
  BY <1>9, TellStep DEF TellsTask
<1>4. ASSUME NEW i \in Items, Repair(i) PROVE task' \in [Items -> TaskRecords] /\ Fewer
  <2>1. task' = [task EXCEPT ![i] = Repaired(task[i], Known)]
    BY <1>4 DEF Repair
  <2>2. Repaired(task[i], Known) \in TaskRecords /\ NamesOf(Repaired(task[i], Known)) \subseteq NamesOf(task[i])
    BY <1>0, RepairedIs
  <2> QED
    BY <1>0, <2>1, <2>2 DEF Fewer
<1>5. ASSUME NEW i \in Items, PublishTask(i) \/ PublishFails(i)
      PROVE  task' \in [Items -> TaskRecords] /\ Publishes(i)
  <2> DEFINE F == Finished(task[i], Known, posting[i])
  <2>0. posting[i].ids # {}
    BY <1>5 DEF Typed, PublishTask, PublishFails
  <2>1. F \in TaskRecords /\ NamesOf(F) \subseteq NamesOf(task[i]) \cup posting[i].ids
    BY <1>0, <2>0, FinishedIs
  <2>2. task' = task \/ task' = [task EXCEPT ![i] = F]
    BY <1>5 DEF PublishTask, PublishFails
  <2> HIDE DEF F
  <2>3. task' \in [Items -> TaskRecords] /\ \A k \in Items \ {i} : task'[k] = task[k]
    BY <1>0, <2>1, <2>2
  <2>4. task'[i] = task[i] \/ task'[i] = F
    BY <1>0, <2>2
  <2> QED
    BY <1>5, <2>1, <2>3, <2>4 DEF Publishes
<1>6. ASSUME NEW j \in jobs, SyncTask(j) PROVE task' \in [Items -> TaskRecords] /\ Fewer
  <2>1. j.id \in Ids /\ j.ack \in Outcomes
    BY DEF Typed, PTypeOK
  <2>2. CASE TasksFollow(j)
    <3>1. \A i \in Items : Refers(task[i], j.id) =>
            /\ Projected(task[i], j.id, j.ack) \in TaskRecords
            /\ NamesOf(Projected(task[i], j.id, j.ack)) \subseteq NamesOf(task[i])
      BY <1>0, <2>1, ProjectedIs
    <3>2. task' = [i \in Items |-> IF i \in Showing(j.id) THEN Projected(task[i], j.id, j.ack) ELSE task[i]]
      BY <2>2 DEF TasksFollow
    <3>3. \A i \in Items : i \in Showing(j.id) => Refers(task[i], j.id)
      BY DEF Showing
    <3> QED
      BY <1>0, <3>1, <3>2, <3>3 DEF Fewer
  <2> QED
    BY <1>1, <1>6, <2>2 DEF SyncTask
<1>7. ASSUME NEW b \in Ids, MoveTask(b) \/ MoveMissing(b)
      PROVE  task' \in [Items -> TaskRecords] /\ Moves(b)
  <2>1. task' = [i \in Items |-> IF i \in Moved(b) THEN Requeued(task[i], Line(b), b) ELSE task[i]]
    BY <1>7 DEF MoveTask, MoveMissing, TasksMove
  <2>2. Line(b) \in SUBSET Ids
    BY LineIs
  <2>3. \A i \in Items : /\ Requeued(task[i], Line(b), b) \in TaskRecords
                          /\ NamesOf(Requeued(task[i], Line(b), b)) \subseteq (NamesOf(task[i]) \ Line(b)) \cup {b}
    <3> TAKE i \in Items
    <3>1. task[i] \in TaskRecords
      BY <1>0
    <3> QED
      BY <2>2, <3>1, RequeuedIs
  <2> QED
    BY <1>0, <1>7, <2>1, <2>3 DEF Moves
<1>8. ASSUME \/ \E b \in Ids, to \in Outcomes : WorkerDecides(b, to)
             \/ Reconcile \/ TickEnds \/ UNCHANGED pvars
             \/ \E j \in jobs : SyncQueue(j)
             \/ \E b \in Ids : Settles(b) \/ ReuseSuccessor(b) \/ CreateSuccessor(b)
             \/ \E b \in Ids : MoveQueue(b) \/ MoveFails(b)
      PROVE  UNCHANGED task
  BY <1>8 DEF WorkerDecides, Reconcile, TickEnds, SyncQueue,
     Settles, OperatorSettles, ReuseSuccessor, CreateSuccessor, MoveQueue, MoveFails, pvars, taskVars
<1> QED
  BY <1>1, <1>2, <1>3, <1>4, <1>5, <1>6, <1>7, <1>8, <1>9, Steps


\* A budget only grows.
LEMMA SpendIs ==
  ASSUME Typed, NEW kind \in Kinds, NEW more \in Nat, Spend(kind, more)
  PROVE  spent' \in [Kinds -> Nat] /\ \A k \in Kinds : spent'[k] >= spent[k]
<1>1. spent \in [Kinds -> Nat] /\ spent' = [spent EXCEPT ![kind] = @ + more]
  BY DEF Typed, Spend
<1>2. spent' = [k \in Kinds |-> IF k = kind THEN spent[k] + more ELSE spent[k]]
  BY <1>1
<1> QED
  BY <1>1, <1>2

LEMMA SpentStep ==
  ASSUME Typed, [PNext]_pvars
  PROVE  spent' \in [Kinds -> Nat] /\ \A k \in Kinds : spent'[k] >= spent[k]
<1>1. ASSUME UNCHANGED spent
      PROVE  spent' \in [Kinds -> Nat] /\ \A k \in Kinds : spent'[k] >= spent[k]
  <2>1. spent \in [Kinds -> Nat]
    BY DEF Typed
  <2>2. \A k \in Kinds : spent[k] \in Nat
    BY <2>1
  <2>3. \A k \in Kinds : spent[k] >= spent[k]
    BY <2>2
  <2> QED
    BY <1>1, <2>1, <2>3
<1>2. ASSUME NEW kind \in Kinds, NEW more \in Nat, Spend(kind, more)
      PROVE  spent' \in [Kinds -> Nat] /\ \A k \in Kinds : spent'[k] >= spent[k]
  BY <1>2, SpendIs
<1>3. ASSUME QueueStep
      PROVE  UNCHANGED spent \/ Spend("removed", 1) \/ Spend("late", 1) \/ \E more \in Nat : Spend("parts", more)
  <2>1. ASSUME NEW s \in Senders, Execute(s) PROVE nextId' - nextId \in Nat
    <3>1. nextId \in Nat
      BY MaxIdsAssumption DEF Typed, PTypeOK, TypeOK
    <3>2. nextId' = nextId \/ \E n \in 1 .. (MaxIds - nextId) : nextId' = nextId + n
      BY <2>1 DEF Execute, PreconditionFails, PartsQueued, DriverAnswers
    <3> QED
      BY <3>1, <3>2, MaxIdsAssumption
  <2> QED
    BY <1>3, <2>1 DEF QueueStep, OperatorTells, SenderTells
<1>4. ASSUME \/ \E i \in Items : PublishTask(i) \/ Repair(i)
             \/ \E b \in Ids, to \in Outcomes : WorkerDecides(b, to)
             \/ Reconcile \/ TickEnds \/ UNCHANGED pvars
             \/ \E b \in Ids : MoveQueue(b) \/ MoveTask(b) \/ MoveMissing(b)
      PROVE  UNCHANGED spent
  BY <1>4 DEF PublishTask, Repair, WorkerDecides, Reconcile, TickEnds,
     MoveQueue, MoveTask, MoveMissing, pvars
<1>6. ASSUME TellsTask \/ \E b \in Ids : Settles(b)
      PROVE  UNCHANGED spent \/ Spend("faults", 1) \/ Spend("overtaken", 1) \/ Spend("settled", 1)
  BY <1>6 DEF TellsTask, TellTask, Settles, OperatorSettles, Faulty
<1>5. ASSUME \/ \E i \in Items : PublishFails(i) \/ SecondSend(i)
             \/ \E j \in jobs : SyncQueue(j) \/ SyncTask(j)
             \/ \E b \in Ids : ReuseSuccessor(b) \/ CreateSuccessor(b) \/ MoveFails(b)
      PROVE  UNCHANGED spent \/ Spend("faults", 1) \/ Spend("again", 1) \/ Spend("retries", 1)
  BY <1>5 DEF PublishFails, SecondSend, SyncQueue, SyncTask, ReuseSuccessor, CreateSuccessor,
     CanRetry, MoveFails, Faulty
<1> QED
  BY <1>1, <1>2, <1>3, <1>4, <1>5, <1>6, Steps DEF Kinds

LEMMA PostingStep ==
  ASSUME IInv, Typed, [PNext]_pvars
  PROVE  /\ posting' \in [Items -> Results \cup {NoResult}]
         /\ \A i \in Items : posting'[i] # NoResult => posting'[i].ids # {}
<1> DEFINE Goal == /\ posting' \in [Items -> Results \cup {NoResult}]
                   /\ \A i \in Items : posting'[i] # NoResult => posting'[i].ids # {}
<1>1. /\ posting \in [Items -> Results \cup {NoResult}]
      /\ \A i \in Items : posting[i] # NoResult => posting[i].ids # {}
  BY DEF Typed
<1>2. ASSUME QueueStep PROVE Goal
  <2>1. ASSUME NEW s \in Senders, posting' = [posting EXCEPT ![target[s]] = result[s]], result[s].ids # {}
        PROVE  Goal
    BY <1>1, <2>1 DEF IInv, TypeOK
  <2>2. \/ posting' = posting
        \/ \E s \in Senders : posting' = [posting EXCEPT ![target[s]] = result[s]] /\ result[s].ids # {}
    BY <1>2 DEF QueueStep, OperatorTells, SenderTells, SenderEnds, Owes, TellsNothing, taskVars
  <2> QED
    BY <1>1, <2>1, <2>2
<1>3. ASSUME \/ \E i \in Items : PublishTask(i) \/ PublishFails(i) \/ SecondSend(i) \/ Repair(i)
             \/ TellsTask
             \/ \E b \in Ids, to \in Outcomes : WorkerDecides(b, to)
             \/ Reconcile \/ TickEnds \/ UNCHANGED pvars
             \/ \E j \in jobs : SyncQueue(j) \/ SyncTask(j)
             \/ \E b \in Ids : Settles(b) \/ ReuseSuccessor(b) \/ CreateSuccessor(b)
             \/ \E b \in Ids : MoveQueue(b) \/ MoveTask(b) \/ MoveMissing(b) \/ MoveFails(b)
      PROVE  posting' = posting \/ \E i \in Items : posting' = [posting EXCEPT ![i] = NoResult]
  BY <1>3 DEF PublishTask, PublishFails, SecondSend, Owes, Repair, TellsTask, TellTask, WorkerDecides, Reconcile, TickEnds,
     SyncQueue, SyncTask, Settles, OperatorSettles, ReuseSuccessor, CreateSuccessor,
     MoveQueue, MoveTask, MoveMissing, MoveFails, pvars, taskVars
<1> QED
  BY <1>1, <1>2, <1>3, Steps


LEMMA GrowsStep ==
  ASSUME Typed, [PNext]_pvars
  PROVE  nextId \in Nat /\ nextId' \in Nat /\ nextId' >= nextId
<1>1. nextId \in 0 .. MaxIds
  BY DEF Typed, PTypeOK, TypeOK
<1>2. nextId \in Nat
  BY <1>1, MaxIdsAssumption
<1>3. nextId' = nextId \/ \E n \in Nat : nextId' = nextId + n
  <2>1. CASE QueueStep
    <3>1. nextId' = nextId \/ \E n \in 1 .. (MaxIds - nextId) : nextId' = nextId + n
      BY <2>1, QueueStepIs DEF OperatorStep, Enqueue, Approve, Reject, RetireObsolete, Review, Remove,
         SenderStep, ClaimGranted, ClaimRetired, Begin, Execute, PreconditionFails, PartsQueued, DriverAnswers,
         Release, MarkResult, QueueWriteFails, SenderDone
    <3> QED
      BY <1>1, <3>1, MaxIdsAssumption
  <2>2. ASSUME \E b \in Ids : CreateSuccessor(b) PROVE nextId' = nextId + 1
    BY <2>2 DEF CreateSuccessor
  <2>3. ASSUME \/ \E i \in Items : PublishTask(i) \/ PublishFails(i) \/ SecondSend(i) \/ Repair(i)
               \/ TellsTask
               \/ \E b \in Ids, to \in Outcomes : WorkerDecides(b, to)
               \/ Reconcile \/ TickEnds \/ UNCHANGED pvars
               \/ \E j \in jobs : SyncQueue(j) \/ SyncTask(j)
               \/ \E b \in Ids : Settles(b) \/ ReuseSuccessor(b)
               \/ \E b \in Ids : MoveQueue(b) \/ MoveTask(b) \/ MoveMissing(b) \/ MoveFails(b)
        PROVE  nextId' = nextId
    BY <2>3 DEF PublishTask, PublishFails, SecondSend, Repair, TellsTask, TellTask, WorkerDecides, Reconcile, TickEnds,
       SyncQueue, SyncTask, Settles, OperatorSettles, ReuseSuccessor,
       MoveQueue, MoveTask, MoveMissing, MoveFails, pvars, vars
  <2> QED
    BY <2>1, <2>2, <2>3, Steps
<1> QED
  BY <1>2, <1>3

\* The parent of a new retry is the newest record of its chain.
LEMMA NewParent ==
  ASSUME Typed, NEW b \in held
  PROVE  LET top == Max({b} \cup Descendants(b)) IN
         top \in held /\ top \in {b} \cup Descendants(b) /\ \A d \in {b} \cup Descendants(b) : d <= top
<1> DEFINE S == {b} \cup Descendants(b)
<1>1. MaxIds \in Nat /\ nextId \in 0 .. MaxIds /\ held \subseteq 1 .. nextId
  BY MaxIdsAssumption DEF Typed, PTypeOK, TypeOK
<1>2. S \subseteq held
  BY DEF Descendants, DescendantsIn
<1> HIDE DEF S
<1>3. nextId \in Nat /\ S \in SUBSET (0 .. nextId)
  BY <1>1, <1>2
<1>4. S # {}
  BY DEF S
<1>5. Max(S) \in S /\ \A y \in S : y <= Max(S)
  BY <1>3, <1>4, MaxIs
<1> QED
  BY <1>2, <1>5 DEF S

\* A task write begins with its first transaction, and every write is of a reply.
TellingRecords == [item : Items, op : TaskOps, at : {"create", "move"}]
FirstWrite(i, op) == [item |-> i, op |-> op, at |-> "create"]

LEMMA OwesIs ==
  ASSUME IInv, QueueStep
  PROVE  \/ telling' = telling
         \/ \E i \in Items, op \in TaskOps : telling' = telling \cup {FirstWrite(i, op)}
<1>1. CASE OperatorTells
  <2>1. PICK i \in Items : \E op \in {"cancel", "wait", "resume"} : Owes(i, op)
    BY <1>1 DEF OperatorTells
  <2> QED
    BY <2>1 DEF Owes, FirstWrite, TaskOps
<1>2. CASE SenderTells
  <2>1. PICK s \in Senders :
          \/ TellsNothing
          \/ pc[s] # "idle" /\ \E op \in {"start", "release"} : Owes(target[s], op)
          \/ pc[s] # "idle" /\ SenderEnds(target[s], result[s])
    BY <1>2 DEF SenderTells, Begin, Release, StaysApproved, MarkResult
  <2>2. pc[s] # "idle" => target[s] \in Items
    BY DEF IInv, SenderOK
  <2>3. CASE TellsNothing
    BY <2>3 DEF TellsNothing, taskVars
  <2>4. CASE pc[s] # "idle" /\ \E op \in {"start", "release"} : Owes(target[s], op)
    BY <2>2, <2>4 DEF Owes, FirstWrite, TaskOps
  <2>5. CASE pc[s] # "idle" /\ SenderEnds(target[s], result[s])
    BY <2>2, <2>5 DEF SenderEnds, Owes, FirstWrite, TaskOps
  <2> QED
    BY <2>1, <2>3, <2>4, <2>5
<1> QED
  BY <1>1, <1>2 DEF QueueStep

LEMMA TellingStep ==
  ASSUME IInv, Typed, [PNext]_pvars
  PROVE  \/ \A v \in telling' : v \in TellingRecords /\ \E w \in telling : v.item = w.item /\ v.op = w.op
         \/ /\ QueueStep \/ \E i \in Items : SecondSend(i)
            /\ \E i \in Items, op \in TaskOps : telling' = telling \cup {FirstWrite(i, op)}
<1> DEFINE Older == \A v \in telling' : v \in TellingRecords /\ \E w \in telling : v.item = w.item /\ v.op = w.op
           Newer == /\ QueueStep \/ \E i \in Items : SecondSend(i)
                    /\ \E i \in Items, op \in TaskOps : telling' = telling \cup {FirstWrite(i, op)}
<1>1. telling \subseteq TellingRecords
  BY DEF Typed, PTypeOK, TellingRecords
<1>2. ASSUME telling' \subseteq telling PROVE Older
  BY <1>1, <1>2
<1>3. ASSUME NEW w \in telling, TellTask(w) PROVE Older
  <2>1. telling' = telling \ {w} \/ telling' = (telling \ {w}) \cup {[w EXCEPT !.at = "move"]}
    BY <1>3 DEF TellTask, CreateTask, TransitionTask
  <2>2. /\ [w EXCEPT !.at = "move"] \in TellingRecords
        /\ [w EXCEPT !.at = "move"].item = w.item /\ [w EXCEPT !.at = "move"].op = w.op
    BY <1>1 DEF TellingRecords
  <2> QED
    BY <1>1, <2>1, <2>2
<1>4. ASSUME NEW i \in Items, SecondSend(i) PROVE Newer
  <2>1. telling' = telling \cup {FirstWrite(i, "block")} /\ "block" \in TaskOps
    BY <1>4 DEF SecondSend, Owes, FirstWrite, TaskOps
  <2> QED
    BY <1>4, <2>1
<1>5. ASSUME QueueStep PROVE Older \/ Newer
  BY <1>2, <1>5, OwesIs
<1>6. ASSUME \/ \E i \in Items : PublishTask(i) \/ PublishFails(i) \/ Repair(i)
             \/ \E b \in Ids, to \in Outcomes : WorkerDecides(b, to)
             \/ Reconcile \/ TickEnds \/ UNCHANGED pvars
             \/ \E j \in jobs : SyncQueue(j) \/ SyncTask(j)
             \/ \E b \in Ids : Settles(b) \/ ReuseSuccessor(b) \/ CreateSuccessor(b)
             \/ \E b \in Ids : MoveQueue(b) \/ MoveTask(b) \/ MoveMissing(b) \/ MoveFails(b)
      PROVE  telling' = telling
  BY <1>6 DEF PublishTask, PublishFails, Repair, WorkerDecides, Reconcile, TickEnds,
     SyncQueue, SyncTask, Settles, OperatorSettles, ReuseSuccessor, CreateSuccessor,
     MoveQueue, MoveTask, MoveMissing, MoveFails, pvars, taskVars
<1> HIDE DEF Older, Newer
<1>7. Older \/ Newer
  <2>1. UNCHANGED telling => Older
    BY <1>2
  <2> QED
    BY <1>3, <1>4, <1>5, <1>6, <2>1, Steps DEF TellsTask
<1> QED
  BY <1>7 DEF Older, Newer

LEMMA RecordTypes ==
  ASSUME IInv, IInv', Typed, [PNext]_pvars
  PROVE  /\ ready' \subseteq Ids /\ held' \subseteq 1 .. nextId'
         /\ parent' \in [Ids -> Ids \cup {NoRecord}]
         /\ outcome' \in [Ids -> Outcomes \cup {"open"}] /\ byHand' \subseteq Ids
         /\ telling' \subseteq [item : Items, op : TaskOps, at : {"create", "move"}]
<1>0. /\ ready \subseteq Ids /\ held \subseteq 1 .. nextId
      /\ parent \in [Ids -> Ids \cup {NoRecord}]
      /\ outcome \in [Ids -> Outcomes \cup {"open"}]
      /\ posting \in [Items -> Results \cup {NoResult}]
  BY DEF Typed, PTypeOK
<1>1. nextId \in Nat /\ nextId' \in Nat /\ nextId' >= nextId
  BY GrowsStep
<1>2. held \subseteq 1 .. nextId'
  BY <1>0, <1>1
<1>3. ready' \subseteq Ids
  <2>1. ASSUME NEW i \in Items, PublishTask(i) PROVE ready' \subseteq Ids
    <3>1. posting[i].ids \in SUBSET Ids
      BY <1>0, ResultIs
    <3> QED
      BY <1>0, <2>1, <3>1 DEF PublishTask
  <2>2. ASSUME NEW b \in Ids, MoveTask(b) PROVE ready' \subseteq Ids
    BY <1>0, <2>2 DEF MoveTask
  <2>3. ASSUME \/ \E i \in Items : PublishFails(i) \/ SecondSend(i) \/ Repair(i)
               \/ TellsTask
               \/ \E b \in Ids, to \in Outcomes : WorkerDecides(b, to)
               \/ Reconcile \/ TickEnds \/ UNCHANGED pvars \/ QueueStep
               \/ \E j \in jobs : SyncQueue(j) \/ SyncTask(j)
               \/ \E b \in Ids : Settles(b) \/ ReuseSuccessor(b) \/ CreateSuccessor(b)
               \/ \E b \in Ids : MoveQueue(b) \/ MoveMissing(b) \/ MoveFails(b)
        PROVE  ready' = ready
    BY <2>3 DEF PublishFails, SecondSend, Repair, TellsTask, TellTask, WorkerDecides, Reconcile, TickEnds, QueueStep,
       SyncQueue, SyncTask, Settles, OperatorSettles, ReuseSuccessor, CreateSuccessor,
       MoveQueue, MoveMissing, MoveFails, pvars, recordVars
  <2> QED
    BY <1>0, <2>1, <2>2, <2>3, Steps
<1>4. held' \subseteq 1 .. nextId'
  <2>1. ASSUME QueueStep PROVE held' \subseteq 1 .. nextId'
    <3>1. held' = held \cup ((nextId + 1) .. nextId')
      BY <2>1 DEF QueueStep
    <3> QED
      BY <1>1, <1>2, <3>1
  <2>2. ASSUME NEW b \in Ids, CreateSuccessor(b) PROVE held' \subseteq 1 .. nextId'
    BY <1>1, <1>2, <2>2 DEF CreateSuccessor
  <2>3. ASSUME TickEnds PROVE held' \subseteq held
    <3>1. Kept \subseteq held
      BY DEF Kept, Newest, Resolved
    <3> QED
      BY <2>3, <3>1 DEF TickEnds
  <2>4. ASSUME \/ \E i \in Items : PublishTask(i) \/ PublishFails(i) \/ SecondSend(i) \/ Repair(i)
               \/ TellsTask
               \/ \E b \in Ids, to \in Outcomes : WorkerDecides(b, to)
               \/ Reconcile \/ UNCHANGED pvars
               \/ \E j \in jobs : SyncQueue(j) \/ SyncTask(j)
               \/ \E b \in Ids : Settles(b) \/ ReuseSuccessor(b)
               \/ \E b \in Ids : MoveQueue(b) \/ MoveTask(b) \/ MoveMissing(b) \/ MoveFails(b)
        PROVE  held' = held
    BY <2>4 DEF PublishTask, PublishFails, SecondSend, Repair, TellsTask, TellTask, WorkerDecides, Reconcile,
       SyncQueue, SyncTask, Settles, OperatorSettles, ReuseSuccessor,
       MoveQueue, MoveTask, MoveMissing, MoveFails, pvars, recordVars
  <2> QED
    BY <1>2, <2>1, <2>2, <2>3, <2>4, Steps
<1>5. parent' \in [Ids -> Ids \cup {NoRecord}]
  <2>1. ASSUME NEW b \in Ids, CreateSuccessor(b) PROVE parent' \in [Ids -> Ids \cup {NoRecord}]
    <3> DEFINE top == Max({b} \cup Descendants(b))
    <3>1. b \in held
      BY <2>1 DEF CreateSuccessor, CanRetry
    <3>2. top \in held
      BY <3>1, NewParent
    <3>3. top \in Ids
      BY <1>0, <3>2, RecordIs
    <3>4. parent' = [parent EXCEPT ![nextId + 1] = top]
      BY <2>1 DEF CreateSuccessor
    <3> QED
      BY <1>0, <3>3, <3>4
  <2>2. ASSUME \/ \E i \in Items : PublishTask(i) \/ PublishFails(i) \/ SecondSend(i) \/ Repair(i)
               \/ TellsTask
               \/ \E b \in Ids, to \in Outcomes : WorkerDecides(b, to)
               \/ Reconcile \/ TickEnds \/ UNCHANGED pvars \/ QueueStep
               \/ \E j \in jobs : SyncQueue(j) \/ SyncTask(j)
               \/ \E b \in Ids : Settles(b) \/ ReuseSuccessor(b)
               \/ \E b \in Ids : MoveQueue(b) \/ MoveTask(b) \/ MoveMissing(b) \/ MoveFails(b)
        PROVE  parent' = parent
    BY <2>2 DEF PublishTask, PublishFails, SecondSend, Repair, TellsTask, TellTask, WorkerDecides, Reconcile, TickEnds, QueueStep,
       SyncQueue, SyncTask, Settles, OperatorSettles, ReuseSuccessor,
       MoveQueue, MoveTask, MoveMissing, MoveFails, pvars, recordVars
  <2> QED
    BY <1>0, <2>1, <2>2, Steps
<1>6. outcome' \in [Ids -> Outcomes \cup {"open"}]
  <2>1. ASSUME NEW i \in Items, PublishFails(i) PROVE outcome' \in [Ids -> Outcomes \cup {"open"}]
    BY <1>0, <2>1 DEF PublishFails, Outcomes
  <2>2. ASSUME NEW b \in Ids, Settles(b) \/ MoveMissing(b) \/ \E to \in Outcomes : WorkerDecides(b, to)
        PROVE  \E to \in Outcomes \cup {"open"} : outcome' = [outcome EXCEPT ![b] = to]
    BY <1>0, <2>2 DEF Settles, OperatorSettles, MoveMissing, WorkerDecides, Outcomes
  <2>3. ASSUME \/ \E i \in Items : PublishTask(i) \/ SecondSend(i) \/ Repair(i)
               \/ TellsTask
               \/ Reconcile \/ TickEnds \/ UNCHANGED pvars \/ QueueStep
               \/ \E j \in jobs : SyncQueue(j) \/ SyncTask(j)
               \/ \E b \in Ids : ReuseSuccessor(b) \/ CreateSuccessor(b)
               \/ \E b \in Ids : MoveQueue(b) \/ MoveTask(b) \/ MoveFails(b)
        PROVE  outcome' = outcome
    BY <2>3 DEF PublishTask, SecondSend, Repair, TellsTask, TellTask, Reconcile, TickEnds, QueueStep,
       SyncQueue, SyncTask, ReuseSuccessor, CreateSuccessor, MoveQueue, MoveTask, MoveFails, pvars, recordVars
  <2> QED
    BY <1>0, <2>1, <2>2, <2>3, Steps
<1>7. byHand' \subseteq Ids
  <2>1. byHand \subseteq Ids
    BY DEF Typed, PTypeOK
  <2>2. ASSUME NEW b \in Ids, Settles(b) PROVE byHand' = byHand \cup {b}
    BY <2>2 DEF Settles, OperatorSettles
  <2>3. ASSUME \/ \E i \in Items : PublishTask(i) \/ PublishFails(i) \/ SecondSend(i) \/ Repair(i)
               \/ TellsTask
               \/ \E b \in Ids, to \in Outcomes : WorkerDecides(b, to)
               \/ Reconcile \/ TickEnds \/ UNCHANGED pvars \/ QueueStep
               \/ \E j \in jobs : SyncQueue(j) \/ SyncTask(j)
               \/ \E b \in Ids : ReuseSuccessor(b) \/ CreateSuccessor(b)
               \/ \E b \in Ids : MoveQueue(b) \/ MoveTask(b) \/ MoveMissing(b) \/ MoveFails(b)
        PROVE  byHand' = byHand
    BY <2>3 DEF PublishTask, PublishFails, SecondSend, Repair, TellsTask, TellTask, WorkerDecides, Reconcile,
       TickEnds, QueueStep, SyncQueue, SyncTask, ReuseSuccessor, CreateSuccessor,
       MoveQueue, MoveTask, MoveMissing, MoveFails, pvars, recordVars
  <2> QED
    BY <2>1, <2>2, <2>3, Steps
<1>8. telling' \subseteq [item : Items, op : TaskOps, at : {"create", "move"}]
  <2>1. telling \subseteq TellingRecords
    BY DEF Typed, PTypeOK, TellingRecords
  <2>2. \A i \in Items, op \in TaskOps : FirstWrite(i, op) \in TellingRecords
    BY DEF FirstWrite, TellingRecords
  <2> QED
    BY <2>1, <2>2, TellingStep DEF TellingRecords
<1> QED
  BY <1>3, <1>4, <1>5, <1>6, <1>7, <1>8


LEMMA WorkerTypes ==
  ASSUME Typed, [PNext]_pvars
  PROVE  /\ marker' \in [Ids -> Outcomes \cup {"none"}]
         /\ tick' \in {"start", "deliver"} /\ batch' \subseteq Ids
<1>0. /\ marker \in [Ids -> Outcomes \cup {"none"}]
      /\ tick \in {"start", "deliver"} /\ batch \subseteq Ids /\ ready \subseteq Ids
  BY DEF Typed, PTypeOK
<1>1. ASSUME NEW j \in jobs, SyncTask(j)
      PROVE  marker' \in [Ids -> Outcomes \cup {"none"}] /\ UNCHANGED <<tick, batch>>
  <2>1. j.id \in Ids /\ j.ack \in Outcomes
    BY DEF Typed, PTypeOK
  <2>2. marker' = marker \/ marker' = [marker EXCEPT ![j.id] = j.ack]
    BY <1>1 DEF SyncTask, Mark
  <2> QED
    BY <1>0, <1>1, <2>1, <2>2 DEF SyncTask
<1>2. ASSUME Reconcile \/ TickEnds PROVE tick' \in {"start", "deliver"} /\ batch' \subseteq Ids /\ marker' = marker
  BY <1>0, <1>2 DEF Reconcile, TickEnds
<1>3. ASSUME \/ \E i \in Items : PublishTask(i) \/ PublishFails(i) \/ SecondSend(i) \/ Repair(i)
             \/ TellsTask
             \/ \E b \in Ids, to \in Outcomes : WorkerDecides(b, to)
             \/ UNCHANGED pvars \/ QueueStep
             \/ \E j \in jobs : SyncQueue(j)
             \/ \E b \in Ids : Settles(b) \/ ReuseSuccessor(b) \/ CreateSuccessor(b)
             \/ \E b \in Ids : MoveQueue(b) \/ MoveTask(b) \/ MoveMissing(b) \/ MoveFails(b)
      PROVE  UNCHANGED <<marker, tick, batch>>
  BY <1>3 DEF PublishTask, PublishFails, SecondSend, Repair, TellsTask, TellTask, WorkerDecides, QueueStep,
     SyncQueue, Settles, OperatorSettles, ReuseSuccessor, CreateSuccessor,
     MoveQueue, MoveTask, MoveMissing, MoveFails, pvars, workerVars
<1> QED
  BY <1>0, <1>1, <1>2, <1>3, Steps

\* Where a projection begins: which records get a job, and with what.
Begun(j) == j.at = "queue" /\ j.ack = outcome'[j.id] /\ j.ack # "open"
JobRecords == [ who : {"worker", "operator", "sender"}, id : Ids, ack : Outcomes, at : {"queue", "shown", "refused"} ]

LEMMA JobStep ==
  ASSUME Typed, [PNext]_pvars
  PROVE  /\ jobs' \subseteq JobRecords
         /\ \A j \in jobs' : \/ j \in jobs
                             \/ Begun(j)
                             \/ \E o \in jobs : SyncQueue(o) /\ \E at \in {"shown", "refused"} : j = [o EXCEPT !.at = at]
<1>0. /\ jobs \subseteq JobRecords /\ retrying \cup moving \subseteq Ids
      /\ outcome \in [Ids -> Outcomes \cup {"open"}] /\ held \subseteq 1 .. nextId
      /\ posting \in [Items -> Results \cup {NoResult}]
  BY DEF Typed, PTypeOK, JobRecords
<1> DEFINE New == { Job(who, b, ack) : who \in {"worker", "operator", "sender"}, b \in Ids, ack \in Outcomes }
           Goal == /\ jobs' \subseteq JobRecords
                   /\ \A j \in jobs' : \/ j \in jobs
                             \/ Begun(j)
                             \/ \E o \in jobs : SyncQueue(o) /\ \E at \in {"shown", "refused"} : j = [o EXCEPT !.at = at]
<1>1. ASSUME NEW who \in {"worker", "operator", "sender"}, NEW b \in Ids, NEW ack \in Outcomes, outcome'[b] = ack
      PROVE  Job(who, b, ack) \in JobRecords /\ Begun(Job(who, b, ack))
  BY <1>1 DEF Job, JobRecords, Begun, Outcomes
<1>2. ASSUME \A j \in jobs' : j \in jobs \/ (j \in JobRecords /\ Begun(j)) PROVE Goal
  BY <1>0, <1>2
<1>3. ASSUME NEW i \in Items, PublishFails(i) PROVE Goal
  <2>1. posting[i].ids \in SUBSET Ids
    BY <1>0, ResultIs
  <2>2. ASSUME NEW b \in posting[i].ids PROVE outcome'[b] = "failed"
    BY <1>0, <1>3, <2>1 DEF PublishFails
  <2>3. \A b \in posting[i].ids : Job("sender", b, "failed") \in JobRecords /\ Begun(Job("sender", b, "failed"))
    BY <1>1, <2>1, <2>2 DEF Outcomes
  <2>4. jobs' = jobs \cup { Job("sender", b, "failed") : b \in posting[i].ids }
    BY <1>3 DEF PublishFails
  <2> HIDE DEF Goal
  <2> QED
    BY <1>2, <2>3, <2>4
<1>4. ASSUME Reconcile PROVE Goal
  <2>1. outcome' = outcome /\ jobs' = jobs \cup { Job("worker", b, outcome[b]) : b \in Unsynced }
    BY <1>4 DEF Reconcile, recordVars
  <2>2. ASSUME NEW b \in Unsynced PROVE b \in Ids /\ outcome[b] \in Outcomes
    <3>1. b \in Ids /\ outcome[b] # "open"
      BY <1>0, RecordIs DEF Unsynced
    <3> QED
      BY <1>0, <3>1
  <2>3. \A b \in Unsynced : Job("worker", b, outcome[b]) \in JobRecords /\ Begun(Job("worker", b, outcome[b]))
    BY <1>1, <2>1, <2>2
  <2> HIDE DEF Goal
  <2> QED
    BY <1>2, <2>1, <2>3
<1>5. ASSUME NEW b \in Ids, \/ Settles(b) \/ MoveTask(b)
                            \/ \E to \in Outcomes : WorkerDecides(b, to)
      PROVE  Goal
  <2>1. \/ jobs' = jobs
        \/ \E who \in {"worker", "operator"}, ack \in Outcomes :
             jobs' = jobs \cup {Job(who, b, ack)} /\ outcome'[b] = ack
    <3>1. CASE Settles(b)
      <4>1. PICK to \in Outcomes : OperatorSettles(b, to)
        BY <3>1 DEF Settles
      <4> QED
        BY <1>0, <4>1 DEF OperatorSettles
    <3>2. CASE MoveTask(b)
      BY <1>0, <3>2 DEF MoveTask
    <3>3. ASSUME NEW to \in Outcomes, WorkerDecides(b, to)
          PROVE  jobs' = jobs \cup {Job("worker", b, to)} /\ outcome'[b] = to
      BY <1>0, <3>3 DEF WorkerDecides
    <3> QED
      BY <1>5, <3>1, <3>2, <3>3
  <2> HIDE DEF Goal
  <2>2. ASSUME NEW who \in {"worker", "operator"}, NEW ack \in Outcomes,
               jobs' = jobs \cup {Job(who, b, ack)}, outcome'[b] = ack
        PROVE  Goal
    BY <1>1, <1>2, <2>2
  <2> QED
    BY <1>2, <2>1, <2>2
<1>6. ASSUME NEW o \in jobs, SyncQueue(o) PROVE Goal
  <2>1. PICK at \in {"shown", "refused"} : jobs' = (jobs \ {o}) \cup {[o EXCEPT !.at = at]}
    BY <1>6 DEF SyncQueue
  <2>2. [o EXCEPT !.at = at] \in JobRecords
    BY <1>0 DEF JobRecords
  <2> QED
    BY <1>0, <1>6, <2>1, <2>2
<1>7. ASSUME \/ \E i \in Items : PublishTask(i) \/ SecondSend(i) \/ Repair(i)
             \/ TellsTask
             \/ TickEnds \/ UNCHANGED pvars \/ QueueStep
             \/ \E j \in jobs : SyncTask(j)
             \/ \E b \in Ids : ReuseSuccessor(b) \/ CreateSuccessor(b)
             \/ \E b \in Ids : MoveQueue(b) \/ MoveMissing(b) \/ MoveFails(b)
      PROVE  jobs' \subseteq jobs
  BY <1>7 DEF PublishTask, SecondSend, Repair, TellsTask, TellTask, TickEnds, QueueStep, SyncTask, ReuseSuccessor, CreateSuccessor,
     MoveQueue, MoveMissing, MoveFails, pvars
<1> HIDE DEF Goal
<1>8. Goal
  BY <1>2, <1>3, <1>4, <1>5, <1>6, <1>7, Steps
<1> QED
  BY <1>8 DEF Goal

LEMMA RetryTypes ==
  ASSUME Typed, [PNext]_pvars
  PROVE  retrying' \cup moving' \subseteq Ids
<1>0. retrying \cup moving \subseteq Ids /\ held \subseteq 1 .. nextId
  BY DEF Typed, PTypeOK
<1>1. ASSUME NEW b \in Ids, ReuseSuccessor(b) PROVE retrying' \cup moving' \subseteq Ids
  <2> DEFINE live == { d \in Descendants(b) : outcome[d] = "open" }
  <2>1. live # {} /\ live \subseteq held
    BY <1>1 DEF ReuseSuccessor, Descendants, DescendantsIn
  <2>2. retrying' = retrying \cup {Max(live)} /\ moving' = moving
    BY <1>1 DEF ReuseSuccessor
  <2> HIDE DEF live
  <2>3. nextId \in Nat /\ live \in SUBSET (0 .. nextId)
    <3>1. nextId \in Nat
      BY GrowsStep
    <3> QED
      BY <1>0, <2>1, <3>1
  <2>4. Max(live) \in live
    BY <2>1, <2>3, MaxIs
  <2> QED
    BY <1>0, <2>1, <2>2, <2>4, RecordIs
<1>2. ASSUME NEW b \in Ids, CreateSuccessor(b) PROVE retrying' \cup moving' \subseteq Ids
  BY <1>0, <1>2 DEF CreateSuccessor
<1>3. ASSUME \/ \E i \in Items : PublishTask(i) \/ PublishFails(i) \/ SecondSend(i) \/ Repair(i)
             \/ TellsTask
             \/ \E b \in Ids, to \in Outcomes : WorkerDecides(b, to)
             \/ Reconcile \/ TickEnds \/ UNCHANGED pvars \/ QueueStep
             \/ \E j \in jobs : SyncQueue(j) \/ SyncTask(j)
             \/ \E b \in Ids : Settles(b) \/ MoveQueue(b) \/ MoveTask(b) \/ MoveMissing(b) \/ MoveFails(b)
      PROVE  retrying' \cup moving' \subseteq retrying \cup moving
  BY <1>3 DEF PublishTask, PublishFails, SecondSend, Repair, TellsTask, TellTask, WorkerDecides, Reconcile, TickEnds, QueueStep,
     SyncQueue, SyncTask, Settles, OperatorSettles, MoveQueue, MoveTask, MoveMissing, MoveFails, pvars, retryVars
<1> QED
  BY <1>0, <1>1, <1>2, <1>3, Steps

\* Every field keeps its type.
LEMMA TypedNext ==
  ASSUME IInv, Typed, LineageOK, [PNext]_pvars
  PROVE  IInv' /\ Typed'
<1>1. IInv'
  BY QueueNext
<1>2. TypeOK'
  BY <1>1 DEF IInv
<1>3. task' \in [Items -> TaskRecords]
  BY TaskStep
<1>4. \A i \in Items : task'[i].st \in ActiveTask \cup EndedTask \cup {"absent"}
  BY <1>3 DEF TaskRecords
<1>5. jobs' \subseteq JobRecords
  BY JobStep
<1>6. PTypeOK'
  BY <1>1, <1>2, <1>4, <1>5, RecordTypes, WorkerTypes, RetryTypes DEF PTypeOK, JobRecords
<1> QED
  BY <1>1, <1>3, <1>6, PostingStep, SpentStep DEF Typed


-----------------------------------------------------------------------------
(* Chains, and the records that nobody has looked at. *)

\* A record is decided by those who deliver it, or failed before anybody could;
\* only an accepted one changes after that.
LEMMA OutcomeStep ==
  ASSUME Typed, LineageOK, StagedOK, ReadyOK, [PNext]_pvars, NEW b \in Ids
  PROVE  \/ outcome'[b] = outcome[b]
         \/ outcome[b] = "open" /\ b \in ready
         \/ outcome[b] = "accepted" /\ outcome'[b] = "sent" /\ ~WorkerBusy /\ b \notin byHand
         \/ /\ outcome[b] = "open" /\ outcome'[b] = "failed"
            /\ parent[b] # NoRecord \/ \E i \in Items : PublishFails(i) /\ b \in posting[i].ids
<1> DEFINE Goal ==
         \/ outcome'[b] = outcome[b]
         \/ outcome[b] = "open" /\ b \in ready
         \/ outcome[b] = "accepted" /\ outcome'[b] = "sent" /\ ~WorkerBusy /\ b \notin byHand
         \/ /\ outcome[b] = "open" /\ outcome'[b] = "failed"
            /\ parent[b] # NoRecord \/ \E i \in Items : PublishFails(i) /\ b \in posting[i].ids
<1>0. outcome \in [Ids -> Outcomes \cup {"open"}]
  BY DEF Typed, PTypeOK
<1>1. ASSUME NEW i \in Items, PublishFails(i) PROVE Goal
  <2>1. b \in posting[i].ids => outcome[b] = "open"
    BY DEF StagedOK, Untouched
  <2> QED
    BY <1>0, <1>1, <2>1 DEF PublishFails
<1>2. ASSUME NEW c \in Ids, NEW to \in Outcomes, WorkerDecides(c, to) PROVE Goal
  BY <1>0, <1>2 DEF WorkerDecides, ReadyOK
<1>3. ASSUME NEW c \in Ids, Settles(c) PROVE Goal
  BY <1>0, <1>3 DEF Settles, OperatorSettles
<1>4. ASSUME NEW c \in Ids, MoveMissing(c) PROVE Goal
  <2>1. parent[c] # NoRecord
    BY <1>4 DEF MoveMissing, QueueLacks, LineageOK
  <2> QED
    BY <1>0, <1>4, <2>1 DEF MoveMissing
<1>5. ASSUME \/ \E i \in Items : PublishTask(i) \/ SecondSend(i) \/ Repair(i)
             \/ TellsTask
             \/ Reconcile \/ TickEnds \/ UNCHANGED pvars \/ QueueStep
             \/ \E j \in jobs : SyncQueue(j) \/ SyncTask(j)
             \/ \E c \in Ids : ReuseSuccessor(c) \/ CreateSuccessor(c)
             \/ \E c \in Ids : MoveQueue(c) \/ MoveTask(c) \/ MoveFails(c)
      PROVE  outcome' = outcome
  BY <1>5 DEF PublishTask, SecondSend, Repair, TellsTask, TellTask, Reconcile, TickEnds, QueueStep,
     SyncQueue, SyncTask, ReuseSuccessor, CreateSuccessor, MoveQueue, MoveTask, MoveFails, pvars, recordVars
<1> HIDE DEF Goal
<1>6. UNCHANGED outcome => Goal
  BY DEF Goal
<1>7. Goal
  BY <1>1, <1>2, <1>3, <1>4, <1>5, <1>6, Steps
<1> QED
  BY <1>7 DEF Goal

\* A new retry comes after the newest record of its chain, which is failed.
LEMMA Succession ==
  ASSUME Typed, NEW c \in Ids, CreateSuccessor(c)
  PROVE  \E top \in held : /\ parent' = [parent EXCEPT ![nextId + 1] = top]
                           /\ top \in Ids /\ top <= nextId /\ outcome[top] = "failed"
<1> DEFINE top == Max({c} \cup Descendants(c))
<1>1. c \in held /\ outcome[c] = "failed"
  BY DEF CreateSuccessor, CanRetry
<1>2. top \in held /\ top \in {c} \cup Descendants(c)
  BY <1>1, NewParent
<1>3. parent' = [parent EXCEPT ![nextId + 1] = top]
  BY DEF CreateSuccessor
<1>4. \A d \in Descendants(c) : outcome[d] = "failed"
  BY DEF CreateSuccessor, CanRetry
<1> HIDE DEF top
<1>5. held \subseteq 1 .. nextId
  BY DEF Typed, PTypeOK
<1>6. top \in Ids /\ top <= nextId /\ outcome[top] = "failed"
  BY <1>1, <1>2, <1>4, <1>5, RecordIs
<1> QED
  BY <1>2, <1>3, <1>6

\* Only a new retry gets a parent.
LEMMA ParentStep ==
  ASSUME Typed, [PNext]_pvars
  PROVE  parent' = parent \/ \E c \in Ids : CreateSuccessor(c)
<1>1. ASSUME \/ \E i \in Items : PublishTask(i) \/ PublishFails(i) \/ SecondSend(i) \/ Repair(i)
             \/ TellsTask
             \/ \E b \in Ids, to \in Outcomes : WorkerDecides(b, to)
             \/ Reconcile \/ TickEnds \/ UNCHANGED pvars \/ QueueStep
             \/ \E j \in jobs : SyncQueue(j) \/ SyncTask(j)
             \/ \E b \in Ids : Settles(b) \/ ReuseSuccessor(b)
             \/ \E b \in Ids : MoveQueue(b) \/ MoveTask(b) \/ MoveMissing(b) \/ MoveFails(b)
      PROVE  parent' = parent
  BY <1>1 DEF PublishTask, PublishFails, SecondSend, Repair, TellsTask, TellTask, WorkerDecides, Reconcile, TickEnds, QueueStep,
     SyncQueue, SyncTask, Settles, OperatorSettles, ReuseSuccessor,
     MoveQueue, MoveTask, MoveMissing, MoveFails, pvars, recordVars
<1> QED
  BY <1>1, Steps

LEMMA LineageNext ==
  ASSUME Typed, LineageOK, StagedOK, ReadyOK, [PNext]_pvars
  PROVE  LineageOK'
<1>0. /\ parent \in [Ids -> Ids \cup {NoRecord}] /\ retrying \cup moving \subseteq Ids
      /\ outcome \in [Ids -> Outcomes \cup {"open"}]
  BY DEF Typed, PTypeOK
<1>1. nextId \in Nat /\ nextId' \in Nat /\ nextId' >= nextId
  BY GrowsStep
<1>2. \A b \in Ids : b \in Nat
  BY DEF Ids
<1>3. \A b \in Ids : outcome[b] = "failed" => outcome'[b] = "failed"
  BY OutcomeStep
<1>4. CASE parent' = parent
  <2>1. ASSUME NEW b \in Ids
        PROVE  parent'[b] < b /\ (parent'[b] # NoRecord => b <= nextId' /\ outcome'[parent'[b]] = "failed")
    <3>1. parent[b] < b /\ (parent[b] # NoRecord => b <= nextId /\ outcome[parent[b]] = "failed" /\ parent[b] \in Ids)
      BY <1>0 DEF LineageOK
    <3> QED
      BY <1>1, <1>2, <1>3, <1>4, <3>1
  <2>2. ASSUME NEW b \in retrying' \cup moving' PROVE parent[b] # NoRecord
    <3>1. ASSUME NEW c \in Ids, ReuseSuccessor(c) PROVE parent[b] # NoRecord
      <4> DEFINE live == { d \in Descendants(c) : outcome[d] = "open" }
      <4>1. live # {} /\ live \subseteq held
        BY <3>1 DEF ReuseSuccessor, Descendants, DescendantsIn
      <4>2. retrying' = retrying \cup {Max(live)} /\ moving' = moving
        BY <3>1 DEF ReuseSuccessor
      <4>3. \A d \in live : c \in AncestorsIn(parent, d)
        BY DEF Descendants, DescendantsIn
      <4> HIDE DEF live
      <4>4. live \in SUBSET (0 .. nextId) /\ \A d \in live : d \in Ids
        <5>1. held \subseteq 1 .. nextId
          BY DEF Typed, PTypeOK
        <5> QED
          BY <1>1, <4>1, <5>1, RecordIs
      <4>5. Max(live) \in live
        BY <1>1, <4>1, <4>4, MaxIs
      <4>6. ASSUME NEW d \in live PROVE parent[d] # NoRecord
        <5>1. d \in 1 .. MaxIds /\ c \in AncestorsIn(parent, d)
          BY <4>3, <4>4, ParentsAre
        <5>2. d # NoRecord
          BY <5>1 DEF NoRecord
        <5>3. AncestorsIn(parent, d) =
                IF d = NoRecord \/ parent[d] = NoRecord THEN {} ELSE {parent[d]} \cup AncestorsIn(parent, parent[d])
          BY <5>1, AncestorsStep, ParentsAre
        <5> QED
          BY <5>1, <5>2, <5>3
      <4> QED
        BY <4>2, <4>5, <4>6, <2>2 DEF LineageOK
    <3>2. ASSUME NEW c \in Ids, CreateSuccessor(c) PROVE parent[b] # NoRecord
      <4>1. PICK top \in held : /\ parent' = [parent EXCEPT ![nextId + 1] = top] /\ top \in Ids
        BY <3>2, Succession
      <4>2. nextId + 1 \in Ids /\ retrying' = retrying \cup {nextId + 1} /\ moving' = moving
        BY <3>2 DEF CreateSuccessor
      <4>3. parent'[nextId + 1] = top /\ top # NoRecord
        BY <1>0, <4>1, <4>2 DEF Ids, NoRecord
      <4> QED
        BY <1>4, <2>2, <4>2, <4>3 DEF LineageOK
    <3>3. ASSUME \/ \E i \in Items : PublishTask(i) \/ PublishFails(i) \/ SecondSend(i) \/ Repair(i)
                 \/ TellsTask
                 \/ \E c \in Ids, to \in Outcomes : WorkerDecides(c, to)
                 \/ Reconcile \/ TickEnds \/ UNCHANGED pvars \/ QueueStep
                 \/ \E j \in jobs : SyncQueue(j) \/ SyncTask(j)
                 \/ \E c \in Ids : Settles(c)
                 \/ \E c \in Ids : MoveQueue(c) \/ MoveTask(c) \/ MoveMissing(c) \/ MoveFails(c)
          PROVE  retrying' \cup moving' \subseteq retrying \cup moving
      BY <3>3 DEF PublishTask, PublishFails, SecondSend, Repair, TellsTask, TellTask, WorkerDecides, Reconcile, TickEnds, QueueStep,
         SyncQueue, SyncTask, Settles, OperatorSettles, MoveQueue, MoveTask, MoveMissing, MoveFails, pvars, retryVars
    <3> QED
      BY <2>2, <3>1, <3>2, <3>3, Steps DEF LineageOK
  <2> QED
    BY <1>4, <2>1, <2>2 DEF LineageOK
<1>5. ASSUME NEW c \in Ids, CreateSuccessor(c) PROVE LineageOK'
  <2>1. PICK top \in held : /\ parent' = [parent EXCEPT ![nextId + 1] = top]
                            /\ top \in Ids /\ top <= nextId /\ outcome[top] = "failed"
    BY <1>5, Succession
  <2>2. /\ nextId + 1 \in Ids /\ nextId' = nextId + 1 /\ outcome' = outcome
        /\ retrying' = retrying \cup {nextId + 1} /\ moving' = moving
    BY <1>5 DEF CreateSuccessor
  <2>3. parent'[nextId + 1] = top /\ \A b \in Ids : b # nextId + 1 => parent'[b] = parent[b]
    BY <1>0, <2>1, <2>2
  <2>4. top # NoRecord /\ top < nextId + 1
    <3>1. top \in Nat /\ top # 0
      BY <2>1 DEF Ids
    <3> QED
      BY <1>1, <2>1, <3>1 DEF NoRecord
  <2>5. ASSUME NEW b \in Ids
        PROVE  parent'[b] < b /\ (parent'[b] # NoRecord => b <= nextId' /\ outcome'[parent'[b]] = "failed")
    <3>1. CASE b = nextId + 1
      BY <1>1, <2>1, <2>2, <2>3, <2>4, <3>1
    <3>2. CASE b # nextId + 1
      <4>1. parent[b] < b /\ (parent[b] # NoRecord => b <= nextId /\ outcome[parent[b]] = "failed")
        BY DEF LineageOK
      <4> QED
        BY <1>1, <1>2, <2>2, <2>3, <3>2, <4>1
    <3> QED
      BY <3>1, <3>2
  <2>6. \A b \in retrying' \cup moving' : parent'[b] # NoRecord
    BY <1>0, <2>2, <2>3, <2>4 DEF LineageOK
  <2> QED
    BY <2>5, <2>6 DEF LineageOK
<1> QED
  BY <1>4, <1>5, ParentStep


\* A step leaves a record alone that is not published or created by it.
LEMMA UntouchedStep ==
  ASSUME Typed, LineageOK, StagedOK, ReadyOK, [PNext]_pvars, NEW b \in Ids, Untouched(b),
         parent'[b] = parent[b], \A i \in Items : PublishTask(i) \/ PublishFails(i) => b \notin posting[i].ids
  PROVE  Untouched(b)'
<1>0. /\ outcome \in [Ids -> Outcomes \cup {"open"}] /\ marker \in [Ids -> Outcomes \cup {"none"}]
  BY DEF Typed, PTypeOK
<1>1. outcome'[b] = "open"
  BY OutcomeStep DEF Untouched
<1>2. \A j \in jobs' : j.id # b
  <2>1. ASSUME NEW o \in jobs, NEW at \in {"shown", "refused"}
        PROVE  [o EXCEPT !.at = at].id = o.id
    BY DEF Typed, PTypeOK
  <2>2. \A j \in jobs' : j \in jobs \/ Begun(j) \/ \E o \in jobs : j.id = o.id
    <3> TAKE j \in jobs'
    <3>1. \/ j \in jobs \/ Begun(j)
          \/ \E o \in jobs : \E at \in {"shown", "refused"} : j = [o EXCEPT !.at = at]
      BY JobStep
    <3>2. ASSUME NEW o \in jobs, NEW at \in {"shown", "refused"}, j = [o EXCEPT !.at = at]
          PROVE  j.id = o.id
      BY <2>1, <3>2
    <3> QED
      BY <3>1, <3>2
  <2> QED
    BY <1>1, <2>2 DEF Begun, Untouched
<1>3. marker'[b] = "none"
  <2>1. marker' = marker \/ \E j \in jobs : marker' = [marker EXCEPT ![j.id] = j.ack]
    <3>1. ASSUME NEW j \in jobs, SyncTask(j) PROVE marker' = marker \/ marker' = [marker EXCEPT ![j.id] = j.ack]
      BY <3>1 DEF SyncTask, Mark
    <3>2. ASSUME \/ \E i \in Items : PublishTask(i) \/ PublishFails(i) \/ SecondSend(i) \/ Repair(i)
                 \/ TellsTask
                 \/ \E c \in Ids, to \in Outcomes : WorkerDecides(c, to)
                 \/ Reconcile \/ TickEnds \/ UNCHANGED pvars \/ QueueStep
                 \/ \E j \in jobs : SyncQueue(j)
                 \/ \E c \in Ids : Settles(c) \/ ReuseSuccessor(c) \/ CreateSuccessor(c)
                 \/ \E c \in Ids : MoveQueue(c) \/ MoveTask(c) \/ MoveMissing(c) \/ MoveFails(c)
          PROVE  marker' = marker
      BY <3>2 DEF PublishTask, PublishFails, SecondSend, Repair, TellsTask, TellTask, WorkerDecides, Reconcile, TickEnds, QueueStep,
         SyncQueue, Settles, OperatorSettles, ReuseSuccessor, CreateSuccessor,
         MoveQueue, MoveTask, MoveMissing, MoveFails, pvars, workerVars
    <3> QED
      BY <3>1, <3>2, Steps
  <2> QED
    BY <1>0, <2>1 DEF Untouched
<1>4. b \notin ready'
  <2>1. ASSUME NEW i \in Items, PublishTask(i) PROVE b \notin ready'
    BY <2>1 DEF PublishTask, Untouched
  <2>2. ASSUME NEW c \in Ids, MoveTask(c) PROVE b \notin ready'
    BY <2>2 DEF MoveTask, Untouched, LineageOK
  <2>3. ASSUME \/ \E i \in Items : PublishFails(i) \/ SecondSend(i) \/ Repair(i)
               \/ TellsTask
               \/ \E c \in Ids, to \in Outcomes : WorkerDecides(c, to)
               \/ Reconcile \/ TickEnds \/ UNCHANGED pvars \/ QueueStep
               \/ \E j \in jobs : SyncQueue(j) \/ SyncTask(j)
               \/ \E c \in Ids : Settles(c) \/ ReuseSuccessor(c) \/ CreateSuccessor(c)
               \/ \E c \in Ids : MoveQueue(c) \/ MoveMissing(c) \/ MoveFails(c)
        PROVE  ready' = ready
    BY <2>3 DEF PublishFails, SecondSend, Repair, TellsTask, TellTask, WorkerDecides, Reconcile, TickEnds, QueueStep,
       SyncQueue, SyncTask, Settles, OperatorSettles, ReuseSuccessor, CreateSuccessor,
       MoveQueue, MoveMissing, MoveFails, pvars, recordVars
  <2> QED
    BY <2>1, <2>2, <2>3, Steps DEF Untouched
<1> QED
  BY <1>1, <1>2, <1>3, <1>4 DEF Untouched

\* Who holds staged records: a driver call creates them, and the result is handed on.
Stages(s) ==
  /\ posting' = posting /\ parent' = parent
  /\ \A r \in Senders : r # s => result'[r] = result[r]
  /\ result'[s].ids = {} \/ result'[s].ids = (nextId + 1) .. nextId'
  /\ QueuedParts(result'[s])
HandsOn(s) ==
  /\ parent' = parent /\ MarkResult(s)
  /\ result' = [result EXCEPT ![s] = NoResult]
  /\ posting' = [posting EXCEPT ![target[s]] = result[s]] /\ result[s].ids # {}
LetsGo ==
  /\ \A s \in Senders : result'[s] \in {result[s], NoResult}
  /\ \A i \in Items : \/ posting'[i] = posting[i] /\ ~PublishTask(i) /\ ~PublishFails(i)
                      \/ posting'[i] = NoResult

LEMMA ExecuteIs ==
  ASSUME IInv, NEW s \in Senders, Execute(s)
  PROVE  /\ \A r \in Senders : r # s => result'[r] = result[r]
         /\ result'[s].ids = {} \/ result'[s].ids = (nextId + 1) .. nextId'
         /\ QueuedParts(result'[s])
<1>0. result \in [Senders -> Results \cup {NoResult}]
  BY DEF IInv, TypeOK
<1>1. CASE PreconditionFails(s)
  BY <1>0, <1>1 DEF PreconditionFails, StayApproved, Result, QueuedParts
<1>2. CASE PartsQueued(s)
  <2>1. PICK n \in 1 .. (MaxIds - nextId), lost \in SUBSET {"failed"} :
          /\ result' = [result EXCEPT ![s] =
               Result(Aggregate({"queued_to_bridge"} \cup lost, "failed"), FALSE,
                      (nextId + 1) .. (nextId + n), lost)]
          /\ nextId' = nextId + n
    BY <1>2 DEF PartsQueued
  <2> DEFINE r == Result(Aggregate({"queued_to_bridge"} \cup lost, "failed"), FALSE,
                         (nextId + 1) .. (nextId + n), lost)
  <2>2. /\ r.ids = (nextId + 1) .. nextId' /\ r.local = lost
        /\ r.status = Aggregate({"queued_to_bridge"} \cup lost, "failed")
    BY <2>1 DEF Result
  <2> HIDE DEF r
  <2>3. result' = [result EXCEPT ![s] = r]
    BY <2>1 DEF r
  <2> QED
    BY <1>0, <2>2, <2>3 DEF QueuedParts
<1>3. CASE DriverAnswers(s)
  <2>1. PICK answer : result' = [result EXCEPT ![s] = Result(answer, FALSE, {}, {})]
    BY <1>3 DEF DriverAnswers
  <2> QED
    BY <1>0, <2>1 DEF Result, QueuedParts
<1> QED
  BY <1>1, <1>2, <1>3 DEF Execute

LEMMA HoldStep ==
  ASSUME IInv, Typed, [PNext]_pvars
  PROVE  (\E s \in Senders : Stages(s) \/ HandsOn(s)) \/ LetsGo
<1>0. posting \in [Items -> Results \cup {NoResult}] /\ result \in [Senders -> Results \cup {NoResult}]
  BY DEF Typed, IInv, TypeOK
<1>1. ASSUME NEW i \in Items, PublishTask(i) \/ PublishFails(i) PROVE LetsGo
  <2>1. posting' = [posting EXCEPT ![i] = NoResult] /\ result' = result
    BY <1>1 DEF PublishTask, PublishFails, vars, senderVars
  <2>2. ASSUME NEW k \in Items, k # i, PublishTask(k) \/ PublishFails(k) PROVE posting'[k] = NoResult
    BY <1>0, <2>2 DEF PublishTask, PublishFails
  <2> QED
    BY <1>0, <2>1, <2>2 DEF LetsGo
<1>2. ASSUME \A i \in Items : posting'[i] = posting[i], \A s \in Senders : result'[s] \in {result[s], NoResult}
      PROVE  LetsGo
  <2>1. ASSUME NEW k \in Items, PublishTask(k) \/ PublishFails(k) PROVE posting'[k] = NoResult
    BY <1>0, <2>1 DEF PublishTask, PublishFails
  <2> QED
    BY <1>2, <2>1 DEF LetsGo
<1>3. ASSUME QueueStep PROVE (\E s \in Senders : Stages(s) \/ HandsOn(s)) \/ LetsGo
  <2>0. parent' = parent
    BY <1>3 DEF QueueStep
  <2>1. CASE OperatorTells
    <3>1. posting' = posting /\ result' = result
      BY <2>1 DEF OperatorTells, Owes, Enqueue, Approve, Reject, RetireObsolete, Review, Remove, senderVars
    <3> QED
      BY <1>2, <3>1
  <2>2. ASSUME NEW s \in Senders, Execute(s), TellsNothing PROVE Stages(s)
    BY <2>0, <2>2, ExecuteIs DEF Stages, TellsNothing, taskVars
  <2>3. ASSUME NEW s \in Senders, MarkResult(s), SenderEnds(target[s], result[s]), result[s].ids # {}
        PROVE  HandsOn(s)
    BY <2>0, <2>3 DEF HandsOn, MarkResult, StaysApproved, SenderDone, SenderEnds
  <2>4. ASSUME NEW s \in Senders, UNCHANGED posting,
               \/ Begin(s) \/ Release(s) \/ MarkResult(s) \/ QueueWriteFails(s)
               \/ \E i \in Items : ClaimGranted(s, i)
        PROVE  LetsGo
    <3>1. result' = result \/ result' = [result EXCEPT ![s] = NoResult]
      BY <2>4 DEF Begin, Release, MarkResult, StaysApproved, QueueWriteFails, SenderDone, ClaimGranted
    <3> QED
      BY <1>0, <1>2, <2>4, <3>1
  <2> QED
    BY <1>3, <2>1, <2>2, <2>3, <2>4 DEF QueueStep, SenderTells, SenderEnds, Owes, TellsNothing, taskVars
<1>4. ASSUME \/ \E i \in Items : SecondSend(i) \/ Repair(i)
             \/ TellsTask
             \/ \E b \in Ids, to \in Outcomes : WorkerDecides(b, to)
             \/ Reconcile \/ TickEnds \/ UNCHANGED pvars
             \/ \E j \in jobs : SyncQueue(j) \/ SyncTask(j)
             \/ \E b \in Ids : Settles(b) \/ ReuseSuccessor(b) \/ CreateSuccessor(b)
             \/ \E b \in Ids : MoveQueue(b) \/ MoveTask(b) \/ MoveMissing(b) \/ MoveFails(b)
      PROVE  posting' = posting /\ result' = result
  BY <1>4 DEF SecondSend, Owes, Repair, TellsTask, TellTask, WorkerDecides, Reconcile, TickEnds,
     SyncQueue, SyncTask, Settles, OperatorSettles, ReuseSuccessor, CreateSuccessor,
     MoveQueue, MoveTask, MoveMissing, MoveFails, pvars, vars, senderVars, taskVars
<1> QED
  BY <1>1, <1>2, <1>3, <1>4, Steps

LEMMA StagedNext ==
  ASSUME IInv, Typed, LineageOK, StagedOK, ReadyOK, [PNext]_pvars
  PROVE  StagedOK'
<1>0. /\ posting \in [Items -> Results \cup {NoResult}] /\ result \in [Senders -> Results \cup {NoResult}]
      /\ parent \in [Ids -> Ids \cup {NoRecord}]
      /\ NoResult.ids = {} /\ QueuedParts(NoResult)
  BY DEF Typed, PTypeOK, IInv, TypeOK, NoResult, Result, QueuedParts
<1>1. nextId \in Nat /\ nextId' \in Nat /\ nextId' >= nextId
  BY GrowsStep
<1>2. \A b \in Ids : b \in Nat
  BY DEF Ids
<1>3. \A r \in Results \cup {NoResult} : r.ids \subseteq Ids
  BY ResultIs
<1>4. ASSUME NEW b \in Ids, b # nextId + 1 \/ nextId' # nextId + 1 \/ parent' = parent
      PROVE  parent'[b] = parent[b]
  <2>1. ASSUME NEW c \in Ids, CreateSuccessor(c)
        PROVE  nextId' = nextId + 1 /\ \E x : parent' = [parent EXCEPT ![nextId + 1] = x]
    BY <2>1 DEF CreateSuccessor
  <2> QED
    BY <1>0, <1>4, <2>1, ParentStep
<1>5. \A b \in Ids : b > nextId' => Untouched(b)'
  <2> TAKE b \in Ids
  <2> HAVE b > nextId'
  <2>1. (b > nextId /\ b # nextId + 1) \/ nextId' # nextId + 1
    BY <1>1, <1>2
  <2>2. Untouched(b)
    BY <1>1, <1>2 DEF StagedOK
  <2>3. \A i \in Items : b \notin posting[i].ids
    BY <1>1, <1>2 DEF StagedOK
  <2>4. parent'[b] = parent[b]
    BY <1>1, <1>2, <1>4, <2>1
  <2> QED
    BY <2>2, <2>3, <2>4, UntouchedStep
\* A record that a sender or a marked result holds stays as it is.
<1>6. ASSUME NEW b \in Ids, b <= nextId, Untouched(b),
             \A i \in Items : PublishTask(i) \/ PublishFails(i) => b \notin posting[i].ids
      PROVE  b <= nextId' /\ Untouched(b)'
  <2>1. b <= nextId' /\ b # nextId + 1
    BY <1>1, <1>2, <1>6
  <2> QED
    BY <1>4, <1>6, <2>1, UntouchedStep
<1>7. ASSUME NEW s \in Senders, NEW b \in result[s].ids
      PROVE  b \in Ids /\ b <= nextId' /\ Untouched(b)'
  <2>1. b \in Ids /\ b <= nextId /\ Untouched(b)
    BY <1>0, <1>3 DEF StagedOK
  <2>2. \A i \in Items : b \notin posting[i].ids
    BY DEF StagedOK
  <2> QED
    BY <1>6, <2>1, <2>2
<1>8. ASSUME NEW i \in Items, NEW b \in posting[i].ids, ~PublishTask(i), ~PublishFails(i)
      PROVE  b \in Ids /\ b <= nextId' /\ Untouched(b)'
  <2>1. b \in Ids /\ b <= nextId /\ Untouched(b)
    BY <1>0, <1>3 DEF StagedOK
  <2>2. \A k \in Items : PublishTask(k) \/ PublishFails(k) => b \notin posting[k].ids
    BY <1>8 DEF StagedOK
  <2> QED
    BY <1>6, <2>1, <2>2
<1>9. ASSUME NEW s \in Senders, Stages(s) PROVE StagedOK'
  <2>1. \A i \in Items : ~PublishTask(i) /\ ~PublishFails(i)
    <3> SUFFICES ASSUME NEW i \in Items, PublishTask(i) \/ PublishFails(i) PROVE FALSE
      OBVIOUS
    <3>1. posting[i] # NoResult /\ posting' = [posting EXCEPT ![i] = NoResult]
      BY DEF PublishTask, PublishFails
    <3> QED
      BY <1>0, <1>9, <3>1 DEF Stages
  <2>2. ASSUME NEW b \in (nextId + 1) .. nextId', b \in Ids PROVE b <= nextId' /\ Untouched(b)'
    <3>1. b > nextId /\ b <= nextId'
      BY <1>1, <2>2
    <3>2. Untouched(b) /\ parent'[b] = parent[b]
      BY <1>4, <1>9, <2>2, <3>1 DEF StagedOK, Stages
    <3> QED
      BY <2>1, <2>2, <3>1, <3>2, UntouchedStep
  <2>3. IInv'
    BY QueueNext
  <2>4. result'[s].ids \subseteq Ids
    <3>1. result'[s] \in Results \cup {NoResult}
      BY <2>3 DEF IInv, TypeOK
    <3> QED
      BY <1>3, <3>1
  <2>5. \A b \in result'[s].ids : b > nextId /\ b <= nextId' /\ Untouched(b)'
    <3> TAKE b \in result'[s].ids
    <3>1. b \in Ids /\ b \in (nextId + 1) .. nextId'
      BY <1>9, <2>4 DEF Stages
    <3> QED
      BY <1>1, <2>2, <3>1
  <2>6. \A r \in Senders : r # s => result'[r] = result[r] /\ \A b \in result[r].ids : b <= nextId
    BY <1>9 DEF Stages, StagedOK
  <2>7. posting' = posting /\ \A i \in Items : \A b \in posting[i].ids : b <= nextId
    BY <1>9 DEF Stages, StagedOK
  <2>8. \A r \in Senders : QueuedParts(result'[r]) /\ \A b \in result'[r].ids : b <= nextId' /\ Untouched(b)'
    BY <1>7, <1>9, <2>5, <2>6 DEF Stages, StagedOK
  <2>9. \A i \in Items : QueuedParts(posting'[i]) /\ \A b \in posting'[i].ids : b <= nextId' /\ Untouched(b)'
    BY <1>8, <2>1, <2>7 DEF StagedOK
  <2>10. \A b \in Ids : b > nextId => ~(b <= nextId)
    BY <1>1, <1>2
  <2>11. \A r \in Senders : r # s => result'[s].ids \cap result'[r].ids = {}
    BY <2>4, <2>5, <2>6, <2>10
  <2>12. \A i \in Items : result'[s].ids \cap posting'[i].ids = {}
    BY <2>4, <2>5, <2>7, <2>10
  <2>13. \A r, q \in Senders : r # q => result'[r].ids \cap result'[q].ids = {}
    BY <2>6, <2>11 DEF StagedOK
  <2>14. \A r \in Senders, i \in Items : result'[r].ids \cap posting'[i].ids = {}
    BY <2>6, <2>7, <2>12 DEF StagedOK
  <2>15. \A i, k \in Items : i # k => posting'[i].ids \cap posting'[k].ids = {}
    BY <2>7 DEF StagedOK
  <2> QED
    BY <1>5, <2>8, <2>9, <2>13, <2>14, <2>15 DEF StagedOK, QueuedParts
<1>10. ASSUME NEW s \in Senders, HandsOn(s) PROVE StagedOK'
  <2>1. \A i \in Items : ~PublishTask(i) /\ ~PublishFails(i)
    <3>1. pc[s] = "executed" /\ pc' = [pc EXCEPT ![s] = "idle"] /\ pc \in [Senders -> {"idle", "claimed", "begun", "executed"}]
      BY <1>10 DEF HandsOn, MarkResult, StaysApproved, SenderDone, IInv, TypeOK
    <3>2. pc' # pc
      BY <3>1
    <3> QED
      BY <3>2 DEF PublishTask, PublishFails, vars, senderVars
  <2>2. target[s] \in Items
    BY <1>10 DEF HandsOn, MarkResult, StaysApproved, IInv, SenderOK
  <2>3. /\ \A r \in Senders : result'[r] = IF r = s THEN NoResult ELSE result[r]
        /\ \A i \in Items : posting'[i] = IF i = target[s] THEN result[s] ELSE posting[i]
    BY <1>0, <1>10, <2>2 DEF HandsOn
  <2>4. \A r \in Senders : QueuedParts(result'[r]) /\ \A b \in result'[r].ids : b <= nextId' /\ Untouched(b)'
    BY <1>0, <1>7, <2>3 DEF StagedOK
  <2>5. \A i \in Items : QueuedParts(posting'[i]) /\ \A b \in posting'[i].ids : b <= nextId' /\ Untouched(b)'
    BY <1>0, <1>7, <1>8, <2>1, <2>3 DEF StagedOK
  <2>6. \A r, q \in Senders : r # q => result'[r].ids \cap result'[q].ids = {}
    BY <1>0, <2>3 DEF StagedOK
  <2>7. \A r \in Senders, i \in Items : result'[r].ids \cap posting'[i].ids = {}
    BY <1>0, <2>3 DEF StagedOK
  <2>8. \A i, k \in Items : i # k => posting'[i].ids \cap posting'[k].ids = {}
    BY <1>0, <2>3 DEF StagedOK
  <2> QED
    BY <1>5, <2>4, <2>5, <2>6, <2>7, <2>8 DEF StagedOK, QueuedParts
<1>11. CASE LetsGo
  <2>1. \A s \in Senders : result'[s].ids \in {result[s].ids, {}} /\ (result'[s] = result[s] \/ result'[s] = NoResult)
    BY <1>0, <1>11 DEF LetsGo
  <2>2. \A i \in Items : /\ posting'[i].ids \in {posting[i].ids, {}}
                          /\ \/ posting'[i] = posting[i] /\ ~PublishTask(i) /\ ~PublishFails(i)
                             \/ posting'[i] = NoResult
    BY <1>0, <1>11 DEF LetsGo
  <2>3. \A r \in Senders : QueuedParts(result'[r]) /\ \A b \in result'[r].ids : b <= nextId' /\ Untouched(b)'
    BY <1>0, <1>7, <2>1 DEF StagedOK
  <2>4. \A i \in Items : QueuedParts(posting'[i]) /\ \A b \in posting'[i].ids : b <= nextId' /\ Untouched(b)'
    BY <1>0, <1>8, <2>2 DEF StagedOK
  <2>5. \A r, q \in Senders : r # q => result'[r].ids \cap result'[q].ids = {}
    BY <2>1 DEF StagedOK
  <2>6. \A r \in Senders, i \in Items : result'[r].ids \cap posting'[i].ids = {}
    BY <2>1, <2>2 DEF StagedOK
  <2>7. \A i, k \in Items : i # k => posting'[i].ids \cap posting'[k].ids = {}
    BY <2>2 DEF StagedOK
  <2> QED
    BY <1>5, <2>3, <2>4, <2>5, <2>6, <2>7 DEF StagedOK, QueuedParts
<1> QED
  BY <1>9, <1>10, <1>11, HoldStep


LEMMA EarlyNext ==
  ASSUME IInv, Typed, LineageOK, EarlyOK, [PNext]_pvars
  PROVE  EarlyOK'
<1> DEFINE Early == {"absent", "pending", "approved", "rejected"}
<1>0. /\ status \in [Items -> QueueStatuses \cup {"absent", "removed"}]
      /\ refs \in [Items -> SUBSET Ids] /\ retryOf \in [Items -> Ids \cup {NoId}]
      /\ posting \in [Items -> Results \cup {NoResult}]
  BY DEF IInv, TypeOK, Typed
<1>1. \A st \in ResultStatuses : st \notin Early
  BY DEF ResultStatuses
<1>2. ASSUME UNCHANGED <<status, refs, retryOf>>, \A i \in Items : posting'[i] \in {posting[i], NoResult}
      PROVE  EarlyOK'
  BY <1>2 DEF EarlyOK
<1>3. ASSUME NEW i \in Items, NEW st \in ResultStatuses, status' = [status EXCEPT ![i] = st],
             \A k \in Items \ {i} : refs'[k] = refs[k] /\ retryOf'[k] = retryOf[k] /\ posting'[k] = posting[k]
      PROVE  EarlyOK'
  BY <1>0, <1>1, <1>3 DEF EarlyOK
<1>4. CASE QueueStep
  <2>1. ASSUME OperatorTells PROVE EarlyOK'
    <3>1. UNCHANGED <<refs, retryOf, posting>>
      BY <2>1 DEF OperatorTells, Owes, Enqueue, Approve, Reject, RetireObsolete, Review, Remove
    <3>2. PICK i \in Items, to \in {"pending", "approved", "rejected", "failed", "removed"} :
             /\ status' = [status EXCEPT ![i] = to]
             /\ to \in {"pending", "approved", "rejected"} => status[i] \in Early
      BY <2>1 DEF OperatorTells, Enqueue, Approve, Reject, RetireObsolete, Review, Remove,
         ValidTransition, AllowedTransitions, ResultStatuses
    <3> QED
      BY <1>0, <3>1, <3>2 DEF EarlyOK
  <2>2. ASSUME NEW s \in Senders, MarkResult(s), SenderEnds(target[s], result[s])
        PROVE  EarlyOK'
    <3>1. target[s] \in Items
      BY <2>2 DEF MarkResult, StaysApproved, IInv, SenderOK
    <3>2. result[s].status \in ResultStatuses
      BY <2>2, MarkedResult DEF IInv
    <3>3. status' = [status EXCEPT ![target[s]] = result[s].status]
      BY <2>2 DEF MarkResult, StaysApproved
    <3>4. \A k \in Items \ {target[s]} : refs'[k] = refs[k] /\ retryOf'[k] = retryOf[k] /\ posting'[k] = posting[k]
      BY <1>0, <2>2 DEF MarkResult, StaysApproved, SenderEnds, Owes
    <3> QED
      BY <1>3, <3>1, <3>2, <3>3, <3>4
  <2>3. ASSUME NEW s \in Senders, UNCHANGED posting,
               \/ Begin(s) \/ Execute(s) \/ Release(s) \/ QueueWriteFails(s) \/ \E i \in Items : ClaimGranted(s, i)
        PROVE  EarlyOK'
    <3>1. UNCHANGED <<status, refs, retryOf>>
      BY <2>3 DEF Begin, Execute, Release, StaysApproved, QueueWriteFails, ClaimGranted, queueVars
    <3> QED
      BY <1>2, <2>3, <3>1
  <2> QED
    BY <1>4, <2>1, <2>2, <2>3 DEF QueueStep, SenderTells, Owes, TellsNothing, taskVars
<1>5. ASSUME NEW j \in jobs, SyncQueue(j) PROVE EarlyOK'
  <2>1. UNCHANGED posting
    BY <1>5 DEF SyncQueue, taskVars
  <2>2. ASSUME NEW i \in Items, ApplyBridgeAck(i, j.id, j.ack) PROVE EarlyOK'
    <3>1. AckedStatus(i, j.id, j.ack) \in ResultStatuses
      BY AggregateResult DEF AckedStatus, ResultStatuses
    <3>2. /\ status' = [status EXCEPT ![i] = AckedStatus(i, j.id, j.ack)]
          /\ \A k \in Items \ {i} : refs'[k] = refs[k] /\ retryOf'[k] = retryOf[k]
      BY <1>0, <2>2 DEF ApplyBridgeAck
    <3> QED
      BY <1>3, <2>1, <3>1, <3>2
  <2>3. ASSUME UNCHANGED queueVars PROVE EarlyOK'
    BY <1>2, <2>1, <2>3 DEF queueVars
  <2>4. (\E i \in Items : ApplyBridgeAck(i, j.id, j.ack)) \/ UNCHANGED queueVars
    BY <1>5 DEF SyncQueue, QueueShows, Referencing
  <2> QED
    BY <2>2, <2>3, <2>4
<1>6. ASSUME NEW b \in Ids, MoveQueue(b) PROVE EarlyOK'
  <2>1. PICK i \in Items : RequeueBridgeResult(i, parent[b], Line(b), b)
    BY <1>6 DEF MoveQueue
  <2>2. Aggregate(PartStatuses(i, refs'[i], acks'), "queued_to_bridge") \in ResultStatuses
    BY AggregateResult DEF ResultStatuses
  <2>3. /\ status' = [status EXCEPT ![i] = Aggregate(PartStatuses(i, refs'[i], acks'), "queued_to_bridge")]
        /\ \A k \in Items \ {i} : refs'[k] = refs[k] /\ retryOf'[k] = retryOf[k]
    BY <1>0, <2>1 DEF RequeueBridgeResult
  <2>4. UNCHANGED posting
    BY <1>6 DEF MoveQueue, taskVars
  <2> QED
    BY <1>3, <2>2, <2>3, <2>4
<1>7. ASSUME \/ \E i \in Items : PublishTask(i) \/ PublishFails(i) \/ SecondSend(i) \/ Repair(i)
             \/ TellsTask
             \/ \E b \in Ids, to \in Outcomes : WorkerDecides(b, to)
             \/ Reconcile \/ TickEnds \/ UNCHANGED pvars
             \/ \E j \in jobs : SyncTask(j)
             \/ \E b \in Ids : Settles(b) \/ ReuseSuccessor(b) \/ CreateSuccessor(b)
             \/ \E b \in Ids : MoveTask(b) \/ MoveMissing(b) \/ MoveFails(b)
      PROVE  EarlyOK'
  <2>1. UNCHANGED <<status, refs, retryOf>>
    BY <1>7 DEF PublishTask, PublishFails, SecondSend, Repair, TellsTask, TellTask, WorkerDecides, Reconcile, TickEnds, SyncTask,
       Settles, OperatorSettles, ReuseSuccessor, CreateSuccessor, MoveTask, MoveMissing, MoveFails, pvars, vars, queueVars
  <2>2. posting' = posting \/ \E i \in Items : posting' = [posting EXCEPT ![i] = NoResult]
    BY <1>7 DEF PublishTask, PublishFails, SecondSend, Owes, Repair, TellsTask, TellTask, WorkerDecides, Reconcile, TickEnds, SyncTask,
       Settles, OperatorSettles, ReuseSuccessor, CreateSuccessor, MoveTask, MoveMissing, MoveFails, pvars, taskVars
  <2> QED
    BY <1>0, <1>2, <2>1, <2>2
<1> QED
  BY <1>4, <1>5, <1>6, <1>7, Steps


-----------------------------------------------------------------------------
(* A part is delivered once. *)

\* The chains of the records there are stay as they are.
LEMMA ChainsKept ==
  ASSUME Typed, LineageOK, LineageOK', Typed', [PNext]_pvars, NEW b \in Ids, b <= nextId
  PROVE  LineIn(parent', b) = LineIn(parent, b) /\ PartIn(parent', b) = PartIn(parent, b)
<1>1. CASE parent' = parent
  BY <1>1
<1>2. ASSUME NEW c \in Ids, CreateSuccessor(c)
      PROVE  LineIn(parent', b) = LineIn(parent, b) /\ PartIn(parent', b) = PartIn(parent, b)
  <2> DEFINE new == nextId + 1
  <2>1. PICK top \in held : parent' = [parent EXCEPT ![new] = top]
    BY <1>2, Succession
  <2>2. new \in Ids /\ nextId \in Nat
    BY <1>2, GrowsStep DEF CreateSuccessor
  <2>3. /\ MaxIds \in Nat /\ Ids = 1 .. MaxIds /\ parent \in [1 .. MaxIds -> 0 .. MaxIds]
        /\ \A r \in 1 .. MaxIds : parent[r] < r
    BY ParentsAre
  <2>4. parent' \in [1 .. MaxIds -> 0 .. MaxIds] /\ \A r \in 1 .. MaxIds : parent'[r] < r
    <3>1. Ids \cup {NoRecord} = 0 .. MaxIds
      BY <2>3 DEF NoRecord
    <3> QED
      BY <2>3, <3>1 DEF Typed, PTypeOK, LineageOK
  <2>5. \A x \in 1 .. MaxIds : x # new => parent'[x] = parent[x]
    BY <2>1, <2>3
  <2>6. ASSUME NEW x \in 1 .. MaxIds, x # new PROVE parent[x] # new
    <3>1. parent[x] # NoRecord => x <= nextId
      BY <2>3 DEF LineageOK
    <3>2. parent[x] < x /\ parent[x] \in Nat /\ x \in Nat
      BY <2>3
    <3> QED
      BY <2>2, <3>1, <3>2 DEF NoRecord
  <2>7. b \in 1 .. MaxIds /\ b # new
    BY <2>2, <2>3
  <2>8. new \in 1 .. MaxIds
    BY <2>2, <2>3
  <2>9. \A x \in 1 .. MaxIds : x # new => parent'[x] = parent[x] /\ parent[x] # new
    BY <2>5, <2>6
  <2> HIDE DEF new
  <2>10. \A x \in 1 .. MaxIds : x # new =>
           LineIn(parent', x) = LineIn(parent, x) /\ PartIn(parent', x) = PartIn(parent, x)
    BY <2>3, <2>4, <2>8, <2>9, LineKept
  <2> QED
    BY <2>7, <2>10
<1> QED
  BY <1>1, <1>2, ParentStep

\* A staged record that nobody has looked at is a chain of its own.
LEMMA StagedAlone ==
  ASSUME Typed, LineageOK, NEW b \in Ids, Untouched(b)
  PROVE  PartIn(parent, b) = b /\ \A x \in Ids : PartIn(parent, x) = b => x = b
<1>1. /\ MaxIds \in Nat /\ Ids = 1 .. MaxIds /\ parent \in [1 .. MaxIds -> 0 .. MaxIds]
      /\ \A r \in 1 .. MaxIds : parent[r] < r
  BY ParentsAre
<1>2. \A x \in 1 .. MaxIds : parent[x] # b
  <2> SUFFICES ASSUME NEW x \in 1 .. MaxIds, parent[x] = b PROVE FALSE
    OBVIOUS
  <2>1. b # NoRecord
    BY <1>1 DEF NoRecord
  <2>2. outcome[b] = "failed"
    BY <1>1, <2>1 DEF LineageOK
  <2> QED
    BY <2>2 DEF Untouched
<1>3. parent[b] = NoRecord
  BY DEF Untouched
<1> QED
  BY <1>1, <1>2, <1>3, LoneRecord

LEMMA ReadyStep ==
  ASSUME [PNext]_pvars
  PROVE  \/ ready' = ready
         \/ \E i \in Items : PublishTask(i) /\ ready' = ready \cup posting[i].ids
         \/ \E b \in Ids : MoveTask(b) /\ ready' = ready \cup {b}
<1>1. ASSUME \/ \E i \in Items : PublishFails(i) \/ SecondSend(i) \/ Repair(i)
             \/ TellsTask
             \/ \E b \in Ids, to \in Outcomes : WorkerDecides(b, to)
             \/ Reconcile \/ TickEnds \/ UNCHANGED pvars \/ QueueStep
             \/ \E j \in jobs : SyncQueue(j) \/ SyncTask(j)
             \/ \E b \in Ids : Settles(b) \/ ReuseSuccessor(b) \/ CreateSuccessor(b)
             \/ \E b \in Ids : MoveQueue(b) \/ MoveMissing(b) \/ MoveFails(b)
      PROVE  ready' = ready
  BY <1>1 DEF PublishFails, SecondSend, Repair, TellsTask, TellTask, WorkerDecides, Reconcile, TickEnds, QueueStep,
     SyncQueue, SyncTask, Settles, OperatorSettles, ReuseSuccessor, CreateSuccessor,
     MoveQueue, MoveMissing, MoveFails, pvars, recordVars
<1>2. \A i \in Items : PublishTask(i) => ready' = ready \cup posting[i].ids
  BY DEF PublishTask
<1>3. \A b \in Ids : MoveTask(b) => ready' = ready \cup {b}
  BY DEF MoveTask
<1> QED
  BY <1>1, <1>2, <1>3, Steps

\* A record that is named or activated after the step was so before, or is staged
\* and published by it, or is the retry that takes over a part.
Taken(b) == \E k \in Items, c \in LineIn(parent, b) : Refers(task[k], c)

LEMMA NamedStep ==
  ASSUME IInv, Typed, LineageOK, [PNext]_pvars
  PROVE  \/ /\ \A i \in Items, a \in Ids : Refers(task'[i], a) => Refers(task[i], a)
            /\ ready' = ready
         \/ \E m \in Items :
              /\ \A i \in Items, a \in Ids : Refers(task'[i], a) => Refers(task[i], a) \/ a \in posting[m].ids
              /\ ready' \subseteq ready \cup posting[m].ids
         \/ \E m \in Ids :
              /\ parent[m] # NoRecord
              /\ \A i \in Items, a \in Ids : Refers(task'[i], a) =>
                   \/ Refers(task[i], a) /\ a \notin LineIn(parent, m)
                   \/ a = m /\ Taken(m)
              /\ ready' = ready \/ (ready' = ready \cup {m} /\ Taken(m))
<1> DEFINE Same == /\ \A i \in Items, a \in Ids : Refers(task'[i], a) => Refers(task[i], a)
                   /\ ready' = ready
           Pub(m) == /\ \A i \in Items, a \in Ids : Refers(task'[i], a) => Refers(task[i], a) \/ a \in posting[m].ids
                     /\ ready' \subseteq ready \cup posting[m].ids
           Mov(m) == /\ parent[m] # NoRecord
                     /\ \A i \in Items, a \in Ids : Refers(task'[i], a) =>
                          \/ Refers(task[i], a) /\ a \notin LineIn(parent, m)
                          \/ a = m /\ Taken(m)
                     /\ ready' = ready \/ (ready' = ready \cup {m} /\ Taken(m))
<1>1. ASSUME NEW m \in Items, PublishTask(m) \/ PublishFails(m) PROVE Pub(m)
  <2>1. task' = task \/ task' = [task EXCEPT ![m] = Finished(task[m], Known, posting[m])]
    BY <1>1 DEF PublishTask, PublishFails
  <2>2. NamesOf(Finished(task[m], Known, posting[m])) \subseteq NamesOf(task[m]) \cup posting[m].ids
    <3>1. posting[m].ids # {}
      BY <1>1 DEF Typed, PublishTask, PublishFails
    <3> QED
      BY <3>1, KnownIs, FinishedIs DEF Typed
  <2>3. ready' \subseteq ready \cup posting[m].ids
    BY <1>1 DEF PublishTask, PublishFails
  <2>4. task \in [Items -> TaskRecords]
    BY DEF Typed
  <2>5. \A i \in Items : task'[i] = task[i] \/ (i = m /\ task'[i] = Finished(task[m], Known, posting[m]))
    BY <2>1, <2>4
  <2>6. ASSUME NEW i \in Items, NEW a \in Ids, Refers(task'[i], a)
        PROVE  Refers(task[i], a) \/ a \in posting[m].ids
    BY <2>2, <2>5, <2>6 DEF NamesOf
  <2> QED
    BY <2>3, <2>6
<1>2. ASSUME NEW m \in Ids, MoveTask(m) \/ MoveMissing(m) PROVE Mov(m)
  <2>1. task' = [i \in Items |-> IF i \in Moved(m) THEN Requeued(task[i], Line(m), m) ELSE task[i]]
    BY <1>2 DEF MoveTask, MoveMissing, TasksMove
  <2>2. Line(m) = LineIn(parent, m) /\ Line(m) \in SUBSET Ids
    BY LineIs
  <2>3. Moved(m) = { i \in Items : \E c \in LineIn(parent, m) : Refers(task[i], c) }
    BY <2>2 DEF Moved
  <2>4. ASSUME NEW i \in Items, NEW a \in Ids, Refers(task'[i], a)
        PROVE  (Refers(task[i], a) /\ a \notin LineIn(parent, m)) \/ (a = m /\ Taken(m))
    <3>1. CASE i \in Moved(m)
      <4>1. NamesOf(Requeued(task[i], Line(m), m)) \subseteq (NamesOf(task[i]) \ Line(m)) \cup {m}
        BY <2>2, RequeuedIs DEF Typed
      <4>2. Taken(m)
        BY <2>3, <3>1 DEF Taken
      <4> QED
        BY <2>1, <2>2, <2>4, <3>1, <4>1, <4>2 DEF NamesOf
    <3>2. CASE i \notin Moved(m)
      BY <2>1, <2>3, <2>4, <3>2
    <3> QED
      BY <3>1, <3>2
  <2>5. ready' = ready \/ (ready' = ready \cup {m} /\ Taken(m))
    BY <1>2, <2>3 DEF MoveTask, MoveMissing, Taken
  <2>6. parent[m] # NoRecord
    BY <1>2 DEF MoveTask, MoveMissing, QueueLacks, LineageOK
  <2> QED
    BY <2>4, <2>5, <2>6
<1>3. ASSUME Fewer, ready' = ready PROVE Same
  BY <1>3 DEF Fewer, NamesOf
<1>4. ASSUME NEW m \in Items, Publishes(m) PROVE Pub(m)
  BY <1>1, <1>4 DEF Publishes
<1>5. ASSUME NEW m \in Ids, Moves(m) PROVE Mov(m)
  BY <1>2, <1>5 DEF Moves
<1> HIDE DEF Same, Pub, Mov
<1>6. Same \/ (\E m \in Items : Pub(m)) \/ (\E m \in Ids : Mov(m))
  BY <1>1, <1>2, <1>3, <1>4, <1>5, TaskStep, ReadyStep
<1> QED
  BY <1>6 DEF Same, Pub, Mov

LEMMA NamesNext ==
  ASSUME IInv, Typed, LineageOK, StagedOK, NamesOK, ReadyOK, Typed', LineageOK', [PNext]_pvars
  PROVE  NamesOK'
<1>1. nextId \in Nat /\ nextId' \in Nat /\ nextId' >= nextId /\ \A b \in Ids : b \in Nat
  BY GrowsStep DEF Ids
<1>2. \A r \in Results \cup {NoResult} : r.ids \subseteq Ids
  BY ResultIs
<1>3. /\ MaxIds \in Nat /\ Ids = 1 .. MaxIds /\ parent \in [1 .. MaxIds -> 0 .. MaxIds]
      /\ \A r \in 1 .. MaxIds : parent[r] < r
  BY ParentsAre
<1>4. \A b \in Ids : b <= nextId =>
        LineIn(parent', b) = LineIn(parent, b) /\ PartIn(parent', b) = PartIn(parent, b)
  BY ChainsKept
<1>5. \A b \in Ids : b \in LineIn(parent, b)
  BY DEF LineIn
<1>6. \A a \in ready : a \in Ids /\ a <= nextId
  <2> TAKE a \in ready
  <2>1. a \in Ids
    BY DEF Typed, PTypeOK
  <2>2. ~(a > nextId)
    BY <2>1 DEF StagedOK, Untouched
  <2> QED
    BY <1>1, <2>1, <2>2
<1> DEFINE P(b) == PartIn(parent, b)
           L(b) == LineIn(parent, b)
           Named(i, b) == Refers(task'[i], b)
\* It is enough to look at the chains before the step.
<1>7. ASSUME \A i \in Items, b \in Ids : Named(i, b) => b <= nextId,
             \A a \in ready' : a \in Ids /\ a <= nextId,
             \A i, k \in Items, a, b \in Ids : Named(i, a) /\ Named(k, b) /\ P(a) = P(b) => a = b,
             \A i \in Items, a \in ready', b \in Ids : Named(i, b) /\ P(a) = P(b) => a \in L(b)
      PROVE  NamesOK'
  <2>1. \A i \in Items, b \in Ids : Named(i, b) => b <= nextId'
    BY <1>1, <1>7
  <2>2. \A i, k \in Items, a, b \in Ids :
          Named(i, a) /\ Named(k, b) /\ PartIn(parent', a) = PartIn(parent', b) => a = b
    BY <1>4, <1>7
  <2>3. \A i \in Items, a \in ready', b \in Ids :
          Named(i, b) /\ PartIn(parent', a) = PartIn(parent', b) => a \in LineIn(parent', b)
    BY <1>4, <1>7
  <2> QED
    BY <2>1, <2>2, <2>3 DEF NamesOK
<1>8. ASSUME \A i \in Items, a \in Ids : Named(i, a) => Refers(task[i], a), ready' = ready
      PROVE  NamesOK'
  <2>1. \A i \in Items, b \in Ids : Named(i, b) => b <= nextId
    BY <1>8 DEF NamesOK
  <2>2. \A i, k \in Items, a, b \in Ids : Named(i, a) /\ Named(k, b) /\ P(a) = P(b) => a = b
    BY <1>8 DEF NamesOK
  <2>3. \A i \in Items, a \in ready', b \in Ids : Named(i, b) /\ P(a) = P(b) => a \in L(b)
    BY <1>8 DEF NamesOK
  <2> QED
    BY <1>6, <1>7, <1>8, <2>1, <2>2, <2>3
<1>9. ASSUME NEW m \in Items,
             \A i \in Items, a \in Ids : Named(i, a) => Refers(task[i], a) \/ a \in posting[m].ids,
             ready' \subseteq ready \cup posting[m].ids
      PROVE  NamesOK'
  <2>1. \A a \in posting[m].ids : a \in Ids /\ a <= nextId /\ Untouched(a)
    BY <1>2 DEF Typed, StagedOK
  <2>2. \A a \in posting[m].ids : P(a) = a /\ \A x \in Ids : P(x) = a => x = a
    BY <2>1, StagedAlone
  <2>3. \A i \in Items, b \in Ids : Named(i, b) => b <= nextId
    BY <1>9, <2>1 DEF NamesOK
  <2>4. \A a \in ready' : a \in Ids /\ a <= nextId
    BY <1>6, <1>9, <2>1
  <2>5. ASSUME NEW i \in Items, NEW k \in Items, NEW a \in Ids, NEW b \in Ids,
               Named(i, a), Named(k, b), P(a) = P(b)
        PROVE  a = b
    <3>1. CASE a \in posting[m].ids \/ b \in posting[m].ids
      BY <2>2, <2>5, <3>1
    <3>2. CASE Refers(task[i], a) /\ Refers(task[k], b)
      BY <2>5, <3>2 DEF NamesOK
    <3> QED
      BY <1>9, <2>5, <3>1, <3>2
  <2>6. ASSUME NEW i \in Items, NEW a \in ready', NEW b \in Ids, Named(i, b), P(a) = P(b)
        PROVE  a \in L(b)
    <3>1. CASE a \in posting[m].ids \/ b \in posting[m].ids
      <4>1. a = b
        BY <2>2, <2>4, <2>6, <3>1
      <4> QED
        BY <1>5, <4>1
    <3>2. CASE a \in ready /\ Refers(task[i], b)
      BY <2>6, <3>2 DEF NamesOK
    <3> QED
      BY <1>9, <2>6, <3>1, <3>2
  <2> HIDE DEF P, L, Named
  <2> QED
    BY <1>7, <2>3, <2>4, <2>5, <2>6
<1>10. ASSUME NEW m \in Ids,
              parent[m] # NoRecord,
              \A i \in Items, a \in Ids : Named(i, a) =>
                   \/ Refers(task[i], a) /\ a \notin L(m)
                   \/ a = m /\ Taken(m),
              ready' = ready \/ (ready' = ready \cup {m} /\ Taken(m))
      PROVE  NamesOK'
  <2>1. m <= nextId
    BY <1>10 DEF LineageOK
  <2>2. /\ L(m) \subseteq Ids
        /\ \A c \in L(m) : P(c) = P(m) /\ L(c) \subseteq L(m)
    BY <1>3, PartIs
  <2>3. \A i \in Items, b \in Ids : Named(i, b) => b <= nextId
    BY <1>10, <2>1 DEF NamesOK
  <2>4. \A a \in ready' : a \in Ids /\ a <= nextId
    BY <1>6, <1>10, <2>1
  \* What took over the part of m.
  <2>5. ASSUME Taken(m), NEW i \in Items, NEW a \in Ids, Refers(task[i], a), P(a) = P(m)
        PROVE  a \in L(m)
    <3>1. PICK k \in Items, c \in L(m) : Refers(task[k], c)
      BY <2>5 DEF Taken
    <3>2. c \in Ids /\ P(c) = P(m)
      BY <2>2
    <3>3. a = c
      BY <2>5, <3>1, <3>2 DEF NamesOK
    <3> QED
      BY <3>3
  <2>6. ASSUME Taken(m), NEW a \in ready, P(a) = P(m)
        PROVE  a \in L(m)
    <3>1. PICK k \in Items, c \in L(m) : Refers(task[k], c)
      BY <2>6 DEF Taken
    <3>2. c \in Ids /\ P(c) = P(m) /\ L(c) \subseteq L(m)
      BY <2>2
    <3>3. a \in L(c)
      BY <2>6, <3>1, <3>2 DEF NamesOK
    <3> QED
      BY <3>2, <3>3
  <2>9. ASSUME NEW i \in Items, NEW k \in Items, NEW b \in Ids,
               Named(i, m), Named(k, b), b # m, P(b) = P(m)
        PROVE  FALSE
    <3>1. m \in L(m)
      BY <1>5
    <3>2. Taken(m)
      BY <1>10, <2>9, <3>1
    <3>3. Refers(task[k], b) /\ b \notin L(m)
      BY <1>10, <2>9
    <3> QED
      BY <2>5, <2>9, <3>2, <3>3
  <2>7. ASSUME NEW i \in Items, NEW k \in Items, NEW a \in Ids, NEW b \in Ids,
               Named(i, a), Named(k, b), P(a) = P(b)
        PROVE  a = b
    <3>1. CASE Refers(task[i], a) /\ Refers(task[k], b)
      BY <2>7, <3>1 DEF NamesOK
    <3>2. CASE a = m /\ b # m
      <4>1. P(b) = P(m) /\ Named(i, m)
        BY <2>7, <3>2
      <4> QED
        BY <2>7, <2>9, <3>2, <4>1
    <3>3. CASE b = m /\ a # m
      <4>1. P(a) = P(m) /\ Named(k, m)
        BY <2>7, <3>3
      <4> QED
        BY <2>7, <2>9, <3>3, <4>1
    <3> QED
      BY <1>10, <2>7, <3>1, <3>2, <3>3
  <2>8. ASSUME NEW i \in Items, NEW a \in ready', NEW b \in Ids, Named(i, b), P(a) = P(b)
        PROVE  a \in L(b)
    <3>1. CASE a \in ready /\ Refers(task[i], b)
      BY <2>8, <3>1 DEF NamesOK
    <3>2. CASE b = m /\ a \in ready
      <4>1. Taken(m) \/ Refers(task[i], b)
        BY <1>10, <2>8
      <4> QED
        BY <2>6, <2>8, <3>1, <3>2, <4>1
    <3>3. CASE a = m /\ b = m
      BY <1>5, <3>3
    <3>4. CASE a = m /\ b # m /\ a \notin ready
      <4>1. Taken(m) /\ Refers(task[i], b) /\ b \notin L(m)
        BY <1>10, <2>8, <3>4
      <4> QED
        BY <2>5, <2>8, <3>4, <4>1
    <3>5. a \in ready \/ a = m
      BY <1>10
    <3>6. Refers(task[i], b) \/ b = m
      BY <1>10, <2>8
    <3> QED
      BY <3>1, <3>2, <3>3, <3>4, <3>5, <3>6
  <2> HIDE DEF P, L, Named
  <2> QED
    BY <1>7, <2>3, <2>4, <2>7, <2>8
<1> QED
  BY <1>8, <1>9, <1>10, NamedStep

LEMMA BatchStep ==
  ASSUME [PNext]_pvars
  PROVE  batch' \subseteq batch \cup ready
<1>1. ASSUME \/ \E i \in Items : PublishTask(i) \/ PublishFails(i) \/ SecondSend(i) \/ Repair(i)
             \/ TellsTask
             \/ \E b \in Ids, to \in Outcomes : WorkerDecides(b, to)
             \/ UNCHANGED pvars \/ QueueStep
             \/ \E j \in jobs : SyncQueue(j) \/ SyncTask(j)
             \/ \E b \in Ids : Settles(b) \/ ReuseSuccessor(b) \/ CreateSuccessor(b)
             \/ \E b \in Ids : MoveQueue(b) \/ MoveTask(b) \/ MoveMissing(b) \/ MoveFails(b)
      PROVE  batch' = batch
  BY <1>1 DEF PublishTask, PublishFails, SecondSend, Repair, TellsTask, TellTask, WorkerDecides, QueueStep,
     SyncQueue, SyncTask, Settles, OperatorSettles, ReuseSuccessor, CreateSuccessor,
     MoveQueue, MoveTask, MoveMissing, MoveFails, pvars, workerVars
<1>2. Reconcile \/ TickEnds => batch' \subseteq ready
  BY DEF Reconcile, TickEnds
<1> QED
  BY <1>1, <1>2, Steps

\* The activated records of a part stay one chain: a retry is activated only when it
\* took the place of a record that a task named.
LEMMA ReadyNext ==
  ASSUME IInv, Typed, LineageOK, StagedOK, NamesOK, ReadyOK, Typed', LineageOK', [PNext]_pvars
  PROVE  ReadyOK'
<1>1. nextId \in Nat /\ \A b \in Ids : b \in Nat
  BY GrowsStep DEF Ids
<1>2. \A r \in Results \cup {NoResult} : r.ids \subseteq Ids
  BY ResultIs
<1>3. /\ MaxIds \in Nat /\ Ids = 1 .. MaxIds /\ parent \in [1 .. MaxIds -> 0 .. MaxIds]
      /\ \A r \in 1 .. MaxIds : parent[r] < r
  BY ParentsAre
<1>4. \A b \in Ids : b <= nextId =>
        LineIn(parent', b) = LineIn(parent, b) /\ PartIn(parent', b) = PartIn(parent, b)
  BY ChainsKept
<1>5. \A b \in Ids : b \in LineIn(parent, b)
  BY DEF LineIn
<1>6. \A a \in ready : a \in Ids /\ a <= nextId
  <2> TAKE a \in ready
  <2>1. a \in Ids
    BY DEF Typed, PTypeOK
  <2>2. ~(a > nextId)
    BY <2>1 DEF StagedOK, Untouched
  <2> QED
    BY <1>1, <2>1, <2>2
<1>7. ready \subseteq ready'
  BY ReadyStep
<1>8. batch' \subseteq ready'
  BY <1>7, BatchStep DEF ReadyOK
<1>9. ASSUME NEW b \in Ids, outcome'[b] \in {"sent", "accepted"} PROVE b \in ready'
  <2>1. outcome[b] \in {"sent", "accepted"} => b \in ready
    BY DEF ReadyOK, Delivered
  <2>2. outcome'[b] = outcome[b] \/ b \in ready \/ outcome[b] = "accepted"
    BY <1>9, OutcomeStep
  <2> QED
    BY <1>7, <1>9, <2>1, <2>2
<1> DEFINE P(b) == PartIn(parent, b)
           L(b) == LineIn(parent, b)
<1>10. ASSUME \A a \in ready' : a \in Ids /\ a <= nextId,
              \A a, b \in ready' : P(a) = P(b) => a \in L(b) \/ b \in L(a)
       PROVE  ReadyOK'
  <2>1. \A a, b \in ready' : PartIn(parent', a) = PartIn(parent', b) =>
          a \in LineIn(parent', b) \/ b \in LineIn(parent', a)
    BY <1>4, <1>10
  <2> QED
    BY <1>8, <1>9, <2>1 DEF ReadyOK, Delivered
<1>11. CASE ready' = ready
  BY <1>6, <1>10, <1>11 DEF ReadyOK
<1>12. ASSUME NEW m \in Items, ready' \subseteq ready \cup posting[m].ids
       PROVE  ReadyOK'
  <2>1. \A a \in posting[m].ids : a \in Ids /\ a <= nextId /\ Untouched(a)
    BY <1>2 DEF Typed, StagedOK
  <2>2. \A a \in posting[m].ids : P(a) = a /\ \A x \in Ids : P(x) = a => x = a
    BY <2>1, StagedAlone
  <2>3. \A a \in ready' : a \in Ids /\ a <= nextId
    BY <1>6, <1>12, <2>1
  <2>4. ASSUME NEW a \in ready', NEW b \in ready', P(a) = P(b)
        PROVE  a \in L(b) \/ b \in L(a)
    <3>1. CASE a \in posting[m].ids \/ b \in posting[m].ids
      <4>1. a = b
        BY <2>2, <2>3, <2>4, <3>1
      <4> QED
        BY <1>5, <2>3, <4>1
    <3>2. CASE a \in ready /\ b \in ready
      BY <2>4, <3>2 DEF ReadyOK
    <3> QED
      BY <1>12, <3>1, <3>2
  <2> HIDE DEF P, L
  <2> QED
    BY <1>10, <2>3, <2>4
<1>13. ASSUME NEW m \in Ids, parent[m] # NoRecord, ready' = ready \cup {m}, Taken(m)
       PROVE  ReadyOK'
  <2>1. m <= nextId
    BY <1>13 DEF LineageOK
  <2>2. /\ L(m) \subseteq Ids
        /\ \A c \in L(m) : P(c) = P(m) /\ L(c) \subseteq L(m)
    BY <1>3, PartIs
  <2>3. \A a \in ready' : a \in Ids /\ a <= nextId
    BY <1>6, <1>13, <2>1
  <2>4. ASSUME NEW a \in ready, P(a) = P(m)
        PROVE  a \in L(m)
    <3>1. PICK k \in Items, c \in L(m) : Refers(task[k], c)
      BY <1>13 DEF Taken
    <3>2. c \in Ids /\ P(c) = P(m) /\ L(c) \subseteq L(m)
      BY <2>2
    <3>3. a \in L(c)
      BY <2>4, <3>1, <3>2 DEF NamesOK
    <3> QED
      BY <3>2, <3>3
  <2>5. ASSUME NEW a \in ready', NEW b \in ready', P(a) = P(b)
        PROVE  a \in L(b) \/ b \in L(a)
    <3>1. CASE a \in ready /\ b \in ready
      BY <2>5, <3>1 DEF ReadyOK
    <3>2. CASE a = m /\ b = m
      BY <1>5, <3>2
    <3>3. CASE a = m /\ b \in ready
      <4>1. P(b) = P(m)
        BY <2>5, <3>3
      <4> QED
        BY <2>4, <3>3, <4>1
    <3>4. CASE b = m /\ a \in ready
      <4>1. P(a) = P(m)
        BY <2>5, <3>4
      <4> QED
        BY <2>4, <3>4, <4>1
    <3> QED
      BY <1>13, <3>1, <3>2, <3>3, <3>4
  <2> HIDE DEF P, L
  <2> QED
    BY <1>10, <2>3, <2>5
<1> QED
  BY <1>11, <1>12, <1>13, NamedStep

-----------------------------------------------------------------------------
(* Nothing is shown as sent that was not. *)

\* Every step of the queue that touches what it knows of the records.
LEMMA AcksStep ==
  ASSUME IInv, Typed, [PNext]_pvars
  PROVE  \/ UNCHANGED <<refs, acks>> /\ \A i \in Items : status'[i] = "sent" => status[i] = "sent"
         \/ \E s \in Senders : MarkResult(s)
         \/ \E j \in jobs, i \in Items : ApplyBridgeAck(i, j.id, j.ack)
         \/ \E b \in Ids, i \in Items : b \in retrying /\ RequeueBridgeResult(i, parent[b], Line(b), b)
<1> DEFINE Keeps == UNCHANGED <<refs, acks>> /\ \A i \in Items : status'[i] = "sent" => status[i] = "sent"
<1>0. status \in [Items -> QueueStatuses \cup {"absent", "removed"}]
  BY DEF IInv, TypeOK
<1>1. CASE QueueStep
  <2>1. ASSUME NEW i \in Items, OperatorStep(i) PROVE Keeps
    <3>1. UNCHANGED <<refs, acks>>
      BY <2>1 DEF OperatorStep, Enqueue, Approve, Reject, RetireObsolete, Review, Remove
    <3>2. \E to \in {"pending", "approved", "rejected", "failed", "removed"} : status' = [status EXCEPT ![i] = to]
      BY <2>1 DEF OperatorStep, Enqueue, Approve, Reject, RetireObsolete, Review, Remove
    <3> QED
      BY <1>0, <3>1, <3>2
  <2>2. ASSUME NEW s \in Senders, SenderStep(s) PROVE Keeps \/ MarkResult(s)
    <3>1. ASSUME NEW i \in Items, ClaimRetired(s, i) PROVE Keeps
      BY <1>0, <3>1 DEF ClaimRetired
    <3>2. ASSUME NEW i \in Items, ClaimGranted(s, i) PROVE Keeps
      BY <3>2 DEF ClaimGranted
    <3>3. Begin(s) \/ Execute(s) \/ Release(s) \/ QueueWriteFails(s) => Keeps
      BY DEF Begin, Execute, Release, QueueWriteFails, queueVars
    <3> QED
      BY <2>2, <3>1, <3>2, <3>3 DEF SenderStep
  <2> QED
    BY <1>1, <2>1, <2>2, QueueStepIs
<1>2. ASSUME NEW j \in jobs, SyncQueue(j)
      PROVE  Keeps \/ \E i \in Items : ApplyBridgeAck(i, j.id, j.ack)
  BY <1>2 DEF SyncQueue, QueueShows, Referencing, queueVars
<1>3. ASSUME NEW b \in Ids, MoveQueue(b)
      PROVE  b \in retrying /\ \E i \in Items : RequeueBridgeResult(i, parent[b], Line(b), b)
  BY <1>3 DEF MoveQueue
<1>4. ASSUME \/ \E i \in Items : PublishTask(i) \/ PublishFails(i) \/ SecondSend(i) \/ Repair(i)
             \/ TellsTask
             \/ \E b \in Ids, to \in Outcomes : WorkerDecides(b, to)
             \/ Reconcile \/ TickEnds \/ UNCHANGED pvars
             \/ \E j \in jobs : SyncTask(j)
             \/ \E b \in Ids : Settles(b) \/ ReuseSuccessor(b) \/ CreateSuccessor(b)
             \/ \E b \in Ids : MoveTask(b) \/ MoveMissing(b) \/ MoveFails(b)
      PROVE  Keeps
  BY <1>4 DEF PublishTask, PublishFails, SecondSend, Repair, TellsTask, TellTask, WorkerDecides, Reconcile, TickEnds, SyncTask,
     Settles, OperatorSettles, ReuseSuccessor, CreateSuccessor, MoveTask, MoveMissing, MoveFails, pvars, vars, queueVars
<1> QED
  BY <1>1, <1>2, <1>3, <1>4, Steps

\* What was sent stays sent.
LEMMA SentStays ==
  ASSUME Typed, LineageOK, StagedOK, ReadyOK, [PNext]_pvars, NEW b \in Ids, outcome[b] = "sent"
  PROVE  outcome'[b] = "sent"
BY OutcomeStep

LEMMA SentNext ==
  ASSUME IInv, Typed, LineageOK, StagedOK, ReadyOK, SentOK, Typed', [PNext]_pvars
  PROVE  SentOK'
<1>1. jobs \subseteq JobRecords /\ jobs' \subseteq JobRecords
  BY JobStep DEF Typed, PTypeOK, JobRecords
<1>2. ASSUME NEW j \in jobs', j.ack = "sent" PROVE outcome'[j.id] = "sent"
  <2>1. CASE j \in jobs
    BY <1>1, <1>2, <2>1, SentStays DEF SentOK, JobRecords
  <2>2. CASE Begun(j)
    BY <1>2, <2>2 DEF Begun
  <2>3. ASSUME NEW o \in jobs, NEW at \in {"shown", "refused"}, j = [o EXCEPT !.at = at]
        PROVE  outcome'[j.id] = "sent"
    <3>1. o \in JobRecords /\ j.id = o.id /\ j.ack = o.ack /\ o.id \in Ids
      BY <1>1, <2>3 DEF JobRecords
    <3> QED
      BY <1>2, <3>1, SentStays DEF SentOK
  <2> QED
    BY <2>1, <2>2, <2>3, JobStep
<1>3. acks \in [Items -> [Ids -> {"none"} \cup ResultStatuses]]
  BY DEF IInv, TypeOK
<1>4. ASSUME NEW i \in Items, NEW b \in Ids, acks'[i][b] = "sent" PROVE outcome'[b] = "sent"
  <2>1. acks[i][b] = "sent" => outcome'[b] = "sent"
    BY SentStays DEF SentOK
  <2>2. ASSUME NEW s \in Senders, MarkResult(s) PROVE acks'[i][b] \in {acks[i][b], "none"}
    BY <1>3, <2>2 DEF MarkResult, StaysApproved
  <2>3. ASSUME NEW j \in jobs, NEW k \in Items, ApplyBridgeAck(k, j.id, j.ack), acks[i][b] # "sent"
        PROVE  outcome'[b] = "sent"
    <3>1. acks' = [acks EXCEPT ![k] = [acks[k] EXCEPT ![j.id] = QueueStatusOfAck(j.ack)]]
      BY <2>3 DEF ApplyBridgeAck, AckedAcks
    <3>2. acks'[i][b] = acks[i][b] \/ (b = j.id /\ acks'[i][b] = QueueStatusOfAck(j.ack))
      BY <1>3, <3>1
    <3>3. b = j.id /\ j.ack = "sent"
      BY <1>4, <2>3, <3>2 DEF QueueStatusOfAck
    <3> QED
      BY <3>3, SentStays DEF SentOK
  <2>4. ASSUME NEW c \in Ids, NEW k \in Items, RequeueBridgeResult(k, parent[c], Line(c), c)
        PROVE  acks'[i][b] \in {acks[i][b], "none"}
    BY <1>3, <2>4 DEF RequeueBridgeResult, RequeuedAcks
  <2>5. UNCHANGED <<refs, acks>> => acks'[i][b] = acks[i][b]
    OBVIOUS
  <2> QED
    BY <1>4, <2>1, <2>2, <2>3, <2>4, <2>5, AcksStep
<1> QED
  BY <1>2, <1>4 DEF SentOK

\* A reply is shown as sent when all its records were sent, and only then.
LEMMA NeverOverstatedNext ==
  ASSUME IInv, Typed, LineageOK, StagedOK, EarlyOK, ReadyOK, NeverOverstated, IInv', SentOK', [PNext]_pvars
  PROVE  NeverOverstated'
<1>0. /\ status \in [Items -> QueueStatuses \cup {"absent", "removed"}]
      /\ refs \in [Items -> SUBSET Ids] /\ refs' \in [Items -> SUBSET Ids]
      /\ acks' \in [Items -> [Ids -> {"none"} \cup ResultStatuses]]
  BY DEF IInv, TypeOK
<1> SUFFICES ASSUME NEW i \in Items, status'[i] = "sent", NEW b \in refs'[i]
             PROVE  outcome'[b] = "sent"
  BY DEF NeverOverstated
<1>1. b \in Ids
  BY <1>0
<1>2. CASE status[i] = "sent" /\ refs'[i] = refs[i]
  BY <1>1, <1>2, SentStays DEF NeverOverstated
<1>3. ASSUME NEW s \in Senders, MarkResult(s) PROVE outcome'[b] = "sent"
  <2>1. target[s] \in Items /\ status[target[s]] = "approved"
    BY <1>3 DEF MarkResult, StaysApproved, HoldsClaim, IInv, SenderOK
  <2>2. CASE i # target[s]
    <3>1. status[i] = "sent" /\ refs'[i] = refs[i]
      BY <1>0, <1>3, <2>2 DEF MarkResult, StaysApproved
    <3> QED
      BY <1>2, <3>1
  <2>3. CASE i = target[s]
    <3>1. result[s].status = "sent"
      BY <1>0, <1>3, <2>1, <2>3 DEF MarkResult, StaysApproved
    <3>2. result[s].ids = {}
      BY <3>1 DEF StagedOK, QueuedParts, Aggregate
    <3>3. refs'[i] = refs[i] /\ refs[i] = {}
      BY <1>0, <1>3, <2>1, <2>3, <3>2 DEF MarkResult, StaysApproved, EarlyOK
    <3> QED
      BY <3>3
  <2> QED
    BY <2>2, <2>3
<1>4. ASSUME NEW j \in jobs, NEW k \in Items, ApplyBridgeAck(k, j.id, j.ack)
      PROVE  outcome'[b] = "sent"
  <2>1. CASE i # k
    <3>1. status[i] = "sent" /\ refs'[i] = refs[i]
      BY <1>0, <1>4, <2>1 DEF ApplyBridgeAck
    <3> QED
      BY <1>2, <3>1
  <2>2. CASE i = k
    <3>1. /\ refs'[i] = AckedRefs(i, j.id)
          /\ AckedStatus(i, j.id, j.ack) = "sent"
      BY <1>0, <1>4, <2>2 DEF ApplyBridgeAck
    <3>2. acks'[i] = AckedAcks(i, j.id, j.ack)
      <4>1. acks \in [Items -> [Ids -> {"none"} \cup ResultStatuses]]
        BY DEF IInv, TypeOK
      <4> QED
        BY <1>4, <2>2, <4>1 DEF ApplyBridgeAck
    <3> DEFINE next == [acks EXCEPT ![i] = AckedAcks(i, j.id, j.ack)]
    <3>3. PartStatus(i, b, next) \in PartStatuses(i, AckedRefs(i, j.id), next)
      BY <3>1 DEF PartStatuses
    <3>4. next[i][b] = acks'[i][b]
      <4>1. acks' = next
        BY <1>4, <2>2 DEF ApplyBridgeAck
      <4> QED
        BY <4>1
    <3>5. PartStatus(i, b, next) \notin {"failed", "queued_to_bridge", "accepted"}
      BY <3>1, <3>3 DEF AckedStatus, Aggregate
    <3>6. acks'[i][b] = "sent"
      BY <1>0, <1>1, <3>4, <3>5 DEF PartStatus, ResultStatuses
    <3> QED
      BY <1>1, <3>6 DEF SentOK
  <2> QED
    BY <2>1, <2>2
<1>5. ASSUME NEW c \in Ids, NEW k \in Items, RequeueBridgeResult(k, parent[c], Line(c), c)
      PROVE  outcome'[b] = "sent"
  <2>1. i # k
    <3> SUFFICES ASSUME i = k PROVE FALSE
      OBVIOUS
    <3>1. /\ c \in refs'[i] /\ acks'[i][c] = "none"
      BY <1>0, <1>5 DEF RequeueBridgeResult, RequeuedRefs, RequeuedAcks, IInv, TypeOK
    <3>2. "queued_to_bridge" \in PartStatuses(i, refs'[i], acks')
      BY <3>1 DEF PartStatuses, PartStatus
    <3>3. status'[i] = Aggregate(PartStatuses(i, refs'[i], acks'), "queued_to_bridge")
      BY <1>0, <1>5 DEF RequeueBridgeResult
    <3> QED
      BY <3>2, <3>3 DEF Aggregate
  <2>2. status[i] = "sent" /\ refs'[i] = refs[i]
    BY <1>0, <1>5, <2>1 DEF RequeueBridgeResult
  <2> QED
    BY <1>2, <2>2
<1>6. UNCHANGED <<refs, acks>> /\ status[i] = "sent" => outcome'[b] = "sent"
  BY <1>2
<1> QED
  BY <1>3, <1>4, <1>5, <1>6, AcksStep

-----------------------------------------------------------------------------
(* The theorems of the composed system. *)

LEMMA PInvInit == PInit => PInv
<1> SUFFICES ASSUME PInit PROVE PInv
  OBVIOUS
<1>1. Init /\ IInv
  BY SafeInit DEF PInit
<1>2. NoTask(Ids) \in TaskRecords
  BY DEF NoTask, TaskRecords, NoExternal
<1>3. Typed
  <2>1. TypeOK
    BY <1>1 DEF IInv
  <2>2. ready = {} /\ held = {} /\ batch = {} /\ jobs = {} /\ retrying = {} /\ moving = {}
    BY DEF PInit
  <2>3. parent \in [Ids -> Ids \cup {NoRecord}]
    BY DEF PInit
  <2>4. outcome \in [Ids -> Outcomes \cup {"open"}] /\ marker \in [Ids -> Outcomes \cup {"none"}]
    BY DEF PInit
  <2>5. task \in [Items -> TaskRecords] /\ posting \in [Items -> Results \cup {NoResult}]
    BY <1>2 DEF PInit
  <2>6. spent \in [Kinds -> Nat]
    <3>1. PICK most \in Budgets :
            spent = [parts |-> 0, retries |-> 0, again |-> 0, faults |-> 0, removed |-> 0,
                     late |-> 0, overtaken |-> 0, settled |-> 0, owed |-> most.owed]
      BY DEF PInit
    <3>2. most.owed \in Nat
      BY BudgetAssumption
    <3> QED
      BY <3>1, <3>2 DEF Kinds
  <2>7. \A i \in Items : task[i].st \in ActiveTask \cup EndedTask \cup {"absent"}
    BY <2>5 DEF TaskRecords
  <2>8. tick \in {"start", "deliver"}
    BY DEF PInit
  <2>9. telling = {} /\ byHand = {} /\ \A i \in Items : posting[i] = NoResult
    BY DEF PInit
  <2>10. PTypeOK
    BY <2>1, <2>2, <2>3, <2>4, <2>7, <2>8, <2>9 DEF PTypeOK
  <2> QED
    BY <2>5, <2>6, <2>9, <2>10 DEF Typed
<1>4. /\ \A i \in Items : posting[i].ids = {}
      /\ \A s \in Senders : result[s].ids = {}
  BY <1>1 DEF Init, PInit, NoResult, Result
<1>5. \A i \in Items, b \in Ids : ~Refers(task[i], b)
  <2> TAKE i \in Items, b \in Ids
  <2>1. b # NoExternal
    BY MaxIdsAssumption DEF Ids, NoExternal
  <2> QED
    BY <2>1 DEF PInit, NoTask, Refers, Acked, External
<1>6. LineageOK
  BY MaxIdsAssumption DEF PInit, LineageOK, NoRecord, Ids
<1>7. StagedOK
  BY <1>4 DEF PInit, StagedOK, Untouched, QueuedParts, NoRecord
<1>8. EarlyOK
  BY <1>1 DEF Init, PInit, EarlyOK
<1>9. NamesOK /\ ReadyOK
  BY <1>5 DEF PInit, NamesOK, ReadyOK, Delivered
<1>10. SentOK /\ NeverOverstated
  BY <1>1 DEF Init, PInit, SentOK, NeverOverstated
<1> QED
  BY <1>1, <1>3, <1>6, <1>7, <1>8, <1>9, <1>10 DEF PInv

LEMMA PInvNext == PInv /\ [PNext]_pvars => PInv'
<1> SUFFICES ASSUME PInv, [PNext]_pvars PROVE PInv'
  OBVIOUS
<1> USE DEF PInv
<1>1. IInv' /\ Typed'
  BY TypedNext
<1>2. LineageOK' /\ StagedOK' /\ EarlyOK'
  BY LineageNext, StagedNext, EarlyNext
<1>3. NamesOK' /\ ReadyOK' /\ SentOK'
  BY <1>1, <1>2, NamesNext, ReadyNext, SentNext
<1>4. NeverOverstated'
  BY <1>1, <1>3, NeverOverstatedNext
<1> QED
  BY <1>1, <1>2, <1>3, <1>4

\* The inductive invariant of queue, bridge records and tasks together.
THEOREM PipelineInvariance == PSpec => []PInv
BY PInvInit, PInvNext, PTL DEF PSpec

\* Queue, records, projections, retries and tasks keep their types together.
THEOREM PipelineTypes == PSpec => []PTypeOK
<1>1. PInv => PTypeOK
  BY DEF PInv, Typed
<1> QED
  BY <1>1, PipelineInvariance, PTL

\* A part that was delivered is not delivered again, however often it is retried,
\* whichever projections fail and whatever is compacted: of the activated records
\* of a part one is in the chain of the other, and what another record retries
\* has failed.
THEOREM DeliversOnce == PSpec => []DeliveredOnce
<1>1. ASSUME PInv PROVE DeliveredOnce
  <2> USE DEF PInv
  <2>1. /\ MaxIds \in Nat /\ Ids = 1 .. MaxIds /\ parent \in [1 .. MaxIds -> 0 .. MaxIds]
        /\ \A r \in 1 .. MaxIds : parent[r] < r
    BY <1>1, ParentsAre
  <2>2. \A b \in 1 .. nextId : b \in Ids
    BY <1>1, RecordIs
  <2>3. ASSUME NEW a \in Ids, NEW b \in Ids, a \in LineIn(parent, b), Delivered(a)
        PROVE  a = b
    <3>1. Chained(parent, b)
      BY <2>1, AllChained
    <3>2. a = b \/ \E x \in DOMAIN parent : parent[x] = a
      BY <2>3, <3>1 DEF Chained
    <3>3. ASSUME NEW x \in DOMAIN parent, parent[x] = a PROVE FALSE
      <4>1. x \in Ids /\ parent[x] # NoRecord
        BY <2>1, <3>3 DEF NoRecord
      <4>2. outcome[a] = "failed"
        BY <1>1, <3>3, <4>1 DEF LineageOK
      <4> QED
        BY <2>3, <4>2 DEF Delivered
    <3> QED
      BY <3>2, <3>3
  <2>4. ASSUME NEW a \in 1 .. nextId, NEW b \in 1 .. nextId, Delivered(a), Delivered(b), Part(a) = Part(b)
        PROVE  a = b
    <3>1. a \in Ids /\ b \in Ids
      BY <2>2
    <3>2. a \in ready /\ b \in ready
      BY <1>1, <2>4, <3>1 DEF ReadyOK
    <3>3. PartIn(parent, a) = PartIn(parent, b)
      BY <1>1, <2>4, <3>1, LineIs
    <3>4. a \in LineIn(parent, b) \/ b \in LineIn(parent, a)
      BY <1>1, <3>2, <3>3 DEF ReadyOK
    <3> QED
      BY <2>3, <2>4, <3>1, <3>4
  <2> QED
    BY <2>4 DEF DeliveredOnce
<1> QED
  BY <1>1, PipelineInvariance, PTL

\* A reply is shown as sent only when every record it waits for was sent.
THEOREM NeverOverstates == PSpec => []NeverOverstated
<1>1. PInv => NeverOverstated
  BY DEF PInv
<1> QED
  BY <1>1, PipelineInvariance, PTL

\* What the queue promises on its own it still promises behind the bridge: no reply
\* has two driver calls with an effect.
THEOREM PipelineSendsOnce == PSpec => []AtMostOneSend
<1>1. PInv => AtMostOneSend
  BY DEF PInv, IInv
<1> QED
  BY <1>1, PipelineInvariance, PTL

-----------------------------------------------------------------------------
(* Without retries and late writes the queue ends with what happened to every *)
(* part.                                                                     *)

\* Nothing is retried, and nobody fails a reply that a list of the approved ones held
\* before it was sent.
Plain == spent.retries = 0 /\ spent.late = 0

\* Nothing retries anything.
PlainOK ==
  /\ retrying \cup moving = {}
  /\ \A b \in Ids : parent[b] = NoRecord
  /\ \A i \in Items : retryOf[i] = NoId

\* A record belongs to one reply.
OwnRefsOK ==
  /\ \A i, k \in Items : i # k => refs[i] \cap refs[k] = {}
  /\ \A i \in Items : \A b \in refs[i] : b <= nextId
  /\ \A i \in Items, s \in Senders : refs[i] \cap result[s].ids = {}
  /\ \A i, k \in Items : i # k => refs[i] \cap posting[k].ids = {}

\* A projection under way tells the last acknowledgement.
JobsOK ==
  \A j \in jobs :
    j.ack = outcome[j.id] /\ (j.ack = "accepted" => j.who = "worker" \/ j.id \in byHand)

\* A marker tells the last acknowledgement or the one before, and what was compacted
\* needs no other.
MarkedOK ==
  /\ \A b \in Ids : marker[b] \in {"none", outcome[b]} \/ (marker[b] = "accepted" /\ outcome[b] = "sent")
  /\ \A b \in 1 .. nextId : b \notin held => marker[b] = outcome[b] /\ outcome[b] \in {"sent", "failed"}

\* The queue summarises what reached it, and everything with a marker did.
ShownOK ==
  /\ \A i \in Items : status[i] # "removed" /\ refs[i] # {} =>
       status[i] = Aggregate(PartStatuses(i, refs[i], acks) \cup local[i], "failed")
  /\ \A i \in Items : \A b \in refs[i] : marker[b] = outcome[b] => acks[i][b] = outcome[b]
  /\ \A i \in Items : \A b \in refs[i], j \in jobs :
       j.id = b /\ j.at = "shown" => acks[i][b] = outcome[b]

PlainInv == Plain => PlainOK /\ OwnRefsOK /\ JobsOK /\ MarkedOK /\ ShownOK

LEMMA SpendsNot ==
  ASSUME Typed, NEW kind \in Kinds, Spend(kind, 1)
  PROVE  spent'[kind] # 0
<1>1. spent \in [Kinds -> Nat] /\ spent' = [spent EXCEPT ![kind] = @ + 1]
  BY DEF Typed, Spend
<1>2. spent'[kind] = spent[kind] + 1 /\ spent[kind] \in Nat
  BY <1>1
<1> QED
  BY <1>2

\* What the operator does to a reply then, and has the task told.
Operates(i) ==
  \/ Remove(i) /\ Owes(i, "cancel")
  \/ Enqueue(i) /\ Owes(i, "wait")
  \/ Approve(i) /\ Owes(i, "resume")
  \/ Reject(i) /\ Owes(i, "cancel")
  \/ RetireObsolete(i) /\ status[i] = "approved" /\ Owes(i, "cancel")

LEMMA PlainOperator ==
  ASSUME Typed, Plain', OperatorTells
  PROVE  \E i \in Items : Operates(i)
<1>1. ~Spend("late", 1)
  BY SpendsNot DEF Plain, Kinds
<1> QED
  BY <1>1 DEF OperatorTells, Operates

LEMMA PlainSteps ==
  ASSUME Typed, PlainOK, Plain', [PNext]_pvars
  PROVE  \/ UNCHANGED pvars
         \/ QueueStep
         \/ \E i \in Items : PublishTask(i) \/ PublishFails(i) \/ SecondSend(i) \/ Repair(i)
         \/ TellsTask
         \/ \E b \in Ids, to \in Outcomes : WorkerDecides(b, to)
         \/ Reconcile \/ TickEnds
         \/ \E j \in jobs : SyncQueue(j) \/ SyncTask(j)
         \/ \E b \in Ids : Settles(b)
<1>1. ASSUME Spend("retries", 1) PROVE FALSE
  BY <1>1, SpendsNot DEF Plain, Kinds
<1>2. ASSUME NEW b \in Ids, ReuseSuccessor(b) \/ CreateSuccessor(b) PROVE FALSE
  BY <1>1, <1>2 DEF ReuseSuccessor, CreateSuccessor, CanRetry
<1>3. ASSUME NEW b \in Ids, MoveQueue(b) \/ MoveTask(b) \/ MoveMissing(b) \/ MoveFails(b) PROVE FALSE
  BY <1>3 DEF MoveQueue, MoveTask, MoveMissing, MoveFails, QueueLacks, PlainOK
<1> QED
  BY <1>2, <1>3, Steps

LEMMA PlainNext ==
  ASSUME IInv, Typed, PlainOK, Plain', [PNext]_pvars
  PROVE  PlainOK'
<1>1. retrying' = retrying /\ moving' = moving /\ parent' = parent
  <2>1. ASSUME \/ UNCHANGED pvars \/ QueueStep
               \/ \E i \in Items : PublishTask(i) \/ PublishFails(i) \/ SecondSend(i) \/ Repair(i)
               \/ TellsTask
               \/ \E b \in Ids, to \in Outcomes : WorkerDecides(b, to)
               \/ Reconcile \/ TickEnds
               \/ \E j \in jobs : SyncQueue(j) \/ SyncTask(j)
               \/ \E b \in Ids : Settles(b)
        PROVE  retrying' = retrying /\ moving' = moving /\ parent' = parent
    BY <2>1 DEF pvars, QueueStep, PublishTask, PublishFails, SecondSend, Repair, TellsTask, TellTask, WorkerDecides, Reconcile,
       TickEnds, SyncQueue, SyncTask, Settles, OperatorSettles, recordVars, retryVars
  <2> QED
    BY <2>1, PlainSteps
<1>2. retryOf' = retryOf
  <2>1. ASSUME NEW i \in Items, OperatorStep(i) PROVE retryOf' = retryOf
    BY <2>1 DEF OperatorStep, Enqueue, Approve, Reject, RetireObsolete, Review, Remove
  <2>2. ASSUME NEW s \in Senders, SenderStep(s) PROVE retryOf' = retryOf
    BY <2>2 DEF SenderStep, ClaimGranted, ClaimRetired, Begin, Execute, Release, MarkResult, StaysApproved, QueueWriteFails, queueVars
  <2>3. ASSUME NEW j \in jobs, SyncQueue(j) PROVE retryOf' = retryOf
    BY <2>3 DEF SyncQueue, QueueShows, ApplyBridgeAck, queueVars
  <2>4. ASSUME \/ UNCHANGED pvars
               \/ \E i \in Items : PublishTask(i) \/ PublishFails(i) \/ SecondSend(i) \/ Repair(i)
               \/ TellsTask
               \/ \E b \in Ids, to \in Outcomes : WorkerDecides(b, to)
               \/ Reconcile \/ TickEnds
               \/ \E j \in jobs : SyncTask(j)
               \/ \E b \in Ids : Settles(b)
        PROVE  retryOf' = retryOf
    BY <2>4 DEF pvars, vars, queueVars, PublishTask, PublishFails, SecondSend, Repair, TellsTask, TellTask, WorkerDecides, Reconcile,
       TickEnds, SyncTask, Settles, OperatorSettles
  <2> QED
    BY <2>1, <2>2, <2>3, <2>4, PlainSteps, QueueStepIs
<1> QED
  BY <1>1, <1>2 DEF PlainOK

\* What a record tells the reply that waits for it.
Receives(k, b) ==
  /\ b \in refs[k]
  /\ UNCHANGED <<refs, local, outcome, marker, held, nextId, result, posting>>
  /\ acks' = [acks EXCEPT ![k] = [acks[k] EXCEPT ![b] = outcome[b]]]
  /\ \A i \in Items : i # k => status'[i] = status[i]
  /\ status'[k] = Aggregate(PartStatuses(k, refs[k], acks') \cup local[k], "failed")

LEMMA ReceivesIs ==
  ASSUME IInv, Typed, PlainOK, JobsOK, NEW j \in jobs, SyncQueue(j), NEW k \in Items,
         ApplyBridgeAck(k, j.id, j.ack)
  PROVE  Receives(k, j.id)
<1>1. j.id \in Ids /\ j.ack \in Outcomes
  BY DEF Typed, PTypeOK
<1>2. /\ status \in [Items -> QueueStatuses \cup {"absent", "removed"}]
      /\ refs \in [Items -> SUBSET Ids]
      /\ acks \in [Items -> [Ids -> {"none"} \cup ResultStatuses]]
  BY DEF IInv, TypeOK
<1>3. j.id # NoId
  BY <1>1, MaxIdsAssumption DEF Ids, NoId
<1>4. j.id \in refs[k]
  BY <1>3 DEF ApplyBridgeAck, References, PlainOK
<1>5. AckedRefs(k, j.id) = refs[k]
  BY <1>4 DEF AckedRefs
<1>6. QueueStatusOfAck(j.ack) = outcome[j.id]
  BY <1>1 DEF QueueStatusOfAck, JobsOK, Outcomes
<1>7. refs' = refs /\ local' = local
  BY <1>2, <1>5 DEF ApplyBridgeAck
<1>8. acks' = [acks EXCEPT ![k] = [acks[k] EXCEPT ![j.id] = outcome[j.id]]]
  BY <1>6 DEF ApplyBridgeAck, AckedAcks
<1>9. acks' = [acks EXCEPT ![k] = AckedAcks(k, j.id, j.ack)]
  BY DEF ApplyBridgeAck
<1>10. AckedStatus(k, j.id, j.ack) = Aggregate(PartStatuses(k, refs[k], acks') \cup local[k], "failed")
  BY <1>5, <1>9 DEF AckedStatus
<1>11. status' = [status EXCEPT ![k] = AckedStatus(k, j.id, j.ack)]
  BY DEF ApplyBridgeAck
<1>12. UNCHANGED <<outcome, marker, held, nextId, result, posting>>
  BY DEF SyncQueue, senderVars, recordVars, workerVars, taskVars
<1> QED
  BY <1>2, <1>4, <1>7, <1>8, <1>10, <1>11, <1>12 DEF Receives

\* What becomes of the queue in a step.
KeepsParts == UNCHANGED <<refs, acks>>
KeepsQueue ==
  /\ KeepsParts
  /\ \A i \in Items : refs[i] = {} \/ (status'[i] \in {status[i], "removed"} /\ local'[i] = local[i])

\* A result without records says how the reply ended.
MarksPlain(s) ==
  /\ target[s] \in Items /\ status[target[s]] = "approved"
  /\ UNCHANGED <<refs, acks, posting>>
  /\ \A i \in Items : i # target[s] => status'[i] = status[i] /\ local'[i] = local[i]
  /\ refs[target[s]] = {}

LEMMA MarkedPlain ==
  ASSUME IInv, Typed, EarlyOK, NEW s \in Senders, MarkResult(s), SenderEnds(target[s], result[s]),
         result[s].ids = {}
  PROVE  MarksPlain(s)
<1>0. /\ status \in [Items -> QueueStatuses \cup {"absent", "removed"}]
      /\ refs \in [Items -> SUBSET Ids] /\ local \in [Items -> SUBSET {"failed"}]
      /\ acks \in [Items -> [Ids -> {"none"} \cup ResultStatuses]]
  BY DEF IInv, TypeOK
<1>1. target[s] \in Items /\ status[target[s]] = "approved"
  BY DEF MarkResult, StaysApproved, HoldsClaim, IInv, SenderOK
<1>2. refs[target[s]] = {}
  BY <1>1 DEF EarlyOK
<1>3. UNCHANGED <<refs, acks, posting>>
  BY <1>0, <1>1 DEF MarkResult, SenderEnds, Owes
<1>4. /\ status' = [status EXCEPT ![target[s]] = result[s].status]
      /\ local' = [local EXCEPT ![target[s]] = result[s].local]
  BY DEF MarkResult
<1>5. \A i \in Items : i # target[s] => status'[i] = status[i] /\ local'[i] = local[i]
  BY <1>0, <1>1, <1>4
<1> QED
  BY <1>1, <1>2, <1>3, <1>5 DEF MarksPlain

LEMMA QueueMoves ==
  ASSUME IInv, Typed, EarlyOK, PlainOK, JobsOK, Plain', [PNext]_pvars
  PROVE  \/ KeepsQueue
         \/ QueueStep /\ \E s \in Senders : HandsOn(s)
         \/ \E j \in jobs, k \in Items : SyncQueue(j) /\ Receives(k, j.id)
<1>0. status \in [Items -> QueueStatuses \cup {"absent", "removed"}]
  BY DEF IInv, TypeOK
<1>1. CASE QueueStep
  <2>1. ASSUME OperatorTells PROVE KeepsQueue
    <3>0. PICK i \in Items : Operates(i)
      BY <2>1, PlainOperator
    <3>1. KeepsParts /\ local' = local
      BY <3>0 DEF Operates, Enqueue, Approve, Reject, RetireObsolete, Review, Remove, KeepsParts
    <3>2. PICK to \in {"pending", "approved", "rejected", "failed", "removed"} :
             /\ status' = [status EXCEPT ![i] = to]
             /\ to = "removed" \/ status[i] \in {"absent", "pending", "approved", "rejected"}
      BY <3>0 DEF Operates, Enqueue, Approve, Reject, RetireObsolete, Review, Remove,
         ValidTransition, AllowedTransitions, ResultStatuses
    <3> QED
      BY <1>0, <3>1, <3>2 DEF KeepsQueue, EarlyOK
  <2>2. ASSUME NEW s \in Senders, MarkResult(s), SenderEnds(target[s], result[s])
        PROVE  HandsOn(s) \/ KeepsQueue
    <3>1. CASE result[s].ids # {}
      BY <1>1, <2>2, <3>1 DEF HandsOn, MarkResult, SenderDone, SenderEnds, QueueStep
    <3>2. CASE result[s].ids = {}
      BY <2>2, <3>2, MarkedPlain DEF KeepsQueue, KeepsParts, MarksPlain
    <3> QED
      BY <3>1, <3>2
  <2>3. ASSUME NEW s \in Senders,
               \/ Begin(s) \/ Execute(s) \/ Release(s) \/ QueueWriteFails(s)
               \/ \E i \in Items : ClaimGranted(s, i)
        PROVE  KeepsQueue
    <3>1. UNCHANGED <<status, refs, acks, local>>
      BY <2>3 DEF Begin, Execute, Release, StaysApproved, QueueWriteFails, ClaimGranted, queueVars
    <3> QED
      BY <3>1 DEF KeepsParts, KeepsQueue
  <2> QED
    BY <1>1, <2>1, <2>2, <2>3 DEF QueueStep, SenderTells
<1>2. ASSUME NEW j \in jobs, SyncQueue(j)
      PROVE  KeepsQueue \/ \E k \in Items : Receives(k, j.id)
  <2>1. (\E i \in Items : ApplyBridgeAck(i, j.id, j.ack)) \/ UNCHANGED queueVars
    BY <1>2 DEF SyncQueue, QueueShows, Referencing
  <2>2. UNCHANGED queueVars => KeepsQueue
    BY DEF queueVars, KeepsParts, KeepsQueue
  <2> QED
    BY <1>2, <2>1, <2>2, ReceivesIs
<1>3. ASSUME \/ UNCHANGED pvars
             \/ \E i \in Items : PublishTask(i) \/ PublishFails(i) \/ SecondSend(i) \/ Repair(i)
             \/ TellsTask
             \/ \E b \in Ids, to \in Outcomes : WorkerDecides(b, to)
             \/ Reconcile \/ TickEnds
             \/ \E j \in jobs : SyncTask(j)
             \/ \E b \in Ids : Settles(b)
      PROVE  KeepsQueue
  <2>1. UNCHANGED <<status, refs, acks, local>>
    BY <1>3 DEF pvars, vars, queueVars, PublishTask, PublishFails, SecondSend, Repair, TellsTask, TellTask, WorkerDecides, Reconcile,
       TickEnds, SyncTask, Settles, OperatorSettles
  <2> QED
    BY <2>1 DEF KeepsParts, KeepsQueue
<1> QED
  BY <1>1, <1>2, <1>3, PlainSteps

LEMMA HandedOn ==
  ASSUME IInv, Typed, NEW s \in Senders, HandsOn(s)
  PROVE  /\ target[s] \in Items /\ status[target[s]] = "approved"
         /\ result[s].ids \in SUBSET Ids
         /\ nextId' = nextId
         /\ status' = [status EXCEPT ![target[s]] = result[s].status]
         /\ refs' = [refs EXCEPT ![target[s]] = IF result[s].ids = {} THEN @ ELSE result[s].ids]
         /\ acks' = [acks EXCEPT ![target[s]] = IF result[s].ids = {} THEN @ ELSE [b \in Ids |-> "none"]]
         /\ local' = [local EXCEPT ![target[s]] = result[s].local]
<1>1. target[s] \in Items /\ status[target[s]] = "approved"
  BY DEF HandsOn, MarkResult, StaysApproved, HoldsClaim, IInv, SenderOK
<1>2. result[s].ids \in SUBSET Ids
  BY ResultIs DEF IInv, TypeOK
<1> QED
  BY <1>1, <1>2 DEF HandsOn, MarkResult, SenderDone

LEMMA OwnRefsNext ==
  ASSUME IInv, Typed, StagedOK, EarlyOK, PlainOK, OwnRefsOK, JobsOK, Plain', [PNext]_pvars
  PROVE  OwnRefsOK'
<1>0. /\ refs \in [Items -> SUBSET Ids] /\ result \in [Senders -> Results \cup {NoResult}]
      /\ posting \in [Items -> Results \cup {NoResult}]
  BY DEF IInv, TypeOK, Typed
<1>1. nextId \in Nat /\ nextId' \in Nat /\ nextId' >= nextId /\ \A b \in Ids : b \in Nat
  BY GrowsStep DEF Ids
<1>2. NoResult.ids = {}
  BY DEF NoResult, Result
<1>3. ASSUME NEW s \in Senders, HandsOn(s) PROVE OwnRefsOK'
  <2> DEFINE t == target[s]
  <2>1. /\ t \in Items /\ result[s].ids \in SUBSET Ids /\ nextId' = nextId
        /\ refs' = [refs EXCEPT ![t] = IF result[s].ids = {} THEN @ ELSE result[s].ids]
    BY <1>3, HandedOn
  <2>2. /\ result' = [result EXCEPT ![s] = NoResult]
        /\ posting' = [posting EXCEPT ![t] = result[s]]
    BY <1>3 DEF HandsOn
  <2> HIDE DEF t
  <2>3. refs'[t] \in {refs[t], result[s].ids} /\ \A i \in Items : i # t => refs'[i] = refs[i]
    BY <1>0, <2>1
  <2>4. \A r \in Senders : result'[r].ids = IF r = s THEN {} ELSE result[r].ids
    BY <1>0, <1>2, <2>2
  <2>5. \A k \in Items : posting'[k].ids = IF k = t THEN result[s].ids ELSE posting[k].ids
    BY <1>0, <2>1, <2>2
  <2>6. \A i, k \in Items : i # k => refs'[i] \cap refs'[k] = {}
    BY <2>1, <2>3 DEF OwnRefsOK
  <2>7. \A i \in Items : \A b \in refs'[i] : b <= nextId'
    BY <2>1, <2>3 DEF OwnRefsOK, StagedOK
  <2>8. \A i \in Items, r \in Senders : refs'[i] \cap result'[r].ids = {}
    BY <2>1, <2>3, <2>4 DEF OwnRefsOK, StagedOK
  <2>9. \A i, k \in Items : i # k => refs'[i] \cap posting'[k].ids = {}
    BY <2>1, <2>3, <2>5 DEF OwnRefsOK, StagedOK
  <2> QED
    BY <2>6, <2>7, <2>8, <2>9 DEF OwnRefsOK
<1>4. ASSUME refs' = refs, ~\E s \in Senders : HandsOn(s) PROVE OwnRefsOK'
  <2>1. \A i, k \in Items : i # k => refs'[i] \cap refs'[k] = {}
    BY <1>4 DEF OwnRefsOK
  <2>2. \A i \in Items : \A b \in refs'[i] : b <= nextId'
    <3> TAKE i \in Items
    <3> TAKE b \in refs'[i]
    <3>1. b \in Ids /\ b <= nextId
      BY <1>0, <1>4 DEF OwnRefsOK
    <3> QED
      BY <1>1, <3>1
  <2>3. \A i \in Items, r \in Senders : refs'[i] \cap result'[r].ids = {}
    <3> TAKE i \in Items, r \in Senders
    <3>1. result'[r].ids \in {result[r].ids, {}} \/ result'[r].ids = (nextId + 1) .. nextId'
      BY <1>2, <1>4, HoldStep DEF Stages, LetsGo
    <3>2. \A b \in refs[i] : b \in Ids /\ b <= nextId
      BY <1>0 DEF OwnRefsOK
    <3>3. \A b \in refs[i] : b \notin (nextId + 1) .. nextId'
      BY <1>1, <3>2
    <3> QED
      BY <1>4, <3>1, <3>3 DEF OwnRefsOK
  <2>4. \A i, k \in Items : i # k => refs'[i] \cap posting'[k].ids = {}
    <3>1. \A k \in Items : posting'[k].ids \in {posting[k].ids, {}}
      BY <1>2, <1>4, HoldStep DEF Stages, LetsGo
    <3> QED
      BY <1>4, <3>1 DEF OwnRefsOK
  <2> QED
    BY <2>1, <2>2, <2>3, <2>4 DEF OwnRefsOK
<1>5. ASSUME KeepsQueue \/ \E k \in Items, b \in Ids : Receives(k, b) PROVE refs' = refs
  BY <1>5 DEF KeepsQueue, KeepsParts, Receives
<1>6. \A j \in jobs : j.id \in Ids
  BY DEF Typed, PTypeOK
<1> QED
  BY <1>3, <1>4, <1>5, <1>6, QueueMoves

\* A projection that starts is the worker's, or of a record that needs no other.
LEMMA JobWho ==
  ASSUME Typed, PlainOK, Plain', [PNext]_pvars, NEW j \in jobs', j.ack = "accepted", j.who # "worker"
  PROVE  \/ \E o \in jobs : o.id = j.id /\ o.ack = "accepted" /\ o.who # "worker"
         \/ j.id \in byHand'
<1>0. jobs \subseteq JobRecords
  BY DEF Typed, PTypeOK, JobRecords
<1>1. ASSUME \/ UNCHANGED pvars \/ QueueStep
             \/ \E i \in Items : PublishTask(i) \/ SecondSend(i) \/ Repair(i)
             \/ TellsTask
             \/ TickEnds
             \/ \E o \in jobs : SyncTask(o)
      PROVE  j \in jobs
  BY <1>1 DEF pvars, QueueStep, PublishTask, SecondSend, Repair, TellsTask, TellTask, TickEnds, SyncTask
<1>2. ASSUME NEW i \in Items, PublishFails(i) PROVE j \in jobs
  BY <1>2 DEF PublishFails, Job
<1>3. ASSUME NEW b \in Ids, NEW to \in Outcomes, WorkerDecides(b, to) PROVE j \in jobs
  BY <1>3 DEF WorkerDecides, Job
<1>4. ASSUME Reconcile PROVE j \in jobs
  BY <1>4 DEF Reconcile, Job
<1>5. ASSUME NEW b \in Ids, Settles(b) PROVE j \in jobs \/ j.id \in byHand'
  <2>1. PICK to \in Outcomes : jobs' = jobs \cup {Job("operator", b, to)} /\ byHand' = byHand \cup {b}
    BY <1>5 DEF Settles, OperatorSettles
  <2>2. Job("operator", b, to).id = b
    BY DEF Job
  <2> QED
    BY <2>1, <2>2
<1>6. ASSUME NEW o \in jobs, SyncQueue(o) PROVE j \in jobs \/ (o.id = j.id /\ o.ack = j.ack /\ o.who = j.who)
  <2>1. PICK at \in {"shown", "refused"} : jobs' = (jobs \ {o}) \cup {[o EXCEPT !.at = at]}
    BY <1>6 DEF SyncQueue
  <2>2. o \in JobRecords
    BY <1>0
  <2> QED
    BY <2>1, <2>2 DEF JobRecords
<1> QED
  BY <1>1, <1>2, <1>3, <1>4, <1>5, <1>6, PlainSteps

\* What was settled by hand is not taken back.
LEMMA HandStep ==
  ASSUME Typed, [PNext]_pvars
  PROVE  byHand \subseteq byHand'
<1>1. ASSUME \/ UNCHANGED pvars \/ QueueStep
             \/ \E i \in Items : PublishTask(i) \/ PublishFails(i) \/ SecondSend(i) \/ Repair(i)
             \/ TellsTask
             \/ \E b \in Ids, to \in Outcomes : WorkerDecides(b, to)
             \/ Reconcile \/ TickEnds
             \/ \E j \in jobs : SyncQueue(j) \/ SyncTask(j)
             \/ \E b \in Ids : ReuseSuccessor(b) \/ CreateSuccessor(b)
             \/ \E b \in Ids : MoveQueue(b) \/ MoveTask(b) \/ MoveMissing(b) \/ MoveFails(b)
      PROVE  byHand' = byHand
  BY <1>1 DEF pvars, QueueStep, PublishTask, PublishFails, SecondSend, Repair, TellsTask, TellTask, WorkerDecides, Reconcile,
     TickEnds, SyncQueue, SyncTask, ReuseSuccessor, CreateSuccessor, MoveQueue, MoveTask, MoveMissing,
     MoveFails, recordVars
<1>2. ASSUME NEW b \in Ids, Settles(b) PROVE byHand' = byHand \cup {b}
  BY <1>2 DEF Settles, OperatorSettles
<1> QED
  BY <1>1, <1>2, Steps

\* While a record is projected its acknowledgement does not change.
LEMMA OutcomeHeld ==
  ASSUME Typed, LineageOK, StagedOK, ReadyOK, JobsOK, [PNext]_pvars, NEW j \in jobs
  PROVE  outcome'[j.id] = outcome[j.id]
<1>1. j.id \in Ids /\ j.ack \in Outcomes
  BY DEF Typed, PTypeOK
<1>2. outcome[j.id] # "open"
  BY <1>1 DEF JobsOK, Outcomes
<1>3. outcome[j.id] = "accepted" => WorkerBusy \/ j.id \in byHand
  BY DEF JobsOK, WorkerBusy
<1> QED
  BY <1>1, <1>2, <1>3, OutcomeStep

LEMMA JobsNext ==
  ASSUME Typed, LineageOK, StagedOK, ReadyOK, PlainOK, JobsOK, Plain', [PNext]_pvars
  PROVE  JobsOK'
<1>0. jobs \subseteq JobRecords
  BY DEF Typed, PTypeOK, JobRecords
<1>1. ASSUME NEW j \in jobs' PROVE j.ack = outcome'[j.id]
  <2>1. CASE j \in jobs
    BY <2>1, OutcomeHeld DEF JobsOK
  <2>2. CASE Begun(j)
    BY <2>2 DEF Begun
  <2>3. ASSUME NEW o \in jobs, NEW at \in {"shown", "refused"}, j = [o EXCEPT !.at = at]
        PROVE  j.ack = outcome'[j.id]
    <3>1. j.id = o.id /\ j.ack = o.ack
      BY <1>0, <2>3 DEF JobRecords
    <3> QED
      BY <3>1, OutcomeHeld DEF JobsOK
  <2> QED
    BY <2>1, <2>2, <2>3, JobStep
<1>2. ASSUME NEW j \in jobs', j.ack = "accepted" PROVE j.who = "worker" \/ j.id \in byHand'
  BY <1>2, JobWho, HandStep DEF JobsOK
<1> QED
  BY <1>1, <1>2 DEF JobsOK

LEMMA MarkerStep ==
  ASSUME Typed, [PNext]_pvars
  PROVE  \/ marker' = marker
         \/ \E j \in jobs : /\ SyncTask(j) /\ j.at = "shown" /\ outcome' = outcome
                            /\ marker' = [marker EXCEPT ![j.id] = j.ack]
<1>1. ASSUME \/ UNCHANGED pvars \/ QueueStep
             \/ \E i \in Items : PublishTask(i) \/ PublishFails(i) \/ SecondSend(i) \/ Repair(i)
             \/ TellsTask
             \/ \E b \in Ids, to \in Outcomes : WorkerDecides(b, to)
             \/ Reconcile \/ TickEnds
             \/ \E j \in jobs : SyncQueue(j)
             \/ \E b \in Ids : Settles(b) \/ ReuseSuccessor(b) \/ CreateSuccessor(b)
             \/ \E b \in Ids : MoveQueue(b) \/ MoveTask(b) \/ MoveMissing(b) \/ MoveFails(b)
      PROVE  marker' = marker
  BY <1>1 DEF pvars, QueueStep, PublishTask, PublishFails, SecondSend, Repair, TellsTask, TellTask, WorkerDecides, Reconcile,
     TickEnds, SyncQueue, Settles, OperatorSettles, ReuseSuccessor, CreateSuccessor, MoveQueue, MoveTask, MoveMissing,
     MoveFails, workerVars
<1>2. ASSUME NEW j \in jobs, SyncTask(j)
      PROVE  \/ marker' = marker
             \/ j.at = "shown" /\ outcome' = outcome /\ marker' = [marker EXCEPT ![j.id] = j.ack]
  BY <1>2 DEF SyncTask, Mark, recordVars
<1> QED
  BY <1>1, <1>2, Steps

LEMMA HeldStep ==
  ASSUME Typed, PlainOK, Plain', [PNext]_pvars, NEW b \in 1 .. nextId', b \notin held'
  PROVE  b \in 1 .. nextId /\ (b \notin held \/ b \in Resolved)
<1>1. nextId \in Nat /\ nextId' \in Nat
  BY GrowsStep
<1>2. CASE QueueStep
  BY <1>1, <1>2 DEF QueueStep
<1>3. CASE TickEnds
  <2>1. nextId' = nextId /\ held' \in {held, Kept}
    BY <1>3 DEF TickEnds, vars
  <2> QED
    BY <2>1 DEF Kept
<1>4. ASSUME \/ UNCHANGED pvars
             \/ \E i \in Items : PublishTask(i) \/ PublishFails(i) \/ SecondSend(i) \/ Repair(i)
             \/ TellsTask
             \/ \E c \in Ids, to \in Outcomes : WorkerDecides(c, to)
             \/ Reconcile
             \/ \E j \in jobs : SyncQueue(j) \/ SyncTask(j)
             \/ \E c \in Ids : Settles(c)
      PROVE  held' = held /\ nextId' = nextId
  BY <1>4 DEF pvars, vars, PublishTask, PublishFails, SecondSend, Repair, TellsTask, TellTask, WorkerDecides, Reconcile,
     SyncQueue, SyncTask, Settles, OperatorSettles, recordVars
<1> QED
  BY <1>2, <1>3, <1>4, PlainSteps

LEMMA MarkedNext ==
  ASSUME Typed, LineageOK, StagedOK, ReadyOK, PlainOK, JobsOK, MarkedOK, Plain', Typed', [PNext]_pvars
  PROVE  MarkedOK'
<1>0. /\ marker \in [Ids -> Outcomes \cup {"none"}] /\ outcome \in [Ids -> Outcomes \cup {"open"}]
      /\ \A j \in jobs : j.id \in Ids
  BY DEF Typed, PTypeOK
<1>1. ASSUME NEW b \in Ids
      PROVE  marker'[b] \in {"none", outcome'[b]} \/ (marker'[b] = "accepted" /\ outcome'[b] = "sent")
  <2>1. CASE marker' = marker
    <3>1. outcome[b] = "open" => marker[b] = "none"
      BY <1>0 DEF MarkedOK, Outcomes
    <3>2. \/ outcome'[b] = outcome[b] \/ outcome[b] = "open"
          \/ outcome[b] = "accepted" /\ outcome'[b] = "sent"
      BY OutcomeStep
    <3> QED
      BY <2>1, <3>1, <3>2 DEF MarkedOK
  <2>2. ASSUME NEW j \in jobs, outcome' = outcome, marker' = [marker EXCEPT ![j.id] = j.ack]
        PROVE  marker'[b] \in {"none", outcome'[b]} \/ (marker'[b] = "accepted" /\ outcome'[b] = "sent")
    <3>1. marker'[b] = marker[b] \/ (b = j.id /\ marker'[b] = outcome[b])
      BY <1>0, <2>2 DEF JobsOK
    <3> QED
      BY <2>2, <3>1 DEF MarkedOK
  <2> QED
    BY <2>1, <2>2, MarkerStep
<1>2. ASSUME NEW b \in 1 .. nextId', b \notin held'
      PROVE  marker'[b] = outcome'[b] /\ outcome'[b] \in {"sent", "failed"}
  <2>1. b \in 1 .. nextId /\ (b \notin held \/ b \in Resolved)
    BY <1>2, HeldStep
  <2>2. b \in Ids /\ marker[b] = outcome[b] /\ outcome[b] \in {"sent", "failed"}
    BY <2>1, RecordIs DEF MarkedOK, Resolved
  <2>3. outcome'[b] = outcome[b]
    BY <2>2, OutcomeStep
  <2>4. marker'[b] = marker[b]
    <3>1. ASSUME NEW j \in jobs, marker' = [marker EXCEPT ![j.id] = j.ack] PROVE marker'[b] = marker[b]
      BY <1>0, <2>2, <3>1 DEF JobsOK
    <3> QED
      BY <3>1, MarkerStep
  <2> QED
    BY <2>2, <2>3, <2>4
<1> QED
  BY <1>1, <1>2 DEF MarkedOK

\* A reply that shows what its parts tell keeps it when they tell the same again.
LEMMA SameTold ==
  ASSUME IInv, Typed, NeverOverstated, PlainOK, JobsOK, ShownOK,
         NEW i \in Items, NEW j \in jobs, Present(i), j.id \in refs[i]
  PROVE  ~PreservedSent(i, j.id, j.ack)
<1> SUFFICES ASSUME status[i] = "sent" PROVE AckedStatus(i, j.id, j.ack) = "sent"
  BY DEF PreservedSent
<1>0. j.id \in Ids /\ refs \in [Items -> SUBSET Ids] /\ acks \in [Items -> [Ids -> {"none"} \cup ResultStatuses]]
  BY DEF Typed, PTypeOK, IInv, TypeOK
<1> DEFINE next == [acks EXCEPT ![i] = AckedAcks(i, j.id, j.ack)]
<1>1. j.ack = "sent"
  BY DEF NeverOverstated, JobsOK
<1>2. Aggregate(PartStatuses(i, refs[i], acks) \cup local[i], "failed") = "sent"
  BY DEF ShownOK, Present
<1>3. local[i] = {}
  <2>1. local[i] \subseteq {"failed"}
    BY DEF IInv, TypeOK
  <2>2. "failed" \notin local[i]
    BY <1>2 DEF Aggregate
  <2> QED
    BY <2>1, <2>2
<1>4. \A b \in refs[i] : PartStatus(i, b, acks) \notin {"failed", "queued_to_bridge", "accepted"}
  BY <1>2 DEF Aggregate, PartStatuses
<1>5. \A b \in refs[i] : acks[i][b] = "sent"
  BY <1>0, <1>4 DEF PartStatus, ResultStatuses
<1>6. \A b \in refs[i] : next[i][b] = "sent"
  BY <1>0, <1>1, <1>5 DEF AckedAcks, QueueStatusOfAck
<1> HIDE DEF next
<1>7. AckedRefs(i, j.id) = refs[i]
  BY DEF AckedRefs
<1>8. PartStatuses(i, AckedRefs(i, j.id), next) = {"sent"}
  BY <1>6, <1>7 DEF PartStatuses, PartStatus
<1> QED
  BY <1>3, <1>8 DEF AckedStatus, Aggregate, next

LEMMA ShownNext ==
  ASSUME IInv, Typed, LineageOK, StagedOK, EarlyOK, ReadyOK, NeverOverstated,
         PlainOK, OwnRefsOK, JobsOK, MarkedOK, ShownOK, Plain', Typed', [PNext]_pvars
  PROVE  ShownOK'
<1>0. /\ status \in [Items -> QueueStatuses \cup {"absent", "removed"}]
      /\ refs \in [Items -> SUBSET Ids] /\ local \in [Items -> SUBSET {"failed"}]
      /\ acks \in [Items -> [Ids -> {"none"} \cup ResultStatuses]]
      /\ \A j \in jobs : j.id \in Ids /\ j.ack \in Outcomes
      /\ marker \in [Ids -> Outcomes \cup {"none"}] /\ outcome \in [Ids -> Outcomes \cup {"open"}]
  BY DEF IInv, TypeOK, Typed, PTypeOK
\* What a reply shows.
<1>1. ASSUME NEW i \in Items, status'[i] # "removed", refs'[i] # {}
      PROVE  status'[i] = Aggregate(PartStatuses(i, refs'[i], acks') \cup local'[i], "failed")
  <2>1. CASE KeepsQueue
    <3>1. status[i] # "removed" /\ refs[i] # {} /\ status'[i] = status[i]
      BY <1>0, <1>1, <2>1 DEF KeepsQueue, KeepsParts, ShownOK, IInv, TypeOK
    <3> QED
      BY <2>1, <3>1 DEF KeepsQueue, KeepsParts, ShownOK
  <2>2. ASSUME NEW s \in Senders, HandsOn(s)
        PROVE  status'[i] = Aggregate(PartStatuses(i, refs'[i], acks') \cup local'[i], "failed")
    <3> DEFINE t == target[s]
    <3>1. /\ t \in Items /\ status[t] = "approved" /\ result[s].ids \in SUBSET Ids
          /\ status' = [status EXCEPT ![t] = result[s].status]
          /\ refs' = [refs EXCEPT ![t] = IF result[s].ids = {} THEN @ ELSE result[s].ids]
          /\ acks' = [acks EXCEPT ![t] = IF result[s].ids = {} THEN @ ELSE [b \in Ids |-> "none"]]
          /\ local' = [local EXCEPT ![t] = result[s].local]
      BY <2>2, HandedOn
    <3>2. CASE i # t
      <4>1. status'[i] = status[i] /\ refs'[i] = refs[i] /\ acks'[i] = acks[i] /\ local'[i] = local[i]
        BY <1>0, <3>1, <3>2
      <4> QED
        BY <1>1, <4>1 DEF ShownOK, PartStatuses, PartStatus
    <3>3. CASE i = t
      <4>1. refs[i] = {}
        BY <3>1, <3>3 DEF EarlyOK
      <4>2. result[s].ids # {}
        BY <1>0, <1>1, <3>1, <3>3, <4>1
      <4>3. /\ refs'[i] = result[s].ids /\ local'[i] = result[s].local /\ status'[i] = result[s].status
            /\ \A b \in refs'[i] : acks'[i][b] = "none"
        BY <1>0, <3>1, <3>3, <4>2
      <4>4. PartStatuses(i, refs'[i], acks') = {"queued_to_bridge"}
        BY <1>1, <4>3 DEF PartStatuses, PartStatus
      <4>5. QueuedParts(result[s])
        BY DEF StagedOK
      <4> QED
        BY <4>2, <4>3, <4>4, <4>5 DEF QueuedParts
    <3> QED
      BY <3>2, <3>3
  <2>3. ASSUME NEW k \in Items, NEW b \in Ids, Receives(k, b)
        PROVE  status'[i] = Aggregate(PartStatuses(i, refs'[i], acks') \cup local'[i], "failed")
    <3>1. CASE i = k
      BY <2>3, <3>1 DEF Receives
    <3>2. CASE i # k
      <4>1. status'[i] = status[i] /\ refs'[i] = refs[i] /\ acks'[i] = acks[i] /\ local'[i] = local[i]
        BY <1>0, <2>3, <3>2 DEF Receives
      <4> QED
        BY <1>1, <4>1 DEF ShownOK, PartStatuses, PartStatus
    <3> QED
      BY <3>1, <3>2
  <2> QED
    BY <1>0, <2>1, <2>2, <2>3, QueueMoves
\* What was told once is not forgotten.
<1>2. ASSUME NEW i \in Items, NEW b \in refs'[i]
      PROVE  \/ b \in refs[i] /\ (acks[i][b] = outcome[b] /\ outcome'[b] = outcome[b] => acks'[i][b] = outcome'[b])
             \/ QueueStep /\ \E s \in Senders : HandsOn(s) /\ b \in result[s].ids
  <2>1. CASE KeepsQueue
    BY <2>1 DEF KeepsQueue, KeepsParts
  <2>2. ASSUME NEW s \in Senders, HandsOn(s), b \notin result[s].ids
        PROVE  b \in refs[i] /\ acks'[i][b] = acks[i][b]
    BY <1>0, <2>2, HandedOn DEF EarlyOK
  <2>3. ASSUME NEW k \in Items, NEW c \in Ids, Receives(k, c)
        PROVE  b \in refs[i] /\ (acks'[i][b] = acks[i][b] \/ acks'[i][b] = outcome'[b])
    BY <1>0, <2>3 DEF Receives
  <2> QED
    BY <1>0, <2>1, <2>2, <2>3, QueueMoves
<1>3. \A s \in Senders : \A b \in result[s].ids : b \in Ids /\ Untouched(b)
  BY ResultIs DEF StagedOK, IInv, TypeOK
<1>4. ASSUME NEW i \in Items, NEW b \in refs'[i], marker'[b] = outcome'[b]
      PROVE  acks'[i][b] = outcome'[b]
  <2>1. ASSUME NEW s \in Senders, QueueStep, HandsOn(s), b \in result[s].ids PROVE FALSE
    <3>1. marker[b] = "none" /\ outcome[b] = "open" /\ b \in Ids
      BY <1>3, <2>1 DEF Untouched
    <3>2. marker' = marker /\ outcome' = outcome
      BY <2>1 DEF QueueStep, workerVars, recordVars
    <3> QED
      BY <1>4, <3>1, <3>2
  <2>2. ASSUME b \in refs[i] PROVE acks[i][b] = outcome[b] /\ outcome'[b] = outcome[b]
    <3>1. b \in Ids
      BY <1>0, <2>2
    <3>2. CASE marker' = marker
      <4>1. marker[b] = outcome'[b] /\ outcome[b] # "open"
        BY <1>0, <1>4, <3>1, <3>2, ZenonT(40) DEF MarkedOK, Outcomes, Typed, PTypeOK
      <4>2. outcome'[b] = outcome[b]
        BY <3>1, <4>1, OutcomeStep DEF MarkedOK
      <4> QED
        BY <2>2, <4>1, <4>2 DEF ShownOK
    <3>3. ASSUME NEW j \in jobs, j.at = "shown", outcome' = outcome, marker' = [marker EXCEPT ![j.id] = j.ack]
          PROVE  acks[i][b] = outcome[b] /\ outcome'[b] = outcome[b]
      <4>1. CASE j.id = b
        BY <2>2, <3>3, <4>1 DEF ShownOK
      <4>2. CASE j.id # b
        BY <1>0, <1>4, <2>2, <3>1, <3>3, <4>2 DEF ShownOK
      <4> QED
        BY <3>3, <4>1, <4>2
    <3> QED
      BY <3>2, <3>3, MarkerStep
  <2> QED
    BY <1>2, <2>1, <2>2
<1>5. ASSUME NEW i \in Items, NEW b \in refs'[i], NEW j \in jobs', j.id = b, j.at = "shown"
      PROVE  acks'[i][b] = outcome'[b]
  <2>1. CASE j \in jobs
    <3>1. b \in refs[i] => acks[i][b] = outcome[b] /\ outcome'[b] = outcome[b]
      BY <1>5, <2>1, OutcomeHeld DEF ShownOK
    <3>2. \A s \in Senders : b \notin result[s].ids
      BY <1>3, <1>5, <2>1 DEF Untouched
    <3> QED
      BY <1>2, <3>1, <3>2
  <2>2. ASSUME NEW o \in jobs, NEW at \in {"shown", "refused"}, SyncQueue(o), j = [o EXCEPT !.at = at], j \notin jobs
        PROVE  acks'[i][b] = outcome'[b]
    <3>1. o \in JobRecords
      BY DEF Typed, PTypeOK, JobRecords
    <3>2. o.id = b /\ at = "shown"
      BY <1>5, <2>2, <3>1 DEF JobRecords
    <3>3. PICK to \in {"shown", "refused"} :
            /\ jobs' = (jobs \ {o}) \cup {[o EXCEPT !.at = to]}
            /\ to = "shown" => QueueShows(o)
      BY <2>2 DEF SyncQueue
    <3>4. to = "shown"
      <4>1. j = [o EXCEPT !.at = to]
        BY <2>2, <3>3
      <4>2. j.at = to
        BY <3>1, <4>1 DEF JobRecords
      <4> QED
        BY <1>5, <4>2
    <3>5. PICK k \in Referencing(b) : ApplyBridgeAck(k, o.id, o.ack) \/ PreservedSent(k, o.id, o.ack)
      BY <3>2, <3>3, <3>4 DEF QueueShows
    <3>6. k \in Items /\ Present(k) /\ b \in refs[k]
      <4>1. b # NoId
        BY <1>0, <3>2, MaxIdsAssumption DEF Ids, NoId
      <4> QED
        BY <4>1 DEF Referencing, References, PlainOK
    <3>7. Receives(k, b)
      BY <2>2, <3>2, <3>5, <3>6, SameTold, ReceivesIs
    <3>8. refs' = refs
      BY <3>7 DEF Receives
    <3>9. k = i
      BY <1>5, <3>6, <3>8 DEF OwnRefsOK
    <3> QED
      BY <1>0, <3>2, <3>7, <3>9 DEF Receives
  <2>3. ~Begun(j)
    BY <1>5 DEF Begun
  <2> QED
    BY <2>1, <2>2, <2>3, JobStep
<1> QED
  BY <1>1, <1>4, <1>5 DEF ShownOK

LEMMA SpentBefore ==
  ASSUME Typed, [PNext]_pvars, NEW kind \in Kinds, spent'[kind] = 0
  PROVE  spent[kind] = 0
<1>1. spent \in [Kinds -> Nat] /\ spent'[kind] >= spent[kind]
  BY SpentStep DEF Typed
<1>2. spent[kind] \in Nat
  BY <1>1
<1> QED
  BY <1>1, <1>2

LEMMA PlainBefore ==
  ASSUME Typed, [PNext]_pvars, Plain'
  PROVE  Plain
<1>1. "retries" \in Kinds /\ spent'["retries"] = 0
  BY DEF Kinds, Plain
<1>2. "late" \in Kinds /\ spent'["late"] = 0
  BY DEF Kinds, Plain
<1>3. spent["retries"] = 0
  BY <1>1, SpentBefore
<1>4. spent["late"] = 0
  BY <1>2, SpentBefore
<1> QED
  BY <1>3, <1>4 DEF Plain

LEMMA PlainInvNext == PInv /\ PlainInv /\ [PNext]_pvars => PlainInv'
<1> SUFFICES ASSUME PInv, PlainInv, [PNext]_pvars, Plain'
             PROVE  PlainOK' /\ OwnRefsOK' /\ JobsOK' /\ MarkedOK' /\ ShownOK'
  BY DEF PlainInv
<1> USE DEF PInv
<1>1. Plain
  BY PlainBefore
<1>2. PlainOK /\ OwnRefsOK /\ JobsOK /\ MarkedOK /\ ShownOK
  BY <1>1 DEF PlainInv
<1>3. IInv' /\ Typed'
  BY TypedNext
<1>4. PlainOK' /\ OwnRefsOK' /\ JobsOK'
  BY <1>2, PlainNext, OwnRefsNext, JobsNext
<1>5. MarkedOK' /\ ShownOK'
  BY <1>2, <1>3, MarkedNext, ShownNext
<1> QED
  BY <1>4, <1>5

LEMMA PlainInvInit == PInit => PlainInv
<1> SUFFICES ASSUME PInit PROVE PlainInv
  OBVIOUS
<1>1. /\ \A i \in Items : refs[i] = {} /\ retryOf[i] = NoId
      /\ nextId = 0
  BY DEF PInit, Init
<1> QED
  BY <1>1 DEF PInit, PlainInv, PlainOK, OwnRefsOK, JobsOK, MarkedOK, ShownOK

\* Without retries nothing is replaced, and the records of a reply stand for its parts.
LEMMA PlainLeaves ==
  ASSUME Typed, LineageOK, PlainOK
  PROVE  /\ \A b \in held : ~Replaced(b)
         /\ \A b \in Ids : Part(b) = b
<1>1. /\ MaxIds \in Nat /\ Ids = 1 .. MaxIds /\ parent \in [1 .. MaxIds -> 0 .. MaxIds]
      /\ \A r \in 1 .. MaxIds : parent[r] < r
  BY ParentsAre
<1>2. ASSUME NEW b \in Ids PROVE AncestorsIn(parent, b) = {}
  <2>1. parent[b] = NoRecord
    BY DEF PlainOK
  <2> QED
    BY <1>1, <2>1, AncestorsStep
<1>3. \A b \in held : b \in Ids
  BY RecordIs DEF Typed, PTypeOK
<1>4. \A b \in held : ~Replaced(b)
  BY <1>2, <1>3 DEF Replaced, Descendants, DescendantsIn
<1>5. ASSUME NEW b \in Ids PROVE Part(b) = b
  <2>1. {b} \cup Ancestors(b) = {b} /\ parent[b] = NoRecord
    BY <1>2 DEF Ancestors, PlainOK
  <2> QED
    BY <2>1 DEF Part
<1> QED
  BY <1>4, <1>5

\* With nothing open, under way or to reconcile, the queue was told everything.
LEMMA QuietTold ==
  ASSUME Typed, LineageOK, PlainOK, OwnRefsOK, MarkedOK, ShownOK, IInv, Quiet,
         NEW i \in Items, NEW b \in refs[i]
  PROVE  b \in Ids /\ b \in 1 .. nextId /\ outcome[b] \in Outcomes /\ marker[b] = outcome[b] /\ acks[i][b] = outcome[b]
<1>1. b \in Ids /\ b \in Nat /\ b >= 1 /\ nextId \in Nat
  BY DEF IInv, TypeOK, Ids
<1>2. b \in 1 .. nextId
  BY <1>1 DEF OwnRefsOK
<1>3. marker[b] = outcome[b]
  <2>1. CASE b \in held
    BY <2>1, PlainLeaves DEF Quiet, Unsynced
  <2>2. CASE b \notin held
    BY <1>2, <2>2 DEF MarkedOK
  <2> QED
    BY <2>1, <2>2
<1>4. outcome[b] # "open" /\ outcome[b] \in Outcomes
  BY <1>1, <1>3 DEF Typed, PTypeOK, Outcomes
<1> QED
  BY <1>1, <1>2, <1>3, <1>4 DEF ShownOK

\* While nothing was retried or failed late, a reply is the summary of what reached it, and what has
\* a marker has reached it (SyncQueue before SyncTask before the marker).
THEOREM PlainInvariance == PSpec => []PlainInv
<1>1. PInit => PInv /\ PlainInv
  BY PInvInit, PlainInvInit
<1>2. (PInv /\ PlainInv) /\ [PNext]_pvars => (PInv /\ PlainInv)'
  BY PInvNext, PlainInvNext
<1> QED
  BY <1>1, <1>2, PTL DEF PSpec

\* Unless the operator retried something or a repair failed what was sent since it was
\* listed (_repair_obsolete_sidebar_test_confirm_items), the queue ends with the summary of what
\* happened to the parts, whichever projections failed or were repeated and in
\* whatever order they came: what has a marker has reached the queue, what has none
\* is reconciled, and a reply is always the summary of what reached it.
THEOREM Converges == PSpec => []ConvergedUnlessRetried
<1>1. ASSUME PInv, PlainInv PROVE ConvergedUnlessRetried
  <2> SUFFICES ASSUME Plain, Quiet, NEW i \in Items, Present(i), refs[i] # {}
               PROVE  status[i] = Aggregate({ outcome[b] : b \in Leaves(i) } \cup local[i], "failed")
    BY DEF ConvergedUnlessRetried, Converged, Plain
  <2>0. PlainOK /\ OwnRefsOK /\ MarkedOK /\ ShownOK /\ Typed /\ LineageOK /\ IInv
    BY <1>1 DEF PInv, PlainInv
  <2>1. \A b \in refs[i] : b \in Ids /\ b \in 1 .. nextId /\ acks[i][b] = outcome[b] /\ outcome[b] \in Outcomes
    BY <2>0, QuietTold
  <2>2. \A b \in 1 .. nextId : b \in Ids /\ Part(b) = b /\ b \in Nat
    BY <2>0, RecordIs, PlainLeaves
  <2>3. { Part(r) : r \in refs[i] } = refs[i]
    BY <2>1, <2>2
  <2>4. Leaves(i) = refs[i]
    <3>1. ASSUME NEW b \in Leaves(i) PROVE b \in refs[i]
      BY <2>2, <2>3, <3>1 DEF Leaves
    <3>2. ASSUME NEW b \in refs[i] PROVE b \in Leaves(i)
      <4>1. b \in 1 .. nextId /\ Part(b) = b /\ b \in Nat
        BY <2>1, <2>2
      <4>2. \A c \in 1 .. nextId : Part(c) = Part(b) => c <= b
        BY <2>2, <4>1
      <4> QED
        BY <2>3, <4>1, <4>2 DEF Leaves
    <3> QED
      BY <3>1, <3>2
  <2>5. PartStatuses(i, refs[i], acks) = { outcome[b] : b \in refs[i] }
    <3>1. \A b \in refs[i] : PartStatus(i, b, acks) = outcome[b]
      BY <2>1 DEF PartStatus, Outcomes
    <3> QED
      BY <3>1 DEF PartStatuses
  <2> QED
    BY <2>0, <2>4, <2>5 DEF ShownOK, Present
<1> QED
  BY <1>1, PipelineInvariance, PlainInvariance, PTL

-----------------------------------------------------------------------------
(* While nobody asks again and no write is overtaken either, the task ends as *)
(* the queue.                                                                *)

\* A task that names no record, and one that shows the records of a reply.
Blank(t) ==
  t.refs = {} /\ Acked(t) = {} /\ t.local = {} /\ t.ext = NoExternal /\ t.said = {} /\ t.err = {} /\ ~t.summed

SumOf(t) == Aggregate({ PartOf(t, b) : b \in t.refs } \cup t.local, "failed")

Posts(t, ids, lost) == t.refs = ids /\ ids # {} /\ t.local = lost /\ t.st = TaskStatusOf(SumOf(t))

\* What the task was told is what happened, or what had happened before it arrived.
Told(t) ==
  \A b \in Ids : t.acks[b] # "none" => t.acks[b] = outcome[b] \/ (t.acks[b] = "accepted" /\ outcome[b] = "sent")

BlankOK(i) == Blank(task[i]) /\ \A b \in refs[i] : marker[b] = "none"
PostedOK(i) ==
  /\ posting[i] = NoResult /\ Posts(task[i], refs[i], local[i]) /\ Told(task[i])
  /\ \A b \in refs[i] : marker[b] = outcome[b] => task[i].acks[b] = outcome[b]

\* A reply whose sending ended without records, or that was removed.
Open == {"absent", "pending", "approved"}
Closed(i) ==
  \/ status[i] = "removed"
  \/ refs[i] = {} /\ posting[i] = NoResult /\ status[i] \notin Open

\* The writes that are still to be made: what ends a task ends that of such a reply.
Ends == {"cancel", "complete", "fail"}
TellOK == \A w \in telling : w.op # "block" /\ (w.op \in Ends => Closed(w.item))

TasksOK ==
  /\ TellOK
  /\ \A i \in Items, b \in Ids : Refers(task[i], b) => b \in refs[i]
  /\ \A i \in Items : posting[i] # NoResult => posting[i].ids = refs[i] /\ posting[i].local = local[i]
  /\ \A i \in Items : status[i] # "removed" => BlankOK(i) \/ PostedOK(i)

Undisturbed == Plain /\ spent.again = 0 /\ spent.overtaken = 0
TaskInv == Undisturbed => TasksOK

LEMMA BlankRepaired ==
  ASSUME NEW t \in TaskRecords, NEW k, Blank(t)
  PROVE  Repaired(t, k) = t
<1>1. RepairIds(t) = {}
  BY DEF Blank, RepairIds, External, Texts
<1> QED
  BY <1>1 DEF Repaired

LEMMA BlankCreated ==
  ASSUME NEW t \in TaskRecords, NEW k, Blank(t)
  PROVE  Blank(Created(t, k))
<1> DEFINE c == Created(t, k)
<1>1. c = [t EXCEPT !.st = IF @ = "absent" THEN "queued" ELSE @,
                    !.refs = {}, !.acks = NoneAcked(t), !.local = {}]
  BY BlankRepaired DEF Created
<1> HIDE DEF c
<1>2. /\ c.refs = {} /\ c.local = {} /\ c.acks = NoneAcked(t)
      /\ c.ext = t.ext /\ c.said = t.said /\ c.err = t.err /\ c.summed = t.summed
  BY <1>1 DEF TaskRecords
<1>3. Acked(c) = {}
  BY <1>2 DEF Acked, NoneAcked
<1> QED
  BY <1>2, <1>3 DEF Blank, c

LEMMA BlankTransitioned ==
  ASSUME NEW t \in TaskRecords, NEW k, NEW op, Blank(t)
  PROVE  Blank(Transitioned(t, k, op))
<1> DEFINE u == Transitioned(t, k, op)
<1>1. u = [t EXCEPT !.st = StatusAfter(op), !.said = {},
                    !.err = IF KeepsError(op) THEN @ ELSE {},
                    !.summed = @ /\ KeepsError(op) /\ t.err # {}]
  BY BlankRepaired DEF Transitioned
<1> HIDE DEF u
<1>2. u.refs = {} /\ u.local = {} /\ u.acks = t.acks /\ u.ext = t.ext /\ u.said = {} /\ u.err = {}
  BY <1>1 DEF TaskRecords, Blank
<1>3. ~u.summed
  BY <1>1 DEF TaskRecords, Blank
<1>4. Acked(u) = {}
  BY <1>2 DEF Acked, Blank
<1> QED
  BY <1>2, <1>3, <1>4 DEF Blank, u

\* The end of a send whose parts were staged.
LEMMA BlankFinished ==
  ASSUME NEW t \in TaskRecords, NEW k, NEW r \in Results, Blank(t), r.ids # {}, QueuedParts(r)
  PROVE  /\ Posts(Finished(t, k, r), r.ids, r.local)
         /\ \A b \in Ids : Finished(t, k, r).acks[b] = "none"
<1> DEFINE f == Finished(t, k, r)
           queued == r.status = "queued_to_bridge"
<1>1. Repaired(t, k) = t
  BY BlankRepaired
<1>2. f = [t EXCEPT !.st = IF queued THEN "queued" ELSE "failed",
             !.refs = r.ids, !.acks = NoneAcked(t), !.local = r.local,
             !.ext = Min(r.ids), !.said = r.ids,
             !.err = IF queued THEN @ ELSE r.ids, !.summed = @ /\ queued]
  BY <1>1 DEF Finished
<1> HIDE DEF f
<1>3. f.refs = r.ids /\ f.local = r.local /\ f.acks = NoneAcked(t) /\ f.st = IF queued THEN "queued" ELSE "failed"
  BY <1>2 DEF TaskRecords
<1>4. \A b \in Ids : f.acks[b] = "none"
  BY <1>3 DEF NoneAcked, TaskRecords
<1>5. Acked(f) = {}
  BY <1>3 DEF Acked, NoneAcked
<1>6. { PartOf(f, b) : b \in f.refs } = {"queued_to_bridge"}
  BY <1>3, <1>5 DEF PartOf
<1>7. SumOf(f) = r.status
  BY <1>3, <1>6 DEF SumOf, QueuedParts
<1>8. r.status \in {"queued_to_bridge", "failed"}
  BY DEF QueuedParts, Aggregate
<1>9. f.st = TaskStatusOf(SumOf(f))
  BY <1>3, <1>7, <1>8 DEF TaskStatusOf
<1> QED
  BY <1>3, <1>4, <1>9 DEF Posts, f

\* A repair shows the acknowledgements there are.
LEMMA PostsRepaired ==
  ASSUME NEW t \in TaskRecords, NEW k, KnownType(k), NEW ids \in SUBSET Ids, NEW lost, Posts(t, ids, lost),
         NamesOf(t) \subseteq ids
  PROVE  \/ Repaired(t, k) = t
         \/ /\ Posts(Repaired(t, k), ids, lost)
            /\ Repaired(t, k).acks = [b \in Ids |-> IF b \in ids THEN k[b] ELSE "none"]
            /\ \A b \in ids : b \in DOMAIN k /\ k[b] # "open"
<1> SUFFICES ASSUME Repaired(t, k) # t
             PROVE  /\ Posts(Repaired(t, k), ids, lost)
                    /\ Repaired(t, k).acks = [b \in Ids |-> IF b \in ids THEN k[b] ELSE "none"]
                    /\ \A b \in ids : b \in DOMAIN k /\ k[b] # "open"
  OBVIOUS
<1> DEFINE all == RepairIds(t)
           end == IF \E b \in all : k[b] = "failed" THEN "failed" ELSE "completed"
           u == Repaired(t, k)
<1>1. /\ t.st \in ActiveTask /\ \A b \in all : b \in DOMAIN k /\ k[b] # "open"
      /\ u = [t EXCEPT !.st = end, !.refs = all,
                       !.acks = [b \in DOMAIN t.acks |-> IF b \in all THEN k[b] ELSE "none"],
                       !.said = @ \cup all, !.err = IF end = "failed" THEN all ELSE {}, !.summed = TRUE]
  BY DEF Repaired
<1>2. all = ids
  <2>1. all \subseteq ids \cup {Misread}
    BY TextsAre
  <2>2. Misread \notin DOMAIN k
    BY MaxIdsAssumption DEF KnownType, Ids, Misread
  <2>3. ids \subseteq all
    BY DEF RepairIds, Posts
  <2> QED
    BY <1>1, <2>1, <2>2, <2>3
<1>3. t.local = {}
  <2>1. SumOf(t) = "queued_to_bridge"
    BY <1>1 DEF Posts, TaskStatusOf, ActiveTask
  <2>2. t.local \subseteq {"failed"}
    BY DEF TaskRecords
  <2> QED
    BY <2>1, <2>2 DEF SumOf, Aggregate
<1> HIDE DEF u, end, all
<1>4. /\ u.st = end /\ u.refs = ids /\ u.local = {}
      /\ u.acks = [b \in Ids |-> IF b \in ids THEN k[b] ELSE "none"]
  BY <1>1, <1>2, <1>3 DEF TaskRecords
<1>5. \A b \in ids : PartOf(u, b) = k[b] /\ k[b] \in Outcomes
  <2> TAKE b \in ids
  <2>1. k[b] \in Outcomes
    BY <1>1, <1>2 DEF KnownType
  <2>2. b \in DOMAIN u.acks /\ u.acks[b] = k[b] /\ k[b] # "none"
    BY <1>4, <2>1 DEF Outcomes
  <2> QED
    BY <2>1, <2>2 DEF PartOf, Acked
<1>6. SumOf(u) = Aggregate({ k[b] : b \in ids }, "failed")
  <2>1. { PartOf(u, b) : b \in u.refs } = { k[b] : b \in ids }
    BY <1>4, <1>5
  <2> QED
    BY <1>4, <2>1 DEF SumOf
<1>7. end = TaskStatusOf(SumOf(u))
  <2>1. \A b \in ids : k[b] \in {"sent", "accepted", "failed"}
    BY <1>5 DEF Outcomes
  <2>2. ids # {}
    BY DEF Posts
  <2>3. CASE \E b \in ids : k[b] = "failed"
    BY <1>2, <1>6, <2>3 DEF end, Aggregate, TaskStatusOf
  <2>4. CASE ~\E b \in ids : k[b] = "failed"
    <3>1. SumOf(u) \in {"sent", "accepted"}
      BY <1>6, <2>1, <2>2, <2>4 DEF Aggregate
    <3> QED
      BY <1>2, <2>4, <3>1 DEF end, TaskStatusOf
  <2> QED
    BY <2>3, <2>4
<1>8. lost = {} /\ ids # {}
  BY <1>3 DEF Posts
<1> QED
  BY <1>1, <1>2, <1>4, <1>7, <1>8 DEF Posts, u

\* A projection shows what happened, also when it comes late or twice: what it would
\* not overrule says the same.
LEMMA PostsProjected ==
  ASSUME NEW t \in TaskRecords, NEW ids \in SUBSET Ids, NEW lost, Posts(t, ids, lost), NEW b \in ids,
         NEW ack \in Outcomes,
         t.acks[b] # "none" => t.acks[b] = ack \/ (t.acks[b] = "accepted" /\ ack = "sent")
  PROVE  /\ Posts(Projected(t, b, ack), ids, lost)
         /\ Projected(t, b, ack).acks = [t.acks EXCEPT ![b] = ack]
<1> DEFINE next == [t EXCEPT !.refs = ids, !.acks[b] = ack]
           sum == SumOf(next)
           u == Projected(t, b, ack)
<1>1. TaskIds(t) \cup {b} = ids
  BY DEF Posts, TaskIds
<1>2. QueueStatusOfAck(ack) = ack
  BY DEF QueueStatusOfAck, Outcomes
<1>3. /\ next \in TaskRecords /\ next.refs = ids /\ next.local = t.local /\ next.st = t.st
      /\ next.acks = [t.acks EXCEPT ![b] = ack]
  BY DEF TaskRecords
<1>4. u = IF \/ t.st = "completed" /\ sum # "sent"
             \/ t.st \in EndedTask /\ sum = "queued_to_bridge"
          THEN [next EXCEPT !.err = IF t.st = "completed" THEN {} ELSE @]
          ELSE [next EXCEPT !.st = TaskStatusOf(sum), !.said = @ \cup (ids \ {Misread}),
                            !.err = IF sum = "failed" THEN ids \ {Misread} ELSE {}, !.summed = TRUE]
  <2>1. Aggregate({ PartOf(next, c) : c \in ids } \cup t.local, "failed") = sum
    BY <1>3 DEF SumOf
  <2> QED
    BY <1>1, <1>2, <2>1 DEF Projected
<1> HIDE DEF next, sum, u
<1>5. u.refs = ids /\ u.local = t.local /\ u.acks = next.acks /\ u.st \in {t.st, TaskStatusOf(sum)}
      /\ (u.st = TaskStatusOf(sum) \/ (t.st = "completed" /\ sum # "sent") \/ (t.st \in EndedTask /\ sum = "queued_to_bridge"))
  BY <1>3, <1>4 DEF TaskRecords
<1>6. SumOf(u) = sum
  BY <1>3, <1>5 DEF SumOf, PartOf, Acked, sum
<1>7. \A c \in ids : /\ PartOf(t, c) = IF t.acks[c] = "none" THEN "queued_to_bridge" ELSE t.acks[c]
                     /\ PartOf(next, c) = IF c = b THEN ack ELSE PartOf(t, c)
  <2> TAKE c \in ids
  <2>1. c \in Ids /\ b \in Ids /\ DOMAIN t.acks = Ids /\ ack # "none"
    BY DEF TaskRecords, Outcomes
  <2> QED
    BY <1>3, <2>1 DEF PartOf, Acked
<1>8. /\ SumOf(t) = Aggregate({ PartOf(t, c) : c \in ids } \cup t.local, "failed")
      /\ sum = Aggregate({ PartOf(next, c) : c \in ids } \cup t.local, "failed")
  BY <1>3 DEF Posts, SumOf, sum
<1>9. t.st = "completed" => sum \in {"sent", "accepted"}
  <2> SUFFICES ASSUME t.st = "completed" PROVE sum \in {"sent", "accepted"}
    OBVIOUS
  <2>1. SumOf(t) \in {"sent", "accepted"}
    BY DEF Posts, TaskStatusOf
  <2>2. "failed" \notin t.local /\ "queued_to_bridge" \notin t.local
    BY <1>8, <2>1 DEF Aggregate
  <2>3. \A c \in ids : PartOf(t, c) \notin {"failed", "queued_to_bridge"}
    BY <1>8, <2>1 DEF Aggregate
  <2>4. \A c \in ids : PartOf(next, c) \notin {"failed", "queued_to_bridge"}
    BY <1>7, <2>3 DEF Outcomes
  <2>5. "failed" \notin { PartOf(next, c) : c \in ids } \cup t.local
        /\ "queued_to_bridge" \notin { PartOf(next, c) : c \in ids } \cup t.local
        /\ { PartOf(next, c) : c \in ids } \cup t.local # {}
    BY <2>2, <2>4
  <2> QED
    BY <1>8, <2>5 DEF Aggregate
<1>10. t.st = "failed" => sum = "failed"
  <2> SUFFICES ASSUME t.st = "failed" PROVE sum = "failed"
    OBVIOUS
  <2>1. SumOf(t) = "failed"
    BY <1>8 DEF Posts, TaskStatusOf, Aggregate
  <2>2. "failed" \in { PartOf(t, c) : c \in ids } \cup t.local
    BY <1>8, <2>1 DEF Aggregate
  <2>3. CASE "failed" \in t.local
    BY <1>8, <2>3 DEF Aggregate
  <2>4. ASSUME NEW c \in ids, PartOf(t, c) = "failed" PROVE sum = "failed"
    <3>1. PartOf(next, c) = "failed"
      BY <1>7, <2>4
    <3> QED
      BY <1>8, <3>1 DEF Aggregate
  <2> QED
    BY <2>2, <2>3, <2>4
<1>11. t.st \in EndedTask => t.st \in {"completed", "failed"}
  BY DEF Posts, TaskStatusOf, EndedTask
<1>12. u.st = TaskStatusOf(sum)
  BY <1>5, <1>9, <1>10, <1>11 DEF TaskStatusOf
<1> QED
  BY <1>3, <1>5, <1>6, <1>12 DEF Posts, u


\* Nobody touches a removed reply.
LEMMA RemovedStays ==
  ASSUME IInv, Typed, EarlyOK, PlainOK, JobsOK, Plain', [PNext]_pvars,
         NEW i \in Items, status[i] = "removed"
  PROVE  status'[i] = "removed"
<1>0. status \in [Items -> QueueStatuses \cup {"absent", "removed"}]
  BY DEF IInv, TypeOK
<1>1. ASSUME NEW k \in Items, OperatorStep(k) PROVE status'[i] = "removed"
  <2>1. PICK to \in {"pending", "approved", "rejected", "failed", "removed"} :
          status' = [status EXCEPT ![k] = to] /\ (k = i => to = "removed")
    BY <1>1 DEF OperatorStep, Enqueue, Approve, Reject, RetireObsolete, Review, Remove, Present
  <2> QED
    BY <1>0, <2>1
<1>2. ASSUME NEW s \in Senders, SenderStep(s) PROVE status'[i] = "removed"
  <2>1. ASSUME NEW k \in Items, ClaimGranted(s, k) \/ ClaimRetired(s, k) PROVE status'[i] = "removed"
    BY <1>0, <2>1 DEF ClaimGranted, ClaimRetired, Start
  <2>2. ASSUME Begin(s) \/ Execute(s) \/ Release(s) \/ QueueWriteFails(s) PROVE status'[i] = "removed"
    BY <2>2 DEF Begin, Execute, Release, QueueWriteFails, queueVars
  <2>3. ASSUME MarkResult(s) PROVE status'[i] = "removed"
    <3>1. target[s] # i /\ status' = [status EXCEPT ![target[s]] = result[s].status]
      BY <2>3 DEF MarkResult, HoldsClaim
    <3> QED
      BY <1>0, <3>1
  <2> QED
    BY <1>2, <2>1, <2>2, <2>3 DEF SenderStep
<1>3. ASSUME NEW j \in jobs, SyncQueue(j) PROVE status'[i] = "removed"
  <2>1. (\E k \in Items : ApplyBridgeAck(k, j.id, j.ack)) \/ UNCHANGED queueVars
    BY <1>3 DEF SyncQueue, QueueShows, Referencing
  <2>2. ASSUME NEW k \in Items, ApplyBridgeAck(k, j.id, j.ack) PROVE status'[i] = "removed"
    <3>1. k # i /\ status' = [status EXCEPT ![k] = AckedStatus(k, j.id, j.ack)]
      BY <2>2 DEF ApplyBridgeAck, Present
    <3> QED
      BY <1>0, <3>1
  <2> QED
    BY <2>1, <2>2 DEF queueVars
<1>4. ASSUME \/ UNCHANGED pvars
             \/ \E k \in Items : PublishTask(k) \/ PublishFails(k) \/ SecondSend(k) \/ Repair(k)
             \/ TellsTask
             \/ \E b \in Ids, to \in Outcomes : WorkerDecides(b, to)
             \/ Reconcile \/ TickEnds
             \/ \E j \in jobs : SyncTask(j)
             \/ \E b \in Ids : Settles(b)
      PROVE  status' = status
  BY <1>4 DEF pvars, vars, queueVars, PublishTask, PublishFails, SecondSend, Repair, TellsTask, TellTask, WorkerDecides, Reconcile,
     TickEnds, SyncTask, Settles, OperatorSettles
<1> QED
  BY <1>1, <1>2, <1>3, <1>4, PlainSteps, QueueStepIs

\* No reply is opened again.
LEMMA OpenStep ==
  ASSUME IInv, Typed, PlainOK, JobsOK, Plain', [PNext]_pvars,
         NEW i \in Items, status[i] \notin Open
  PROVE  status'[i] \notin Open
<1>0. status \in [Items -> QueueStatuses \cup {"absent", "removed"}]
  BY DEF IInv, TypeOK
<1>1. ASSUME NEW k \in Items, OperatorStep(k) PROVE status'[i] \notin Open
  <2>1. PICK to \in {"pending", "approved", "rejected", "failed", "removed"} :
          status' = [status EXCEPT ![k] = to] /\ (k = i => to \notin Open)
    BY <1>1 DEF OperatorStep, Enqueue, Approve, Reject, RetireObsolete, Review, Remove, Open,
       ValidTransition, AllowedTransitions, ResultStatuses
  <2> QED
    BY <1>0, <2>1
<1>2. ASSUME NEW s \in Senders, SenderStep(s) PROVE status'[i] \notin Open
  <2>1. ASSUME NEW k \in Items, ClaimGranted(s, k) \/ ClaimRetired(s, k) PROVE status'[i] \notin Open
    BY <1>0, <2>1 DEF ClaimGranted, ClaimRetired, Start, Open
  <2>2. ASSUME Begin(s) \/ Execute(s) \/ Release(s) \/ QueueWriteFails(s) PROVE status'[i] \notin Open
    BY <2>2 DEF Begin, Execute, Release, QueueWriteFails, queueVars
  <2>3. ASSUME MarkResult(s) PROVE status'[i] \notin Open
    <3>1. status[target[s]] = "approved" /\ status' = [status EXCEPT ![target[s]] = result[s].status]
      BY <2>3 DEF MarkResult, HoldsClaim
    <3>2. target[s] # i
      BY <3>1 DEF Open
    <3> QED
      BY <1>0, <3>1, <3>2
  <2> QED
    BY <1>2, <2>1, <2>2, <2>3 DEF SenderStep
<1>3. ASSUME NEW j \in jobs, SyncQueue(j) PROVE status'[i] \notin Open
  <2>1. (\E k \in Items : ApplyBridgeAck(k, j.id, j.ack)) \/ UNCHANGED queueVars
    BY <1>3 DEF SyncQueue, QueueShows, Referencing
  <2>2. ASSUME NEW k \in Items, ApplyBridgeAck(k, j.id, j.ack) PROVE status'[i] \notin Open
    <3>1. status' = [status EXCEPT ![k] = AckedStatus(k, j.id, j.ack)]
      BY <2>2 DEF ApplyBridgeAck
    <3>2. AckedStatus(k, j.id, j.ack) \in ResultStatuses
      BY AggregateResult DEF AckedStatus, ResultStatuses
    <3> QED
      BY <1>0, <3>1, <3>2 DEF Open, ResultStatuses
  <2> QED
    BY <2>1, <2>2 DEF queueVars
<1>4. ASSUME \/ UNCHANGED pvars
             \/ \E k \in Items : PublishTask(k) \/ PublishFails(k) \/ SecondSend(k) \/ Repair(k)
             \/ TellsTask
             \/ \E b \in Ids, to \in Outcomes : WorkerDecides(b, to)
             \/ Reconcile \/ TickEnds
             \/ \E j \in jobs : SyncTask(j)
             \/ \E b \in Ids : Settles(b)
      PROVE  status' = status
  BY <1>4 DEF pvars, vars, queueVars, PublishTask, PublishFails, SecondSend, Repair, TellsTask, TellTask, WorkerDecides, Reconcile,
     TickEnds, SyncTask, Settles, OperatorSettles
<1> QED
  BY <1>1, <1>2, <1>3, <1>4, PlainSteps, QueueStepIs

\* A reply that ended without records gets none.
LEMMA ClosedStays ==
  ASSUME IInv, Typed, EarlyOK, PlainOK, JobsOK, Plain', [PNext]_pvars, NEW i \in Items, Closed(i)
  PROVE  Closed(i)'
<1>0. /\ refs \in [Items -> SUBSET Ids] /\ posting \in [Items -> Results \cup {NoResult}]
      /\ status \in [Items -> QueueStatuses \cup {"absent", "removed"}]
  BY DEF IInv, TypeOK, Typed
<1>1. CASE status[i] = "removed"
  BY <1>1, RemovedStays DEF Closed
<1>2. CASE status[i] # "removed"
  <2>0. refs[i] = {} /\ posting[i] = NoResult /\ status[i] \notin Open
    BY <1>2 DEF Closed
  <2>1. status'[i] \notin Open
    BY <2>0, OpenStep
  <2>2. ASSUME NEW s \in Senders, HandsOn(s) PROVE target[s] \in Items /\ target[s] # i
    BY <2>0, <2>2, HandedOn DEF Open
  <2>3. posting'[i] = NoResult
    BY <1>0, <2>0, <2>2, HoldStep DEF Stages, HandsOn, LetsGo
  <2>4. refs'[i] = {}
    <3>1. ASSUME NEW s \in Senders, HandsOn(s) PROVE refs'[i] = {}
      BY <1>0, <2>0, <2>2, <3>1, HandedOn
    <3>2. KeepsQueue => refs'[i] = {}
      BY <2>0 DEF KeepsQueue, KeepsParts
    <3>3. ASSUME NEW k \in Items, NEW b, Receives(k, b) PROVE refs'[i] = {}
      BY <2>0, <3>3 DEF Receives
    <3> QED
      BY <3>1, <3>2, <3>3, QueueMoves
  <2> QED
    BY <2>1, <2>3, <2>4 DEF Closed
<1> QED
  BY <1>1, <1>2

\* What a step of the queue has still to be told to a task.
LEMMA QueueTells ==
  ASSUME IInv, Typed, EarlyOK, Plain', QueueStep
  PROVE  \/ telling' = telling
         \/ \E i \in Items, op \in TaskOps \ {"block"} :
              telling' = telling \cup {FirstWrite(i, op)} /\ (op \in Ends => Closed(i)')
<1> DEFINE Goal == \/ telling' = telling
                   \/ \E i \in Items, op \in TaskOps \ {"block"} :
                        telling' = telling \cup {FirstWrite(i, op)} /\ (op \in Ends => Closed(i)')
<1>0. status \in [Items -> QueueStatuses \cup {"absent", "removed"}]
  BY DEF IInv, TypeOK
<1>1. ASSUME NEW i \in Items, NEW op \in TaskOps \ {"block"}, Owes(i, op), op \in Ends => Closed(i)' PROVE Goal
  BY <1>1 DEF Owes, FirstWrite
<1>2. ASSUME NEW i \in Items, Operates(i) PROVE Goal
  <2>1. ASSUME Remove(i), Owes(i, "cancel") PROVE Goal
    <3>1. Closed(i)'
      BY <1>0, <2>1 DEF Remove, Closed
    <3> QED
      BY <1>1, <2>1, <3>1 DEF TaskOps
  <2>2. ASSUME Owes(i, "cancel"), \E to \in {"rejected", "failed"} : Review(i, to),
               status[i] \in {"pending", "approved", "rejected"}
        PROVE  Goal
    <3>1. refs[i] = {} /\ posting[i] = NoResult
      BY <2>2 DEF EarlyOK
    <3>2. refs' = refs /\ posting' = posting /\ status'[i] \in {"rejected", "failed"}
      BY <1>0, <2>2 DEF Review, Owes
    <3>3. Closed(i)'
      BY <3>1, <3>2 DEF Closed, Open
    <3> QED
      BY <1>1, <2>2, <3>3 DEF TaskOps
  <2>3. Reject(i) => status[i] \in {"pending", "approved", "rejected"}
    BY DEF Reject, Review, ValidTransition, AllowedTransitions, ResultStatuses
  <2>4. ASSUME Owes(i, "wait") \/ Owes(i, "resume") PROVE Goal
    BY <1>1, <2>4 DEF TaskOps, Ends
  <2> QED
    BY <1>2, <2>1, <2>2, <2>3, <2>4 DEF Operates, Reject, RetireObsolete
<1>3. ASSUME NEW s \in Senders, MarkResult(s), SenderEnds(target[s], result[s]) PROVE Goal
  <2>1. CASE result[s].ids # {}
    BY <1>3, <2>1 DEF SenderEnds
  <2>2. CASE result[s].ids = {}
    <3>1. MarksPlain(s)
      BY <1>3, <2>2, MarkedPlain
    <3>2. PICK i \in Items : i = target[s]
      BY <3>1 DEF MarksPlain
    <3>3. status[i] = "approved" /\ refs' = refs /\ posting' = posting /\ refs[i] = {}
      BY <3>1, <3>2 DEF MarksPlain
    <3>4. posting[i] = NoResult
      BY <3>3 DEF EarlyOK
    <3>5. status'[i] = result[s].status
      BY <1>0, <1>3, <3>2 DEF MarkResult
    <3>6. result[s].status \in ResultStatuses
      BY <1>3, MarkedResult DEF IInv
    <3>7. Closed(i)'
      BY <3>3, <3>4, <3>5, <3>6 DEF Closed, Open, ResultStatuses
    <3>8. Owes(i, "complete") \/ Owes(i, "fail")
      BY <1>3, <2>2, <3>2 DEF SenderEnds
    <3> QED
      BY <1>1, <3>7, <3>8 DEF TaskOps
  <2> QED
    BY <2>1, <2>2
<1>4. ASSUME NEW s \in Senders, pc[s] # "idle", Owes(target[s], "start") \/ Owes(target[s], "release") PROVE Goal
  <2>1. target[s] \in Items
    BY <1>4 DEF IInv, SenderOK
  <2> QED
    BY <1>1, <1>4, <2>1 DEF TaskOps, Ends
<1>5. TellsNothing => Goal
  BY DEF TellsNothing, taskVars
<1> HIDE DEF Goal
<1>6. ASSUME NEW s \in Senders, Begin(s) \/ Release(s) PROVE pc[s] # "idle"
  BY <1>6 DEF Begin, Release
<1>7. Goal
  BY <1>2, <1>3, <1>4, <1>5, <1>6, PlainOperator DEF QueueStep, SenderTells
<1> QED
  BY <1>7 DEF Goal

LEMMA TellNext ==
  ASSUME IInv, Typed, EarlyOK, PlainOK, JobsOK, TellOK, Undisturbed', [PNext]_pvars
  PROVE  TellOK'
<1>1. Plain'
  BY DEF Undisturbed
<1>2. telling \subseteq TellingRecords
  BY DEF Typed, PTypeOK, TellingRecords
<1>3. ASSUME NEW v \in telling', NEW w \in telling, v.item = w.item, v.op = w.op
      PROVE  v.op # "block" /\ (v.op \in Ends => Closed(v.item)')
  <2>1. w.item \in Items
    BY <1>2 DEF TellingRecords
  <2>2. Closed(w.item) => Closed(w.item)'
    BY <1>1, <2>1, ClosedStays
  <2> QED
    BY <1>3, <2>2 DEF TellOK
<1>4. ASSUME NEW i \in Items, NEW op \in TaskOps, op # "block", op \in Ends => Closed(i)',
             telling' = telling \cup {FirstWrite(i, op)}
      PROVE  TellOK'
  <2>1. FirstWrite(i, op).item = i /\ FirstWrite(i, op).op = op
    BY DEF FirstWrite
  <2>2. ASSUME NEW v \in telling' PROVE v.op # "block" /\ (v.op \in Ends => Closed(v.item)')
    BY <1>3, <1>4, <2>1
  <2> QED
    BY <2>2 DEF TellOK
<1>5. CASE QueueStep
  <2>1. ASSUME telling' = telling PROVE TellOK'
    BY <1>3, <2>1 DEF TellOK
  <2> QED
    BY <1>1, <1>4, <1>5, <2>1, QueueTells
<1>6. ASSUME NEW i \in Items, SecondSend(i) PROVE FALSE
  BY <1>6, SpendsNot DEF SecondSend, Undisturbed, Kinds
<1>7. ASSUME \A v \in telling' : \E w \in telling : v.item = w.item /\ v.op = w.op PROVE TellOK'
  BY <1>3, <1>7 DEF TellOK
<1> QED
  BY <1>5, <1>6, <1>7, TellingStep

\* The parts of TasksOK about the names.
LEMMA TaskNamesNext ==
  ASSUME IInv, Typed, LineageOK, EarlyOK, PlainOK, JobsOK, TasksOK, Plain', [PNext]_pvars
  PROVE  /\ \A i \in Items, b \in Ids : Refers(task'[i], b) => b \in refs'[i]
         /\ \A i \in Items : posting'[i] # NoResult => posting'[i].ids = refs'[i] /\ posting'[i].local = local'[i]
<1>0. /\ refs \in [Items -> SUBSET Ids] /\ local \in [Items -> SUBSET {"failed"}]
      /\ posting \in [Items -> Results \cup {NoResult}]
  BY DEF IInv, TypeOK, Typed
<1>1. \A i \in Items : refs[i] \subseteq refs'[i]
  <2> TAKE i \in Items
  <2>1. ASSUME NEW s \in Senders, HandsOn(s) PROVE refs[i] \subseteq refs'[i]
    <3>1. refs[target[s]] = {} /\ target[s] \in Items
      BY <2>1, HandedOn DEF EarlyOK
    <3>2. i # target[s] => refs'[i] = refs[i]
      BY <1>0, <2>1, HandedOn
    <3> QED
      BY <3>1, <3>2
  <2> QED
    BY <2>1, QueueMoves DEF KeepsQueue, KeepsParts, Receives
<1>2. ASSUME NEW i \in Items, NEW b \in Ids, Refers(task'[i], b) PROVE b \in refs'[i]
  <2>1. CASE Fewer
    BY <1>1, <1>2, <2>1 DEF Fewer, NamesOf, TasksOK
  <2>2. ASSUME NEW k \in Items, Publishes(k) PROVE b \in refs[i]
    <3>1. posting[k].ids = refs[k]
      BY <2>2 DEF Publishes, PublishTask, PublishFails, TasksOK
    <3>2. CASE i = k
      BY <1>2, <2>2, <3>1, <3>2 DEF Publishes, NamesOf, TasksOK
    <3>3. CASE i # k
      BY <1>2, <2>2, <3>3 DEF Publishes, TasksOK
    <3> QED
      BY <3>2, <3>3
  <2>3. ASSUME NEW c \in Ids, Moves(c) PROVE FALSE
    BY <2>3 DEF Moves, MoveTask, MoveMissing, QueueLacks, PlainOK
  <2> QED
    BY <1>1, <2>1, <2>2, <2>3, TaskStep
<1>3. ASSUME NEW i \in Items, posting'[i] # NoResult
      PROVE  posting'[i].ids = refs'[i] /\ posting'[i].local = local'[i]
  <2>1. ASSUME NEW s \in Senders, HandsOn(s)
        PROVE  posting'[i].ids = refs'[i] /\ posting'[i].local = local'[i]
    <3> DEFINE t == target[s]
    <3>1. /\ t \in Items /\ refs[t] = {}
          /\ refs' = [refs EXCEPT ![t] = IF result[s].ids = {} THEN @ ELSE result[s].ids]
          /\ local' = [local EXCEPT ![t] = result[s].local]
      BY <2>1, HandedOn DEF EarlyOK
    <3>2. posting' = [posting EXCEPT ![t] = result[s]]
      BY <2>1 DEF HandsOn
    <3> HIDE DEF t
    <3>3. CASE i = t
      BY <1>0, <3>1, <3>2, <3>3
    <3>4. CASE i # t
      BY <1>0, <1>3, <3>1, <3>2, <3>4 DEF TasksOK
    <3> QED
      BY <3>3, <3>4
  <2>2. ASSUME refs' = refs, refs[i] = {} \/ local'[i] = local[i], ~\E s \in Senders : HandsOn(s)
        PROVE  posting'[i].ids = refs'[i] /\ posting'[i].local = local'[i]
    <3>1. posting'[i] = posting[i]
      BY <1>3, <2>2, HoldStep DEF Stages, LetsGo
    <3>2. posting[i].ids # {}
      BY <1>3, <3>1 DEF Typed
    <3> QED
      BY <1>3, <2>2, <3>1, <3>2 DEF TasksOK
  <2> QED
    BY <2>1, <2>2, QueueMoves DEF KeepsQueue, KeepsParts, Receives
<1> QED
  BY <1>2, <1>3

\* A task that a step leaves alone stays true to its reply, whatever is decided.
LEMMA TaskKept ==
  ASSUME Typed, LineageOK, StagedOK, ReadyOK, MarkedOK, IInv, Typed', [PNext]_pvars, NEW i \in Items,
         BlankOK(i) \/ PostedOK(i),
         task'[i] = task[i], refs'[i] = refs[i], local'[i] = local[i], posting'[i] \in {posting[i], NoResult},
         \A b \in refs[i] : marker'[b] = marker[b]
  PROVE  BlankOK(i)' \/ PostedOK(i)'
<1>1. CASE BlankOK(i)
  BY <1>1 DEF BlankOK, Blank
<1>2. CASE PostedOK(i)
  <2>0. /\ refs[i] \in SUBSET Ids
        /\ task[i] \in TaskRecords /\ outcome \in [Ids -> Outcomes \cup {"open"}]
        /\ marker \in [Ids -> Outcomes \cup {"none"}]
    BY DEF IInv, TypeOK, Typed, PTypeOK
  <2>1. \A b \in Ids : \/ outcome'[b] = outcome[b] \/ outcome[b] = "open"
                       \/ outcome[b] = "accepted" /\ outcome'[b] = "sent"
    BY OutcomeStep
  <2>2. \A b \in Ids : task[i].acks[b] \in {"none"} \cup Outcomes
    BY <2>0 DEF TaskRecords
  <2>3. ASSUME NEW b \in Ids, task[i].acks[b] # "none"
        PROVE  task[i].acks[b] = outcome'[b] \/ (task[i].acks[b] = "accepted" /\ outcome'[b] = "sent")
    <3>1. task[i].acks[b] = outcome[b] \/ (task[i].acks[b] = "accepted" /\ outcome[b] = "sent")
      BY <1>2, <2>3 DEF PostedOK, Told
    <3>2. outcome[b] # "open"
      BY <2>2, <2>3, <3>1 DEF Outcomes
    <3> QED
      BY <2>1, <3>1, <3>2
  <2>4. ASSUME NEW b \in refs[i], marker[b] = outcome'[b] PROVE task[i].acks[b] = outcome'[b]
    <3>1. b \in Ids /\ marker[b] # "open"
      BY <2>0 DEF Outcomes
    <3>2. outcome'[b] = outcome[b]
      <4>1. CASE outcome[b] = "open"
        <5>1. marker[b] = "none"
          BY <2>0, <3>1, <4>1 DEF MarkedOK
        <5>2. outcome'[b] # "none"
          BY <3>1 DEF Typed, PTypeOK, Outcomes
        <5> QED
          BY <2>4, <5>1, <5>2
      <4>2. CASE outcome[b] = "accepted" /\ outcome'[b] = "sent"
        BY <2>4, <3>1, <4>2 DEF MarkedOK
      <4> QED
        BY <2>1, <3>1, <4>1, <4>2
    <3> QED
      BY <1>2, <2>4, <3>2 DEF PostedOK
  <2>5. posting'[i] = NoResult /\ Posts(task'[i], refs'[i], local'[i])
    BY <1>2 DEF PostedOK
  <2>6. \A b \in refs'[i] : marker'[b] = outcome'[b] => task'[i].acks[b] = outcome'[b]
    BY <2>4
  <2> QED
    BY <2>3, <2>5, <2>6 DEF PostedOK, Told
<1> QED
  BY <1>1, <1>2


\* What a step of the queue does to the parts of a reply.
LEMMA QueueKeeps ==
  ASSUME IInv, Typed, EarlyOK, PlainOK, JobsOK, Plain', [PNext]_pvars, QueueStep
  PROVE  /\ task' = task /\ marker' = marker
         /\ \/ \E s \in Senders : HandsOn(s)
            \/ /\ refs' = refs /\ posting' = posting
               /\ \A i \in Items : refs[i] = {} \/ local'[i] = local[i]
<1>1. marker' = marker
  BY DEF QueueStep, workerVars
<1>2. task' = task
  BY DEF QueueStep, OperatorTells, SenderTells, SenderEnds, Owes, TellsNothing, taskVars
<1>3. posting' = posting \/ \E s \in Senders : HandsOn(s)
  BY DEF QueueStep, OperatorTells, SenderTells, SenderEnds, Owes, TellsNothing, taskVars,
     HandsOn, MarkResult, SenderDone
<1>4. ASSUME NEW j \in jobs, SyncQueue(j), NEW k \in Items, Receives(k, j.id)
      PROVE  refs' = refs /\ local' = local
  BY <1>4 DEF Receives
<1> QED
  BY <1>1, <1>2, <1>3, <1>4, QueueMoves DEF KeepsQueue, KeepsParts

LEMMA FineNext ==
  ASSUME IInv, Typed, LineageOK, StagedOK, EarlyOK, ReadyOK, PlainOK, OwnRefsOK, JobsOK, MarkedOK, TasksOK,
         Typed', Undisturbed', [PNext]_pvars,
         NEW i \in Items, status'[i] # "removed"
  PROVE  BlankOK(i)' \/ PostedOK(i)'
<1>0. /\ refs \in [Items -> SUBSET Ids] /\ local \in [Items -> SUBSET {"failed"}]
      /\ posting \in [Items -> Results \cup {NoResult}] /\ task \in [Items -> TaskRecords]
      /\ \A j \in jobs : j.id \in Ids /\ j.ack \in Outcomes
      /\ marker \in [Ids -> Outcomes \cup {"none"}] /\ outcome \in [Ids -> Outcomes \cup {"open"}]
      /\ outcome' \in [Ids -> Outcomes \cup {"open"}]
  BY DEF IInv, TypeOK, Typed, PTypeOK
<1>a. Plain'
  BY DEF Undisturbed
<1>1. BlankOK(i) \/ PostedOK(i)
  BY <1>a, RemovedStays DEF TasksOK
<1>2. ASSUME task'[i] = task[i], refs'[i] = refs[i], local'[i] = local[i], posting'[i] \in {posting[i], NoResult},
             \A b \in refs[i] : marker'[b] = marker[b]
      PROVE  BlankOK(i)' \/ PostedOK(i)'
  BY <1>1, <1>2, TaskKept
<1>3. refs[i] = {} => BlankOK(i)
  BY <1>1 DEF PostedOK, Posts
<1>4. KnownType(Known) /\ task[i] \in TaskRecords
  BY <1>0, KnownIs
<1>5. ASSUME NEW b \in Ids, BlankOK(i) PROVE ~Refers(task[i], b)
  <2>1. b # NoExternal
    BY MaxIdsAssumption DEF Ids, NoExternal
  <2> QED
    BY <1>5, <2>1 DEF BlankOK, Blank, Refers, External
<1>6. CASE QueueStep
  <2>1. marker' = marker /\ task' = task
    BY <1>a, <1>6, QueueKeeps
  <2>2. ASSUME NEW s \in Senders, HandsOn(s)
        PROVE  BlankOK(i)' \/ PostedOK(i)'
    <3> DEFINE t == target[s]
    <3>1. posting' = [posting EXCEPT ![t] = result[s]]
      BY <2>2 DEF HandsOn
    <3>2. /\ t \in Items /\ refs[t] = {} /\ result[s].ids \in SUBSET Ids
          /\ refs' = [refs EXCEPT ![t] = IF result[s].ids = {} THEN @ ELSE result[s].ids]
          /\ local' = [local EXCEPT ![t] = result[s].local]
      BY <2>2, HandedOn DEF EarlyOK
    <3> HIDE DEF t
    <3>3. CASE i # t
      <4>1. refs'[i] = refs[i] /\ local'[i] = local[i] /\ posting'[i] = posting[i]
        BY <1>0, <3>1, <3>2, <3>3
      <4> QED
        BY <1>2, <2>1, <4>1
    <3>4. CASE i = t
      <4>1. Blank(task[i])
        BY <1>3, <3>2, <3>4 DEF BlankOK
      <4>2. refs'[i] = result[s].ids
        BY <1>0, <3>2, <3>4
      <4>3. \A b \in result[s].ids : marker[b] = "none"
        BY DEF StagedOK, Untouched
      <4> QED
        BY <2>1, <4>1, <4>2, <4>3 DEF BlankOK, Blank
    <3> QED
      BY <3>3, <3>4
  <2>3. ASSUME refs' = refs, posting' = posting, refs[i] = {} \/ local'[i] = local[i]
        PROVE  BlankOK(i)' \/ PostedOK(i)'
    <3>1. CASE refs[i] = {}
      <4>1. Blank(task[i])
        BY <1>3, <3>1 DEF BlankOK
      <4> QED
        BY <2>1, <2>3, <3>1, <4>1 DEF BlankOK, Blank
    <3>2. CASE local'[i] = local[i]
      BY <1>2, <2>1, <2>3, <3>2
    <3> QED
      BY <2>3, <3>1, <3>2
  <2> QED
    BY <1>a, <1>6, <2>2, <2>3, QueueKeeps
<1>13. ASSUME NEW w \in telling, TellTask(w)
       PROVE  BlankOK(i)' \/ PostedOK(i)'
  <2>1. UNCHANGED <<refs, local, posting, marker, status>>
    BY <1>13 DEF TellTask, vars, queueVars, workerVars
  <2>2. w.item \in Items /\ w.op \in TaskOps
    BY DEF Typed, PTypeOK
  <2>3. CASE task'[i] = task[i]
    BY <1>2, <2>1, <2>3
  <2>4. CASE task'[i] # task[i]
    <3>1. /\ ~Overtaken(w)
          /\ \/ task' = [task EXCEPT ![w.item] = Created(@, Known)]
             \/ task' = [task EXCEPT ![w.item] = Transitioned(@, Known, w.op)]
      <4>1. ~Spend("overtaken", 1)
        BY SpendsNot DEF Undisturbed, Kinds
      <4> QED
        BY <1>13, <2>4, <4>1 DEF TellTask, CreateTask, TransitionTask
    <3>2. i = w.item
      BY <1>0, <2>2, <2>4, <3>1
    <3>3. Blank(task[i])
      <4> SUFFICES ASSUME PostedOK(i) PROVE FALSE
        BY <1>1 DEF BlankOK
      <4>1. posting[i] = NoResult /\ refs[i] # {}
        BY DEF PostedOK, Posts
      <4>2. status[i] # "removed" /\ status[i] # "absent"
        BY <2>1, <4>1 DEF EarlyOK
      <4>3. ~Closed(i)
        BY <4>1, <4>2 DEF Closed
      <4>4. w.op \in {"wait", "resume", "start", "release"}
        BY <2>2, <3>2, <4>3 DEF TasksOK, TellOK, TaskOps, Ends
      <4>5. Overtaken(w)
        BY <3>2, <4>1, <4>2, <4>4 DEF Overtaken, Present
      <4> QED
        BY <3>1, <4>5
    <3>4. task'[i] = Created(task[i], Known) \/ task'[i] = Transitioned(task[i], Known, w.op)
      BY <1>0, <3>1, <3>2
    <3>5. Blank(Created(task[i], Known))
      BY <1>4, <3>3, BlankCreated
    <3>6. Blank(Transitioned(task[i], Known, w.op))
      BY <1>4, <3>3, BlankTransitioned
    <3>7. Blank(task'[i])
      BY <3>4, <3>5, <3>6
    <3>8. BlankOK(i)
      BY <1>1, <3>3 DEF PostedOK, Posts, Blank
    <3> QED
      BY <2>1, <3>7, <3>8 DEF BlankOK, Blank
  <2> QED
    BY <2>3, <2>4
<1>7. ASSUME NEW k \in Items, PublishTask(k) \/ PublishFails(k)
      PROVE  BlankOK(i)' \/ PostedOK(i)'
  <2>1. /\ posting[k] # NoResult /\ posting' = [posting EXCEPT ![k] = NoResult]
        /\ task' = task \/ task' = [task EXCEPT ![k] = Finished(task[k], Known, posting[k])]
        /\ marker' = marker /\ refs' = refs /\ local' = local
    BY <1>7 DEF PublishTask, PublishFails, workerVars, vars, queueVars
  <2>2. CASE i # k
    <3>1. task'[i] = task[i] /\ posting'[i] = posting[i]
      BY <1>0, <2>1, <2>2
    <3> QED
      BY <1>2, <2>1, <3>1
  <2>3. CASE i = k /\ task' = task
    <3>1. posting'[i] = NoResult
      BY <1>0, <2>1, <2>3
    <3> QED
      BY <1>2, <2>1, <2>3, <3>1
  <2>4. CASE i = k /\ task' = [task EXCEPT ![k] = Finished(task[k], Known, posting[k])]
    <3>1. BlankOK(i)
      BY <1>1, <2>1, <2>4 DEF PostedOK
    <3>2. /\ posting[i] \in Results /\ posting[i].ids = refs[i] /\ posting[i].local = local[i] /\ posting'[i] = NoResult
          /\ task'[i] = Finished(task[i], Known, posting[i])
      BY <1>0, <2>1, <2>4 DEF TasksOK
    <3>4. refs[i] # {}
      BY <2>1, <2>4, <3>2 DEF Typed
    <3>5. BlankOK(i)' \/ PostedOK(i)'
      <4>1. QueuedParts(posting[i])
        BY DEF StagedOK
      <4>2. Posts(task'[i], refs[i], local[i]) /\ \A b \in Ids : task'[i].acks[b] = "none"
        BY <1>4, <3>1, <3>2, <3>4, <4>1, BlankFinished DEF BlankOK
      <4>3. \A b \in refs[i] : marker'[b] = "none" /\ outcome'[b] # "none"
        <5> TAKE b \in refs[i]
        <5>1. b \in Ids
          BY <1>0
        <5>2. outcome'[b] # "none"
          BY <1>0, <5>1 DEF Outcomes
        <5> QED
          BY <2>1, <3>1, <5>2 DEF BlankOK
      <4>4. Posts(task'[i], refs'[i], local'[i]) /\ posting'[i] = NoResult
        BY <2>1, <3>2, <4>2
      <4>5. \A b \in refs'[i] : marker'[b] # outcome'[b]
        BY <2>1, <4>3
      <4> QED
        BY <4>2, <4>4, <4>5 DEF PostedOK, Told
    <3> QED
      BY <3>5
  <2> QED
    BY <2>1, <2>2, <2>3, <2>4
<1>8. ASSUME NEW k \in Items, SecondSend(k) PROVE FALSE
  BY <1>8, SpendsNot DEF SecondSend, Undisturbed, Kinds
<1>9. ASSUME NEW k \in Items, Repair(k)
      PROVE  BlankOK(i)' \/ PostedOK(i)'
  <2>1. /\ task' = [task EXCEPT ![k] = Repaired(task[k], Known)]
        /\ UNCHANGED <<refs, local, posting, marker, outcome>>
    BY <1>9 DEF Repair, vars, queueVars, workerVars, recordVars
  <2>2. CASE task'[i] = task[i]
    BY <1>2, <2>1, <2>2
  <2>3. CASE task'[i] # task[i]
    <3>1. task'[i] = Repaired(task[i], Known)
      BY <1>0, <2>1, <2>3
    <3>2. PostedOK(i)
      <4>1. ~BlankOK(i)
        BY <1>4, <2>3, <3>1, BlankRepaired DEF BlankOK
      <4> QED
        BY <1>1, <4>1
    <3>3. NamesOf(task[i]) \subseteq refs[i] /\ refs[i] \in SUBSET Ids
      BY <1>0 DEF NamesOf, TasksOK
    <3>4. /\ Posts(task'[i], refs[i], local[i])
          /\ task'[i].acks = [b \in Ids |-> IF b \in refs[i] THEN Known[b] ELSE "none"]
          /\ \A b \in refs[i] : b \in DOMAIN Known
      BY <1>4, <2>3, <3>1, <3>2, <3>3, PostsRepaired DEF PostedOK
    <3>5. \A b \in refs[i] : task'[i].acks[b] = outcome[b]
      <4> TAKE b \in refs[i]
      <4>1. Known[b] = outcome[b]
        BY <3>4 DEF Known
      <4> QED
        BY <3>3, <3>4, <4>1
    <3>6. \A b \in Ids : b \notin refs[i] => task'[i].acks[b] = "none"
      BY <3>4
    <3>7. posting'[i] = NoResult
      BY <2>1, <3>2 DEF PostedOK
    <3> QED
      BY <2>1, <3>4, <3>5, <3>6, <3>7 DEF PostedOK, Told
  <2> QED
    BY <2>2, <2>3
<1>10. ASSUME NEW j \in jobs, SyncTask(j)
       PROVE  BlankOK(i)' \/ PostedOK(i)'
  <2> DEFINE b == j.id
  <2>1. /\ UNCHANGED <<refs, local, posting, outcome>>
        /\ task' = task \/ TasksFollow(j)
        /\ marker' = marker \/ (marker' = [marker EXCEPT ![b] = j.ack] /\ Showing(b) # {} /\ TasksFollow(j))
    BY <1>10 DEF SyncTask, Mark, vars, queueVars, recordVars
  <2>2. b \in Ids /\ j.ack \in Outcomes /\ j.ack = outcome[b]
    BY <1>0 DEF JobsOK
  <2> HIDE DEF b
  <2>3. CASE i \notin Showing(b)
    <3>1. task'[i] = task[i]
      BY <1>0, <2>1, <2>3 DEF TasksFollow, b
    <3>2. ASSUME NEW c \in refs[i] PROVE marker'[c] = marker[c]
      <4>1. CASE c # b
        BY <1>0, <2>1, <3>2, <4>1
      <4>2. CASE c = b
        <5>1. ASSUME NEW k \in Showing(b) PROVE FALSE
          <6>1. k \in Items /\ b \in refs[k]
            BY <2>2, <5>1 DEF Showing, TasksOK
          <6> QED
            BY <2>3, <3>2, <4>2, <5>1, <6>1 DEF OwnRefsOK
        <5> QED
          BY <2>1, <5>1
      <4> QED
        BY <4>1, <4>2
    <3> QED
      BY <1>2, <2>1, <3>1, <3>2
  <2>4. CASE task'[i] = task[i] /\ marker' = marker
    BY <1>2, <2>1, <2>4
  <2>5. CASE i \in Showing(b) /\ TasksFollow(j)
    <3>1. task'[i] = Projected(task[i], b, j.ack) /\ Refers(task[i], b)
      BY <2>5 DEF TasksFollow, Showing, b
    <3>2. PostedOK(i) /\ b \in refs[i]
      BY <1>1, <1>5, <2>2, <3>1 DEF TasksOK
    <3>3. task[i].acks[b] # "none" => task[i].acks[b] = j.ack \/ (task[i].acks[b] = "accepted" /\ j.ack = "sent")
      BY <2>2, <3>2 DEF PostedOK, Told
    <3>4. /\ Posts(task'[i], refs[i], local[i])
          /\ task'[i].acks = [task[i].acks EXCEPT ![b] = j.ack]
      <4>1. Posts(task[i], refs[i], local[i])
        BY <3>2 DEF PostedOK
      <4>2. refs[i] \in SUBSET Ids /\ task[i] \in TaskRecords
        BY <1>0, <1>4
      <4>3. /\ Posts(Projected(task[i], b, j.ack), refs[i], local[i])
            /\ Projected(task[i], b, j.ack).acks = [task[i].acks EXCEPT ![b] = j.ack]
        BY <2>2, <3>2, <3>3, <4>1, <4>2, PostsProjected
      <4> QED
        BY <3>1, <4>3
    <3>5. \A c \in Ids : task'[i].acks[c] = IF c = b THEN outcome[b] ELSE task[i].acks[c]
      BY <1>4, <2>2, <3>4 DEF TaskRecords
    <3>6. Told(task[i]) /\ posting[i] = NoResult
      BY <3>2 DEF PostedOK
    <3>7. \A c \in refs[i] : c \in Ids /\ (c # b => marker'[c] = marker[c])
      BY <1>0, <2>1
    <3>8. \A c \in refs[i] : marker'[c] = outcome[c] => task'[i].acks[c] = outcome[c]
      BY <3>2, <3>5, <3>7 DEF PostedOK
    <3>9. \A c \in Ids : task'[i].acks[c] # "none" =>
            task'[i].acks[c] = outcome[c] \/ (task'[i].acks[c] = "accepted" /\ outcome[c] = "sent")
      BY <3>5, <3>6 DEF Told
    <3> QED
      BY <2>1, <3>4, <3>6, <3>8, <3>9 DEF PostedOK, Told
  <2> QED
    BY <2>1, <2>3, <2>4, <2>5
<1>11. ASSUME NEW j \in jobs, SyncQueue(j) PROVE BlankOK(i)' \/ PostedOK(i)'
  <2>1. UNCHANGED <<task, posting, marker>>
    BY <1>11 DEF SyncQueue, workerVars, taskVars
  <2>2. (\E k \in Items : ApplyBridgeAck(k, j.id, j.ack)) \/ UNCHANGED queueVars
    BY <1>11 DEF SyncQueue, QueueShows, Referencing
  <2>3. refs' = refs /\ local' = local
    BY <1>11, <2>2, ReceivesIs DEF Receives, queueVars
  <2> QED
    BY <1>2, <2>1, <2>3
<1>12. ASSUME \/ UNCHANGED pvars
              \/ \E b \in Ids, to \in Outcomes : WorkerDecides(b, to)
              \/ Reconcile \/ TickEnds
              \/ \E b \in Ids : Settles(b)
       PROVE  BlankOK(i)' \/ PostedOK(i)'
  <2>1. UNCHANGED <<task, posting, marker, refs, local>>
    BY <1>12 DEF pvars, vars, queueVars, workerVars, taskVars, WorkerDecides, Reconcile, TickEnds, Settles, OperatorSettles
  <2> QED
    BY <1>2, <2>1
<1> QED
  BY <1>a, <1>6, <1>7, <1>8, <1>9, <1>10, <1>11, <1>12, <1>13, PlainSteps DEF TellsTask

LEMMA TaskInvNext == PInv /\ PlainInv /\ TaskInv /\ [PNext]_pvars => TaskInv'
<1> SUFFICES ASSUME PInv, PlainInv, TaskInv, [PNext]_pvars, Undisturbed'
             PROVE  TasksOK'
  BY DEF TaskInv
<1>0. Typed /\ Plain'
  BY DEF PInv, Undisturbed
<1>1. Undisturbed
  <2>1. "again" \in Kinds /\ spent'["again"] = 0
    BY DEF Kinds, Undisturbed
  <2>2. "overtaken" \in Kinds /\ spent'["overtaken"] = 0
    BY DEF Kinds, Undisturbed
  <2>3. spent["again"] = 0
    BY <1>0, <2>1, SpentBefore
  <2>4. spent["overtaken"] = 0
    BY <1>0, <2>2, SpentBefore
  <2> QED
    BY <1>0, <2>3, <2>4, PlainBefore DEF Undisturbed
<1>2. /\ IInv /\ Typed /\ LineageOK /\ StagedOK /\ EarlyOK /\ ReadyOK
      /\ PlainOK /\ OwnRefsOK /\ JobsOK /\ MarkedOK /\ TasksOK
  BY <1>1 DEF PInv, PlainInv, TaskInv, Undisturbed
<1>3. Typed'
  BY <1>2, TypedNext
<1>4. \A i \in Items : status'[i] # "removed" => BlankOK(i)' \/ PostedOK(i)'
  BY <1>2, <1>3, FineNext
<1>5. TellOK'
  BY <1>2, TellNext DEF TasksOK
<1> QED
  BY <1>0, <1>2, <1>4, <1>5, TaskNamesNext DEF TasksOK

LEMMA TaskInvInit == PInit => TaskInv
<1> SUFFICES ASSUME PInit PROVE TasksOK
  BY DEF TaskInv
<1>1. telling = {} /\ \A i \in Items : task[i] = NoTask(Ids) /\ posting[i] = NoResult /\ refs[i] = {}
  BY DEF PInit, Init
<1>2. Blank(NoTask(Ids))
  BY DEF NoTask, Blank, Acked
<1>3. ASSUME NEW i \in Items, NEW b \in Ids PROVE ~Refers(task[i], b)
  <2>1. b # NoExternal
    BY MaxIdsAssumption DEF Ids, NoExternal
  <2> QED
    BY <1>1, <1>2, <2>1 DEF Blank, Refers, External
<1>4. \A i \in Items : BlankOK(i)
  BY <1>1, <1>2 DEF BlankOK
<1> QED
  BY <1>1, <1>3, <1>4 DEF TasksOK, TellOK

LEMMA SumZero ==
  ASSUME Typed, spent.retries + spent.again + spent.late + spent.overtaken = 0
  PROVE  Undisturbed
<1>1. /\ spent["retries"] \in Nat /\ spent["again"] \in Nat
      /\ spent["late"] \in Nat /\ spent["overtaken"] \in Nat
  BY DEF Typed, Kinds
<1>2. \A a, b, c, d \in Nat : a + b + c + d = 0 => a = 0 /\ b = 0 /\ c = 0 /\ d = 0
  OBVIOUS
<1>3. spent["retries"] = 0 /\ spent["again"] = 0 /\ spent["late"] = 0 /\ spent["overtaken"] = 0
  BY <1>1, <1>2
<1> QED
  BY <1>3 DEF Undisturbed, Plain

\* Unless the operator retried or asked again, or a write that belongs before the send
\* was made after it, the task ends as the queue, although
\* the two are written one after the other, any of the writes may fail, and repairs
\* come in between: a task that follows its reply names the same records, was told
\* nothing else about them, and what has a marker has reached it as well.
THEOREM TasksAgree == PSpec => []TaskAgrees
<1>1. ASSUME PInv, PlainInv, TaskInv PROVE TaskAgrees
  <2>a. Typed
    BY <1>1 DEF PInv
  <2> SUFFICES ASSUME Undisturbed, Quiet, NEW i \in Items, Present(i), refs[i] # {}
               PROVE  task[i].st = TaskStatusOf(status[i])
    BY <2>a, SumZero DEF TaskAgrees, TaskShows
  <2>0. PlainOK /\ OwnRefsOK /\ MarkedOK /\ ShownOK /\ Typed /\ LineageOK /\ IInv /\ TasksOK
    BY <1>1 DEF PInv, PlainInv, TaskInv, Undisturbed
  <2>1. \A b \in refs[i] : /\ b \in Ids /\ outcome[b] \in Outcomes /\ marker[b] = outcome[b]
                           /\ acks[i][b] = outcome[b]
    BY <2>0, QuietTold
  <2>2. PostedOK(i)
    <3>1. ~BlankOK(i)
      BY <2>1 DEF BlankOK, Outcomes
    <3> QED
      BY <2>0, <3>1 DEF TasksOK, Present
  <2>3. \A b \in refs[i] : task[i].acks[b] = outcome[b]
    BY <2>1, <2>2 DEF PostedOK
  <2>4. \A b \in refs[i] : PartStatus(i, b, acks) = outcome[b] /\ PartOf(task[i], b) = outcome[b]
    <3> TAKE b \in refs[i]
    <3>1. outcome[b] # "none" /\ b \in DOMAIN task[i].acks
      BY <2>0, <2>1 DEF Outcomes, Typed, TaskRecords
    <3> QED
      BY <2>1, <2>3, <3>1 DEF PartStatus, PartOf, Acked
  <2>5. PartStatuses(i, refs[i], acks) = { PartOf(task[i], b) : b \in refs[i] }
    BY <2>4 DEF PartStatuses
  <2>6. task[i].refs = refs[i] /\ task[i].local = local[i] /\ task[i].st = TaskStatusOf(SumOf(task[i]))
    BY <2>2 DEF PostedOK, Posts
  <2>7. status[i] = SumOf(task[i])
    BY <2>0, <2>5, <2>6 DEF ShownOK, Present, SumOf
  <2> QED
    BY <2>6, <2>7
<1>2. PSpec => []TaskInv
  <2>1. PInit => PInv /\ PlainInv /\ TaskInv
    BY PInvInit, PlainInvInit, TaskInvInit
  <2>2. (PInv /\ PlainInv /\ TaskInv) /\ [PNext]_pvars => (PInv /\ PlainInv /\ TaskInv)'
    BY PInvNext, PlainInvNext, TaskInvNext
  <2> QED
    BY <2>1, <2>2, PTL DEF PSpec
<1> QED
  BY <1>1, <1>2, PipelineInvariance, PlainInvariance, PTL
=============================================================================
