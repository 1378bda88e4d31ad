----------------------------- MODULE SendBridge -----------------------------
(***************************************************************************)
(* The send bridge: the outbox of records and their acknowledgements       *)
(* (wechat_driver/bridge_send.py) and the one worker that delivers them    *)
(* (runtime/send_bridge_worker.py).                                        *)
(*                                                                         *)
(* Producers stage the parts of a reply, publish its projections and       *)
(* activate the parts together; operators stop, acknowledge and retry      *)
(* records; the worker ticks, sends and acknowledges, and dies anywhere.   *)
(* Each section under the store lock is one action.                        *)
(***************************************************************************)
EXTENDS Naturals, FiniteSets, FiniteSetsExt, SendStatus, RetryLineage

CONSTANTS
  Replies,      \* replies whose parts go through the bridge
  Answers,      \* the answers the backend may give to a send
  Gates,        \* what configuration and channel registry may say about sending
  CliAcks,      \* statuses acknowledged from the command line
  FaultyAcks,   \* which acknowledgements may fail to be written
  MaxRecords,   \* bound: outbox records
  MaxParts,     \* bound: records of one reply, retries not counted
  MaxAttempts,  \* sends of one record in one tick (max_send_attempts)
  MaxRetries,   \* ticks a transient failure is retried (_MAX_CROSS_TICK_RETRIES)
  MaxCrashes,   \* bound: crashes of the worker
  MaxFaults     \* bound: acknowledgements that could not be written

AllAnswers == {"verified", "accepted", "dry_run", "transient", "rejected", "unknown",
               "permanent", "exception", "garbled"}

ASSUME AnswersAssumption == Answers \subseteq AllAnswers
ASSUME GatesAssumption == "open" \in Gates /\ Gates \subseteq {"open", "disabled", "no_receiver", "revoked"}
ASSUME CliAcksAssumption == CliAcks \subseteq TerminalAcks
ASSUME FaultyAcksAssumption == FaultyAcks \subseteq {"inflight", "terminal", "quarantine"}
ASSUME BoundsAssumption ==
  /\ MaxRecords \in Nat /\ MaxParts \in Nat \ {0} /\ MaxAttempts \in Nat \ {0}
  /\ MaxRetries \in Nat /\ MaxCrashes \in Nat /\ MaxFaults \in Nat

Records == 1 .. MaxRecords    \* in the order of the outbox file
NoReply == "no reply"

VARIABLES
  \* outbox.jsonl
  created,   \* records written so far
  reply,     \* the reply a record is a part of
  parent,    \* retry_of
  stage,     \* "staged" until ready_for_delivery
  contract,  \* expected_projections: "none", the "empty" list, or "full"
  owner,     \* does the process that staged the record run
  \* acks.jsonl: the effective acknowledgement of each record
  ack,       \* its status, "queued" without any
  why,       \* the class of its reason
  retries,   \* retry acknowledgements so far, counted as far as it matters
  \* producers and operators
  phase,     \* how far the producer of a reply is
  calls,     \* retry successors a retry_bridge_item call is publishing
  gate,      \* what configuration and channel registry say about sending
  \* worker
  pc, todo, cur, attempt, answer,
  \* bounds and history
  crashes, faults,
  reached,   \* sends of a record that may have reached WeChat
  stopped,   \* records the sidebar stopped while they were queued
  overruled  \* records acknowledged from the command line

outbox   == <<created, reply, parent, stage, contract, owner>>
acks     == <<ack, why, retries>>
people   == <<phase, calls, gate>>
worker   == <<pc, todo, cur, attempt, answer>>
history  == <<reached, stopped, overruled>>
vars == <<outbox, acks, people, worker, crashes, faults, history>>

Terminal(r) == ack[r] \in TerminalAcks
Written == 1 .. created

\* bridge_item_retryable: which terminal records may be delivered again under a
\* new id.
FinalReasons == {"unknown", "permanent", "possible_duplicate", "manual", "exception"}
Retryable(r) ==
  \/ ack[r] = "failed" /\ why[r] \notin FinalReasons
  \/ ack[r] = "sent" /\ why[r] = "dry_run"

Ancestors(r) == AncestorsIn(parent, r)
Descendants(r) == DescendantsIn(parent, Written, r)
Lineage(r) == {r} \cup Ancestors(r) \cup Descendants(r)

\* resolve_bridge_ack_state, one line at a time: progress never replaces a
\* terminal acknowledgement, a terminal one replaces none that ranks higher.
Counts(r, s) == IF s \in TerminalAcks THEN AckPriority(s) >= AckPriority(ack[r]) ELSE ~Terminal(r)
PutAck(r, s, w) ==
  /\ ack' = [ack EXCEPT ![r] = IF Counts(r, s) THEN s ELSE @]
  /\ why' = [why EXCEPT ![r] = IF Counts(r, s) THEN w ELSE @]
  /\ retries' = [retries EXCEPT ![r] = IF s = "retry" /\ @ < MaxRetries THEN @ + 1 ELSE @]

Init ==
  /\ created = 0
  /\ reply = [r \in Records |-> NoReply]
  /\ parent = [r \in Records |-> NoRecord]
  /\ stage = [r \in Records |-> "absent"]
  /\ contract = [r \in Records |-> "none"]
  /\ owner = [r \in Records |-> FALSE]
  /\ ack = [r \in Records |-> "queued"]
  /\ why = [r \in Records |-> "none"]
  /\ retries = [r \in Records |-> 0]
  /\ phase = [g \in Replies |-> "idle"]
  /\ calls = {}
  /\ gate = "open"
  /\ pc = "idle" /\ todo = {} /\ cur = NoRecord /\ attempt = 0 /\ answer = "none"
  /\ crashes = 0 /\ faults = 0
  /\ reached = [r \in Records |-> 0]
  /\ stopped = {} /\ overruled = {}

-----------------------------------------------------------------------------
(* The producer of a reply: BridgeOutboxSendDriver under                   *)
(* send_approved_confirm_item.                                             *)

Parts(g) == { r \in Written : reply[r] = g /\ parent[r] = NoRecord }

AppendRecord(g, p, c) ==
  LET n == created + 1 IN
  /\ n \in Records
  /\ created' = n
  /\ reply' = [reply EXCEPT ![n] = g]
  /\ parent' = [parent EXCEPT ![n] = p]
  /\ stage' = [stage EXCEPT ![n] = "staged"]
  /\ contract' = [contract EXCEPT ![n] = c]
  /\ owner' = [owner EXCEPT ![n] = TRUE]

StagePart(g) ==
  /\ phase[g] \in {"idle", "staging"} /\ Cardinality(Parts(g)) < MaxParts
  /\ AppendRecord(g, NoRecord, "none")
  /\ phase' = [phase EXCEPT ![g] = "staging"]
  /\ UNCHANGED <<acks, calls, gate, worker, crashes, faults, history>>

\* The queue, ledger and task show the reply's parts, or one of them fails to.
Publish(g) ==
  /\ phase[g] = "staging"
  /\ phase' = [phase EXCEPT ![g] = "published"]
  /\ UNCHANGED <<outbox, acks, calls, gate, worker, crashes, faults, history>>

DeclareContract(g) ==
  contract' = [r \in Records |-> IF r \in Parts(g) THEN "full" ELSE contract[r]]

PublishFails(g) ==
  /\ phase[g] = "staging"
  /\ DeclareContract(g)
  /\ phase' = [phase EXCEPT ![g] = "failing"]
  /\ UNCHANGED <<created, reply, parent, stage, owner, acks, calls, gate, worker, crashes, faults, history>>

\* activate_staged_records: all parts or, when one is already terminal, none.
Activate(g) ==
  /\ phase[g] = "published"
  /\ DeclareContract(g)
  /\ IF \E r \in Parts(g) : Terminal(r)
     THEN phase' = [phase EXCEPT ![g] = "failing"] /\ UNCHANGED stage
     ELSE /\ phase' = [phase EXCEPT ![g] = "over"]
          /\ stage' = [r \in Records |-> IF r \in Parts(g) THEN "ready" ELSE stage[r]]
  /\ UNCHANGED <<created, reply, parent, owner, acks, calls, gate, worker, crashes, faults, history>>

\* append_terminal_ack_if_queued: only on a record nobody has acknowledged, and
\* not before a staged one has its contract.
NotTerminal(r) == ~Terminal(r) /\ (stage[r] = "staged" => contract[r] # "none")   \* mutant
Queued(r) == ack[r] = "queued" /\ (stage[r] = "staged" => contract[r] # "none")

\* fail_staged_send_result, one part after the other.
FailPart(g, r) ==
  /\ phase[g] = "failing" /\ r \in Parts(g) /\ Queued(r)
  /\ PutAck(r, "failed", "staging_failed")
  /\ UNCHANGED <<outbox, people, worker, crashes, faults, history>>

FailingDone(g) ==
  /\ phase[g] = "failing" /\ \A r \in Parts(g) : ~Queued(r)
  /\ phase' = [phase EXCEPT ![g] = "over"]
  /\ UNCHANGED <<outbox, acks, calls, gate, worker, crashes, faults, history>>

\* The producer raises before it activates or fails its records; its process
\* lives on, or dies.
Live(g) == phase[g] \in {"staging", "published", "failing"}
ProducerRaises(g) ==
  /\ Live(g)
  /\ phase' = [phase EXCEPT ![g] = "over"]
  /\ UNCHANGED <<outbox, acks, calls, gate, worker, crashes, faults, history>>

ProducerDies(g) ==
  /\ \E r \in Parts(g) : stage[r] = "staged" /\ owner[r]
  /\ phase' = [phase EXCEPT ![g] = "over"]
  /\ owner' = [r \in Records |-> IF r \in Parts(g) THEN FALSE ELSE owner[r]]
  /\ UNCHANGED <<created, reply, parent, stage, contract, acks, calls, gate, worker, crashes, faults, history>>

-----------------------------------------------------------------------------
(* Operators. *)

ManualStop(r, s) ==
  /\ r \in Written /\ Queued(r)
  /\ PutAck(r, s, "manual")
  /\ stopped' = stopped \cup {r}
  /\ UNCHANGED <<outbox, people, worker, crashes, faults, reached, overruled>>

\* bridge-ack on the command line appends without looking.
CliAck(r, s) ==
  /\ r \in Written /\ r \notin overruled
  /\ PutAck(r, s, "cli")
  /\ overruled' = overruled \cup {r}
  /\ UNCHANGED <<outbox, people, worker, crashes, faults, reached, stopped>>

SetGate(to) ==
  /\ gate # to
  /\ gate' = to
  /\ UNCHANGED <<outbox, acks, phase, calls, worker, crashes, faults, history>>

\* requeue_resolved: the newest live descendant is used again; only a lineage
\* without one gets a new successor, of its last record.
CanRequeue(r) ==
  /\ r \in Written /\ Terminal(r) /\ Retryable(r)
  /\ \A d \in Descendants(r) : Terminal(d) => Retryable(d)

NoDescendant(r) == {}   \* mutant: no live successor is looked for
LiveDescendants(r) == { d \in Descendants(r) : ~Terminal(d) }

ReuseSuccessor(r) ==
  /\ CanRequeue(r) /\ LiveDescendants(r) # {}
  /\ calls' = calls \cup {Max(LiveDescendants(r))}
  /\ UNCHANGED <<outbox, acks, phase, gate, worker, crashes, faults, history>>

RetryParent(r) == Max({r} \cup Descendants(r))

CreateSuccessor(r) ==
  LET last == RetryParent(r) IN
  /\ CanRequeue(r) /\ LiveDescendants(r) = {}
  /\ AppendRecord(reply[last], last, IF contract[last] = "full" THEN "full" ELSE "none")
  /\ calls' = calls \cup {created + 1}
  /\ UNCHANGED <<acks, phase, gate, worker, crashes, faults, history>>

\* activate_retry_successor, after the projections were moved to the successor.
ActivateSuccessor(n) ==
  /\ n \in calls
  /\ calls' = calls \ {n}
  /\ IF stage[n] = "ready" THEN UNCHANGED <<stage, contract>>
     ELSE /\ contract' = [contract EXCEPT ![n] = "full"]
          /\ stage' = [stage EXCEPT ![n] = IF Terminal(n) THEN @ ELSE "ready"]
  /\ UNCHANGED <<created, reply, parent, owner, acks, phase, gate, worker, crashes, faults, history>>

\* A projection of the inherited contract is missing.
FailSuccessor(n) ==
  /\ n \in calls /\ contract[n] = "full"
  /\ calls' = calls \ {n}
  /\ IF Queued(n) THEN PutAck(n, "failed", "staging_failed") ELSE UNCHANGED acks
  /\ UNCHANGED <<outbox, phase, gate, worker, crashes, faults, history>>

RetryDies(n) ==
  /\ n \in calls /\ owner[n]
  /\ calls' = calls \ {n}
  /\ owner' = [owner EXCEPT ![n] = FALSE]
  /\ UNCHANGED <<created, reply, parent, stage, contract, acks, phase, gate, worker, crashes, faults, history>>

-----------------------------------------------------------------------------
(* The worker: run_once, one locked section after the other. *)

Fault == faults < MaxFaults /\ faults' = faults + 1

\* An acknowledgement the worker writes; `kind` says which failure may lose it.
\* What follows is the same whether it was written or not.
WriteAck(r, s, w, kind) ==
  \/ PutAck(r, s, w) /\ UNCHANGED faults
  \/ kind \in FaultyAcks /\ Fault /\ UNCHANGED acks

\* quarantine_abandoned_staged_records: the contracts first, then the acks.  When
\* a write fails the tick goes on without the rest.
AbandonedDeclared ==   \* mutant: only records that have a contract already
  { r \in Written : stage[r] = "staged" /\ ~Terminal(r) /\ ~owner[r] /\ contract[r] # "none" }
Abandoned == { r \in Written : stage[r] = "staged" /\ ~Terminal(r) /\ ~owner[r] }
ContractsOfAbandoned ==
  contract' = [r \in Records |-> IF r \in Abandoned /\ contract[r] = "none" THEN "empty" ELSE contract[r]]

QuarantineAbandoned ==
  /\ pc = "idle" /\ gate # "disabled"
  /\ pc' = "verify"
  /\ \E done \in SUBSET Abandoned :
       /\ IF done = Abandoned THEN UNCHANGED faults ELSE "terminal" \in FaultyAcks /\ Fault
       /\ ContractsOfAbandoned \/ (done = {} /\ UNCHANGED contract)
       /\ ack' = [r \in Records |-> IF r \in done THEN "failed" ELSE ack[r]]
       /\ why' = [r \in Records |-> IF r \in done THEN "abandoned" ELSE why[r]]
  /\ UNCHANGED <<created, reply, parent, stage, owner, retries, people, todo, cur, attempt, answer,
                 crashes, history>>

\* _reconcile_accepted_unverified_delivery: a readback may prove deliveries.
VerifyAccepted ==
  /\ pc = "verify"
  /\ pc' = "quarantine"
  /\ \E proved \in SUBSET { r \in Written : ack[r] = "accepted" } :
       /\ ack' = [r \in Records |-> IF r \in proved THEN "sent" ELSE ack[r]]
       /\ why' = [r \in Records |-> IF r \in proved THEN "verified" ELSE why[r]]
  /\ UNCHANGED <<outbox, retries, people, todo, cur, attempt, answer, crashes, faults, history>>

\* _quarantine_interrupted_sends: whatever is still marked was cut off mid-send.
\* The result of each acknowledgement is not looked at.
NoneInterrupted == {}   \* mutant
Interrupted == { r \in Written : ack[r] = "inflight" }

QuarantineInterrupted ==
  /\ pc = "quarantine"
  /\ pc' = "snapshot"
  /\ \E lost \in SUBSET Interrupted :
       /\ lost # {} => "quarantine" \in FaultyAcks
       /\ faults + Cardinality(lost) <= MaxFaults
       /\ faults' = faults + Cardinality(lost)
       /\ ack' = [r \in Records |-> IF r \in Interrupted \ lost THEN "failed" ELSE ack[r]]
       /\ why' = [r \in Records |-> IF r \in Interrupted \ lost THEN "possible_duplicate" ELSE why[r]]
  /\ UNCHANGED <<outbox, retries, people, todo, cur, attempt, answer, crashes, history>>

\* pending_records: read once per tick.
Snapshot ==
  /\ pc = "snapshot"
  /\ todo' = { r \in Written : stage[r] = "ready" /\ ~Terminal(r) }
  /\ pc' = IF todo' = {} THEN "idle" ELSE "drain"
  /\ UNCHANGED <<outbox, acks, people, cur, attempt, answer, crashes, faults, history>>

\* _deliver is done with the record.
NextRecord(r) ==
  /\ todo' = todo \ {r}
  /\ pc' = IF todo' = {} THEN "idle" ELSE "drain"
  /\ cur' = NoRecord /\ attempt' = 0 /\ answer' = "none"

RetryForever(r, reason) == WriteAck(r, "retry", reason, "terminal")   \* mutant

\* _fail_or_retry.
FailOrRetry(r, reason) ==
  IF reason = "transient" /\ retries[r] < MaxRetries
  THEN WriteAck(r, "retry", reason, "terminal")
  ELSE WriteAck(r, "failed", reason, "terminal")

\* Before the first send of a record in this tick.
SkipDisabled(r) ==
  /\ gate = "disabled"
  /\ NextRecord(r) /\ UNCHANGED <<acks, faults>>

MissingReceiver(r) == gate = "no_receiver" /\ FailOrRetry(r, "transient") /\ NextRecord(r)

Unauthorised(r) == gate = "revoked" /\ WriteAck(r, "blocked", "revoked", "terminal") /\ NextRecord(r)

\* No send without a marker that is written and effective.
Mark(r) ==
  /\ gate = "open"
  /\ WriteAck(r, "inflight", "delivering", "inflight")
  /\ IF ack'[r] = "inflight" /\ faults' = faults
     THEN pc' = "marked" /\ cur' = r /\ attempt' = 1 /\ UNCHANGED <<todo, answer>>
     ELSE NextRecord(r)

Deliver ==
  /\ pc = "drain"
  /\ LET r == Min(todo) IN
       SkipDisabled(r) \/ MissingReceiver(r) \/ Unauthorised(r) \/ Mark(r)
  /\ UNCHANGED <<outbox, people, crashes, history>>

\* Everything that can change is looked at again before every send.
Recheck ==
  /\ pc = "marked"
  /\ \/ gate = "disabled" /\ WriteAck(cur, "retry", "config", "terminal") /\ NextRecord(cur)
     \/ MissingReceiver(cur)
     \/ Unauthorised(cur)
     \/ gate = "open" /\ Terminal(cur) /\ NextRecord(cur) /\ UNCHANGED <<acks, faults>>
     \/ /\ gate = "open" /\ ~Terminal(cur)
        /\ pc' = "cleared" /\ UNCHANGED <<acks, faults, todo, cur, attempt, answer>>
  /\ UNCHANGED <<outbox, people, crashes, history>>

\* A file that is gone, or the call of the backend.
FileGone ==
  /\ pc = "cleared"
  /\ WriteAck(cur, "failed", "permanent", "terminal")
  /\ NextRecord(cur)
  /\ UNCHANGED <<outbox, people, crashes, history>>

MayHaveReached == {"verified", "accepted", "unknown", "exception", "garbled"}

Send ==
  /\ pc = "cleared"
  /\ \E a \in Answers :
       /\ answer' = a
       /\ reached' = [reached EXCEPT ![cur] = IF a \in MayHaveReached THEN @ + 1 ELSE @]
  /\ pc' = "answered"
  /\ UNCHANGED <<outbox, acks, people, todo, cur, attempt, crashes, faults, stopped, overruled>>

Finish(s, w) == WriteAck(cur, s, w, "terminal") /\ NextRecord(cur)

\* An answer that is neither a success, nor unknown, nor permanent, is tried
\* again in the same tick.
UnknownTriedAgain == {"transient", "rejected", "garbled", "unknown"}   \* mutant
TriedAgain == {"transient", "rejected", "garbled"}
AttemptLeft == attempt < MaxAttempts

HandleAnswer ==
  /\ pc = "answered"
  /\ \/ answer \in {"verified", "dry_run"} /\ Finish("sent", answer)
     \/ answer = "accepted" /\ Finish("accepted", "accepted")
     \/ answer \in {"unknown", "permanent", "exception"} \ TriedAgain /\ Finish("failed", answer)
     \/ /\ answer \in TriedAgain /\ AttemptLeft
        /\ attempt' = attempt + 1 /\ pc' = "marked" /\ answer' = "none"
        /\ UNCHANGED <<acks, faults, todo, cur>>
     \/ answer \in TriedAgain /\ ~AttemptLeft /\ FailOrRetry(cur, answer) /\ NextRecord(cur)
  /\ UNCHANGED <<outbox, people, crashes, history>>

\* The loop leaves when sending is switched off; it also dies at any point, with
\* the message on the wire, or between the two writes of the quarantine.
StopWorker ==
  /\ todo' = {} /\ cur' = NoRecord /\ attempt' = 0 /\ answer' = "none" /\ pc' = "down"

LoopLeaves ==
  /\ pc = "idle" /\ gate = "disabled"
  /\ StopWorker
  /\ UNCHANGED <<outbox, acks, people, crashes, faults, history>>

Crash ==
  /\ pc # "down" /\ crashes < MaxCrashes /\ crashes' = crashes + 1
  /\ StopWorker
  /\ \/ UNCHANGED <<contract, reached>>
     \/ pc = "cleared" /\ reached' = [reached EXCEPT ![cur] = @ + 1] /\ UNCHANGED contract
     \/ pc = "idle" /\ ContractsOfAbandoned /\ UNCHANGED reached
  /\ UNCHANGED <<created, reply, parent, stage, owner, acks, people, faults, stopped, overruled>>

Restart ==
  /\ pc = "down" /\ gate # "disabled"
  /\ pc' = "idle"
  /\ UNCHANGED <<outbox, acks, people, todo, cur, attempt, answer, crashes, faults, history>>

-----------------------------------------------------------------------------
ProducerStep(g) ==
  \/ StagePart(g) \/ Publish(g) \/ PublishFails(g) \/ Activate(g)
  \/ (\E r \in Records : FailPart(g, r)) \/ FailingDone(g)
  \/ ProducerRaises(g) \/ ProducerDies(g)

OperatorStep ==
  \/ \E r \in Records :
       \/ \E s \in {"sent", "failed"} : ManualStop(r, s)
       \/ \E s \in CliAcks : CliAck(r, s)
       \/ ReuseSuccessor(r) \/ CreateSuccessor(r)
       \/ ActivateSuccessor(r) \/ FailSuccessor(r) \/ RetryDies(r)
  \/ \E to \in Gates : SetGate(to)

WorkerStep ==
  \/ QuarantineAbandoned \/ VerifyAccepted \/ QuarantineInterrupted \/ Snapshot
  \/ Deliver \/ Recheck \/ FileGone \/ Send \/ HandleAnswer
  \/ LoopLeaves \/ Restart

Next == (\E g \in Replies : ProducerStep(g)) \/ OperatorStep \/ WorkerStep \/ Crash

Spec == Init /\ [][Next]_vars

\* The worker process runs and is started again (the sidebar hosts it).
FairSpec == Spec /\ WF_vars(WorkerStep)

-----------------------------------------------------------------------------
(* Properties *)

TypeOK ==
  /\ created \in 0 .. MaxRecords
  /\ reply \in [Records -> Replies \cup {NoReply}]
  /\ parent \in [Records -> 0 .. MaxRecords]
  /\ stage \in [Records -> {"absent", "staged", "ready"}]
  /\ contract \in [Records -> {"none", "empty", "full"}]
  /\ owner \in [Records -> BOOLEAN]
  /\ ack \in [Records -> {"queued"} \cup AckStatuses]
  /\ why \in [Records -> AllAnswers \cup {"none", "delivering", "config", "revoked", "manual", "cli",
                   "abandoned", "staging_failed", "possible_duplicate"}]
  /\ retries \in [Records -> 0 .. MaxRetries]
  /\ phase \in [Replies -> {"idle", "staging", "published", "failing", "over"}]
  /\ calls \subseteq Records
  /\ gate \in Gates
  /\ pc \in {"down", "idle", "verify", "quarantine", "snapshot", "drain", "marked", "cleared", "answered"}
  /\ todo \subseteq Records
  /\ cur \in 0 .. MaxRecords
  /\ attempt \in 0 .. MaxAttempts
  /\ answer \in AllAnswers \cup {"none"}
  /\ crashes \in Nat /\ faults \in Nat
  /\ reached \in [Records -> Nat]
  /\ stopped \subseteq Records /\ overruled \subseteq Records

Overruled(r) == Lineage(r) \cap overruled # {}

\* A part of a reply, counted over all its retries, reaches WeChat at most once,
\* unless an operator overruled the bridge from the command line.
AtMostOnce ==
  \A r \in Written : ~Overruled(r) =>
    /\ reached[r] <= 1
    /\ \A s \in Ancestors(r) : reached[r] = 0 \/ reached[s] = 0

\* A send that may have reached WeChat is on record at every moment: as its
\* marker, as delivered, or as a failure nobody may retry.
RiskOnRecord ==
  \A r \in Written : reached[r] > 0 /\ r \notin overruled =>
    ack[r] \in {"inflight", "accepted", "sent"} \/ (ack[r] = "failed" /\ ~Retryable(r))

\* What the bridge says was never attempted was not: staged records that were
\* abandoned or failed, records blocked because the channel lost its permission
\* between two attempts, and records stopped while queued
\* (payload "delivery_attempted": False; ack_sidebar_bridge_item).
NeverAttempted ==
  \A r \in Written :
    \/ why[r] \in {"abandoned", "staging_failed", "revoked"}
    \/ r \in stopped /\ r \notin overruled
    => reached[r] = 0

\* Retries form a chain (requeue_resolved "never creates a sibling"), of which
\* at most one record may still be delivered, the newest.
OneLiveSuccessor ==
  \A r \in Written :
    /\ \A s \in Written : parent[r] = parent[s] /\ parent[r] # NoRecord => r = s
    /\ \A a \in Ancestors(r) : Terminal(a)

\* While the switches stay open every activated record is decided.
Settled == \A r \in Records : stage[r] = "ready" ~> (Terminal(r) \/ gate # "open")

\* A staged record whose process is gone does not stay invisible forever.
AbandonedIsFailed ==
  \A r \in Records : (stage[r] = "staged" /\ ~owner[r]) ~> (Terminal(r) \/ stage[r] = "ready" \/ gate # "open")
=============================================================================
