----------------------------- MODULE ModelCalls -----------------------------
(***************************************************************************)
(* Calls of the model from the threads of several processes: the failover  *)
(* over API keys (RelayOpenAIClient._chat_completion) and the gates a call *)
(* passes before every attempt: the total budget, the budget of its        *)
(* workload (acquire_llm) and the key's own limit.                         *)
(*                                                                         *)
(* A gate is a semaphore of the process and, behind it, slot files whose   *)
(* operating system locks all processes share (_acquire_resource).  Every  *)
(* attempt reads its limits from the key pool, which the operator edits    *)
(* meanwhile: a process has one semaphore per limit, all limits share the  *)
(* slot files.  A runtime is built for every tick, so a process has        *)
(* several clients, each with its own key semaphores and retired keys.     *)
(***************************************************************************)
EXTENDS Naturals, FiniteSetsExt, SequencesExt

CONSTANTS
  Calls,       \* threads, each makes one call
  Clients,     \* the clients of all processes
  Processes,
  ClientOf,    \* the client each thread calls through
  WorkOf,      \* the workload of each call
  Home,        \* the process of each client
  Refs,        \* the enabled keys, in the order of the pool
  FirstOf,     \* the keys the rotation of a call's conversation may pick
  ShareOf,     \* int(total * ratio), for the ratio of the audit file
  MaxLimit,    \* bound: the highest limit a key may have
  MaxEvents    \* bound: rejected keys, changed limits and deaths of a process

Keys == Range(Refs)
KeyLimits == 1..MaxLimit
Workloads == {"interactive", "background"}
Gates == {"total"} \cup Workloads
Free == "free"

ASSUME CallsAssumption ==
  /\ IsFiniteSet(Calls) /\ Free \notin Calls
  /\ ClientOf \in [Calls -> Clients] /\ WorkOf \in [Calls -> Workloads]
ASSUME ClientsAssumption == Home \in [Clients -> Processes]
ASSUME KeysAssumption == Refs \in Seq(Keys) \ {<<>>} /\ IsInjective(Refs)
ASSUME RotationAssumption == FirstOf \in [Calls -> SUBSET Keys]
ASSUME ShareAssumption == ShareOf \in [0..(Len(Refs) * MaxLimit) -> Nat]
ASSUME BoundsAssumption == MaxLimit \in Nat \ {0} /\ MaxEvents \in Nat

VARIABLES
  call,      \* [Calls -> record]
  keyLimit,  \* [Keys -> limit], from the metadata of the pool
  retired,   \* [Clients -> the keys cooling down after a rejection]
  taken,     \* [Processes -> [Gates -> [limit -> permits of that semaphore in use]]]
  slot,      \* [Gates -> [slot number -> the call that has the file locked, or Free]]
  keySem,    \* [Clients -> [Keys -> the semaphores made so far, the current one last]]
  events

gates == <<taken, slot>>
client == <<retired, keySem>>
vars == <<call, keyLimit, gates, client, events>>

MaxTotal == Len(Refs) * MaxLimit

-----------------------------------------------------------------------------
(* Limits. *)

\* ApiKeyPool.concurrency_limit
Total ==
  LET sum[n \in 0..Len(Refs)] == IF n = 0 THEN 0 ELSE sum[n - 1] + keyLimit[Refs[n]]
  IN  sum[Len(Refs)]

\* ResourceScheduler.conversation_parallelism
Interactive(total) ==
  LET share == Max({1, Min({total, ShareOf[total]})})
  IN  IF total > 1 /\ share >= total THEN total - 1 ELSE share

\* _effective_llm_max_parallel: no gate has more permits.
GateCap == 128

Limits == [total \in 0..MaxTotal |->
  [g \in Gates |->
    Min({GateCap, CASE g = "total" -> total
                    [] g = "interactive" -> Interactive(total)
                    [] g = "background" -> Max({1, total - Interactive(total)})})]]

-----------------------------------------------------------------------------
\* ref is the key a call tries, todo the keys it may try after that.
Idle == [at |-> "new", ref |-> Refs[1], todo |-> {}, gate |-> "total", total |-> 0,
         keyLimit |-> 0, sem |-> 0, answer |-> "none"]
Over == [Idle EXCEPT !.at = "over"]
FullGate == [limit \in 1..MaxTotal |-> 0]
NoSems == [r \in Keys |-> <<>>]

Init ==
  /\ call = [c \in Calls |-> Idle]
  /\ keyLimit = [r \in Keys |-> 1]
  /\ retired = [k \in Clients |-> {}] /\ keySem = [k \in Clients |-> NoSems]
  /\ taken = [p \in Processes |-> [g \in Gates |-> FullGate]]
  /\ slot = [g \in Gates |-> [i \in 0..(MaxTotal - 1) |-> Free]]
  /\ events = 0

Counts(event) ==
  IF event THEN events < MaxEvents /\ events' = events + 1 ELSE UNCHANGED events
Becomes(c, record) == call' = [call EXCEPT ![c] = record]
Goes(c, step) == call' = [call EXCEPT ![c].at = step]
Running(c) == call[c].at \notin {"new", "over"}
ProcessOf(c) == Home[ClientOf[c]]
Ref(c) == call[c].ref
FirstIn(refs) == Refs[Min({n \in 1..Len(Refs) : Refs[n] \in refs})]

-----------------------------------------------------------------------------
(* Candidates: _candidate_refs. *)

Candidates(k) == Keys \ retired[k]
Tries(c, record, ref, todo) ==
  Becomes(c, [record EXCEPT !.at = "prepare", !.ref = ref, !.todo = todo \ {ref}])

\* The key the conversation's rotation picks comes first, the others in the
\* order of the pool.
Begin(c) ==
  /\ call[c].at = "new"
  /\ \E first \in FirstOf[c] :
       LET refs == Candidates(ClientOf[c])
       IN  IF refs = {} THEN Becomes(c, Over)
           ELSE Tries(c, Idle, IF first \in refs THEN first ELSE FirstIn(refs), refs)
  /\ UNCHANGED <<keyLimit, gates, client, events>>

\* An attempt fixes all its limits before it waits for anything.
Prepare(c) ==
  /\ call[c].at = "prepare"
  /\ Becomes(c, [call[c] EXCEPT !.at = "sem", !.gate = "total", !.total = Total,
                                !.keyLimit = keyLimit[Ref(c)]])
  /\ UNCHANGED <<keyLimit, gates, client, events>>

-----------------------------------------------------------------------------
(* The gates: _acquire_resource, the total first. *)

Limit(c) == Limits[call[c].total][call[c].gate]
PermitsOf(c, change) ==
  taken' = [taken EXCEPT ![ProcessOf(c)][call[c].gate][Limit(c)] = change]
PermitsUsed(c) == taken[ProcessOf(c)][call[c].gate][Limit(c)]

TakePermit(c) ==
  /\ call[c].at = "sem"
  /\ PermitsUsed(c) < Limit(c) /\ PermitsOf(c, PermitsUsed(c) + 1)
  /\ Goes(c, "slot")
  /\ UNCHANGED <<keyLimit, slot, client, events>>

\* Through a gate: from the total to the workload's, from there to the key.
Through(c) ==
  IF call[c].gate = "total"
  THEN Becomes(c, [call[c] EXCEPT !.at = "sem", !.gate = WorkOf[c]])
  ELSE Goes(c, "find_key")

\* Mutant: the scan goes one file too far.
TakeSlotBeyond(c) ==
  /\ call[c].at = "slot"
  /\ \E i \in 0..Limit(c) : /\ i < MaxTotal /\ slot[call[c].gate][i] = Free
                            /\ slot' = [slot EXCEPT ![call[c].gate][i] = c]
  /\ Through(c)
  /\ UNCHANGED <<keyLimit, taken, client, events>>

\* The scan locks one file after the other and may pass one just before it
\* becomes free, so that it ends at any.
TakeSlot(c) ==
  /\ call[c].at = "slot"
  /\ \E i \in 0..(Limit(c) - 1) : /\ slot[call[c].gate][i] = Free
                                  /\ slot' = [slot EXCEPT ![call[c].gate][i] = c]
  /\ Through(c)
  /\ UNCHANGED <<keyLimit, taken, client, events>>

\* Where an exception, or the end of the attempt, goes on from a gate that
\* was left: out of the total, or to the end of the attempt.
Unwind(c, answer) ==
  IF call[c].gate # "total"
  THEN Becomes(c, [call[c] EXCEPT !.at = "leave", !.gate = "total", !.answer = answer])
  ELSE IF answer = "rejected" /\ call[c].todo # {}
       THEN Tries(c, [call[c] EXCEPT !.answer = "none"], FirstIn(call[c].todo), call[c].todo)
       ELSE Becomes(c, Over)

\* Mutant: the permit is lost when no slot file comes free in time.
TimeOutKeepsPermit(c) ==
  /\ call[c].at \in {"sem", "slot"}
  /\ Unwind(c, "final")
  /\ UNCHANGED <<keyLimit, gates, client, events>>

\* ResourceGateTimeout, at the semaphore or at the slot files.
TimeOut(c) ==
  /\ \/ call[c].at = "sem" /\ UNCHANGED taken
     \/ call[c].at = "slot" /\ PermitsOf(c, PermitsUsed(c) - 1)
  /\ Unwind(c, "final")
  /\ UNCHANGED <<keyLimit, slot, client, events>>

\* The slot file is unlocked, the permit given back; a rejected key is
\* retired once the attempt has left both gates.
Leave(c) ==
  /\ call[c].at = "leave"
  /\ slot' = [slot EXCEPT ![call[c].gate] =
                [i \in DOMAIN @ |-> IF @[i] = c THEN Free ELSE @[i]]]
  /\ PermitsOf(c, PermitsUsed(c) - 1)
  /\ Unwind(c, call[c].answer)
  /\ retired' = IF call[c].gate = "total" /\ call[c].answer = "rejected"
                THEN [retired EXCEPT ![ClientOf[c]] = @ \cup {Ref(c)}]
                ELSE retired
  /\ UNCHANGED <<keyLimit, keySem, events>>

-----------------------------------------------------------------------------
(* The key: _key_slot and the request. *)

SemsOf(c) == keySem[ClientOf[c]][Ref(c)]

\* _semaphore_for_ref: a new limit makes a new semaphore, and whoever waits
\* for the old one or holds it keeps the old one.
FindKey(c) ==
  /\ call[c].at = "find_key"
  /\ LET current == SemsOf(c) # <<>> /\ Last(SemsOf(c)).limit = call[c].keyLimit
         sems == IF current THEN SemsOf(c)
                 ELSE Append(SemsOf(c), [limit |-> call[c].keyLimit, used |-> 0])
     IN  /\ keySem' = [keySem EXCEPT ![ClientOf[c]][Ref(c)] = sems]
         /\ Becomes(c, [call[c] EXCEPT !.at = "key", !.sem = Len(sems)])
  /\ UNCHANGED <<keyLimit, gates, retired, events>>

\* Without a time limit, and with both gates held.
TakeKey(c) ==
  /\ call[c].at = "key"
  /\ SemsOf(c)[call[c].sem].used < SemsOf(c)[call[c].sem].limit
  /\ keySem' = [keySem EXCEPT ![ClientOf[c]][Ref(c)][call[c].sem].used = @ + 1]
  /\ Goes(c, "request")
  /\ UNCHANGED <<keyLimit, gates, retired, events>>

\* Mutant: a rejected key is not given back.
AnswerKeepsKey(c) ==
  /\ call[c].at = "request"
  /\ \E answer \in {"final", "rejected"} :
       /\ Counts(answer = "rejected")
       /\ Becomes(c, [call[c] EXCEPT !.at = "leave", !.gate = WorkOf[c], !.sem = 0,
                                     !.answer = answer])
       /\ keySem' = IF answer = "rejected" THEN keySem
                    ELSE [keySem EXCEPT ![ClientOf[c]][Ref(c)][call[c].sem].used = @ - 1]
  /\ UNCHANGED <<keyLimit, gates, retired>>

\* A rejection of the key (401, 403, 429), or the final result: the answer or
\* another error, the deadline of the request included.
Answer(c) ==
  /\ call[c].at = "request"
  /\ \E answer \in {"final", "rejected"} :
       /\ Counts(answer = "rejected")
       /\ Becomes(c, [call[c] EXCEPT !.at = "leave", !.gate = WorkOf[c], !.sem = 0,
                                     !.answer = answer])
  /\ keySem' = [keySem EXCEPT ![ClientOf[c]][Ref(c)][call[c].sem].used = @ - 1]
  /\ UNCHANGED <<keyLimit, gates, retired>>

-----------------------------------------------------------------------------
(* The environment. *)

\* ApiKeyPool.set_key_model_config
SetLimit ==
  /\ Counts(TRUE)
  /\ \E r \in Keys : \E limit \in KeyLimits \ {keyLimit[r]} :
       keyLimit' = [keyLimit EXCEPT ![r] = limit]
  /\ UNCHANGED <<call, gates, client>>

\* _is_on_cooldown, 300 seconds after the rejection.
CoolDown(k) ==
  /\ \E r \in retired[k] : retired' = [retired EXCEPT ![k] = @ \ {r}]
  /\ UNCHANGED <<call, keyLimit, gates, keySem, events>>

\* The operating system unlocks the files of a process that dies.
Crash(p) ==
  LET dead == {c \in Calls : Running(c) /\ ProcessOf(c) = p}
      Reset(f, empty) == [k \in Clients |-> IF Home[k] = p THEN empty ELSE f[k]]
  IN  /\ Counts(TRUE)
      /\ call' = [c \in Calls |-> IF c \in dead THEN Over ELSE call[c]]
      /\ slot' = [g \in Gates |-> [i \in DOMAIN slot[g] |->
                    IF slot[g][i] \in dead THEN Free ELSE slot[g][i]]]
      /\ taken' = [taken EXCEPT ![p] = [g \in Gates |-> FullGate]]
      /\ retired' = Reset(retired, {}) /\ keySem' = Reset(keySem, NoSems)
      /\ UNCHANGED keyLimit

Step(c) == \/ Prepare(c) \/ TakePermit(c) \/ TakeSlot(c) \/ Leave(c)
           \/ FindKey(c) \/ TakeKey(c) \/ Answer(c)

Next ==
  \/ \E c \in Calls : Begin(c) \/ Step(c) \/ TimeOut(c)
  \/ SetLimit
  \/ \E k \in Clients : CoolDown(k)
  \/ \E p \in Processes : Crash(p)

\* Some thread that can run does: a free file is found by the next scan and
\* every request has a deadline; that a wait times out is not relied upon.
Fairness == WF_vars(\E c \in Calls : Step(c))

Spec == Init /\ [][Next]_vars
FairSpec == Spec /\ Fairness

-----------------------------------------------------------------------------
(* Properties *)

\* The gates a call is through.
Passed(c) ==
  IF ~Running(c) \/ call[c].at = "prepare" THEN {}
  ELSE IF call[c].at \in {"sem", "slot"} THEN (IF call[c].gate = "total" THEN {} ELSE {"total"})
  ELSE IF call[c].at = "leave" THEN {"total", call[c].gate}
  ELSE {"total", WorkOf[c]}

\* Whatever limits the calls of all processes have read, those that are
\* through a gate with a limit of at most n are at most n: a lowered budget
\* is exceeded only by calls that had read a higher one (_acquire_resource).
WithinBudget ==
  \A g \in Gates, n \in 1..MaxTotal :
    Cardinality({c \in Calls : g \in Passed(c) /\ Limits[call[c].total][g] <= n}) <= n

\* A process whose calls have all ended, by an answer, an error or a
\* time-out at any gate, has all its permits, a client all the semaphores of
\* its keys, those of earlier limits included, and no file is locked for a
\* call that is not through its gate (the nested contexts of acquire_llm).
NothingLeaks ==
  /\ \A p \in Processes :
       (\A c \in Calls : Running(c) => ProcessOf(c) # p) => \A g \in Gates : taken[p][g] = FullGate
  /\ \A k \in Clients :
       (\A c \in Calls : Running(c) => ClientOf[c] # k)
         => \A r \in Keys : \A i \in DOMAIN keySem[k][r] : keySem[k][r][i].used = 0
  /\ \A g \in Gates : \A i \in DOMAIN slot[g] : slot[g][i] # Free => g \in Passed(slot[g][i])

\* Calls of any processes that wait for each other's gates and keys, with
\* whatever limits, all come to an end without a time-out.
CallsEnd == <>[](\A c \in Calls : ~Running(c))

\* The gate's documentation: background work cannot consume every model slot
\* while foreground conversations are waiting.
BackgroundLeavesRoom ==
  \A c \in Calls :
    call[c].at \in {"sem", "slot"} /\ call[c].gate = "total" /\ WorkOf[c] = "interactive"
      /\ call[c].total > 1
    => \E i \in 0..(call[c].total - 1) :
         slot["total"][i] = Free \/ WorkOf[slot["total"][i]] = "interactive"
=============================================================================
