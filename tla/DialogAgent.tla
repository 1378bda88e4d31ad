---------------------------- MODULE DialogAgent ----------------------------
(***************************************************************************)
(* One conversation from the collector's file to the reply:                *)
(* HookEventJsonlImporter copies the source file to the backend event bus, *)
(* ticks of the dialog agent read the bus from a persisted cursor, pass    *)
(* every message through MessageProcessor.process, answer what is left     *)
(* pending (_agent_generate_proactive_replies) and save the cursor.  The   *)
(* reply gate hands replies to an operator or to the bridge, which SendBridge *)
(* describes, and WeChat echoes a delivered reply back as a message.       *)
(*                                                                         *)
(* Ticks are serialized (_AGENT_TICK_LOCK, sidebar_agent_tick.lock), and   *)
(* so is what they do to the ledger; the process may stop between any two  *)
(* writes.  Texts are distinct, so the text of an echo names its reply.    *)
(***************************************************************************)
EXTENDS Naturals, Sequences, FiniteSetsExt

CONSTANTS
  Kinds,      \* kinds of messages the collector may write
  Modes,      \* send modes the gate may run in
  MaxEvents,  \* bound: lines of the source file
  MaxPending, \* bound: replies to pending turns
  MaxDecisions, \* bound: replies the operator decides
  MaxFaults   \* bound: crashes, failed handlers, generations and appends

ASSUME KindsAssumption ==
  Kinds \subseteq {"user", "owner", "reset", "history", "recall", "echo"}
ASSUME ModesAssumption == Modes \subseteq {"dry_run", "confirm", "auto"}
ASSUME BoundsAssumption ==
  MaxEvents \in Nat /\ MaxFaults \in Nat /\ MaxPending \in Nat /\ MaxDecisions \in Nat

VARIABLES
  source,    \* lines of the hook source file, an event each
  offset,    \* persisted offset of the importer, in lines
  bus,       \* backend event bus
  cursor,    \* persisted cursor of the ticks over the whole bus
  done,      \* ids the deduper has marked
  ledger,    \* entries of the conversation; the index is the sequence
  session,   \* current session, counted
  group,     \* conversation type
  mode,      \* send mode
  out,       \* what became of the reply of each ledger entry outside
  at,        \* step of the running tick
  read,      \* its driver's read offset
  batch,     \* messages still to be processed: event and context_only
  reply,     \* the answer in hand: its index in the ledger, its send result
  error,     \* the tick ends with an exception
  faults,    \* faults so far
  failed,    \* history: ids whose handler raised
  early      \* history: replies decided before their result was projected

intake == <<source, offset, bus>>
store == <<cursor, done, ledger, session>>
tick == <<at, read, batch, reply, error>>
world == <<group, mode, out, early>>
vars == <<intake, store, tick, world, faults, failed>>

NoReply == [index |-> 0, result |-> "none"]
Message(n) == [kind |-> "message", mark |-> 0, of |-> {n}]

\* An entry of the ledger that belongs to a message or to a reply.
Entry(role, key, actionable, send) ==
  [role |-> role, key |-> key, state |-> "active", sess |-> session,
   act |-> actionable, send |-> send]

Init ==
  /\ source = <<>> /\ offset = 0 /\ bus = <<>>
  /\ cursor = 0
  /\ done = {} /\ ledger = <<>> /\ session = 0
  /\ group \in BOOLEAN /\ mode \in Modes
  /\ out = <<>>
  /\ at = "idle" /\ read = 0 /\ batch = <<>>
  /\ reply = NoReply /\ error = FALSE
  /\ faults = 0 /\ failed = {} /\ early = {}

Fault == faults < MaxFaults /\ faults' = faults + 1

-----------------------------------------------------------------------------
(* The collector and the importer. *)

\* What a line may point at: the message a recall names, the reply an echo
\* repeats once it has reached WeChat, once.
Targets(kind) ==
  CASE kind = "recall" -> {n \in 1..Len(source) : source[n].kind = "user"}
    [] kind = "echo" -> {i \in 1..Len(out) :
         /\ out[i] \in {"shown", "acked"}
         /\ \A n \in 1..Len(source) : ~ (source[n].kind = "echo" /\ source[n].of = i)}
    [] OTHER -> {0}

Collect ==
  /\ Len(source) < MaxEvents
  /\ \E kind \in Kinds : \E of \in Targets(kind) :
       source' = Append(source, [id |-> Len(source) + 1, kind |-> kind, of |-> of])
  /\ UNCHANGED <<offset, bus, store, tick, world, faults, failed>>

\* Mutant: the bus takes a line again that it already has.
AddAlways(lines, new) == Append(lines, new)

\* append_jsonl_once: the key index is that of the file.
AddOnce(lines, new) ==
  IF \E n \in 1..Len(lines) : lines[n].id = new.id THEN lines ELSE Append(lines, new)

\* The bus when the lines after the offset have been imported up to one.
BusAfter[last \in 0..Len(source)] ==
  IF last <= offset THEN bus ELSE AddOnce(BusAfter[last - 1], source[last])

\* A run of the importer; a tick meanwhile sees the bus as if fewer lines
\* had been collected.
Import ==
  /\ offset < Len(source)
  /\ bus' = BusAfter[Len(source)]
  /\ offset' = Len(source)
  /\ UNCHANGED <<source, store, tick, world, faults, failed>>

\* Mutant: the line whose append failed is passed over.
ImportPassesFailure ==
  /\ offset < Len(source) /\ Fault
  /\ \E last \in offset..(Len(source) - 1) :
       bus' = BusAfter[last] /\ offset' = last + 1
  /\ UNCHANGED <<source, store, tick, world, failed>>

\* The process stops before the state file is written, or the append of a
\* line raises, before or after it was written: its offset stays.
ImportFails ==
  /\ offset < Len(source) /\ Fault
  /\ \E last \in offset..Len(source) :
       /\ bus' = BusAfter[last]
       /\ offset' \in {offset, last, last - 1} \cap (offset..(Len(source) - 1))
  /\ UNCHANGED <<source, store, tick, world, failed>>

-----------------------------------------------------------------------------
(* A tick reads the bus and takes the messages one after the other. *)

Live(line) == line.kind \notin {"history", "recall"}
Candidate(line) == line.kind = "user"

\* _defer_non_latest_live_messages: only the last live message of a batch is
\* answered, an earlier one is read for context.
Deferred(lines) ==
  LET last == Max({0} \cup {n \in 1..Len(lines) : Live(lines[n])})
  IN  [n \in 1..Len(lines) |->
         [line |-> lines[n],
          context |-> ~ Live(lines[n]) \/ (Candidate(lines[n]) /\ n < last)]]

\* Mutant: the cursor moves on when the batch is read.
ReadAndSave(first) ==
  /\ batch' = Deferred(SubSeq(bus, first + 1, Len(bus)))
  /\ read' = Len(bus)
  /\ cursor' = Len(bus)

ReadFrom(first) ==
  /\ batch' = Deferred(SubSeq(bus, first + 1, Len(bus)))
  /\ read' = Len(bus)
  /\ UNCHANGED cursor

\* A tick resumes at the cursor or replays the bus.  A tick for chosen
\* talkers has a cursor of its own, which may be anywhere behind.
StartTick ==
  /\ at = "idle"
  /\ \E first \in 0..cursor : ReadFrom(first)
  /\ at' = "admit" /\ reply' = NoReply /\ error' = FALSE
  /\ UNCHANGED <<intake, done, ledger, session, world, faults, failed>>

line == Head(batch).line
Processing == batch # <<>>
Leave == at' = "admit" /\ batch' = Tail(batch) /\ reply' = NoReply
MarkDone == done' = done \cup {line.id}

\* Router.decide and maybe_reset_for_message.  A duplicate is recognized
\* before the channel's admission is asked, and never resets the session.
Admit ==
  /\ at = "admit" /\ Processing
  /\ \/ line.id \notin done /\ MarkDone /\ Leave /\ UNCHANGED session
     \/ /\ at' = "record"
        /\ session' = IF line.kind = "reset" /\ line.id \notin done
                      THEN session + 1 ELSE session
        /\ UNCHANGED <<done, batch, reply>>
  /\ UNCHANGED <<intake, cursor, ledger, read, error, world, faults, failed>>

\* mark_recalled: every active entry of the message, its answer included.
Recalled(target) ==
  [i \in 1..Len(ledger) |->
     IF ledger[i].key = Message(target) THEN [ledger[i] EXCEPT !.state = "recalled"]
                                        ELSE ledger[i]]

Echoed(i) == ledger[i].role = "assistant" /\ ledger[i].send \in {"queued_to_bridge", "sent"}

\* Whether the text has something an answer can be about.
Actionable(fresh) ==
  \/ line.kind = "user"
  \/ line.kind = "reset" /\ ~ fresh

\* append_message_result: a known message is rewritten in place, with the
\* session of now; the echo of a reply confirms it; anything else is new.
LedgerWith(fresh) ==
  LET known == {i \in 1..Len(ledger) : ledger[i].key = Message(line.id)}
      role == IF line.kind \in {"owner", "echo"} THEN "self" ELSE "user"
  IN  IF known # {}
      THEN [ledger EXCEPT ![Min(known)].sess = session, ![Min(known)].act = Actionable(fresh)]
      ELSE IF line.kind = "echo" /\ Echoed(line.of)
      THEN [ledger EXCEPT ![line.of].send = "sent"]
      ELSE Append(ledger, Entry(role, Message(line.id), Actionable(fresh), "none"))

Created(fresh) == Len(LedgerWith(fresh)) > Len(ledger)

\* Mutant: a message that was recorded before is answered again.
RetryAlways(fresh) == line.kind = "user" /\ fresh /\ ~ Head(batch).context

\* _should_retry_existing_message
RetryExisting(fresh) ==
  /\ line.kind = "user" /\ fresh /\ ~ Head(batch).context
  /\ \A i \in 1..Len(ledger) : ~ (ledger[i].role = "assistant" /\ ledger[i].key = Message(line.id))

\* Mutant: context is answered like a live message.
WantsAnswerInContext(fresh) ==
  line.kind \in {"user", "history"} /\ fresh /\ (Created(fresh) \/ RetryExisting(fresh))

WantsAnswer(fresh) ==
  /\ line.kind = "user" /\ fresh /\ ~ Head(batch).context
  /\ Created(fresh) \/ RetryExisting(fresh)

Record ==
  /\ at = "record"
  /\ LET fresh == line.id \notin done
     IN  IF line.kind = "recall"
         THEN ledger' = Recalled(line.of) /\ MarkDone /\ Leave /\ UNCHANGED out
         ELSE /\ ledger' = LedgerWith(fresh)
              /\ out' = IF Created(fresh) THEN Append(out, "none") ELSE out
              /\ IF WantsAnswer(fresh)
                 THEN at' = "answer" /\ UNCHANGED <<done, batch, reply>>
                 ELSE MarkDone /\ Leave
  /\ UNCHANGED <<intake, cursor, session, read, error, group, mode, early,
                  faults, failed>>

-----------------------------------------------------------------------------
(* Answers. *)

AppendReply(key) ==
  /\ ledger' = Append(ledger, Entry("assistant", key, FALSE, "candidate"))
  /\ out' = Append(out, "none")
  /\ reply' = [index |-> Len(ledger) + 1, result |-> "none"]
  /\ at' = "gate"

\* In a group the classifier or the cooldown may keep silent.
Answer ==
  /\ at = "answer"
  /\ \/ AppendReply(Message(line.id)) /\ UNCHANGED <<done, batch>>
     \/ group /\ MarkDone /\ Leave /\ UNCHANGED <<ledger, out>>
  /\ UNCHANGED <<intake, cursor, session, read, error, group, mode, early,
                  faults, failed>>

\* ReplyGate.handle
Gate ==
  /\ at = "gate"
  /\ \E result \in CASE mode = "dry_run" -> {"skipped"}
                     [] mode = "confirm" -> {"queued_for_confirm"}
                     [] mode = "auto" -> {"queued_to_bridge", "failed"} :
       /\ reply' = [reply EXCEPT !.result = result]
       /\ out' = [out EXCEPT ![reply.index] =
                    CASE result = "queued_for_confirm" -> "review"
                      [] result = "queued_to_bridge" -> "staged"
                      [] OTHER -> @]
  /\ at' = "project"
  /\ UNCHANGED <<intake, store, read, batch, error, group, mode, early,
                  faults, failed>>

\* Mutant: the reply is handed to the bridge before the ledger knows.
ProjectNothing ==
  /\ at = "project" /\ at' = "release"
  /\ UNCHANGED <<intake, store, read, batch, reply, error, world, faults, failed>>

\* update_reply_send_result keeps a final status.
Project ==
  /\ at = "project"
  /\ ledger' = IF /\ ledger[reply.index].send \in {"sent", "failed"}
                  /\ reply.result \in {"queued_for_confirm", "queued_to_bridge"}
               THEN ledger
               ELSE [ledger EXCEPT ![reply.index].send = reply.result]
  /\ at' = "release"
  /\ UNCHANGED <<intake, cursor, done, session, read, batch, reply, error, world, faults, failed>>

\* activate_staged, or fail_staged when the task projection or the
\* activation failed; only a staged record changes.
Release ==
  /\ at = "release"
  /\ \/ out[reply.index] = "staged" /\ \E to \in {"live", "dead"} : out' = [out EXCEPT ![reply.index] = to]
     \/ out[reply.index] # "staged" /\ UNCHANGED out
  /\ at' = "finish"
  /\ UNCHANGED <<intake, store, read, batch, reply, error, group, mode, early,
                  faults, failed>>

Finish ==
  /\ at = "finish"
  /\ IF Processing THEN MarkDone /\ Leave
                   ELSE at' = "save" /\ UNCHANGED <<done, batch, reply>>
  /\ UNCHANGED <<intake, cursor, ledger, session, read, error, world, faults, failed>>

-----------------------------------------------------------------------------
(* What is pending after the batch, and the end of a tick. *)

InSession == {i \in 1..Len(ledger) : ledger[i].state = "active" /\ ledger[i].sess = session}

\* _agent_assistant_entry_settles_pending
Settles(i) ==
  \/ ledger[i].role = "self"
  \/ ledger[i].role = "assistant" /\ ledger[i].send \notin {"failed", "candidate"}

Pending == {i \in InSession : ledger[i].act /\ \A j \in InSession : j > i => ~ Settles(j)}

\* A reply that was not seen keeps the turn closed until a newer message.
Unseen == \E j \in InSession : ledger[j].role = "assistant" /\ \A i \in Pending : j > i

\* The turn an answer would be for, none or one: what is pending, or what
\* the owner wrote in a session without replies.
Turns ==
  IF Pending # {} THEN IF Unseen THEN {} ELSE {[kind |-> "pending", from |-> Pending]}
  ELSE {t \in {[kind |-> "greeting", from |-> InSession]} :
          /\ InSession # {}
          /\ ledger[Max(InSession)].role = "self"
          /\ \A i \in InSession : ledger[i].role # "assistant"}

\* _agent_proactive_message: the answer is identified by its source.
ProactiveKey(turn) ==
  [kind |-> turn.kind, mark |-> Max(turn.from), of |-> UNION {ledger[i].key.of : i \in turn.from}]

\* _agent_stale_proactive_reply_reason and append_reply_if_latest
IsLatest(turn) ==
  /\ Max(turn.from) = Len(ledger)
  /\ \A i \in 1..Len(ledger) :
       ~ (ledger[i].role = "assistant" /\ ledger[i].key = ProactiveKey(turn))

AnswerPending ==
  /\ at = "admit" /\ ~ Processing
  /\ ~ group
  /\ Cardinality({i \in 1..Len(ledger) :
       ledger[i].role = "assistant" /\ ledger[i].key.kind # "message"}) < MaxPending
  /\ \E turn \in Turns : IsLatest(turn) /\ AppendReply(ProactiveKey(turn))
  /\ UNCHANGED <<intake, cursor, done, session, read, batch, error, group, mode,
                 early, faults, failed>>

\* Nothing is pending, or the text is empty, repeats a reply or is stale.
AnswerNothing ==
  /\ at = "admit" /\ ~ Processing
  /\ at' = "save"
  /\ UNCHANGED <<intake, store, read, batch, reply, error, world, faults, failed>>

EndTick ==
  /\ at' = "idle" /\ read' = 0
  /\ batch' = <<>> /\ reply' = NoReply /\ error' = FALSE

\* _record_agent_tick_state: a tick that raised saves an empty cursor.  The
\* cursor of another scope is not this one.
Save ==
  /\ at = "save"
  /\ cursor' \in {cursor, IF error THEN 0 ELSE read}
  /\ EndTick
  /\ UNCHANGED <<intake, done, ledger, session, world, faults, failed>>

\* A handler that raises, a failed generation too, costs its message only;
\* an exception after the batch ends the tick.
Raises ==
  /\ at \notin {"idle", "save"} /\ Fault
  /\ IF Processing
     THEN Leave /\ failed' = failed \cup {line.id} /\ UNCHANGED error
     ELSE at' = "save" /\ error' = TRUE /\ UNCHANGED <<batch, reply, failed>>
  /\ UNCHANGED <<intake, store, read, world>>

Crash ==
  /\ at # "idle" /\ Fault
  /\ EndTick
  /\ UNCHANGED <<intake, store, world, failed>>

-----------------------------------------------------------------------------
(* The operator and the bridge. *)

Outside(i, before, after, status) ==
  /\ out[i] = before
  /\ out' = [out EXCEPT ![i] = after]
  /\ ledger' = IF status = "kept" THEN ledger ELSE [ledger EXCEPT ![i].send = status]
  /\ UNCHANGED <<intake, cursor, done, session, tick, group, mode,
                 faults, failed>>

Decide(i) ==
  /\ Cardinality({j \in 1..Len(out) : out[j] \notin {"none", "review"}}) < MaxDecisions
  /\ \/ Outside(i, "review", "approved", "approved")
     \/ Outside(i, "review", "closed", "rejected")
  /\ UNCHANGED early

\* send_approved_confirm_item projects before it activates, and fails the
\* record when the projection failed.
SendApproved(i) ==
  /\ \/ Outside(i, "approved", "live", "queued_to_bridge")
     \/ Outside(i, "approved", "dead", "kept")
  /\ early' = IF reply.index = i /\ at = "project" THEN early \cup {i} ELSE early

\* The bridge shows the reply in WeChat or refuses it, and the ledger
\* learns of it later.
Deliver(i) ==
  /\ \/ Outside(i, "live", "shown", "kept")
     \/ Outside(i, "live", "dead", "kept")
  /\ UNCHANGED early

Acknowledge(i) ==
  /\ \/ Outside(i, "shown", "acked", "sent")
     \/ Outside(i, "dead", "closed", "failed")
  /\ UNCHANGED early

Agent == \/ StartTick \/ Admit \/ Record \/ Answer \/ Gate \/ Project \/ Release
         \/ Finish \/ AnswerPending \/ AnswerNothing \/ Save

Next ==
  \/ Collect \/ Import \/ ImportFails
  \/ Agent \/ Raises \/ Crash
  \/ \E i \in 1..Len(out) : Decide(i) \/ SendApproved(i) \/ Deliver(i) \/ Acknowledge(i)

\* The pull worker and the agent worker loop as long as the server runs.
Fairness == WF_vars(Import) /\ WF_vars(Agent)

Spec == Init /\ [][Next]_vars
FairSpec == Spec /\ Fairness

-----------------------------------------------------------------------------
(* Properties. *)

Events == [id : 1..MaxEvents, kind : Kinds, of : Nat]
Sends == {"none", "candidate", "skipped", "queued_for_confirm", "approved", "rejected",
          "queued_to_bridge", "sent", "failed"}

\* Every variable keeps its type; the ledger and what is known outside of
\* its replies have the same length.
TypeOK ==
  /\ source \in Seq(Events) /\ bus \in Seq(Events)
  /\ offset \in 0..MaxEvents
  /\ cursor \in 0..MaxEvents /\ read \in 0..MaxEvents
  /\ done \subseteq 1..MaxEvents /\ failed \subseteq 1..MaxEvents
  /\ session \in Nat /\ group \in BOOLEAN /\ mode \in Modes
  /\ Len(out) = Len(ledger)
  /\ \A i \in 1..Len(ledger) :
       /\ ledger[i].role \in {"user", "self", "assistant"} /\ ledger[i].send \in Sends
       /\ ledger[i].state \in {"active", "recalled"} /\ ledger[i].sess \in 0..session
       /\ ledger[i].key.of \subseteq 1..MaxEvents
       /\ out[i] \in {"none", "review", "approved", "staged", "live", "shown", "acked",
                      "dead", "closed"}
  /\ \A n \in 1..Len(batch) : batch[n].line \in Events /\ batch[n].context \in BOOLEAN
  /\ at \in {"idle", "admit", "record", "answer", "gate", "project", "release", "finish", "save"}
  /\ reply.index \in 0..Len(ledger)
  /\ early \subseteq 1..Len(ledger)

\* However the importer stops, the bus holds every line before the offset,
\* once and in the order of the source (HookEventJsonlImporter).
ImportedInOrder ==
  /\ Len(bus) <= Len(source) /\ offset <= Len(bus)
  /\ \A n \in 1..Len(bus) : bus[n] = source[n]

\* A cursor never moves past a message that was neither processed nor lost
\* to an exception of its own handler, whatever crash interrupts a tick
\* (_record_agent_tick_state after PollingRunner).
PassedIsProcessed ==
  \A n \in 1..cursor : bus[n].id \in done \cup failed

\* A message, and a pending turn, has one reply in the ledger at most,
\* although ticks of several scopes read the bus again and again and may
\* stop between the reply and the mark (_should_retry_existing_message,
\* append_reply_if_latest).
OneReplyPerAnswer ==
  \A i, j \in 1..Len(ledger) :
    /\ ledger[i].role = "assistant" /\ ledger[j].role = "assistant"
    /\ ledger[i].key = ledger[j].key
    => i = j

\* The echo of a reply confirms it and is never recorded as a message of
\* the owner, unless the operator sent the reply before the gate's own result
\* was projected (_find_assistant_entry_for_self_echo).
EchoConfirmsReply ==
  \A i \in 1..Len(ledger) : ledger[i].role = "self" =>
    \A n \in ledger[i].key.of : source[n].kind = "echo" => source[n].of \in early

\* History that is filled in is never answered, directly or as part of a
\* pending turn (long-term invariant 6 of the project plan).
HistoryNeverAnswered ==
  \A i \in 1..Len(ledger) :
    ledger[i].role = "assistant" /\ ledger[i].key.kind # "greeting" =>
      \A n \in ledger[i].key.of : source[n].kind # "history"

\* Every line of the source file is processed in the end, unless its own
\* handler failed (the import loop and the agent's loop).
EverythingProcessed == []<>(\A n \in 1..Len(source) : n \in done \cup failed)
=============================================================================
