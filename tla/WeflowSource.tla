---------------------------- MODULE WeflowSource ----------------------------
(***************************************************************************)
(* How messages get from WeFlow's database to the collector's file         *)
(* hook_events.jsonl (wechat_driver/hook_source_bridge.py, jsonl_bus.py):  *)
(* pulls of one conversation after the other, by the sidebar's worker and  *)
(* by the command line, backfills, the bootstrap of an empty conversation, *)
(* the listener of pushed events, and the history reset.                   *)
(*                                                                         *)
(* A pull holds the lock of its conversation from reading the state to     *)
(* merging it, but other conversations, the listener and WeFlow go on in   *)
(* between, and it may fail or die after any message.  The state file has  *)
(* a lock of its own, which the listener does not take: it writes its copy *)
(* of the whole file after each event.  What saves the day is that a raw   *)
(* id is appended once, by the index beside the file.                      *)
(***************************************************************************)
EXTENDS Naturals, FiniteSetsExt

CONSTANTS
  Talkers,     \* conversations
  Msgs,        \* messages of all conversations
  TalkerOf,    \* the conversation of each message
  Pullers,     \* processes that pull: the sidebar, the command line
  Sidebar,     \* the one that also backfills and bootstraps
  Overlap,     \* how far a pull looks back behind its cursor (2 s)
  Lag,         \* how long a message may take to be visible in WeFlow
  Lookback,    \* where the first pull of a conversation starts (300 s)
  PageSize,    \* messages per page
  MaxClock,    \* bound: seconds
  Budgets      \* bound: how often each kind of Event may happen in a behaviour

Events == {"arrive", "delete", "backfill", "cli", "listen", "reset", "fault"}

ASSUME MsgsAssumption == TalkerOf \in [Msgs -> Talkers] /\ Talkers # {} /\ IsFiniteSet(Msgs)
ASSUME PullersAssumption == Sidebar \in Pullers
ASSUME TimesAssumption == {Overlap, Lag, Lookback} \subseteq Nat /\ Lag <= Overlap
ASSUME BoundsAssumption == /\ {PageSize, MaxClock} \subseteq Nat \ {0}
                           /\ Budgets \subseteq [Events -> Nat]

Never == 0                            \* not sent yet; time starts at 1
NoCursor == MaxClock + 1
Delete(m) == <<"delete", m>>          \* raw id of the recall a pull infers
RawIds == Msgs \cup {Delete(m) : m \in Msgs}
ASSUME RawIdsAssumption == \A m \in Msgs : Delete(m) \notin Msgs

VARIABLES
  clock,
  stamp,       \* [Msgs -> time of the message, or Never while not in WeFlow]
  gone,        \* messages deleted there
  copies,      \* [RawIds -> lines with that id in the hook file]
  live,        \* messages whose first line is not context_only
  index,       \* the raw ids of the sidecar index
  fresh,       \* whether the index matches the file
  epoch,       \* history_reset_epoch of the state file, 0: none
  cursor,      \* [Talkers -> "since" of the state file, or NoCursor]
  recent,      \* [Talkers -> recent_raw_ids]
  seen,        \* seen_raw_ids, of all conversations
  pull,        \* [Pullers -> the pull in progress]
  sse,         \* the listener: its copy of the state
  heard,       \* weflow_sse_seen
  budget,      \* what is left of the bound of this behaviour
  resetAt,     \* history: when the history was last reset, 0: never
  skipped,     \* history: messages a pull was told to leave out
  calm         \* history: messages sent while nobody was reading history, and
               \* not before the time from which the first pull looks

weflow == <<clock, stamp, gone>>
file == <<copies, live, index, fresh>>
state == <<epoch, cursor, recent, seen>>
history == <<resetAt, skipped, calm>>
vars == <<weflow, file, state, pull, sse, heard, budget, history>>

Minus(a, b) == IF a > b THEN a - b ELSE 0

Spend(e) == budget[e] > 0 /\ budget' = [budget EXCEPT ![e] = @ - 1]

-----------------------------------------------------------------------------
(* WeFlow and its users. *)

Held(t) == {m \in Msgs : TalkerOf[m] = t /\ stamp[m] # Never /\ m \notin gone}

\* _session_last_message_at of the session list.
LastMessageAt(t) == Max({stamp[m] : m \in Held(t)} \cup {0})

\* GET /messages: what is not older than start, the newest first (WeFlow's
\* order).  Two messages of a conversation have different stamps, so the place
\* of a message is the number of those before it.
Window(t, start) == {m \in Held(t) : stamp[m] >= start}
Place(m, w) == Cardinality({n \in w : stamp[n] > stamp[m]})

Tick ==
  /\ clock < MaxClock
  /\ clock' = clock + 1
  /\ UNCHANGED <<stamp, gone, file, state, pull, sse, heard, budget, history>>

\* A history pull, or one that may turn out to be a recovery, with the last
\* message it read from the session list (a listener may put an old state back).
ReadsHistory(p) ==
  /\ pull[p].pc # "idle"
  /\ \/ pull[p].kind # "pull"
     \/ pull[p].history
     \/ pull[p].pc = "listed" /\ (seen = {} \/ (sse.on /\ sse.seen = {}))

Arrive(m) ==
  /\ stamp[m] = Never
  /\ \E s \in Max({1, Minus(clock, Lag)}) .. clock :
       /\ \A n \in Held(TalkerOf[m]) : stamp[n] # s
       /\ stamp' = [stamp EXCEPT ![m] = s]
       /\ calm' = IF s > resetAt /\ \A p \in Pullers : pull[p].talker = TalkerOf[m] => ~ReadsHistory(p)
                  THEN calm \cup {m} ELSE calm
  /\ Spend("arrive")
  /\ UNCHANGED <<clock, gone, file, state, pull, sse, heard, resetAt, skipped>>

\* A deletion between two pages moves the next page: one message falls between.
DeleteMessage(m) ==
  /\ stamp[m] # Never /\ m \notin gone
  /\ gone' = gone \cup {m}
  /\ skipped' = IF \E p \in Pullers : pull[p].talker = TalkerOf[m] /\ pull[p].pages > 0
                THEN skipped \cup {n \in Held(TalkerOf[m]) : stamp[n] < stamp[m]} ELSE skipped
  /\ Spend("delete")
  /\ UNCHANGED <<clock, stamp, file, state, pull, sse, heard, resetAt, calm>>

-----------------------------------------------------------------------------
(* The hook file: append_jsonl_once, one section of the file's lock.       *)

Recorded == {r \in RawIds : copies[r] > 0}

\* Mutant: an index made before the last line was appended is believed.
IndexedIds == index

\* The keys the append compares with: the index, or what the file holds when
\* the index was made for another state of the file.
KnownIds == IF fresh THEN index ELSE Recorded

\* One new line, by a writer that survives (indexed) or dies before the index.
AppendOnce(r, isLive, indexed) ==
  LET new == r \notin KnownIds IN
  /\ copies' = IF new THEN [copies EXCEPT ![r] = @ + 1] ELSE copies
  /\ live' = IF new /\ isLive /\ copies[r] = 0 THEN live \cup {r} ELSE live
  /\ index' = IF indexed THEN KnownIds \cup {r} ELSE IF new THEN {} ELSE index
  /\ fresh' = IF new THEN indexed ELSE indexed \/ fresh

\* Everything that is newer than the last reset.
IsNew(m, e) == e = 0 \/ stamp[m] > e

-----------------------------------------------------------------------------
(* Pulls: pull_once, _pull_session_once.                                   *)

Idle == [pc |-> "idle", talker |-> CHOOSE t \in Talkers : TRUE, kind |-> "pull", last |-> 0,
         epoch |-> 0, from |-> 0, history |-> FALSE, got |-> {}, new |-> {},
         todo |-> {}, recalls |-> {}, pages |-> 0, empty |-> FALSE]

SetPull(p, record) == pull' = [pull EXCEPT ![p] = record]

Step(p, pc) == pull[p].pc = pc

\* The session list is read before any conversation is locked.
List(p, t, kind) ==
  /\ Step(p, "idle")
  /\ SetPull(p, [Idle EXCEPT !.pc = "listed", !.talker = t, !.kind = kind,
                             !.last = LastMessageAt(t)])
  /\ calm' = IF kind = "pull" THEN calm ELSE calm \ {m \in Msgs : TalkerOf[m] = t /\ copies[m] = 0}
  /\ UNCHANGED <<weflow, file, state, sse, heard, resetAt, skipped>>

\* A tick of the sidebar's worker, or a pull it is asked for.
WorkerPull(p) ==
  /\ p = Sidebar
  /\ \E t \in Talkers : List(p, t, "pull")
  /\ UNCHANGED budget

CliPull(p) ==
  /\ p # Sidebar
  /\ \E t \in Talkers : List(p, t, "pull")
  /\ Spend("cli")

Backfill(p) ==
  /\ p = Sidebar
  /\ \E t \in Talkers : List(p, t, "backfill")
  /\ Spend("backfill")

\* The pull brought nothing, and the ledger has nothing of the conversation: the agent
\* fills it later, so whatever the file holds.
Bootstrap(p) ==
  /\ p = Sidebar /\ pull[p].empty
  /\ List(p, pull[p].talker, "bootstrap")
  /\ UNCHANGED budget

TalkerFree(p) ==
  \A q \in Pullers \ {p} : pull[q].talker = pull[p].talker => pull[q].pc \in {"idle", "listed"}

\* Where the pull starts: a requested 0, the cursor, the reset, or a while ago.
AfterReset(p) == pull[p].kind = "pull" /\ epoch > 0 /\ cursor[pull[p].talker] \in {0, NoCursor}
Since(p) ==
  IF pull[p].kind # "pull" THEN 0
  ELSE IF AfterReset(p) THEN epoch
  ELSE IF cursor[pull[p].talker] # NoCursor THEN cursor[pull[p].talker]
  ELSE Minus(clock, Lookback)

\* Mutant: a cursor beyond the last message is lost, whatever was seen.
CursorAhead(p) ==
  /\ pull[p].kind = "pull" /\ ~AfterReset(p)
  /\ pull[p].last > 0 /\ Since(p) > pull[p].last + Overlap

\* A cursor behind which nothing can be, while nothing was ever seen, is taken
\* back to the last message; what that finds is history.
CursorLost(p) ==
  /\ pull[p].kind = "pull" /\ ~AfterReset(p)
  /\ pull[p].last > 0 /\ Since(p) > pull[p].last + Overlap
  /\ seen = {}
From(p) == IF CursorLost(p) THEN Minus(pull[p].last, Max({Overlap, Lookback})) ELSE Since(p)
\* Mutant: the pull starts at its cursor.
StartAtCursor(p) == From(p)
Start(p) == Minus(From(p), Overlap)
History(p) == pull[p].kind # "pull" \/ CursorLost(p)

\* raw_message_pages: a page, whether there are more, and whether the pull
\* goes on to the next one.
Offset(p) == pull[p].pages * PageSize
Page(p, w) == {m \in w : Place(m, w) \in Offset(p)..(Offset(p) + PageSize - 1)}
HasMore(p, w) == Cardinality(w) > Offset(p) + PageSize
Onward(p, w) == HasMore(p, w) /\ pull[p].kind = "backfill"

\* Mutant: what left the window counts as missing.
MissingAnywhere(before, got, start) == before \ got

\* _synthetic_recalls_for_missing_recent_messages, of a complete window.
Missing(before, got, start) == {m \in before \ got : stamp[m] >= start}
Recalls(before, got, start, complete) ==
  IF complete /\ got # {} THEN {Delete(m) : m \in Missing(before, got, start)} ELSE {}

\* With the conversation's lock: the state, then the first page.
Read(p) ==
  /\ Step(p, "listed") /\ TalkerFree(p)
  /\ LET t == pull[p].talker
         start == Start(p)
         w == Window(t, start)
         got == Page(p, w)
         known == IF pull[p].kind = "bootstrap" THEN {} ELSE seen IN
     /\ SetPull(p, [pull[p] EXCEPT
          !.pc = IF Onward(p, w) THEN "fetching" ELSE "writing", !.last = 0,
          !.epoch = epoch, !.from = From(p), !.history = History(p),
          !.got = got, !.new = Msgs \ known, !.todo = got \ known,
          !.recalls = Recalls(recent[t], got, start, ~HasMore(p, w) /\ ~History(p)),
          !.pages = IF Onward(p, w) THEN 1 ELSE 0])
     /\ skipped' = skipped
          \cup (IF cursor[t] = NoCursor THEN {m \in Held(t) : stamp[m] < start} ELSE {})
          \cup (IF Onward(p, w) THEN {} ELSE w \ got)
     /\ calm' = IF cursor[t] = NoCursor
                THEN calm \ {m \in Held(t) : stamp[m] < Minus(Since(p), Overlap)} ELSE calm
  /\ UNCHANGED <<weflow, file, state, sse, heard, budget, resetAt>>

\* The other pages of a backfill.
Fetch(p) ==
  /\ Step(p, "fetching")
  /\ LET w == Window(pull[p].talker, 0)
         got == pull[p].got \cup Page(p, w) IN
     SetPull(p, [pull[p] EXCEPT
       !.pc = IF Onward(p, w) THEN "fetching" ELSE "writing",
       !.got = got, !.todo = got \cap pull[p].new,
       !.pages = IF Onward(p, w) THEN pull[p].pages + 1 ELSE 0])
  /\ UNCHANGED <<weflow, file, state, sse, heard, budget, history>>

\* Whether a pull records a message as new, or as context.
Mode(p, m) == ~pull[p].history /\ IsNew(m, pull[p].epoch)

\* The next line of a pull: its messages in the order of their time, then recalls.
NextLine(p, r) ==
  IF pull[p].todo # {} THEN r \in pull[p].todo /\ \A n \in pull[p].todo : stamp[r] <= stamp[n]
  ELSE r \in pull[p].recalls

Write(p) ==
  /\ Step(p, "writing")
  /\ \E r \in pull[p].todo \cup pull[p].recalls :
       /\ NextLine(p, r)
       /\ AppendOnce(r, r \in Msgs /\ Mode(p, r), TRUE)
       /\ SetPull(p, [pull[p] EXCEPT !.todo = @ \ {r}, !.recalls = @ \ {r}])
  /\ UNCHANGED <<weflow, state, sse, heard, budget, history>>

\* _merge_weflow_state: reads the file again under its lock.
NewCursor(p) == Max({stamp[m] : m \in pull[p].got} \cup {pull[p].from})
MergedCursor(t, since) == IF cursor[t] = NoCursor THEN since ELSE Max({cursor[t], since})
MergedSeen(p) == seen \cup (pull[p].got \cap pull[p].new)

Merge(p) ==
  /\ Step(p, "writing") /\ pull[p].todo \cup pull[p].recalls = {}
  /\ LET t == pull[p].talker
         empty == pull[p].kind = "pull" /\ p = Sidebar /\ pull[p].got = {} IN
     /\ cursor' = [cursor EXCEPT ![t] = MergedCursor(t, NewCursor(p))]
     /\ recent' = [recent EXCEPT ![t] = pull[p].got]
     /\ SetPull(p, IF empty THEN [Idle EXCEPT !.talker = t, !.empty = TRUE] ELSE Idle)
  /\ seen' = MergedSeen(p)
  /\ UNCHANGED <<weflow, file, epoch, sse, heard, budget, history>>

\* WeFlow does not answer, the operator cancels, a lock times out, an append
\* fails or the process dies: the state is not merged.
Fail(p) ==
  /\ ~Step(p, "idle")
  /\ SetPull(p, Idle)
  /\ Spend("fault")
  /\ UNCHANGED <<weflow, file, state, sse, heard, history>>

\* The process dies after the line and before the index.
DieAppending(p) ==
  /\ Step(p, "writing")
  /\ \E r \in pull[p].todo \cup pull[p].recalls :
       NextLine(p, r) /\ AppendOnce(r, r \in Msgs /\ Mode(p, r), FALSE)
  /\ SetPull(p, Idle)
  /\ Spend("fault")
  /\ UNCHANGED <<weflow, state, sse, heard, history>>

-----------------------------------------------------------------------------
(* The listener: _listen_sse_leased.                                       *)

Silent == [on |-> FALSE, epoch |-> 0, cursor |-> [t \in Talkers |-> NoCursor],
           recent |-> [t \in Talkers |-> {}], seen |-> {}]

Listen ==
  /\ ~sse.on
  /\ sse' = [on |-> TRUE, epoch |-> epoch, cursor |-> cursor, recent |-> recent, seen |-> seen]
  /\ Spend("listen")
  /\ UNCHANGED <<weflow, file, state, pull, heard, history>>

\* An event is taken for known also when its line cannot be written.
Push(m) ==
  /\ sse.on /\ stamp[m] # Never /\ m \notin heard
  /\ heard' = heard \cup {m}
  /\ \/ AppendOnce(m, IsNew(m, sse.epoch), TRUE) /\ UNCHANGED budget
     \/ Spend("fault") /\ UNCHANGED file
  /\ UNCHANGED <<weflow, state, pull, sse, history>>

\* remember_state after that, and after events that carry no message: the whole old
\* copy is put back.
RememberState ==
  /\ sse.on
  /\ epoch' = sse.epoch /\ cursor' = sse.cursor /\ recent' = sse.recent /\ seen' = sse.seen
  /\ UNCHANGED <<weflow, file, pull, sse, heard, budget, history>>

\* The listener ends, or dies before the last event is remembered.
StopListening ==
  /\ sse.on
  /\ sse' = Silent
  /\ heard' \in {heard} \cup { heard \ {m} : m \in heard }
  /\ UNCHANGED <<weflow, file, state, pull, budget, history>>

-----------------------------------------------------------------------------
(* The reset: everybody who pulls or listens holds a history lease.        *)

\* Mutant: the listener has no lease.
NobodyPulls == \A p \in Pullers : Step(p, "idle")

NobodyReads == ~sse.on /\ \A p \in Pullers : Step(p, "idle")

\* _write_weflow_history_reset_barrier, then the files are deleted.
Reset ==
  /\ NobodyReads
  /\ Spend("reset")
  /\ epoch' = clock /\ resetAt' = clock
  /\ cursor' = [t \in Talkers |-> NoCursor] /\ recent' = [t \in Talkers |-> {}] /\ seen' = {}
  /\ copies' = [r \in RawIds |-> 0] /\ live' = {} /\ index' = {} /\ fresh' = TRUE
  /\ heard' = {}
  /\ pull' = [p \in Pullers |-> Idle]
  /\ calm' = {m \in calm : stamp[m] > clock}
  /\ UNCHANGED <<weflow, sse, skipped>>

-----------------------------------------------------------------------------

Init ==
  /\ clock = 1
  /\ stamp = [m \in Msgs |-> Never] /\ gone = {}
  /\ copies = [r \in RawIds |-> 0] /\ live = {} /\ index = {} /\ fresh = TRUE
  /\ epoch = 0 /\ cursor = [t \in Talkers |-> NoCursor]
  /\ recent = [t \in Talkers |-> {}] /\ seen = {}
  /\ pull = [p \in Pullers |-> Idle]
  /\ sse = Silent /\ heard = {}
  /\ budget \in Budgets
  /\ resetAt = 0 /\ skipped = {} /\ calm = {}

Pulling(p) == Read(p) \/ Fetch(p) \/ Write(p) \/ Merge(p)

Next ==
  \/ Tick
  \/ \E m \in Msgs : Arrive(m) \/ DeleteMessage(m) \/ Push(m)
  \/ \E p \in Pullers : WorkerPull(p) \/ CliPull(p) \/ Backfill(p) \/ Bootstrap(p) \/ Pulling(p)
                        \/ Fail(p) \/ DieAppending(p)
  \/ Listen \/ RememberState \/ StopListening
  \/ Reset

Spec == Init /\ [][Next]_vars

-----------------------------------------------------------------------------
(* Properties. *)

\* Pulls, pushes and deaths between a line and its index never record a
\* message, or the recall of one, twice.
RecordedOnce == \A r \in RawIds : copies[r] <= 1

\* No cursor passes a message that was not recorded: the next pull, which
\* starts Overlap before the cursor, would not see it any more.  It may be
\* late, pushed, read by two pulls at once, or in a state that the listener
\* put back.  Left out are messages older than the first cursor and those
\* beyond the page limit.
NothingMissed ==
  \A m \in Msgs :
    LET t == TalkerOf[m] IN
    /\ m \in Held(t) \ skipped /\ copies[m] = 0
    /\ cursor[t] # NoCursor
    => stamp[m] >= Minus(cursor[t], Overlap)

\* A recall is inferred only for a message that was deleted in WeFlow, never
\* for one that left the window.
OnlyDeletedRecalled == \A m \in Msgs : copies[Delete(m)] > 0 => m \in gone

\* What was sent before the history was reset is never recorded as new, by
\* no pull and no listener.
OldNeverLive == \A m \in live : stamp[m] > resetAt

\* What is sent when nobody reads history is recorded as new, so that it is
\* answered, whatever the state of the cursors, unless the operator asks for
\* a backfill first, the first pull of its conversation comes Lookback after
\* it, or it is left out as above.
NewIsLive == \A m \in calm \ skipped : copies[m] > 0 => m \in live

=============================================================================
