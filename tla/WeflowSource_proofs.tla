------------------------ MODULE WeflowSource_proofs ------------------------
(***************************************************************************)
(* Every message of WeFlow gets into the collector's file once, and as new *)
(* when it is (WeflowSource).  The invariant has three layers, each proved *)
(* from the ones before: what the file and every pull hold (BaseInv), what *)
(* is still open before any cursor or pull (OpenInv), and which pulls find *)
(* the messages that are to be answered (CalmInv).                         *)
(***************************************************************************)
EXTENDS WeflowSource, FiniteSetTheorems, WellFoundedInduction, TLAPS

-----------------------------------------------------------------------------
(* The inductive invariant. *)

Times == 0..MaxClock
PullRecord ==
  [pc : {"idle", "listed", "fetching", "writing"}, talker : Talkers,
   kind : {"pull", "backfill", "bootstrap"}, last : Times, epoch : Times, from : 0..NoCursor,
   history : BOOLEAN, got : SUBSET Msgs, new : SUBSET Msgs, todo : SUBSET Msgs,
   recalls : SUBSET {Delete(m) : m \in Msgs}, pages : Nat, empty : BOOLEAN]
StateRecord ==
  [on : BOOLEAN, epoch : Times, cursor : [Talkers -> 0..NoCursor],
   recent : [Talkers -> SUBSET Msgs], seen : SUBSET Msgs]

\* The types of the variables.
TypeOK ==
  /\ clock \in 1..MaxClock /\ stamp \in [Msgs -> Times] /\ gone \subseteq Msgs
  /\ copies \in [RawIds -> Nat] /\ live \subseteq Msgs /\ index \subseteq RawIds /\ fresh \in BOOLEAN
  /\ epoch \in Times /\ cursor \in [Talkers -> 0..NoCursor]
  /\ recent \in [Talkers -> SUBSET Msgs] /\ seen \subseteq Msgs
  /\ pull \in [Pullers -> PullRecord] /\ sse \in StateRecord /\ heard \subseteq Msgs
  /\ budget \in [Events -> Nat]
  /\ resetAt \in Times /\ skipped \subseteq Msgs /\ calm \subseteq Msgs

\* WeFlow's messages are of the past.
StampInv == (\A m \in Msgs : stamp[m] <= clock) /\ resetAt <= clock
Sent(m) == stamp[m] # Never

\* The index tells what the file holds.
IndexInv == RecordedOnce /\ (fresh => index = Recorded)

\* The file holds messages that were sent; those that are live were sent after
\* the reset; and recalls of deleted ones.
FileInv ==
  /\ \A m \in Msgs : copies[m] > 0 => Sent(m)
  /\ \A m \in live : copies[m] > 0
  /\ OldNeverLive /\ OnlyDeletedRecalled

\* What is remembered of a conversation was sent in it.
WindowOf(t, S) == \A m \in S : TalkerOf[m] = t /\ Sent(m)

\* The state and the listener's copy of it know of the same reset, and what
\* was seen is recorded.
StateInv ==
  /\ epoch = resetAt /\ (sse.on => sse.epoch = resetAt)
  /\ \A t \in Talkers : WindowOf(t, recent[t]) /\ WindowOf(t, sse.recent[t])
  /\ \A m \in seen : copies[m] > 0
  /\ sse.on => \A m \in sse.seen : copies[m] > 0

\* A pull that looks into the history.
Reading(p) == pull[p].pc \in {"fetching", "writing"}
Beginning(p) == /\ pull[p].pc \in {"idle", "listed"} /\ ~pull[p].history
                /\ pull[p].pages = 0 /\ pull[p].got = {} /\ pull[p].todo = {} /\ pull[p].recalls = {}

\* It knows of the last reset; what it got and has not to write is recorded,
\* and only a backfill goes on to further pages.
ReadingInv(p) ==
  /\ pull[p].epoch = resetAt
  /\ \A m \in Msgs \ pull[p].new : copies[m] > 0
  /\ \A m \in pull[p].got : copies[m] > 0 \/ m \in pull[p].todo
  /\ pull[p].pc = "fetching" => pull[p].kind = "backfill" /\ pull[p].from = 0 /\ pull[p].pages > 0
  /\ pull[p].pc = "writing" => pull[p].pages = 0

Pulled(p) ==
  /\ WindowOf(pull[p].talker, pull[p].got) /\ pull[p].todo \subseteq pull[p].got
  /\ \A m \in Msgs : Delete(m) \in pull[p].recalls => m \in gone
  /\ pull[p].last <= clock
  /\ Beginning(p) \/ (Reading(p) /\ ReadingInv(p))

PullsInv == \A p \in Pullers : Pulled(p)

BaseInv == TypeOK /\ StampInv /\ IndexInv /\ FileInv /\ StateInv /\ PullsInv

\* Messages that no pull found yet, and how far a cursor may be ahead of them.
Open(t) == {m \in Held(t) \ skipped : copies[m] = 0}
Ahead(m, c) == stamp[m] < Minus(c, Overlap)
BehindNone(t, c) ==
  c # NoCursor => c <= clock /\ \A m \in Open(t) : ~Ahead(m, c) /\ (c = 0 => ~Ahead(m, epoch))

CursorInv ==
  /\ \A t \in Talkers : BehindNone(t, cursor[t])
  /\ sse.on => \A t \in Talkers : BehindNone(t, sse.cursor[t])

\* What a pull leaves open arrived after it looked, or is on a later page.
Later(p, m) == Place(m, Held(pull[p].talker)) >= pull[p].pages * PageSize
Finds(p) ==
  /\ pull[p].from <= clock
  /\ \A m \in Open(pull[p].talker) :
       \/ m \in pull[p].todo
       \/ ~Ahead(m, NewCursor(p)) /\ ~Ahead(m, epoch)
       \/ pull[p].pc = "fetching" /\ Later(p, m)
PullInv == \A p \in Pullers : Reading(p) => Finds(p)

OpenInv == CursorInv /\ PullInv

\* A calm message waits for a pull that is not of history.
Calm(p, m) == m \in calm \ skipped /\ copies[m] = 0 /\ TalkerOf[m] = pull[p].talker
SeenSome == seen # {} /\ (sse.on => sse.seen # {})
Waits(p, m) ==
  /\ pull[p].pc # "idle" => pull[p].kind = "pull"
  /\ pull[p].history => m \in gone /\ m \notin pull[p].todo
  /\ pull[p].pc = "listed" /\ stamp[m] > pull[p].last /\ m \notin gone => SeenSome
CalmInv ==
  /\ NewIsLive
  /\ \A m \in calm : Sent(m) /\ stamp[m] > resetAt
  /\ \A p \in Pullers, m \in Msgs : Calm(p, m) => Waits(p, m)

IInv == BaseInv /\ OpenInv /\ CalmInv

-----------------------------------------------------------------------------
(* Sets of times and places. *)

\* Every set of naturals with a member has a least one.
LEMMA LeastNatural ==
    ASSUME NEW S \in SUBSET Nat, S # {}
    PROVE  \E n \in S : \A m \in S : n <= m
<1> DEFINE R == OpToRel(<, Nat)
<1>1. \E x \in S : \A y \in S : <<y, x>> \notin R
  <2> HIDE DEF R
  <2>1. IsWellFoundedOn(R, Nat)
    BY NatLessThanWellFounded DEF R
  <2> QED
    BY <2>1, WFMin
<1>2. PICK x \in S : \A y \in S : <<y, x>> \notin R
  BY <1>1
<1>3. \A y \in S : ~(y < x)
  BY <1>2 DEF OpToRel
<1> QED
  BY <1>3

\* The greatest time of a set is one of it.
LEMMA MaxIs ==
    ASSUME NEW S \in SUBSET (0 .. NoCursor), S # {}
    PROVE  Max(S) \in S /\ \A y \in S : y <= Max(S)
<1> DEFINE T == { NoCursor - x : x \in S }
<1>0. NoCursor \in Nat
  BY BoundsAssumption DEF NoCursor
<1>1. T \in SUBSET Nat /\ T # {}
  <2>1. \A x \in S : NoCursor - x \in Nat
    BY <1>0
  <2> QED
    BY <2>1
<1>2. PICK n \in T : \A m \in T : n <= m
  BY <1>1, LeastNatural
<1>3. PICK x \in S : n = NoCursor - x
  OBVIOUS
<1>4. \A y \in S : x >= y
  <2> TAKE y \in S
  <2>1. NoCursor - x <= NoCursor - y
    BY <1>2, <1>3
  <2> QED
    BY <1>0, <2>1
<1> QED
  BY <1>4 DEF Max

\* Newer messages have a smaller place, and every place is below the size.
LEMMA PlaceOrder ==
    ASSUME TypeOK, NEW w \in SUBSET Msgs, NEW m \in w, NEW n \in w, stamp[n] > stamp[m]
    PROVE  Place(n, w) < Place(m, w)
<1> DEFINE M == {x \in w : stamp[x] > stamp[m]}
           N == {x \in w : stamp[x] > stamp[n]}
<1>1. IsFiniteSet(M) /\ n \in M
  <2>1. M \subseteq Msgs
    OBVIOUS
  <2> QED
    BY <2>1, MsgsAssumption, FS_Subset
<1>2. N \subseteq M \ {n}
  BY DEF TypeOK, Times
<1>3. IsFiniteSet(M \ {n}) /\ Cardinality(M \ {n}) = Cardinality(M) - 1 /\ Cardinality(M) \in Nat
  BY <1>1, FS_RemoveElement, FS_CardinalityType
<1>4. Cardinality(N) <= Cardinality(M \ {n}) /\ Cardinality(N) \in Nat
  BY <1>2, <1>3, FS_Subset, FS_CardinalityType
<1> QED
  BY <1>3, <1>4 DEF Place

LEMMA PlaceBelow ==
    ASSUME TypeOK, NEW w \in SUBSET Msgs, NEW m \in w
    PROVE  Place(m, w) \in Nat /\ Cardinality(w) \in Nat /\ Place(m, w) < Cardinality(w)
<1> DEFINE M == {x \in w : stamp[x] > stamp[m]}
<1>1. IsFiniteSet(w)
  BY MsgsAssumption, FS_Subset
<1>2. M \subseteq w \ {m}
  BY DEF TypeOK, Times
<1>3. IsFiniteSet(w \ {m}) /\ Cardinality(w \ {m}) = Cardinality(w) - 1 /\ Cardinality(w) \in Nat
  BY <1>1, FS_RemoveElement, FS_CardinalityType
<1>4. Cardinality(M) <= Cardinality(w \ {m}) /\ Cardinality(M) \in Nat
  BY <1>2, <1>3, FS_Subset, FS_CardinalityType
<1> QED
  BY <1>3, <1>4 DEF Place

\* Looking back keeps the order of times.
LEMMA MinusIs ==
    ASSUME NEW a \in Nat, NEW b \in Nat
    PROVE  /\ Minus(a, b) \in 0 .. a
           /\ \A c \in Nat : a <= c => Minus(a, b) <= Minus(c, b)
BY DEF Minus

LEMMA LastIs ==
    ASSUME TypeOK, StampInv, NEW t \in Talkers
    PROVE  /\ LastMessageAt(t) \in Times /\ LastMessageAt(t) <= clock
           /\ \A m \in Held(t) : stamp[m] <= LastMessageAt(t)
<1> DEFINE S == {stamp[m] : m \in Held(t)} \cup {0}
<1>1. S \in SUBSET (0 .. clock) /\ S # {} /\ clock \in 0 .. MaxClock /\ MaxClock \in Nat
  BY BoundsAssumption DEF TypeOK, StampInv, Held, Times
<1>2. \A m \in Held(t) : stamp[m] \in S
  OBVIOUS
<1>3. LastMessageAt(t) = Max(S)
  BY DEF LastMessageAt
<1> HIDE DEF S
<1>4. S \in SUBSET (0 .. NoCursor)
  BY <1>1 DEF NoCursor
<1>5. Max(S) \in S /\ \A y \in S : y <= Max(S)
  BY <1>1, <1>4, MaxIs
<1>6. LastMessageAt(t) \in 0 .. clock
  BY <1>1, <1>3, <1>5
<1>7. LastMessageAt(t) \in Times /\ LastMessageAt(t) <= clock
  BY <1>1, <1>6 DEF Times
<1> QED
  BY <1>2, <1>3, <1>5, <1>7

\* The cursor of a pull is not before its start, nor before what it got.
LEMMA NewCursorIs ==
    ASSUME TypeOK, NEW p \in Pullers
    PROVE  /\ NewCursor(p) \in {stamp[m] : m \in pull[p].got} \cup {pull[p].from}
           /\ NewCursor(p) \in 0 .. NoCursor
           /\ \A m \in pull[p].got : stamp[m] <= NewCursor(p)
           /\ pull[p].from <= NewCursor(p)
<1> DEFINE S == {stamp[m] : m \in pull[p].got} \cup {pull[p].from}
<1>1. pull[p].got \subseteq Msgs /\ pull[p].from \in 0 .. NoCursor
  BY DEF TypeOK, PullRecord
<1>2. S \in SUBSET (0 .. NoCursor) /\ S # {}
  BY <1>1, BoundsAssumption DEF TypeOK, Times, NoCursor
<1>3. Max(S) \in S /\ \A y \in S : y <= Max(S)
  BY <1>2, MaxIs
<1>4. NewCursor(p) = Max(S)
  BY DEF NewCursor
<1>5. (\A m \in pull[p].got : stamp[m] \in S) /\ pull[p].from \in S
  OBVIOUS
<1> HIDE DEF S
<1>6. NewCursor(p) \in S
  BY <1>3, <1>4
<1> QED
  BY <1>2, <1>3, <1>4, <1>5, <1>6 DEF S

-----------------------------------------------------------------------------
(* Pulls and the file. *)

LEMMA IdleIs == Idle \in PullRecord
<1>1. (CHOOSE t \in Talkers : TRUE) \in Talkers
  BY MsgsAssumption
<1> QED
  BY <1>1, BoundsAssumption DEF Idle, PullRecord, Times, NoCursor

LEMMA SpendIs ==
    ASSUME TypeOK, NEW e \in Events, Spend(e)
    PROVE  budget' \in [Events -> Nat]
BY DEF TypeOK, Spend

LEMMA SetPullIs ==
    ASSUME TypeOK, NEW p \in Pullers, NEW r \in PullRecord, SetPull(p, r)
    PROVE  /\ pull' \in [Pullers -> PullRecord] /\ pull'[p] = r
           /\ \A q \in Pullers : q # p => pull'[q] = pull[q]
BY DEF TypeOK, SetPull

\* A recall is not a message.
LEMMA RawIdsAre ==
    /\ \A m \in Msgs : m \in RawIds /\ Delete(m) \in RawIds
    /\ \A m, n \in Msgs : Delete(m) # n /\ (Delete(m) = Delete(n) => m = n)
BY RawIdsAssumption DEF RawIds, Delete

\* append_jsonl_once adds a line for what the file does not hold.
LEMMA AppendIs ==
    ASSUME TypeOK, IndexInv, NEW r \in RawIds, NEW isLive \in BOOLEAN, NEW indexed \in BOOLEAN,
           isLive => r \in Msgs, AppendOnce(r, isLive, indexed)
    PROVE  /\ copies' \in [RawIds -> Nat] /\ live' \subseteq Msgs
           /\ index' \subseteq RawIds /\ fresh' \in BOOLEAN
           /\ copies'[r] = 1 /\ \A x \in RawIds : x # r => copies'[x] = copies[x]
           /\ live' = IF copies[r] = 0 /\ isLive THEN live \cup {r} ELSE live
           /\ IndexInv'
<1>1. KnownIds = Recorded
  BY DEF KnownIds, IndexInv
<1>2. r \notin KnownIds <=> copies[r] = 0
  BY <1>1 DEF Recorded, TypeOK
<1>3. copies[r] \in {0, 1}
  BY DEF IndexInv, RecordedOnce, TypeOK
<1>4. copies' \in [RawIds -> Nat] /\ copies'[r] = 1 /\ \A x \in RawIds : x # r => copies'[x] = copies[x]
  BY <1>2, <1>3 DEF AppendOnce, TypeOK
<1>5. live' = IF copies[r] = 0 /\ isLive THEN live \cup {r} ELSE live
  BY <1>2 DEF AppendOnce
<1>6. Recorded' = Recorded \cup {r}
  BY <1>4 DEF Recorded
<1>7. RecordedOnce'
  BY <1>4 DEF IndexInv, RecordedOnce
<1>8. fresh' => index' = Recorded'
  <2>1. CASE indexed
    BY <2>1, <1>1, <1>6 DEF AppendOnce
  <2>2. CASE ~indexed
    BY <2>2, <1>1, <1>6, <1>2 DEF AppendOnce, IndexInv
  <2> QED
    BY <2>1, <2>2
<1>9. index' \subseteq RawIds /\ fresh' \in BOOLEAN
  BY <1>1 DEF AppendOnce, TypeOK, Recorded
<1> QED
  BY <1>4, <1>5, <1>7, <1>8, <1>9 DEF IndexInv, TypeOK

-----------------------------------------------------------------------------
(* The first layer. *)

\* What no step but a reset takes back.
Keeps ==
  /\ clock' \in 1 .. MaxClock /\ clock <= clock'
  /\ \A m \in Msgs : Sent(m) => stamp'[m] = stamp[m]
  /\ gone \subseteq gone'
  /\ \A m \in Msgs : copies[m] > 0 => copies'[m] > 0
  /\ resetAt' = resetAt

LEMMA PulledKept ==
    ASSUME TypeOK, Keeps, NEW p \in Pullers, pull'[p] = pull[p], Pulled(p)
    PROVE  Pulled(p)'
<1>1. pull[p] \in PullRecord
  BY DEF TypeOK
<1>2. /\ pull[p].got \subseteq Msgs /\ pull[p].todo \subseteq Msgs /\ pull[p].new \subseteq Msgs
      /\ pull[p].last \in Nat
  BY <1>1 DEF PullRecord, Times
<1>3. \A m \in Msgs : Sent(m) => Sent(m)'
  BY DEF Keeps, Sent
<1>4. WindowOf(pull[p].talker, pull[p].got)' /\ (pull[p].todo \subseteq pull[p].got)'
  BY <1>2, <1>3 DEF Pulled, WindowOf
<1>5. (\A m \in Msgs : Delete(m) \in pull[p].recalls => m \in gone)'
  BY DEF Pulled, Keeps
<1>6. (pull[p].last <= clock)'
  BY <1>2 DEF Pulled, Keeps, TypeOK
<1>7. Beginning(p) => Beginning(p)'
  BY DEF Beginning
<1>8. Reading(p) /\ ReadingInv(p) => (Reading(p) /\ ReadingInv(p))'
  BY <1>2 DEF Reading, ReadingInv, Keeps
<1> QED
  BY <1>4, <1>5, <1>6, <1>7, <1>8 DEF Pulled

LEMMA BeginningPulled ==
    ASSUME NEW p \in Pullers, Beginning(p)', pull'[p].last <= clock'
    PROVE  Pulled(p)'
BY DEF Beginning, Pulled, WindowOf

LEMMA StateKept ==
    ASSUME TypeOK, StateInv, Keeps, UNCHANGED <<state, sse>>
    PROVE  StateInv'
<1>1. \A m \in Msgs : Sent(m) => Sent(m)'
  BY DEF Keeps, Sent
<1>2. /\ seen \subseteq Msgs /\ sse.seen \subseteq Msgs
      /\ \A t \in Talkers : recent[t] \subseteq Msgs /\ sse.recent[t] \subseteq Msgs
  BY DEF TypeOK, StateRecord
<1>3. \A t \in Talkers : (WindowOf(t, recent[t]) /\ WindowOf(t, sse.recent[t]))'
  BY <1>1, <1>2 DEF StateInv, WindowOf, state
<1>4. (\A m \in seen : copies[m] > 0)' /\ (sse.on => \A m \in sse.seen : copies[m] > 0)'
  BY <1>2 DEF StateInv, Keeps, state
<1>5. (epoch = resetAt)' /\ (sse.on => sse.epoch = resetAt)'
  BY DEF StateInv, Keeps, state
<1> QED
  BY <1>3, <1>4, <1>5 DEF StateInv

LEMMA BaseInit == Init => BaseInv
<1> SUFFICES ASSUME Init PROVE BaseInv
  OBVIOUS
<1>1. TypeOK
  <2>1. NoCursor \in Nat /\ MaxClock \in Nat /\ 1 <= MaxClock
    BY BoundsAssumption DEF NoCursor
  <2>2. Silent \in StateRecord
    BY <2>1 DEF Silent, StateRecord, Times
  <2>3. budget \in [Events -> Nat]
    BY BoundsAssumption DEF Init
  <2> QED
    BY <2>1, <2>2, <2>3, IdleIs DEF Init, TypeOK, Times, Never
<1>2. StampInv
  BY DEF Init, StampInv, Never
<1>3. IndexInv
  BY DEF Init, IndexInv, RecordedOnce, Recorded
<1>4. FileInv
  BY RawIdsAre DEF Init, FileInv, OldNeverLive, OnlyDeletedRecalled
<1>5. StateInv
  BY DEF Init, StateInv, Silent, WindowOf
<1>6. PullsInv
  <2> SUFFICES ASSUME NEW p \in Pullers PROVE Pulled(p)
    BY DEF PullsInv
  <2>1. pull[p] = Idle
    BY DEF Init
  <2>2. Beginning(p) /\ pull[p].last <= clock
    BY <2>1 DEF Beginning, Idle, Init
  <2> QED
    BY <2>2 DEF Beginning, Pulled, WindowOf
<1> QED
  BY <1>1, <1>2, <1>3, <1>4, <1>5, <1>6 DEF BaseInv

LEMMA BaseTick ==
    ASSUME BaseInv, Tick
    PROVE  BaseInv'
<1> USE DEF BaseInv
<1>1. TypeOK'
  BY BoundsAssumption DEF Tick, TypeOK, file, state, history
<1>2. StampInv' /\ IndexInv' /\ FileInv'
  BY DEF Tick, StampInv, IndexInv, RecordedOnce, Recorded, FileInv, Sent, OldNeverLive,
         OnlyDeletedRecalled, TypeOK, Times, file, history
<1>3. Keeps
  BY <1>1 DEF Keeps, Tick, TypeOK, file, history
<1>4. StateInv'
  BY <1>3, StateKept DEF Tick
<1>5. PullsInv'
  BY <1>3, PulledKept DEF PullsInv, Tick
<1> QED
  BY <1>1, <1>2, <1>4, <1>5

LEMMA BaseArrive ==
    ASSUME BaseInv, NEW m \in Msgs, Arrive(m)
    PROVE  BaseInv'
<1> USE DEF BaseInv
<1>1. PICK s \in Max({1, Minus(clock, Lag)}) .. clock :
        /\ stamp' = [stamp EXCEPT ![m] = s]
        /\ calm' \in {calm, calm \cup {m}}
  BY DEF Arrive
<1>2. s \in 1 .. clock /\ s \in Times
  <2>1. Lag \in Nat /\ MaxClock \in Nat /\ clock \in 1 .. MaxClock
    BY TimesAssumption, BoundsAssumption DEF TypeOK
  <2>2. Minus(clock, Lag) \in 0 .. clock
    BY <2>1, MinusIs
  <2>3. {1, Minus(clock, Lag)} \in SUBSET (0 .. NoCursor)
    BY <2>1, <2>2 DEF NoCursor
  <2>4. Max({1, Minus(clock, Lag)}) \in Nat /\ 1 <= Max({1, Minus(clock, Lag)})
    BY <2>3, MaxIs
  <2> QED
    BY <2>1, <2>4 DEF Times
<1>3. stamp' \in [Msgs -> Times] /\ stamp'[m] = s /\ \A n \in Msgs : n # m => stamp'[n] = stamp[n]
  BY <1>1, <1>2 DEF TypeOK
<1>4. TypeOK'
  <2>1. budget' \in [Events -> Nat]
    BY SpendIs DEF Arrive, Events
  <2> QED
    BY <1>1, <1>3, <2>1 DEF Arrive, TypeOK, file, state
<1>5. StampInv'
  BY <1>2, <1>3 DEF StampInv, Arrive, Times
<1>6. IndexInv'
  BY DEF Arrive, IndexInv, RecordedOnce, Recorded, file
<1>7. ~Sent(m) /\ Sent(m)'
  BY <1>2, <1>3 DEF Sent, Arrive, Never
<1>8. FileInv'
  <2>1. m \notin live
    BY <1>7 DEF FileInv, TypeOK
  <2>2. OldNeverLive'
    BY <1>3, <2>1 DEF FileInv, OldNeverLive, Arrive, file, TypeOK
  <2> QED
    BY <1>3, <1>7, <2>2 DEF FileInv, OnlyDeletedRecalled, Arrive, file, Sent, TypeOK
<1>9. Keeps
  BY <1>3, <1>7 DEF Keeps, Arrive, TypeOK, file
<1>10. StateInv'
  BY <1>9, StateKept DEF Arrive
<1>11. PullsInv'
  BY <1>9, PulledKept DEF PullsInv, Arrive
<1> QED
  BY <1>4, <1>5, <1>6, <1>8, <1>10, <1>11

LEMMA BaseDelete ==
    ASSUME BaseInv, NEW m \in Msgs, DeleteMessage(m)
    PROVE  BaseInv'
<1> USE DEF BaseInv
<1>1. gone' = gone \cup {m} /\ skipped' \subseteq Msgs
  BY DEF DeleteMessage, TypeOK, Held
<1>2. TypeOK'
  <2>1. budget' \in [Events -> Nat]
    BY SpendIs DEF DeleteMessage, Events
  <2> QED
    BY <1>1, <2>1 DEF DeleteMessage, TypeOK, file, state
<1>3. StampInv' /\ IndexInv'
  BY DEF DeleteMessage, StampInv, IndexInv, RecordedOnce, Recorded, file
<1>4. FileInv'
  BY <1>1 DEF DeleteMessage, FileInv, Sent, OldNeverLive, OnlyDeletedRecalled, file
<1>5. Keeps
  BY <1>1 DEF Keeps, DeleteMessage, TypeOK, file
<1>6. StateInv'
  BY <1>5, StateKept DEF DeleteMessage
<1>7. PullsInv'
  BY <1>5, PulledKept DEF PullsInv, DeleteMessage
<1> QED
  BY <1>2, <1>3, <1>4, <1>6, <1>7

LEMMA QuietFile ==
    ASSUME TypeOK, StampInv, IndexInv, FileInv, UNCHANGED <<weflow, file, resetAt>>
    PROVE  Keeps /\ StampInv' /\ IndexInv' /\ FileInv'
<1>1. Keeps
  BY DEF Keeps, weflow, file, TypeOK
<1>2. StampInv' /\ IndexInv' /\ FileInv'
  BY DEF weflow, file, StampInv, IndexInv, RecordedOnce, Recorded, FileInv, Sent, OldNeverLive,
         OnlyDeletedRecalled
<1> QED
  BY <1>1, <1>2

LEMMA BaseList ==
    ASSUME BaseInv, NEW p \in Pullers, NEW t \in Talkers,
           NEW kind \in {"pull", "backfill", "bootstrap"}, List(p, t, kind),
           budget' \in [Events -> Nat]
    PROVE  BaseInv'
<1> USE DEF BaseInv
<1> DEFINE r == [Idle EXCEPT !.pc = "listed", !.talker = t, !.kind = kind, !.last = LastMessageAt(t)]
<1>1. LastMessageAt(t) \in Times /\ LastMessageAt(t) <= clock
  BY LastIs
<1>2. r \in PullRecord
  BY <1>1, IdleIs DEF PullRecord
<1>3. /\ pull' \in [Pullers -> PullRecord] /\ pull'[p] = r
      /\ \A q \in Pullers : q # p => pull'[q] = pull[q]
  BY <1>2, SetPullIs DEF List
<1>4. r.pc = "listed" /\ ~r.history /\ r.pages = 0 /\ r.got = {} /\ r.todo = {} /\ r.recalls = {}
      /\ r.last <= clock
  BY <1>1 DEF Idle
<1> HIDE DEF r
<1>5. Keeps /\ StampInv' /\ IndexInv' /\ FileInv'
  BY QuietFile DEF List
<1>6. TypeOK'
  BY <1>3 DEF List, TypeOK, weflow, file, state
<1>7. StateInv'
  BY <1>5, StateKept DEF List
<1>8. Pulled(p)'
  BY <1>3, <1>4, BeginningPulled DEF Beginning, List, weflow
<1>9. PullsInv'
  BY <1>3, <1>5, <1>8, PulledKept DEF PullsInv
<1> QED
  BY <1>5, <1>6, <1>7, <1>9

LEMMA MaxOfTwo ==
    ASSUME NEW a \in Nat, NEW b \in Nat
    PROVE  Max({a, b}) \in {a, b} /\ a <= Max({a, b}) /\ b <= Max({a, b})
<1> DEFINE c == IF a >= b THEN a ELSE b
<1>1. c \in {a, b} /\ \A y \in {a, b} : c >= y
  OBVIOUS
<1>2. Max({a, b}) \in {a, b} /\ \A y \in {a, b} : Max({a, b}) >= y
  BY <1>1 DEF Max
<1> QED
  BY <1>2

\* The times from which a pull looks.
LEMMA SinceIs ==
    ASSUME TypeOK, NEW p \in Pullers
    PROVE  /\ Since(p) \in 0 .. NoCursor /\ From(p) \in 0 .. NoCursor /\ Start(p) \in 0 .. From(p)
           /\ CursorLost(p) => From(p) <= pull[p].last
           /\ ~CursorLost(p) => From(p) = Since(p)
<1>1. /\ NoCursor \in Nat /\ MaxClock \in Nat /\ MaxClock < NoCursor
      /\ Overlap \in Nat /\ Lookback \in Nat
  BY BoundsAssumption, TimesAssumption DEF NoCursor
<1>2. pull[p] \in PullRecord /\ pull[p].last \in Times /\ pull[p].talker \in Talkers
  BY DEF TypeOK, PullRecord
<1>3. epoch \in Times /\ cursor[pull[p].talker] \in 0 .. NoCursor /\ clock \in 1 .. MaxClock
  BY <1>2 DEF TypeOK
<1>4. Minus(clock, Lookback) \in 0 .. clock
  BY <1>1, <1>3 DEF Minus
<1>5. Since(p) \in 0 .. NoCursor
  BY <1>1, <1>3, <1>4 DEF Since, Times
<1>6. Max({Overlap, Lookback}) \in Nat
  BY <1>1, MaxOfTwo
<1>7. Minus(pull[p].last, Max({Overlap, Lookback})) \in 0 .. pull[p].last
  BY <1>1, <1>2, <1>6 DEF Times, Minus
<1>8. /\ CursorLost(p) => From(p) \in 0 .. pull[p].last
      /\ ~CursorLost(p) => From(p) = Since(p)
  BY <1>7 DEF From
<1>9. From(p) \in 0 .. NoCursor
  BY <1>1, <1>2, <1>5, <1>8 DEF Times
<1>10. Start(p) \in 0 .. From(p)
  BY <1>1, <1>9 DEF Start, Minus
<1> QED
  BY <1>1, <1>2, <1>5, <1>8, <1>9, <1>10 DEF Times

\* A page that is the last shows all that is left of the window.
LEMMA PageIs ==
    ASSUME TypeOK, NEW p \in Pullers, NEW w \in SUBSET Msgs
    PROVE  /\ Offset(p) \in Nat /\ Page(p, w) \subseteq w
           /\ \A m \in w \ Page(p, w) : Place(m, w) < Offset(p) \/ Place(m, w) >= Offset(p) + PageSize
           /\ ~HasMore(p, w) => \A m \in w : Place(m, w) < Offset(p) + PageSize
<1>1. PageSize \in Nat /\ pull[p].pages \in Nat
  BY BoundsAssumption DEF TypeOK, PullRecord
<1>2. Offset(p) \in Nat
  BY <1>1 DEF Offset
<1>3. \A m \in w : Place(m, w) \in Nat /\ Cardinality(w) \in Nat /\ Place(m, w) < Cardinality(w)
  BY PlaceBelow
<1>4. \A m \in w \ Page(p, w) : Place(m, w) < Offset(p) \/ Place(m, w) >= Offset(p) + PageSize
  BY <1>1, <1>2, <1>3 DEF Page
<1>5. ~HasMore(p, w) => \A m \in w : Place(m, w) < Offset(p) + PageSize
  BY <1>1, <1>2, <1>3 DEF HasMore
<1> QED
  BY <1>2, <1>4, <1>5 DEF Page

\* The record of a pull that has read the state and its first page.
LEMMA ReadIs ==
    ASSUME BaseInv, NEW p \in Pullers, Read(p)
    PROVE  LET t == pull[p].talker
               w == Window(t, Start(p))
               got == Page(p, w) IN
           /\ pull' \in [Pullers -> PullRecord]
           /\ \A q \in Pullers : q # p => pull'[q] = pull[q]
           /\ pull'[p].pc = (IF Onward(p, w) THEN "fetching" ELSE "writing")
           /\ pull'[p].talker = t /\ pull'[p].kind = pull[p].kind
           /\ pull'[p].last = 0 /\ pull'[p].epoch = epoch
           /\ pull'[p].from = From(p) /\ pull'[p].history = History(p)
           /\ pull'[p].got = got
           /\ pull'[p].todo = got \cap pull'[p].new
           /\ \A m \in Msgs \ pull'[p].new : m \in seen
           /\ pull'[p].pages = (IF Onward(p, w) THEN 1 ELSE 0)
           /\ pull'[p].recalls = Recalls(recent[t], got, Start(p), ~HasMore(p, w) /\ ~History(p))
<1> DEFINE t == pull[p].talker
           w == Window(t, Start(p))
           got == Page(p, w)
           known == IF pull[p].kind = "bootstrap" THEN {} ELSE seen
           recalls == Recalls(recent[t], got, Start(p), ~HasMore(p, w) /\ ~History(p))
           r == [pull[p] EXCEPT
                   !.pc = IF Onward(p, w) THEN "fetching" ELSE "writing", !.last = 0,
                   !.epoch = epoch, !.from = From(p), !.history = History(p),
                   !.got = got, !.new = Msgs \ known, !.todo = got \ known,
                   !.recalls = recalls,
                   !.pages = IF Onward(p, w) THEN 1 ELSE 0]
<1>1. pull[p] \in PullRecord /\ t \in Talkers
  BY DEF BaseInv, TypeOK, PullRecord
<1>2. SetPull(p, r)
  BY DEF Read
<1>3. w \subseteq Msgs /\ got \subseteq w
  BY DEF Window, Held, Page
<1>4. epoch \in Times /\ From(p) \in 0 .. NoCursor /\ History(p) \in BOOLEAN /\ 0 \in Times
  BY SinceIs, BoundsAssumption DEF BaseInv, TypeOK, History, CursorLost, Times
<1>5. recalls \in SUBSET {Delete(m) : m \in Msgs}
  BY <1>1 DEF Recalls, Missing, BaseInv, TypeOK
<1>6. known \subseteq seen
  OBVIOUS
<1> HIDE DEF t, w, got, known, recalls
<1>7. /\ r.pc = (IF Onward(p, w) THEN "fetching" ELSE "writing")
      /\ r.talker = pull[p].talker /\ r.kind = pull[p].kind
      /\ r.last = 0 /\ r.epoch = epoch /\ r.from = From(p) /\ r.history = History(p)
      /\ r.got = got /\ r.new = Msgs \ known /\ r.todo = got \ known
      /\ r.pages = (IF Onward(p, w) THEN 1 ELSE 0) /\ r.recalls = recalls
  BY <1>1 DEF PullRecord
<1>8. r \in PullRecord
  BY <1>1, <1>3, <1>4, <1>5 DEF PullRecord
<1> HIDE DEF r
<1>9. /\ pull' \in [Pullers -> PullRecord] /\ pull'[p] = r
      /\ \A q \in Pullers : q # p => pull'[q] = pull[q]
  BY <1>2, <1>8, SetPullIs DEF BaseInv
<1>10. r.todo = got \cap r.new /\ \A m \in Msgs \ r.new : m \in seen
  BY <1>3, <1>6, <1>7
<1> QED
  BY <1>7, <1>9, <1>10 DEF t, w, got, recalls

LEMMA BaseRead ==
    ASSUME BaseInv, NEW p \in Pullers, Read(p)
    PROVE  BaseInv'
<1> DEFINE t == pull[p].talker
           w == Window(t, Start(p))
           got == Page(p, w)
<1>1. Keeps /\ StampInv' /\ IndexInv' /\ FileInv'
  BY QuietFile DEF Read, BaseInv
<1>2. skipped' \subseteq Msgs /\ calm' \subseteq Msgs
  BY DEF Read, BaseInv, TypeOK, Held, Window
<1>3. TypeOK'
  BY <1>2, ReadIs DEF Read, BaseInv, TypeOK, weflow, file, state
<1>4. StateInv'
  BY <1>1, StateKept DEF Read, BaseInv
<1>5. t \in Talkers /\ recent[t] \subseteq Msgs
  BY DEF BaseInv, TypeOK, PullRecord
<1>6. w \subseteq Held(t) /\ w \subseteq Msgs /\ got \subseteq w
  BY DEF Window, Held, Page
<1>7. Beginning(p)
  BY DEF BaseInv, PullsInv, Pulled, Beginning, Reading, Read, Step
<1>8. ~HasMore(p, w) => got = w
  <2>1. Offset(p) = 0
    BY <1>7, BoundsAssumption DEF Beginning, Offset
  <2>2. \A m \in w : Place(m, w) \in Nat
    BY <1>6, PlaceBelow DEF BaseInv
  <2>3. ~HasMore(p, w) => \A m \in w : m \in got
    BY <1>6, <2>1, <2>2, PageIs, BoundsAssumption DEF BaseInv
  <2> QED
    BY <1>6, <2>3
<1>9. ASSUME NEW m \in Msgs, Delete(m) \in pull'[p].recalls
      PROVE  m \in gone'
  <2>1. pull'[p].recalls = Recalls(recent[t], got, Start(p), ~HasMore(p, w) /\ ~History(p))
    BY ReadIs
  <2>2. ~HasMore(p, w) /\ \E n \in Missing(recent[t], got, Start(p)) : Delete(m) = Delete(n)
    BY <1>9, <2>1 DEF Recalls
  <2>3. m \in recent[t] \ got /\ stamp[m] >= Start(p)
    BY <1>5, <2>2, RawIdsAre DEF Missing
  <2>4. TalkerOf[m] = t /\ Sent(m)
    BY <1>5, <2>3 DEF BaseInv, StateInv, WindowOf
  <2>5. m \in gone
    BY <1>8, <2>2, <2>3, <2>4 DEF Window, Held, Sent
  <2> QED
    BY <2>5 DEF Read, weflow
<1>10. Pulled(p)'
  <2>1. \A m \in got : TalkerOf[m] = t /\ Sent(m)'
    BY <1>6 DEF Held, Sent, Read, weflow
  <2>2. (WindowOf(pull[p].talker, pull[p].got) /\ pull[p].todo \subseteq pull[p].got)'
    BY <2>1, ReadIs DEF WindowOf
  <2>3. (pull[p].last <= clock)'
    BY ReadIs, <1>3 DEF TypeOK
  <2>4. Reading(p)'
    BY ReadIs DEF Reading
  <2>5. (pull[p].epoch = resetAt)'
    BY ReadIs DEF BaseInv, StateInv, Read
  <2>6. (\A m \in Msgs \ pull[p].new : copies[m] > 0)'
    BY ReadIs DEF BaseInv, StateInv, Read, file
  <2>7. (\A m \in pull[p].got : copies[m] > 0 \/ m \in pull[p].todo)'
    BY <1>6, <2>6, ReadIs
  <2>8. (pull[p].pc = "fetching" => pull[p].kind = "backfill" /\ pull[p].from = 0 /\ pull[p].pages > 0)'
    <3>1. Onward(p, w) => pull[p].kind = "backfill"
      BY DEF Onward
    <3>2. pull[p].kind = "backfill" => From(p) = 0
      <4>1. pull[p].kind # "pull" => Since(p) = 0
        BY DEF Since
      <4>2. pull[p].kind # "pull" => ~CursorLost(p)
        BY DEF CursorLost
      <4> QED
        BY <4>1, <4>2 DEF From
    <3> QED
      BY <3>1, <3>2, ReadIs
  <2>9. (pull[p].pc = "writing" => pull[p].pages = 0)'
    BY ReadIs
  <2> QED
    BY <1>9, <2>2, <2>3, <2>4, <2>5, <2>6, <2>7, <2>8, <2>9 DEF Pulled, ReadingInv
<1>11. PullsInv'
  BY <1>1, <1>10, ReadIs, PulledKept DEF PullsInv, BaseInv
<1> QED
  BY <1>1, <1>3, <1>4, <1>11 DEF BaseInv

\* The record of a backfill after a further page.
LEMMA FetchIs ==
    ASSUME BaseInv, NEW p \in Pullers, Fetch(p)
    PROVE  LET w == Window(pull[p].talker, 0)
               got == pull[p].got \cup Page(p, w) IN
           /\ w = Held(pull[p].talker) /\ w \subseteq Msgs /\ Page(p, w) \subseteq w
           /\ pull' \in [Pullers -> PullRecord]
           /\ \A q \in Pullers : q # p => pull'[q] = pull[q]
           /\ pull'[p].pc = (IF Onward(p, w) THEN "fetching" ELSE "writing")
           /\ pull'[p].talker = pull[p].talker /\ pull'[p].kind = pull[p].kind
           /\ pull'[p].new = pull[p].new /\ pull'[p].last = pull[p].last
           /\ pull'[p].epoch = pull[p].epoch /\ pull'[p].from = pull[p].from
           /\ pull'[p].history = pull[p].history
           /\ pull'[p].got = got /\ pull'[p].todo = got \cap pull[p].new
           /\ pull'[p].recalls = pull[p].recalls
           /\ pull'[p].pages = (IF Onward(p, w) THEN pull[p].pages + 1 ELSE 0)
<1> DEFINE w == Window(pull[p].talker, 0)
           got == pull[p].got \cup Page(p, w)
           n == IF Onward(p, w) THEN pull[p].pages + 1 ELSE 0
           todo == got \cap pull[p].new
           r == [pull[p] EXCEPT !.pc = IF Onward(p, w) THEN "fetching" ELSE "writing",
                                !.got = got, !.todo = todo, !.pages = n]
<1>1. pull[p] \in PullRecord
  BY DEF BaseInv, TypeOK
<1>2. w = Held(pull[p].talker) /\ w \subseteq Msgs /\ Page(p, w) \subseteq w
  BY DEF Window, Held, Page, BaseInv, TypeOK, Times
<1>3. got \in SUBSET Msgs /\ todo \in SUBSET Msgs /\ n \in Nat
  BY <1>1, <1>2 DEF PullRecord
<1>4. SetPull(p, r)
  BY DEF Fetch
<1> HIDE DEF w, got, n, todo
<1>5. /\ r.pc = (IF Onward(p, w) THEN "fetching" ELSE "writing")
      /\ r.talker = pull[p].talker /\ r.kind = pull[p].kind /\ r.new = pull[p].new
      /\ r.last = pull[p].last /\ r.epoch = pull[p].epoch /\ r.from = pull[p].from
      /\ r.history = pull[p].history /\ r.got = got /\ r.todo = todo
      /\ r.recalls = pull[p].recalls /\ r.pages = n
  BY <1>1 DEF PullRecord
<1>6. r \in PullRecord
  BY <1>1, <1>3 DEF PullRecord
<1> HIDE DEF r
<1>7. /\ pull' \in [Pullers -> PullRecord] /\ pull'[p] = r
      /\ \A q \in Pullers : q # p => pull'[q] = pull[q]
  BY <1>4, <1>6, SetPullIs DEF BaseInv
<1> QED
  BY <1>2, <1>5, <1>7 DEF w, got, n, todo

LEMMA BaseFetch ==
    ASSUME BaseInv, NEW p \in Pullers, Fetch(p)
    PROVE  BaseInv'
<1> DEFINE w == Window(pull[p].talker, 0)
           got == pull[p].got \cup Page(p, w)
<1>1. Pulled(p) /\ Reading(p) /\ ReadingInv(p) /\ pull[p].pc = "fetching"
  BY DEF BaseInv, PullsInv, Pulled, Beginning, Fetch, Step
<1>2. Keeps /\ StampInv' /\ IndexInv' /\ FileInv'
  BY QuietFile DEF Fetch, BaseInv, history
<1>3. TypeOK'
  BY FetchIs DEF Fetch, BaseInv, TypeOK, weflow, file, state, history
<1>4. StateInv'
  BY <1>2, StateKept DEF Fetch, BaseInv
<1>5. Pulled(p)'
  <2>1. \A m \in got : m \in Msgs /\ TalkerOf[m] = pull[p].talker /\ Sent(m)'
    BY <1>1, FetchIs DEF Pulled, WindowOf, Held, Sent, Fetch, weflow, BaseInv, TypeOK, PullRecord
  <2> HIDE DEF w, got
  <2>2. /\ pull'[p].talker = pull[p].talker /\ pull'[p].got = got
        /\ pull'[p].todo = got \cap pull'[p].new
    BY FetchIs DEF w, got
  <2>3. (WindowOf(pull[p].talker, pull[p].got) /\ pull[p].todo \subseteq pull[p].got)'
    BY <2>1, <2>2 DEF WindowOf
  <2>4. (\A m \in Msgs : Delete(m) \in pull[p].recalls => m \in gone)' /\ (pull[p].last <= clock)'
    BY <1>1, FetchIs DEF Pulled, Fetch, weflow
  <2>5. (\A m \in Msgs \ pull[p].new : copies[m] > 0)'
    BY <1>1, FetchIs DEF ReadingInv, Fetch, file
  <2>6. (\A m \in pull[p].got : copies[m] > 0 \/ m \in pull[p].todo)'
    BY <2>1, <2>2, <2>5
  <2>7. (pull[p].pc = "fetching" => pull[p].kind = "backfill" /\ pull[p].from = 0 /\ pull[p].pages > 0)'
    BY <1>1, FetchIs DEF ReadingInv, BaseInv, TypeOK, PullRecord
  <2>8. Reading(p)' /\ (pull[p].pc = "writing" => pull[p].pages = 0)' /\ (pull[p].epoch = resetAt)'
    BY <1>1, FetchIs DEF Reading, ReadingInv, Fetch, history
  <2> QED
    BY <2>3, <2>4, <2>5, <2>6, <2>7, <2>8 DEF Pulled, ReadingInv
<1>6. PullsInv'
  BY <1>2, <1>5, FetchIs, PulledKept DEF BaseInv, PullsInv
<1> QED
  BY <1>2, <1>3, <1>4, <1>6 DEF BaseInv

\* A line of a message that was sent, or of the recall of a deleted one.
LEMMA AppendFile ==
    ASSUME BaseInv, NEW r \in RawIds, NEW isLive \in BOOLEAN, NEW indexed \in BOOLEAN,
           AppendOnce(r, isLive, indexed), UNCHANGED <<weflow, resetAt>>,
           isLive => r \in Msgs /\ stamp[r] > resetAt,
           \/ r \in Msgs /\ Sent(r)
           \/ \E m \in Msgs : r = Delete(m) /\ m \in gone
    PROVE  /\ Keeps /\ StampInv' /\ IndexInv' /\ FileInv'
           /\ copies' \in [RawIds -> Nat] /\ live' \subseteq Msgs
           /\ index' \subseteq RawIds /\ fresh' \in BOOLEAN
<1> USE DEF BaseInv
<1>1. /\ copies' \in [RawIds -> Nat] /\ live' \subseteq Msgs
      /\ index' \subseteq RawIds /\ fresh' \in BOOLEAN
      /\ copies'[r] = 1 /\ \A x \in RawIds : x # r => copies'[x] = copies[x]
      /\ live' = IF copies[r] = 0 /\ isLive THEN live \cup {r} ELSE live
      /\ IndexInv'
  BY AppendIs
<1>2. \A m \in Msgs : m \in RawIds /\ Delete(m) \in RawIds
  BY RawIdsAre
<1>3. StampInv'
  BY DEF StampInv, weflow
<1>4. \A m \in Msgs : (copies[m] > 0 => Sent(m))'
  BY <1>1, <1>2, RawIdsAre DEF FileInv, Sent, weflow
<1>5. (\A m \in live : copies[m] > 0)'
  BY <1>1, <1>2 DEF FileInv, TypeOK
<1>6. OldNeverLive'
  BY <1>1 DEF FileInv, OldNeverLive, weflow, TypeOK
<1>7. OnlyDeletedRecalled'
  BY <1>1, <1>2, RawIdsAre DEF FileInv, OnlyDeletedRecalled, weflow
<1>8. Keeps
  BY <1>1, <1>2 DEF Keeps, TypeOK, weflow
<1> QED
  BY <1>1, <1>3, <1>4, <1>5, <1>6, <1>7, <1>8 DEF FileInv

\* What a pull writes.
LEMMA LineIs ==
    ASSUME BaseInv, NEW p \in Pullers, Step(p, "writing"),
           NEW r \in pull[p].todo \cup pull[p].recalls
    PROVE  /\ Reading(p) /\ ReadingInv(p) /\ Pulled(p)
           /\ r \in RawIds /\ (r \in Msgs /\ Mode(p, r)) \in BOOLEAN
           /\ r \in Msgs => r \in pull[p].todo /\ Sent(r) /\ TalkerOf[r] = pull[p].talker
           /\ r \in Msgs /\ Mode(p, r) => stamp[r] > resetAt
           /\ \/ r \in Msgs /\ Sent(r)
              \/ \E m \in Msgs : r = Delete(m) /\ m \in gone
<1>1. pull[p] \in PullRecord
  BY DEF BaseInv, TypeOK
<1>2. Reading(p) /\ ReadingInv(p) /\ Pulled(p)
  BY DEF BaseInv, PullsInv, Pulled, Beginning, Step
<1>3. pull[p].todo \subseteq Msgs /\ pull[p].recalls \subseteq {Delete(m) : m \in Msgs}
  BY <1>1 DEF PullRecord
<1>4. r \in RawIds
  BY <1>3 DEF RawIds
<1>5. r \in Msgs => r \in pull[p].todo
  BY <1>3, RawIdsAre
<1>6. \A m \in pull[p].todo : Sent(m) /\ TalkerOf[m] = pull[p].talker
  BY <1>2 DEF Pulled, WindowOf
<1>7. r \in pull[p].recalls => \E m \in Msgs : r = Delete(m) /\ m \in gone
  BY <1>2, <1>3 DEF Pulled
<1>8. \A m \in Msgs : Sent(m) /\ Mode(p, m) => stamp[m] > resetAt
  BY <1>2 DEF ReadingInv, Mode, IsNew, Sent, Never, BaseInv, TypeOK, Times
<1>9. (r \in Msgs /\ Mode(p, r)) \in BOOLEAN
  BY DEF Mode
<1> QED
  BY <1>2, <1>3, <1>4, <1>5, <1>6, <1>7, <1>8, <1>9

LEMMA BaseWrite ==
    ASSUME BaseInv, NEW p \in Pullers, Write(p)
    PROVE  BaseInv'
<1>1. PICK r \in pull[p].todo \cup pull[p].recalls :
        /\ AppendOnce(r, r \in Msgs /\ Mode(p, r), TRUE)
        /\ SetPull(p, [pull[p] EXCEPT !.todo = @ \ {r}, !.recalls = @ \ {r}])
  BY DEF Write
<1>2. Step(p, "writing") /\ UNCHANGED <<weflow, state, sse, heard, budget, history>>
  BY DEF Write
<1>3. /\ Reading(p) /\ ReadingInv(p) /\ Pulled(p)
      /\ r \in RawIds /\ (r \in Msgs /\ Mode(p, r)) \in BOOLEAN
      /\ r \in Msgs /\ Mode(p, r) => stamp[r] > resetAt
      /\ \/ r \in Msgs /\ Sent(r)
         \/ \E m \in Msgs : r = Delete(m) /\ m \in gone
  BY <1>2, LineIs
<1> DEFINE f == [pull[p] EXCEPT !.todo = @ \ {r}, !.recalls = @ \ {r}]
<1>4. pull[p] \in PullRecord
  BY DEF BaseInv, TypeOK
<1>5. /\ f.pc = pull[p].pc /\ f.talker = pull[p].talker /\ f.kind = pull[p].kind
      /\ f.last = pull[p].last /\ f.epoch = pull[p].epoch /\ f.from = pull[p].from
      /\ f.got = pull[p].got /\ f.new = pull[p].new /\ f.pages = pull[p].pages
      /\ f.todo = pull[p].todo \ {r} /\ f.recalls = pull[p].recalls \ {r}
  BY <1>4 DEF PullRecord
<1>6. f \in PullRecord
  BY <1>4 DEF PullRecord
<1>7. SetPull(p, f)
  BY <1>1
<1> HIDE DEF f
<1>8. /\ pull' \in [Pullers -> PullRecord] /\ pull'[p] = f
      /\ \A q \in Pullers : q # p => pull'[q] = pull[q]
  BY <1>6, <1>7, SetPullIs DEF BaseInv
<1>9. /\ Keeps /\ StampInv' /\ IndexInv' /\ FileInv'
      /\ copies' \in [RawIds -> Nat] /\ live' \subseteq Msgs
      /\ index' \subseteq RawIds /\ fresh' \in BOOLEAN
  BY <1>1, <1>2, <1>3, AppendFile DEF history
<1>10. copies'[r] = 1
  BY <1>1, <1>3, AppendIs DEF BaseInv
<1>11. TypeOK'
  BY <1>2, <1>8, <1>9 DEF BaseInv, TypeOK, weflow, state, history
<1>12. StateInv'
  BY <1>2, <1>9, StateKept DEF BaseInv
<1>13. Pulled(p)'
  <2>1. pull[p].got \subseteq Msgs
    BY <1>4 DEF PullRecord
  <2>2. (WindowOf(pull[p].talker, pull[p].got) /\ pull[p].todo \subseteq pull[p].got)'
    BY <1>2, <1>3, <1>5, <1>8 DEF Pulled, WindowOf, Sent, weflow
  <2>3. (\A m \in Msgs : Delete(m) \in pull[p].recalls => m \in gone)' /\ (pull[p].last <= clock)'
    BY <1>2, <1>3, <1>5, <1>8 DEF Pulled, weflow
  <2>4. (\A m \in Msgs \ pull[p].new : copies[m] > 0)'
    BY <1>3, <1>5, <1>8, <1>9 DEF ReadingInv, Keeps
  <2>5. (\A m \in pull[p].got : copies[m] > 0 \/ m \in pull[p].todo)'
    <3> SUFFICES ASSUME NEW m \in pull[p].got, m \notin f.todo PROVE copies'[m] > 0
      BY <1>5, <1>8
    <3>1. CASE m = r
      BY <3>1, <1>10
    <3>2. CASE m # r
      BY <3>2, <2>1, <1>3, <1>5, <1>9 DEF ReadingInv, Keeps
    <3> QED
      BY <3>1, <3>2
  <2>6. (pull[p].pc = "fetching" => pull[p].kind = "backfill" /\ pull[p].from = 0 /\ pull[p].pages > 0)'
    BY <1>3, <1>5, <1>8 DEF ReadingInv
  <2>7. Reading(p)' /\ (pull[p].pc = "writing" => pull[p].pages = 0)' /\ (pull[p].epoch = resetAt)'
    BY <1>2, <1>3, <1>5, <1>8 DEF Reading, ReadingInv, history
  <2> QED
    BY <2>2, <2>3, <2>4, <2>5, <2>6, <2>7 DEF Pulled, ReadingInv
<1>14. PullsInv'
  BY <1>8, <1>9, <1>13, PulledKept DEF BaseInv, PullsInv
<1> QED
  BY <1>9, <1>11, <1>12, <1>14 DEF BaseInv

LEMMA BaseMerge ==
    ASSUME BaseInv, NEW p \in Pullers, Merge(p)
    PROVE  BaseInv'
<1> DEFINE t == pull[p].talker
           empty == pull[p].kind = "pull" /\ p = Sidebar /\ pull[p].got = {}
           r == IF empty THEN [Idle EXCEPT !.talker = t, !.empty = TRUE] ELSE Idle
<1>1. pull[p] \in PullRecord /\ t \in Talkers
  BY DEF BaseInv, TypeOK, PullRecord
<1>2. /\ SetPull(p, r) /\ UNCHANGED <<weflow, file, epoch, sse, heard, budget, history>>
      /\ cursor' = [cursor EXCEPT ![t] = MergedCursor(t, NewCursor(p))]
      /\ recent' = [recent EXCEPT ![t] = pull[p].got]
      /\ seen' = MergedSeen(p)
  BY DEF Merge
<1>3. r \in PullRecord
  BY <1>1, IdleIs DEF PullRecord
<1>4. r.pc = "idle" /\ ~r.history /\ r.pages = 0 /\ r.got = {} /\ r.todo = {} /\ r.recalls = {}
      /\ r.last = 0
  BY DEF Idle
<1> HIDE DEF r
<1>5. /\ pull' \in [Pullers -> PullRecord] /\ pull'[p] = r
      /\ \A q \in Pullers : q # p => pull'[q] = pull[q]
  BY <1>2, <1>3, SetPullIs DEF BaseInv
<1>6. Keeps /\ StampInv' /\ IndexInv' /\ FileInv'
  BY <1>2, QuietFile DEF BaseInv, history
<1>7. NewCursor(p) \in 0 .. NoCursor
  BY NewCursorIs DEF BaseInv
<1>8. MergedCursor(t, NewCursor(p)) \in 0 .. NoCursor
  <2>1. cursor[t] \in 0 .. NoCursor /\ NoCursor \in Nat
    BY <1>1, BoundsAssumption DEF BaseInv, TypeOK, NoCursor
  <2>2. Max({cursor[t], NewCursor(p)}) \in {cursor[t], NewCursor(p)}
    BY <1>7, <2>1, MaxOfTwo
  <2> QED
    BY <1>7, <2>1, <2>2 DEF MergedCursor
<1>9. pull[p].got \subseteq Msgs /\ pull[p].todo = {} /\ MergedSeen(p) \subseteq Msgs
  BY <1>1 DEF PullRecord, MergedSeen, Merge, BaseInv, TypeOK
<1>10. /\ cursor' \in [Talkers -> 0 .. NoCursor] /\ recent' \in [Talkers -> SUBSET Msgs]
       /\ seen' \subseteq Msgs
  BY <1>2, <1>8, <1>9 DEF BaseInv, TypeOK
<1>11. TypeOK'
  BY <1>2, <1>5, <1>10 DEF BaseInv, TypeOK, weflow, file, history
<1>12. Reading(p) /\ ReadingInv(p) /\ Pulled(p)
  BY DEF BaseInv, PullsInv, Pulled, Beginning, Merge, Step
<1>13. StateInv'
  <2>1. (epoch = resetAt)' /\ (sse.on => sse.epoch = resetAt)'
    BY <1>2 DEF BaseInv, StateInv, history
  <2>2. \A u \in Talkers : WindowOf(u, recent[u])'
    BY <1>1, <1>2, <1>12 DEF BaseInv, StateInv, Pulled, WindowOf, Sent, weflow, TypeOK
  <2>3. \A u \in Talkers : WindowOf(u, sse.recent[u])'
    BY <1>2 DEF BaseInv, StateInv, WindowOf, Sent, weflow
  <2>4. (\A m \in seen : copies[m] > 0)'
    BY <1>2, <1>9, <1>12 DEF BaseInv, StateInv, ReadingInv, MergedSeen, file
  <2>5. (sse.on => \A m \in sse.seen : copies[m] > 0)'
    BY <1>2 DEF BaseInv, StateInv, file
  <2> QED
    BY <2>1, <2>2, <2>3, <2>4, <2>5 DEF StateInv
<1>14. Pulled(p)'
  BY <1>4, <1>5, <1>11, BeginningPulled DEF Beginning, TypeOK
<1>15. PullsInv'
  BY <1>5, <1>6, <1>14, PulledKept DEF BaseInv, PullsInv
<1> QED
  BY <1>6, <1>11, <1>13, <1>15 DEF BaseInv

\* A pull that ends without a merge.
LEMMA IdlePulled ==
    ASSUME BaseInv, NEW p \in Pullers, SetPull(p, Idle), Keeps
    PROVE  pull' \in [Pullers -> PullRecord] /\ pull'[p] = Idle /\ PullsInv'
<1>1. /\ pull' \in [Pullers -> PullRecord] /\ pull'[p] = Idle
      /\ \A q \in Pullers : q # p => pull'[q] = pull[q]
  BY IdleIs, SetPullIs DEF BaseInv
<1>2. Beginning(p)' /\ pull'[p].last <= clock'
  BY <1>1 DEF Beginning, Idle, Keeps
<1>3. Pulled(p)'
  BY <1>2, BeginningPulled
<1> QED
  BY <1>1, <1>3, PulledKept DEF BaseInv, PullsInv

LEMMA BaseFail ==
    ASSUME BaseInv, NEW p \in Pullers, Fail(p)
    PROVE  BaseInv'
<1>1. Keeps /\ StampInv' /\ IndexInv' /\ FileInv'
  BY QuietFile DEF Fail, BaseInv, history
<1>2. pull' \in [Pullers -> PullRecord] /\ PullsInv'
  BY <1>1, IdlePulled DEF Fail
<1>3. budget' \in [Events -> Nat]
  BY SpendIs DEF Fail, Events, BaseInv
<1>4. TypeOK'
  BY <1>2, <1>3 DEF Fail, BaseInv, TypeOK, weflow, file, state, history
<1>5. StateInv'
  BY <1>1, StateKept DEF Fail, BaseInv
<1> QED
  BY <1>1, <1>2, <1>4, <1>5 DEF BaseInv

LEMMA BaseDie ==
    ASSUME BaseInv, NEW p \in Pullers, DieAppending(p)
    PROVE  BaseInv'
<1>1. PICK r \in pull[p].todo \cup pull[p].recalls :
        AppendOnce(r, r \in Msgs /\ Mode(p, r), FALSE)
  BY DEF DieAppending
<1>2. Step(p, "writing") /\ UNCHANGED <<weflow, state, sse, heard, history>> /\ SetPull(p, Idle)
  BY DEF DieAppending
<1>3. /\ r \in RawIds /\ (r \in Msgs /\ Mode(p, r)) \in BOOLEAN
      /\ r \in Msgs /\ Mode(p, r) => stamp[r] > resetAt
      /\ \/ r \in Msgs /\ Sent(r)
         \/ \E m \in Msgs : r = Delete(m) /\ m \in gone
  BY <1>2, LineIs
<1>4. /\ Keeps /\ StampInv' /\ IndexInv' /\ FileInv'
      /\ copies' \in [RawIds -> Nat] /\ live' \subseteq Msgs
      /\ index' \subseteq RawIds /\ fresh' \in BOOLEAN
  BY <1>1, <1>2, <1>3, AppendFile DEF history
<1>5. pull' \in [Pullers -> PullRecord] /\ PullsInv'
  BY <1>2, <1>4, IdlePulled
<1>6. budget' \in [Events -> Nat]
  BY SpendIs DEF DieAppending, Events, BaseInv
<1>7. TypeOK'
  BY <1>2, <1>4, <1>5, <1>6 DEF BaseInv, TypeOK, weflow, state, history
<1>8. StateInv'
  BY <1>2, <1>4, StateKept DEF BaseInv
<1> QED
  BY <1>4, <1>5, <1>7, <1>8 DEF BaseInv

LEMMA BaseListen ==
    ASSUME BaseInv, Listen \/ StopListening
    PROVE  BaseInv'
<1>1. UNCHANGED <<weflow, file, state, pull, history>>
  BY DEF Listen, StopListening
<1>2. Keeps /\ StampInv' /\ IndexInv' /\ FileInv'
  BY <1>1, QuietFile DEF BaseInv, history
<1>3. sse' \in StateRecord
  <2>1. NoCursor \in 0 .. NoCursor /\ 0 \in Times
    BY BoundsAssumption DEF NoCursor, Times
  <2>2. CASE Listen
    <3>1. sse' = [on |-> TRUE, epoch |-> epoch, cursor |-> cursor, recent |-> recent, seen |-> seen]
      BY <2>2 DEF Listen
    <3> QED
      BY <3>1 DEF StateRecord, BaseInv, TypeOK
  <2>3. CASE StopListening
    <3>1. sse' = Silent
      BY <2>3 DEF StopListening
    <3> QED
      BY <2>1, <3>1 DEF Silent, StateRecord
  <2> QED
    BY <2>2, <2>3
<1>4. budget' \in [Events -> Nat]
  BY SpendIs DEF Listen, StopListening, Events, BaseInv, TypeOK
<1>5. TypeOK'
  <2>1. heard' \subseteq Msgs
    BY DEF Listen, StopListening, BaseInv, TypeOK
  <2> QED
    BY <1>1, <1>3, <1>4, <2>1 DEF BaseInv, TypeOK, weflow, file, state, history
<1>6. StateInv'
  <2>1. CASE Listen
    <3>1. sse' = [on |-> TRUE, epoch |-> epoch, cursor |-> cursor, recent |-> recent, seen |-> seen]
      BY <2>1 DEF Listen
    <3>2. sse'.epoch = epoch /\ sse'.recent = recent /\ sse'.seen = seen
      BY <3>1
    <3> QED
      BY <1>1, <3>2 DEF BaseInv, StateInv, WindowOf, Sent, weflow, file, state, history
  <2>2. CASE StopListening
    <3>1. ~sse'.on /\ \A t \in Talkers : sse'.recent[t] = {}
      BY <2>2 DEF StopListening, Silent
    <3> QED
      BY <1>1, <3>1 DEF BaseInv, StateInv, WindowOf, Sent, weflow, file, state, history
  <2> QED
    BY <2>1, <2>2
<1>7. PullsInv'
  BY <1>1, <1>2, PulledKept DEF BaseInv, PullsInv
<1> QED
  BY <1>2, <1>5, <1>6, <1>7 DEF BaseInv

\* What the listener writes, when it does.
LEMMA PushIs ==
    ASSUME BaseInv, NEW m \in Msgs, Push(m)
    PROVE  /\ Keeps /\ StampInv' /\ IndexInv' /\ FileInv'
           /\ copies' \in [RawIds -> Nat] /\ live' \subseteq Msgs
           /\ index' \subseteq RawIds /\ fresh' \in BOOLEAN
           /\ budget' \in [Events -> Nat]
<1>1. UNCHANGED <<weflow, state, pull, sse, history>> /\ sse.on /\ Sent(m)
  BY DEF Push, Sent
<1>2. CASE AppendOnce(m, IsNew(m, sse.epoch), TRUE) /\ UNCHANGED budget
  <2>1. IsNew(m, sse.epoch) \in BOOLEAN /\ m \in RawIds
    BY RawIdsAre DEF IsNew
  <2>2. IsNew(m, sse.epoch) => stamp[m] > resetAt
    BY <1>1 DEF IsNew, BaseInv, StateInv, Sent, Never, TypeOK, Times
  <2> QED
    BY <1>1, <1>2, <2>1, <2>2, AppendFile DEF history, BaseInv, TypeOK
<1>3. CASE Spend("fault") /\ UNCHANGED file
  <2>1. budget' \in [Events -> Nat]
    BY <1>3, SpendIs DEF Events, BaseInv
  <2>2. Keeps /\ StampInv' /\ IndexInv' /\ FileInv'
    BY <1>1, <1>3, QuietFile DEF BaseInv, history
  <2> QED
    BY <1>3, <2>1, <2>2 DEF file, BaseInv, TypeOK
<1> QED
  BY <1>2, <1>3 DEF Push

LEMMA BasePush ==
    ASSUME BaseInv, NEW m \in Msgs, Push(m)
    PROVE  BaseInv'
<1>1. /\ Keeps /\ StampInv' /\ IndexInv' /\ FileInv'
      /\ copies' \in [RawIds -> Nat] /\ live' \subseteq Msgs
      /\ index' \subseteq RawIds /\ fresh' \in BOOLEAN
      /\ budget' \in [Events -> Nat]
  BY PushIs
<1>2. UNCHANGED <<weflow, state, pull, sse, history>> /\ heard' = heard \cup {m}
  BY DEF Push
<1>3. TypeOK'
  BY <1>1, <1>2 DEF BaseInv, TypeOK, StateRecord, weflow, state, history
<1>4. StateInv'
  BY <1>1, <1>2, StateKept DEF BaseInv
<1>5. PullsInv'
  BY <1>1, <1>2, PulledKept DEF BaseInv, PullsInv
<1> QED
  BY <1>1, <1>3, <1>4, <1>5 DEF BaseInv

\* What the listener puts back it has read from the same history.
LEMMA BaseRemember ==
    ASSUME BaseInv, RememberState
    PROVE  BaseInv'
<1>1. /\ UNCHANGED <<weflow, file, pull, sse, heard, budget, history>> /\ sse.on
      /\ epoch' = sse.epoch /\ cursor' = sse.cursor /\ recent' = sse.recent /\ seen' = sse.seen
  BY DEF RememberState
<1>2. Keeps /\ StampInv' /\ IndexInv' /\ FileInv'
  BY <1>1, QuietFile DEF BaseInv, history
<1>3. TypeOK'
  BY <1>1 DEF BaseInv, TypeOK, StateRecord, weflow, file, history
<1>4. StateInv'
  <2>1. sse.seen \subseteq Msgs /\ \A t \in Talkers : sse.recent[t] \subseteq Msgs
    BY DEF BaseInv, TypeOK, StateRecord
  <2>2. (epoch = resetAt)' /\ (sse.on => sse.epoch = resetAt)'
    BY <1>1 DEF BaseInv, StateInv, history
  <2>3. \A t \in Talkers : (WindowOf(t, recent[t]) /\ WindowOf(t, sse.recent[t]))'
    BY <1>1 DEF BaseInv, StateInv, WindowOf, Sent, weflow
  <2>4. (\A x \in seen : copies[x] > 0)' /\ (sse.on => \A x \in sse.seen : copies[x] > 0)'
    BY <1>1, <1>2, <2>1 DEF BaseInv, StateInv, Keeps
  <2> QED
    BY <2>2, <2>3, <2>4 DEF StateInv
<1>5. PullsInv'
  BY <1>1, <1>2, PulledKept DEF BaseInv, PullsInv
<1> QED
  BY <1>2, <1>3, <1>4, <1>5 DEF BaseInv

LEMMA BaseReset ==
    ASSUME BaseInv, Reset
    PROVE  BaseInv'
<1>1. UNCHANGED weflow /\ sse' = sse /\ ~sse.on
  BY DEF Reset, NobodyReads
<1>2. budget' \in [Events -> Nat]
  BY SpendIs DEF Reset, Events, BaseInv
<1>3. NoCursor \in Nat /\ clock \in Times
  BY BoundsAssumption DEF NoCursor, BaseInv, TypeOK, Times
<1>4. TypeOK'
  BY <1>1, <1>2, <1>3, IdleIs DEF Reset, BaseInv, TypeOK, weflow
<1>5. StampInv'
  BY <1>1, <1>3 DEF BaseInv, StampInv, Reset, weflow, Times
<1>6. IndexInv'
  BY DEF Reset, IndexInv, RecordedOnce, Recorded
<1>7. FileInv'
  BY RawIdsAre DEF Reset, FileInv, OldNeverLive, OnlyDeletedRecalled
<1>8. StateInv'
  BY <1>1 DEF Reset, BaseInv, StateInv, WindowOf, Sent, weflow
<1>9. PullsInv'
  <2> SUFFICES ASSUME NEW p \in Pullers PROVE Pulled(p)'
    BY DEF PullsInv
  <2>1. pull'[p] = Idle
    BY DEF Reset
  <2>2. Beginning(p)' /\ pull'[p].last <= clock'
    BY <2>1, <1>4 DEF Beginning, Idle, TypeOK
  <2> QED
    BY <2>2, BeginningPulled
<1> QED
  BY <1>4, <1>5, <1>6, <1>7, <1>8, <1>9 DEF BaseInv

LEMMA BaseStutter ==
    ASSUME BaseInv, UNCHANGED vars
    PROVE  BaseInv'
<1>1. Keeps /\ StampInv' /\ IndexInv' /\ FileInv'
  BY QuietFile DEF vars, BaseInv, history
<1>2. TypeOK'
  BY DEF vars, BaseInv, TypeOK, weflow, file, state, history
<1>3. StateInv'
  BY <1>1, StateKept DEF vars, BaseInv
<1>4. PullsInv'
  BY <1>1, PulledKept DEF vars, BaseInv, PullsInv
<1> QED
  BY <1>1, <1>2, <1>3, <1>4 DEF BaseInv

\* The ways a pull is begun.
LEMMA BeginIs ==
    ASSUME BaseInv, NEW p \in Pullers, WorkerPull(p) \/ CliPull(p) \/ Backfill(p) \/ Bootstrap(p)
    PROVE  /\ budget' \in [Events -> Nat]
           /\ \E t \in Talkers, kind \in {"pull", "backfill", "bootstrap"} : List(p, t, kind)
<1>1. budget' \in [Events -> Nat]
  BY SpendIs DEF WorkerPull, CliPull, Backfill, Bootstrap, Events, BaseInv, TypeOK
<1>2. pull[p].talker \in Talkers
  BY DEF BaseInv, TypeOK, PullRecord
<1> QED
  BY <1>1, <1>2 DEF WorkerPull, CliPull, Backfill, Bootstrap

LEMMA BaseNext ==
    ASSUME BaseInv, [Next]_vars
    PROVE  BaseInv'
<1>1. ASSUME NEW m \in Msgs, Arrive(m) \/ DeleteMessage(m) \/ Push(m)
      PROVE  BaseInv'
  BY <1>1, BaseArrive, BaseDelete, BasePush
<1>2. ASSUME NEW p \in Pullers, WorkerPull(p) \/ CliPull(p) \/ Backfill(p) \/ Bootstrap(p)
      PROVE  BaseInv'
  BY <1>2, BeginIs, BaseList
<1>3. ASSUME NEW p \in Pullers, Pulling(p) \/ Fail(p) \/ DieAppending(p)
      PROVE  BaseInv'
  BY <1>3, BaseRead, BaseFetch, BaseWrite, BaseMerge, BaseFail, BaseDie DEF Pulling
<1> QED
  BY <1>1, <1>2, <1>3, BaseTick, BaseListen, BaseRemember, BaseReset, BaseStutter DEF Next

-----------------------------------------------------------------------------
(* The second layer. *)

LEMMA OpenIs ==
    ASSUME TypeOK, NEW t \in Talkers
    PROVE  /\ Open(t) \subseteq Held(t) /\ Held(t) \subseteq Msgs
           /\ \A m \in Open(t) : stamp[m] \in Nat /\ Sent(m) /\ TalkerOf[m] = t
BY DEF TypeOK, Open, Held, Sent, Times

LEMMA OpenKept ==
    ASSUME TypeOK, Keeps, UNCHANGED stamp, skipped \subseteq skipped', TypeOK'
    PROVE  \A t \in Talkers : Open(t)' \subseteq Open(t)
<1>1. \A m \in Msgs : copies'[m] = 0 => copies[m] = 0
  BY RawIdsAre DEF Keeps, TypeOK
<1> QED
  BY <1>1 DEF Open, Held, Keeps

LEMMA CursorKept ==
    ASSUME BaseInv, BaseInv', Keeps, UNCHANGED <<stamp, epoch, cursor, sse>>,
           skipped \subseteq skipped', CursorInv
    PROVE  CursorInv'
<1>1. \A t \in Talkers : Open(t)' \subseteq Open(t)
  BY OpenKept DEF BaseInv
<1>2. clock \in Nat /\ clock' \in Nat /\ clock <= clock'
  BY DEF Keeps, BaseInv, TypeOK
<1>3. /\ \A t \in Talkers : cursor[t] \in Nat /\ sse.cursor[t] \in Nat
      /\ sse' = sse /\ cursor' = cursor /\ epoch' = epoch /\ stamp' = stamp
  BY BoundsAssumption DEF BaseInv, TypeOK, StateRecord, NoCursor
<1>4. \A t \in Talkers : BehindNone(t, cursor[t])'
  <2> TAKE t \in Talkers
  <2>1. BehindNone(t, cursor[t])
    BY DEF CursorInv
  <2> QED
    BY <1>1, <1>2, <1>3, <2>1 DEF BehindNone, Ahead
<1>5. sse.on => \A t \in Talkers : BehindNone(t, sse.cursor[t])'
  <2> SUFFICES ASSUME sse.on, NEW t \in Talkers PROVE BehindNone(t, sse.cursor[t])'
    OBVIOUS
  <2>1. BehindNone(t, sse.cursor[t])
    BY DEF CursorInv
  <2> QED
    BY <1>1, <1>2, <1>3, <2>1 DEF BehindNone, Ahead
<1> QED
  BY <1>3, <1>4, <1>5 DEF CursorInv

LEMMA NewCursorKept ==
    ASSUME BaseInv, Keeps, NEW p \in Pullers, pull'[p] = pull[p]
    PROVE  NewCursor(p)' = NewCursor(p)
<1>1. \A m \in pull[p].got : m \in Msgs /\ stamp'[m] = stamp[m]
  BY DEF BaseInv, PullsInv, Pulled, WindowOf, Keeps, TypeOK, PullRecord
<1>2. {stamp'[m] : m \in pull'[p].got} = {stamp[m] : m \in pull[p].got}
  BY <1>1
<1> QED
  BY <1>2 DEF NewCursor

LEMMA FindsKept ==
    ASSUME BaseInv, BaseInv', Keeps, UNCHANGED <<stamp, epoch>>, skipped \subseteq skipped',
           NEW p \in Pullers, pull'[p] = pull[p], Finds(p),
           \A m \in Open(pull[p].talker)' : Later(p, m) => Later(p, m)'
    PROVE  Finds(p)'
<1>1. pull[p].talker \in Talkers /\ pull[p].from \in Nat
  BY BoundsAssumption DEF BaseInv, TypeOK, PullRecord, NoCursor
<1>2. Open(pull[p].talker)' \subseteq Open(pull[p].talker)
  BY <1>1, OpenKept DEF BaseInv
<1>3. NewCursor(p)' = NewCursor(p)
  BY NewCursorKept
<1>4. (pull[p].from <= clock)'
  BY <1>1 DEF Finds, Keeps, BaseInv, TypeOK
<1>5. \A m \in Open(pull[p].talker)' :
        \/ m \in pull'[p].todo
        \/ ~Ahead(m, NewCursor(p))' /\ ~Ahead(m, epoch)'
        \/ pull'[p].pc = "fetching" /\ Later(p, m)'
  <2> TAKE m \in Open(pull[p].talker)'
  <2>1. \/ m \in pull[p].todo
        \/ ~Ahead(m, NewCursor(p)) /\ ~Ahead(m, epoch)
        \/ pull[p].pc = "fetching" /\ Later(p, m)
    BY <1>2 DEF Finds
  <2>2. ~Ahead(m, NewCursor(p)) /\ ~Ahead(m, epoch) => ~Ahead(m, NewCursor(p))' /\ ~Ahead(m, epoch)'
    BY <1>3 DEF Ahead
  <2> QED
    BY <2>1, <2>2
<1> QED
  BY <1>4, <1>5 DEF Finds

\* A step that changes no message in WeFlow.
LEMMA LaterKept ==
    ASSUME UNCHANGED <<stamp, gone>>, NEW p \in Pullers, pull'[p] = pull[p], NEW m
    PROVE  Later(p, m)' = Later(p, m)
BY DEF Later, Place, Held

LEMMA PullKept ==
    ASSUME BaseInv, BaseInv', Keeps, UNCHANGED <<stamp, gone, epoch>>, skipped \subseteq skipped',
           NEW p \in Pullers, PullInv, pull'[p] = pull[p]
    PROVE  Reading(p)' => Finds(p)'
<1>1. Reading(p)' => Reading(p)
  BY DEF Reading
<1>2. \A m \in Open(pull[p].talker)' : Later(p, m) => Later(p, m)'
  BY LaterKept
<1> QED
  BY <1>1, <1>2, FindsKept DEF PullInv

\* A step that leaves the cursors alone, and every pull but one.
LEMMA OpenQuiet ==
    ASSUME BaseInv, BaseInv', OpenInv, Keeps, UNCHANGED <<stamp, gone, epoch, cursor, sse>>,
           skipped \subseteq skipped',
           \A p \in Pullers : pull'[p] = pull[p] \/ (Reading(p)' => Finds(p)')
    PROVE  OpenInv'
<1>1. CursorInv'
  BY CursorKept DEF OpenInv
<1>2. PullInv'
  <2> SUFFICES ASSUME NEW p \in Pullers PROVE Reading(p)' => Finds(p)'
    BY DEF PullInv
  <2> QED
    BY PullKept DEF OpenInv
<1> QED
  BY <1>1, <1>2 DEF OpenInv

\* Steps after which a pull has not begun to read.
LEMMA OpenBegin ==
    ASSUME BaseInv, BaseInv', OpenInv, NEW p \in Pullers,
           WorkerPull(p) \/ CliPull(p) \/ Backfill(p) \/ Bootstrap(p) \/ Fail(p)
    PROVE  OpenInv'
<1>1. UNCHANGED <<weflow, file, state, sse, resetAt, skipped>>
  BY DEF WorkerPull, CliPull, Backfill, Bootstrap, List, Fail, history
<1>2. Keeps
  BY <1>1, QuietFile DEF BaseInv
<1>3. \E r \in PullRecord : SetPull(p, r) /\ r.pc \in {"idle", "listed"}
  <2>1. CASE Fail(p)
    BY <2>1, IdleIs DEF Fail, Idle
  <2>2. CASE WorkerPull(p) \/ CliPull(p) \/ Backfill(p) \/ Bootstrap(p)
    <3>1. PICK t \in Talkers, kind \in {"pull", "backfill", "bootstrap"} : List(p, t, kind)
      BY <2>2, BeginIs
    <3>2. LastMessageAt(t) \in Times
      BY LastIs DEF BaseInv
    <3> DEFINE r == [Idle EXCEPT !.pc = "listed", !.talker = t, !.kind = kind,
                                 !.last = LastMessageAt(t)]
    <3>3. r \in PullRecord /\ r.pc = "listed"
      BY <3>2, IdleIs DEF PullRecord
    <3> QED
      BY <3>1, <3>3 DEF List
  <2> QED
    BY <2>1, <2>2
<1>4. ~Reading(p)' /\ \A q \in Pullers : q # p => pull'[q] = pull[q]
  BY <1>3, SetPullIs DEF BaseInv, Reading
<1> QED
  BY <1>1, <1>2, <1>4, OpenQuiet DEF weflow, state

LEMMA OpenTick ==
    ASSUME BaseInv, BaseInv', OpenInv, Tick
    PROVE  OpenInv'
<1>1. Keeps
  BY BoundsAssumption DEF Keeps, Tick, file, history, BaseInv, TypeOK
<1> QED
  BY <1>1, OpenQuiet DEF Tick, state, history

\* Writing a line closes a message.
LEMMA OpenWrite ==
    ASSUME BaseInv, BaseInv', OpenInv, NEW p \in Pullers, Write(p)
    PROVE  OpenInv'
<1>1. PICK r \in pull[p].todo \cup pull[p].recalls :
        /\ AppendOnce(r, r \in Msgs /\ Mode(p, r), TRUE)
        /\ SetPull(p, [pull[p] EXCEPT !.todo = @ \ {r}, !.recalls = @ \ {r}])
  BY DEF Write
<1>2. Step(p, "writing") /\ UNCHANGED <<weflow, state, sse, heard, budget, history>>
  BY DEF Write
<1>3. /\ Reading(p) /\ r \in RawIds /\ (r \in Msgs /\ Mode(p, r)) \in BOOLEAN
      /\ r \in Msgs /\ Mode(p, r) => stamp[r] > resetAt
      /\ \/ r \in Msgs /\ Sent(r)
         \/ \E m \in Msgs : r = Delete(m) /\ m \in gone
  BY <1>2, LineIs
<1>4. Keeps /\ copies'[r] = 1
  BY <1>1, <1>2, <1>3, AppendFile, AppendIs DEF history, BaseInv
<1> DEFINE f == [pull[p] EXCEPT !.todo = @ \ {r}, !.recalls = @ \ {r}]
<1>5. pull[p] \in PullRecord
  BY DEF BaseInv, TypeOK
<1>6. /\ f.pc = pull[p].pc /\ f.talker = pull[p].talker /\ f.from = pull[p].from
      /\ f.got = pull[p].got /\ f.todo = pull[p].todo \ {r}
  BY <1>5 DEF PullRecord
<1>7. f \in PullRecord
  BY <1>5 DEF PullRecord
<1>8. SetPull(p, f)
  BY <1>1
<1> HIDE DEF f
<1>9. pull'[p] = f /\ \A q \in Pullers : q # p => pull'[q] = pull[q]
  BY <1>7, <1>8, SetPullIs DEF BaseInv
<1>10. Finds(p)'
  <2>1. Finds(p) /\ pull[p].talker \in Talkers
    BY <1>3, <1>5 DEF OpenInv, PullInv, PullRecord
  <2>2. Open(pull[p].talker)' \subseteq Open(pull[p].talker)
    BY <1>2, <1>4, <1>6, <1>9, <2>1, OpenKept DEF BaseInv, weflow, history
  <2>3. r \notin Open(pull[p].talker)'
    BY <1>4 DEF Open
  <2>4. NewCursor(p)' = NewCursor(p)
    BY <1>2, <1>6, <1>9 DEF NewCursor, weflow
  <2>5. (pull[p].from <= clock)'
    BY <1>2, <1>6, <1>9, <2>1 DEF Finds, weflow
  <2>6. \A m \in Open(pull[p].talker)' :
          \/ m \in pull'[p].todo
          \/ ~Ahead(m, NewCursor(p))' /\ ~Ahead(m, epoch)'
    <3> TAKE m \in Open(pull[p].talker)'
    <3>1. m \in pull[p].todo \/ (~Ahead(m, NewCursor(p)) /\ ~Ahead(m, epoch))
      BY <1>2, <2>1, <2>2 DEF Finds, Step
    <3> QED
      BY <1>2, <1>6, <1>9, <2>3, <2>4, <3>1 DEF Ahead, weflow, state
  <2> QED
    BY <2>5, <2>6 DEF Finds
<1> QED
  BY <1>2, <1>4, <1>9, <1>10, OpenQuiet DEF weflow, state, history

LEMMA OpenDie ==
    ASSUME BaseInv, BaseInv', OpenInv, NEW p \in Pullers, DieAppending(p)
    PROVE  OpenInv'
<1>1. PICK r \in pull[p].todo \cup pull[p].recalls :
        AppendOnce(r, r \in Msgs /\ Mode(p, r), FALSE)
  BY DEF DieAppending
<1>2. Step(p, "writing") /\ UNCHANGED <<weflow, state, sse, heard, history>> /\ SetPull(p, Idle)
  BY DEF DieAppending
<1>3. /\ r \in RawIds /\ (r \in Msgs /\ Mode(p, r)) \in BOOLEAN
      /\ r \in Msgs /\ Mode(p, r) => stamp[r] > resetAt
      /\ \/ r \in Msgs /\ Sent(r)
         \/ \E m \in Msgs : r = Delete(m) /\ m \in gone
  BY <1>2, LineIs
<1>4. Keeps
  BY <1>1, <1>2, <1>3, AppendFile DEF history
<1>5. ~Reading(p)' /\ \A q \in Pullers : q # p => pull'[q] = pull[q]
  BY <1>2, IdleIs, SetPullIs DEF BaseInv, Reading, Idle
<1> QED
  BY <1>2, <1>4, <1>5, OpenQuiet DEF weflow, state, history

LEMMA OpenListen ==
    ASSUME BaseInv, BaseInv', OpenInv, Listen \/ StopListening
    PROVE  OpenInv'
<1>1. UNCHANGED <<weflow, file, state, pull, history>>
  BY DEF Listen, StopListening
<1>2. /\ UNCHANGED <<clock, stamp, gone, copies, epoch, cursor, pull, skipped>>
      /\ \A t \in Talkers : Open(t)' = Open(t)
  BY <1>1 DEF weflow, file, state, history, Open, Held
<1>3. \A t \in Talkers : BehindNone(t, cursor[t])'
  BY <1>2 DEF OpenInv, CursorInv, BehindNone, Ahead
<1>4. sse'.on => sse'.cursor = cursor
  BY DEF Listen, StopListening, Silent
<1>5. CursorInv'
  BY <1>2, <1>3, <1>4 DEF CursorInv, BehindNone, Ahead
<1>6. Keeps
  BY <1>1, QuietFile DEF BaseInv, history
<1>7. PullInv'
  BY <1>2, <1>6, PullKept DEF OpenInv, PullInv
<1> QED
  BY <1>5, <1>7 DEF OpenInv

LEMMA OpenPush ==
    ASSUME BaseInv, BaseInv', OpenInv, NEW m \in Msgs, Push(m)
    PROVE  OpenInv'
<1>1. Keeps
  BY PushIs
<1>2. UNCHANGED <<weflow, state, pull, sse, history>>
  BY DEF Push
<1> QED
  BY <1>1, <1>2, OpenQuiet DEF weflow, state, history

LEMMA OpenRemember ==
    ASSUME BaseInv, BaseInv', OpenInv, RememberState
    PROVE  OpenInv'
<1>1. /\ UNCHANGED <<weflow, file, pull, sse, history>> /\ sse.on
      /\ epoch' = epoch /\ cursor' = sse.cursor
  BY DEF RememberState, BaseInv, StateInv
<1>2. Keeps
  BY <1>1, QuietFile DEF BaseInv, history
<1>3. \A t \in Talkers : Open(t)' \subseteq Open(t)
  BY <1>1, <1>2, OpenKept DEF BaseInv, weflow, history
<1>4. \A t \in Talkers : BehindNone(t, sse.cursor[t])'
  BY <1>1, <1>3 DEF OpenInv, CursorInv, BehindNone, Ahead, weflow
<1>5. CursorInv'
  BY <1>1, <1>4 DEF CursorInv, BehindNone, Ahead
<1>6. PullInv'
  BY <1>1, <1>2, PullKept DEF OpenInv, PullInv, weflow, history
<1> QED
  BY <1>5, <1>6 DEF OpenInv

LEMMA OpenReset ==
    ASSUME BaseInv, BaseInv', OpenInv, Reset
    PROVE  OpenInv'
<1>1. sse' = sse /\ ~sse.on /\ \A t \in Talkers : cursor'[t] = NoCursor
  BY DEF Reset, NobodyReads
<1>2. CursorInv'
  BY <1>1 DEF CursorInv, BehindNone
<1>3. PullInv'
  BY DEF PullInv, Reading, Reset, Idle
<1> QED
  BY <1>2, <1>3 DEF OpenInv

\* A deletion moves the next page, and what it might hide is left out.
LEMMA OpenDelete ==
    ASSUME BaseInv, BaseInv', OpenInv, NEW d \in Msgs, DeleteMessage(d)
    PROVE  OpenInv'
<1>1. /\ gone' = gone \cup {d} /\ skipped \subseteq skipped'
      /\ UNCHANGED <<clock, stamp, file, state, pull, sse, resetAt>>
  BY DEF DeleteMessage
<1>2. Keeps
  BY <1>1 DEF Keeps, file, BaseInv, TypeOK
<1>3. CursorInv'
  BY <1>1, <1>2, CursorKept DEF OpenInv, state
<1>4. ASSUME NEW p \in Pullers, Reading(p)'
      PROVE  Finds(p)'
  <2>1. Reading(p) /\ Finds(p) /\ pull'[p] = pull[p]
    BY <1>1, <1>4 DEF OpenInv, PullInv, Reading
  <2>2. ASSUME NEW m \in Open(pull[p].talker)', Later(p, m)
        PROVE  Later(p, m)'
    <3> DEFINE t == pull[p].talker
               New == {n \in Held(t) : stamp[n] > stamp[m]}
               New2 == {n \in Held(t)' : stamp'[n] > stamp'[m]}
    <3>1. t \in Talkers
      BY DEF BaseInv, TypeOK, PullRecord
    <3>2. m \in Open(t)' /\ m \in Held(t)' /\ m \notin skipped'
      BY <2>1 DEF Open
    <3>3. m \in Held(t)
      BY <1>1, <2>1, <3>2 DEF Held
    <3>4. CASE TalkerOf[d] # t
      <4>1. Held(t)' = Held(t)
        BY <1>1, <3>4, <2>1 DEF Held
      <4> QED
        BY <1>1, <2>1, <2>2, <4>1 DEF Later, Place
    <3>5. CASE TalkerOf[d] = t /\ pull[p].pages = 0
      <4>1. PageSize \in Nat
        BY BoundsAssumption
      <4>2. pull[p].pages * PageSize = 0
        BY <3>5, <4>1
      <4>3. IsFiniteSet(New2)
        BY MsgsAssumption, FS_Subset DEF Held
      <4>4. Cardinality(New2) >= 0
        BY <4>3, FS_CardinalityType
      <4> QED
        BY <2>1, <4>2, <4>4 DEF Later, Place
    <3>6. CASE TalkerOf[d] = t /\ pull[p].pages > 0
      <4>1. skipped' = skipped \cup {n \in Held(t) : stamp[n] < stamp[d]}
        BY <3>6 DEF DeleteMessage
      <4>2. ~(stamp[m] < stamp[d])
        BY <3>2, <3>3, <4>1
      <4>3. ~(stamp[d] > stamp[m])
        BY <4>2 DEF BaseInv, TypeOK, Times, Held
      <4>4. New2 = New
        BY <1>1, <2>1, <4>3 DEF Held
      <4> QED
        BY <2>1, <2>2, <4>4 DEF Later, Place
    <3>7. pull[p].pages \in Nat
      BY DEF BaseInv, TypeOK, PullRecord
    <3> QED
      BY <3>4, <3>5, <3>6, <3>7
  <2> QED
    BY <1>1, <1>2, <2>1, <2>2, FindsKept DEF state
<1> QED
  BY <1>3, <1>4 DEF OpenInv, PullInv

\* A message comes late by Lag at most, no cursor looks back by less.
LEMMA OpenArrive ==
    ASSUME BaseInv, BaseInv', OpenInv, NEW x \in Msgs, Arrive(x)
    PROVE  OpenInv'
<1>1. PICK s \in Max({1, Minus(clock, Lag)}) .. clock : stamp' = [stamp EXCEPT ![x] = s]
  BY DEF Arrive
<1>2. /\ UNCHANGED <<clock, gone, file, state, pull, sse, heard, resetAt, skipped>>
      /\ ~Sent(x)
  BY DEF Arrive, Sent
<1>3. /\ clock \in Nat /\ Lag \in Nat /\ Overlap \in Nat /\ Lag <= Overlap
      /\ s \in Nat /\ s >= Minus(clock, Lag) /\ NoCursor \in Nat
  <2>1. clock \in Nat /\ Lag \in Nat /\ Overlap \in Nat /\ Lag <= Overlap /\ NoCursor \in Nat
    BY TimesAssumption, BoundsAssumption DEF BaseInv, TypeOK, NoCursor
  <2>2. Minus(clock, Lag) \in Nat
    BY <2>1 DEF Minus
  <2>3. Minus(clock, Lag) <= Max({1, Minus(clock, Lag)}) /\ Max({1, Minus(clock, Lag)}) \in Nat
    BY <2>2, MaxOfTwo
  <2> QED
    BY <2>1, <2>2, <2>3
<1>4. stamp'[x] = s /\ \A n \in Msgs : n # x => stamp'[n] = stamp[n]
  BY <1>1 DEF BaseInv, TypeOK
<1>5. \A c \in 0 .. clock : ~Ahead(x, c)'
  <2> SUFFICES ASSUME NEW c \in 0 .. clock PROVE ~(s < Minus(c, Overlap))
    BY <1>4 DEF Ahead
  <2>1. Minus(c, Overlap) <= Minus(clock, Lag) /\ Minus(c, Overlap) \in Nat /\ Minus(clock, Lag) \in Nat
    BY <1>3 DEF Minus
  <2> QED
    BY <1>3, <2>1
<1>6. \A t \in Talkers : Open(t)' \subseteq Open(t) \cup {x}
  BY <1>2, <1>4 DEF Open, Held, file
<1>7. \A t \in Talkers : \A m \in Open(t)' : m # x => m \in Open(t) /\ stamp'[m] = stamp[m]
  BY <1>4, <1>6 DEF Open, Held
<1>8. epoch' = epoch /\ epoch \in 0 .. clock
  BY <1>2 DEF BaseInv, StateInv, StampInv, state, TypeOK, Times
<1>9. ASSUME NEW t \in Talkers, NEW c \in 0 .. NoCursor, BehindNone(t, c)
      PROVE  BehindNone(t, c)'
  <2> SUFFICES ASSUME c # NoCursor
               PROVE  c <= clock /\ \A m \in Open(t)' : ~Ahead(m, c)' /\ (c = 0 => ~Ahead(m, epoch)')
    BY <1>2 DEF BehindNone
  <2>1. c <= clock
    BY <1>9 DEF BehindNone
  <2>2. c \in 0 .. clock
    BY <1>3, <2>1
  <2>3. ~Ahead(x, c)' /\ ~Ahead(x, epoch)'
    BY <1>5, <1>8, <2>2 DEF Ahead
  <2>4. ASSUME NEW m \in Open(t)', m # x
        PROVE  ~Ahead(m, c)' /\ (c = 0 => ~Ahead(m, epoch)')
    <3>1. m \in Open(t) /\ stamp'[m] = stamp[m]
      BY <1>7, <2>4
    <3>2. ~Ahead(m, c) /\ (c = 0 => ~Ahead(m, epoch))
      BY <1>9, <3>1 DEF BehindNone
    <3> QED
      BY <1>8, <3>1, <3>2 DEF Ahead
  <2> QED
    BY <2>1, <2>3, <2>4 DEF Ahead
<1>10. CursorInv'
  <2>1. sse' = sse /\ cursor' = cursor
    BY <1>2 DEF state
  <2>2. \A t \in Talkers : cursor[t] \in 0 .. NoCursor /\ sse.cursor[t] \in 0 .. NoCursor
    BY DEF BaseInv, TypeOK, StateRecord
  <2>3. \A t \in Talkers : BehindNone(t, cursor[t])'
    <3> TAKE t \in Talkers
    <3>1. BehindNone(t, cursor[t])
      BY DEF OpenInv, CursorInv
    <3> DEFINE c == cursor[t]
    <3> HIDE DEF c
    <3>2. c \in 0 .. NoCursor /\ cursor'[t] = c /\ cursor[t] = c
      BY <2>1, <2>2 DEF c
    <3>3. \A k \in 0 .. NoCursor : k = c => BehindNone(t, k)'
      BY <1>9, <3>1, <3>2
    <3> QED
      BY <3>2, <3>3 DEF BehindNone, Ahead
  <2>4. sse.on => \A t \in Talkers : BehindNone(t, sse.cursor[t])'
    <3> SUFFICES ASSUME sse.on, NEW t \in Talkers PROVE BehindNone(t, sse.cursor[t])'
      OBVIOUS
    <3>1. BehindNone(t, sse.cursor[t])
      BY DEF OpenInv, CursorInv
    <3> DEFINE c == sse.cursor[t]
    <3> HIDE DEF c
    <3>2. c \in 0 .. NoCursor /\ sse'.cursor[t] = c /\ sse.cursor[t] = c
      BY <2>1, <2>2 DEF c
    <3>3. \A k \in 0 .. NoCursor : k = c => BehindNone(t, k)'
      BY <1>9, <3>1, <3>2
    <3> QED
      BY <3>2, <3>3 DEF BehindNone, Ahead
  <2> QED
    BY <2>1, <2>3, <2>4 DEF CursorInv
<1>11. ASSUME NEW p \in Pullers, Reading(p)'
       PROVE  Finds(p)'
  <2>1. Reading(p) /\ Finds(p) /\ pull' = pull
    BY <1>2, <1>11 DEF OpenInv, PullInv, Reading
  <2>2. pull[p].talker \in Talkers /\ pull[p].from \in Nat /\ pull[p].got \subseteq Msgs
    BY <1>3 DEF BaseInv, TypeOK, PullRecord
  <2>3. Keeps
    BY <1>2, <1>4 DEF Keeps, file, BaseInv, TypeOK
  <2>4. NewCursor(p)' = NewCursor(p)
    BY <2>1, <2>3, NewCursorKept
  <2>5. NewCursor(p) \in 0 .. clock
    <3>1. \A m \in pull[p].got : stamp[m] \in 0 .. clock
      BY <1>3, <2>2 DEF BaseInv, TypeOK, StampInv, Times
    <3> QED
      BY <1>3, <2>1, <2>2, <3>1, NewCursorIs DEF Finds, BaseInv
  <2>6. ASSUME NEW m \in Open(pull[p].talker)', m # x
        PROVE  \/ m \in pull'[p].todo
               \/ ~Ahead(m, NewCursor(p))' /\ ~Ahead(m, epoch)'
               \/ pull'[p].pc = "fetching" /\ Later(p, m)'
    <3> DEFINE t == pull[p].talker
               New == {n \in Held(t) : stamp[n] > stamp[m]}
               New2 == {n \in Held(t)' : stamp'[n] > stamp'[m]}
    <3>1. m \in Open(t) /\ stamp'[m] = stamp[m]
      BY <1>7, <2>1, <2>2, <2>6
    <3>2. ~Ahead(m, NewCursor(p)) /\ ~Ahead(m, epoch) => ~Ahead(m, NewCursor(p))' /\ ~Ahead(m, epoch)'
      BY <1>8, <2>4, <3>1 DEF Ahead
    <3>3. New \subseteq New2
      BY <1>2, <1>4, <2>1, <3>1 DEF Held, Sent, Never
    <3>4. IsFiniteSet(New2)
      BY MsgsAssumption, FS_Subset DEF Held
    <3>5. /\ Cardinality(New) <= Cardinality(New2)
          /\ Cardinality(New) \in Nat /\ Cardinality(New2) \in Nat
      BY <3>3, <3>4, FS_Subset, FS_CardinalityType
    <3>6. Later(p, m) => Later(p, m)'
      <4>1. Place(m, Held(t)) = Cardinality(New) /\ Place(m, Held(t))' = Cardinality(New2)
        BY <2>1 DEF Place
      <4>2. pull[p].pages * PageSize \in Nat
        BY BoundsAssumption DEF BaseInv, TypeOK, PullRecord
      <4> HIDE DEF New, New2
      <4>3. Cardinality(New) >= pull[p].pages * PageSize => Cardinality(New2) >= pull[p].pages * PageSize
        BY <3>5, <4>2
      <4> QED
        BY <2>1, <4>1, <4>3 DEF Later
    <3> QED
      BY <2>1, <3>1, <3>2, <3>6 DEF Finds
  <2>7. ~Ahead(x, NewCursor(p))' /\ ~Ahead(x, epoch)'
    BY <1>5, <1>8, <2>4, <2>5 DEF Ahead
  <2>8. (pull[p].from <= clock)'
    BY <1>2, <2>1 DEF Finds
  <2> QED
    BY <2>6, <2>7, <2>8 DEF Finds
<1> QED
  BY <1>10, <1>11 DEF OpenInv, PullInv

\* The cursor of a pull that wrote everything leaves nothing behind.
LEMMA OpenMerge ==
    ASSUME BaseInv, BaseInv', OpenInv, NEW p \in Pullers, Merge(p)
    PROVE  OpenInv'
<1> DEFINE t == pull[p].talker
           c == MergedCursor(t, NewCursor(p))
           empty == pull[p].kind = "pull" /\ p = Sidebar /\ pull[p].got = {}
           r == IF empty THEN [Idle EXCEPT !.talker = t, !.empty = TRUE] ELSE Idle
<1>1. /\ SetPull(p, r) /\ UNCHANGED <<weflow, file, epoch, sse, heard, budget, history>>
      /\ cursor' = [cursor EXCEPT ![t] = c]
      /\ Step(p, "writing") /\ pull[p].todo = {}
  BY DEF Merge
<1>2. r \in PullRecord /\ r.pc = "idle" /\ t \in Talkers
  BY IdleIs DEF PullRecord, Idle, BaseInv, TypeOK
<1>3. ~Reading(p)' /\ \A q \in Pullers : q # p => pull'[q] = pull[q]
  BY <1>1, <1>2, SetPullIs DEF BaseInv, Reading
<1>4. Keeps
  BY <1>1, QuietFile DEF BaseInv, history
<1>5. PullInv'
  BY <1>1, <1>3, <1>4, PullKept DEF OpenInv, PullInv, weflow, history
<1>6. \A u \in Talkers : Open(u)' = Open(u)
  BY <1>1 DEF Open, Held, weflow, file, history
<1>7. Reading(p) /\ Finds(p) /\ BehindNone(t, cursor[t])
  BY <1>1, <1>2 DEF OpenInv, PullInv, CursorInv, Reading, Step
<1>8. \A m \in Open(t) : ~Ahead(m, NewCursor(p)) /\ ~Ahead(m, epoch)
  BY <1>1, <1>7 DEF Finds, Step
<1>9. NewCursor(p) \in 0 .. clock /\ clock \in Nat /\ clock < NoCursor
  <2>1. clock \in Nat /\ clock < NoCursor /\ pull[p].from \in Nat /\ pull[p].got \subseteq Msgs
    BY BoundsAssumption DEF BaseInv, TypeOK, NoCursor, PullRecord
  <2>2. \A m \in pull[p].got : stamp[m] \in 0 .. clock
    BY <2>1 DEF BaseInv, TypeOK, StampInv, Times
  <2> QED
    BY <1>7, <2>1, <2>2, NewCursorIs DEF Finds, BaseInv
<1>10. BehindNone(t, c)
  <2>1. CASE cursor[t] = NoCursor
    <3>1. c = NewCursor(p)
      BY <2>1 DEF MergedCursor
    <3> QED
      BY <1>8, <1>9, <3>1 DEF BehindNone
  <2>2. CASE cursor[t] # NoCursor
    <3>1. cursor[t] \in Nat
      BY <1>2, <1>9 DEF BaseInv, TypeOK
    <3>2. c = Max({cursor[t], NewCursor(p)})
      BY <2>2 DEF MergedCursor
    <3>3. c \in {cursor[t], NewCursor(p)}
      BY <1>9, <3>1, <3>2, MaxOfTwo
    <3>4. BehindNone(t, NewCursor(p))
      BY <1>8, <1>9 DEF BehindNone
    <3> QED
      BY <1>7, <3>3, <3>4
  <2> QED
    BY <2>1, <2>2
<1>11. CursorInv'
  <2> HIDE DEF c, t
  <2>1. \A u \in Talkers : BehindNone(u, cursor'[u])
    BY <1>1, <1>2, <1>10 DEF OpenInv, CursorInv, BaseInv, TypeOK
  <2>2. \A u \in Talkers : BehindNone(u, cursor[u])'
    BY <1>1, <1>6, <2>1 DEF BehindNone, Ahead, weflow
  <2>3. (sse.on => \A u \in Talkers : BehindNone(u, sse.cursor[u]))'
    BY <1>1, <1>6 DEF OpenInv, CursorInv, BehindNone, Ahead, weflow
  <2> QED
    BY <2>2, <2>3 DEF CursorInv
<1> QED
  BY <1>5, <1>11 DEF OpenInv

\* A pull begins at a cursor, behind which nothing is open, or leaves out what
\* is older.
LEMMA OpenRead ==
    ASSUME BaseInv, BaseInv', OpenInv, NEW p \in Pullers, Read(p)
    PROVE  OpenInv'
<1> DEFINE t == pull[p].talker
           w == Window(t, Start(p))
           got == Page(p, w)
<1>1. /\ UNCHANGED <<weflow, file, state, sse, heard, budget, resetAt>>
      /\ Step(p, "listed")
      /\ skipped' = skipped
           \cup (IF cursor[t] = NoCursor THEN {m \in Held(t) : stamp[m] < Start(p)} ELSE {})
           \cup (IF Onward(p, w) THEN {} ELSE w \ got)
  BY DEF Read
<1>2. Keeps
  BY <1>1, QuietFile DEF BaseInv
<1>3. /\ t \in Talkers /\ Held(t) \subseteq Msgs /\ got \subseteq w /\ w \subseteq Held(t)
      /\ pull[p].last <= clock /\ pull[p].last \in Nat
  BY DEF BaseInv, TypeOK, PullsInv, Pulled, PullRecord, Held, Window, Page, Times
<1>4. /\ clock \in Nat /\ clock < NoCursor /\ NoCursor \in Nat /\ Overlap \in Nat /\ Lookback \in Nat
      /\ epoch \in Nat /\ epoch <= clock /\ cursor[t] \in Nat
  BY <1>3, BoundsAssumption, TimesAssumption DEF BaseInv, TypeOK, StateInv, StampInv, NoCursor, Times
<1>5. BehindNone(t, cursor[t])
  BY <1>3 DEF OpenInv, CursorInv
<1>6. /\ Since(p) \in 0 .. NoCursor /\ From(p) \in 0 .. NoCursor
      /\ CursorLost(p) => From(p) <= pull[p].last
      /\ ~CursorLost(p) => From(p) = Since(p)
  BY SinceIs DEF BaseInv
<1>7. From(p) <= clock
  <2>1. Since(p) <= clock \/ CursorLost(p)
    <3>1. Minus(clock, Lookback) <= clock
      BY <1>4 DEF Minus
    <3>2. cursor[t] # NoCursor => cursor[t] <= clock
      BY <1>5 DEF BehindNone
    <3> QED
      BY <1>4, <3>1, <3>2 DEF Since
  <2> QED
    BY <1>3, <1>4, <1>6, <2>1
<1>8. \A m \in Open(t)' : m \in Open(t) /\ m \notin skipped'
  <2>1. pull'[p].talker = t
    BY ReadIs
  <2>2. stamp' = stamp /\ skipped \subseteq skipped'
    BY <1>1 DEF weflow
  <2>3. \A u \in Talkers : Open(u)' \subseteq Open(u)
    BY <1>2, <2>2, OpenKept DEF BaseInv
  <2>4. Open(t)' \subseteq Open(t)
    BY <1>3, <2>1, <2>3 DEF Open, Held
  <2> QED
    BY <2>4 DEF Open
<1>9. ASSUME NEW m \in Open(t), m \notin skipped', m \notin w
      PROVE  FALSE
  <2>1. m \in Held(t) /\ stamp[m] \in Nat
    BY <1>3, OpenIs DEF BaseInv
  <2>2. stamp[m] < Start(p)
    BY <1>9, <2>1, <1>6, <1>4 DEF Window, Start, Minus
  <2>3. cursor[t] # NoCursor
    BY <1>1, <1>9, <2>1, <2>2
  <2>4. ~Ahead(m, cursor[t]) /\ (cursor[t] = 0 => ~Ahead(m, epoch))
    BY <1>5, <2>3 DEF BehindNone
  <2>5. Ahead(m, From(p))
    BY <2>2 DEF Ahead, Start
  <2>6. From(p) # 0
    BY <1>4, <2>1, <2>5 DEF Ahead, Minus
  <2>7. CASE CursorLost(p)
    <3>1. Since(p) = cursor[t]
      BY <2>3, <2>7 DEF CursorLost, Since
    <3>2. From(p) <= Since(p)
      BY <1>3, <1>4, <1>6, <2>7 DEF CursorLost
    <3> QED
      BY <1>4, <1>6, <2>1, <2>4, <2>5, <3>1, <3>2 DEF Ahead, Minus
  <2>8. CASE ~CursorLost(p)
    <3>1. From(p) = Since(p)
      BY <1>6, <2>8
    <3>2. CASE AfterReset(p)
      <4>1. From(p) = epoch /\ cursor[t] = 0
        BY <2>3, <3>1, <3>2 DEF AfterReset, Since
      <4> QED
        BY <2>4, <2>5, <4>1
    <3>3. CASE ~AfterReset(p)
      <4>1. From(p) \in {0, cursor[t]}
        BY <2>3, <3>1, <3>3 DEF Since
      <4> QED
        BY <2>4, <2>5, <2>6, <4>1
    <3> QED
      BY <3>2, <3>3
  <2> QED
    BY <2>7, <2>8
<1>10. ASSUME NEW m \in Open(t), m \notin skipped', m \notin got
       PROVE  Onward(p, w) /\ Start(p) = 0 /\ Place(m, Held(t)) >= PageSize
  <2>1. m \in w \ got
    BY <1>9, <1>10
  <2>2. Onward(p, w)
    BY <1>1, <1>10, <2>1
  <2>3. From(p) = 0
    BY <2>2 DEF Onward, From, CursorLost, Since
  <2>4. Start(p) = 0
    BY <1>4, <2>3 DEF Start, Minus
  <2>5. w = Held(t)
    BY <1>3, <2>4 DEF Window, BaseInv, TypeOK, Times
  <2>6. Offset(p) = 0
    BY <1>1, BoundsAssumption DEF Offset, Step, BaseInv, PullsInv, Pulled, Beginning, Reading
  <2>7. PageSize \in Nat /\ Place(m, w) \in Nat
    BY <1>3, <2>1, PlaceBelow, BoundsAssumption DEF BaseInv
  <2>8. Place(m, w) < Offset(p) \/ Place(m, w) >= Offset(p) + PageSize
    BY <1>3, <2>1, PageIs DEF BaseInv
  <2> QED
    BY <2>2, <2>4, <2>5, <2>6, <2>7, <2>8
<1>11. Finds(p)'
  <2>1. /\ pull'[p].talker = t /\ pull'[p].from = From(p) /\ pull'[p].got = got
        /\ pull'[p].todo = got \cap pull'[p].new
        /\ \A m \in Msgs \ pull'[p].new : m \in seen
        /\ pull'[p].pc = (IF Onward(p, w) THEN "fetching" ELSE "writing")
        /\ pull'[p].pages = (IF Onward(p, w) THEN 1 ELSE 0)
    BY ReadIs
  <2> HIDE DEF t, w, got
  <2>2. (pull[p].from <= clock)'
    BY <1>1, <1>7, <2>1 DEF weflow
  <2>3. ASSUME NEW m \in Open(t)'
        PROVE  m \in pull'[p].todo \/ (pull'[p].pc = "fetching" /\ Later(p, m)')
    <3>1. m \in Open(t) /\ m \notin skipped' /\ m \in Msgs /\ copies[m] = 0
      BY <1>3, <1>8, <2>3 DEF Open
    <3>2. CASE m \in got
      <4>1. m \notin seen
        BY <3>1 DEF BaseInv, StateInv
      <4> QED
        BY <2>1, <3>1, <3>2, <4>1
    <3>3. CASE m \notin got
      <4>1. Onward(p, w) /\ Place(m, Held(t)) >= PageSize
        BY <1>10, <3>1, <3>3
      <4>3. 1 * PageSize = PageSize
        BY BoundsAssumption
      <4>4. Place(m, Held(pull[p].talker))' = Place(m, Held(t))
        BY <1>1, <2>1 DEF Place, Held, weflow
      <4> QED
        BY <2>1, <4>1, <4>3, <4>4 DEF Later
    <3> QED
      BY <3>2, <3>3
  <2>4. Open(pull[p].talker)' = Open(t)'
    BY DEF t
  <2> QED
    BY <2>2, <2>3, <2>4 DEF Finds
<1>12. \A q \in Pullers : q # p => pull'[q] = pull[q]
  BY ReadIs
<1> QED
  BY <1>1, <1>2, <1>11, <1>12, OpenQuiet DEF weflow, state

\* The next page of a backfill.
LEMMA OpenFetch ==
    ASSUME BaseInv, BaseInv', OpenInv, NEW p \in Pullers, Fetch(p)
    PROVE  OpenInv'
<1> DEFINE t == pull[p].talker
           w == Window(t, 0)
           page == Page(p, w)
           got == pull[p].got \cup page
<1>1. /\ UNCHANGED <<weflow, file, state, sse, heard, budget, history>>
      /\ Step(p, "fetching")
  BY DEF Fetch
<1>2. Keeps
  BY <1>1, QuietFile DEF BaseInv, history
<1>3. /\ w = Held(t) /\ w \subseteq Msgs /\ page \subseteq w /\ t \in Talkers
      /\ pull'[p].talker = t /\ pull'[p].from = pull[p].from /\ pull'[p].got = got
      /\ pull'[p].todo = got \cap pull[p].new
      /\ pull'[p].pc = (IF Onward(p, w) THEN "fetching" ELSE "writing")
      /\ pull'[p].pages = (IF Onward(p, w) THEN pull[p].pages + 1 ELSE 0)
      /\ \A q \in Pullers : q # p => pull'[q] = pull[q]
  BY FetchIs DEF BaseInv, TypeOK, PullRecord
<1>4. /\ Finds(p) /\ pull[p].kind = "backfill" /\ pull[p].from = 0 /\ pull[p].todo \subseteq pull[p].got
      /\ \A m \in Msgs \ pull[p].new : copies[m] > 0
      /\ pull[p].got \subseteq Msgs
  BY <1>1 DEF BaseInv, PullsInv, Pulled, Beginning, Reading, ReadingInv, Step, OpenInv, PullInv,
              TypeOK, PullRecord
<1>5. /\ PageSize \in Nat /\ pull[p].pages \in Nat /\ Offset(p) = pull[p].pages * PageSize
      /\ Offset(p) \in Nat /\ Overlap \in Nat
      /\ (pull[p].pages + 1) * PageSize = Offset(p) + PageSize
  BY BoundsAssumption, TimesAssumption DEF Offset, BaseInv, TypeOK, PullRecord
<1>6. \A m \in w : Place(m, w) \in Nat /\ stamp[m] \in Nat
  <2>1. \A m \in w : Place(m, w) \in Nat
    BY <1>3, PlaceBelow DEF BaseInv
  <2>2. \A m \in w : stamp[m] \in Nat
    BY <1>3 DEF BaseInv, TypeOK, Times
  <2> QED
    BY <2>1, <2>2
<1>7. ASSUME NEW m \in Open(t)
      PROVE  \/ m \in got \cap pull[p].new
             \/ ~Ahead(m, NewCursor(p)') /\ ~Ahead(m, epoch)
             \/ Onward(p, w) /\ Place(m, w) >= Offset(p) + PageSize
  <2>1. m \in w /\ m \in Msgs /\ m \in pull[p].new
    BY <1>3, <1>4 DEF Open, Held
  <2>2. CASE m \in got
    BY <2>1, <2>2
  <2>3. CASE m \notin got /\ Place(m, w) >= Offset(p)
    <3>1. m \in w \ page
      BY <2>1, <2>3
    <3>2. Place(m, w) >= Offset(p) + PageSize
      BY <1>3, <1>5, <1>6, <2>3, <3>1, PageIs DEF BaseInv
    <3>3. HasMore(p, w)
      BY <1>3, <1>5, <1>6, <2>1, <3>2, PageIs DEF BaseInv
    <3> QED
      BY <1>4, <3>2, <3>3 DEF Onward
  <2>4. CASE m \notin got /\ ~(Place(m, w) >= Offset(p))
    <3>1. ~Ahead(m, NewCursor(p)) /\ ~Ahead(m, epoch)
      BY <1>3, <1>4, <1>5, <2>4 DEF Finds, Later
    <3>2. \A n \in page : stamp[n] <= stamp[m]
      <4> TAKE n \in page
      <4>1. Place(n, w) >= Offset(p) /\ n \in w
        BY <1>3, <1>5, <1>6 DEF Page
      <4>2. stamp[n] > stamp[m] => Place(n, w) < Place(m, w)
        BY <1>3, <2>1, <4>1, PlaceOrder DEF BaseInv
      <4> QED
        BY <1>5, <1>6, <2>1, <2>4, <4>1, <4>2
    <3>3. NewCursor(p)' \in {stamp[n] : n \in got} \cup {0}
      <4> DEFINE S == {stamp[n] : n \in got} \cup {0}
      <4>1. NewCursor(p)' = Max(S)
        <5>1. NewCursor(p)' = Max({stamp'[n] : n \in pull'[p].got} \cup {pull'[p].from})
          BY DEF NewCursor
        <5> QED
          BY <1>1, <1>3, <1>4, <5>1 DEF weflow
      <4>2. S \in SUBSET (0 .. NoCursor) /\ S # {}
        BY <1>3, <1>4, BoundsAssumption DEF BaseInv, TypeOK, Times, NoCursor
      <4> HIDE DEF S
      <4>3. Max(S) \in S
        BY <4>2, MaxIs
      <4> QED
        BY <4>1, <4>3 DEF S
    <3>4. CASE NewCursor(p)' \in {stamp[n] : n \in page} \cup {0}
      <4>1. NewCursor(p)' \in Nat /\ NewCursor(p)' <= stamp[m]
        BY <1>3, <1>6, <2>1, <3>2, <3>4
      <4> QED
        BY <1>5, <1>6, <2>1, <3>1, <4>1 DEF Ahead, Minus
    <3>5. CASE NewCursor(p)' \in {stamp[n] : n \in pull[p].got}
      <4>1. NewCursor(p)' \in Nat /\ NewCursor(p)' <= NewCursor(p) /\ NewCursor(p) \in Nat
        BY <1>4, <3>5, NewCursorIs, BoundsAssumption DEF BaseInv, TypeOK, Times, NoCursor
      <4> QED
        BY <1>5, <1>6, <2>1, <3>1, <4>1 DEF Ahead, Minus
    <3> QED
      BY <3>3, <3>4, <3>5
  <2> QED
    BY <2>2, <2>3, <2>4
<1>8. Finds(p)'
  <2>1. Open(pull[p].talker)' = Open(pull[p].talker)
    BY <1>1, <1>3 DEF Open, Held, weflow, file, history
  <2>2. (pull[p].from <= clock)'
    BY <1>1, <1>3, <1>4 DEF Finds, weflow
  <2>3. \A m : Place(m, Held(pull[p].talker))' = Place(m, w)
    BY <1>1, <1>3 DEF Place, Held, weflow
  <2> HIDE DEF t, w, page, got
  <2>4. ASSUME NEW m \in Open(pull[p].talker)'
        PROVE  \/ m \in pull'[p].todo
               \/ ~Ahead(m, NewCursor(p))' /\ ~Ahead(m, epoch)'
               \/ pull'[p].pc = "fetching" /\ Later(p, m)'
    <3>1. m \in Open(t)
      BY <2>1 DEF t
    <3>2. ~Ahead(m, NewCursor(p)') /\ ~Ahead(m, epoch) => ~Ahead(m, NewCursor(p))' /\ ~Ahead(m, epoch)'
      BY <1>1 DEF Ahead, weflow, state
    <3>3. Onward(p, w) /\ Place(m, w) >= Offset(p) + PageSize => Later(p, m)'
      BY <1>3, <1>5, <2>3 DEF Later
    <3> QED
      BY <1>3, <1>7, <3>1, <3>2, <3>3
  <2> QED
    BY <2>2, <2>4 DEF Finds
<1> QED
  BY <1>1, <1>2, <1>3, <1>8, OpenQuiet DEF weflow, state, history

LEMMA OpenInit == Init => OpenInv
<1> SUFFICES ASSUME Init PROVE OpenInv
  OBVIOUS
<1>1. CursorInv
  BY DEF Init, CursorInv, BehindNone, Silent
<1>2. PullInv
  BY DEF Init, PullInv, Reading, Idle
<1> QED
  BY <1>1, <1>2 DEF OpenInv

LEMMA OpenStutter ==
    ASSUME BaseInv, BaseInv', OpenInv, UNCHANGED vars
    PROVE  OpenInv'
<1>1. Keeps
  BY QuietFile DEF vars, BaseInv, history
<1> QED
  BY <1>1, OpenQuiet DEF vars, weflow, state, history

LEMMA OpenNext ==
    ASSUME BaseInv, BaseInv', OpenInv, [Next]_vars
    PROVE  OpenInv'
<1>1. ASSUME NEW m \in Msgs, Arrive(m) \/ DeleteMessage(m) \/ Push(m)
      PROVE  OpenInv'
  BY <1>1, OpenArrive, OpenDelete, OpenPush
<1>2. ASSUME NEW p \in Pullers, \/ WorkerPull(p) \/ CliPull(p) \/ Backfill(p) \/ Bootstrap(p)
                                \/ Pulling(p) \/ Fail(p) \/ DieAppending(p)
      PROVE  OpenInv'
  BY <1>2, OpenBegin, OpenRead, OpenFetch, OpenWrite, OpenMerge, OpenDie DEF Pulling
<1> QED
  BY <1>1, <1>2, OpenTick, OpenListen, OpenRemember, OpenReset, OpenStutter DEF Next

-----------------------------------------------------------------------------
(* The third layer. *)

LEMMA CalmKept ==
    ASSUME BaseInv, BaseInv', CalmInv, Keeps, UNCHANGED stamp, calm' \subseteq calm,
           skipped \subseteq skipped', SeenSome => SeenSome',
           NEW p \in Pullers, pull'[p] = pull[p], NEW m \in Msgs, Calm(p, m)'
    PROVE  Waits(p, m)'
<1>1. copies'[m] = 0 => copies[m] = 0
  BY RawIdsAre DEF Keeps, BaseInv, TypeOK
<1>2. Calm(p, m)
  BY <1>1 DEF Calm
<1>3. Waits(p, m)
  BY <1>2 DEF CalmInv
<1> QED
  BY <1>3 DEF Waits, Keeps

\* A step that sends nothing, and leaves every pull but one alone.
LEMMA CalmQuiet ==
    ASSUME BaseInv, BaseInv', CalmInv, Keeps, UNCHANGED stamp, calm' \subseteq calm,
           skipped \subseteq skipped', SeenSome => SeenSome', NewIsLive',
           \A p \in Pullers : \/ pull'[p] = pull[p]
                              \/ \A m \in Msgs : Calm(p, m)' => Waits(p, m)'
    PROVE  CalmInv'
<1>1. (\A m \in calm : Sent(m) /\ stamp[m] > resetAt)'
  BY DEF CalmInv, Keeps, Sent
<1>2. \A p \in Pullers, m \in Msgs : Calm(p, m)' => Waits(p, m)'
  BY CalmKept
<1> QED
  BY <1>1, <1>2 DEF CalmInv

LEMMA FileLive ==
    ASSUME CalmInv, UNCHANGED file, calm' \subseteq calm, skipped \subseteq skipped'
    PROVE  NewIsLive'
BY DEF CalmInv, NewIsLive, file

LEMMA IdleWaits ==
    ASSUME NEW p \in Pullers, pull'[p].pc = "idle", ~pull'[p].history, NEW m
    PROVE  Waits(p, m)'
BY DEF Waits

LEMMA CalmInit == Init => CalmInv
BY DEF Init, CalmInv, NewIsLive, Calm

LEMMA CalmTick ==
    ASSUME BaseInv, BaseInv', CalmInv, Tick
    PROVE  CalmInv'
<1>1. Keeps
  BY BoundsAssumption DEF Keeps, Tick, file, history, BaseInv, TypeOK
<1>2. NewIsLive'
  BY FileLive DEF Tick, history
<1> QED
  BY <1>1, <1>2, CalmQuiet DEF Tick, SeenSome, state, history

LEMMA CalmDelete ==
    ASSUME BaseInv, BaseInv', CalmInv, NEW d \in Msgs, DeleteMessage(d)
    PROVE  CalmInv'
<1>1. /\ gone \subseteq gone' /\ skipped \subseteq skipped' /\ calm' = calm
      /\ UNCHANGED <<clock, stamp, file, state, pull, sse, resetAt>>
  BY DEF DeleteMessage
<1>2. Keeps
  BY <1>1 DEF Keeps, file, BaseInv, TypeOK
<1>3. NewIsLive'
  BY <1>1, FileLive
<1> QED
  BY <1>1, <1>2, <1>3, CalmQuiet DEF SeenSome, state

\* What is sent while no pull of its conversation reads history waits for one
\* that does not.
LEMMA CalmArrive ==
    ASSUME BaseInv, BaseInv', CalmInv, NEW x \in Msgs, Arrive(x)
    PROVE  CalmInv'
<1>1. PICK s \in Max({1, Minus(clock, Lag)}) .. clock :
        /\ stamp' = [stamp EXCEPT ![x] = s]
        /\ calm' = IF s > resetAt /\ \A p \in Pullers : pull[p].talker = TalkerOf[x] => ~ReadsHistory(p)
                   THEN calm \cup {x} ELSE calm
  BY DEF Arrive
<1>2. /\ UNCHANGED <<clock, gone, file, state, pull, sse, heard, resetAt, skipped>>
      /\ stamp[x] = Never /\ ~Sent(x)
  BY DEF Arrive, Sent
<1>3. stamp'[x] = s /\ \A n \in Msgs : n # x => stamp'[n] = stamp[n]
  BY <1>1, <1>2 DEF BaseInv, TypeOK, Arrive
<1>4. Sent(x)'
  <2>1. s >= 1
    <3>1. Minus(clock, Lag) \in Nat /\ clock \in Nat
      BY TimesAssumption, BoundsAssumption DEF Minus, BaseInv, TypeOK
    <3>2. 1 <= Max({1, Minus(clock, Lag)}) /\ Max({1, Minus(clock, Lag)}) \in Nat
      BY <3>1, MaxOfTwo
    <3> QED
      BY <3>1, <3>2
  <2> QED
    BY <1>3, <2>1 DEF Sent, Never
<1>5. copies[x] = 0 /\ x \notin calm
  BY <1>2, RawIdsAre DEF BaseInv, FileInv, CalmInv, TypeOK
<1>6. NewIsLive'
  BY <1>1, <1>2, <1>5 DEF CalmInv, NewIsLive, file
<1>7. (\A m \in calm : Sent(m) /\ stamp[m] > resetAt)'
  BY <1>1, <1>2, <1>3, <1>4 DEF CalmInv, Sent, BaseInv, TypeOK
<1>8. ASSUME NEW p \in Pullers, NEW m \in Msgs, Calm(p, m)'
      PROVE  Waits(p, m)'
  <2>1. pull' = pull /\ SeenSome' = SeenSome /\ gone' = gone
    BY <1>2 DEF SeenSome, state
  <2>2. CASE m = x
    <3>1. ~ReadsHistory(p)
      BY <1>1, <1>2, <1>5, <1>8, <2>2 DEF Calm
    <3>2. pull[p].pc = "idle" => ~pull[p].history
      BY DEF BaseInv, PullsInv, Pulled, Beginning, Reading
    <3>3. /\ pull[p].pc # "idle" => pull[p].kind = "pull"
          /\ ~pull[p].history
          /\ pull[p].pc = "listed" => SeenSome
      BY <3>1, <3>2 DEF ReadsHistory, SeenSome
    <3> QED
      BY <2>1, <3>3 DEF Waits
  <2>3. CASE m # x
    <3>1. Calm(p, m)
      BY <1>1, <1>2, <1>8, <2>3 DEF Calm, file
    <3>2. Waits(p, m)
      BY <3>1 DEF CalmInv
    <3> QED
      BY <1>3, <2>1, <2>3, <3>2 DEF Waits
  <2> QED
    BY <2>2, <2>3
<1> QED
  BY <1>6, <1>7, <1>8 DEF CalmInv

\* A pull that lists the conversation knows of the last message, or is one of
\* history, which no message is calm before.
LEMMA CalmList ==
    ASSUME BaseInv, BaseInv', CalmInv, NEW p \in Pullers, NEW t \in Talkers,
           NEW kind \in {"pull", "backfill", "bootstrap"}, List(p, t, kind)
    PROVE  CalmInv'
<1> DEFINE r == [Idle EXCEPT !.pc = "listed", !.talker = t, !.kind = kind, !.last = LastMessageAt(t)]
<1>1. /\ LastMessageAt(t) \in Times
      /\ \A m \in Held(t) : stamp[m] <= LastMessageAt(t)
  BY LastIs DEF BaseInv
<1>2. /\ SetPull(p, r) /\ UNCHANGED <<weflow, file, state, sse, heard, resetAt, skipped>>
      /\ calm' = IF kind = "pull" THEN calm ELSE calm \ {m \in Msgs : TalkerOf[m] = t /\ copies[m] = 0}
  BY DEF List
<1>3. r \in PullRecord
  BY <1>1, IdleIs DEF PullRecord
<1>4. r.pc = "listed" /\ ~r.history /\ r.talker = t /\ r.kind = kind /\ r.last = LastMessageAt(t)
  BY DEF Idle
<1> HIDE DEF r
<1>5. pull'[p] = r /\ \A q \in Pullers : q # p => pull'[q] = pull[q]
  BY <1>2, <1>3, SetPullIs DEF BaseInv
<1>6. Keeps /\ NewIsLive'
  BY <1>2, QuietFile, FileLive DEF BaseInv
<1>7. ASSUME NEW m \in Msgs, Calm(p, m)'
      PROVE  Waits(p, m)'
  <2>1. m \in calm' /\ copies[m] = 0 /\ TalkerOf[m] = t
    BY <1>2, <1>4, <1>5, <1>7 DEF Calm, file
  <2>2. kind = "pull"
    BY <1>2, <2>1
  <2>3. m \notin gone => m \in Held(t)
    BY <1>2, <2>1, <2>2 DEF CalmInv, Held, Sent
  <2>4. m \notin gone => stamp[m] <= LastMessageAt(t)
    BY <1>1, <2>3
  <2>5. m \notin gone => ~(stamp[m] > LastMessageAt(t))
    BY <1>1, <2>4 DEF BaseInv, TypeOK, Times
  <2> QED
    BY <1>2, <1>4, <1>5, <2>2, <2>5 DEF Waits, weflow
<1> QED
  BY <1>2, <1>5, <1>6, <1>7, CalmQuiet DEF SeenSome, state, weflow

\* A cursor that is lost is ahead of no calm message in WeFlow.
LEMMA CalmRead ==
    ASSUME BaseInv, BaseInv', OpenInv, CalmInv, NEW p \in Pullers, Read(p)
    PROVE  CalmInv'
<1> DEFINE t == pull[p].talker
           w == Window(t, Start(p))
           got == Page(p, w)
<1>1. /\ UNCHANGED <<weflow, file, state, sse, heard, budget, resetAt>>
      /\ Step(p, "listed") /\ skipped \subseteq skipped'
      /\ calm' = IF cursor[t] = NoCursor
                 THEN calm \ {m \in Held(t) : stamp[m] < Minus(Since(p), Overlap)} ELSE calm
  BY DEF Read
<1>2. calm' \subseteq calm
  BY <1>1
<1>3. Keeps /\ NewIsLive'
  BY <1>1, <1>2, QuietFile, FileLive DEF BaseInv
<1>4. /\ \A q \in Pullers : q # p => pull'[q] = pull[q]
      /\ pull'[p].pc \in {"fetching", "writing"} /\ pull'[p].talker = t
      /\ pull'[p].kind = pull[p].kind /\ pull'[p].history = History(p)
      /\ pull'[p].todo \subseteq got
  BY ReadIs
<1>5. /\ t \in Talkers /\ pull[p].last \in Nat /\ Since(p) \in Nat /\ Overlap \in Nat
      /\ got \subseteq Held(t)
  BY SinceIs, TimesAssumption, BoundsAssumption
     DEF BaseInv, TypeOK, PullRecord, Times, Page, Window, NoCursor
<1>6. ASSUME NEW m \in Msgs, Calm(p, m)'
      PROVE  Waits(p, m)'
  <2>1. Calm(p, m) /\ m \in calm' /\ TalkerOf[m] = t /\ copies[m] = 0 /\ m \notin skipped
    BY <1>1, <1>2, <1>4, <1>6 DEF Calm, file
  <2>2. Waits(p, m) /\ Sent(m)
    BY <2>1 DEF CalmInv, Calm
  <2>3. pull[p].kind = "pull"
    BY <1>1, <2>2 DEF Waits, Step
  <2>4. ASSUME History(p), m \notin gone
        PROVE  FALSE
    <3>1. CursorLost(p)
      BY <2>3, <2>4 DEF History
    <3>2. seen = {} /\ Since(p) > pull[p].last + Overlap /\ ~AfterReset(p)
      BY <3>1 DEF CursorLost
    <3>3. stamp[m] <= pull[p].last /\ stamp[m] \in Nat
      BY <1>1, <1>5, <2>2, <2>4, <3>2 DEF Waits, SeenSome, Step, BaseInv, TypeOK, Times
    <3>4. stamp[m] < Minus(Since(p), Overlap)
      BY <1>5, <3>2, <3>3 DEF Minus
    <3>5. m \in Held(t) /\ m \in Open(t)
      BY <2>1, <2>2, <2>4 DEF Held, Open, Sent
    <3>6. cursor[t] # NoCursor
      BY <1>1, <2>1, <3>4, <3>5
    <3>7. Since(p) = cursor[t]
      BY <2>3, <3>2, <3>6 DEF Since
    <3>8. ~Ahead(m, cursor[t])
      BY <1>5, <3>5, <3>6 DEF OpenInv, CursorInv, BehindNone
    <3> QED
      BY <3>4, <3>7, <3>8 DEF Ahead
  <2>5. m \in gone => m \notin pull'[p].todo
    BY <1>4, <1>5 DEF Held
  <2> QED
    BY <1>1, <1>4, <2>3, <2>4, <2>5 DEF Waits, weflow
<1> QED
  BY <1>1, <1>2, <1>3, <1>4, <1>6, CalmQuiet DEF SeenSome, state, weflow

LEMMA CalmFetch ==
    ASSUME BaseInv, BaseInv', CalmInv, NEW p \in Pullers, Fetch(p)
    PROVE  CalmInv'
<1>1. UNCHANGED <<weflow, file, state, sse, heard, budget, history>> /\ Step(p, "fetching")
  BY DEF Fetch
<1>2. Keeps /\ NewIsLive'
  BY <1>1, QuietFile, FileLive DEF BaseInv, history
<1>3. pull[p].kind = "backfill"
  BY <1>1 DEF BaseInv, PullsInv, Pulled, Beginning, Reading, ReadingInv, Step
<1>4. \A q \in Pullers : q # p => pull'[q] = pull[q]
  BY FetchIs
<1>5. pull'[p].talker = pull[p].talker
  BY FetchIs
<1>6. ASSUME NEW m \in Msgs, Calm(p, m)'
      PROVE  FALSE
  <2>1. Calm(p, m)
    BY <1>1, <1>5, <1>6 DEF Calm, file, history
  <2>2. Waits(p, m)
    BY <2>1 DEF CalmInv
  <2> QED
    BY <1>1, <1>3, <2>2 DEF Waits, Step
<1> QED
  BY <1>1, <1>2, <1>4, <1>6, CalmQuiet DEF SeenSome, state, weflow, history

\* A line of a pull makes a calm message live.
LEMMA LineLive ==
    ASSUME BaseInv, CalmInv, NEW p \in Pullers, Step(p, "writing"),
           NEW r \in pull[p].todo \cup pull[p].recalls, NEW indexed \in BOOLEAN,
           AppendOnce(r, r \in Msgs /\ Mode(p, r), indexed), UNCHANGED <<weflow, history>>
    PROVE  Keeps /\ NewIsLive'
<1>1. /\ Reading(p) /\ ReadingInv(p)
      /\ r \in RawIds /\ (r \in Msgs /\ Mode(p, r)) \in BOOLEAN
      /\ r \in Msgs => r \in pull[p].todo /\ TalkerOf[r] = pull[p].talker
      /\ r \in Msgs /\ Mode(p, r) => stamp[r] > resetAt
      /\ \/ r \in Msgs /\ Sent(r)
         \/ \E m \in Msgs : r = Delete(m) /\ m \in gone
  BY LineIs
<1> DEFINE isLive == r \in Msgs /\ Mode(p, r)
<1>2. Keeps
  BY <1>1, AppendFile DEF history
<1>3. /\ \A x \in RawIds : x # r => copies'[x] = copies[x]
      /\ live' = IF copies[r] = 0 /\ isLive THEN live \cup {r} ELSE live
  BY <1>1, AppendIs DEF BaseInv
<1>4. ASSUME r \in Msgs, r \in calm \ skipped, copies[r] = 0
      PROVE  Mode(p, r)
  <2>1. Calm(p, r)
    BY <1>1, <1>4 DEF Calm
  <2>2. Waits(p, r) /\ stamp[r] > resetAt
    BY <1>4, <2>1 DEF CalmInv
  <2>3. ~pull[p].history
    BY <1>1, <1>4, <2>2 DEF Waits
  <2> QED
    BY <1>1, <2>2, <2>3 DEF Mode, IsNew, ReadingInv
<1>5. ASSUME NEW m \in calm \ skipped, copies'[m] > 0
      PROVE  m \in live'
  <2>1. m \in Msgs /\ m \in RawIds /\ copies[m] \in Nat
    BY RawIdsAre DEF BaseInv, TypeOK
  <2>2. CASE copies[m] > 0
    BY <1>3, <1>5, <2>2 DEF CalmInv, NewIsLive
  <2>3. CASE copies[m] = 0
    <3>1. m = r
      BY <1>3, <1>5, <2>1, <2>3
    <3> QED
      BY <1>3, <1>4, <1>5, <2>1, <2>3, <3>1
  <2> QED
    BY <2>1, <2>2, <2>3
<1> QED
  BY <1>2, <1>5 DEF NewIsLive, history

LEMMA CalmWrite ==
    ASSUME BaseInv, BaseInv', CalmInv, NEW p \in Pullers, Write(p)
    PROVE  CalmInv'
<1>1. PICK r \in pull[p].todo \cup pull[p].recalls :
        /\ AppendOnce(r, r \in Msgs /\ Mode(p, r), TRUE)
        /\ SetPull(p, [pull[p] EXCEPT !.todo = @ \ {r}, !.recalls = @ \ {r}])
  BY DEF Write
<1>2. Step(p, "writing") /\ UNCHANGED <<weflow, state, sse, heard, budget, history>>
  BY DEF Write
<1>3. Keeps /\ NewIsLive'
  BY <1>1, <1>2, LineLive
<1> DEFINE f == [pull[p] EXCEPT !.todo = @ \ {r}, !.recalls = @ \ {r}]
<1>4. pull[p] \in PullRecord
  BY DEF BaseInv, TypeOK
<1>5. /\ f.pc = pull[p].pc /\ f.talker = pull[p].talker /\ f.kind = pull[p].kind
      /\ f.history = pull[p].history /\ f.last = pull[p].last /\ f.todo \subseteq pull[p].todo
  BY <1>4 DEF PullRecord
<1>6. f \in PullRecord
  BY <1>4 DEF PullRecord
<1>7. SetPull(p, f)
  BY <1>1
<1> HIDE DEF f
<1>8. pull'[p] = f /\ \A q \in Pullers : q # p => pull'[q] = pull[q]
  BY <1>6, <1>7, SetPullIs DEF BaseInv
<1>9. ASSUME NEW m \in Msgs, Calm(p, m)'
      PROVE  Waits(p, m)'
  <2>1. copies'[m] = 0 => copies[m] = 0
    BY <1>3, RawIdsAre DEF Keeps, BaseInv, TypeOK
  <2>2. Calm(p, m)
    BY <1>2, <1>5, <1>8, <1>9, <2>1 DEF Calm, history
  <2>3. Waits(p, m)
    BY <2>2 DEF CalmInv
  <2> QED
    BY <1>2, <1>5, <1>8, <2>3 DEF Waits, SeenSome, Step, weflow, state
<1> QED
  BY <1>2, <1>3, <1>8, <1>9, CalmQuiet DEF SeenSome, state, weflow, history

LEMMA CalmMerge ==
    ASSUME BaseInv, BaseInv', CalmInv, NEW p \in Pullers, Merge(p)
    PROVE  CalmInv'
<1> DEFINE empty == pull[p].kind = "pull" /\ p = Sidebar /\ pull[p].got = {}
           r == IF empty THEN [Idle EXCEPT !.talker = pull[p].talker, !.empty = TRUE] ELSE Idle
<1>1. /\ SetPull(p, r) /\ UNCHANGED <<weflow, file, epoch, sse, heard, budget, history>>
      /\ seen \subseteq seen'
  BY DEF Merge, MergedSeen
<1>2. r \in PullRecord /\ r.pc = "idle" /\ ~r.history
  BY IdleIs DEF PullRecord, Idle, BaseInv, TypeOK
<1>3. pull'[p] = r /\ \A q \in Pullers : q # p => pull'[q] = pull[q]
  BY <1>1, <1>2, SetPullIs DEF BaseInv
<1>4. Keeps /\ NewIsLive'
  BY <1>1, QuietFile, FileLive DEF BaseInv, history
<1>5. \A m \in Msgs : Waits(p, m)'
  BY <1>2, <1>3, IdleWaits
<1>6. SeenSome => SeenSome'
  BY <1>1 DEF SeenSome
<1> QED
  BY <1>1, <1>3, <1>4, <1>5, <1>6, CalmQuiet DEF weflow, history

LEMMA CalmStop ==
    ASSUME BaseInv, BaseInv', CalmInv, NEW p \in Pullers, Fail(p) \/ DieAppending(p)
    PROVE  CalmInv'
<1>1. UNCHANGED <<weflow, state, sse, heard, history>> /\ SetPull(p, Idle)
  BY DEF Fail, DieAppending
<1>2. pull'[p] = Idle /\ \A q \in Pullers : q # p => pull'[q] = pull[q]
  BY <1>1, IdleIs, SetPullIs DEF BaseInv
<1>3. Keeps /\ NewIsLive'
  <2>1. CASE Fail(p)
    BY <2>1, QuietFile, FileLive DEF Fail, BaseInv, history
  <2>2. CASE DieAppending(p)
    <3>1. PICK r \in pull[p].todo \cup pull[p].recalls :
            AppendOnce(r, r \in Msgs /\ Mode(p, r), FALSE)
      BY <2>2 DEF DieAppending
    <3>2. Step(p, "writing")
      BY <2>2 DEF DieAppending
    <3> QED
      BY <1>1, <3>1, <3>2, LineLive
  <2> QED
    BY <2>1, <2>2
<1>4. \A m \in Msgs : Waits(p, m)'
  BY <1>2, IdleWaits DEF Idle
<1> QED
  BY <1>1, <1>2, <1>3, <1>4, CalmQuiet DEF SeenSome, state, weflow, history

LEMMA CalmListen ==
    ASSUME BaseInv, BaseInv', CalmInv, Listen \/ StopListening
    PROVE  CalmInv'
<1>1. UNCHANGED <<weflow, file, state, pull, history>>
  BY DEF Listen, StopListening
<1>2. Keeps /\ NewIsLive'
  BY <1>1, QuietFile, FileLive DEF BaseInv, history
<1>3. sse'.on => sse'.seen = seen
  BY DEF Listen, StopListening, Silent
<1>4. SeenSome => SeenSome'
  BY <1>1, <1>3 DEF SeenSome, state
<1> QED
  BY <1>1, <1>2, <1>4, CalmQuiet DEF weflow, history

\* The listener's line makes a calm message live, too.
LEMMA CalmPush ==
    ASSUME BaseInv, BaseInv', CalmInv, NEW x \in Msgs, Push(x)
    PROVE  CalmInv'
<1>1. UNCHANGED <<weflow, state, pull, sse, history>> /\ sse.epoch = resetAt
  BY DEF Push, BaseInv, StateInv
<1>2. Keeps
  BY PushIs
<1>3. NewIsLive'
  <2>1. CASE UNCHANGED file
    BY <1>1, <2>1, FileLive DEF history
  <2>2. CASE AppendOnce(x, IsNew(x, sse.epoch), TRUE)
    <3>1. x \in RawIds /\ IsNew(x, sse.epoch) \in BOOLEAN
      BY RawIdsAre DEF IsNew
    <3>2. /\ \A y \in RawIds : y # x => copies'[y] = copies[y]
          /\ live' = IF copies[x] = 0 /\ IsNew(x, sse.epoch) THEN live \cup {x} ELSE live
      BY <2>2, <3>1, AppendIs DEF BaseInv
    <3>3. x \in calm => IsNew(x, sse.epoch)
      BY <1>1 DEF CalmInv, IsNew
    <3>4. ASSUME NEW m \in calm \ skipped, copies'[m] > 0
          PROVE  m \in live'
      <4>1. m \in Msgs /\ m \in RawIds /\ copies[m] \in Nat
        BY RawIdsAre DEF BaseInv, TypeOK
      <4>2. CASE copies[m] > 0
        BY <3>2, <3>4, <4>2 DEF CalmInv, NewIsLive
      <4>3. CASE copies[m] = 0
        BY <3>2, <3>3, <3>4, <4>1, <4>3
      <4> QED
        BY <4>1, <4>2, <4>3
    <3> QED
      BY <1>1, <3>4 DEF NewIsLive, history
  <2> QED
    BY <2>1, <2>2 DEF Push
<1>4. SeenSome => SeenSome'
  BY <1>1 DEF SeenSome, state
<1> QED
  BY <1>1, <1>2, <1>3, <1>4, CalmQuiet DEF weflow, history

LEMMA CalmRemember ==
    ASSUME BaseInv, BaseInv', CalmInv, RememberState
    PROVE  CalmInv'
<1>1. UNCHANGED <<weflow, file, pull, sse, history>> /\ sse.on /\ seen' = sse.seen
  BY DEF RememberState
<1>2. Keeps /\ NewIsLive'
  BY <1>1, QuietFile, FileLive DEF BaseInv, history
<1>3. SeenSome => SeenSome'
  BY <1>1 DEF SeenSome
<1> QED
  BY <1>1, <1>2, <1>3, CalmQuiet DEF weflow, history

LEMMA CalmReset ==
    ASSUME BaseInv, BaseInv', CalmInv, Reset
    PROVE  CalmInv'
<1>1. /\ calm' = {m \in calm : stamp[m] > clock} /\ stamp' = stamp /\ resetAt' = clock
      /\ \A r \in RawIds : copies'[r] = 0
      /\ \A p \in Pullers : pull'[p] = Idle
  BY DEF Reset, weflow
<1>2. NewIsLive'
  BY <1>1, RawIdsAre DEF NewIsLive, BaseInv, TypeOK
<1>3. (\A m \in calm : Sent(m) /\ stamp[m] > resetAt)'
  BY <1>1 DEF CalmInv, Sent
<1>4. \A p \in Pullers, m \in Msgs : Waits(p, m)'
  <2> TAKE p \in Pullers, m \in Msgs
  <2>1. pull'[p] = Idle
    BY <1>1
  <2>2. Idle.pc = "idle" /\ ~Idle.history
    BY DEF Idle
  <2>3. pull'[p].pc = "idle" /\ ~pull'[p].history
    BY <2>1, <2>2
  <2> QED
    BY <2>3, IdleWaits
<1> QED
  BY <1>2, <1>3, <1>4 DEF CalmInv

LEMMA CalmStutter ==
    ASSUME BaseInv, BaseInv', CalmInv, UNCHANGED vars
    PROVE  CalmInv'
<1>1. Keeps /\ NewIsLive'
  BY QuietFile, FileLive DEF vars, BaseInv, history
<1> QED
  BY <1>1, CalmQuiet DEF vars, SeenSome, weflow, state, history

LEMMA CalmNext ==
    ASSUME BaseInv, BaseInv', OpenInv, CalmInv, [Next]_vars
    PROVE  CalmInv'
<1>1. ASSUME NEW m \in Msgs, Arrive(m) \/ DeleteMessage(m) \/ Push(m)
      PROVE  CalmInv'
  BY <1>1, CalmArrive, CalmDelete, CalmPush
<1>2. ASSUME NEW p \in Pullers, WorkerPull(p) \/ CliPull(p) \/ Backfill(p) \/ Bootstrap(p)
      PROVE  CalmInv'
  BY <1>2, BeginIs, CalmList
<1>3. ASSUME NEW p \in Pullers, Pulling(p) \/ Fail(p) \/ DieAppending(p)
      PROVE  CalmInv'
  BY <1>3, CalmRead, CalmFetch, CalmWrite, CalmMerge, CalmStop DEF Pulling
<1> QED
  BY <1>1, <1>2, <1>3, CalmTick, CalmListen, CalmRemember, CalmReset, CalmStutter DEF Next

-----------------------------------------------------------------------------
(* The theorems. *)

\* What the file, the state, its copies and the pulls hold, what is open, and
\* which pulls find what is to be answered, is an invariant of the program.
THEOREM Invariance == Spec => []IInv
<1>1. Init => IInv
  BY BaseInit, OpenInit, CalmInit DEF IInv
<1>2. IInv /\ [Next]_vars => IInv'
  <2> SUFFICES ASSUME IInv, [Next]_vars PROVE IInv'
    OBVIOUS
  <2>1. BaseInv'
    BY BaseNext DEF IInv
  <2>2. OpenInv' /\ CalmInv'
    BY <2>1, OpenNext, CalmNext DEF IInv
  <2> QED
    BY <2>1, <2>2 DEF IInv
<1> QED
  BY <1>1, <1>2, PTL DEF Spec

\* No id is in the hook file twice, whoever appended it and whoever died
\* between a line and its index (append_jsonl_once).
THEOREM AppendedOnce == Spec => []RecordedOnce
<1>1. IInv => RecordedOnce
  BY DEF IInv, BaseInv, IndexInv
<1> QED
  BY <1>1, Invariance, PTL

\* No cursor passes a message that was not recorded, though every pull merges
\* its own and the listener puts old ones back (_merge_weflow_state).
THEOREM CursorsMissNothing == Spec => []NothingMissed
<1>1. IInv => NothingMissed
  <2> SUFFICES ASSUME IInv, NEW m \in Msgs,
                      m \in Held(TalkerOf[m]) \ skipped, copies[m] = 0,
                      cursor[TalkerOf[m]] # NoCursor
               PROVE  stamp[m] >= Minus(cursor[TalkerOf[m]], Overlap)
    BY DEF NothingMissed
  <2> DEFINE t == TalkerOf[m]
  <2>1. t \in Talkers /\ m \in Open(t)
    BY MsgsAssumption DEF Open
  <2>2. ~Ahead(m, cursor[t])
    BY <2>1 DEF IInv, OpenInv, CursorInv, BehindNone
  <2>3. stamp[m] \in Nat /\ cursor[t] \in Nat /\ Overlap \in Nat
    BY <2>1, TimesAssumption, BoundsAssumption DEF IInv, BaseInv, TypeOK, Times, NoCursor
  <2> QED
    BY <2>2, <2>3 DEF Ahead, Minus
<1> QED
  BY <1>1, Invariance, PTL

\* A pull infers the recall of no message that is still in WeFlow
\* (_synthetic_recalls_for_missing_recent_messages).
THEOREM RecallsAreTrue == Spec => []OnlyDeletedRecalled
<1>1. IInv => OnlyDeletedRecalled
  BY DEF IInv, BaseInv, FileInv
<1> QED
  BY <1>1, Invariance, PTL

\* What was sent before the last reset is context, to a pull and to the
\* listener alike (history_reset_epoch).
THEOREM OldStaysContext == Spec => []OldNeverLive
<1>1. IInv => OldNeverLive
  BY DEF IInv, BaseInv, FileInv
<1> QED
  BY <1>1, Invariance, PTL

\* What is sent while nobody reads history is recorded as new: no recovery of
\* a lost cursor, no old state of the listener makes it context.
THEOREM NewGoesLive == Spec => []NewIsLive
<1>1. IInv => NewIsLive
  BY DEF IInv, CalmInv
<1> QED
  BY <1>1, Invariance, PTL
=============================================================================
