-------------------------- MODULE DialogAgent_proofs --------------------------
(***************************************************************************)
(* What holds of DialogAgent for any number of lines, ticks, replies and   *)
(* faults.                                                                 *)
(***************************************************************************)
EXTENDS DialogAgent, SequenceTheorems, WellFoundedInduction, TLAPS

Event == [id : Nat, kind : Kinds, of : Nat]
InBatch == [line : Event, context : BOOLEAN]
KeyRecord == [kind : {"message", "pending", "greeting"}, mark : Nat, of : SUBSET Nat]
EntryRecord == [role : {"user", "self", "assistant"}, key : KeyRecord, state : {"active", "recalled"},
                sess : Nat, act : BOOLEAN, send : Sends]
Outs == {"none", "review", "approved", "staged", "live", "shown", "acked", "dead", "closed"}
ReplyRecord == [index : Nat, result : {"none", "skipped", "queued_for_confirm", "queued_to_bridge", "failed"}]
AtSteps == {"idle", "admit", "record", "answer", "gate", "project", "release", "finish", "save"}
\* Steps with a reply in hand.
Replying == {"gate", "project", "release", "finish"}

\* A line's id is its place.
SourceInv ==
  /\ source \in Seq(Event) /\ Len(source) <= MaxEvents
  /\ \A n \in 1..Len(source) : source[n].id = n

\* The bus is the beginning of the source file.
BusInv ==
  /\ bus \in Seq(Event) /\ Len(bus) <= Len(source)
  /\ offset \in Nat /\ offset <= Len(bus)
  /\ \A n \in 1..Len(bus) : bus[n] = source[n]

\* The batch holds lines of the source file.
BatchInv ==
  /\ at \in AtSteps /\ error \in BOOLEAN
  /\ cursor \in Nat /\ read \in Nat /\ cursor <= Len(bus) /\ read <= Len(bus)
  /\ batch \in Seq(InBatch)
  /\ \A k \in 1..Len(batch) : /\ batch[k].line.id \in 1..Len(source)
                              /\ batch[k].line = source[batch[k].line.id]
  /\ at \in {"record", "answer"} => batch # <<>>
  /\ at \in {"idle", "save"} => batch = <<>>

\* What was read and is not in the batch any more was processed or lost.
PassInv ==
  /\ done \subseteq 1..Len(source) /\ failed \subseteq 1..Len(source)
  /\ \A n \in 1..cursor : n \in done \cup failed
  /\ at # "idle" => \A n \in 1..read : \/ n \in done \cup failed
                                       \/ \E k \in 1..Len(batch) : batch[k].line.id = n

\* The ledger and what is known outside of it.
LedgerInv ==
  /\ session \in Nat /\ group \in BOOLEAN /\ mode \in Modes
  /\ ledger \in Seq(EntryRecord) /\ out \in Seq(Outs) /\ Len(out) = Len(ledger)
  /\ \A i \in 1..Len(ledger) : ledger[i].key.of \subseteq 1..Len(source) /\ ledger[i].sess <= session
  /\ early \subseteq 1..Len(ledger)

\* No entry that an answer can be about comes from history.
ActionableInv ==
  \A i \in 1..Len(ledger) : ledger[i].act => \A n \in ledger[i].key.of : source[n].kind # "history"

\* The ledger takes the reply for sent, so that its echo is recognized.
Recognized(i) == ledger[i].send \in {"queued_to_bridge", "sent"} \/ i \in early

\* What left the gate alive is recognized, and an echo repeats such a reply.
OutInv == \A i \in 1..Len(out) :
  /\ out[i] # "none" => ledger[i].role = "assistant"
  /\ out[i] \in {"live", "shown", "acked"} => Recognized(i)
EchoInv == \A n \in 1..Len(source) : source[n].kind = "echo" =>
  source[n].of \in 1..Len(out) /\ out[source[n].of] \in {"shown", "acked"}

StoreInv == /\ LedgerInv /\ ActionableInv /\ OutInv /\ EchoInv
            /\ OneReplyPerAnswer /\ HistoryNeverAnswered /\ EchoConfirmsReply

Answered(key) == \E i \in 1..Len(ledger) : ledger[i].role = "assistant" /\ ledger[i].key = key

\* The reply in hand: nobody answered its message before, and until its
\* result is projected the ledger knows it as a candidate only.
HandInv ==
  /\ reply \in ReplyRecord /\ reply.index <= Len(ledger)
  /\ at = "answer" => line.kind = "user" /\ ~Answered(Message(line.id))
  /\ at \in Replying => reply.index # 0 /\ ledger[reply.index].role = "assistant"
  /\ at = "gate" => out[reply.index] = "none" /\ ledger[reply.index].send = "candidate"
  /\ at = "project" =>
       /\ out[reply.index] \in {"live", "shown", "acked"} => reply.index \in early
       /\ out[reply.index] = "staged" =>
            ledger[reply.index].send = "candidate" /\ reply.result = "queued_to_bridge"
  /\ at = "release" /\ out[reply.index] = "staged" => ledger[reply.index].send = "queued_to_bridge"

IInv == SourceInv /\ BusInv /\ BatchInv /\ PassInv /\ StoreInv /\ HandInv

-----------------------------------------------------------------------------
(* Sequences.                                                              *)

LEMMA FcnSeq ==
  ASSUME NEW S, NEW n \in Nat, NEW f \in [1..n -> S]
  PROVE  f \in Seq(S) /\ Len(f) = n
BY SeqDef

\* Every set of naturals with a member has a least one.
LEMMA LeastNatural ==
  ASSUME NEW S \in SUBSET Nat, S # {}
  PROVE  \E n \in S : \A m \in S : n <= m
<1> DEFINE R == OpToRel(<, Nat)
<1>1. \E x \in S : \A y \in S : <<y, x>> \notin R
  <2> HIDE DEF R
  <2>1. IsWellFoundedOn(R, Nat)
    BY NatLessThanWellFounded DEF R
  <2> QED
    BY <2>1, WFMin
<1>2. PICK x \in S : \A y \in S : <<y, x>> \notin R
  BY <1>1
<1>3. \A y \in S : ~(y < x)
  BY <1>2 DEF OpToRel
<1> QED
  BY <1>3

-----------------------------------------------------------------------------
(* The collector and the importer.                                         *)

\* The lines up to one of the bus's or beyond it.
Reaches(last) == SubSeq(source, 1, IF last > Len(bus) THEN last ELSE Len(bus))

\* What the importer has when it has come to a line, and that line.
Step(f, n) == IF n <= offset THEN bus ELSE AddOnce(f[n - 1], source[n])

LEMMA Beginnings ==
  ASSUME SourceInv, BusInv, NEW m \in 0..Len(source)
  PROVE  /\ SubSeq(source, 1, m) \in Seq(Event) /\ Len(SubSeq(source, 1, m)) = m
         /\ \A n \in 1..m : SubSeq(source, 1, m)[n] = source[n]
<1>1. m \in Nat /\ \A n \in 1..m : source[n] \in Event
  BY ElementOfSeq DEF SourceInv
<1> QED
  BY <1>1, SubSeqProperties

\* One more line extends the bus by it, or is on it.
LEMMA OneMore ==
  ASSUME SourceInv, BusInv, NEW n \in 1..Len(source), n > offset
  PROVE  AddOnce(Reaches(n - 1), source[n]) = Reaches(n)
<1> DEFINE m == IF n - 1 > Len(bus) THEN n - 1 ELSE Len(bus)
<1>1. m \in 0..Len(source) /\ n \in Nat /\ Len(bus) \in Nat /\ Len(source) \in Nat
  BY DEF SourceInv, BusInv
<1>2. Reaches(n - 1) = SubSeq(source, 1, m)
  BY DEF Reaches
<1> HIDE DEF m
<1>3. Len(Reaches(n - 1)) = m /\ \A k \in 1..m : Reaches(n - 1)[k] = source[k]
  BY <1>1, <1>2, Beginnings
<1>4. \A k \in 1..m : Reaches(n - 1)[k].id = k
  BY <1>1, <1>3 DEF SourceInv
<1>5. source[n].id = n /\ source[n] \in Event
  BY ElementOfSeq DEF SourceInv
<1>6. CASE n <= Len(bus)
  <2>1. m = Len(bus) /\ Reaches(n) = SubSeq(source, 1, m)
    BY <1>1, <1>6 DEF m, Reaches
  <2>2. n \in 1..m /\ Reaches(n - 1)[n].id = n
    BY <1>1, <1>4, <1>6, <2>1
  <2> QED
    BY <1>2, <1>3, <1>5, <2>1, <2>2 DEF AddOnce
<1>7. CASE n > Len(bus)
  <2>1. m = n - 1 /\ Reaches(n) = SubSeq(source, 1, n)
    BY <1>1, <1>7 DEF m, Reaches
  <2>2. ~ \E k \in 1..Len(Reaches(n - 1)) : Reaches(n - 1)[k].id = source[n].id
    BY <1>1, <1>3, <1>4, <1>5, <2>1
  <2>3. AddOnce(Reaches(n - 1), source[n]) = Append(Reaches(n - 1), source[n])
    BY <2>2 DEF AddOnce
  <2>4. SubSeq(source, 1, n) = SubSeq(source, 1, n - 1) \o <<source[n]>>
    <3>1. source \in Seq(Event) /\ 1 \in 1..Len(source) /\ n \in 1..Len(source)
      BY <1>1 DEF SourceInv
    <3> QED
      BY <3>1, SubSeqRecursiveSecond
  <2>5. Append(SubSeq(source, 1, n - 1), source[n]) = SubSeq(source, 1, n - 1) \o <<source[n]>>
    <3>1. SubSeq(source, 1, n - 1) \in Seq(Event)
      BY <1>1, <2>1, Beginnings
    <3> QED
      BY <1>5, <3>1, AppendIsConcat
  <2> QED
    BY <1>2, <2>1, <2>3, <2>4, <2>5
<1> QED
  BY <1>1, <1>6, <1>7

\* A run of the importer leaves the lines it came to, once each.
LEMMA ImportedLines ==
  ASSUME SourceInv, BusInv, NEW last \in 0..Len(source)
  PROVE  BusAfter[last] = Reaches(last)
<1> DEFINE W == [n \in 0..Len(source) |-> Reaches(n)]
           Solves(f) == f = [n \in 0..Len(source) |-> Step(f, n)]
<1>0. Len(source) \in Nat /\ Len(bus) \in Nat /\ offset \in Nat
  BY DEF SourceInv, BusInv
<1>1. \A n \in 0..Len(source) : n <= offset => Reaches(n) = bus
  <2> SUFFICES ASSUME NEW n \in 0..Len(source), n <= offset PROVE Reaches(n) = bus
    OBVIOUS
  <2>1. Reaches(n) = SubSeq(source, 1, Len(bus)) /\ Len(bus) \in 0..Len(source)
    BY <1>0 DEF Reaches, BusInv
  <2>2. bus \in Seq(Event) /\ \A k \in 1..Len(bus) : bus[k] = source[k]
    BY DEF BusInv
  <2>3. /\ Reaches(n) \in Seq(Event) /\ Len(Reaches(n)) = Len(bus)
        /\ \A k \in 1..Len(bus) : Reaches(n)[k] = bus[k]
    BY <2>1, <2>2, Beginnings
  <2> QED
    BY <2>2, <2>3, SeqEqual
<1>2. Solves(W)
  <2> SUFFICES ASSUME NEW n \in 0..Len(source) PROVE Reaches(n) = Step(W, n)
    OBVIOUS
  <2>1. CASE n <= offset
    BY <1>1, <2>1 DEF Step
  <2>2. CASE n > offset
    <3>1. n \in 1..Len(source) /\ n - 1 \in 0..Len(source)
      BY <1>0, <2>2
    <3>2. W[n - 1] = Reaches(n - 1)
      BY <3>1
    <3> QED
      BY <1>0, <2>2, <3>1, <3>2, OneMore DEF Step
  <2> QED
    BY <1>0, <2>1, <2>2
<1> HIDE DEF W, Solves
<1>3. BusAfter = CHOOSE f : Solves(f)
  BY DEF BusAfter, Step, Solves
<1>4. Solves(BusAfter)
  BY <1>2, <1>3
<1>5. \A n \in 0..Len(source) : BusAfter[n] = Reaches(n)
  <2> DEFINE Bad == {n \in 0..Len(source) : BusAfter[n] # Reaches(n)}
  <2> SUFFICES ASSUME Bad # {} PROVE FALSE
    OBVIOUS
  <2>1. Bad \in SUBSET Nat
    BY <1>0
  <2>2. PICK n \in Bad : \A m \in Bad : n <= m
    BY <2>1, LeastNatural
  <2>3. n \in 0..Len(source) /\ BusAfter[n] # Reaches(n)
    OBVIOUS
  <2>4. BusAfter[n] = Step(BusAfter, n)
    BY <1>4, <2>3 DEF Solves
  <2>5. n > offset /\ n \in 1..Len(source)
    BY <1>0, <1>1, <2>3, <2>4 DEF Step
  <2>6. n - 1 \in 0..Len(source) /\ n - 1 \notin Bad
    BY <1>0, <2>2, <2>5
  <2>7. BusAfter[n - 1] = Reaches(n - 1)
    BY <2>6
  <2>8. BusAfter[n] = AddOnce(Reaches(n - 1), source[n])
    BY <1>0, <2>4, <2>5, <2>7 DEF Step
  <2> QED
    BY <2>3, <2>5, <2>8, OneMore
<1> QED
  BY <1>5

\* The source file and the bus are only appended to.
Grows ==
  /\ Len(source') >= Len(source) /\ \A n \in 1..Len(source) : source'[n] = source[n]
  /\ Len(bus') >= Len(bus)

LEMMA CollectKeeps ==
  ASSUME SourceInv, BusInv, Collect
  PROVE  /\ SourceInv' /\ BusInv' /\ Grows
         /\ \E e \in Event : /\ source' = Append(source, e)
                             /\ e.kind = "echo" => e.of \in 1..Len(out) /\ out[e.of] \in {"shown", "acked"}
<1>9. PICK kind \in Kinds : \E of \in Targets(kind) :
         source' = Append(source, [id |-> Len(source) + 1, kind |-> kind, of |-> of])
  BY DEF Collect
<1>1. PICK of \in Targets(kind) :
         source' = Append(source, [id |-> Len(source) + 1, kind |-> kind, of |-> of])
  BY <1>9
<1> DEFINE e == [id |-> Len(source) + 1, kind |-> kind, of |-> of]
<1>0. Len(source) < MaxEvents /\ bus' = bus /\ offset' = offset
  BY DEF Collect
<1>2. of \in Nat /\ (kind = "echo" => of \in 1..Len(out) /\ out[of] \in {"shown", "acked"})
  BY <1>1 DEF Targets
<1>3. Len(source) \in Nat /\ source \in Seq(Event) /\ MaxEvents \in Nat
  BY BoundsAssumption DEF SourceInv
<1>4. e \in Event /\ e.id = Len(source) + 1 /\ e.kind = kind /\ e.of = of
  BY <1>1, <1>2, <1>3 DEF Event
<1>5. source' = Append(source, e)
  BY <1>1
<1> HIDE DEF e
<1>6. /\ source' \in Seq(Event) /\ Len(source') = Len(source) + 1
      /\ \A n \in 1..Len(source) : source'[n] = source[n]
      /\ source'[Len(source) + 1] = e
  BY <1>3, <1>4, <1>5, AppendProperties
<1>7. SourceInv'
  <2>1. \A n \in 1..(Len(source) + 1) : n \in 1..Len(source) \/ n = Len(source) + 1
    BY <1>3
  <2> QED
    BY <1>0, <1>3, <1>4, <1>6, <2>1 DEF SourceInv
<1>8. BusInv' /\ Grows
  BY <1>0, <1>3, <1>6 DEF BusInv, Grows
<1> QED
  BY <1>2, <1>4, <1>5, <1>7, <1>8

LEMMA ImportKeeps ==
  ASSUME SourceInv, BusInv, Import \/ ImportFails
  PROVE  SourceInv' /\ BusInv' /\ Grows
<1>0. Len(source) \in Nat /\ Len(bus) \in Nat /\ offset \in Nat /\ source' = source
  BY DEF SourceInv, BusInv, Import, ImportFails
<1>1. PICK last \in 0..Len(source) :
        /\ bus' = BusAfter[last]
        /\ offset' \in Nat /\ (offset' <= last \/ offset' = offset)
  <2>1. CASE Import
    BY <1>0, <2>1 DEF Import
  <2>2. CASE ImportFails
    <3>1. PICK last \in offset..Len(source) :
             bus' = BusAfter[last] /\ offset' \in {offset, last, last - 1} \cap (offset..(Len(source) - 1))
      BY <2>2 DEF ImportFails
    <3> QED
      BY <1>0, <3>1
  <2> QED
    BY <2>1, <2>2
<1>2. PICK m \in 0..Len(source) : bus' = SubSeq(source, 1, m) /\ m >= Len(bus) /\ m >= last
  BY <1>0, <1>1, ImportedLines DEF Reaches, BusInv
<1>3. bus' \in Seq(Event) /\ Len(bus') = m /\ \A n \in 1..m : bus'[n] = source[n]
  BY <1>2, Beginnings
<1>4. BusInv'
  BY <1>0, <1>1, <1>2, <1>3 DEF BusInv
<1>5. SourceInv'
  BY <1>0 DEF SourceInv
<1> QED
  BY <1>0, <1>2, <1>3, <1>4, <1>5 DEF Grows

-----------------------------------------------------------------------------
(* Ticks: the cursors and the batch.                                       *)

LEMMA BatchTyped ==
  ASSUME SourceInv, BatchInv, batch # <<>>
  PROVE  /\ line \in Event /\ line.id \in 1..Len(source) /\ line = source[line.id]
         /\ line = batch[1].line /\ 1 \in 1..Len(batch)
         /\ Tail(batch) \in Seq(InBatch) /\ Len(Tail(batch)) = Len(batch) - 1 /\ Len(batch) \in Nat
         /\ \A k \in 1..Len(Tail(batch)) : Tail(batch)[k] = batch[k + 1]
<1>1. batch \in Seq(InBatch)
  BY DEF BatchInv
<1>2. /\ Tail(batch) \in Seq(InBatch) /\ Len(Tail(batch)) = Len(batch) - 1
      /\ \A k \in 1..Len(Tail(batch)) : Tail(batch)[k] = batch[k + 1]
  BY <1>1, HeadTailProperties
<1>3. Len(batch) \in Nat \ {0}
  BY <1>1, EmptySeq
<1>4. Head(batch) = batch[1] /\ 1 \in 1..Len(batch)
  BY <1>1, <1>3
<1>5. batch[1] \in InBatch
  BY <1>1, <1>4, ElementOfSeq
<1> QED
  BY <1>1, <1>2, <1>3, <1>4, <1>5 DEF line, InBatch, BatchInv

\* The tick's variables but the reply.
reading == <<at, read, batch, error, cursor, done, failed>>

LEMMA ReadingStill ==
  ASSUME SourceInv, BusInv, BatchInv, PassInv, Grows, SourceInv', BusInv', UNCHANGED reading
  PROVE  BatchInv' /\ PassInv'
<1>1. Len(source) \in Nat /\ Len(source') \in Nat /\ Len(bus) \in Nat /\ Len(bus') \in Nat
  BY DEF SourceInv, BusInv
<1>2. BatchInv'
  BY <1>1, SMTT(30) DEF BatchInv, reading, Grows
<1>3. PassInv'
  BY <1>1 DEF PassInv, reading, Grows
<1> QED
  BY <1>2, <1>3

\* The tick goes on with the same message.
LEMMA ReadingGoes ==
  ASSUME SourceInv, BusInv, BatchInv, PassInv, UNCHANGED <<source, bus, read, batch, cursor, done, failed>>,
         error' \in BOOLEAN, at # "idle", at' \in AtSteps \ {"idle"},
         at' \in {"record", "answer"} => batch # <<>>, at' = "save" => batch = <<>>
  PROVE  BatchInv' /\ PassInv'
BY DEF BatchInv, PassInv

\* The tick leaves its message, which is done or lost.
LEMMA ReadingLeaves ==
  ASSUME SourceInv, BusInv, BatchInv, PassInv, UNCHANGED <<source, bus, read, cursor, error>>,
         at # "idle", batch # <<>>, Leave,
         done \subseteq done', failed \subseteq failed', line.id \in done' \cup failed',
         done' \cup failed' \subseteq done \cup failed \cup {line.id}
  PROVE  BatchInv' /\ PassInv'
<1>1. at' = "admit" /\ batch' = Tail(batch)
  BY DEF Leave
<1>2. /\ line.id \in 1..Len(source) /\ line = batch[1].line
      /\ batch' \in Seq(InBatch) /\ Len(batch') = Len(batch) - 1 /\ Len(batch) \in Nat
      /\ \A k \in 1..Len(batch') : batch'[k] = batch[k + 1]
  BY <1>1, BatchTyped
<1>3. BatchInv'
  <2>1. \A k \in 1..Len(batch') : k + 1 \in 1..Len(batch)
    BY <1>2
  <2> QED
    BY <1>1, <1>2, <2>1 DEF BatchInv, AtSteps
<1>4. PassInv'
  <2>1. \A n \in 1..read : \/ n \in done \cup failed
                           \/ \E k \in 1..Len(batch) : batch[k].line.id = n
    BY DEF PassInv
  <2>2. ASSUME NEW n \in 1..read, n \notin done' \cup failed'
        PROVE  \E k \in 1..Len(batch') : batch'[k].line.id = n
    <3>1. PICK k \in 1..Len(batch) : batch[k].line.id = n
      BY <2>1, <2>2
    <3>2. k # 1
      BY <1>2, <2>2, <3>1
    <3>3. k - 1 \in 1..Len(batch') /\ batch'[k - 1] = batch[k]
      <4>1. k - 1 \in 1..Len(batch') /\ (k - 1) + 1 = k
        BY <1>2, <3>2
      <4> QED
        BY <1>2, <4>1
    <3> QED
      BY <3>1, <3>3
  <2>3. \A n \in 1..cursor : n \in done' \cup failed'
    BY DEF PassInv
  <2> QED
    BY <1>1, <1>2, <2>2, <2>3 DEF PassInv
<1> QED
  BY <1>3, <1>4

\* A tick reads the lines after the place it starts at.
LEMMA ReadingStarts ==
  ASSUME SourceInv, BusInv, BatchInv, PassInv, StartTick
  PROVE  BatchInv' /\ PassInv'
<1>1. PICK first \in 0..cursor : ReadFrom(first)
  BY DEF StartTick
<1> DEFINE lines == SubSeq(bus, first + 1, Len(bus))
<1>2. first \in Nat /\ Len(bus) \in Nat /\ first <= Len(bus) /\ cursor \in Nat
  BY DEF BatchInv, BusInv
<1>3. /\ lines \in Seq(Event) /\ Len(lines) = Len(bus) - first
      /\ \A k \in 1..Len(lines) : lines[k] = bus[first + k]
  <2>1. \A k \in (first + 1)..Len(bus) : bus[k] \in Event
    BY <1>2, ElementOfSeq DEF BusInv
  <2>2. /\ lines \in Seq(Event)
        /\ Len(lines) = IF first + 1 <= Len(bus) THEN Len(bus) - (first + 1) + 1 ELSE 0
        /\ \A i \in 1..(Len(bus) - (first + 1) + 1) : lines[i] = bus[first + 1 + i - 1]
    BY <1>2, <2>1, SubSeqProperties
  <2> QED
    BY <1>2, <2>2
<1> HIDE DEF lines
<1>4. batch' = Deferred(lines) /\ read' = Len(bus) /\ cursor' = cursor /\ at' = "admit" /\ error' = FALSE
      /\ UNCHANGED <<source, bus, done, failed>>
  BY <1>1 DEF StartTick, ReadFrom, lines, intake
<1>5. /\ batch' \in Seq(InBatch) /\ Len(batch') = Len(lines)
      /\ \A k \in 1..Len(lines) : batch'[k].line = lines[k]
  <2> DEFINE last == Max({0} \cup {n \in 1..Len(lines) : Live(lines[n])})
             context(n) == ~ Live(lines[n]) \/ (Candidate(lines[n]) /\ n < last)
             f == [n \in 1..Len(lines) |-> [line |-> lines[n], context |-> context(n)]]
  <2>1. batch' = f
    BY <1>4 DEF Deferred
  <2>2. \A n \in 1..Len(lines) : lines[n] \in Event /\ context(n) \in BOOLEAN
    BY <1>3, ElementOfSeq
  <2> HIDE DEF context
  <2>3. \A n \in 1..Len(lines) : f[n] \in InBatch /\ f[n].line = lines[n]
    BY <2>2 DEF InBatch
  <2>4. f \in [1..Len(lines) -> InBatch] /\ Len(lines) \in Nat
    BY <1>2, <1>3, <2>3
  <2> QED
    BY <2>1, <2>3, <2>4, FcnSeq
<1>6. \A k \in 1..Len(lines) : /\ first + k \in 1..Len(bus) /\ first + k \in 1..Len(source)
                               /\ batch'[k].line = source[first + k] /\ batch'[k].line.id = first + k
  <2> TAKE k \in 1..Len(lines)
  <2>1. first + k \in 1..Len(bus) /\ Len(source) \in Nat /\ Len(bus) <= Len(source)
    BY <1>2, <1>3 DEF BusInv, SourceInv
  <2>2. first + k \in 1..Len(source)
    BY <1>2, <2>1
  <2>3. batch'[k].line = bus[first + k]
    BY <1>3, <1>5
  <2> QED
    BY <2>1, <2>2, <2>3 DEF BusInv, SourceInv
<1>7. BatchInv'
  <2>1. \A k \in 1..Len(batch') : /\ batch'[k].line.id \in 1..Len(source)
                                  /\ batch'[k].line = source[batch'[k].line.id]
    BY <1>5, <1>6
  <2>2. cursor' \in Nat /\ cursor' <= Len(bus) /\ read' \in Nat /\ read' <= Len(bus)
    BY <1>2, <1>4 DEF BatchInv
  <2> QED
    BY <1>4, <1>5, <2>1, <2>2 DEF BatchInv, AtSteps
<1>8. PassInv'
  <2>1. ASSUME NEW n \in 1..read', n \notin done \cup failed
        PROVE  \E k \in 1..Len(batch') : batch'[k].line.id = n
    <3>1. n > cursor
      BY <1>2, <2>1 DEF PassInv
    <3>2. n - first \in 1..Len(lines) /\ first + (n - first) = n
      BY <1>2, <1>3, <1>4, <3>1
    <3> QED
      BY <1>5, <1>6, <3>2
  <2> QED
    BY <1>4, <2>1 DEF PassInv
<1> QED
  BY <1>7, <1>8

LEMMA AgentReads ==
  ASSUME SourceInv, BusInv, BatchInv, PassInv, Agent \/ Raises \/ Crash
  PROVE  BatchInv' /\ PassInv'
<1> USE DEF AtSteps
<1>0. UNCHANGED <<source, bus>>
  BY DEF Agent, StartTick, Admit, Record, Answer, Gate, Project, Release, Finish, AnswerPending,
     AnswerNothing, Save, Raises, Crash, intake
<1>1. CASE StartTick
  BY <1>1, ReadingStarts
<1>2. CASE Admit \/ Record \/ Answer \/ (Finish /\ Processing)
  <2>1. /\ UNCHANGED <<read, cursor, error, failed>> /\ at # "idle" /\ batch # <<>>
        /\ \/ MarkDone /\ Leave
           \/ UNCHANGED <<batch, done>> /\ at' \in {"record", "answer", "gate"}
    BY <1>2 DEF Admit, Record, Answer, Finish, AppendReply, Processing, BatchInv
  <2>2. CASE MarkDone /\ Leave
    BY <1>0, <2>1, <2>2, ReadingLeaves DEF MarkDone
  <2>3. CASE UNCHANGED <<batch, done>> /\ at' \in {"record", "answer", "gate"}
    BY <1>0, <2>1, <2>3, ReadingGoes DEF BatchInv
  <2> QED
    BY <2>1, <2>2, <2>3
<1>3. CASE Gate \/ Project \/ Release \/ (Finish /\ ~Processing) \/ AnswerPending \/ AnswerNothing
  <2>1. /\ UNCHANGED <<read, cursor, error, failed, batch, done>> /\ at # "idle"
        /\ at' \in {"gate", "project", "release", "finish", "save"}
        /\ at' = "save" => batch = <<>>
    BY <1>3 DEF Gate, Project, Release, Finish, AnswerPending, AnswerNothing, AppendReply, Processing,
       store
  <2> QED
    BY <1>0, <2>1, ReadingGoes DEF BatchInv
<1>4. CASE Save
  <2>1. /\ UNCHANGED <<done, failed>> /\ at = "save" /\ batch = <<>>
        /\ cursor' \in {cursor, 0, read} /\ read' = 0 /\ at' = "idle" /\ batch' = <<>> /\ error' = FALSE
    BY <1>4 DEF Save, EndTick, BatchInv
  <2>2. Len(bus) \in Nat /\ batch' \in Seq(InBatch) /\ Len(batch) = 0 /\ Len(batch') = 0
    BY <2>1 DEF BusInv
  <2>3. BatchInv'
    <3>1. \A k \in 1..Len(batch') : FALSE
      BY <2>2
    <3>2. cursor' \in Nat /\ cursor' <= Len(bus) /\ read' \in Nat /\ read' <= Len(bus)
      BY <2>1, <2>2 DEF BatchInv
    <3> QED
      BY <1>0, <2>1, <2>2, <3>1, <3>2 DEF BatchInv
  <2>4. PassInv'
    BY <1>0, <2>1, <2>2 DEF PassInv, BatchInv
  <2> QED
    BY <2>3, <2>4
<1>5. CASE Raises
  <2>1. CASE Processing
    <3>1. /\ UNCHANGED <<read, cursor, error, done>> /\ at # "idle" /\ batch # <<>> /\ Leave
          /\ failed' = failed \cup {line.id}
      BY <1>5, <2>1 DEF Raises, Processing, store
    <3> QED
      BY <1>0, <3>1, ReadingLeaves
  <2>2. CASE ~Processing
    <3>1. /\ UNCHANGED <<read, cursor, batch, done, failed>> /\ at # "idle" /\ batch = <<>>
          /\ at' = "save" /\ error' = TRUE
      BY <1>5, <2>2 DEF Raises, Processing, store
    <3> QED
      BY <1>0, <3>1, ReadingGoes
  <2> QED
    BY <2>1, <2>2
<1>6. CASE Crash
  <2>1. /\ UNCHANGED <<done, failed, cursor>>
        /\ read' = 0 /\ at' = "idle" /\ batch' = <<>> /\ error' = FALSE
    BY <1>6 DEF Crash, EndTick, store
  <2>2. Len(bus) \in Nat /\ batch' \in Seq(InBatch) /\ Len(batch') = 0
    BY <2>1 DEF BusInv
  <2>3. BatchInv'
    <3>1. \A k \in 1..Len(batch') : FALSE
      BY <2>2
    <3>2. cursor' \in Nat /\ cursor' <= Len(bus) /\ read' \in Nat /\ read' <= Len(bus)
      BY <2>1, <2>2 DEF BatchInv
    <3> QED
      BY <1>0, <2>1, <2>2, <3>1, <3>2 DEF BatchInv
  <2>4. PassInv'
    BY <1>0, <2>1 DEF PassInv
  <2> QED
    BY <2>3, <2>4
<1> QED
  BY <1>1, <1>2, <1>3, <1>4, <1>5, <1>6 DEF Agent

\* The operator and the bridge decide about one reply.
People == \E i \in 1..Len(out) : Decide(i) \/ SendApproved(i) \/ Deliver(i) \/ Acknowledge(i)

ReadInv == SourceInv /\ BusInv /\ BatchInv /\ PassInv

LEMMA ReadInvKeeps ==
  ASSUME ReadInv, [Next]_vars
  PROVE  ReadInv' /\ Grows
<1> USE DEF ReadInv
<1>0. Len(source) \in Nat /\ Len(bus) \in Nat
  BY DEF SourceInv, BusInv
<1>1. CASE Collect \/ Import \/ ImportFails
  <2>1. SourceInv' /\ BusInv' /\ Grows
    BY <1>1, CollectKeeps, ImportKeeps
  <2>2. UNCHANGED reading
    BY <1>1 DEF Collect, Import, ImportFails, reading, store, tick
  <2> QED
    BY <2>1, <2>2, ReadingStill
<1>2. CASE Agent \/ Raises \/ Crash
  <2>1. UNCHANGED intake
    BY <1>2 DEF Agent, StartTick, Admit, Record, Answer, Gate, Project, Release, Finish, AnswerPending,
       AnswerNothing, Save, Raises, Crash
  <2>2. SourceInv' /\ BusInv' /\ Grows
    BY <1>0, <2>1 DEF SourceInv, BusInv, Grows, intake
  <2> QED
    BY <1>2, <2>2, AgentReads
<1>3. CASE People \/ UNCHANGED vars
  <2>1. UNCHANGED <<intake, reading>>
    BY <1>3 DEF People, Decide, SendApproved, Deliver, Acknowledge, Outside, vars, reading, store, tick
  <2>2. SourceInv' /\ BusInv' /\ Grows
    BY <1>0, <2>1 DEF SourceInv, BusInv, Grows, intake
  <2> QED
    BY <2>1, <2>2, ReadingStill
<1> QED
  BY <1>1, <1>2, <1>3 DEF Next, People

-----------------------------------------------------------------------------
(* The ledger.                                                             *)

\* The texts that entries stand for, and who wrote them, stay.
SameEntries ==
  /\ Len(ledger') = Len(ledger)
  /\ \A i \in 1..Len(ledger) : ledger'[i].role = ledger[i].role /\ ledger'[i].key = ledger[i].key

LEMMA Sizes ==
  ASSUME LedgerInv
  PROVE  /\ Len(ledger) \in Nat /\ Len(out) \in Nat /\ Len(out) = Len(ledger)
         /\ \A i \in 1..Len(ledger) : ledger[i] \in EntryRecord /\ out[i] \in Outs
BY ElementOfSeq DEF LedgerInv

\* The source file may grow while the ledger stays.
LEMMA StoreStill ==
  ASSUME SourceInv, BusInv, StoreInv, Grows, UNCHANGED <<ledger, out, early, group, mode>>,
         session' \in Nat, session' >= session, EchoInv'
  PROVE  StoreInv'
<1>0. Len(source) \in Nat /\ Len(source') >= Len(source) /\ Len(ledger) \in Nat
      /\ \A i \in 1..Len(ledger) : ledger[i].sess \in Nat /\ session \in Nat
  BY Sizes DEF SourceInv, StoreInv, Grows, EntryRecord, LedgerInv
<1>1. \A i \in 1..Len(ledger) : \A n \in ledger[i].key.of :
         n \in 1..Len(source) /\ source'[n] = source[n]
  BY DEF StoreInv, LedgerInv, Grows
<1>2. LedgerInv'
  <2>1. \A i \in 1..Len(ledger) : ledger[i].key.of \subseteq 1..(Len(source'))
    <3>1. Len(source') \in Int \/ Len(source') \notin Int
      OBVIOUS
    <3>2. \A n \in 1..Len(source) : n \in 1..(Len(source'))
      BY <1>0
    <3> QED
      BY <1>1, <3>2
  <2>2. \A i \in 1..Len(ledger) : ledger[i].sess <= session'
    BY <1>0 DEF StoreInv, LedgerInv
  <2> QED
    BY <2>1, <2>2 DEF StoreInv, LedgerInv
<1>3. ActionableInv' /\ HistoryNeverAnswered' /\ EchoConfirmsReply'
  BY <1>1 DEF StoreInv, ActionableInv, HistoryNeverAnswered, EchoConfirmsReply
<1>4. OutInv' /\ OneReplyPerAnswer'
  BY DEF StoreInv, OutInv, OneReplyPerAnswer, Recognized
<1> QED
  BY <1>2, <1>3, <1>4 DEF StoreInv

\* Entries are updated, or the outside changes, or both.
LEMMA StoreUpdated ==
  ASSUME SourceInv, StoreInv, source' = source, SameEntries,
         ledger' \in Seq(EntryRecord), out' \in Seq(Outs), Len(out') = Len(out),
         \A i \in 1..Len(ledger) : ledger'[i].sess <= session,
         \A i \in 1..Len(ledger) : ledger'[i].act => ledger[i].act
             \/ \A n \in ledger[i].key.of : source[n].kind # "history",
         UNCHANGED <<session, group, mode>>,
         early \subseteq early', early' \subseteq 1..Len(ledger),
         OutInv',
         \A i \in 1..Len(ledger) : out[i] \in {"shown", "acked"} => out'[i] \in {"shown", "acked"}
  PROVE  StoreInv' /\ \A key : Answered(key)' <=> Answered(key)
<1>1. LedgerInv'
  BY DEF StoreInv, LedgerInv, SameEntries
<1>2. ActionableInv' /\ HistoryNeverAnswered' /\ EchoConfirmsReply'
  BY DEF StoreInv, ActionableInv, HistoryNeverAnswered, EchoConfirmsReply, SameEntries
<1>3. OneReplyPerAnswer'
  BY DEF StoreInv, OneReplyPerAnswer, SameEntries
<1>4. EchoInv'
  BY DEF StoreInv, EchoInv, LedgerInv
<1>5. \A key : Answered(key)' <=> Answered(key)
  BY DEF Answered, SameEntries
<1> QED
  BY <1>1, <1>2, <1>3, <1>4, <1>5 DEF StoreInv

\* An entry is added at the end.
LEMMA StoreAppended ==
  ASSUME SourceInv, StoreInv, source' = source, NEW e \in EntryRecord,
         ledger' = Append(ledger, e), out' = Append(out, "none"),
         e.key.of \subseteq 1..Len(source), e.sess <= session,
         e.role = "assistant" =>
           /\ ~Answered(e.key)
           /\ e.key.kind # "greeting" => \A n \in e.key.of : source[n].kind # "history",
         e.act => \A n \in e.key.of : source[n].kind # "history",
         e.role = "self" => \A n \in e.key.of : source[n].kind = "echo" => source[n].of \in early,
         UNCHANGED <<session, group, mode, early>>
  PROVE  /\ StoreInv'
         /\ Len(ledger') = Len(ledger) + 1 /\ ledger'[Len(ledger) + 1] = e
         /\ out'[Len(ledger) + 1] = "none"
         /\ \A i \in 1..Len(ledger) : ledger'[i] = ledger[i] /\ out'[i] = out[i]
         /\ \A key : Answered(key)' => Answered(key) \/ (e.role = "assistant" /\ key = e.key)
<1>0. Len(ledger) \in Nat /\ Len(out) = Len(ledger) /\ ledger \in Seq(EntryRecord) /\ out \in Seq(Outs)
  BY Sizes DEF StoreInv, LedgerInv
<1>1. /\ ledger' \in Seq(EntryRecord) /\ Len(ledger') = Len(ledger) + 1
      /\ \A i \in 1..Len(ledger) : ledger'[i] = ledger[i]
      /\ ledger'[Len(ledger) + 1] = e
  BY <1>0, AppendProperties
<1>2. /\ out' \in Seq(Outs) /\ Len(out') = Len(ledger) + 1
      /\ \A i \in 1..Len(ledger) : out'[i] = out[i]
      /\ out'[Len(ledger) + 1] = "none"
  BY <1>0, AppendProperties DEF Outs
<1>3. \A i \in 1..Len(ledger') : i \in 1..Len(ledger) \/ i = Len(ledger) + 1
  BY <1>0, <1>1
<1>4. \A i \in 1..Len(ledger) : i \in 1..Len(ledger') /\ i # Len(ledger) + 1
  BY <1>0, <1>1
<1>5. LedgerInv'
  BY <1>1, <1>2, <1>3, <1>4 DEF StoreInv, LedgerInv
<1>6. ActionableInv' /\ HistoryNeverAnswered' /\ EchoConfirmsReply'
  BY <1>1, <1>3 DEF StoreInv, ActionableInv, HistoryNeverAnswered, EchoConfirmsReply
<1>7. OneReplyPerAnswer'
  <2> SUFFICES ASSUME NEW i \in 1..Len(ledger'), NEW j \in 1..Len(ledger'),
                      ledger'[i].role = "assistant", ledger'[j].role = "assistant",
                      ledger'[i].key = ledger'[j].key
               PROVE  i = j
    BY DEF OneReplyPerAnswer
  <2> QED
    BY <1>1, <1>3 DEF StoreInv, OneReplyPerAnswer, Answered
<1>8. OutInv'
  BY <1>0, <1>1, <1>2, <1>3 DEF StoreInv, OutInv, Recognized
<1>9. EchoInv'
  BY <1>0, <1>2, <1>4 DEF StoreInv, EchoInv
<1>10. \A key : Answered(key)' => Answered(key) \/ (e.role = "assistant" /\ key = e.key)
  BY <1>1, <1>3 DEF Answered
<1> QED
  BY <1>0, <1>1, <1>2, <1>5, <1>6, <1>7, <1>8, <1>9, <1>10 DEF StoreInv

\* One entry is rewritten.
LEMMA OneEntry ==
  ASSUME LedgerInv, NEW k \in 1..Len(ledger), NEW R \in EntryRecord, ledger' = [ledger EXCEPT ![k] = R],
         R.role = ledger[k].role, R.key = ledger[k].key
  PROVE  /\ SameEntries /\ ledger' \in Seq(EntryRecord) /\ ledger'[k] = R
         /\ \A i \in 1..Len(ledger) : i # k => ledger'[i] = ledger[i]
<1>1. /\ ledger' \in Seq(EntryRecord) /\ Len(ledger') = Len(ledger)
      /\ \A i \in 1..Len(ledger) : ledger'[i] = IF i = k THEN R ELSE ledger[i]
  BY ExceptSeq DEF LedgerInv
<1> QED
  BY <1>1 DEF SameEntries

LEMMA MessageKey ==
  ASSUME SourceInv, BatchInv, batch # <<>>
  PROVE  /\ Message(line.id) \in KeyRecord /\ Message(line.id).of = {line.id}
         /\ Message(line.id).kind = "message"
         /\ {line.id} \subseteq 1..Len(source) /\ source[line.id] = line
<1>1. line.id \in 1..Len(source) /\ line = source[line.id] /\ Len(source) \in Nat
  BY BatchTyped DEF SourceInv
<1> QED
  BY <1>1 DEF Message, KeyRecord

LEMMA EntryTyped ==
  ASSUME session \in Nat, NEW role \in {"user", "self", "assistant"}, NEW key \in KeyRecord,
         NEW act \in BOOLEAN, NEW send \in {"none", "candidate"}
  PROVE  /\ Entry(role, key, act, send) \in EntryRecord
         /\ Entry(role, key, act, send).role = role /\ Entry(role, key, act, send).key = key
         /\ Entry(role, key, act, send).act = act /\ Entry(role, key, act, send).send = send
         /\ Entry(role, key, act, send).sess = session
BY DEF Entry, EntryRecord, Sends

\* The echo of a reply that is not recognized is the early one's.
LEMMA EchoKnown ==
  ASSUME SourceInv, BatchInv, StoreInv, batch # <<>>, line.kind = "echo"
  PROVE  line.of \in 1..Len(ledger) /\ (Echoed(line.of) \/ line.of \in early)
<1>1. line.id \in 1..Len(source) /\ line = source[line.id]
  BY BatchTyped
<1>2. line.of \in 1..Len(out) /\ out[line.of] \in {"shown", "acked"}
  BY <1>1 DEF StoreInv, EchoInv
<1>3. ledger[line.of].role = "assistant" /\ Recognized(line.of)
  BY <1>2 DEF StoreInv, OutInv
<1> QED
  BY <1>2, <1>3 DEF Echoed, Recognized, StoreInv, LedgerInv

\* A recall marks the entries of its message.
LEMMA RecalledKeeps ==
  ASSUME SourceInv, StoreInv, NEW n, ledger' = Recalled(n),
         UNCHANGED <<source, session, group, mode, early, out>>
  PROVE  StoreInv' /\ Len(ledger') = Len(ledger)
<1>1. Len(ledger) \in Nat /\ \A i \in 1..Len(ledger) : ledger[i] \in EntryRecord
  BY Sizes DEF StoreInv
<1> DEFINE R(i) == IF ledger[i].key = Message(n) THEN [ledger[i] EXCEPT !.state = "recalled"] ELSE ledger[i]
<1>2. \A i \in 1..Len(ledger) :
        /\ R(i) \in EntryRecord /\ R(i).role = ledger[i].role /\ R(i).key = ledger[i].key
        /\ R(i).sess = ledger[i].sess /\ R(i).act = ledger[i].act /\ R(i).send = ledger[i].send
  BY <1>1 DEF EntryRecord
<1>3. ledger' = [i \in 1..Len(ledger) |-> R(i)]
  BY DEF Recalled
<1> HIDE DEF R
<1>4. ledger' \in [1..Len(ledger) -> EntryRecord]
  BY <1>2, <1>3
<1>5. ledger' \in Seq(EntryRecord) /\ Len(ledger') = Len(ledger)
  BY <1>1, <1>4, FcnSeq
<1>6. \A i \in 1..Len(ledger) : ledger'[i] = R(i)
  BY <1>3
<1>7. SameEntries
  BY <1>2, <1>5, <1>6 DEF SameEntries
<1>8. OutInv'
  BY <1>2, <1>6 DEF StoreInv, OutInv, Recognized, LedgerInv
<1>9. /\ out' \in Seq(Outs) /\ Len(out') = Len(out) /\ early' \subseteq 1..Len(ledger)
      /\ \A i \in 1..Len(ledger) : ledger'[i].sess <= session /\ (ledger'[i].act => ledger[i].act)
  BY <1>2, <1>6 DEF StoreInv, LedgerInv
<1> QED
  BY <1>5, <1>7, <1>8, <1>9, StoreUpdated

\* A message is recorded: its entry is rewritten, its echo confirms a reply,
\* or it is new.
LEMMA RecordedKeeps ==
  ASSUME SourceInv, BatchInv, StoreInv, batch # <<>>, NEW fresh \in BOOLEAN,
         NEW key, key = Message(line.id),
         line.kind # "recall", ledger' = LedgerWith(fresh),
         out' = IF Created(fresh) THEN Append(out, "none") ELSE out,
         UNCHANGED <<source, session, group, mode, early>>
  PROVE  /\ StoreInv' /\ Len(ledger') \in Nat /\ Len(ledger') >= Len(ledger)
         /\ WantsAnswer(fresh) => ~Answered(key)'
<1> DEFINE known == {i \in 1..Len(ledger) : ledger[i].key = key}
           role == IF line.kind \in {"owner", "echo"} THEN "self" ELSE "user"
<1>0. /\ Len(ledger) \in Nat /\ Len(out) = Len(ledger) /\ session \in Nat
      /\ \A i \in 1..Len(ledger) : ledger[i] \in EntryRecord
      /\ out \in Seq(Outs) /\ early \subseteq 1..Len(ledger)
  BY Sizes DEF StoreInv, LedgerInv
<1>1. /\ key \in KeyRecord /\ key.of = {line.id} /\ key.kind = "message"
      /\ {line.id} \subseteq 1..Len(source) /\ source[line.id] = line
  BY MessageKey
<1>2. /\ Actionable(fresh) \in BOOLEAN
      /\ Actionable(fresh) => line.kind # "history"
  BY DEF Actionable
<1>3. LedgerWith(fresh) =
        IF known # {}
        THEN [ledger EXCEPT ![Min(known)].sess = session, ![Min(known)].act = Actionable(fresh)]
        ELSE IF line.kind = "echo" /\ Echoed(line.of)
        THEN [ledger EXCEPT ![line.of].send = "sent"]
        ELSE Append(ledger, Entry(role, key, Actionable(fresh), "none"))
  BY DEF LedgerWith
<1>4. \A i \in 1..Len(ledger) : ledger[i].sess <= session
  BY DEF StoreInv, LedgerInv
<1>5. CASE known # {}
  <2>1. PICK k \in known : k = Min(known)
    <3>1. known \in SUBSET Nat
      OBVIOUS
    <3>2. PICK k \in known : \A m \in known : k <= m
      <4> HIDE DEF known
      <4> QED
        BY <1>5, <3>1, LeastNatural
    <3>3. Min(known) \in known
      BY <3>2 DEF Min
    <3> QED
      BY <3>3
  <2>2. k \in 1..Len(ledger) /\ ledger[k].key = key
    BY <2>1
  <2> DEFINE R == [ledger[k] EXCEPT !.sess = session, !.act = Actionable(fresh)]
  <2>3. /\ R \in EntryRecord /\ R.role = ledger[k].role /\ R.key = ledger[k].key
        /\ R.sess = session /\ R.act = Actionable(fresh) /\ R.send = ledger[k].send
    BY <1>0, <1>2, <2>2 DEF EntryRecord
  <2>4. ledger' = [ledger EXCEPT ![k] = R]
    BY <1>3, <1>5, <2>1
  <2> HIDE DEF known, R
  <2>5. /\ SameEntries /\ ledger' \in Seq(EntryRecord) /\ ledger'[k] = R
        /\ \A i \in 1..Len(ledger) : i # k => ledger'[i] = ledger[i]
    BY <2>2, <2>3, <2>4, OneEntry DEF StoreInv
  <2>6. ~Created(fresh) /\ out' = out
    BY <1>0, <2>5 DEF Created, SameEntries
  <2>7. OutInv'
    BY <1>0, <2>3, <2>5, <2>6 DEF StoreInv, OutInv, Recognized
  <2>8. \A i \in 1..Len(ledger) : ledger'[i].act => ledger[i].act
             \/ \A n \in ledger[i].key.of : source[n].kind # "history"
    BY <1>1, <1>2, <2>2, <2>3, <2>5
  <2>9. \A i \in 1..Len(ledger) : ledger'[i].sess <= session
    BY <1>0, <1>4, <2>3, <2>5
  <2>10. StoreInv' /\ (Answered(key)' <=> Answered(key))
    BY <1>0, <2>5, <2>6, <2>7, <2>8, <2>9, StoreUpdated
  <2>11. WantsAnswer(fresh) => ~Answered(key)
    BY <2>6 DEF WantsAnswer, RetryExisting, Answered
  <2> QED
    BY <1>0, <2>5, <2>10, <2>11 DEF SameEntries
<1>6. CASE known = {} /\ line.kind = "echo" /\ Echoed(line.of)
  <2>1. PICK k \in 1..Len(ledger) : k = line.of
    BY <1>6, EchoKnown
  <2> DEFINE R == [ledger[k] EXCEPT !.send = "sent"]
  <2>2. /\ R \in EntryRecord /\ R.role = ledger[k].role /\ R.key = ledger[k].key
        /\ R.sess = ledger[k].sess /\ R.act = ledger[k].act /\ R.send = "sent"
    BY <1>0, <2>1 DEF EntryRecord, Sends
  <2>3. ledger' = [ledger EXCEPT ![k] = R]
    BY <1>3, <1>6, <2>1
  <2> HIDE DEF known, R
  <2>4. /\ SameEntries /\ ledger' \in Seq(EntryRecord) /\ ledger'[k] = R
        /\ \A i \in 1..Len(ledger) : i # k => ledger'[i] = ledger[i]
    BY <2>1, <2>2, <2>3, OneEntry DEF StoreInv
  <2>5. ~Created(fresh) /\ out' = out
    BY <1>0, <2>4 DEF Created, SameEntries
  <2>6. OutInv'
    BY <1>0, <2>2, <2>4, <2>5 DEF StoreInv, OutInv, Recognized
  <2>7. \A i \in 1..Len(ledger) : ledger'[i].sess <= session /\ (ledger'[i].act => ledger[i].act)
    BY <1>4, <2>2, <2>4
  <2>8. StoreInv'
    BY <1>0, <2>4, <2>5, <2>6, <2>7, StoreUpdated
  <2> QED
    BY <1>0, <1>6, <2>4, <2>8 DEF SameEntries, WantsAnswer
<1>7. CASE known = {} /\ ~(line.kind = "echo" /\ Echoed(line.of))
  <2>1. PICK e \in EntryRecord : /\ e = Entry(role, key, Actionable(fresh), "none")
                                 /\ e.role = role /\ e.key = key /\ e.act = Actionable(fresh)
                                 /\ e.sess = session
    BY <1>0, <1>1, <1>2, EntryTyped
  <2>2. ledger' = Append(ledger, e)
    BY <1>3, <1>7, <2>1
  <2>3. Len(ledger') = Len(ledger) + 1
    BY <1>0, <2>2, AppendProperties DEF StoreInv, LedgerInv
  <2>4. out' = Append(out, "none")
    BY <1>0, <2>3 DEF Created
  <2>5. e.role = "self" => \A n \in e.key.of : source[n].kind = "echo" => source[n].of \in early
    BY <1>1, <1>7, <2>1, EchoKnown
  <2>6. ASSUME e.act PROVE \A n \in e.key.of : source[n].kind # "history"
    <3>1. line.kind # "history"
      BY <1>2, <2>1, <2>6
    <3>2. e.key.of = {line.id}
      BY <1>1, <2>1
    <3> QED
      BY <1>1, <3>1, <3>2
  <2>7. ~Answered(key)
    BY <1>7 DEF Answered
  <2>8. e.role # "assistant"
    BY <2>1
  <2>9. StoreInv' /\ (Answered(key)' => Answered(key))
    <3> HIDE DEF role, known
    <3>1. e.key.of \subseteq 1..Len(source) /\ e.sess <= session
      BY <1>0, <1>1, <2>1
    <3> QED
      BY <2>2, <2>4, <2>5, <2>6, <2>8, <3>1, StoreAppended
  <2> QED
    BY <1>0, <2>3, <2>7, <2>9
<1> QED
  BY <1>5, <1>6, <1>7

\* The reply in hand is as before.
LEMMA HandStill ==
  ASSUME HandInv, UNCHANGED <<tick, ledger, out, early>>
  PROVE  HandInv'
<1>1. UNCHANGED <<at, batch, reply>>
  BY DEF tick
<1> QED
  BY <1>1 DEF HandInv, Answered, Replying, line

\* The collector and the importer.
LEMMA CollectImportKeep ==
  ASSUME IInv, Grows, Collect \/ Import \/ ImportFails
  PROVE  StoreInv' /\ HandInv'
<1>0. UNCHANGED <<tick, ledger, out, early, group, mode, session>>
  BY DEF Collect, Import, ImportFails, store, world
<1>1. Len(source) \in Nat /\ Len(ledger) \in Nat /\ session \in Nat
  BY DEF IInv, SourceInv, StoreInv, LedgerInv
<1>2. EchoInv'
  <2>1. CASE Collect
    <3>1. PICK e \in Event : /\ source' = Append(source, e)
                             /\ e.kind = "echo" => e.of \in 1..Len(out) /\ out[e.of] \in {"shown", "acked"}
      BY <2>1, CollectKeeps DEF IInv
    <3>2. /\ Len(source') = Len(source) + 1 /\ source'[Len(source) + 1] = e
          /\ \A n \in 1..Len(source) : source'[n] = source[n]
      BY <3>1, AppendProperties DEF IInv, SourceInv
    <3>3. \A n \in 1..Len(source') : n \in 1..Len(source) \/ n = Len(source) + 1
      BY <1>1, <3>2
    <3> QED
      BY <1>0, <3>1, <3>2, <3>3 DEF IInv, StoreInv, EchoInv
  <2>2. CASE Import \/ ImportFails
    <3>1. source' = source
      BY <2>2 DEF Import, ImportFails
    <3> QED
      BY <1>0, <3>1 DEF IInv, StoreInv, EchoInv
  <2> QED
    BY <2>1, <2>2
<1>3. StoreInv'
  <2>1. session' \in Nat /\ session' >= session
    BY <1>0, <1>1
  <2> QED
    BY <1>0, <1>2, <2>1, StoreStill DEF IInv
<1> QED
  BY <1>0, <1>3, HandStill DEF IInv

\* The tick goes on without writing about a reply.
LEMMA QuietKeeps ==
  ASSUME IInv, Grows, UNCHANGED <<source, ledger, out, early, group, mode>>,
         session' \in Nat, session' >= session,
         reply' \in {reply, NoReply},
         at' \in {"answer"} \cup Replying => at' = "finish" /\ at \in Replying /\ reply' = reply
  PROVE  StoreInv' /\ HandInv'
<1>1. EchoInv'
  BY DEF IInv, StoreInv, EchoInv
<1>2. StoreInv'
  BY <1>1, StoreStill DEF IInv
<1>3. reply' \in ReplyRecord /\ reply'.index <= Len(ledger)
  <2>1. Len(ledger) \in Nat
    BY DEF IInv, StoreInv, LedgerInv
  <2> QED
    BY <2>1 DEF IInv, HandInv, NoReply, ReplyRecord
<1>4. HandInv'
  BY <1>3 DEF IInv, HandInv, Replying
<1> QED
  BY <1>2, <1>4

LEMMA QuietActions ==
  ASSUME IInv, Grows,
         \/ StartTick \/ Admit \/ Finish \/ AnswerNothing \/ Save \/ Raises \/ Crash
         \/ at = "answer" /\ Answer /\ UNCHANGED ledger /\ UNCHANGED out /\ Leave
  PROVE  StoreInv' /\ HandInv'
<1>0. session \in Nat
  BY DEF IInv, StoreInv, LedgerInv
<1>1. /\ UNCHANGED <<source, ledger, out, early, group, mode>>
      /\ session' \in {session, session + 1}
      /\ reply' \in {reply, NoReply}
      /\ at' \in {"admit", "record", "save", "idle"}
  BY DEF StartTick, Admit, Answer, Finish, AnswerNothing, Save, Raises, Crash, Leave, EndTick,
     intake, store, world
<1>2. session' \in Nat /\ session' >= session
  BY <1>0, <1>1
<1> QED
  BY <1>1, <1>2, QuietKeeps DEF Replying

\* A message is written to the ledger, or its entries are recalled.
LEMMA RecordKeeps ==
  ASSUME IInv, Record
  PROVE  StoreInv' /\ HandInv'
<1> DEFINE fresh == line.id \notin done
<1>0. /\ at = "record" /\ batch # <<>> /\ Len(ledger) \in Nat
      /\ UNCHANGED <<source, session, group, mode, early>>
  BY DEF Record, IInv, BatchInv, StoreInv, LedgerInv, intake
<1>1. CASE line.kind = "recall"
  <2>1. ledger' = Recalled(line.of) /\ out' = out /\ Leave
    BY <1>1 DEF Record
  <2>2. StoreInv' /\ Len(ledger') = Len(ledger)
    BY <1>0, <2>1, RecalledKeeps DEF IInv
  <2> QED
    BY <1>0, <2>1, <2>2 DEF HandInv, Leave, NoReply, ReplyRecord, Replying
<1>2. CASE line.kind # "recall"
  <2>1. PICK key : key = Message(line.id)
    OBVIOUS
  <2>2. /\ ledger' = LedgerWith(fresh)
        /\ out' = IF Created(fresh) THEN Append(out, "none") ELSE out
        /\ IF WantsAnswer(fresh) THEN at' = "answer" /\ UNCHANGED <<done, batch, reply>>
                                 ELSE MarkDone /\ Leave
    BY <1>2 DEF Record
  <2>3. fresh \in BOOLEAN
    OBVIOUS
  <2> HIDE DEF fresh
  <2>4. /\ StoreInv' /\ Len(ledger') \in Nat /\ Len(ledger') >= Len(ledger)
        /\ WantsAnswer(fresh) => ~Answered(key)'
    BY <1>0, <1>2, <2>1, <2>2, <2>3, RecordedKeeps DEF IInv
  <2>5. CASE WantsAnswer(fresh)
    <3>1. at' = "answer" /\ UNCHANGED <<batch, reply>> /\ line.kind = "user"
      BY <2>2, <2>5 DEF WantsAnswer
    <3>2. line' = line /\ Message(line.id)' = key
      BY <2>1, <3>1 DEF line, Message
    <3>3. ~Answered(Message(line.id))'
      BY <2>4, <2>5, <3>2 DEF Answered
    <3>4. reply' \in ReplyRecord /\ reply'.index <= Len(ledger')
      BY <1>0, <2>4, <3>1 DEF IInv, HandInv, ReplyRecord
    <3> QED
      BY <2>4, <3>1, <3>2, <3>3, <3>4 DEF HandInv, Replying
  <2>6. CASE ~WantsAnswer(fresh)
    BY <2>2, <2>4, <2>6 DEF HandInv, Leave, NoReply, ReplyRecord, Replying
  <2> QED
    BY <2>4, <2>5, <2>6
<1> QED
  BY <1>1, <1>2

\* A reply is added for something that was not answered before.
LEMMA AppendReplyKeeps ==
  ASSUME IInv, NEW key \in KeyRecord, AppendReply(key), ~Answered(key),
         key.of \subseteq 1..Len(source),
         key.kind # "greeting" => \A n \in key.of : source[n].kind # "history",
         UNCHANGED <<source, session, group, mode, early>>
  PROVE  StoreInv' /\ HandInv'
<1>0. Len(ledger) \in Nat /\ session \in Nat
  BY DEF IInv, StoreInv, LedgerInv
<1>1. PICK e \in EntryRecord :
        /\ e = Entry("assistant", key, FALSE, "candidate")
        /\ e.role = "assistant" /\ e.key = key /\ e.act = FALSE /\ e.send = "candidate" /\ e.sess = session
  <2> DEFINE e == Entry("assistant", key, FALSE, "candidate")
  <2>1. /\ e \in EntryRecord /\ e.role = "assistant" /\ e.key = key /\ e.act = FALSE
        /\ e.send = "candidate" /\ e.sess = session
    BY <1>0, EntryTyped
  <2> HIDE DEF e
  <2> QED
    BY <2>1 DEF e
<1>2. /\ ledger' = Append(ledger, e) /\ out' = Append(out, "none") /\ at' = "gate"
      /\ reply' = [index |-> Len(ledger) + 1, result |-> "none"]
  BY <1>1 DEF AppendReply
<1>3. /\ StoreInv'
      /\ Len(ledger') = Len(ledger) + 1 /\ ledger'[Len(ledger) + 1] = e
      /\ out'[Len(ledger) + 1] = "none"
  <2>1. e.sess <= session /\ ~e.act
    <3>1. e.sess = session /\ ~e.act
      BY <1>1
    <3>2. session <= session
      BY <1>0
    <3> QED
      BY <3>1, <3>2
  <2>2. e.key.of = key.of /\ e.key.kind = key.kind /\ ~Answered(e.key)
    BY <1>1
  <2> HIDE DEF Answered
  <2> QED
    BY <1>1, <1>2, <2>1, <2>2, StoreAppended DEF IInv
<1>4. reply'.index = Len(ledger) + 1 /\ reply' \in ReplyRecord
  BY <1>0, <1>2 DEF ReplyRecord
<1>5. HandInv'
  <2>1. ledger'[reply'.index] = e /\ out'[reply'.index] = "none" /\ reply'.index <= Len(ledger')
        /\ reply'.index # 0
    BY <1>0, <1>3, <1>4
  <2> QED
    BY <1>1, <1>2, <1>4, <2>1 DEF HandInv, Replying
<1> QED
  BY <1>3, <1>5

LEMMA AnswerKeeps ==
  ASSUME IInv, Grows, Answer
  PROVE  StoreInv' /\ HandInv'
<1>0. at = "answer" /\ batch # <<>> /\ UNCHANGED <<source, session, group, mode, early>>
  BY DEF Answer, IInv, BatchInv, intake
<1>1. CASE AppendReply(Message(line.id))
  <2>1. PICK key : key = Message(line.id)
    OBVIOUS
  <2>2. /\ key \in KeyRecord /\ key.of = {line.id} /\ {line.id} \subseteq 1..Len(source)
        /\ source[line.id] = line
    BY <1>0, <2>1, MessageKey DEF IInv
  <2>3. line.kind = "user" /\ ~Answered(key)
    BY <1>0, <2>1 DEF IInv, HandInv
  <2>4. AppendReply(key) /\ \A n \in key.of : source[n].kind # "history"
    BY <1>1, <2>1, <2>2, <2>3
  <2> QED
    BY <1>0, <2>2, <2>3, <2>4, AppendReplyKeeps
<1>2. CASE Leave /\ UNCHANGED <<ledger, out>>
  BY <1>0, <1>2, QuietActions
<1> QED
  BY <1>1, <1>2 DEF Answer

\* What is pending can be answered; a greeting is about the whole session.
LEMMA AnswerPendingKeeps ==
  ASSUME IInv, AnswerPending
  PROVE  StoreInv' /\ HandInv'
<1>0. /\ Len(ledger) \in Nat /\ Len(source) \in Nat
      /\ UNCHANGED <<source, session, group, mode, early>>
  BY DEF AnswerPending, IInv, SourceInv, StoreInv, LedgerInv, intake
<1>1. PICK turn \in Turns : IsLatest(turn) /\ AppendReply(ProactiveKey(turn))
  BY DEF AnswerPending
<1>2. /\ turn.kind \in {"pending", "greeting"} /\ turn.from \subseteq 1..Len(ledger)
      /\ turn.kind = "pending" => turn.from = Pending
  BY <1>1 DEF Turns, Pending, InSession
<1>3. PICK key : key = ProactiveKey(turn)
  OBVIOUS
<1>4. /\ key.kind = turn.kind /\ key.mark = Len(ledger)
      /\ key = [kind |-> turn.kind, mark |-> Len(ledger), of |-> UNION {ledger[i].key.of : i \in turn.from}]
      /\ key.of = UNION {ledger[i].key.of : i \in turn.from}
  BY <1>1, <1>3 DEF ProactiveKey, IsLatest
<1>5. \A n \in key.of : \E i \in turn.from : n \in ledger[i].key.of
  BY <1>4
<1>6. key.of \subseteq 1..Len(source)
  <2>1. \A i \in 1..Len(ledger) : ledger[i].key.of \subseteq 1..Len(source)
    BY DEF IInv, StoreInv, LedgerInv
  <2> QED
    BY <1>2, <1>5, <2>1
<1>7. key \in KeyRecord
  <2>1. key.of \subseteq Nat
    BY <1>0, <1>6
  <2>2. UNION {ledger[i].key.of : i \in turn.from} \in SUBSET Nat
    BY <1>4, <2>1
  <2> QED
    BY <1>0, <1>2, <1>4, <2>2 DEF KeyRecord
<1>8. ~Answered(key)
  BY <1>1, <1>3 DEF IsLatest, Answered
<1>9. ASSUME key.kind # "greeting" PROVE \A n \in key.of : source[n].kind # "history"
  <2>1. turn.from = Pending
    BY <1>2, <1>4, <1>9
  <2>2. \A i \in turn.from : ledger[i].act
    BY <2>1 DEF Pending
  <2>3. \A i \in 1..Len(ledger) : ledger[i].act => \A n \in ledger[i].key.of : source[n].kind # "history"
    BY DEF IInv, StoreInv, ActionableInv
  <2> QED
    BY <1>2, <1>5, <2>2, <2>3
<1> QED
  BY <1>0, <1>1, <1>3, <1>6, <1>7, <1>8, <1>9, AppendReplyKeeps

\* Nothing in the ledger is rewritten but the send status of one entry.
LEMMA StatusKeeps ==
  ASSUME IInv, source' = source, NEW k \in 1..Len(ledger), NEW status \in Sends,
         ledger' = ledger \/ ledger' = [ledger EXCEPT ![k].send = status],
         out' \in Seq(Outs), Len(out') = Len(out),
         UNCHANGED <<session, group, mode>>,
         early \subseteq early', early' \subseteq 1..Len(ledger),
         \A i \in 1..Len(ledger) :
           /\ out[i] \in {"shown", "acked"} => out'[i] \in {"shown", "acked"}
           /\ out'[i] # "none" => ledger[i].role = "assistant"
           /\ out'[i] \in {"live", "shown", "acked"} =>
                \/ i \in early'
                \/ out[i] \in {"live", "shown", "acked"} /\ (i # k \/ ledger' = ledger)
                \/ ledger'[i].send \in {"queued_to_bridge", "sent"}
  PROVE  /\ StoreInv' /\ SameEntries
         /\ \A i \in 1..Len(ledger) : i # k => ledger'[i] = ledger[i]
         /\ ledger' = [ledger EXCEPT ![k].send = status] => ledger'[k].send = status
         /\ \A key : Answered(key)' <=> Answered(key)
<1>0. /\ Len(ledger) \in Nat /\ Len(out) = Len(ledger)
      /\ \A i \in 1..Len(ledger) : ledger[i] \in EntryRecord
      /\ ledger \in Seq(EntryRecord)
  BY Sizes DEF IInv, StoreInv, LedgerInv
<1>1. /\ SameEntries /\ ledger' \in Seq(EntryRecord)
      /\ \A i \in 1..Len(ledger) : /\ i # k => ledger'[i] = ledger[i]
                                   /\ ledger'[i].sess = ledger[i].sess /\ ledger'[i].act = ledger[i].act
      /\ ledger' = [ledger EXCEPT ![k].send = status] => ledger'[k].send = status
  <2>1. CASE ledger' = ledger /\ ledger' # [ledger EXCEPT ![k].send = status]
    BY <1>0, <2>1 DEF SameEntries
  <2>2. CASE ledger' = [ledger EXCEPT ![k].send = status]
    <3> DEFINE R == [ledger[k] EXCEPT !.send = status]
    <3>1. /\ R \in EntryRecord /\ R.role = ledger[k].role /\ R.key = ledger[k].key
          /\ R.sess = ledger[k].sess /\ R.act = ledger[k].act /\ R.send = status
      BY <1>0 DEF EntryRecord
    <3>2. ledger' = [ledger EXCEPT ![k] = R]
      BY <2>2
    <3> HIDE DEF R
    <3>3. /\ SameEntries /\ ledger' \in Seq(EntryRecord) /\ ledger'[k] = R
          /\ \A i \in 1..Len(ledger) : i # k => ledger'[i] = ledger[i]
      BY <3>1, <3>2, OneEntry DEF IInv, StoreInv
    <3> QED
      BY <3>1, <3>3
  <2> QED
    BY <2>1, <2>2
<1>2. OutInv'
  <2>1. \A i \in 1..Len(ledger) : out[i] \in {"live", "shown", "acked"} => Recognized(i)
    BY <1>0 DEF IInv, StoreInv, OutInv
  <2>2. \A i \in 1..Len(ledger) : out'[i] \in {"live", "shown", "acked"} => Recognized(i)'
    BY <1>1, <2>1 DEF Recognized
  <2> QED
    BY <1>0, <1>1, <2>2 DEF OutInv, SameEntries
<1>3. \A i \in 1..Len(ledger) : ledger'[i].sess <= session /\ (ledger'[i].act => ledger[i].act)
  BY <1>1 DEF IInv, StoreInv, LedgerInv
<1>4. StoreInv' /\ \A key : Answered(key)' <=> Answered(key)
  <2>1. \A i \in 1..Len(ledger) : out[i] \in {"shown", "acked"} => out'[i] \in {"shown", "acked"}
    OBVIOUS
  <2> QED
    BY <1>1, <1>2, <1>3, <2>1, StoreUpdated DEF IInv
<1> QED
  BY <1>1, <1>4

\* The gate hands the reply to an operator or to the bridge, or to nobody.
LEMMA GateKeeps ==
  ASSUME IInv, Gate
  PROVE  StoreInv' /\ HandInv'
<1> DEFINE k == reply.index
<1>0. /\ at = "gate" /\ at' = "project"
      /\ UNCHANGED <<source, ledger, session, group, mode, early, batch>>
  BY DEF Gate, intake, store
<1>1. /\ k \in 1..Len(ledger) /\ ledger[k].role = "assistant"
      /\ out[k] = "none" /\ ledger[k].send = "candidate"
      /\ Len(out) = Len(ledger) /\ out \in Seq(Outs) /\ reply \in ReplyRecord
      /\ early \subseteq 1..Len(ledger) /\ Len(ledger) \in Nat
  <2>1. Len(ledger) \in Nat /\ k \in Nat /\ k # 0 /\ k <= Len(ledger)
    BY <1>0 DEF IInv, HandInv, ReplyRecord, Replying, StoreInv, LedgerInv
  <2> QED
    BY <1>0, <2>1 DEF IInv, HandInv, Replying, StoreInv, LedgerInv
<1>2. PICK result \in {"skipped", "queued_for_confirm", "queued_to_bridge", "failed"} :
        /\ reply' = [reply EXCEPT !.result = result]
        /\ out' = [out EXCEPT ![k] = CASE result = "queued_for_confirm" -> "review"
                                       [] result = "queued_to_bridge" -> "staged"
                                       [] OTHER -> @]
  BY ModesAssumption DEF Gate, IInv, StoreInv, LedgerInv
<1>3. PICK o \in {"none", "review", "staged"} :
        /\ o = "staged" => result = "queued_to_bridge"
        /\ out' = [out EXCEPT ![k] = o]
  BY <1>1, <1>2
<1>4. /\ out' \in Seq(Outs) /\ Len(out') = Len(out)
      /\ \A i \in 1..Len(ledger) : out'[i] = IF i = k THEN o ELSE out[i]
  BY <1>1, <1>3, ExceptSeq DEF Outs
<1>5. StoreInv'
  <2>1. \A i \in 1..Len(ledger) : out[i] # "none" => ledger[i].role = "assistant"
    BY <1>1 DEF IInv, StoreInv, OutInv
  <2>2. \A i \in 1..Len(ledger) :
           /\ out[i] \in {"shown", "acked"} => out'[i] \in {"shown", "acked"}
           /\ out'[i] # "none" => ledger[i].role = "assistant"
           /\ out'[i] \in {"live", "shown", "acked"} => out[i] \in {"live", "shown", "acked"}
    BY <1>1, <1>4, <2>1
  <2>3. "none" \in Sends /\ early' = early
    BY <1>0 DEF Sends
  <2> HIDE DEF k
  <2> QED
    BY <1>0, <1>1, <1>4, <2>2, <2>3, StatusKeeps
<1>6. reply'.index = k /\ reply'.result = result /\ reply' \in ReplyRecord
  BY <1>1, <1>2 DEF ReplyRecord
<1>7. HandInv'
  BY <1>0, <1>1, <1>3, <1>4, <1>6 DEF HandInv, Replying
<1> QED
  BY <1>5, <1>7

\* The ledger learns the result.
LEMMA ProjectKeeps ==
  ASSUME IInv, Project
  PROVE  StoreInv' /\ HandInv'
<1> DEFINE k == reply.index
<1>0. /\ at = "project" /\ at' = "release"
      /\ UNCHANGED <<source, session, group, mode, early, batch, out, reply>>
  BY DEF Project, intake, world
<1>1. /\ k \in 1..Len(ledger) /\ ledger[k].role = "assistant"
      /\ Len(out) = Len(ledger) /\ out \in Seq(Outs) /\ reply \in ReplyRecord
      /\ early \subseteq 1..Len(ledger) /\ Len(ledger) \in Nat
      /\ out[k] \in {"live", "shown", "acked"} => k \in early
      /\ out[k] = "staged" => ledger[k].send = "candidate" /\ reply.result = "queued_to_bridge"
  <2>1. Len(ledger) \in Nat /\ k \in Nat /\ k # 0 /\ k <= Len(ledger)
    BY <1>0 DEF IInv, HandInv, ReplyRecord, Replying, StoreInv, LedgerInv
  <2> QED
    BY <1>0, <2>1 DEF IInv, HandInv, Replying, StoreInv, LedgerInv
<1>2. reply.result \in Sends
  BY <1>1 DEF ReplyRecord, Sends
<1>3. \/ ledger' = ledger /\ ledger[k].send \in {"sent", "failed"}
      \/ ledger' = [ledger EXCEPT ![k].send = reply.result]
  BY DEF Project
<1>4. /\ StoreInv' /\ SameEntries
      /\ \A i \in 1..Len(ledger) : i # k => ledger'[i] = ledger[i]
      /\ ledger' = [ledger EXCEPT ![k].send = reply.result] => ledger'[k].send = reply.result
  <2>1. \A i \in 1..Len(ledger) : out[i] # "none" => ledger[i].role = "assistant"
    BY <1>1 DEF IInv, StoreInv, OutInv
  <2>2. \A i \in 1..Len(ledger) :
           /\ out[i] \in {"shown", "acked"} => out'[i] \in {"shown", "acked"}
           /\ out'[i] # "none" => ledger[i].role = "assistant"
           /\ out'[i] \in {"live", "shown", "acked"} =>
                i \in early' \/ (out[i] \in {"live", "shown", "acked"} /\ i # k)
    BY <1>0, <1>1, <2>1
  <2> HIDE DEF k
  <2> QED
    BY <1>0, <1>1, <1>2, <1>3, <2>2, StatusKeeps
<1>5. out[k] = "staged" => ledger'[k].send = "queued_to_bridge"
  <2> HIDE DEF k
  <2> QED
    BY <1>1, <1>3, <1>4
<1>6. HandInv'
  BY <1>0, <1>1, <1>4, <1>5 DEF HandInv, Replying, SameEntries
<1> QED
  BY <1>4, <1>6

\* A staged record is activated or fails.
LEMMA ReleaseKeeps ==
  ASSUME IInv, Release
  PROVE  StoreInv' /\ HandInv'
<1> DEFINE k == reply.index
<1>0. /\ at = "release" /\ at' = "finish"
      /\ UNCHANGED <<source, bus, ledger, session, group, mode, early, batch, reply>>
  BY DEF Release, intake, store
<1>1. /\ k \in 1..Len(ledger) /\ ledger[k].role = "assistant" /\ k # 0
      /\ Len(out) = Len(ledger) /\ out \in Seq(Outs) /\ reply \in ReplyRecord
      /\ early \subseteq 1..Len(ledger) /\ Len(ledger) \in Nat
      /\ out[k] = "staged" => ledger[k].send = "queued_to_bridge"
  <2>1. Len(ledger) \in Nat /\ k \in Nat /\ k # 0 /\ k <= Len(ledger)
    BY <1>0 DEF IInv, HandInv, ReplyRecord, Replying, StoreInv, LedgerInv
  <2> QED
    BY <1>0, <2>1 DEF IInv, HandInv, Replying, StoreInv, LedgerInv
<1>2. HandInv'
  BY <1>0, <1>1 DEF HandInv, Replying
<1>3. CASE out' = out
  <2>1. UNCHANGED <<ledger, out, early>> /\ session \in Nat /\ session' >= session
    BY <1>0, <1>3 DEF IInv, StoreInv, LedgerInv
  <2>2. EchoInv' /\ Grows
    BY <1>0, <1>3 DEF IInv, SourceInv, BusInv, StoreInv, EchoInv, Grows
  <2> QED
    BY <1>0, <1>2, <2>1, <2>2, StoreStill DEF IInv
<1>4. CASE out[k] = "staged" /\ \E to \in {"live", "dead"} : out' = [out EXCEPT ![k] = to]
  <2>1. PICK to \in {"live", "dead"} : out' = [out EXCEPT ![k] = to]
    BY <1>4
  <2>2. /\ out' \in Seq(Outs) /\ Len(out') = Len(out)
        /\ \A i \in 1..Len(ledger) : out'[i] = IF i = k THEN to ELSE out[i]
    BY <1>1, <2>1, ExceptSeq DEF Outs
  <2>3. \A i \in 1..Len(ledger) : out[i] # "none" => ledger[i].role = "assistant"
    BY <1>1 DEF IInv, StoreInv, OutInv
  <2>4. \A i \in 1..Len(ledger) :
           /\ out[i] \in {"shown", "acked"} => out'[i] \in {"shown", "acked"}
           /\ out'[i] # "none" => ledger[i].role = "assistant"
           /\ out'[i] \in {"live", "shown", "acked"} =>
                \/ out[i] \in {"live", "shown", "acked"}
                \/ ledger'[i].send \in {"queued_to_bridge", "sent"}
    BY <1>0, <1>1, <1>4, <2>2, <2>3
  <2>5. "none" \in Sends /\ early' = early
    BY <1>0 DEF Sends
  <2> HIDE DEF k
  <2>6. StoreInv'
    BY <1>0, <1>1, <2>2, <2>4, <2>5, StatusKeeps
  <2> QED
    BY <1>2, <2>6
<1> QED
  BY <1>3, <1>4 DEF Release

\* The operator and the bridge.
LEMMA PeopleKeep ==
  ASSUME IInv, People
  PROVE  StoreInv' /\ HandInv'
<1>1. PICK k \in 1..Len(out) : Decide(k) \/ SendApproved(k) \/ Deliver(k) \/ Acknowledge(k)
  BY DEF People
<1>2. PICK before, after, status :
        /\ Outside(k, before, after, status)
        /\ \/ before = "review" /\ after = "approved" /\ status = "approved"
           \/ before = "review" /\ after = "closed" /\ status = "rejected"
           \/ before = "approved" /\ after = "live" /\ status = "queued_to_bridge"
           \/ before = "approved" /\ after = "dead" /\ status = "kept"
           \/ before = "live" /\ after = "shown" /\ status = "kept"
           \/ before = "live" /\ after = "dead" /\ status = "kept"
           \/ before = "shown" /\ after = "acked" /\ status = "sent"
           \/ before = "dead" /\ after = "closed" /\ status = "failed"
        /\ early' = IF before = "approved" /\ reply.index = k /\ at = "project"
                    THEN early \cup {k} ELSE early
  <2>1. CASE Decide(k)
    BY <2>1 DEF Decide
  <2>2. CASE SendApproved(k)
    BY <2>2 DEF SendApproved
  <2>3. CASE Deliver(k)
    BY <2>3 DEF Deliver
  <2>4. CASE Acknowledge(k)
    BY <2>4 DEF Acknowledge
  <2> QED
    BY <1>1, <2>1, <2>2, <2>3, <2>4
<1>3. /\ Len(out) = Len(ledger) /\ out \in Seq(Outs) /\ ledger[k].role = "assistant"
      /\ early \subseteq 1..Len(ledger) /\ Len(ledger) \in Nat /\ k \in 1..Len(ledger)
      /\ out[k] = before
      /\ \A i \in 1..Len(ledger) : out[i] # "none" => ledger[i].role = "assistant"
  BY <1>2 DEF Outside, IInv, StoreInv, LedgerInv, OutInv
<1>4. /\ UNCHANGED <<source, session, group, mode, at, batch, reply>>
      /\ out' = [out EXCEPT ![k] = after]
      /\ ledger' = IF status = "kept" THEN ledger ELSE [ledger EXCEPT ![k].send = status]
  BY <1>2 DEF Outside, intake, tick
<1>5. /\ out' \in Seq(Outs) /\ Len(out') = Len(out)
      /\ \A i \in 1..Len(ledger) : out'[i] = IF i = k THEN after ELSE out[i]
  <2>1. after \in Outs
    BY <1>2 DEF Outs
  <2> QED
    BY <1>3, <1>4, <2>1, ExceptSeq
<1>6. PICK to \in Sends : /\ status # "kept" => to = status
                          /\ ledger' = ledger \/ ledger' = [ledger EXCEPT ![k].send = to]
  <2>1. CASE status = "kept"
    BY <1>4, <2>1 DEF Sends
  <2>2. CASE status # "kept"
    BY <1>2, <1>4, <2>2 DEF Sends
  <2> QED
    BY <2>1, <2>2
<1>7. /\ after = "live" \/ after = "acked" => ledger'[k].send \in {"queued_to_bridge", "sent"}
      /\ after = "shown" => ledger' = ledger /\ before = "live"
  <2>1. ASSUME status # "kept" PROVE ledger'[k].send = status
    <3>1. ledger' = [ledger EXCEPT ![k].send = status] /\ ledger \in Seq(EntryRecord)
      BY <1>4, <2>1 DEF IInv, StoreInv, LedgerInv
    <3>2. ledger[k] \in EntryRecord
      BY <1>3, <3>1, ElementOfSeq
    <3> DEFINE R == [ledger[k] EXCEPT !.send = status]
    <3>3. R.send = status
      BY <3>2 DEF EntryRecord
    <3>4. ledger' = [ledger EXCEPT ![k] = R] /\ k \in DOMAIN ledger
      BY <1>3, <3>1
    <3> HIDE DEF R
    <3> QED
      BY <3>3, <3>4
  <2> QED
    BY <1>2, <1>4, <2>1
<1>8. early \subseteq early' /\ early' \subseteq 1..Len(ledger)
  BY <1>2, <1>3
<1>9. /\ StoreInv' /\ SameEntries
      /\ \A i \in 1..Len(ledger) : i # k => ledger'[i] = ledger[i]
      /\ \A key : Answered(key)' <=> Answered(key)
  <2>1. \A i \in 1..Len(ledger) :
           /\ out[i] \in {"shown", "acked"} => out'[i] \in {"shown", "acked"}
           /\ out'[i] # "none" => ledger[i].role = "assistant"
           /\ out'[i] \in {"live", "shown", "acked"} =>
                \/ i \in early'
                \/ out[i] \in {"live", "shown", "acked"} /\ (i # k \/ ledger' = ledger)
                \/ ledger'[i].send \in {"queued_to_bridge", "sent"}
    <3> TAKE i \in 1..Len(ledger)
    <3>1. CASE i = k
      BY <1>2, <1>3, <1>5, <1>7, <3>1
    <3>2. CASE i # k
      BY <1>3, <1>5, <3>2
    <3> QED
      BY <3>1, <3>2
  <2>2. /\ source' = source /\ UNCHANGED <<session, group, mode>>
        /\ out' \in Seq(Outs) /\ Len(out') = Len(out)
        /\ k \in 1..Len(ledger) /\ to \in Sends
        /\ ledger' = ledger \/ ledger' = [ledger EXCEPT ![k].send = to]
    BY <1>3, <1>4, <1>5, <1>6
  <2> QED
    BY <1>8, <2>1, <2>2, StatusKeeps
<1>10. HandInv'
  <2>1. reply' \in ReplyRecord /\ reply'.index <= Len(ledger')
    BY <1>4, <1>9 DEF IInv, HandInv, SameEntries
  <2>2. at' = "answer" => line'.kind = "user" /\ ~Answered(Message(line.id))'
    <3> SUFFICES ASSUME at' = "answer" PROVE line'.kind = "user" /\ ~Answered(Message(line.id))'
      OBVIOUS
    <3>1. PICK key : key = Message(line.id)
      OBVIOUS
    <3>2. line' = line /\ Message(line.id)' = key
      BY <1>4, <3>1 DEF line, Message
    <3>3. line.kind = "user" /\ ~Answered(key)'
      BY <1>4, <1>9, <3>1 DEF IInv, HandInv
    <3> QED
      BY <3>2, <3>3 DEF Answered
  <2>3. ASSUME at \in Replying
        PROVE  reply.index \in 1..Len(ledger) /\ ledger[reply.index].role = "assistant"
    BY <1>3, <2>3 DEF IInv, HandInv, ReplyRecord
  <2>4. at' \in Replying => reply'.index # 0 /\ ledger'[reply'.index].role = "assistant"
    BY <1>4, <1>9, <2>3 DEF IInv, HandInv, SameEntries
  <2>5. at' = "gate" => out'[reply'.index] = "none" /\ ledger'[reply'.index].send = "candidate"
    BY <1>2, <1>3, <1>4, <1>5, <1>9, <2>3 DEF IInv, HandInv, Replying
  <2>6. at' = "project" => (out'[reply'.index] \in {"live", "shown", "acked"} => reply'.index \in early')
    <3> SUFFICES ASSUME at = "project", out'[reply.index] \in {"live", "shown", "acked"}
                 PROVE  reply.index \in early'
      BY <1>4
    <3>1. reply.index \in 1..Len(ledger)
      BY <2>3 DEF Replying
    <3>2. out[reply.index] \in {"live", "shown", "acked"} => reply.index \in early
      BY DEF IInv, HandInv
    <3> QED
      BY <1>2, <1>3, <1>5, <1>8, <3>1, <3>2
  <2>7. at' = "project" => (out'[reply'.index] = "staged" =>
           ledger'[reply'.index].send = "candidate" /\ reply'.result = "queued_to_bridge")
    BY <1>2, <1>3, <1>4, <1>5, <1>9, <2>3 DEF IInv, HandInv, Replying
  <2>8. at' = "release" /\ out'[reply'.index] = "staged" =>
           ledger'[reply'.index].send = "queued_to_bridge"
    BY <1>2, <1>3, <1>4, <1>5, <1>9, <2>3 DEF IInv, HandInv, Replying
  <2> QED
    BY <2>1, <2>2, <2>4, <2>5, <2>6, <2>7, <2>8 DEF HandInv
<1> QED
  BY <1>9, <1>10

-----------------------------------------------------------------------------
(* The invariant.                                                          *)

LEMMA InitHolds == Init => IInv
<1> SUFFICES ASSUME Init PROVE IInv
  OBVIOUS
<1>1. /\ source = <<>> /\ offset = 0 /\ bus = <<>> /\ cursor = 0 /\ done = {} /\ ledger = <<>>
      /\ session = 0 /\ group \in BOOLEAN /\ mode \in Modes /\ out = <<>> /\ at = "idle" /\ read = 0
      /\ batch = <<>> /\ reply = NoReply /\ error = FALSE /\ failed = {} /\ early = {}
  BY DEF Init
<1>2. SourceInv
  BY <1>1, BoundsAssumption DEF SourceInv
<1>3. BusInv
  BY <1>1 DEF BusInv
<1>4. BatchInv
  <2>1. batch \in Seq(InBatch) /\ Len(batch) = 0 /\ Len(bus) = 0
    BY <1>1
  <2>2. \A k \in 1..Len(batch) : FALSE
    BY <2>1
  <2>3. /\ cursor \in Nat /\ read \in Nat /\ cursor <= Len(bus) /\ read <= Len(bus)
        /\ at \in AtSteps /\ (at \in {"record", "answer"} => batch # <<>>) /\ batch = <<>>
    BY <1>1, <2>1 DEF AtSteps
  <2>4. error \in BOOLEAN
    BY <1>1
  <2> QED
    BY <2>1, <2>2, <2>3, <2>4 DEF BatchInv
<1>5. PassInv
  BY <1>1 DEF PassInv
<1>6. StoreInv
  <2>1. LedgerInv
    BY <1>1 DEF LedgerInv
  <2>2. ActionableInv /\ OutInv /\ EchoInv
    BY <1>1 DEF ActionableInv, OutInv, EchoInv
  <2>3. OneReplyPerAnswer /\ HistoryNeverAnswered /\ EchoConfirmsReply
    BY <1>1 DEF OneReplyPerAnswer, HistoryNeverAnswered, EchoConfirmsReply
  <2> QED
    BY <2>1, <2>2, <2>3 DEF StoreInv
<1>7. HandInv
  BY <1>1 DEF HandInv, NoReply, ReplyRecord, Replying
<1> QED
  BY <1>2, <1>3, <1>4, <1>5, <1>6, <1>7 DEF IInv

LEMMA StepKeeps ==
  ASSUME IInv, [Next]_vars
  PROVE  IInv'
<1>1. ReadInv' /\ Grows
  BY ReadInvKeeps DEF IInv, ReadInv
<1>2. StoreInv' /\ HandInv'
  <2>1. CASE Collect \/ Import \/ ImportFails
    BY <1>1, <2>1, CollectImportKeep
  <2>2. CASE StartTick \/ Admit \/ Finish \/ AnswerNothing \/ Save \/ Raises \/ Crash
    BY <1>1, <2>2, QuietActions
  <2>3. CASE Record
    BY <2>3, RecordKeeps
  <2>4. CASE Answer
    BY <1>1, <2>4, AnswerKeeps
  <2>5. CASE AnswerPending
    BY <2>5, AnswerPendingKeeps
  <2>6. CASE Gate \/ Project \/ Release
    BY <2>6, GateKeeps, ProjectKeeps, ReleaseKeeps
  <2>7. CASE People
    BY <2>7, PeopleKeep
  <2>8. CASE UNCHANGED vars
    <3>1. UNCHANGED <<source, ledger, out, early, group, mode, session, tick>>
      BY <2>8 DEF vars, intake, store, world
    <3>2. EchoInv' /\ session' \in Nat /\ session' >= session
      BY <3>1 DEF IInv, StoreInv, EchoInv, LedgerInv
    <3>3. StoreInv'
      BY <1>1, <3>1, <3>2, StoreStill DEF IInv
    <3> QED
      BY <3>1, <3>3, HandStill DEF IInv
  <2> QED
    BY <2>1, <2>2, <2>3, <2>4, <2>5, <2>6, <2>7, <2>8 DEF Next, Agent, People
<1> QED
  BY <1>1, <1>2 DEF IInv, ReadInv

THEOREM Invariance == Spec => []IInv
<1>1. IInv /\ [Next]_vars => IInv'
  BY StepKeeps
<1> QED
  BY InitHolds, <1>1, PTL DEF Spec

-----------------------------------------------------------------------------
(* What holds of every behaviour.                                          *)

\* Every variable keeps its type.
THEOREM TypeCorrect == Spec => []TypeOK
<1>1. IInv => TypeOK
  <2> SUFFICES ASSUME IInv PROVE TypeOK
    OBVIOUS
  <2>0. /\ Len(source) \in Nat /\ MaxEvents \in Nat /\ Len(source) <= MaxEvents
        /\ Len(bus) \in Nat /\ Len(bus) <= Len(source)
    BY BoundsAssumption DEF IInv, SourceInv, BusInv
  <2>1. \A e \in Event : e.id \in 1..Len(source) => e \in Events
    BY <2>0 DEF Event, Events
  <2>2. \A n \in 1..Len(source) : source[n] \in Events
    BY <2>1, ElementOfSeq DEF IInv, SourceInv
  <2>3. source \in Seq(Events)
    <3>1. source \in [1..Len(source) -> Events]
      BY <2>2 DEF IInv, SourceInv
    <3> QED
      BY <2>0, <3>1, FcnSeq
  <2>4. bus \in Seq(Events)
    <3>1. bus \in [1..Len(bus) -> Events]
      BY <2>0, <2>2 DEF IInv, BusInv
    <3> QED
      BY <2>0, <3>1, FcnSeq
  <2>5. /\ offset \in 0..MaxEvents /\ cursor \in 0..MaxEvents /\ read \in 0..MaxEvents
        /\ done \subseteq 1..MaxEvents /\ failed \subseteq 1..MaxEvents
    BY <2>0 DEF IInv, BusInv, BatchInv, PassInv
  <2>6. \A n \in 1..Len(batch) : batch[n].line \in Events /\ batch[n].context \in BOOLEAN
    <3> TAKE n \in 1..Len(batch)
    <3>1. batch[n] \in InBatch /\ batch[n].line.id \in 1..Len(source)
      BY ElementOfSeq DEF IInv, BatchInv
    <3> QED
      BY <2>1, <3>1 DEF InBatch
  <2>7. /\ session \in Nat /\ group \in BOOLEAN /\ mode \in Modes /\ Len(out) = Len(ledger)
        /\ Len(ledger) \in Nat /\ early \subseteq 1..Len(ledger)
    BY DEF IInv, StoreInv, LedgerInv
  <2>8. \A i \in 1..Len(ledger) :
       /\ ledger[i].role \in {"user", "self", "assistant"} /\ ledger[i].send \in Sends
       /\ ledger[i].state \in {"active", "recalled"} /\ ledger[i].sess \in 0..session
       /\ ledger[i].key.of \subseteq 1..MaxEvents
       /\ out[i] \in {"none", "review", "approved", "staged", "live", "shown", "acked",
                      "dead", "closed"}
    <3> TAKE i \in 1..Len(ledger)
    <3>1. ledger[i] \in EntryRecord /\ out[i] \in Outs
      BY Sizes DEF IInv, StoreInv
    <3>2. ledger[i].key.of \subseteq 1..Len(source) /\ ledger[i].sess <= session
      BY DEF IInv, StoreInv, LedgerInv
    <3>3. ledger[i].sess \in 0..session
      BY <2>7, <3>1, <3>2 DEF EntryRecord
    <3>4. ledger[i].key.of \subseteq 1..MaxEvents
      BY <2>0, <3>2
    <3> QED
      BY <3>1, <3>3, <3>4 DEF EntryRecord, Outs
  <2>9. at \in AtSteps /\ reply.index \in 0..Len(ledger)
    BY <2>7 DEF IInv, BatchInv, HandInv, ReplyRecord
  <2> QED
    BY <2>3, <2>4, <2>5, <2>6, <2>7, <2>8, <2>9 DEF TypeOK, AtSteps
<1> QED
  BY <1>1, Invariance, PTL

\* However often an import stops or fails, and whatever it leaves behind,
\* the bus is the beginning of the source file, and the offset is not past it
\* (HookEventJsonlImporter with append_jsonl_once).
THEOREM ImportedOnce == Spec => []ImportedInOrder
<1>1. IInv => ImportedInOrder
  BY DEF IInv, BusInv, ImportedInOrder
<1> QED
  BY <1>1, Invariance, PTL

\* The cursor of the ticks is behind every message that was neither
\* processed nor lost to its own handler, with any number of ticks, crashes
\* and exceptions (_record_agent_tick_state).
THEOREM PassedDone == Spec => []PassedIsProcessed
<1>1. IInv => PassedIsProcessed
  <2> SUFFICES ASSUME IInv, NEW n \in 1..cursor PROVE bus[n].id \in done \cup failed
    BY DEF PassedIsProcessed
  <2>1. n \in 1..Len(bus) /\ n \in 1..Len(source)
    BY DEF IInv, SourceInv, BusInv, BatchInv
  <2>2. bus[n].id = n
    BY <2>1 DEF IInv, SourceInv, BusInv
  <2> QED
    BY <2>2 DEF IInv, PassInv
<1> QED
  BY <1>1, Invariance, PTL

\* A message or a pending turn has one reply in the ledger at most
\* (_should_retry_existing_message, append_reply_if_latest).
THEOREM AnsweredOnce == Spec => []OneReplyPerAnswer
<1>1. IInv => OneReplyPerAnswer
  BY DEF IInv, StoreInv
<1> QED
  BY <1>1, Invariance, PTL

\* The echo of a reply is recorded as a message of the owner only when the
\* operator sent the reply before the gate's result was projected
\* (_find_assistant_entry_for_self_echo).
THEOREM EchoesRecognized == Spec => []EchoConfirmsReply
<1>1. IInv => EchoConfirmsReply
  BY DEF IInv, StoreInv
<1> QED
  BY <1>1, Invariance, PTL

\* No reply, direct or to a pending turn, is about history that was filled
\* in.
THEOREM HistoryLeft == Spec => []HistoryNeverAnswered
<1>1. IInv => HistoryNeverAnswered
  BY DEF IInv, StoreInv
<1> QED
  BY <1>1, Invariance, PTL
=============================================================================
