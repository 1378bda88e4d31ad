-------------------------- MODULE SendBridge_proofs --------------------------
(***************************************************************************)
(* Retry chains neither fork nor leave an older record undecided, whatever *)
(* the backend answers (Base); and while no answer is garbled and every    *)
(* quarantine is written, a part reaches WeChat at most once and what may  *)
(* have arrived stays on record (Safe).  The first rests on the order of   *)
(* the file: the successor is made of the newest record of a chain         *)
(* (RetryParentIs).  The second follows one record at a time (RecordSafe): *)
(* the worker only takes up records that reached nobody, and holds them    *)
(* under a marker that nobody but the command line can overrule.           *)
(***************************************************************************)
EXTENDS SendBridge, FiniteSetTheorems, WellFoundedInduction, TLAPS

\* Every set of naturals with a member has a least one.
LEMMA LeastNatural ==
    ASSUME NEW S \in SUBSET Nat, S # {}
    PROVE  \E n \in S : \A m \in S : n <= m
<1> DEFINE R == OpToRel(<, Nat)
<1>1. \E x \in S : \A y \in S : <<y, x>> \notin R
  <2> HIDE DEF R
  <2>1. IsWellFoundedOn(R, Nat)
    BY NatLessThanWellFounded DEF R
  <2> QED
    BY <2>1, WFMin
<1>2. PICK x \in S : \A y \in S : <<y, x>> \notin R
  BY <1>1
<1>3. \A y \in S : ~(y < x)
  BY <1>2 DEF OpToRel
<1> QED
  BY <1>3

LEMMA MaxIs ==
    ASSUME NEW N \in Nat, NEW S \in SUBSET (0 .. N), S # {}
    PROVE  Max(S) \in S /\ \A y \in S : y <= Max(S)
<1> DEFINE T == { N - x : x \in S }
<1>1. T \in SUBSET Nat /\ T # {}
  <2>1. \A x \in S : N - x \in Nat
    OBVIOUS
  <2> QED
    BY <2>1
<1>2. PICK n \in T : \A m \in T : n <= m
  BY <1>1, LeastNatural
<1>3. PICK x \in S : n = N - x
  OBVIOUS
<1>4. \A y \in S : x >= y
  <2> TAKE y \in S
  <2>1. N - x <= N - y
    BY <1>2, <1>3
  <2> QED
    BY <2>1
<1> QED
  BY <1>4 DEF Max

LEMMA MinIs ==
    ASSUME NEW S \in SUBSET Nat, S # {}
    PROVE  Min(S) \in S
BY LeastNatural DEF Min

-----------------------------------------------------------------------------
(* Retry chains. *)

\* X holds the parent of r and of each of its members that has one.
Linked(P, r, X) == \A x \in {r} \cup X : P[x] # NoRecord => P[x] \in X

\* The least such set: the records that r retries.
Above(P, r) == { a \in DOMAIN P : \A X \in SUBSET DOMAIN P : Linked(P, r, X) => a \in X }

\* The equation that defines AncestorsIn.
IsAncestry(P, f) ==
  f = [s \in {NoRecord} \cup DOMAIN P |->
         IF s = NoRecord \/ P[s] = NoRecord THEN {} ELSE {P[s]} \cup f[P[s]]]

LEMMA AboveLinked ==
    ASSUME NEW n \in Nat, NEW P \in [1..n -> 0..n], NEW r \in 1..n
    PROVE  Linked(P, r, Above(P, r))
<1>1. \A p \in 0..n : p # NoRecord => p \in 1..n
  BY DEF NoRecord
<1> QED
  BY <1>1 DEF Linked, Above

LEMMA AboveLeast ==
    ASSUME NEW n \in Nat, NEW P \in [1..n -> 0..n], NEW r \in 1..n,
           NEW X \in SUBSET (1..n), Linked(P, r, X)
    PROVE  Above(P, r) \subseteq X
BY DEF Above

LEMMA AboveStep ==
    ASSUME NEW n \in Nat, NEW P \in [1..n -> 0..n], NEW r \in 1..n
    PROVE  Above(P, r) = IF P[r] = NoRecord THEN {} ELSE {P[r]} \cup Above(P, P[r])
<1>1. CASE P[r] = NoRecord
  <2>1. Linked(P, r, {})
    BY <1>1 DEF Linked
  <2> QED
    BY <1>1, <2>1, AboveLeast
<1>2. CASE P[r] # NoRecord
  <2>1. P[r] \in 1..n
    BY <1>2 DEF NoRecord
  <2>2. Linked(P, r, {P[r]} \cup Above(P, P[r]))
    BY <2>1, AboveLinked DEF Linked
  <2>3. Above(P, r) \subseteq {P[r]} \cup Above(P, P[r])
    <3>1. {P[r]} \cup Above(P, P[r]) \in SUBSET (1..n)
      BY <2>1 DEF Above
    <3> QED
      BY <2>2, <3>1, AboveLeast
  <2>4. Linked(P, r, Above(P, r))
    BY AboveLinked
  <2>5. P[r] \in Above(P, r) /\ Linked(P, P[r], Above(P, r))
    BY <1>2, <2>4 DEF Linked
  <2>6. Above(P, P[r]) \subseteq Above(P, r)
    <3>1. Above(P, r) \in SUBSET (1..n)
      BY DEF Above
    <3> QED
      BY <2>1, <2>5, <3>1, AboveLeast
  <2> QED
    BY <1>2, <2>3, <2>5, <2>6
<1> QED
  BY <1>1, <1>2

LEMMA AncestryExists ==
    ASSUME NEW n \in Nat, NEW P \in [1..n -> 0..n]
    PROVE  \E f : IsAncestry(P, f)
<1> DEFINE f == [s \in {NoRecord} \cup DOMAIN P |-> IF s = NoRecord THEN {} ELSE Above(P, s)]
<1>1. IsAncestry(P, f)
  <2>1. \A s \in {NoRecord} \cup DOMAIN P :
          f[s] = IF s = NoRecord \/ P[s] = NoRecord THEN {} ELSE {P[s]} \cup f[P[s]]
    <3> TAKE s \in {NoRecord} \cup DOMAIN P
    <3>1. CASE s = NoRecord
      BY <3>1
    <3>2. CASE s # NoRecord /\ P[s] = NoRecord
      BY <3>2, AboveStep
    <3>3. CASE s # NoRecord /\ P[s] # NoRecord
      <4>1. s \in 1..n /\ P[s] \in 1..n
        BY <3>3 DEF NoRecord
      <4> QED
        BY <3>3, <4>1, AboveStep
    <3> QED
      BY <3>1, <3>2, <3>3
  <2> QED
    BY <2>1 DEF IsAncestry
<1> QED
  BY <1>1

LEMMA AncestorsStep ==
    ASSUME NEW n \in Nat, NEW P \in [1..n -> 0..n], NEW r \in {NoRecord} \cup 1..n
    PROVE  AncestorsIn(P, r) =
             IF r = NoRecord \/ P[r] = NoRecord THEN {} ELSE {P[r]} \cup AncestorsIn(P, P[r])
<1> DEFINE g == CHOOSE f : IsAncestry(P, f)
<1>1. IsAncestry(P, g)
  BY AncestryExists
<1>2. \A s : AncestorsIn(P, s) = g[s]
  BY DEF AncestorsIn, IsAncestry
<1> HIDE DEF g
<1>3. g[r] = IF r = NoRecord \/ P[r] = NoRecord THEN {} ELSE {P[r]} \cup g[P[r]]
  BY <1>1 DEF IsAncestry
<1> QED
  BY <1>2, <1>3

\* Following the parents from r leads through Above(P, r), when each comes
\* before its successor.
LEMMA AncestorsAre ==
    ASSUME NEW n \in Nat, NEW P \in [1..n -> 0..n], \A r \in 1..n : P[r] < r, NEW r \in 1..n
    PROVE  AncestorsIn(P, r) = Above(P, r)
<1> DEFINE Bad == { s \in 1..n : AncestorsIn(P, s) # Above(P, s) }
<1> SUFFICES ASSUME Bad # {} PROVE FALSE
  OBVIOUS
<1>1. Bad \in SUBSET Nat
  OBVIOUS
<1>2. PICK s \in Bad : \A t \in Bad : s <= t
  BY <1>1, LeastNatural
<1>3. s \in 1..n /\ AncestorsIn(P, s) # Above(P, s) /\ s # NoRecord
  BY DEF NoRecord
<1> HIDE DEF Bad
<1>4. AncestorsIn(P, s) = IF P[s] = NoRecord THEN {} ELSE {P[s]} \cup AncestorsIn(P, P[s])
  BY <1>3, AncestorsStep
<1>5. Above(P, s) = IF P[s] = NoRecord THEN {} ELSE {P[s]} \cup Above(P, P[s])
  BY <1>3, AboveStep
<1>6. P[s] # NoRecord
  BY <1>3, <1>4, <1>5
<1>7. P[s] \in 1..n /\ P[s] < s
  BY <1>3, <1>6 DEF NoRecord
<1>8. P[s] \notin Bad
  BY <1>3, <1>2, <1>7
<1>9. AncestorsIn(P, P[s]) = Above(P, P[s])
  BY <1>7, <1>8 DEF Bad
<1> QED
  BY <1>3, <1>4, <1>5, <1>9

\* An ancestor is the parent of some record.
LEMMA AncestorIsParent ==
    ASSUME NEW n \in Nat, NEW P \in [1..n -> 0..n], \A r \in 1..n : P[r] < r, NEW r \in 1..n,
           NEW a \in AncestorsIn(P, r)
    PROVE  a \in 1..n /\ a # NoRecord /\ \E x \in 1..n : P[x] = a
<1> DEFINE X == { b \in 1..n : \E x \in 1..n : P[x] = b }
<1>1. Linked(P, r, X)
  BY DEF Linked, NoRecord
<1>2. a \in X
  BY <1>1, AboveLeast, AncestorsAre
<1> QED
  BY <1>2 DEF NoRecord


-----------------------------------------------------------------------------
(* What holds whatever the backend answers and whatever is not written.    *)

\* A parent comes before its one retry in the file.
ChainInv ==
  /\ \A r \in Records : parent[r] < r /\ (parent[r] # NoRecord => r <= created)
  /\ \A r, s \in Records : parent[r] = parent[s] /\ parent[r] # NoRecord => r = s

\* Only decided records are retried.
ParentsDecided == \A r \in Records : parent[r] # NoRecord => Terminal(parent[r])

\* What is not in the file has no state, and nobody works on it.
FileInv ==
  \A r \in Records :
    (stage[r] # "absent" \/ ack[r] # "queued" \/ r \in calls \/ r \in todo) => r <= created

\* The worker holds the record it sends.
InHand == {"marked", "cleared", "answered"}
WorkerInv ==
  /\ pc = "drain" => todo # {}
  /\ IF pc \in InHand THEN cur \in todo ELSE cur = NoRecord

Base == TypeOK /\ ChainInv /\ ParentsDecided /\ FileInv /\ WorkerInv

Reasons == AllAnswers \cup {"none", "delivering", "config", "revoked", "manual", "cli",
                            "abandoned", "staging_failed", "possible_duplicate"}

\* The acknowledgements after a line (s, w) for r: it is the effective one, or
\* r was decided and stays so.
AcksTyped ==
  /\ ack \in [Records -> {"queued"} \cup AckStatuses]
  /\ why \in [Records -> Reasons]
  /\ retries \in [Records -> 0 .. MaxRetries]
Acked(r, s, w) ==
  /\ AcksTyped'
  /\ \A x \in Records \ {r} : ack'[x] = ack[x] /\ why'[x] = why[x]
  /\ \/ ack'[r] = s /\ why'[r] = w /\ (Terminal(r) => s \in TerminalAcks)
     \/ ack'[r] = ack[r] /\ why'[r] = why[r] /\ Terminal(r)

LEMMA PutAckIs ==
    ASSUME TypeOK, NEW r \in Records, NEW s \in AckStatuses, NEW w \in Reasons, PutAck(r, s, w)
    PROVE  Acked(r, s, w)
<1>1. AcksTyped
  BY DEF TypeOK, AcksTyped, Reasons
<1>2. ~Counts(r, s) => Terminal(r)
  BY DEF Counts, Terminal, AckPriority, TerminalAcks
<1>3. Counts(r, s) /\ Terminal(r) => s \in TerminalAcks
  BY DEF Counts
<1>4. AcksTyped'
  BY <1>1, BoundsAssumption DEF AcksTyped, PutAck
<1> QED
  BY <1>1, <1>2, <1>3, <1>4 DEF AcksTyped, PutAck, Acked

LEMMA WriteAckIs ==
    ASSUME TypeOK, NEW r \in Records, NEW s \in AckStatuses, NEW w \in Reasons, NEW kind,
           WriteAck(r, s, w, kind)
    PROVE  /\ AcksTyped' /\ faults' \in Nat
           /\ Acked(r, s, w) \/ (UNCHANGED acks /\ faults' # faults)
<1>1. CASE PutAck(r, s, w) /\ UNCHANGED faults
  BY <1>1, PutAckIs DEF TypeOK, Acked
<1>2. CASE Fault /\ UNCHANGED acks
  BY <1>2 DEF Fault, TypeOK, acks, AcksTyped, Reasons
<1> QED
  BY <1>1, <1>2 DEF WriteAck

\* Records leave the file as it is: what remains is to follow the statuses.
LEMMA FrameKeeps ==
    ASSUME Base, UNCHANGED <<created, parent>>, TypeOK', FileInv', WorkerInv',
           \A r \in Records : Terminal(r) => Terminal(r)'
    PROVE  Base'
<1>1. ChainInv'
  BY DEF Base, ChainInv
<1>2. ParentsDecided'
  <2>1. \A r \in Records : parent[r] # NoRecord => parent[r] \in Records
    BY DEF Base, TypeOK, Records, NoRecord
  <2> QED
    BY <2>1 DEF Base, ParentsDecided
<1> QED
  BY <1>1, <1>2 DEF Base

LEMMA AckedKeeps ==
    ASSUME Base, NEW r \in Records, NEW s, NEW w, Acked(r, s, w),
           \A x \in Records : stage'[x] # "absent" => stage[x] # "absent",
           calls' \subseteq calls, todo' \subseteq todo, r <= created,
           UNCHANGED <<created, parent>>, TypeOK', WorkerInv'
    PROVE  Base'
<1>1. \A x \in Records : Terminal(x) => Terminal(x)'
  BY DEF Acked, Terminal
<1>2. FileInv'
  BY DEF Base, FileInv, Acked
<1> QED
  BY <1>1, <1>2, FrameKeeps

-----------------------------------------------------------------------------
(* Producers. *)

LEMMA PartsAre == ASSUME TypeOK, NEW g PROVE Parts(g) \subseteq Records /\ \A r \in Parts(g) : r <= created
BY BoundsAssumption DEF Parts, Written, Records, TypeOK

LEMMA NewRecord ==
    ASSUME TypeOK, NEW g \in Replies \cup {NoReply}, NEW p \in 0 .. MaxRecords,
           NEW c \in {"none", "empty", "full"}, AppendRecord(g, p, c)
    PROVE  /\ created + 1 \in Records /\ created' = created + 1 /\ created' \in 0 .. MaxRecords
           /\ reply' \in [Records -> Replies \cup {NoReply}]
           /\ parent' \in [Records -> 0 .. MaxRecords]
           /\ stage' \in [Records -> {"absent", "staged", "ready"}]
           /\ contract' \in [Records -> {"none", "empty", "full"}]
           /\ owner' \in [Records -> BOOLEAN]
           /\ parent' = [parent EXCEPT ![created + 1] = p]
           /\ stage' = [stage EXCEPT ![created + 1] = "staged"]
BY BoundsAssumption DEF TypeOK, AppendRecord, Records

\* A record is appended that retries no record, or the last of a chain.
LEMMA AppendKeeps ==
    ASSUME Base, TypeOK', NEW g \in Replies \cup {NoReply}, NEW p \in 0 .. MaxRecords,
           NEW c \in {"none", "empty", "full"}, AppendRecord(g, p, c),
           p # NoRecord => p <= created /\ Terminal(p) /\ \A x \in Records : parent[x] # p,
           UNCHANGED <<ack, todo, pc, cur>>, calls' \subseteq calls \cup {created + 1}
    PROVE  Base'
<1> DEFINE n == created + 1
<1>1. /\ n \in Records /\ created' = n /\ created \in Nat
      /\ parent' = [parent EXCEPT ![n] = p] /\ stage' = [stage EXCEPT ![n] = "staged"]
  <2>1. TypeOK /\ created \in Nat
    BY DEF Base, TypeOK
  <2> QED
    BY <2>1, NewRecord
<1>2. parent \in [Records -> 0 .. MaxRecords] /\ stage \in [Records -> {"absent", "staged", "ready"}]
  BY DEF Base, TypeOK
<1>3. ChainInv'
  <2>1. \A r \in Records : parent'[r] = IF r = n THEN p ELSE parent[r]
    BY <1>1, <1>2
  <2>2. \A r \in Records : parent'[r] < r /\ (parent'[r] # NoRecord => r <= created')
    BY <1>1, <2>1 DEF Base, ChainInv, Records, NoRecord
  <2>3. \A r, s \in Records : parent'[r] = parent'[s] /\ parent'[r] # NoRecord => r = s
    BY <1>1, <2>1 DEF Base, ChainInv
  <2> QED
    BY <2>2, <2>3 DEF ChainInv
<1>4. ParentsDecided'
  <2>1. \A r \in Records : parent'[r] = IF r = n THEN p ELSE parent[r]
    BY <1>1, <1>2
  <2> QED
    BY <1>1, <2>1 DEF Base, ParentsDecided, Terminal
<1>5. FileInv'
  BY <1>1, <1>2 DEF Base, FileInv, Records
<1>6. WorkerInv'
  BY DEF Base, WorkerInv
<1> QED
  BY <1>3, <1>4, <1>5, <1>6 DEF Base

LEMMA StagePartKeeps == ASSUME Base, NEW g \in Replies, StagePart(g) PROVE Base'
<1>1. AppendRecord(g, NoRecord, "none")
  BY DEF StagePart
<1>2. NoRecord \in 0 .. MaxRecords
  BY BoundsAssumption DEF NoRecord
<1>3. TypeOK'
  BY <1>1, <1>2, NewRecord DEF Base, TypeOK, StagePart, acks, worker, history
<1> QED
  BY <1>1, <1>2, <1>3, AppendKeeps DEF StagePart, acks, worker

\* Steps of a producer that leave the acknowledgements and the worker alone.
LEMMA ProducerKeeps ==
    ASSUME Base, NEW g \in Replies,
           Publish(g) \/ PublishFails(g) \/ Activate(g) \/ FailingDone(g) \/ ProducerRaises(g) \/ ProducerDies(g)
    PROVE  Base'
<1>1. UNCHANGED <<created, reply, parent, acks, calls, gate, worker, crashes, faults, history>>
  BY DEF Publish, PublishFails, Activate, FailingDone, ProducerRaises, ProducerDies, outbox
<1>2. /\ phase' \in [Replies -> {"idle", "staging", "published", "failing", "over"}]
      /\ owner' \in [Records -> BOOLEAN]
      /\ contract' \in [Records -> {"none", "empty", "full"}]
      /\ stage' \in [Records -> {"absent", "staged", "ready"}]
      /\ \A r \in Records : stage'[r] # stage[r] => r \in Parts(g)
  <2>1. TypeOK
    BY DEF Base
  <2>2. CASE Publish(g) \/ FailingDone(g) \/ ProducerRaises(g)
    BY <2>1, <2>2 DEF TypeOK, Publish, FailingDone, ProducerRaises, outbox
  <2>3. CASE PublishFails(g)
    BY <2>1, <2>3 DEF TypeOK, PublishFails, DeclareContract
  <2>4. CASE Activate(g)
    BY <2>1, <2>4 DEF TypeOK, Activate, DeclareContract
  <2>5. CASE ProducerDies(g)
    BY <2>1, <2>5 DEF TypeOK, ProducerDies
  <2> QED
    BY <2>2, <2>3, <2>4, <2>5
<1>3. TypeOK'
  BY <1>1, <1>2 DEF Base, TypeOK, acks, worker, history
<1>4. FileInv'
  BY <1>1, <1>2, PartsAre DEF Base, FileInv, acks, worker
<1>5. WorkerInv'
  BY <1>1 DEF Base, WorkerInv, worker
<1> QED
  BY <1>1, <1>3, <1>4, <1>5, FrameKeeps DEF acks, Terminal

LEMMA FailPartKeeps == ASSUME Base, NEW g \in Replies, NEW r \in Records, FailPart(g, r) PROVE Base'
<1>1. Acked(r, "failed", "staging_failed")
  BY PutAckIs DEF Base, FailPart, AckStatuses, TerminalAcks, Reasons
<1>2. r <= created
  BY PartsAre DEF Base, FailPart
<1>3. TypeOK' /\ WorkerInv'
  BY <1>1 DEF Base, TypeOK, WorkerInv, FailPart, outbox, people, worker, history, Acked, AcksTyped, Reasons
<1> QED
  BY <1>1, <1>2, <1>3, AckedKeeps DEF FailPart, outbox, people, worker

-----------------------------------------------------------------------------
(* Operators. *)

LEMMA ManualStopKeeps == ASSUME Base, NEW r \in Records, NEW s \in {"sent", "failed"}, ManualStop(r, s) PROVE Base'
<1>1. Acked(r, s, "manual")
  BY PutAckIs DEF Base, ManualStop, AckStatuses, TerminalAcks, Reasons
<1>2. r <= created
  BY DEF ManualStop, Written
<1>3. TypeOK' /\ WorkerInv'
  BY <1>1 DEF Base, TypeOK, WorkerInv, ManualStop, outbox, people, worker, Acked, AcksTyped, Reasons
<1> QED
  BY <1>1, <1>2, <1>3, AckedKeeps DEF ManualStop, outbox, people, worker

LEMMA CliAckKeeps == ASSUME Base, NEW r \in Records, NEW s \in CliAcks, CliAck(r, s) PROVE Base'
<1>1. Acked(r, s, "cli")
  BY PutAckIs, CliAcksAssumption DEF Base, CliAck, AckStatuses, Reasons
<1>2. r <= created
  BY DEF CliAck, Written
<1>3. TypeOK' /\ WorkerInv'
  BY <1>1 DEF Base, TypeOK, WorkerInv, CliAck, outbox, people, worker, Acked, AcksTyped, Reasons
<1> QED
  BY <1>1, <1>2, <1>3, AckedKeeps DEF CliAck, outbox, people, worker

LEMMA DescendantsAre ==
    ASSUME TypeOK, ChainInv, NEW r \in Written
    PROVE  /\ {r} \cup Descendants(r) \subseteq Written
           /\ \A x \in Written : parent[x] \in {r} \cup Descendants(r) => x \in Descendants(r)
<1>1. MaxRecords \in Nat /\ Written \subseteq 1 .. MaxRecords /\ parent \in [1 .. MaxRecords -> 0 .. MaxRecords]
  BY BoundsAssumption DEF TypeOK, Written, Records
<1>2. ASSUME NEW x \in Written, parent[x] \in {r} \cup Descendants(r) PROVE x \in Descendants(r)
  <2>1. parent[x] # NoRecord /\ (parent[x] = r \/ r \in AncestorsIn(parent, parent[x]))
    BY <1>2 DEF Descendants, DescendantsIn, Written, NoRecord
  <2>2. AncestorsIn(parent, x) = {parent[x]} \cup AncestorsIn(parent, parent[x])
    <3>1. x # NoRecord /\ x \in {NoRecord} \cup 1 .. MaxRecords
      BY <1>1 DEF NoRecord
    <3> QED
      BY <1>1, <2>1, <3>1, AncestorsStep
  <2> QED
    BY <2>1, <2>2 DEF Descendants, DescendantsIn
<1> QED
  BY <1>2 DEF Descendants, DescendantsIn

\* The record that is retried is the last of its chain, and decided.
LEMMA RetryParentIs ==
    ASSUME Base, NEW r \in Records, CanRequeue(r), LiveDescendants(r) = {}
    PROVE  /\ RetryParent(r) \in Records /\ RetryParent(r) <= created /\ RetryParent(r) # NoRecord
           /\ Terminal(RetryParent(r)) /\ Retryable(RetryParent(r))
           /\ \A x \in Records : parent[x] # RetryParent(r)
<1> DEFINE S == {r} \cup Descendants(r)
           last == RetryParent(r)
<1>1. r \in Written /\ S \subseteq Written
  BY DescendantsAre DEF Base, CanRequeue
<1>2. created \in Nat /\ created <= MaxRecords /\ MaxRecords \in Nat
  BY BoundsAssumption DEF Base, TypeOK
<1>3. last \in S /\ \A y \in S : y <= last
  <2>1. S \in SUBSET (0 .. created) /\ S # {}
    BY <1>1, <1>2 DEF Written
  <2>2. Max(S) \in S /\ \A y \in S : y <= Max(S)
    BY <1>2, <2>1, MaxIs
  <2> QED
    BY <2>2 DEF RetryParent
<1>4. last \in Written /\ last \in Records
  BY <1>1, <1>2, <1>3 DEF Written, Records
<1>5. Terminal(last) /\ Retryable(last)
  BY <1>3 DEF CanRequeue, LiveDescendants
<1>6. ASSUME NEW x \in Records, parent[x] = last PROVE FALSE
  <2>1. x \in Written /\ last < x
    BY <1>2, <1>4, <1>6 DEF Base, ChainInv, Written, Records, NoRecord
  <2>2. x \in S
    BY <1>1, <1>3, <1>6, <2>1, DescendantsAre DEF Base
  <2> QED
    BY <1>2, <1>3, <1>4, <2>1, <2>2 DEF Written
<1> HIDE DEF last
<1> QED
  BY <1>2, <1>4, <1>5, <1>6 DEF Written, NoRecord, last

LEMMA ReuseKeeps == ASSUME Base, NEW r \in Records, ReuseSuccessor(r) PROVE Base'
<1> DEFINE m == Max(LiveDescendants(r))
<1>1. LiveDescendants(r) \subseteq Written /\ LiveDescendants(r) # {}
  BY DEF ReuseSuccessor, LiveDescendants, Descendants, DescendantsIn
<1>2. created \in Nat /\ created <= MaxRecords /\ MaxRecords \in Nat
  BY BoundsAssumption DEF Base, TypeOK
<1>3. m \in Written /\ m \in Records
  <2>1. LiveDescendants(r) \in SUBSET (0 .. created)
    BY <1>1, <1>2 DEF Written
  <2>2. m \in LiveDescendants(r)
    BY <1>1, <1>2, <2>1, MaxIs
  <2> QED
    BY <1>1, <1>2, <2>2 DEF Written, Records
<1>4. calls' = calls \cup {m}
      /\ UNCHANGED <<outbox, acks, phase, gate, worker, crashes, faults, history>>
  BY DEF ReuseSuccessor
<1> HIDE DEF m
<1>5. TypeOK'
  BY <1>3, <1>4 DEF Base, TypeOK, outbox, acks, worker, history
<1>6. FileInv' /\ WorkerInv'
  BY <1>3, <1>4 DEF Base, FileInv, WorkerInv, Written, outbox, acks, worker
<1> QED
  BY <1>4, <1>5, <1>6, FrameKeeps DEF outbox, acks, Terminal

LEMMA CreateKeeps == ASSUME Base, NEW r \in Records, CreateSuccessor(r) PROVE Base'
<1> DEFINE last == RetryParent(r)
           c == IF contract[last] = "full" THEN "full" ELSE "none"
<1>1. CanRequeue(r) /\ LiveDescendants(r) = {} /\ AppendRecord(reply[last], last, c)
      /\ calls' = calls \cup {created + 1}
      /\ UNCHANGED <<acks, phase, gate, worker, crashes, faults, history>>
  BY DEF CreateSuccessor
<1>2. /\ last \in Records /\ last <= created /\ last # NoRecord /\ Terminal(last)
      /\ \A x \in Records : parent[x] # last
  BY <1>1, RetryParentIs
<1>3. reply[last] \in Replies \cup {NoReply} /\ last \in 0 .. MaxRecords /\ c \in {"none", "empty", "full"}
  BY <1>2 DEF Base, TypeOK, Records
<1> HIDE DEF last, c
<1>4. TypeOK'
  <2>1. TypeOK
    BY DEF Base
  <2>2. /\ created + 1 \in Records /\ created' \in 0 .. MaxRecords
        /\ reply' \in [Records -> Replies \cup {NoReply}]
        /\ parent' \in [Records -> 0 .. MaxRecords]
        /\ stage' \in [Records -> {"absent", "staged", "ready"}]
        /\ contract' \in [Records -> {"none", "empty", "full"}]
        /\ owner' \in [Records -> BOOLEAN]
    BY <1>1, <1>3, <2>1, NewRecord
  <2> QED
    BY <1>1, <2>1, <2>2 DEF TypeOK, acks, worker, history
<1> QED
  BY <1>1, <1>2, <1>3, <1>4, AppendKeeps DEF acks, worker

LEMMA SuccessorKeeps ==
    ASSUME Base, NEW n \in Records, ActivateSuccessor(n) \/ RetryDies(n)
    PROVE  Base'
<1>1. /\ UNCHANGED <<created, reply, parent, acks, phase, gate, worker, crashes, faults, history>>
      /\ calls' = calls \ {n} /\ n \in calls
  BY DEF ActivateSuccessor, RetryDies
<1>2. /\ owner' \in [Records -> BOOLEAN]
      /\ contract' \in [Records -> {"none", "empty", "full"}]
      /\ stage' \in [Records -> {"absent", "staged", "ready"}]
      /\ \A x \in Records \ {n} : stage'[x] = stage[x]
  BY DEF Base, TypeOK, ActivateSuccessor, RetryDies
<1>3. TypeOK'
  BY <1>1, <1>2 DEF Base, TypeOK, acks, worker, history
<1>4. FileInv' /\ WorkerInv'
  BY <1>1, <1>2 DEF Base, FileInv, WorkerInv, acks, worker
<1> QED
  BY <1>1, <1>3, <1>4, FrameKeeps DEF acks, Terminal

LEMMA FailSuccessorKeeps == ASSUME Base, NEW n \in Records, FailSuccessor(n) PROVE Base'
<1>1. n <= created /\ calls' = calls \ {n}
      /\ UNCHANGED <<outbox, phase, gate, worker, crashes, faults, history>>
  BY DEF Base, FileInv, FailSuccessor
<1>2. CASE PutAck(n, "failed", "staging_failed")
  <2>1. Acked(n, "failed", "staging_failed")
    BY <1>2, PutAckIs DEF Base, AckStatuses, TerminalAcks, Reasons
  <2>2. TypeOK' /\ WorkerInv'
    BY <1>1, <2>1 DEF Base, TypeOK, WorkerInv, outbox, worker, history, Acked, AcksTyped, Reasons
  <2> QED
    BY <1>1, <2>1, <2>2, AckedKeeps DEF outbox, worker
<1>3. CASE UNCHANGED acks
  <2>1. TypeOK' /\ WorkerInv'
    BY <1>1, <1>3 DEF Base, TypeOK, WorkerInv, outbox, acks, worker, history
  <2>2. FileInv'
    BY <1>1, <1>3 DEF Base, FileInv, outbox, acks, worker
  <2> QED
    BY <1>1, <1>3, <2>1, <2>2, FrameKeeps DEF outbox, acks, Terminal
<1> QED
  BY <1>2, <1>3 DEF FailSuccessor

LEMMA SetGateKeeps == ASSUME Base, NEW to \in Gates, SetGate(to) PROVE Base'
<1>1. TypeOK' /\ FileInv' /\ WorkerInv'
  BY DEF Base, TypeOK, FileInv, WorkerInv, SetGate, outbox, acks, worker, history
<1> QED
  BY <1>1, FrameKeeps DEF SetGate, outbox, acks, Terminal

-----------------------------------------------------------------------------
(* The worker. *)

WorkerTyped ==
  /\ pc \in {"down", "idle", "verify", "quarantine", "snapshot", "drain", "marked", "cleared", "answered"}
  /\ todo \subseteq Records
  /\ cur \in 0 .. MaxRecords
  /\ attempt \in 0 .. MaxAttempts
  /\ answer \in AllAnswers \cup {"none"}

\* The worker writes at most one line, for r.
Wrote(r) ==
  /\ AcksTyped' /\ faults' \in Nat
  /\ UNCHANGED acks \/ \E s, w : Acked(r, s, w)

LEMMA WorkerKeeps ==
    ASSUME Base, NEW r \in Records, r <= created, Wrote(r), WorkerTyped', WorkerInv', todo' \subseteq todo,
           UNCHANGED <<outbox, people, crashes, history>>
    PROVE  Base'
<1>1. TypeOK'
  BY DEF Base, TypeOK, Wrote, AcksTyped, WorkerTyped, Reasons, outbox, people, history
<1>2. CASE UNCHANGED acks
  <2>1. FileInv'
    BY <1>2 DEF Base, FileInv, outbox, people, acks
  <2> QED
    BY <1>1, <1>2, <2>1, FrameKeeps DEF outbox, acks, Terminal
<1>3. CASE \E s, w : Acked(r, s, w)
  BY <1>1, <1>3, AckedKeeps DEF outbox, people
<1> QED
  BY <1>2, <1>3 DEF Wrote

LEMMA NextRecordIs ==
    ASSUME WorkerTyped, NEW r, NextRecord(r)
    PROVE  WorkerTyped' /\ WorkerInv' /\ todo' = todo \ {r} /\ pc' \notin InHand
BY BoundsAssumption DEF WorkerTyped, NextRecord, WorkerInv, InHand, NoRecord

LEMMA WorkerTypedIs == ASSUME TypeOK PROVE WorkerTyped /\ AcksTyped /\ faults \in Nat
BY DEF TypeOK, WorkerTyped, AcksTyped, Reasons

LEMMA WroteIs ==
    ASSUME TypeOK, NEW r \in Records, NEW s \in AckStatuses, NEW w \in Reasons, NEW kind,
           WriteAck(r, s, w, kind)
    PROVE  Wrote(r)
BY WriteAckIs DEF Wrote

LEMMA WroteNothing == ASSUME TypeOK, NEW r, UNCHANGED <<acks, faults>> PROVE Wrote(r)
BY WorkerTypedIs DEF Wrote, acks, AcksTyped

LEMMA FailOrRetryIs ==
    ASSUME NEW r, NEW reason, FailOrRetry(r, reason)
    PROVE  \E s \in {"retry", "failed"} : WriteAck(r, s, reason, "terminal")
BY DEF FailOrRetry

LEMMA MissingReceiverIs ==
    ASSUME TypeOK, NEW r \in Records, MissingReceiver(r)
    PROVE  Wrote(r) /\ NextRecord(r)
<1>1. PICK s \in {"retry", "failed"} : WriteAck(r, s, "transient", "terminal")
  BY FailOrRetryIs DEF MissingReceiver
<1>2. s \in AckStatuses /\ "transient" \in Reasons
  BY DEF AckStatuses, TerminalAcks, ProgressAcks, Reasons, AllAnswers
<1> QED
  BY <1>1, <1>2, WroteIs DEF MissingReceiver

LEMMA UnauthorisedIs ==
    ASSUME TypeOK, NEW r \in Records, Unauthorised(r)
    PROVE  Wrote(r) /\ NextRecord(r)
BY WroteIs DEF Unauthorised, AckStatuses, TerminalAcks, Reasons

LEMMA TodoIs ==
    ASSUME Base
    PROVE  /\ pc = "drain" => Min(todo) \in todo
           /\ pc \in InHand => cur \in todo
           /\ \A r \in todo : r \in Records /\ r <= created
<1>1. todo \in SUBSET Nat /\ todo \subseteq Records
  BY BoundsAssumption DEF Base, TypeOK, Records
<1> QED
  BY <1>1, MinIs DEF Base, WorkerInv, FileInv

LEMMA DeliverKeeps == ASSUME Base, Deliver PROVE Base'
<1> DEFINE r == Min(todo)
<1>1. TypeOK /\ WorkerTyped /\ r \in Records /\ r \in todo /\ r <= created /\ pc = "drain"
  BY TodoIs, WorkerTypedIs DEF Base, Deliver
<1>2. SkipDisabled(r) \/ MissingReceiver(r) \/ Unauthorised(r) \/ Mark(r)
  BY DEF Deliver
<1>3. UNCHANGED <<outbox, people, crashes, history>>
  BY DEF Deliver
<1> HIDE DEF r
<1>4. Wrote(r)
  <2>1. CASE SkipDisabled(r)
    BY <1>1, <2>1, WroteNothing DEF SkipDisabled
  <2>2. CASE MissingReceiver(r) \/ Unauthorised(r)
    BY <1>1, <2>2, MissingReceiverIs, UnauthorisedIs
  <2>3. CASE Mark(r)
    BY <1>1, <2>3, WroteIs DEF Mark, AckStatuses, ProgressAcks, Reasons
  <2> QED
    BY <1>2, <2>1, <2>2, <2>3
<1>5. CASE NextRecord(r)
  BY <1>1, <1>3, <1>4, <1>5, NextRecordIs, WorkerKeeps
<1>6. CASE pc' = "marked" /\ cur' = r /\ attempt' = 1 /\ UNCHANGED <<todo, answer>>
  <2>1. WorkerTyped' /\ WorkerInv' /\ todo' \subseteq todo
    BY <1>1, <1>6, BoundsAssumption DEF WorkerTyped, WorkerInv, InHand, Records
  <2> QED
    BY <1>1, <1>3, <1>4, <2>1, WorkerKeeps
<1> QED
  BY <1>1, <1>2, <1>5, <1>6, MissingReceiverIs, UnauthorisedIs DEF SkipDisabled, Mark

LEMMA RecheckKeeps == ASSUME Base, Recheck PROVE Base'
<1>1. TypeOK /\ WorkerTyped /\ cur \in Records /\ cur \in todo /\ cur <= created
  BY TodoIs, WorkerTypedIs DEF Base, Recheck, InHand
<1>2. UNCHANGED <<outbox, people, crashes, history>>
  BY DEF Recheck
<1>3. CASE NextRecord(cur) /\ Wrote(cur)
  BY <1>1, <1>2, <1>3, NextRecordIs, WorkerKeeps
<1>4. CASE gate = "disabled" /\ WriteAck(cur, "retry", "config", "terminal") /\ NextRecord(cur)
  BY <1>1, <1>3, <1>4, WroteIs DEF AckStatuses, ProgressAcks, Reasons
<1>5. CASE MissingReceiver(cur) \/ Unauthorised(cur)
  BY <1>1, <1>3, <1>5, MissingReceiverIs, UnauthorisedIs
<1>6. CASE NextRecord(cur) /\ UNCHANGED <<acks, faults>>
  BY <1>1, <1>3, <1>6, WroteNothing
<1>7. CASE pc' = "cleared" /\ UNCHANGED <<acks, faults, todo, cur, attempt, answer>>
  <2>1. WorkerTyped' /\ WorkerInv'
    BY <1>1, <1>7 DEF WorkerTyped, WorkerInv, InHand
  <2> QED
    BY <1>1, <1>2, <1>7, <2>1, WroteNothing, WorkerKeeps
<1> QED
  BY <1>4, <1>5, <1>6, <1>7 DEF Recheck

LEMMA FileGoneKeeps == ASSUME Base, FileGone PROVE Base'
<1>1. TypeOK /\ WorkerTyped /\ cur \in Records /\ cur <= created
  BY TodoIs, WorkerTypedIs DEF Base, FileGone, InHand
<1>2. Wrote(cur)
  BY <1>1, WroteIs DEF FileGone, AckStatuses, TerminalAcks, Reasons, AllAnswers
<1> QED
  BY <1>1, <1>2, NextRecordIs, WorkerKeeps DEF FileGone

LEMMA SendKeeps == ASSUME Base, Send PROVE Base'
<1>1. /\ reached' \in [Records -> Nat] /\ answer' \in AllAnswers \cup {"none"} /\ pc' = "answered"
      /\ UNCHANGED <<outbox, acks, people, todo, cur, attempt, crashes, faults, stopped, overruled>>
  <2>1. PICK a \in Answers : /\ answer' = a
                             /\ reached' = [reached EXCEPT ![cur] = IF a \in MayHaveReached THEN @ + 1 ELSE @]
    BY DEF Send
  <2>2. reached' \in [Records -> Nat]
    <3>1. reached \in [Records -> Nat] /\ cur \in Records /\ reached[cur] \in Nat
      BY TodoIs DEF Base, TypeOK, Send, InHand
    <3> QED
      BY <2>1, <3>1
  <2> QED
    BY <2>1, <2>2, AnswersAssumption DEF Send
<1>2. TypeOK' /\ FileInv' /\ WorkerInv'
  BY <1>1, TodoIs DEF Send, Base, TypeOK, FileInv, WorkerInv, InHand, outbox, acks, people
<1> QED
  BY <1>1, <1>2, FrameKeeps DEF outbox, acks, Terminal

LEMMA HandleAnswerKeeps == ASSUME Base, HandleAnswer PROVE Base'
<1>1. TypeOK /\ WorkerTyped /\ cur \in Records /\ cur \in todo /\ cur <= created
  BY TodoIs, WorkerTypedIs DEF Base, HandleAnswer, InHand
<1>2. UNCHANGED <<outbox, people, crashes, history>>
  BY DEF HandleAnswer
<1>3. CASE NextRecord(cur) /\ Wrote(cur)
  BY <1>1, <1>2, <1>3, NextRecordIs, WorkerKeeps
<1>4. CASE answer \in {"verified", "dry_run"} /\ Finish("sent", answer)
  BY <1>1, <1>3, <1>4, WroteIs DEF Finish, AckStatuses, TerminalAcks, Reasons, AllAnswers
<1>5. CASE answer = "accepted" /\ Finish("accepted", "accepted")
  BY <1>1, <1>3, <1>5, WroteIs DEF Finish, AckStatuses, TerminalAcks, Reasons, AllAnswers
<1>6. CASE answer \in {"unknown", "permanent", "exception"} \ TriedAgain /\ Finish("failed", answer)
  BY <1>1, <1>3, <1>6, WroteIs DEF Finish, AckStatuses, TerminalAcks, Reasons, AllAnswers
<1>7. CASE /\ answer \in TriedAgain /\ AttemptLeft
           /\ attempt' = attempt + 1 /\ pc' = "marked" /\ answer' = "none"
           /\ UNCHANGED <<acks, faults, todo, cur>>
  <2>1. WorkerTyped' /\ WorkerInv'
    BY <1>1, <1>7, BoundsAssumption DEF WorkerTyped, WorkerInv, InHand, AttemptLeft
  <2> QED
    BY <1>1, <1>2, <1>7, <2>1, WroteNothing, WorkerKeeps
<1>8. CASE answer \in TriedAgain /\ ~AttemptLeft /\ FailOrRetry(cur, answer) /\ NextRecord(cur)
  <2>1. PICK s \in {"retry", "failed"} : WriteAck(cur, s, answer, "terminal")
    BY <1>8, FailOrRetryIs
  <2>2. s \in AckStatuses /\ answer \in Reasons
    BY <1>8 DEF AckStatuses, TerminalAcks, ProgressAcks, Reasons, AllAnswers, TriedAgain
  <2> QED
    BY <1>1, <1>3, <1>8, <2>1, <2>2, WroteIs
<1> QED
  BY <1>4, <1>5, <1>6, <1>7, <1>8 DEF HandleAnswer

\* The sections of a tick that go over the whole file.
LEMMA SweepKeeps ==
    ASSUME Base, UNCHANGED <<created, reply, parent, stage, owner, retries, people, crashes, history>>,
           contract' \in [Records -> {"none", "empty", "full"}], faults' \in Nat,
           AcksTyped', WorkerTyped', WorkerInv',
           \A r \in Records : Terminal(r) => Terminal(r)',
           \A r \in Records : ack'[r] # ack[r] => r <= created,
           \A r \in todo' : r <= created
    PROVE  Base'
<1>1. TypeOK'
  BY DEF Base, TypeOK, AcksTyped, WorkerTyped, Reasons, people, history
<1>2. FileInv'
  <2> SUFFICES ASSUME NEW r \in Records,
                      stage'[r] # "absent" \/ ack'[r] # "queued" \/ r \in calls' \/ r \in todo'
               PROVE  r <= created
    BY DEF FileInv
  <2>1. CASE ack'[r] # ack[r] \/ r \in todo'
    BY <2>1
  <2>2. CASE ack'[r] = ack[r] /\ r \notin todo'
    BY <2>2 DEF Base, FileInv, people
  <2> QED
    BY <2>1, <2>2
<1> QED
  BY <1>1, <1>2, FrameKeeps

LEMMA ContractsTyped ==
    ASSUME TypeOK, ContractsOfAbandoned
    PROVE  contract' \in [Records -> {"none", "empty", "full"}]
BY DEF TypeOK, ContractsOfAbandoned

LEMMA QuarantineAbandonedKeeps == ASSUME Base, QuarantineAbandoned PROVE Base'
<1>1. PICK done \in SUBSET Abandoned :
       /\ UNCHANGED faults \/ Fault
       /\ ContractsOfAbandoned \/ UNCHANGED contract
       /\ ack' = [r \in Records |-> IF r \in done THEN "failed" ELSE ack[r]]
       /\ why' = [r \in Records |-> IF r \in done THEN "abandoned" ELSE why[r]]
  BY DEF QuarantineAbandoned
<1>2. \A r \in done : r <= created /\ ~Terminal(r)
  BY DEF Abandoned, Written
<1>3. UNCHANGED <<created, reply, parent, stage, owner, retries, people, todo, cur, attempt, answer, crashes, history>>
      /\ pc = "idle" /\ pc' = "verify"
  BY DEF QuarantineAbandoned
<1>4. contract' \in [Records -> {"none", "empty", "full"}] /\ faults' \in Nat
  BY <1>1, ContractsTyped DEF Base, TypeOK, Fault
<1>5. AcksTyped'
  BY <1>1, <1>3 DEF Base, TypeOK, AcksTyped, AckStatuses, TerminalAcks, Reasons
<1>6. WorkerTyped' /\ WorkerInv'
  BY <1>3, WorkerTypedIs DEF Base, WorkerTyped, WorkerInv, InHand
<1>7. \A r \in Records : (Terminal(r) => Terminal(r)') /\ (ack'[r] # ack[r] => r <= created)
  BY <1>1, <1>2 DEF Terminal
<1> QED
  BY <1>3, <1>4, <1>5, <1>6, <1>7, TodoIs, SweepKeeps

LEMMA VerifyAcceptedKeeps == ASSUME Base, VerifyAccepted PROVE Base'
<1>1. PICK proved \in SUBSET { r \in Written : ack[r] = "accepted" } :
       /\ ack' = [r \in Records |-> IF r \in proved THEN "sent" ELSE ack[r]]
       /\ why' = [r \in Records |-> IF r \in proved THEN "verified" ELSE why[r]]
  BY DEF VerifyAccepted
<1>2. UNCHANGED <<outbox, retries, people, todo, cur, attempt, answer, crashes, faults, history>>
      /\ pc = "verify" /\ pc' = "quarantine"
  BY DEF VerifyAccepted
<1>3. contract' \in [Records -> {"none", "empty", "full"}] /\ faults' \in Nat
  BY <1>2 DEF Base, TypeOK, outbox
<1>4. AcksTyped'
  BY <1>1, <1>2 DEF Base, TypeOK, AcksTyped, AckStatuses, TerminalAcks, Reasons, AllAnswers
<1>5. WorkerTyped' /\ WorkerInv'
  BY <1>2, WorkerTypedIs DEF Base, WorkerTyped, WorkerInv, InHand
<1>6. \A r \in Records : (Terminal(r) => Terminal(r)') /\ (ack'[r] # ack[r] => r <= created)
  <2> TAKE r \in Records
  <2>1. ack'[r] = ack[r] \/ (r \in proved /\ ack'[r] = "sent")
    BY <1>1
  <2>2. r \in proved => r <= created
    BY DEF Written
  <2> QED
    BY <2>1, <2>2 DEF Terminal, TerminalAcks
<1> QED
  BY <1>2, <1>3, <1>4, <1>5, <1>6, TodoIs, SweepKeeps DEF outbox

LEMMA QuarantineInterruptedKeeps == ASSUME Base, QuarantineInterrupted PROVE Base'
<1>1. PICK lost \in SUBSET Interrupted :
       /\ lost # {} => "quarantine" \in FaultyAcks
       /\ faults' = faults + Cardinality(lost)
       /\ ack' = [r \in Records |-> IF r \in Interrupted \ lost THEN "failed" ELSE ack[r]]
       /\ why' = [r \in Records |-> IF r \in Interrupted \ lost THEN "possible_duplicate" ELSE why[r]]
  BY DEF QuarantineInterrupted
<1>2. UNCHANGED <<outbox, retries, people, todo, cur, attempt, answer, crashes, history>>
      /\ pc = "quarantine" /\ pc' = "snapshot"
  BY DEF QuarantineInterrupted
<1>3. faults' \in Nat
  <2>1. IsFiniteSet(Written)
    BY FS_Interval DEF Written, Base, TypeOK
  <2>2. IsFiniteSet(lost)
    BY <2>1, FS_Subset DEF Interrupted
  <2>3. Cardinality(lost) \in Nat
    BY <2>2, FS_CardinalityType
  <2> QED
    BY <1>1, <2>3 DEF Base, TypeOK
<1>4. contract' \in [Records -> {"none", "empty", "full"}]
  BY <1>2 DEF Base, TypeOK, outbox
<1>5. AcksTyped'
  BY <1>1, <1>2 DEF Base, TypeOK, AcksTyped, AckStatuses, TerminalAcks, Reasons
<1>6. WorkerTyped' /\ WorkerInv'
  BY <1>2, WorkerTypedIs DEF Base, WorkerTyped, WorkerInv, InHand
<1>7. \A r \in Records : (Terminal(r) => Terminal(r)') /\ (ack'[r] # ack[r] => r <= created)
  <2> TAKE r \in Records
  <2>1. ack'[r] = ack[r] \/ (r \in Interrupted /\ ack'[r] = "failed")
    BY <1>1
  <2> QED
    BY <2>1 DEF Terminal, TerminalAcks, Interrupted, Written
<1> QED
  BY <1>2, <1>3, <1>4, <1>5, <1>6, <1>7, TodoIs, SweepKeeps DEF outbox

LEMMA SnapshotKeeps == ASSUME Base, Snapshot PROVE Base'
<1>1. /\ todo' = { r \in Written : stage[r] = "ready" /\ ~Terminal(r) }
      /\ pc' = IF todo' = {} THEN "idle" ELSE "drain"
      /\ UNCHANGED <<outbox, acks, people, cur, attempt, answer, crashes, faults, history>>
  BY DEF Snapshot
<1>2. Written \subseteq Records /\ \A r \in Written : r <= created
  BY BoundsAssumption DEF Base, TypeOK, Written, Records
<1>3. TypeOK' /\ FileInv'
  BY <1>1, <1>2 DEF Base, TypeOK, FileInv, outbox, acks, people, history
<1>4. WorkerInv'
  BY <1>1 DEF Base, WorkerInv, Snapshot, InHand
<1> QED
  BY <1>1, <1>3, <1>4, FrameKeeps DEF outbox, acks, Terminal

LEMMA StopKeeps == ASSUME Base, LoopLeaves \/ Crash \/ Restart PROVE Base'
<1>1. /\ UNCHANGED <<created, reply, parent, stage, owner, acks, people, faults, stopped, overruled>>
      /\ todo' \subseteq todo /\ pc' \in {"down", "idle"}
  BY DEF LoopLeaves, Crash, Restart, StopWorker, outbox, history
<1>2. /\ contract' \in [Records -> {"none", "empty", "full"}] /\ reached' \in [Records -> Nat]
      /\ crashes' \in Nat
  <2>1. TypeOK
    BY DEF Base
  <2>2. CASE LoopLeaves \/ Restart
    BY <2>1, <2>2 DEF TypeOK, LoopLeaves, Restart, outbox, history
  <2>3. CASE Crash
    BY <2>1, <2>3, ContractsTyped DEF TypeOK, Crash
  <2> QED
    BY <2>2, <2>3
<1>3. WorkerTyped' /\ WorkerInv'
  BY <1>1, WorkerTypedIs, BoundsAssumption
     DEF Base, WorkerTyped, WorkerInv, InHand, LoopLeaves, Crash, Restart, StopWorker, NoRecord
<1>4. TypeOK' /\ FileInv'
  BY <1>1, <1>2, <1>3 DEF Base, TypeOK, FileInv, WorkerTyped, acks, people
<1> QED
  BY <1>1, <1>3, <1>4, FrameKeeps DEF acks, Terminal

-----------------------------------------------------------------------------
LEMMA BaseInit == Init => Base
<1> SUFFICES ASSUME Init PROVE Base
  OBVIOUS
<1>1. TypeOK
  BY BoundsAssumption, GatesAssumption DEF Init, TypeOK, AckStatuses, NoRecord, Records
<1>2. ChainInv /\ ParentsDecided /\ FileInv /\ WorkerInv
  BY DEF Init, ChainInv, ParentsDecided, FileInv, WorkerInv, InHand, NoRecord, Records
<1> QED
  BY <1>1, <1>2 DEF Base

LEMMA BaseStep == Base /\ [Next]_vars => Base'
<1> SUFFICES ASSUME Base, [Next]_vars PROVE Base'
  OBVIOUS
<1>1. ASSUME NEW g \in Replies, ProducerStep(g) PROVE Base'
  BY <1>1, StagePartKeeps, ProducerKeeps, FailPartKeeps DEF ProducerStep
<1>2. CASE OperatorStep
  BY <1>2, ManualStopKeeps, CliAckKeeps, ReuseKeeps, CreateKeeps, SuccessorKeeps, FailSuccessorKeeps,
     SetGateKeeps DEF OperatorStep
<1>3. CASE WorkerStep
  BY <1>3, QuarantineAbandonedKeeps, VerifyAcceptedKeeps, QuarantineInterruptedKeeps, SnapshotKeeps,
     DeliverKeeps, RecheckKeeps, FileGoneKeeps, SendKeeps, HandleAnswerKeeps, StopKeeps DEF WorkerStep
<1>4. CASE Crash
  BY <1>4, StopKeeps
<1>5. CASE UNCHANGED vars
  <2>1. TypeOK' /\ FileInv' /\ WorkerInv'
    BY <1>5 DEF Base, TypeOK, FileInv, WorkerInv, vars, outbox, acks, people, worker, history
  <2> QED
    BY <1>5, <2>1, FrameKeeps DEF vars, outbox, acks, Terminal
<1> QED
  BY <1>1, <1>2, <1>3, <1>4, <1>5 DEF Next

\* The order of the file, the types and the chains of retries hold in every
\* behaviour of producers, operators and the worker.
THEOREM BaseInvariant == Spec => []Base
BY BaseInit, BaseStep, PTL DEF Spec

\* Every variable of the outbox, its acknowledgements and the worker keeps its
\* type, whatever producers, operators, crashes and failed writes there are.
THEOREM TypeCorrect == Spec => []TypeOK
<1>1. Base => TypeOK
  BY DEF Base
<1> QED
  BY <1>1, BaseInvariant, PTL

\* requeue_resolved never forks a chain of retries, and never leaves an older
\* record of it undecided, however retries, acknowledgements and the worker
\* interleave.
THEOREM ChainsStay == Spec => []OneLiveSuccessor
<1>1. Base => OneLiveSuccessor
  <2> SUFFICES ASSUME Base, NEW r \in Written
               PROVE  /\ \A s \in Written : parent[r] = parent[s] /\ parent[r] # NoRecord => r = s
                      /\ \A a \in Ancestors(r) : Terminal(a)
    BY DEF OneLiveSuccessor
  <2>1. MaxRecords \in Nat /\ Written \subseteq Records /\ parent \in [1 .. MaxRecords -> 0 .. MaxRecords]
    BY BoundsAssumption DEF Base, TypeOK, Written, Records
  <2>2. \A x \in 1 .. MaxRecords : parent[x] < x
    BY DEF Base, ChainInv, Records
  <2>3. \A s \in Written : parent[r] = parent[s] /\ parent[r] # NoRecord => r = s
    BY <2>1 DEF Base, ChainInv
  <2>4. ASSUME NEW a \in Ancestors(r) PROVE Terminal(a)
    <3>1. a # NoRecord /\ \E x \in 1 .. MaxRecords : parent[x] = a
      BY <2>1, <2>2, <2>4, AncestorIsParent DEF Ancestors, Records
    <3> QED
      BY <3>1 DEF Base, ParentsDecided, Records
  <2> QED
    BY <2>3, <2>4
<1> QED
  BY <1>1, BaseInvariant, PTL

-----------------------------------------------------------------------------
(* What holds when no answer is garbled and every quarantine of an         *)
(* interrupted send is written.                                            *)

Dependable == "garbled" \notin Answers /\ "quarantine" \notin FaultyAcks

\* The reasons of a record that counts as never attempted.
UnattemptedReasons == {"abandoned", "staging_failed", "revoked"}

\* The record in the worker's hand carries its marker, unless the command line
\* overruled it in the meantime, and has reached nobody before its answer is in.
Held(r) ==
  /\ \/ ack[r] = "inflight" /\ why[r] = "delivering"
     \/ Terminal(r) /\ why[r] = "cli" /\ r \in overruled
  /\ r \notin stopped
  /\ reached[r] > 0 => pc = "answered" /\ answer \in MayHaveReached

RecordSafe(r) ==
  /\ stage[r] # "ready" => reached[r] = 0 /\ r \notin todo
  /\ reached[r] > 0 =>
       /\ reached[r] = 1
       /\ \/ ack[r] = "inflight"
          \/ Terminal(r) /\ (r \in overruled \/ (ack[r] # "blocked" /\ ~Retryable(r)))
  /\ why[r] \in UnattemptedReasons \/ r \in stopped => Terminal(r) /\ reached[r] = 0
  /\ r \in todo /\ r # cur => reached[r] = 0 /\ ack[r] # "inflight"
  /\ r = cur /\ pc \in InHand => Held(r)
  /\ pc = "snapshot" => ack[r] # "inflight"

\* What is retried has not arrived.
ParentsUnreached == \A r \in Records : parent[r] # NoRecord => reached[parent[r]] = 0 \/ parent[r] \in overruled

Safe == (\A r \in Records : RecordSafe(r)) /\ ParentsUnreached /\ answer # "garbled"

LEMMA SafeKeeps ==
    ASSUME Base, Safe, UNCHANGED parent, overruled \subseteq overruled',
           \A r \in Records : reached'[r] = reached[r] \/ ~Terminal(r) \/ r \in overruled,
           \A r \in Records : RecordSafe(r)', answer' \in {answer, "none"}
    PROVE  Safe'
<1>1. \A r \in Records : parent[r] # NoRecord => parent[r] \in Records
  BY DEF Base, TypeOK, Records, NoRecord
<1>2. ParentsUnreached'
  BY <1>1 DEF Base, ParentsDecided, Safe, ParentsUnreached
<1> QED
  BY <1>2 DEF Safe

\* The step is not about record x.
LEMMA OtherKeeps ==
    ASSUME NEW x \in Records, RecordSafe(x), reached'[x] = reached[x],
           ack'[x] = ack[x], why'[x] = why[x], stage[x] = "ready" => stage'[x] = "ready",
           x \in todo' => x \in todo, x \in stopped' => x \in stopped, x \in overruled => x \in overruled',
           (x = cur' /\ pc' \in InHand => x = cur /\ pc \in InHand /\ UNCHANGED <<pc, answer>>),
           (x \in todo' /\ x # cur' => x # cur),
           pc' = "snapshot" => pc = "snapshot"
    PROVE  RecordSafe(x)'
BY DEF RecordSafe, Held, Terminal, Retryable

LEMMA SafeInit == Init => Safe
<1> SUFFICES ASSUME Init PROVE Safe
  OBVIOUS
<1>1. \A r \in Records : RecordSafe(r)
  BY DEF Init, RecordSafe, UnattemptedReasons, InHand
<1>2. ParentsUnreached
  BY DEF Init, ParentsUnreached, NoRecord
<1> QED
  BY <1>1, <1>2 DEF Safe, Init

\* Steps that change no acknowledgement and not the worker.
LEMMA StandsSafe ==
    ASSUME Base, Safe, UNCHANGED <<parent, acks, worker, history>>,
           \A r \in Records : stage[r] = "ready" => stage'[r] = "ready"
    PROVE  Safe'
<1>1. \A r \in Records : RecordSafe(r)'
  BY OtherKeeps DEF Safe, acks, worker, history
<1> QED
  BY <1>1, SafeKeeps DEF history, worker

LEMMA ProducerSafe ==
    ASSUME Base, Safe, NEW g \in Replies,
           Publish(g) \/ PublishFails(g) \/ Activate(g) \/ FailingDone(g) \/ ProducerRaises(g) \/ ProducerDies(g)
    PROVE  Safe'
<1>1. UNCHANGED <<parent, acks, worker, history>>
  BY DEF Publish, PublishFails, Activate, FailingDone, ProducerRaises, ProducerDies, outbox
<1>2. \A r \in Records : stage[r] = "ready" => stage'[r] = "ready"
  BY DEF Publish, PublishFails, Activate, FailingDone, ProducerRaises, ProducerDies, outbox
<1> QED
  BY <1>1, <1>2, StandsSafe

LEMMA AppendSafe ==
    ASSUME Base, Safe, NEW g \in Replies \cup {NoReply}, NEW p \in 0 .. MaxRecords,
           NEW c \in {"none", "empty", "full"}, AppendRecord(g, p, c),
           p # NoRecord => reached[p] = 0 \/ p \in overruled,
           UNCHANGED <<acks, worker, history>>
    PROVE  Safe'
<1> DEFINE n == created + 1
<1>1. TypeOK /\ created \in Nat
  BY DEF Base, TypeOK
<1>2. n \in Records /\ parent' = [parent EXCEPT ![n] = p] /\ stage' = [stage EXCEPT ![n] = "staged"]
  BY <1>1, NewRecord
<1>3. stage[n] # "ready"
  BY <1>1, <1>2 DEF Base, FileInv
<1>4. \A r \in Records : stage[r] = "ready" => stage'[r] = "ready"
  BY <1>1, <1>2, <1>3 DEF TypeOK
<1>5. \A r \in Records : RecordSafe(r)'
  BY <1>4, OtherKeeps DEF Safe, acks, worker, history
<1>6. ParentsUnreached'
  BY <1>1, <1>2 DEF Safe, ParentsUnreached, TypeOK, history
<1> QED
  BY <1>5, <1>6 DEF Safe, worker

LEMMA StagePartSafe == ASSUME Base, Safe, NEW g \in Replies, StagePart(g) PROVE Safe'
<1>1. NoRecord \in 0 .. MaxRecords /\ AppendRecord(g, NoRecord, "none")
      /\ UNCHANGED <<acks, worker, history>>
  BY BoundsAssumption DEF StagePart, NoRecord
<1> QED
  BY <1>1, AppendSafe

LEMMA CreateSafe == ASSUME Base, Safe, NEW r \in Records, CreateSuccessor(r) PROVE Safe'
<1> DEFINE last == RetryParent(r)
           c == IF contract[last] = "full" THEN "full" ELSE "none"
<1>1. CanRequeue(r) /\ LiveDescendants(r) = {} /\ AppendRecord(reply[last], last, c)
      /\ UNCHANGED <<acks, worker, history>>
  BY DEF CreateSuccessor
<1>2. last \in Records /\ Terminal(last) /\ Retryable(last)
  BY <1>1, RetryParentIs
<1>3. reply[last] \in Replies \cup {NoReply} /\ last \in 0 .. MaxRecords /\ c \in {"none", "empty", "full"}
  BY <1>2 DEF Base, TypeOK, Records
<1> HIDE DEF last, c
<1>4. reached[last] = 0 \/ last \in overruled
  BY <1>2 DEF Base, TypeOK, Safe, RecordSafe, Terminal, TerminalAcks
<1> QED
  BY <1>1, <1>3, <1>4, AppendSafe

\* A record nobody has acknowledged is decided.
LEMMA QueuedSafe ==
    ASSUME Base, Safe, NEW r \in Records, Queued(r), NEW s \in TerminalAcks, NEW w, Acked(r, s, w),
           UNCHANGED <<outbox, worker, reached, overruled>>, stopped' \subseteq stopped \cup {r}
    PROVE  Safe'
<1>1. RecordSafe(r)'
  BY DEF Base, TypeOK, Safe, RecordSafe, Held, Acked, Queued, Terminal, TerminalAcks, outbox, worker, InHand
<1>2. \A x \in Records \ {r} : RecordSafe(x)'
  BY OtherKeeps DEF Safe, Acked, outbox, worker
<1> QED
  BY <1>1, <1>2, SafeKeeps DEF outbox, worker

LEMMA FailPartSafe == ASSUME Base, Safe, NEW g \in Replies, NEW r \in Records, FailPart(g, r) PROVE Safe'
<1>1. Acked(r, "failed", "staging_failed")
  BY PutAckIs DEF Base, FailPart, AckStatuses, TerminalAcks, Reasons
<1> QED
  BY <1>1, QueuedSafe DEF FailPart, TerminalAcks, history

LEMMA ManualStopSafe ==
    ASSUME Base, Safe, NEW r \in Records, NEW s \in {"sent", "failed"}, ManualStop(r, s)
    PROVE  Safe'
<1>1. Acked(r, s, "manual")
  BY PutAckIs DEF Base, ManualStop, AckStatuses, TerminalAcks, Reasons
<1> QED
  BY <1>1, QueuedSafe DEF ManualStop, TerminalAcks

LEMMA FailSuccessorSafe == ASSUME Base, Safe, NEW n \in Records, FailSuccessor(n) PROVE Safe'
<1>1. CASE Queued(n) /\ PutAck(n, "failed", "staging_failed")
  <2>1. Acked(n, "failed", "staging_failed")
    BY <1>1, PutAckIs DEF Base, AckStatuses, TerminalAcks, Reasons
  <2> QED
    BY <1>1, <2>1, QueuedSafe DEF FailSuccessor, TerminalAcks, history
<1>2. CASE UNCHANGED acks
  BY <1>2, StandsSafe DEF FailSuccessor, outbox
<1> QED
  BY <1>1, <1>2 DEF FailSuccessor

LEMMA CliAckSafe == ASSUME Base, Safe, NEW r \in Records, NEW s \in CliAcks, CliAck(r, s) PROVE Safe'
<1>1. Acked(r, s, "cli") /\ s \in TerminalAcks /\ r \notin overruled /\ overruled' = overruled \cup {r}
      /\ UNCHANGED <<outbox, worker, reached, stopped>>
  BY PutAckIs, CliAcksAssumption DEF Base, CliAck, AckStatuses, Reasons
<1>2. RecordSafe(r)'
  BY <1>1 DEF Base, TypeOK, Safe, RecordSafe, Held, Acked, Terminal, TerminalAcks, outbox, worker,
              InHand, UnattemptedReasons
<1>3. \A x \in Records \ {r} : RecordSafe(x)'
  BY <1>1, OtherKeeps DEF Safe, Acked, outbox, worker
<1> QED
  BY <1>1, <1>2, <1>3, SafeKeeps DEF outbox, worker

LEMMA RetrySafe ==
    ASSUME Base, Safe, NEW n \in Records, ReuseSuccessor(n) \/ ActivateSuccessor(n) \/ RetryDies(n)
    PROVE  Safe'
<1>1. UNCHANGED <<parent, acks, worker, history>>
  BY DEF ReuseSuccessor, ActivateSuccessor, RetryDies, outbox
<1>2. \A r \in Records : stage[r] = "ready" => stage'[r] = "ready"
  BY DEF Base, TypeOK, ReuseSuccessor, ActivateSuccessor, RetryDies, outbox
<1> QED
  BY <1>1, <1>2, StandsSafe

-----------------------------------------------------------------------------
\* The worker is done with r, its current record or the next one.
LEMMA DoneSafe ==
    ASSUME Base, Safe, NEW r \in Records, r \in todo, cur \in {r, NoRecord}, NextRecord(r),
           UNCHANGED <<outbox, history>>, RecordSafe(r)',
           UNCHANGED acks \/ \E s, w : Acked(r, s, w)
    PROVE  Safe'
<1>1. \A x \in Records \ {r} : ack'[x] = ack[x] /\ why'[x] = why[x]
  BY DEF acks, Acked
<1>2. \A x \in Records : x # NoRecord
  BY DEF Records, NoRecord
<1>3. \A x \in Records \ {r} : RecordSafe(x)'
  BY <1>1, <1>2, OtherKeeps DEF Safe, NextRecord, outbox, history, InHand
<1> QED
  BY <1>3, SafeKeeps DEF outbox, history, NextRecord

\* A record that has reached nobody leaves the worker.
LEMMA UnreachedDone ==
    ASSUME Base, Safe, NEW r \in Records, r \in todo, cur \in {r, NoRecord}, reached[r] = 0, NextRecord(r),
           UNCHANGED <<outbox, history>>,
           \/ UNCHANGED acks
           \/ \E s, w : Acked(r, s, w) /\ (w \in UnattemptedReasons => s \in TerminalAcks)
    PROVE  Safe'
<1>1. r # NoRecord
  BY DEF Records, NoRecord
<1>2. CASE UNCHANGED acks
  <2>1. RecordSafe(r)'
    BY <1>1, <1>2 DEF Safe, RecordSafe, NextRecord, InHand, acks, outbox, history, Terminal
  <2> QED
    BY <1>2, <2>1, DoneSafe
<1>3. CASE \E s, w : Acked(r, s, w) /\ (w \in UnattemptedReasons => s \in TerminalAcks)
  <2>1. PICK s, w : Acked(r, s, w) /\ (w \in UnattemptedReasons => s \in TerminalAcks)
    BY <1>3
  <2>2. RecordSafe(r)'
    BY <1>1, <2>1 DEF Safe, RecordSafe, NextRecord, InHand, Acked, outbox, history, Terminal
  <2> QED
    BY <2>1, <2>2, DoneSafe
<1> QED
  BY <1>2, <1>3

LEMMA MissingReceiverSafe ==
    ASSUME Base, Safe, NEW r \in Records, r \in todo, cur \in {r, NoRecord}, reached[r] = 0,
           MissingReceiver(r) \/ Unauthorised(r), UNCHANGED <<outbox, history>>
    PROVE  Safe'
<1>1. TypeOK
  BY DEF Base
<1>2. CASE MissingReceiver(r)
  <2>1. PICK s \in {"retry", "failed"} : WriteAck(r, s, "transient", "terminal")
    BY <1>2, FailOrRetryIs DEF MissingReceiver
  <2>2. s \in AckStatuses /\ "transient" \in Reasons /\ "transient" \notin UnattemptedReasons
    BY DEF AckStatuses, TerminalAcks, ProgressAcks, Reasons, AllAnswers, UnattemptedReasons
  <2>3. Acked(r, s, "transient") \/ UNCHANGED acks
    BY <1>1, <2>1, <2>2, WriteAckIs
  <2> QED
    BY <1>2, <2>2, <2>3, UnreachedDone DEF MissingReceiver
<1>3. CASE Unauthorised(r)
  <2>1. "blocked" \in AckStatuses /\ "blocked" \in TerminalAcks /\ "revoked" \in Reasons
    BY DEF AckStatuses, TerminalAcks, Reasons
  <2>2. Acked(r, "blocked", "revoked") \/ UNCHANGED acks
    BY <1>1, <1>3, <2>1, WriteAckIs DEF Unauthorised
  <2> QED
    BY <1>3, <2>1, <2>2, UnreachedDone DEF Unauthorised
<1> QED
  BY <1>2, <1>3

LEMMA DeliverSafe == ASSUME Base, Safe, Deliver PROVE Safe'
<1> PICK r \in Records : r = Min(todo)
  BY TodoIs DEF Deliver
<1>1. TypeOK /\ r \in Records /\ r \in todo /\ pc = "drain" /\ cur = NoRecord /\ r # NoRecord
  BY TodoIs DEF Base, Deliver, WorkerInv, InHand, Records, NoRecord
<1>2. SkipDisabled(r) \/ MissingReceiver(r) \/ Unauthorised(r) \/ Mark(r)
  BY DEF Deliver
<1>3. UNCHANGED <<outbox, history>>
  BY DEF Deliver
<1>4. reached[r] = 0 /\ ack[r] # "inflight"
  BY <1>1 DEF Safe, RecordSafe
<1>5. CASE SkipDisabled(r)
  BY <1>1, <1>3, <1>4, <1>5, UnreachedDone DEF SkipDisabled
<1>6. CASE MissingReceiver(r) \/ Unauthorised(r)
  BY <1>1, <1>3, <1>4, <1>6, MissingReceiverSafe
<1>7. CASE Mark(r)
  <2>1. Acked(r, "inflight", "delivering") \/ (UNCHANGED acks /\ faults' # faults)
    BY <1>1, <1>7, WriteAckIs DEF Mark, AckStatuses, ProgressAcks, Reasons
  <2>2. CASE NextRecord(r)
    BY <1>1, <1>3, <1>4, <2>1, <2>2, UnreachedDone DEF UnattemptedReasons
  <2>3. CASE ack'[r] = "inflight" /\ faults' = faults
             /\ pc' = "marked" /\ cur' = r /\ attempt' = 1 /\ UNCHANGED <<todo, answer>>
    <3>1. Acked(r, "inflight", "delivering") /\ why'[r] = "delivering" /\ ~Terminal(r)
      BY <1>4, <2>1, <2>3 DEF Acked, TerminalAcks
    <3>2. RecordSafe(r)'
      BY <1>1, <1>3, <1>4, <2>3, <3>1 DEF Safe, RecordSafe, Held, InHand, outbox, history, UnattemptedReasons, MayHaveReached
    <3>3. \A x \in Records \ {r} : RecordSafe(x)'
      BY <1>1, <1>3, <2>3, <3>1, OtherKeeps DEF Safe, Acked, outbox, history, Records, NoRecord
    <3> QED
      BY <1>3, <2>3, <3>2, <3>3, SafeKeeps DEF outbox, history
  <2> QED
    BY <1>7, <2>2, <2>3 DEF Mark
<1> QED
  BY <1>2, <1>5, <1>6, <1>7

LEMMA RecheckSafe == ASSUME Base, Safe, Recheck PROVE Safe'
<1>1. TypeOK /\ cur \in Records /\ cur \in todo /\ pc = "marked"
  BY TodoIs DEF Base, Recheck, InHand
<1>2. UNCHANGED <<outbox, history>>
  BY DEF Recheck
<1>3. Held(cur) /\ reached[cur] = 0
  BY <1>1 DEF Base, TypeOK, Safe, RecordSafe, Held, InHand
<1>4. CASE gate = "disabled" /\ WriteAck(cur, "retry", "config", "terminal") /\ NextRecord(cur)
  <2>1. Acked(cur, "retry", "config") \/ UNCHANGED acks
    BY <1>1, <1>4, WriteAckIs DEF AckStatuses, ProgressAcks, Reasons
  <2> QED
    BY <1>1, <1>2, <1>3, <1>4, <2>1, UnreachedDone DEF UnattemptedReasons
<1>5. CASE MissingReceiver(cur) \/ Unauthorised(cur)
  BY <1>1, <1>2, <1>3, <1>5, MissingReceiverSafe
<1>6. CASE NextRecord(cur) /\ UNCHANGED <<acks, faults>>
  BY <1>1, <1>2, <1>3, <1>6, UnreachedDone
<1>7. CASE pc' = "cleared" /\ UNCHANGED <<acks, faults, todo, cur, attempt, answer>>
  <2>1. RecordSafe(cur)'
    BY <1>1, <1>2, <1>3, <1>7 DEF Safe, RecordSafe, Held, InHand, outbox, history, acks, Terminal, Retryable
  <2>2. \A x \in Records \ {cur} : RecordSafe(x)'
    BY <1>2, <1>7, OtherKeeps DEF Safe, acks, outbox, history
  <2> QED
    BY <1>2, <1>7, <2>1, <2>2, SafeKeeps DEF outbox, history
<1> QED
  BY <1>4, <1>5, <1>6, <1>7 DEF Recheck

LEMMA FileGoneSafe == ASSUME Base, Safe, FileGone PROVE Safe'
<1>1. TypeOK /\ cur \in Records /\ cur \in todo /\ pc = "cleared"
  BY TodoIs DEF Base, FileGone, InHand
<1>2. reached[cur] = 0
  BY <1>1 DEF Base, TypeOK, Safe, RecordSafe, Held, InHand
<1>3. Acked(cur, "failed", "permanent") \/ UNCHANGED acks
  BY <1>1, WriteAckIs DEF FileGone, AckStatuses, TerminalAcks, Reasons, AllAnswers
<1> QED
  BY <1>1, <1>2, <1>3, UnreachedDone DEF FileGone, UnattemptedReasons

\* The message of the current record may reach WeChat: with its answer, or
\* when the worker dies before it.
LEMMA ReachedOnce ==
    ASSUME Base, Safe, pc = "cleared"
    PROVE  /\ cur \in Records /\ cur \in todo /\ Held(cur) /\ reached[cur] = 0 /\ stage[cur] = "ready"
           /\ why[cur] \notin UnattemptedReasons
           /\ ack[cur] = "inflight" \/ (Terminal(cur) /\ cur \in overruled)
<1>1. cur \in Records /\ cur \in todo
  BY TodoIs DEF InHand
<1>2. RecordSafe(cur)
  BY <1>1 DEF Safe
<1> QED
  BY <1>1, <1>2 DEF Base, TypeOK, RecordSafe, Held, InHand, UnattemptedReasons

LEMMA SendSafe == ASSUME Dependable, Base, Safe, Send PROVE Safe'
<1>1. PICK a \in Answers : /\ answer' = a
                           /\ reached' = [reached EXCEPT ![cur] = IF a \in MayHaveReached THEN @ + 1 ELSE @]
  BY DEF Send
<1>2. /\ pc = "cleared" /\ pc' = "answered" /\ a # "garbled"
      /\ UNCHANGED <<outbox, acks, people, todo, cur, attempt, crashes, faults, stopped, overruled>>
  BY DEF Send, Dependable
<1>3. /\ cur \in Records /\ cur \in todo /\ Held(cur) /\ reached[cur] = 0 /\ stage[cur] = "ready"
      /\ why[cur] \notin UnattemptedReasons
      /\ ack[cur] = "inflight" \/ (Terminal(cur) /\ cur \in overruled)
  BY <1>2, ReachedOnce
<1>4. /\ reached'[cur] = IF a \in MayHaveReached THEN 1 ELSE 0
      /\ \A x \in Records \ {cur} : reached'[x] = reached[x]
  BY <1>1, <1>3 DEF Base, TypeOK
<1>5. RecordSafe(cur)'
  BY <1>1, <1>2, <1>3, <1>4 DEF RecordSafe, Held, InHand, outbox, acks, Terminal, UnattemptedReasons
<1>6. \A x \in Records \ {cur} : RecordSafe(x)'
  BY <1>2, <1>4, OtherKeeps DEF Safe, outbox, acks
<1>7. ParentsUnreached'
  <2>1. \A r \in Records : reached'[r] = reached[r] \/ ~Terminal(r) \/ r \in overruled
    BY <1>3, <1>4 DEF Terminal, TerminalAcks
  <2>2. \A r \in Records : parent[r] # NoRecord => parent[r] \in Records
    BY DEF Base, TypeOK, Records, NoRecord
  <2> QED
    BY <1>2, <2>1, <2>2 DEF Base, ParentsDecided, Safe, ParentsUnreached, outbox
<1> QED
  BY <1>1, <1>2, <1>5, <1>6, <1>7 DEF Safe

LEMMA HandleAnswerSafe == ASSUME Base, Safe, HandleAnswer PROVE Safe'
<1>1. TypeOK /\ cur \in Records /\ cur \in todo /\ pc = "answered"
  BY TodoIs DEF Base, HandleAnswer, InHand
<1>2. UNCHANGED <<outbox, history>>
  BY DEF HandleAnswer
<1>3. Held(cur) /\ RecordSafe(cur)
  BY <1>1 DEF Safe, RecordSafe, InHand
<1>4. reached[cur] \in Nat
  BY <1>1 DEF TypeOK
<1>5. ASSUME NEW s \in TerminalAcks, NEW w \in Reasons, Finish(s, w), s # "blocked", w = answer,
             s = "failed" => w \in FinalReasons
      PROVE  Safe'
  <2> PICK r \in Records : r = cur
    BY <1>1
  <2>1. NextRecord(r) /\ (Acked(r, s, w) \/ UNCHANGED acks)
    BY <1>1, <1>5, WriteAckIs DEF Finish, AckStatuses
  <2>2. Held(r) /\ RecordSafe(r) /\ reached[r] \in Nat /\ r \in todo /\ r # NoRecord
    BY <1>1, <1>3, <1>4 DEF Records, NoRecord
  <2>3. CASE UNCHANGED acks
    <3>1. RecordSafe(r)'
      BY <1>1, <1>2, <2>1, <2>2, <2>3
         DEF RecordSafe, Held, NextRecord, InHand, acks, outbox, history, Terminal, UnattemptedReasons, Retryable
    <3> QED
      BY <1>1, <1>2, <2>1, <2>2, <2>3, <3>1, DoneSafe
  <2>4. CASE Acked(r, s, w)
    <3>1. RecordSafe(r)'
      BY <1>1, <1>2, <1>5, <2>1, <2>2, <2>4
         DEF RecordSafe, Held, NextRecord, InHand, Acked, outbox, history, Terminal, UnattemptedReasons,
             Retryable, MayHaveReached, FinalReasons, TerminalAcks
    <3> QED
      BY <1>1, <1>2, <2>1, <2>2, <2>4, <3>1, DoneSafe
  <2> QED
    BY <2>1, <2>3, <2>4
<1>6. CASE answer \in {"verified", "dry_run"} /\ Finish("sent", answer)
  BY <1>5, <1>6 DEF TerminalAcks, Reasons, AllAnswers
<1>7. CASE answer = "accepted" /\ Finish("accepted", "accepted")
  BY <1>5, <1>7 DEF TerminalAcks, Reasons, AllAnswers
<1>8. CASE answer \in {"unknown", "permanent", "exception"} \ TriedAgain /\ Finish("failed", answer)
  BY <1>5, <1>8 DEF TerminalAcks, Reasons, AllAnswers, FinalReasons
<1>9. answer \in TriedAgain => reached[cur] = 0
  BY <1>3, <1>4 DEF Safe, Held, TriedAgain, MayHaveReached
<1>10. CASE /\ answer \in TriedAgain /\ AttemptLeft
            /\ attempt' = attempt + 1 /\ pc' = "marked" /\ answer' = "none"
            /\ UNCHANGED <<acks, faults, todo, cur>>
  <2>1. RecordSafe(cur)'
    BY <1>1, <1>2, <1>3, <1>9, <1>10
       DEF RecordSafe, Held, InHand, outbox, history, acks, Terminal, Retryable
  <2>2. \A x \in Records \ {cur} : RecordSafe(x)'
    BY <1>2, <1>10, OtherKeeps DEF Safe, acks, outbox, history
  <2> QED
    BY <1>2, <1>10, <2>1, <2>2, SafeKeeps DEF outbox, history
<1>11. CASE answer \in TriedAgain /\ ~AttemptLeft /\ FailOrRetry(cur, answer) /\ NextRecord(cur)
  <2>1. PICK s \in {"retry", "failed"} : WriteAck(cur, s, answer, "terminal")
    BY <1>11, FailOrRetryIs
  <2>2. s \in AckStatuses /\ answer \in Reasons /\ answer \notin UnattemptedReasons
    BY <1>11 DEF AckStatuses, TerminalAcks, ProgressAcks, Reasons, AllAnswers, TriedAgain, UnattemptedReasons
  <2>3. Acked(cur, s, answer) \/ UNCHANGED acks
    BY <1>1, <2>1, <2>2, WriteAckIs
  <2> QED
    BY <1>1, <1>2, <1>9, <1>11, <2>2, <2>3, UnreachedDone
<1> QED
  BY <1>6, <1>7, <1>8, <1>10, <1>11 DEF HandleAnswer

LEMMA QuarantineAbandonedSafe == ASSUME Base, Safe, QuarantineAbandoned PROVE Safe'
<1>1. PICK done \in SUBSET Abandoned :
       /\ ack' = [r \in Records |-> IF r \in done THEN "failed" ELSE ack[r]]
       /\ why' = [r \in Records |-> IF r \in done THEN "abandoned" ELSE why[r]]
  BY DEF QuarantineAbandoned
<1>2. /\ pc = "idle" /\ pc' = "verify"
      /\ UNCHANGED <<parent, stage, todo, cur, answer, history>>
  BY DEF QuarantineAbandoned
<1>3. ASSUME NEW r \in Records PROVE RecordSafe(r)'
  <2>1. CASE r \in done
    <3>1. stage[r] = "staged" /\ ack'[r] = "failed" /\ why'[r] = "abandoned"
      BY <1>1, <2>1 DEF Abandoned
    <3>2. reached[r] = 0 /\ r \notin todo
      BY <3>1 DEF Safe, RecordSafe
    <3> QED
      BY <1>2, <3>1, <3>2 DEF RecordSafe, InHand, history, Terminal, TerminalAcks
  <2>2. CASE r \notin done
    BY <1>1, <1>2, <2>2, OtherKeeps DEF Safe, history, InHand
  <2> QED
    BY <2>1, <2>2
<1> QED
  BY <1>2, <1>3, SafeKeeps DEF history

LEMMA VerifyAcceptedSafe == ASSUME Base, Safe, VerifyAccepted PROVE Safe'
<1>1. PICK proved \in SUBSET { r \in Written : ack[r] = "accepted" } :
       /\ ack' = [r \in Records |-> IF r \in proved THEN "sent" ELSE ack[r]]
       /\ why' = [r \in Records |-> IF r \in proved THEN "verified" ELSE why[r]]
  BY DEF VerifyAccepted
<1>2. /\ pc = "verify" /\ pc' = "quarantine"
      /\ UNCHANGED <<outbox, todo, cur, answer, history>>
  BY DEF VerifyAccepted
<1>3. ASSUME NEW r \in Records PROVE RecordSafe(r)'
  <2>1. CASE r \in proved
    <3>1. ack[r] = "accepted" /\ ack'[r] = "sent" /\ why'[r] = "verified"
      BY <1>1, <2>1
    <3> QED
      BY <1>2, <3>1 DEF Safe, RecordSafe, InHand, outbox, history, Terminal, TerminalAcks, Retryable,
                        UnattemptedReasons
  <2>2. CASE r \notin proved
    BY <1>1, <1>2, <2>2, OtherKeeps DEF Safe, outbox, history, InHand
  <2> QED
    BY <2>1, <2>2
<1> QED
  BY <1>2, <1>3, SafeKeeps DEF outbox, history

LEMMA QuarantineInterruptedSafe == ASSUME Dependable, Base, Safe, QuarantineInterrupted PROVE Safe'
<1>1. /\ ack' = [r \in Records |-> IF r \in Interrupted THEN "failed" ELSE ack[r]]
      /\ why' = [r \in Records |-> IF r \in Interrupted THEN "possible_duplicate" ELSE why[r]]
  <2>1. PICK lost \in SUBSET Interrupted :
         /\ lost # {} => "quarantine" \in FaultyAcks
         /\ ack' = [r \in Records |-> IF r \in Interrupted \ lost THEN "failed" ELSE ack[r]]
         /\ why' = [r \in Records |-> IF r \in Interrupted \ lost THEN "possible_duplicate" ELSE why[r]]
    BY DEF QuarantineInterrupted
  <2>2. lost = {}
    BY <2>1 DEF Dependable
  <2> QED
    BY <2>1, <2>2
<1>2. /\ pc = "quarantine" /\ pc' = "snapshot"
      /\ UNCHANGED <<outbox, todo, cur, answer, history>>
  BY DEF QuarantineInterrupted
<1>3. ASSUME NEW r \in Records PROVE RecordSafe(r)'
  <2>1. CASE r \in Interrupted
    <3>1. ack[r] = "inflight" /\ ack'[r] = "failed" /\ why'[r] = "possible_duplicate"
      BY <1>1, <2>1 DEF Interrupted
    <3> QED
      BY <1>2, <3>1 DEF Safe, RecordSafe, InHand, outbox, history, Terminal, TerminalAcks, Retryable,
                        UnattemptedReasons, FinalReasons
  <2>2. CASE r \notin Interrupted
    <3>1. ack[r] # "inflight"
      BY <2>2 DEF Interrupted, Base, FileInv, TypeOK, Written, Records
    <3> QED
      BY <1>1, <1>2, <2>2, <3>1 DEF Safe, RecordSafe, InHand, outbox, history, Terminal, Retryable
  <2> QED
    BY <2>1, <2>2
<1> QED
  BY <1>2, <1>3, SafeKeeps DEF outbox, history

\* pending_records leaves out everything that may have arrived.
LEMMA SnapshotSafe == ASSUME Base, Safe, Snapshot PROVE Safe'
<1>1. /\ todo' = { r \in Written : stage[r] = "ready" /\ ~Terminal(r) }
      /\ pc = "snapshot" /\ pc' \in {"idle", "drain"} /\ cur = NoRecord
      /\ UNCHANGED <<outbox, acks, cur, answer, history>>
  BY DEF Snapshot, Base, WorkerInv, InHand
<1>2. \A r \in Records : reached[r] \in Nat
  BY DEF Base, TypeOK
<1>3. \A r \in Records : RecordSafe(r)'
  BY <1>1, <1>2 DEF Safe, RecordSafe, InHand, outbox, acks, history, Terminal, Retryable
<1> QED
  BY <1>1, <1>3, SafeKeeps DEF outbox, history

LEMMA StopSafe == ASSUME Base, Safe, LoopLeaves \/ Restart PROVE Safe'
<1>1. /\ UNCHANGED <<outbox, acks, history>> /\ todo' \subseteq todo /\ pc' \in {"down", "idle"}
      /\ answer' \in {answer, "none"} /\ (cur' = cur \/ todo' = {})
  BY DEF LoopLeaves, Restart, StopWorker
<1>2. \A r \in Records : RecordSafe(r)'
  BY <1>1, OtherKeeps DEF Safe, outbox, acks, history, InHand
<1> QED
  BY <1>1, <1>2, SafeKeeps DEF outbox, history

LEMMA CrashSafe == ASSUME Base, Safe, Crash PROVE Safe'
<1>1. /\ todo' = {} /\ answer' = "none" /\ pc' = "down"
      /\ UNCHANGED <<parent, stage, acks, stopped, overruled>>
  BY DEF Crash, StopWorker
<1>2. CASE UNCHANGED reached
  <2>1. \A r \in Records : RecordSafe(r)'
    BY <1>1, <1>2, OtherKeeps DEF Safe, acks, InHand
  <2> QED
    BY <1>1, <1>2, <2>1, SafeKeeps
<1>3. CASE pc = "cleared" /\ reached' = [reached EXCEPT ![cur] = @ + 1]
  <2> PICK c \in Records : c = cur
    BY <1>3, ReachedOnce
  <2>1. /\ Held(c) /\ RecordSafe(c) /\ reached[c] = 0 /\ stage[c] = "ready" /\ why[c] \notin UnattemptedReasons
        /\ ack[c] = "inflight" \/ (Terminal(c) /\ c \in overruled)
    BY <1>3, ReachedOnce DEF Safe
  <2>2. reached'[c] = 1 /\ \A x \in Records \ {c} : reached'[x] = reached[x]
    BY <1>3, <2>1 DEF Base, TypeOK
  <2>3. RecordSafe(c)'
    BY <1>1, <2>1, <2>2 DEF RecordSafe, Held, InHand, acks, Terminal
  <2>4. \A x \in Records \ {c} : RecordSafe(x)'
    BY <1>1, <2>2, OtherKeeps DEF Safe, acks, InHand
  <2> QED
    BY <1>1, <2>1, <2>2, <2>3, <2>4, SafeKeeps DEF Terminal, TerminalAcks
<1> QED
  BY <1>2, <1>3 DEF Crash

-----------------------------------------------------------------------------
LEMMA SafeStep == ASSUME Dependable PROVE Base /\ Safe /\ [Next]_vars => Safe'
<1> SUFFICES ASSUME Base, Safe, [Next]_vars PROVE Safe'
  OBVIOUS
<1>1. ASSUME NEW g \in Replies, ProducerStep(g) PROVE Safe'
  BY <1>1, StagePartSafe, ProducerSafe, FailPartSafe DEF ProducerStep
<1>2. CASE OperatorStep
  <2>1. ASSUME NEW to \in Gates, SetGate(to) PROVE Safe'
    <3>1. UNCHANGED <<parent, acks, worker, history>> /\ UNCHANGED stage
      BY <2>1 DEF SetGate, outbox
    <3> QED
      BY <3>1, StandsSafe
  <2> QED
    BY <1>2, <2>1, ManualStopSafe, CliAckSafe, RetrySafe, CreateSafe, FailSuccessorSafe DEF OperatorStep
<1>3. CASE WorkerStep
  BY <1>3, QuarantineAbandonedSafe, VerifyAcceptedSafe, QuarantineInterruptedSafe, SnapshotSafe,
     DeliverSafe, RecheckSafe, FileGoneSafe, SendSafe, HandleAnswerSafe, StopSafe DEF WorkerStep
<1>4. CASE Crash
  BY <1>4, CrashSafe
<1>5. CASE UNCHANGED vars
  BY <1>5, StandsSafe DEF vars, outbox
<1> QED
  BY <1>1, <1>2, <1>3, <1>4, <1>5 DEF Next

\* While no answer is garbled and every quarantine is written, each record has
\* reached somebody only if it is on record that it may have, at every place of
\* the worker.
THEOREM SafeInvariant == ASSUME Dependable PROVE Spec => [](Base /\ Safe)
<1>1. Init => Base /\ Safe
  BY BaseInit, SafeInit
<1>2. Base /\ Safe /\ [Next]_vars => (Base /\ Safe)'
  BY BaseStep, SafeStep
<1> QED
  BY <1>1, <1>2, PTL DEF Spec

\* While the backend garbles no answer and every quarantine is written, a part
\* reaches WeChat at most once over all its retries, through crashes, lost
\* acknowledgements and whatever operators do.
THEOREM SentAtMostOnce == ASSUME Dependable PROVE Spec => []AtMostOnce
<1>1. Base /\ Safe => AtMostOnce
  <2> SUFFICES ASSUME Base, Safe, NEW r \in Written, ~Overruled(r)
               PROVE  /\ reached[r] <= 1
                      /\ \A s \in Ancestors(r) : reached[r] = 0 \/ reached[s] = 0
    BY DEF AtMostOnce
  <2>1. MaxRecords \in Nat /\ r \in Records /\ parent \in [1 .. MaxRecords -> 0 .. MaxRecords]
        /\ reached[r] \in Nat
    BY BoundsAssumption DEF Base, TypeOK, Written, Records
  <2>2. \A x \in 1 .. MaxRecords : parent[x] < x
    BY DEF Base, ChainInv, Records
  <2>3. reached[r] <= 1
    BY <2>1 DEF Safe, RecordSafe
  <2>4. ASSUME NEW s \in Ancestors(r) PROVE reached[s] = 0
    <3>1. s # NoRecord /\ \E x \in 1 .. MaxRecords : parent[x] = s
      BY <2>1, <2>2, <2>4, AncestorIsParent DEF Ancestors, Records
    <3>2. s \notin overruled
      BY <2>4 DEF Overruled, Lineage
    <3> QED
      BY <3>1, <3>2 DEF Safe, ParentsUnreached, Records
  <2> QED
    BY <2>3, <2>4
<1> QED
  BY <1>1, SafeInvariant, PTL

\* Under the same conditions a message that may have arrived is on record at
\* every moment: marked, delivered, or failed for good.
THEOREM RiskStays == ASSUME Dependable PROVE Spec => []RiskOnRecord
<1>1. Base /\ Safe => RiskOnRecord
  BY BoundsAssumption
     DEF Base, TypeOK, Safe, RecordSafe, RiskOnRecord, Terminal, TerminalAcks, Written, Records
<1> QED
  BY <1>1, SafeInvariant, PTL

\* Under the same conditions what the bridge reports as never attempted - staged
\* records that were abandoned or failed, records blocked before a send, and
\* records the operator stopped in time - has reached nobody.
THEOREM UnattemptedStays == ASSUME Dependable PROVE Spec => []NeverAttempted
<1>1. Base /\ Safe => NeverAttempted
  BY BoundsAssumption
     DEF Base, TypeOK, Safe, RecordSafe, NeverAttempted, UnattemptedReasons, Written, Records
<1> QED
  BY <1>1, SafeInvariant, PTL
====
