-------------------------- MODULE ModelCalls_proofs --------------------------
(***************************************************************************)
(* No budget of the gates is exceeded and nothing leaks, for any calls,    *)
(* clients, processes and keys.  The invariant says who holds what: the    *)
(* permits in use are counted by the calls that hold them (PermitInv), the *)
(* calls through a gate have a locked file each, below their limit         *)
(* (SlotInv), and a key's semaphores are used by its requests (KeyInv).    *)
(* What a call holds follows from where it is (Passed, Holds), so that     *)
(* every way out of a gate has to give back what the way in took.          *)
(***************************************************************************)
EXTENDS ModelCalls, FiniteSetTheorems, WellFoundedInduction, TLAPS

-----------------------------------------------------------------------------
(* Numbers. *)

\* Every set of naturals with a member has a least one.
LEMMA LeastNatural ==
    ASSUME NEW S \in SUBSET Nat, S # {}
    PROVE  \E n \in S : \A m \in S : n <= m
<1> DEFINE R == OpToRel(<, Nat)
<1>1. \E x \in S : \A y \in S : <<y, x>> \notin R
  <2> HIDE DEF R
  <2>1. IsWellFoundedOn(R, Nat)
    BY NatLessThanWellFounded DEF R
  <2> QED
    BY <2>1, WFMin
<1>2. PICK x \in S : \A y \in S : <<y, x>> \notin R
  BY <1>1
<1>3. \A y \in S : ~(y < x)
  BY <1>2 DEF OpToRel
<1> QED
  BY <1>3

LEMMA MinIs ==
    ASSUME NEW S \in SUBSET Nat, S # {}
    PROVE  Min(S) \in S
BY LeastNatural DEF Min

LEMMA AtLeastOne ==
    ASSUME NEW x \in Int
    PROVE  Max({1, x}) = IF x > 1 THEN x ELSE 1
<1> DEFINE m == IF x > 1 THEN x ELSE 1
           IsMax(y) == y \in {1, x} /\ \A z \in {1, x} : y >= z
<1>1. IsMax(m) /\ \A y \in {1, x} : IsMax(y) => y = m
  OBVIOUS
<1>2. Max({1, x}) = CHOOSE y \in {1, x} : \A z \in {1, x} : y >= z
  BY DEF Max
<1>3. IsMax(Max({1, x}))
  BY <1>1, <1>2
<1> QED
  BY <1>1, <1>3

LEMMA LesserOf ==
    ASSUME NEW x \in Nat, NEW y \in Nat
    PROVE  Min({x, y}) = IF x <= y THEN x ELSE y
<1>1. Min({x, y}) \in {x, y}
  BY MinIs
<1>2. Min({x, y}) = CHOOSE z \in {x, y} : \A w \in {x, y} : z <= w
  BY DEF Min
<1>3. \E z \in {x, y} : \A w \in {x, y} : z <= w
  OBVIOUS
<1>4. \A w \in {x, y} : Min({x, y}) <= w
  BY <1>2, <1>3
<1> QED
  BY <1>1, <1>4

LEMMA RefsType ==
  /\ Len(Refs) \in Nat \ {0} /\ Refs \in [1..Len(Refs) -> Keys]
  /\ MaxLimit \in Nat \ {0} /\ KeyLimits \subseteq Nat \ {0}
  /\ Keys = { Refs[n] : n \in 1..Len(Refs) }
<1>1. Refs \in Seq(Keys) /\ Refs # <<>> /\ MaxLimit \in Nat \ {0}
  BY KeysAssumption, BoundsAssumption
<1>2. Len(Refs) \in Nat /\ Len(Refs) # 0 /\ Refs \in [1..Len(Refs) -> Keys]
  BY <1>1
<1>3. DOMAIN Refs = 1..Len(Refs)
  BY <1>2
<1>4. Keys = { Refs[n] : n \in 1..Len(Refs) }
  BY <1>3 DEF Keys, Range
<1> QED
  BY <1>1, <1>2, <1>4 DEF KeyLimits

LEMMA OneMore ==
    ASSUME NEW n \in Nat \ {0}, NEW m \in Nat
    PROVE  (n - 1) * m + m = n * m
OBVIOUS

LEMMA MoreTimes ==
    ASSUME NEW n \in Nat, NEW m \in Nat \ {0}
    PROVE  n * m \in Nat /\ n * m >= n
OBVIOUS

\* f adds the limits of the keys in the order of the pool.
Sums(limits, f) ==
  f = [n \in 0..Len(Refs) |-> IF n = 0 THEN 0 ELSE f[n - 1] + limits[Refs[n]]]

\* The first n steps of such an f.
Begins(limits, n, f) ==
  /\ f \in [0..n -> Nat] /\ f[0] = 0
  /\ \A i \in 1..n : f[i] = f[i - 1] + limits[Refs[i]]

LEMMA SumsExist ==
    ASSUME NEW limits \in [Keys -> KeyLimits]
    PROVE  \E f : Sums(limits, f)
<1> DEFINE Bad == { n \in 0..Len(Refs) : ~(\E f : Begins(limits, n, f)) }
<1>0. Len(Refs) \in Nat \ {0} /\ Refs \in [1..Len(Refs) -> Keys] /\ KeyLimits \subseteq Nat
  BY RefsType
<1>1. Bad = {}
  <2> SUFFICES ASSUME Bad # {} PROVE FALSE
    OBVIOUS
  <2>1. Bad \in SUBSET Nat
    BY <1>0
  <2>2. PICK n \in Bad : \A m \in Bad : n <= m
    BY <2>1, LeastNatural
  <2>3. n \in 0..Len(Refs) /\ ~(\E f : Begins(limits, n, f))
    OBVIOUS
  <2>4. n # 0
    <3>1. Begins(limits, 0, [i \in 0..0 |-> 0])
      BY DEF Begins
    <3> QED
      BY <3>1, <2>3
  <2>5. n - 1 \in 0..Len(Refs) /\ n - 1 \notin Bad /\ n \in 1..Len(Refs)
    BY <2>2, <2>3, <2>4, <1>0, SMTT(30)
  <2>6. PICK f : Begins(limits, n - 1, f)
    BY <2>5
  <2> DEFINE h == [i \in 0..n |-> IF i = n THEN f[n - 1] + limits[Refs[n]] ELSE f[i]]
  <2>7. limits[Refs[n]] \in Nat /\ f[n - 1] \in Nat
    <3>1. Refs[n] \in Keys
      BY <1>0, <2>5
    <3>2. limits[Refs[n]] \in Nat
      BY <3>1, <1>0
    <3>3. f \in [0..(n - 1) -> Nat] /\ n - 1 \in 0..(n - 1)
      BY <2>5, <2>6, <1>0 DEF Begins
    <3> QED
      BY <3>2, <3>3
  <2>8. h \in [0..n -> Nat] /\ h[0] = 0
    BY <2>6, <2>7, <2>5, <2>3, <1>0 DEF Begins
  <2>9. \A i \in 1..n : h[i] = h[i - 1] + limits[Refs[i]]
    <3> TAKE i \in 1..n
    <3>1. i - 1 \in 0..n /\ i - 1 # n /\ i \in 0..n
      BY <2>3, <1>0
    <3>2. CASE i = n
      BY <3>1, <3>2
    <3>3. CASE i # n
      <4>1. i \in 1..(n - 1)
        BY <3>3, <2>3, <1>0
      <4> QED
        BY <3>1, <3>3, <4>1, <2>6 DEF Begins
    <3> QED
      BY <3>2, <3>3
  <2>10. Begins(limits, n, h)
    <3> HIDE DEF h
    <3> QED
      BY <2>8, <2>9 DEF Begins
  <2> QED
    BY <2>3, <2>10
<1>2. PICK f : Begins(limits, Len(Refs), f)
  BY <1>1, <1>0
<1> DEFINE h == [n \in 0..Len(Refs) |-> IF n = 0 THEN 0 ELSE f[n - 1] + limits[Refs[n]]]
<1>3. f = h
  <2>1. f \in [0..Len(Refs) -> Nat] /\ h \in [0..Len(Refs) -> Nat]
    <3>1. \A n \in 0..Len(Refs) : n # 0 => f[n - 1] \in Nat /\ limits[Refs[n]] \in Nat
      <4> TAKE n \in 0..Len(Refs)
      <4> HAVE n # 0
      <4>1. n - 1 \in 0..Len(Refs) /\ n \in 1..Len(Refs)
        BY <1>0
      <4>2. Refs[n] \in Keys /\ f \in [0..Len(Refs) -> Nat]
        BY <4>1, <1>0, <1>2 DEF Begins
      <4>3. limits[Refs[n]] \in Nat
        BY <4>2, <1>0
      <4> QED
        BY <4>1, <4>2, <4>3
    <3> QED
      BY <3>1, <1>2 DEF Begins
  <2>2. \A n \in 0..Len(Refs) : f[n] = h[n]
    BY <1>2, <1>0 DEF Begins
  <2> HIDE DEF h
  <2> QED
    BY <2>1, <2>2
<1>4. Sums(limits, f)
  BY <1>3 DEF Sums
<1> QED
  BY <1>4

\* No sum of n limits exceeds n times the highest, nor is it less than n.
LEMMA SumsBounded ==
    ASSUME NEW limits \in [Keys -> KeyLimits], NEW f, Sums(limits, f)
    PROVE  f[Len(Refs)] \in 1..MaxTotal
<1> DEFINE In(n) == f[n] \in Nat /\ n <= f[n] /\ f[n] <= n * MaxLimit
           Bad == { n \in 0..Len(Refs) : ~In(n) }
<1>0. /\ Len(Refs) \in Nat \ {0} /\ Refs \in [1..Len(Refs) -> Keys] /\ KeyLimits = 1..MaxLimit
      /\ MaxLimit \in Nat \ {0}
  BY RefsType DEF KeyLimits
<1>1. f[0] = 0 /\ \A n \in 1..Len(Refs) : f[n] = f[n - 1] + limits[Refs[n]]
  BY <1>0 DEF Sums
<1>2. Bad = {}
  <2> SUFFICES ASSUME Bad # {} PROVE FALSE
    OBVIOUS
  <2>1. Bad \in SUBSET Nat
    BY <1>0
  <2>2. PICK n \in Bad : \A m \in Bad : n <= m
    BY <2>1, LeastNatural
  <2>3. n \in 0..Len(Refs) /\ ~In(n)
    OBVIOUS
  <2>4. n # 0
    <3>1. In(0)
      BY <1>0, <1>1
    <3> QED
      BY <3>1, <2>3
  <2>5. n - 1 \in 0..Len(Refs) /\ n - 1 \notin Bad /\ n \in 1..Len(Refs) /\ n \in Nat \ {0}
    BY <2>2, <2>3, <2>4, <1>0
  <2>6. In(n - 1)
    BY <2>5
  <2>7. f[n] = f[n - 1] + limits[Refs[n]] /\ limits[Refs[n]] \in 1..MaxLimit
    BY <1>0, <1>1, <2>5
  <2>8. (n - 1) * MaxLimit + MaxLimit = n * MaxLimit
    BY <2>5, <1>0, OneMore
  <2>9. (n - 1) * MaxLimit \in Nat /\ n * MaxLimit \in Nat
    BY <2>5, <1>0, MoreTimes
  <2>10. In(n)
    <3> DEFINE a == (n - 1) * MaxLimit
               b == n * MaxLimit
               y == limits[Refs[n]]
    <3>1. a \in Nat /\ b \in Nat /\ a + MaxLimit = b /\ y \in 1..MaxLimit
      BY <2>7, <2>8, <2>9
    <3>2. f[n - 1] \in Nat /\ n - 1 <= f[n - 1] /\ f[n - 1] <= a /\ f[n] = f[n - 1] + y
      BY <2>6, <2>7
    <3>3. f[n] \in Nat /\ n <= f[n] /\ f[n] <= b
      <4> HIDE DEF a, b, y
      <4> QED
        BY <3>1, <3>2, <2>5, <1>0, SMTT(30)
    <3> QED
      BY <3>3
  <2> QED
    BY <2>3, <2>10
<1>3. In(Len(Refs))
  BY <1>2, <1>0
<1>4. MaxTotal \in Nat
  BY <1>0, MoreTimes DEF MaxTotal
<1> QED
  BY <1>3, <1>0, <1>4 DEF MaxTotal

LEMMA TotalIs ==
    ASSUME keyLimit \in [Keys -> KeyLimits]
    PROVE  Total \in 1..MaxTotal
<1> DEFINE sum == CHOOSE f : Sums(keyLimit, f)
<1>1. Sums(keyLimit, sum)
  BY SumsExist
<1>2. Total = sum[Len(Refs)]
  BY DEF Total, Sums
<1> QED
  BY <1>1, <1>2, SumsBounded

\* Every limit is at least one and at most the total.
LEMMA LimitsAre ==
    ASSUME NEW total \in 1..MaxTotal, NEW g \in Gates
    PROVE  Limits[total][g] \in 1..total
<1>0. MaxTotal \in Nat /\ total \in Nat /\ total >= 1 /\ total \in 0..MaxTotal
  BY RefsType, MoreTimes DEF MaxTotal
<1> DEFINE given == Min({total, ShareOf[total]})
           share == Max({1, given})
<1>1. ShareOf[total] \in Nat
  BY <1>0, ShareAssumption DEF MaxTotal
<1>2. given \in Nat /\ given <= total
  BY <1>0, <1>1, LesserOf
<1>9. share \in Nat /\ share >= 1 /\ share <= total
  <2> HIDE DEF given
  <2> QED
    BY <1>0, <1>2, AtLeastOne
<1>3. Interactive(total) \in 1..total
  <2>1. Interactive(total) = IF total > 1 /\ share >= total THEN total - 1 ELSE share
    BY DEF Interactive
  <2> HIDE DEF share
  <2> QED
    BY <2>1, <1>9, <1>0
<1> DEFINE rest == total - Interactive(total)
<1>4. rest \in Int /\ rest <= total
  BY <1>3, <1>0
<1>5. Max({1, rest}) \in 1..total
  <2> HIDE DEF rest
  <2> QED
    BY <1>4, <1>0, AtLeastOne
<1> DEFINE asked == CASE g = "total" -> total
                      [] g = "interactive" -> Interactive(total)
                      [] g = "background" -> Max({1, rest})
<1>6. asked \in 1..total
  <2>1. g \in {"total", "interactive", "background"}
    BY DEF Gates, Workloads
  <2> HIDE DEF rest
  <2> QED
    BY <2>1, <1>0, <1>3, <1>5
<1>7. Limits[total][g] = Min({GateCap, asked})
  BY <1>0 DEF Limits
<1> HIDE DEF asked
<1>8. GateCap \in Nat /\ GateCap >= 1
  BY DEF GateCap
<1>10. Min({GateCap, asked}) \in 1..total
  BY <1>6, <1>8, <1>0, LesserOf
<1> QED
  BY <1>7, <1>10

-----------------------------------------------------------------------------
(* The inductive invariant. *)

Steps == {"new", "prepare", "sem", "slot", "find_key", "key", "request", "leave", "over"}
Limited == {"sem", "slot", "find_key", "key", "request", "leave"}
CallType == [at : Steps, ref : Keys, todo : SUBSET Keys, gate : Gates, total : 0..MaxTotal,
             keyLimit : 0..MaxLimit, sem : Nat, answer : {"none", "final", "rejected"}]

PoolInv ==
  /\ keyLimit \in [Keys -> KeyLimits] /\ retired \in [Clients -> SUBSET Keys]
  /\ events \in 0..MaxEvents

Proper(c, x) ==
  /\ x.gate \in {"total", WorkOf[c]}
  /\ x.at \in Limited => x.total # 0 /\ x.keyLimit # 0
  /\ x.at \in {"find_key", "key", "request"} => x.gate = WorkOf[c]
HasKey(x, sems) == x.at \in {"key", "request"} => x.sem \in 1..Len(sems)

\* A call is at one of its two gates, under limits of its own from the first
\* gate to the last, and its semaphore exists.
CallInv ==
  /\ call \in [Calls -> CallType]
  /\ \A c \in Calls : Proper(c, call[c]) /\ HasKey(call[c], SemsOf(c))

\* The gates a call has a permit of: those it is through and the one whose
\* files it scans.
Holds(c) == Passed(c) \cup (IF call[c].at = "slot" THEN {call[c].gate} ELSE {})
LimitOf(c, g) == Limits[call[c].total][g]
Holders(p, g, l) ==
  {c \in Calls : ProcessOf(c) = p /\ g \in Holds(c) /\ LimitOf(c, g) = l}

\* The permits in use are those of calls of the process under that limit.
PermitInv ==
  /\ taken \in [Processes -> [Gates -> [1..MaxTotal -> Nat]]]
  /\ \A p \in Processes, g \in Gates, l \in 1..MaxTotal :
       taken[p][g][l] = Cardinality(Holders(p, g, l))

\* The locked files are those of the calls through the gate, each below the
\* limit of its call.
SlotsFit(files, passed, limit) ==
  /\ files \in [Gates -> [0..(MaxTotal - 1) -> Calls \cup {Free}]]
  /\ \A g \in Gates, i \in 0..(MaxTotal - 1), c \in Calls :
       files[g][i] = c => g \in passed[c] /\ i < limit[c][g]
  /\ \A c \in Calls : \A g \in passed[c] : \E i \in 0..(MaxTotal - 1) : files[g][i] = c

PassedBy == [c \in Calls |-> Passed(c)]
LimitFor == [c \in Calls |-> [g \in Gates |-> LimitOf(c, g)]]
SlotInv == SlotsFit(slot, PassedBy, LimitFor)

Requesting(k, r, n) ==
  {c \in Calls : /\ call[c].at = "request" /\ ClientOf[c] = k
                 /\ call[c].ref = r /\ call[c].sem = n}

\* The semaphores of the keys are used by the requests on them.
KeyInv ==
  /\ keySem \in [Clients -> [Keys -> Seq([limit : KeyLimits, used : Nat])]]
  /\ \A k \in Clients, r \in Keys : \A n \in 1..Len(keySem[k][r]) :
       keySem[k][r][n].used = Cardinality(Requesting(k, r, n))

IInv == PoolInv /\ CallInv /\ PermitInv /\ SlotInv /\ KeyInv

-----------------------------------------------------------------------------
(* What a step does to the parts of the invariant. *)

LEMMA ConstantsAre ==
  /\ IsFiniteSet(Calls) /\ Free \notin Calls /\ MaxTotal \in Nat \ {0} /\ Refs[1] \in Keys
  /\ \A c \in Calls : /\ WorkOf[c] \in Gates /\ WorkOf[c] # "total"
                      /\ ClientOf[c] \in Clients /\ ProcessOf(c) \in Processes
<1>1. Len(Refs) * MaxLimit \in Nat /\ Len(Refs) * MaxLimit >= Len(Refs) /\ Len(Refs) \in Nat \ {0}
  BY RefsType, MoreTimes
<1>2. MaxTotal \in Nat \ {0}
  BY <1>1 DEF MaxTotal
<1>3. Refs[1] \in Keys
  BY RefsType
<1>4. \A c \in Calls : WorkOf[c] \in Gates /\ WorkOf[c] # "total"
  BY CallsAssumption DEF Gates, Workloads
<1>5. \A c \in Calls : ClientOf[c] \in Clients /\ ProcessOf(c) \in Processes
  BY CallsAssumption, ClientsAssumption DEF ProcessOf
<1> QED
  BY <1>2, <1>3, <1>4, <1>5, CallsAssumption

LEMMA FirstIs ==
    ASSUME NEW refs \in SUBSET Keys, refs # {}
    PROVE  FirstIn(refs) \in refs
<1> DEFINE N == {n \in 1..Len(Refs) : Refs[n] \in refs}
<1>1. N \in SUBSET Nat /\ N # {}
  BY RefsType
<1>2. Min(N) \in N
  <2> HIDE DEF N
  <2> QED
    BY <1>1, MinIs
<1>3. Refs[Min(N)] \in refs
  BY <1>2
<1> QED
  BY <1>3 DEF FirstIn

\* Another call is as it was.
LEMMA Moves ==
    ASSUME CallInv, NEW c \in Calls, NEW x \in CallType, call' = [call EXCEPT ![c] = x],
           Proper(c, x), HasKey(x, keySem'[ClientOf[c]][x.ref]),
           \A d \in Calls : d # c => Len(keySem[ClientOf[d]][Ref(d)]) \in Nat
                                     /\ Len(keySem'[ClientOf[d]][Ref(d)]) \in Nat
                                     /\ Len(keySem[ClientOf[d]][Ref(d)])
                                          <= Len(keySem'[ClientOf[d]][Ref(d)])
    PROVE  /\ CallInv' /\ call'[c] = x /\ \A d \in Calls : d # c => call'[d] = call[d]
<1>1. /\ call \in [Calls -> CallType]
      /\ \A d \in Calls : Proper(d, call[d]) /\ HasKey(call[d], SemsOf(d))
  BY DEF CallInv
<1>2. call' \in [Calls -> CallType] /\ call'[c] = x /\ \A d \in Calls : d # c => call'[d] = call[d]
  BY <1>1
<1>3. ASSUME NEW d \in Calls PROVE Proper(d, call'[d]) /\ HasKey(call'[d], SemsOf(d)')
  <2>1. CASE d = c
    BY <2>1, <1>2 DEF SemsOf, Ref
  <2>2. CASE d # c
    <3>1. call'[d] = call[d] /\ Proper(d, call[d]) /\ HasKey(call[d], SemsOf(d))
      BY <2>2, <1>1, <1>2
    <3> DEFINE m == Len(keySem[ClientOf[d]][Ref(d)])
               n == Len(keySem'[ClientOf[d]][Ref(d)])
    <3>2. m \in Nat /\ n \in Nat /\ m <= n
      BY <2>2
    <3>3. SemsOf(d) = keySem[ClientOf[d]][Ref(d)] /\ SemsOf(d)' = keySem'[ClientOf[d]][Ref(d)]
      BY <3>1 DEF SemsOf, Ref
    <3>4. call[d].at \in {"key", "request"} => call[d].sem \in 1..m
      BY <3>1, <3>3 DEF HasKey
    <3>5. \A s \in 1..m : s \in 1..n
      <4> HIDE DEF m, n
      <4> QED
        BY <3>2
    <3>6. call[d].at \in {"key", "request"} => call[d].sem \in 1..n
      <4> HIDE DEF m, n
      <4> QED
        BY <3>4, <3>5
    <3> QED
      BY <3>1, <3>3, <3>6 DEF HasKey
  <2> QED
    BY <2>1, <2>2
<1> QED
  BY <1>2, <1>3 DEF CallInv

\* The same when no semaphore is made or thrown away.
LEMMA MovesOnly ==
    ASSUME CallInv, KeyInv, NEW c \in Calls, NEW x \in CallType, call' = [call EXCEPT ![c] = x],
           Proper(c, x), x.at \notin {"key", "request"}, keySem' = keySem
    PROVE  /\ CallInv' /\ call'[c] = x /\ \A d \in Calls : d # c => call'[d] = call[d]
<1>1. HasKey(x, keySem'[ClientOf[c]][x.ref])
  BY DEF HasKey
<1>2. \A d \in Calls : Len(keySem[ClientOf[d]][Ref(d)]) \in Nat
  <2> TAKE d \in Calls
  <2>1. ClientOf[d] \in Clients /\ Ref(d) \in Keys
    BY ConstantsAre DEF CallInv, CallType, Ref
  <2>2. keySem[ClientOf[d]][Ref(d)] \in Seq([limit : KeyLimits, used : Nat])
    BY <2>1 DEF KeyInv
  <2> QED
    BY <2>2
<1>3. \A d \in Calls : Len(keySem[ClientOf[d]][Ref(d)]) <= Len(keySem[ClientOf[d]][Ref(d)])
  BY <1>2
<1> QED
  BY <1>1, <1>2, <1>3, Moves

LEMMA OthersHold ==
    ASSUME NEW d \in Calls, call'[d] = call[d]
    PROVE  /\ Holds(d)' = Holds(d) /\ Passed(d)' = Passed(d)
           /\ \A g \in Gates : LimitOf(d, g)' = LimitOf(d, g)
BY DEF Holds, Passed, Running, LimitOf

LEMMA HoldersFinite ==
    ASSUME NEW p, NEW g, NEW l
    PROVE  /\ IsFiniteSet(Holders(p, g, l)) /\ Cardinality(Holders(p, g, l)) \in Nat
           /\ IsFiniteSet(Holders(p, g, l)') /\ Cardinality(Holders(p, g, l)') \in Nat
<1>1. Holders(p, g, l) \in SUBSET Calls /\ Holders(p, g, l)' \in SUBSET Calls
  BY DEF Holders
<1> QED
  BY <1>1, CallsAssumption, FS_Subset, FS_CardinalityType

LEMMA PermitsSame ==
    ASSUME PermitInv, taken' = taken,
           \A d \in Calls : /\ Holds(d)' = Holds(d)
                            /\ \A g \in Holds(d) : LimitOf(d, g)' = LimitOf(d, g)
    PROVE  PermitInv'
<1>1. \A p \in Processes, g \in Gates, l \in 1..MaxTotal : Holders(p, g, l)' = Holders(p, g, l)
  BY DEF Holders, ProcessOf
<1> QED
  BY <1>1 DEF PermitInv

\* Only the permits of c's process under this limit change hands.
Elsewhere(c, gate, limit) ==
  \A p \in Processes, g \in Gates, l \in 1..MaxTotal :
    (p # ProcessOf(c) \/ g # gate \/ l # limit) => Holders(p, g, l)' = Holders(p, g, l)

\* A permit more or less changes the one count that c is in.
LEMMA PermitsChange ==
    ASSUME PermitInv, NEW c \in Calls, NEW gate \in Gates, NEW limit \in 1..MaxTotal,
           NEW n \in Nat,
           taken' = [taken EXCEPT ![ProcessOf(c)][gate][limit] = n],
           n = Cardinality(Holders(ProcessOf(c), gate, limit)'),
           Elsewhere(c, gate, limit)
    PROVE  PermitInv'
<1> DEFINE q == ProcessOf(c)
<1>0. q \in Processes
  BY ConstantsAre
<1>1. taken \in [Processes -> [Gates -> [1..MaxTotal -> Nat]]]
  BY DEF PermitInv
<1> HIDE DEF q
<1>2. taken' = [taken EXCEPT ![q] =
                  [taken[q] EXCEPT ![gate] = [taken[q][gate] EXCEPT ![limit] = n]]]
  BY DEF q
<1>3. [taken[q][gate] EXCEPT ![limit] = n] \in [1..MaxTotal -> Nat]
  BY <1>0, <1>1
<1>4. [taken[q] EXCEPT ![gate] = [taken[q][gate] EXCEPT ![limit] = n]]
        \in [Gates -> [1..MaxTotal -> Nat]]
  BY <1>0, <1>1, <1>3
<1>5. taken' \in [Processes -> [Gates -> [1..MaxTotal -> Nat]]]
  BY <1>0, <1>1, <1>2, <1>4
<1>6. ASSUME NEW p \in Processes, NEW g \in Gates, NEW l \in 1..MaxTotal
      PROVE  taken'[p][g][l] = Cardinality(Holders(p, g, l)')
  <2>1. taken[p][g][l] = Cardinality(Holders(p, g, l))
    BY DEF PermitInv
  <2>2. CASE p = q /\ g = gate /\ l = limit
    <3>1. taken'[q] = [taken[q] EXCEPT ![gate] = [taken[q][gate] EXCEPT ![limit] = n]]
      BY <1>0, <1>1, <1>2
    <3>2. taken'[q][gate] = [taken[q][gate] EXCEPT ![limit] = n]
      BY <1>0, <1>1, <3>1
    <3>3. taken[q][gate] \in [1..MaxTotal -> Nat]
      BY <1>0, <1>1
    <3>4. taken'[q][gate][limit] = n
      BY <3>2, <3>3
    <3> QED
      BY <2>2, <3>4 DEF q
  <2>3. CASE p # q \/ g # gate \/ l # limit
    <3>1. taken'[p][g][l] = taken[p][g][l]
      BY <1>0, <1>1, <1>2, <2>3
    <3>2. Holders(p, g, l)' = Holders(p, g, l)
      BY <2>3 DEF q, Elsewhere
    <3> QED
      BY <2>1, <3>1, <3>2
  <2> QED
    BY <2>2, <2>3
<1> QED
  BY <1>5, <1>6 DEF PermitInv

LEMMA PermitGained ==
    ASSUME PermitInv, NEW c \in Calls, NEW gate \in Gates, NEW limit \in 1..MaxTotal,
           limit = LimitOf(c, gate), gate \notin Holds(c), Holds(c)' = Holds(c) \cup {gate},
           \A g \in Gates : LimitOf(c, g)' = LimitOf(c, g),
           \A d \in Calls : d # c => call'[d] = call[d],
           taken' = [taken EXCEPT ![ProcessOf(c)][gate][limit] =
                                    taken[ProcessOf(c)][gate][limit] + 1]
    PROVE  PermitInv'
<1> DEFINE q == ProcessOf(c)
           H == Holders(q, gate, limit)
<1>0. q \in Processes
  BY ConstantsAre
<1>1. \A d \in Calls : d # c => /\ Holds(d)' = Holds(d)
                                /\ \A g \in Gates : LimitOf(d, g)' = LimitOf(d, g)
  BY OthersHold
<1>2. H' = H \cup {c} /\ c \notin H
  BY <1>1 DEF Holders, ProcessOf
<1>3. ASSUME NEW p \in Processes, NEW g \in Gates, NEW l \in 1..MaxTotal,
             p # q \/ g # gate \/ l # limit
      PROVE  Holders(p, g, l)' = Holders(p, g, l)
  BY <1>1, <1>3 DEF Holders, ProcessOf
<1>4. Cardinality(H') = Cardinality(H) + 1 /\ taken[q][gate][limit] = Cardinality(H)
  <2>1. IsFiniteSet(H) /\ Cardinality(H) \in Nat
    BY HoldersFinite
  <2>2. Cardinality(H \cup {c}) = Cardinality(H) + 1
    <3> HIDE DEF H
    <3> QED
      BY <2>1, <1>2, FS_AddElement
  <2> QED
    BY <2>2, <1>0, <1>2 DEF PermitInv
<1>5. taken[q][gate][limit] + 1 = Cardinality(H') /\ Cardinality(H') \in Nat
  BY <1>4, HoldersFinite
<1>6. Elsewhere(c, gate, limit)
  BY <1>3 DEF Elsewhere
<1> QED
  BY <1>5, <1>6, PermitsChange

LEMMA PermitLost ==
    ASSUME PermitInv, NEW c \in Calls, NEW gate \in Gates, NEW limit \in 1..MaxTotal,
           limit = LimitOf(c, gate), gate \in Holds(c), Holds(c)' = Holds(c) \ {gate},
           \A g \in Holds(c)' : LimitOf(c, g)' = LimitOf(c, g),
           \A d \in Calls : d # c => call'[d] = call[d],
           taken' = [taken EXCEPT ![ProcessOf(c)][gate][limit] =
                                    taken[ProcessOf(c)][gate][limit] - 1]
    PROVE  PermitInv'
<1> DEFINE q == ProcessOf(c)
           H == Holders(q, gate, limit)
<1>0. q \in Processes
  BY ConstantsAre
<1>1. \A d \in Calls : d # c => /\ Holds(d)' = Holds(d)
                                /\ \A g \in Gates : LimitOf(d, g)' = LimitOf(d, g)
  BY OthersHold
<1>2. H' = H \ {c} /\ c \in H
  BY <1>1 DEF Holders, ProcessOf
<1>3. ASSUME NEW p \in Processes, NEW g \in Gates, NEW l \in 1..MaxTotal,
             p # q \/ g # gate \/ l # limit
      PROVE  Holders(p, g, l)' = Holders(p, g, l)
  BY <1>1, <1>3 DEF Holders, ProcessOf
<1>4. Cardinality(H') = Cardinality(H) - 1 /\ taken[q][gate][limit] = Cardinality(H)
  <2>1. IsFiniteSet(H) /\ Cardinality(H) \in Nat
    BY HoldersFinite
  <2>2. Cardinality(H \ {c}) = Cardinality(H) - 1
    <3> HIDE DEF H
    <3> QED
      BY <2>1, <1>2, FS_RemoveElement
  <2> QED
    BY <2>2, <1>0, <1>2 DEF PermitInv
<1>5. taken[q][gate][limit] - 1 = Cardinality(H') /\ Cardinality(H') \in Nat
  BY <1>4, HoldersFinite
<1>6. Elsewhere(c, gate, limit)
  BY <1>3 DEF Elsewhere
<1>7. ASSUME NEW n \in Nat, n = taken[q][gate][limit] - 1, n = Cardinality(H')
      PROVE  PermitInv'
  <2>1. taken' = [taken EXCEPT ![ProcessOf(c)][gate][limit] = n]
    BY <1>7
  <2>2. n = Cardinality(Holders(ProcessOf(c), gate, limit)')
    BY <1>7
  <2> HIDE DEF q, H
  <2> QED
    BY <1>6, <1>7, <2>1, <2>2, PermitsChange
<1> QED
  BY <1>5, <1>7

LEMMA PassedAreGates ==
    ASSUME CallInv, NEW c \in Calls
    PROVE  Passed(c) \subseteq Gates /\ Holds(c) \subseteq Gates
<1>1. call[c].gate \in Gates /\ WorkOf[c] \in Gates /\ "total" \in Gates
  BY ConstantsAre DEF CallInv, CallType, Gates
<1> QED
  BY <1>1 DEF Passed, Holds

\* The limits of the gates a call is through are all that matters.
LEMMA SlotsFitStill ==
    ASSUME NEW P, NEW L, NEW Q, NEW M, NEW files, SlotsFit(files, P, L),
           \A c \in Calls : Q[c] = P[c] /\ \A g \in P[c] : M[c][g] = L[c][g]
    PROVE  SlotsFit(files, Q, M)
BY DEF SlotsFit

FilesType == [Gates -> [0..(MaxTotal - 1) -> Calls \cup {Free}]]

LEMMA SlotEmptied ==
    ASSUME slot' \in FilesType,
           NEW c \in Calls, NEW gate \in Gates, SlotsFit(slot, PassedBy, LimitFor),
           PassedBy'[c] = PassedBy[c] \ {gate},
           \A d \in Calls : PassedBy[d] \subseteq Gates /\ (d # c => PassedBy'[d] = PassedBy[d]),
           \A d \in Calls : \A g \in PassedBy'[d] : LimitFor'[d][g] = LimitFor[d][g],
           \A g \in Gates, j \in 0..(MaxTotal - 1) :
             slot'[g][j] = IF g = gate /\ slot[g][j] = c THEN Free ELSE slot[g][j]
    PROVE  SlotsFit(slot', PassedBy', LimitFor')
<1>0. Free \notin Calls
  BY ConstantsAre
<1>1. ASSUME NEW g \in Gates, NEW j \in 0..(MaxTotal - 1), NEW d \in Calls, slot'[g][j] = d
      PROVE  g \in PassedBy'[d] /\ j < LimitFor'[d][g]
  <2>1. slot[g][j] = d /\ ~(d = c /\ g = gate)
    BY <1>0, <1>1
  <2>2. g \in PassedBy[d] /\ j < LimitFor[d][g]
    BY <2>1 DEF SlotsFit
  <2> QED
    BY <2>1, <2>2
<1>2. ASSUME NEW d \in Calls, NEW g \in PassedBy'[d]
      PROVE  \E j \in 0..(MaxTotal - 1) : slot'[g][j] = d
  <2>1. g \in PassedBy[d] /\ ~(d = c /\ g = gate)
    BY <1>2
  <2>2. PICK j \in 0..(MaxTotal - 1) : slot[g][j] = d
    BY <2>1 DEF SlotsFit
  <2>3. g \in Gates
    BY <2>1
  <2> QED
    BY <2>1, <2>2, <2>3
<1> QED
  BY <1>1, <1>2 DEF SlotsFit, FilesType

LEMMA FilesAre ==
    ASSUME SlotInv, NEW c \in Calls, NEW gate \in Gates, NEW i \in 0..(MaxTotal - 1),
           slot' = [slot EXCEPT ![gate][i] = c]
    PROVE  /\ slot' \in FilesType
           /\ \A g \in Gates, j \in 0..(MaxTotal - 1) :
                slot'[g][j] = IF g = gate /\ j = i THEN c ELSE slot[g][j]
<1>1. slot \in FilesType
  BY DEF SlotInv, SlotsFit, FilesType
<1>2. slot' = [slot EXCEPT ![gate] = [slot[gate] EXCEPT ![i] = c]]
  OBVIOUS
<1>3. [slot[gate] EXCEPT ![i] = c] \in [0..(MaxTotal - 1) -> Calls \cup {Free}]
  BY <1>1 DEF FilesType
<1>4. slot' \in FilesType
  BY <1>1, <1>2, <1>3 DEF FilesType
<1>5. \A g \in Gates, j \in 0..(MaxTotal - 1) :
        slot'[g][j] = IF g = gate /\ j = i THEN c ELSE slot[g][j]
  BY <1>1, <1>2 DEF FilesType
<1> QED
  BY <1>4, <1>5

LEMMA FreedFilesAre ==
    ASSUME SlotInv, NEW c \in Calls, NEW gate \in Gates,
           slot' = [slot EXCEPT ![gate] = [i \in DOMAIN @ |-> IF @[i] = c THEN Free ELSE @[i]]]
    PROVE  /\ slot' \in FilesType
           /\ \A g \in Gates, j \in 0..(MaxTotal - 1) :
                slot'[g][j] = IF g = gate /\ slot[g][j] = c THEN Free ELSE slot[g][j]
<1> DEFINE row == [i \in DOMAIN slot[gate] |-> IF slot[gate][i] = c THEN Free ELSE slot[gate][i]]
<1>1. slot \in FilesType
  BY DEF SlotInv, SlotsFit, FilesType
<1>2. slot[gate] \in [0..(MaxTotal - 1) -> Calls \cup {Free}]
  BY <1>1 DEF FilesType
<1>3. row \in [0..(MaxTotal - 1) -> Calls \cup {Free}]
  BY <1>2
<1>4. \A j \in 0..(MaxTotal - 1) : row[j] = IF slot[gate][j] = c THEN Free ELSE slot[gate][j]
  BY <1>2
<1>5. slot' = [slot EXCEPT ![gate] = row]
  OBVIOUS
<1> HIDE DEF row
<1>6. slot' \in FilesType
  BY <1>1, <1>3, <1>5 DEF FilesType
<1>7. \A g \in Gates : slot'[g] = IF g = gate THEN row ELSE slot[g]
  BY <1>1, <1>5 DEF FilesType
<1> QED
  BY <1>4, <1>6, <1>7

\* The limits of a call are permits its semaphores have.
LEMMA LimitIs ==
    ASSUME CallInv, NEW c \in Calls, call[c].at \in Limited, NEW g \in Gates
    PROVE  LimitOf(c, g) \in 1..MaxTotal /\ LimitOf(c, g) - 1 \in 0..(MaxTotal - 1)
<1>1. call[c].total \in 1..MaxTotal /\ MaxTotal \in Nat
  BY ConstantsAre DEF CallInv, CallType, Proper
<1>2. Limits[call[c].total][g] \in 1..call[c].total
  BY <1>1, LimitsAre
<1> QED
  BY <1>1, <1>2 DEF LimitOf

LEMMA SlotsSame ==
    ASSUME CallInv, SlotInv, slot' = slot,
           \A d \in Calls : /\ Passed(d)' = Passed(d)
                            /\ \A g \in Passed(d) : LimitOf(d, g)' = LimitOf(d, g)
    PROVE  SlotInv'
<1>1. \A d \in Calls : PassedBy'[d] = PassedBy[d]
  BY DEF PassedBy
<1>2. \A d \in Calls : \A g \in PassedBy[d] : LimitFor'[d][g] = LimitFor[d][g]
  BY PassedAreGates DEF PassedBy, LimitFor
<1>3. SlotsFit(slot, PassedBy', LimitFor')
  BY <1>1, <1>2, SlotsFitStill DEF SlotInv
<1> QED
  BY <1>3 DEF SlotInv

\* A step of c that neither takes nor returns anything at the gates.
LEMMA GatesSame ==
    ASSUME CallInv, PermitInv, SlotInv, NEW c \in Calls, taken' = taken, slot' = slot,
           \A d \in Calls : d # c => call'[d] = call[d],
           Holds(c)' = Holds(c), Passed(c)' = Passed(c),
           Holds(c) = {} \/ call'[c].total = call[c].total
    PROVE  PermitInv' /\ SlotInv'
<1>1. \A d \in Calls : d # c => /\ Holds(d)' = Holds(d) /\ Passed(d)' = Passed(d)
                                /\ \A g \in Gates : LimitOf(d, g)' = LimitOf(d, g)
  BY OthersHold
<1>2. \A g \in Holds(c) : LimitOf(c, g)' = LimitOf(c, g)
  BY DEF LimitOf
<1>3. \A d \in Calls : Passed(d) \subseteq Holds(d) /\ Holds(d) \subseteq Gates
  BY PassedAreGates DEF Holds
<1>4. \A d \in Calls : /\ Holds(d)' = Holds(d) /\ Passed(d)' = Passed(d)
                       /\ \A g \in Holds(d) : LimitOf(d, g)' = LimitOf(d, g)
                       /\ \A g \in Passed(d) : LimitOf(d, g)' = LimitOf(d, g)
  <2> TAKE d \in Calls
  <2>1. CASE d = c
    BY <2>1, <1>2, <1>3
  <2>2. CASE d # c
    BY <2>2, <1>1, <1>3
  <2> QED
    BY <2>1, <2>2
<1>5. PermitInv'
  BY <1>4, PermitsSame
<1>6. SlotInv'
  BY <1>4, SlotsSame
<1> QED
  BY <1>5, <1>6

LEMMA SlotGained ==
    ASSUME CallInv, SlotInv, NEW c \in Calls, NEW gate \in Gates, NEW i \in 0..(MaxTotal - 1),
           slot[gate][i] = Free, i < LimitOf(c, gate), Passed(c)' = Passed(c) \cup {gate},
           \A g \in Gates : LimitOf(c, g)' = LimitOf(c, g),
           \A d \in Calls : d # c => call'[d] = call[d],
           slot' = [slot EXCEPT ![gate][i] = c]
    PROVE  SlotInv'
<1>1. \A d \in Calls : d # c => /\ Passed(d)' = Passed(d)
                                /\ \A g \in Gates : LimitOf(d, g)' = LimitOf(d, g)
  BY OthersHold
<1>2. \A d \in Calls : PassedBy[d] \subseteq Gates /\ (d # c => PassedBy'[d] = PassedBy[d])
  BY <1>1, PassedAreGates DEF PassedBy
<1>3. PassedBy'[c] = PassedBy[c] \cup {gate}
  BY DEF PassedBy
<1>4. \A d \in Calls : \A g \in Gates : LimitFor'[d][g] = LimitFor[d][g]
  BY <1>1 DEF LimitFor
<1>5. i < LimitFor[c][gate]
  BY DEF LimitFor
<1>6. /\ slot' \in FilesType
      /\ \A g \in Gates, j \in 0..(MaxTotal - 1) :
           slot'[g][j] = IF g = gate /\ j = i THEN c ELSE slot[g][j]
  BY FilesAre
<1>7. SlotsFit(slot, PassedBy, LimitFor) /\ Free \notin Calls
  BY ConstantsAre DEF SlotInv
<1>8. ASSUME NEW g \in Gates, NEW j \in 0..(MaxTotal - 1), NEW d \in Calls, slot'[g][j] = d
      PROVE  g \in PassedBy'[d] /\ j < LimitFor'[d][g]
  <2>1. CASE g = gate /\ j = i
    <3>1. d = c
      BY <1>6, <1>8, <2>1
    <3> QED
      BY <2>1, <3>1, <1>3, <1>4, <1>5
  <2>2. CASE ~(g = gate /\ j = i)
    <3>1. slot[g][j] = d
      BY <1>6, <1>8, <2>2
    <3>2. g \in PassedBy[d] /\ j < LimitFor[d][g]
      BY <3>1, <1>7 DEF SlotsFit
    <3>3. PassedBy[d] \subseteq PassedBy'[d]
      BY <1>2, <1>3
    <3> QED
      BY <3>2, <3>3, <1>4
  <2> QED
    BY <2>1, <2>2
<1>9. ASSUME NEW d \in Calls, NEW g \in PassedBy'[d]
      PROVE  \E j \in 0..(MaxTotal - 1) : slot'[g][j] = d
  <2>0. g \in Gates
    <3>1. PassedBy[c] \subseteq Gates /\ PassedBy[d] \subseteq Gates
      BY <1>2
    <3>2. d = c \/ PassedBy'[d] = PassedBy[d]
      BY <1>2
    <3> QED
      BY <3>1, <3>2, <1>3
  <2>1. CASE d = c /\ g = gate
    BY <2>1, <1>6
  <2>2. CASE ~(d = c /\ g = gate)
    <3>1. g \in PassedBy[d]
      BY <2>2, <1>2, <1>3
    <3>2. PICK j \in 0..(MaxTotal - 1) : slot[g][j] = d
      BY <3>1, <1>7 DEF SlotsFit
    <3>3. ~(g = gate /\ j = i)
      BY <3>2, <1>7
    <3>4. slot'[g][j] = d
      BY <3>2, <3>3, <2>0, <1>6
    <3> QED
      BY <3>4
  <2> QED
    BY <2>1, <2>2
<1>10. SlotsFit(slot', PassedBy', LimitFor')
  BY <1>6, <1>8, <1>9 DEF SlotsFit, FilesType
<1> QED
  BY <1>10 DEF SlotInv

LEMMA SlotLost ==
    ASSUME CallInv, SlotInv, NEW c \in Calls, NEW gate \in Gates,
           Passed(c)' = Passed(c) \ {gate},
           \A g \in Passed(c)' : LimitOf(c, g)' = LimitOf(c, g),
           \A d \in Calls : d # c => call'[d] = call[d],
           slot' = [slot EXCEPT ![gate] = [i \in DOMAIN @ |-> IF @[i] = c THEN Free ELSE @[i]]]
    PROVE  SlotInv'
<1>1. \A d \in Calls : d # c => /\ Passed(d)' = Passed(d)
                                /\ \A g \in Gates : LimitOf(d, g)' = LimitOf(d, g)
  BY OthersHold
<1>0. \A d \in Calls : Passed(d) \subseteq Gates
  BY PassedAreGates
<1>2. \A d \in Calls : PassedBy[d] \subseteq Gates /\ (d # c => PassedBy'[d] = PassedBy[d])
  BY <1>0, <1>1 DEF PassedBy
<1>3. PassedBy'[c] = PassedBy[c] \ {gate}
  BY DEF PassedBy
<1>4. ASSUME NEW d \in Calls, NEW g \in PassedBy'[d] PROVE LimitFor'[d][g] = LimitFor[d][g]
  <2>1. g \in Gates /\ g \in Passed(d)'
    BY <1>2, <1>3 DEF PassedBy
  <2>2. LimitOf(d, g)' = LimitOf(d, g)
    BY <1>1, <2>1
  <2> QED
    BY <2>1, <2>2 DEF LimitFor
<1>5. SlotsFit(slot', PassedBy', LimitFor')
  <2>1. SlotsFit(slot, PassedBy, LimitFor)
    BY DEF SlotInv
  <2>2. \A d \in Calls : \A g \in PassedBy'[d] : LimitFor'[d][g] = LimitFor[d][g]
    BY <1>4
  <2>3. /\ slot' \in FilesType
        /\ \A g \in Gates, j \in 0..(MaxTotal - 1) :
             slot'[g][j] = IF g = gate /\ slot[g][j] = c THEN Free ELSE slot[g][j]
    BY FreedFilesAre
  <2> QED
    BY <2>1, <1>2, <1>3, <2>2, <2>3, SlotEmptied
<1> QED
  BY <1>5 DEF SlotInv

LEMMA KeysSame ==
    ASSUME KeyInv, NEW c \in Calls, keySem' = keySem,
           \A d \in Calls : d # c => call'[d] = call[d],
           call[c].at # "request", call'[c].at # "request"
    PROVE  KeyInv'
<1>1. \A k \in Clients, r \in Keys, n \in Nat : Requesting(k, r, n)' = Requesting(k, r, n)
  BY DEF Requesting
<1>2. \A k \in Clients, r \in Keys : \A n \in 1..Len(keySem[k][r]) : n \in Nat
  OBVIOUS
<1> QED
  BY <1>1, <1>2 DEF KeyInv

LEMMA PoolSame ==
    ASSUME PoolInv, UNCHANGED <<keyLimit, retired, events>>
    PROVE  PoolInv'
BY DEF PoolInv

-----------------------------------------------------------------------------
(* The actions at the gates. *)

LEMMA TakePermitKeeps ==
    ASSUME IInv, NEW c \in Calls, TakePermit(c)
    PROVE  IInv'
<1> DEFINE x == [call[c] EXCEPT !.at = "slot"]
           gate == call[c].gate
<1>1. call[c].at = "sem" /\ call[c] \in CallType /\ Proper(c, call[c]) /\ gate \in Gates
  BY DEF IInv, CallInv, CallType, TakePermit
<1>2. call' = [call EXCEPT ![c] = x] /\ UNCHANGED <<keyLimit, slot, retired, keySem, events>>
  BY DEF TakePermit, Goes, client
<1>3. x \in CallType /\ x.at = "slot" /\ x.gate = gate /\ x.total = call[c].total
        /\ x.keyLimit = call[c].keyLimit
  BY <1>1 DEF CallType, Steps
<1>4. Proper(c, x)
  <2> HIDE DEF x
  <2> QED
    BY <1>1, <1>3 DEF Proper, Limited
<1>5. CallInv' /\ call'[c] = x /\ \A d \in Calls : d # c => call'[d] = call[d]
  <2> HIDE DEF x
  <2> QED
    BY <1>2, <1>3, <1>4, MovesOnly DEF IInv
<1>6. /\ Passed(c)' = Passed(c) /\ Holds(c)' = Holds(c) \cup {gate} /\ gate \notin Holds(c)
      /\ \A g \in Gates : LimitOf(c, g)' = LimitOf(c, g)
  <2>1. call'[c].at = "slot" /\ call'[c].gate = gate /\ call'[c].total = call[c].total
    BY <1>3, <1>5
  <2>2. Passed(c)' = Passed(c) /\ Passed(c) = IF gate = "total" THEN {} ELSE {"total"}
    BY <1>1, <2>1 DEF Passed, Running
  <2> HIDE DEF x, gate
  <2> QED
    BY <1>1, <2>1, <2>2 DEF Holds, LimitOf, gate
<1>7. PermitInv'
  <2>1. LimitOf(c, gate) \in 1..MaxTotal
    BY <1>1, LimitIs DEF IInv, Limited
  <2>2. taken' = [taken EXCEPT ![ProcessOf(c)][gate][LimitOf(c, gate)] =
                                  taken[ProcessOf(c)][gate][LimitOf(c, gate)] + 1]
    BY DEF TakePermit, PermitsOf, PermitsUsed, Limit, LimitOf
  <2> HIDE DEF x, gate
  <2> QED
    BY <1>1, <1>5, <1>6, <2>1, <2>2, PermitGained DEF IInv
<1>8. SlotInv'
  <2>1. \A d \in Calls : Passed(d)' = Passed(d)
    BY <1>5, <1>6, OthersHold
  <2>2. \A d \in Calls : \A g \in Gates : LimitOf(d, g)' = LimitOf(d, g)
    BY <1>5, <1>6, OthersHold
  <2>3. \A d \in Calls : Passed(d) \subseteq Gates
    BY PassedAreGates DEF IInv
  <2> QED
    BY <2>1, <2>2, <2>3, <1>2, SlotsSame DEF IInv
<1>9. KeyInv'
  <2>1. call'[c].at = "slot"
    BY <1>3, <1>5
  <2> QED
    BY <1>1, <1>2, <1>5, <2>1, KeysSame DEF IInv
<1>10. PoolInv'
  BY <1>2, PoolSame DEF IInv
<1> QED
  BY <1>5, <1>7, <1>8, <1>9, <1>10 DEF IInv

LEMMA TakeSlotKeeps ==
    ASSUME IInv, NEW c \in Calls, TakeSlot(c)
    PROVE  IInv'
<1> DEFINE gate == call[c].gate
           x == IF gate = "total" THEN [call[c] EXCEPT !.at = "sem", !.gate = WorkOf[c]]
                ELSE [call[c] EXCEPT !.at = "find_key"]
<1>1. call[c].at = "slot" /\ call[c] \in CallType /\ Proper(c, call[c]) /\ gate \in Gates
  BY DEF IInv, CallInv, CallType, TakeSlot
<1>2. call' = [call EXCEPT ![c] = x] /\ UNCHANGED <<keyLimit, taken, retired, keySem, events>>
  BY DEF TakeSlot, Through, Becomes, Goes, client
<1>3. /\ x \in CallType /\ x.total = call[c].total /\ x.keyLimit = call[c].keyLimit
      /\ x.gate = WorkOf[c] /\ x.at = IF gate = "total" THEN "sem" ELSE "find_key"
  <2>1. gate = "total" \/ gate = WorkOf[c]
    BY <1>1 DEF Proper
  <2> QED
    BY <1>1, <2>1, ConstantsAre DEF CallType, Steps
<1>4. Proper(c, x)
  <2> HIDE DEF x
  <2> QED
    BY <1>1, <1>3 DEF Proper, Limited
<1>5. CallInv' /\ call'[c] = x /\ \A d \in Calls : d # c => call'[d] = call[d]
  <2> HIDE DEF x
  <2>1. x.at \notin {"key", "request"}
    BY <1>3
  <2> QED
    BY <1>2, <1>3, <1>4, <2>1, MovesOnly DEF IInv
<1>6. /\ Passed(c)' = Passed(c) \cup {gate} /\ Holds(c)' = Holds(c)
      /\ \A g \in Gates : LimitOf(c, g)' = LimitOf(c, g)
  <2>1. /\ call'[c].at = IF gate = "total" THEN "sem" ELSE "find_key"
        /\ call'[c].gate = WorkOf[c] /\ call'[c].total = call[c].total
    BY <1>3, <1>5
  <2>2. WorkOf[c] # "total" /\ (gate # "total" => gate = WorkOf[c])
    BY <1>1, ConstantsAre DEF Proper
  <2>3. Passed(c) = (IF gate = "total" THEN {} ELSE {"total"}) /\ Holds(c) = Passed(c) \cup {gate}
    BY <1>1 DEF Passed, Running, Holds
  <2>4. Passed(c)' = (IF gate = "total" THEN {"total"} ELSE {"total", WorkOf[c]})
          /\ Holds(c)' = Passed(c)'
    BY <2>1, <2>2 DEF Passed, Running, Holds
  <2> HIDE DEF x, gate
  <2> QED
    BY <2>1, <2>2, <2>3, <2>4 DEF LimitOf
<1>7. PermitInv'
  <2>1. \A d \in Calls : /\ Holds(d)' = Holds(d)
                         /\ \A g \in Gates : LimitOf(d, g)' = LimitOf(d, g)
    BY <1>5, <1>6, OthersHold
  <2>2. \A d \in Calls : Holds(d) \subseteq Gates
    BY PassedAreGates DEF IInv
  <2> QED
    BY <1>2, <2>1, <2>2, PermitsSame DEF IInv
<1>8. SlotInv'
  <2>1. PICK i \in 0..(LimitOf(c, gate) - 1) :
               slot[gate][i] = Free /\ slot' = [slot EXCEPT ![gate][i] = c]
    BY DEF TakeSlot, Limit, LimitOf
  <2>2. LimitOf(c, gate) \in 1..MaxTotal /\ MaxTotal \in Nat
    BY <1>1, LimitIs, ConstantsAre DEF IInv, Limited
  <2> HIDE DEF x, gate
  <2>3. i \in 0..(MaxTotal - 1) /\ i < LimitOf(c, gate)
    BY <2>2
  <2> QED
    BY <1>1, <1>5, <1>6, <2>1, <2>3, SlotGained DEF IInv
<1>9. KeyInv'
  <2>1. call'[c].at # "request"
    BY <1>3, <1>5
  <2> QED
    BY <1>1, <1>2, <1>5, <2>1, KeysSame DEF IInv
<1>10. PoolInv'
  BY <1>2, PoolSame DEF IInv
<1> QED
  BY <1>5, <1>7, <1>8, <1>9, <1>10 DEF IInv

\* Out of the workload's gate a call leaves the total; out of the total it
\* holds nothing.
LEMMA UnwindIs ==
    ASSUME IInv, NEW c \in Calls, NEW answer \in {"none", "final", "rejected"},
           call[c].at \in {"sem", "slot", "leave"}, Unwind(c, answer), keySem' = keySem
    PROVE  /\ CallInv' /\ KeyInv' /\ \A d \in Calls : d # c => call'[d] = call[d]
           /\ Passed(c)' = IF call[c].gate = "total" THEN {} ELSE {"total"}
           /\ Holds(c)' = Passed(c)'
           /\ call[c].gate # "total" => \A g \in Gates : LimitOf(c, g)' = LimitOf(c, g)
<1> DEFINE old == call[c]
           next == FirstIn(old.todo)
           again == [[old EXCEPT !.answer = "none"]
                       EXCEPT !.at = "prepare", !.ref = next, !.todo = old.todo \ {next}]
           x == IF old.gate # "total"
                THEN [old EXCEPT !.at = "leave", !.gate = "total", !.answer = answer]
                ELSE IF answer = "rejected" /\ old.todo # {} THEN again ELSE Over
<1>1. old \in CallType /\ Proper(c, old)
  BY DEF IInv, CallInv
<1>2. call' = [call EXCEPT ![c] = x]
  BY DEF Unwind, Becomes, Tries
<1>3. Over \in CallType /\ Over.at = "over" /\ Over.gate = "total"
  BY ConstantsAre, BoundsAssumption DEF Over, Idle, CallType, Steps, Gates
<1>4. old.todo # {} => again \in CallType /\ again.at = "prepare" /\ again.gate = old.gate
  <2>1. old.todo # {} => next \in Keys
    BY <1>1, FirstIs DEF CallType
  <2> HIDE DEF next
  <2> QED
    BY <1>1, <2>1 DEF CallType, Steps
<1>5. /\ x \in CallType /\ x.gate = "total"
      /\ old.gate # "total" => x.at = "leave" /\ x.total = old.total /\ x.keyLimit = old.keyLimit
      /\ old.gate = "total" => x.at \in {"prepare", "over"}
  <2>1. CASE old.gate # "total"
    <3>1. "total" \in Gates /\ x = [old EXCEPT !.at = "leave", !.gate = "total", !.answer = answer]
      BY <2>1 DEF Gates
    <3> HIDE DEF x
    <3> QED
      BY <1>1, <2>1, <3>1 DEF CallType, Steps
  <2>2. CASE old.gate = "total"
    <3> HIDE DEF again
    <3> QED
      BY <1>3, <1>4, <2>2
  <2> QED
    BY <2>1, <2>2
<1> HIDE DEF x
<1>6. Proper(c, x)
  BY <1>1, <1>5 DEF Proper, Limited
<1>7. CallInv' /\ call'[c] = x /\ \A d \in Calls : d # c => call'[d] = call[d]
  <2>1. x.at \notin {"key", "request"}
    BY <1>5
  <2> QED
    BY <1>2, <1>5, <1>6, <2>1, MovesOnly DEF IInv
<1>8. KeyInv'
  <2>1. call'[c].at # "request"
    BY <1>5, <1>7
  <2> QED
    BY <1>7, <2>1, KeysSame DEF IInv
<1>9. Passed(c)' = (IF old.gate = "total" THEN {} ELSE {"total"}) /\ Holds(c)' = Passed(c)'
  BY <1>5, <1>7 DEF Passed, Running, Holds
<1>10. old.gate # "total" => \A g \in Gates : LimitOf(c, g)' = LimitOf(c, g)
  BY <1>5, <1>7 DEF LimitOf
<1> QED
  BY <1>7, <1>8, <1>9, <1>10

LEMMA TimeOutKeeps ==
    ASSUME IInv, NEW c \in Calls, TimeOut(c)
    PROVE  IInv'
<1> DEFINE gate == call[c].gate
<1>0. CallInv /\ call[c].at \in {"sem", "slot"} /\ gate \in Gates /\ Unwind(c, "final")
        /\ UNCHANGED <<keyLimit, slot, retired, keySem, events>>
  BY DEF TimeOut, client, IInv, CallInv, CallType
<1>1. /\ CallInv' /\ KeyInv' /\ \A d \in Calls : d # c => call'[d] = call[d]
      /\ Passed(c)' = IF gate = "total" THEN {} ELSE {"total"}
      /\ Holds(c)' = Passed(c)'
      /\ gate # "total" => \A g \in Gates : LimitOf(c, g)' = LimitOf(c, g)
  BY <1>0, UnwindIs
<1>2. Passed(c)' = Passed(c)
      /\ Holds(c) = (IF call[c].at = "slot" THEN Passed(c) \cup {gate} ELSE Passed(c))
      /\ gate \notin Passed(c)
  BY <1>0, <1>1 DEF Passed, Running, Holds
<1>3. \A g \in Passed(c) : LimitOf(c, g)' = LimitOf(c, g)
  <2>1. Passed(c) \subseteq Gates
    BY <1>0, PassedAreGates
  <2> HIDE DEF gate
  <2> QED
    BY <1>1, <1>2, <2>1
<1>4. SlotInv'
  <2>1. \A d \in Calls : d # c => /\ Passed(d)' = Passed(d)
                                  /\ \A g \in Gates : LimitOf(d, g)' = LimitOf(d, g)
    BY <1>1, OthersHold
  <2>2. \A d \in Calls : /\ Passed(d)' = Passed(d)
                         /\ \A g \in Passed(d) : LimitOf(d, g)' = LimitOf(d, g)
    <3> TAKE d \in Calls
    <3>1. Passed(d) \subseteq Gates
      BY <1>0, PassedAreGates
    <3> QED
      BY <3>1, <2>1, <1>2, <1>3
  <2> QED
    BY <1>0, <2>2, SlotsSame DEF IInv
<1>5. PermitInv'
  <2>1. CASE call[c].at = "sem"
    <3>1. taken' = taken
      BY <2>1 DEF TimeOut
    <3>2. \A d \in Calls : d # c => /\ Holds(d)' = Holds(d)
                                    /\ \A g \in Gates : LimitOf(d, g)' = LimitOf(d, g)
      BY <1>1, OthersHold
    <3>3. Holds(c)' = Holds(c) /\ \A g \in Holds(c) : LimitOf(c, g)' = LimitOf(c, g)
      BY <2>1, <1>1, <1>2, <1>3
    <3>4. \A d \in Calls : /\ Holds(d)' = Holds(d)
                           /\ \A g \in Holds(d) : LimitOf(d, g)' = LimitOf(d, g)
      <4> TAKE d \in Calls
      <4>1. Holds(d) \subseteq Gates
        BY <1>0, PassedAreGates
      <4> QED
        BY <4>1, <3>2, <3>3
    <3> QED
      BY <3>1, <3>4, PermitsSame DEF IInv
  <2>2. CASE call[c].at = "slot"
    <3>1. LimitOf(c, gate) \in 1..MaxTotal
      BY <1>0, <2>2, LimitIs DEF Limited
    <3>2. taken' = [taken EXCEPT ![ProcessOf(c)][gate][LimitOf(c, gate)] =
                                    taken[ProcessOf(c)][gate][LimitOf(c, gate)] - 1]
      BY <2>2 DEF TimeOut, PermitsOf, PermitsUsed, Limit, LimitOf
    <3>3. gate \in Holds(c) /\ Holds(c)' = Holds(c) \ {gate}
      <4> HIDE DEF gate
      <4> QED
        BY <2>2, <1>1, <1>2
    <3>4. \A g \in Holds(c)' : LimitOf(c, g)' = LimitOf(c, g)
      BY <1>1, <1>2, <1>3
    <3> HIDE DEF gate
    <3> QED
      BY <1>0, <1>1, <3>1, <3>2, <3>3, <3>4, PermitLost DEF IInv
  <2> QED
    BY <1>0, <2>1, <2>2
<1>6. PoolInv'
  BY <1>0, PoolSame DEF IInv
<1> QED
  BY <1>1, <1>4, <1>5, <1>6 DEF IInv

LEMMA LeaveKeeps ==
    ASSUME IInv, NEW c \in Calls, Leave(c)
    PROVE  IInv'
<1> DEFINE gate == call[c].gate
<1>0. /\ CallInv /\ call[c].at = "leave" /\ gate \in Gates /\ Unwind(c, call[c].answer)
      /\ call[c].answer \in {"none", "final", "rejected"}
      /\ UNCHANGED <<keyLimit, keySem, events>>
  BY DEF Leave, IInv, CallInv, CallType
<1>1. /\ CallInv' /\ KeyInv' /\ \A d \in Calls : d # c => call'[d] = call[d]
      /\ Passed(c)' = IF gate = "total" THEN {} ELSE {"total"}
      /\ Holds(c)' = Passed(c)'
      /\ gate # "total" => \A g \in Gates : LimitOf(c, g)' = LimitOf(c, g)
  BY <1>0, UnwindIs
<1>2. /\ Passed(c) = {"total", gate} /\ Holds(c) = Passed(c)
      /\ Passed(c)' = Passed(c) \ {gate} /\ Holds(c)' = Holds(c) \ {gate}
  BY <1>0, <1>1 DEF Passed, Running, Holds
<1>3. \A g \in Passed(c)' : LimitOf(c, g)' = LimitOf(c, g)
  <2>1. Passed(c) \subseteq Gates
    BY <1>0, PassedAreGates
  <2> HIDE DEF gate
  <2> QED
    BY <1>1, <1>2, <2>1
<1>4. SlotInv'
  <2>1. slot' = [slot EXCEPT ![gate] = [i \in DOMAIN @ |-> IF @[i] = c THEN Free ELSE @[i]]]
    BY DEF Leave
  <2> HIDE DEF gate
  <2> QED
    BY <1>0, <1>1, <1>2, <1>3, <2>1, SlotLost DEF IInv
<1>5. PermitInv'
  <2>1. LimitOf(c, gate) \in 1..MaxTotal
    BY <1>0, LimitIs DEF Limited
  <2>2. taken' = [taken EXCEPT ![ProcessOf(c)][gate][LimitOf(c, gate)] =
                                  taken[ProcessOf(c)][gate][LimitOf(c, gate)] - 1]
    BY DEF Leave, PermitsOf, PermitsUsed, Limit, LimitOf
  <2>3. gate \in Holds(c) /\ Holds(c)' = Holds(c) \ {gate}
    BY <1>2
  <2>4. \A g \in Holds(c)' : LimitOf(c, g)' = LimitOf(c, g)
    BY <1>1, <1>3
  <2> HIDE DEF gate
  <2> QED
    BY <1>0, <1>1, <2>1, <2>2, <2>3, <2>4, PermitLost DEF IInv
<1>6. PoolInv'
  <2>1. Ref(c) \in Keys /\ ClientOf[c] \in Clients
    BY <1>0, ConstantsAre DEF CallInv, CallType, Ref
  <2>2. retired' \in [Clients -> SUBSET Keys]
    <3>1. retired \in [Clients -> SUBSET Keys] /\ retired[ClientOf[c]] \cup {Ref(c)} \in SUBSET Keys
      BY <2>1 DEF IInv, PoolInv
    <3> QED
      BY <2>1, <3>1 DEF Leave
  <2> QED
    BY <1>0, <2>2 DEF IInv, PoolInv
<1> QED
  BY <1>1, <1>4, <1>5, <1>6 DEF IInv

-----------------------------------------------------------------------------
(* The actions outside the gates. *)

LEMMA BeginKeeps ==
    ASSUME IInv, NEW c \in Calls, Begin(c)
    PROVE  IInv'
<1>1. call[c].at = "new" /\ UNCHANGED <<keyLimit, taken, slot, retired, keySem, events>>
  BY DEF Begin, gates, client
<1>2. Idle \in CallType /\ Over \in CallType /\ Over.at = "over" /\ Over.gate = "total"
  BY ConstantsAre, BoundsAssumption DEF Over, Idle, CallType, Steps, Gates
<1>3. PICK x \in CallType : /\ call' = [call EXCEPT ![c] = x]
                            /\ x.at \in {"prepare", "over"} /\ x.gate = "total"
  <2> DEFINE refs == Candidates(ClientOf[c])
  <2>1. refs \in SUBSET Keys
    BY DEF Candidates
  <2>2. CASE refs = {}
    <3>1. call' = [call EXCEPT ![c] = Over]
      BY <2>2 DEF Begin, Becomes
    <3> QED
      BY <3>1, <1>2
  <2>3. CASE refs # {}
    <3>1. PICK first \in FirstOf[c] :
                 Tries(c, Idle, IF first \in refs THEN first ELSE FirstIn(refs), refs)
      BY <2>3 DEF Begin
    <3> DEFINE ref == IF first \in refs THEN first ELSE FirstIn(refs)
               x == [Idle EXCEPT !.at = "prepare", !.ref = ref, !.todo = refs \ {ref}]
    <3>2. ref \in Keys
      BY <2>1, <2>3, FirstIs
    <3> HIDE DEF ref, refs
    <3>3. x \in CallType /\ x.at = "prepare" /\ x.gate = "total"
      <4>1. Idle.gate = "total"
        BY DEF Idle
      <4>2. refs \ {ref} \in SUBSET Keys
        BY <2>1
      <4> QED
        BY <1>2, <3>2, <4>1, <4>2 DEF CallType, Steps
    <3>4. call' = [call EXCEPT ![c] = x]
      BY <3>1 DEF Tries, Becomes, ref
    <3> QED
      BY <3>3, <3>4
  <2> QED
    BY <2>2, <2>3
<1>4. Proper(c, x) /\ x.at \notin {"key", "request"}
  BY <1>3 DEF Proper, Limited
<1>5. CallInv' /\ call'[c] = x /\ \A d \in Calls : d # c => call'[d] = call[d]
  BY <1>1, <1>3, <1>4, MovesOnly DEF IInv
<1>6. Passed(c) = {} /\ Holds(c) = {} /\ Passed(c)' = {} /\ Holds(c)' = {}
  BY <1>1, <1>3, <1>5 DEF Passed, Running, Holds
<1>7. PermitInv' /\ SlotInv'
  BY <1>1, <1>5, <1>6, GatesSame DEF IInv
<1>8. KeyInv'
  BY <1>1, <1>4, <1>5, KeysSame DEF IInv
<1>9. PoolInv'
  BY <1>1, PoolSame DEF IInv
<1> QED
  BY <1>5, <1>7, <1>8, <1>9 DEF IInv

LEMMA PrepareKeeps ==
    ASSUME IInv, NEW c \in Calls, Prepare(c)
    PROVE  IInv'
<1> DEFINE n == keyLimit[Ref(c)]
           x == [call[c] EXCEPT !.at = "sem", !.gate = "total", !.total = Total, !.keyLimit = n]
<1>1. /\ call[c].at = "prepare" /\ call[c] \in CallType
      /\ UNCHANGED <<keyLimit, taken, slot, retired, keySem, events>>
  BY DEF Prepare, gates, client, IInv, CallInv
<1>2. Total \in 1..MaxTotal /\ MaxTotal \in Nat
  BY TotalIs, ConstantsAre DEF IInv, PoolInv
<1>3. n \in 1..MaxLimit /\ MaxLimit \in Nat
  <2>1. Ref(c) \in Keys
    BY <1>1 DEF CallType, Ref
  <2> QED
    BY <2>1, BoundsAssumption DEF IInv, PoolInv, KeyLimits
<1>4. call' = [call EXCEPT ![c] = x]
  BY DEF Prepare, Becomes
<1>5. /\ x \in CallType /\ x.at = "sem" /\ x.gate = "total" /\ x.total # 0 /\ x.keyLimit # 0
  <2> DEFINE t == Total
  <2>1. t \in 0..MaxTotal /\ t # 0 /\ n \in 0..MaxLimit /\ n # 0
    BY <1>2, <1>3
  <2> HIDE DEF t, n
  <2>2. x = [call[c] EXCEPT !.at = "sem", !.gate = "total", !.total = t, !.keyLimit = n]
    BY DEF t
  <2> HIDE DEF x
  <2>3. x \in CallType
    BY <1>1, <2>1, <2>2 DEF CallType, Steps, Gates
  <2>4. x.at = "sem" /\ x.gate = "total" /\ x.total = t /\ x.keyLimit = n
    BY <1>1, <2>2 DEF CallType
  <2> QED
    BY <2>1, <2>3, <2>4
<1> HIDE DEF x
<1>6. Proper(c, x) /\ x.at \notin {"key", "request"}
  BY <1>5 DEF Proper
<1>7. CallInv' /\ call'[c] = x /\ \A d \in Calls : d # c => call'[d] = call[d]
  BY <1>1, <1>4, <1>5, <1>6, MovesOnly DEF IInv
<1>8. Passed(c) = {} /\ Holds(c) = {} /\ Passed(c)' = {} /\ Holds(c)' = {}
  BY <1>1, <1>5, <1>7 DEF Passed, Running, Holds
<1>9. PermitInv' /\ SlotInv'
  BY <1>1, <1>7, <1>8, GatesSame DEF IInv
<1>10. KeyInv'
  BY <1>1, <1>6, <1>7, KeysSame DEF IInv
<1>11. PoolInv'
  BY <1>1, PoolSame DEF IInv
<1> QED
  BY <1>7, <1>9, <1>10, <1>11 DEF IInv

-----------------------------------------------------------------------------
(* The actions at the key. *)

LEMMA RequestingFinite ==
    ASSUME NEW k, NEW r, NEW n
    PROVE  /\ IsFiniteSet(Requesting(k, r, n)) /\ Cardinality(Requesting(k, r, n)) \in Nat
           /\ IsFiniteSet(Requesting(k, r, n)') /\ Cardinality(Requesting(k, r, n)') \in Nat
<1>1. Requesting(k, r, n) \in SUBSET Calls /\ Requesting(k, r, n)' \in SUBSET Calls
  BY DEF Requesting
<1> QED
  BY <1>1, CallsAssumption, FS_Subset, FS_CardinalityType

Semaphore == [limit : KeyLimits, used : Nat]

\* A step of c that changes the semaphores of the key it tries.
LEMMA KeysAre ==
    ASSUME IInv, NEW c \in Calls, NEW sems \in Seq(Semaphore),
           keySem' = [keySem EXCEPT ![ClientOf[c]][Ref(c)] = sems]
    PROVE  /\ keySem' \in [Clients -> [Keys -> Seq(Semaphore)]]
           /\ keySem'[ClientOf[c]][Ref(c)] = sems
           /\ \A k \in Clients, r \in Keys :
                k # ClientOf[c] \/ r # Ref(c) => keySem'[k][r] = keySem[k][r]
<1> DEFINE k0 == ClientOf[c]
           r0 == Ref(c)
           new == [keySem[k0] EXCEPT ![r0] = sems]
<1>1. k0 \in Clients /\ r0 \in Keys /\ keySem \in [Clients -> [Keys -> Seq(Semaphore)]]
  BY ConstantsAre DEF IInv, KeyInv, CallInv, CallType, Ref, Semaphore
<1>2. keySem' = [keySem EXCEPT ![k0] = new]
  OBVIOUS
<1> HIDE DEF k0, r0
<1>3. new \in [Keys -> Seq(Semaphore)] /\ new[r0] = sems
        /\ \A r \in Keys : r # r0 => new[r] = keySem[k0][r]
  BY <1>1
<1> HIDE DEF new
<1>4. keySem' \in [Clients -> [Keys -> Seq(Semaphore)]]
        /\ \A k \in Clients : keySem'[k] = IF k = k0 THEN new ELSE keySem[k]
  BY <1>1, <1>2, <1>3
<1>5. keySem'[k0][r0] = sems
  BY <1>1, <1>3, <1>4
<1>6. \A k \in Clients, r \in Keys : k # k0 \/ r # r0 => keySem'[k][r] = keySem[k][r]
  BY <1>1, <1>3, <1>4
<1> QED
  BY <1>4, <1>5, <1>6 DEF k0, r0

LEMMA SemsAre ==
    ASSUME IInv, NEW c \in Calls
    PROVE  /\ ClientOf[c] \in Clients /\ Ref(c) \in Keys
           /\ SemsOf(c) \in Seq(Semaphore) /\ Len(SemsOf(c)) \in Nat
           /\ SemsOf(c) = keySem[ClientOf[c]][Ref(c)]
           /\ \A k \in Clients, r \in Keys : Len(keySem[k][r]) \in Nat
<1>1. ClientOf[c] \in Clients /\ Ref(c) \in Keys
  BY ConstantsAre DEF IInv, CallInv, CallType, Ref
<1>2. keySem \in [Clients -> [Keys -> Seq(Semaphore)]]
  BY DEF IInv, KeyInv, Semaphore
<1>3. \A k \in Clients, r \in Keys : keySem[k][r] \in Seq(Semaphore)
  BY <1>2
<1>4. \A k \in Clients, r \in Keys : Len(keySem[k][r]) \in Nat
  BY <1>3
<1> QED
  BY <1>1, <1>3, <1>4 DEF SemsOf

\* A step of c that changes how many use the semaphore it has found.
LEMMA KeyUse ==
    ASSUME IInv, NEW c \in Calls, NEW x \in CallType, NEW n \in Nat,
           NEW r0, r0 = Ref(c), NEW s0, s0 = call[c].sem,
           call[c].at \in {"key", "request"}, Proper(c, x), HasKey(x, SemsOf(c)),
           x.ref = call[c].ref, call' = [call EXCEPT ![c] = x],
           keySem' = [keySem EXCEPT ![ClientOf[c]][r0][s0].used = n],
           n = Cardinality(Requesting(ClientOf[c], r0, s0)'), x.at = "request" => x.sem = s0
    PROVE  CallInv' /\ KeyInv' /\ call'[c] = x /\ \A d \in Calls : d # c => call'[d] = call[d]
<1> DEFINE k0 == ClientOf[c]
           old == SemsOf(c)
           sem == [old[s0] EXCEPT !.used = n]
           sems == [old EXCEPT ![s0] = sem]
<1>1. /\ k0 \in Clients /\ r0 \in Keys /\ old \in Seq(Semaphore) /\ Len(old) \in Nat
      /\ old = keySem[k0][r0] /\ \A k \in Clients, r \in Keys : Len(keySem[k][r]) \in Nat
  BY SemsAre
<1>2. s0 \in 1..Len(old)
  BY DEF IInv, CallInv, HasKey
<1>3. old[s0] \in Semaphore
  BY <1>1, <1>2
<1>4. sem \in Semaphore /\ sem.used = n
  <2> HIDE DEF old
  <2> QED
    BY <1>3 DEF Semaphore
<1>5. /\ sems \in Seq(Semaphore) /\ Len(sems) = Len(old) /\ sems[s0] = sem
      /\ \A i \in 1..Len(old) : i # s0 => sems[i] = old[i]
  <2> HIDE DEF old, sem
  <2> QED
    BY <1>1, <1>2, <1>4
<1>6. keySem' = [keySem EXCEPT ![ClientOf[c]][Ref(c)] = sems]
  BY <1>1
<1> HIDE DEF sems
<1>7. /\ keySem' \in [Clients -> [Keys -> Seq(Semaphore)]] /\ keySem'[k0][r0] = sems
      /\ \A k \in Clients, r \in Keys : k # k0 \/ r # r0 => keySem'[k][r] = keySem[k][r]
  <2>1. /\ keySem' \in [Clients -> [Keys -> Seq(Semaphore)]]
        /\ keySem'[ClientOf[c]][Ref(c)] = sems
        /\ \A k \in Clients, r \in Keys :
             k # ClientOf[c] \/ r # Ref(c) => keySem'[k][r] = keySem[k][r]
    <3>1. sems \in Seq(Semaphore)
      BY <1>5
    <3> QED
      BY <3>1, <1>6, KeysAre
  <2> QED
    BY <2>1
<1> HIDE DEF k0, old, sem
<1>8. \A k \in Clients, r \in Keys : Len(keySem'[k][r]) = Len(keySem[k][r])
  <2>1. Len(keySem'[k0][r0]) = Len(keySem[k0][r0])
    BY <1>1, <1>5, <1>7
  <2>2. ASSUME NEW k \in Clients, NEW r \in Keys, k # k0 \/ r # r0
        PROVE  keySem'[k][r] = keySem[k][r]
    BY <1>7, <2>2
  <2> QED
    BY <2>1, <2>2
<1>9. CallInv' /\ call'[c] = x /\ \A d \in Calls : d # c => call'[d] = call[d]
  <2>1. HasKey(x, keySem'[ClientOf[c]][x.ref])
    <3>1. x.ref = r0 /\ HasKey(x, old)
      BY DEF Ref, old
    <3> QED
      BY <3>1, <1>5, <1>7 DEF HasKey, k0
  <2>2. \A d \in Calls : /\ ClientOf[d] \in Clients /\ Ref(d) \in Keys
                         /\ Len(keySem[ClientOf[d]][Ref(d)]) \in Nat
    BY SemsAre
  <2>3. \A d \in Calls : /\ Len(keySem'[ClientOf[d]][Ref(d)]) \in Nat
                         /\ Len(keySem[ClientOf[d]][Ref(d)]) <= Len(keySem'[ClientOf[d]][Ref(d)])
    BY <2>2, <1>8
  <2> QED
    BY <2>1, <2>2, <2>3, Moves DEF IInv
<1>10. ASSUME NEW k \in Clients, NEW r \in Keys, NEW i \in 1..Len(keySem'[k][r])
       PROVE  keySem'[k][r][i].used = Cardinality(Requesting(k, r, i)')
  <2>1. i \in 1..Len(keySem[k][r])
    BY <1>8
  <2>2. keySem[k][r][i].used = Cardinality(Requesting(k, r, i))
    BY <2>1 DEF IInv, KeyInv
  <2>3. CASE k = k0 /\ r = r0 /\ i = s0
    BY <2>3, <1>2, <1>4, <1>5, <1>7 DEF k0
  <2>4. CASE ~(k = k0 /\ r = r0 /\ i = s0)
    <3>1. keySem'[k][r][i] = keySem[k][r][i]
      <4>1. CASE k # k0 \/ r # r0
        BY <4>1, <1>7
      <4>2. CASE k = k0 /\ r = r0
        <5>1. i \in 1..Len(old) /\ i # s0
          BY <1>1, <2>1, <2>4, <4>2
        <5>2. sems[i] = old[i]
          BY <1>5, <5>1
        <5> QED
          BY <1>1, <1>7, <4>2, <5>2
      <4> QED
        BY <4>1, <4>2
    <3>2. Requesting(k, r, i)' = Requesting(k, r, i)
      <4>1. c \notin Requesting(k, r, i)
        BY <2>4 DEF Requesting, k0, Ref
      <4>2. c \notin Requesting(k, r, i)'
        BY <2>4, <1>9 DEF Requesting, k0, Ref
      <4> QED
        BY <4>1, <4>2, <1>9 DEF Requesting
    <3> QED
      BY <2>2, <3>1, <3>2
  <2> QED
    BY <2>3, <2>4
<1>11. KeyInv'
  BY <1>7, <1>10 DEF KeyInv, Semaphore
<1> QED
  BY <1>9, <1>11

LEMMA TakeKeyKeeps ==
    ASSUME IInv, NEW c \in Calls, TakeKey(c)
    PROVE  IInv'
<1>0. PICK r, s : r = Ref(c) /\ s = call[c].sem
  OBVIOUS
<1> DEFINE x == [call[c] EXCEPT !.at = "request"]
           k == ClientOf[c]
           R == Requesting(k, r, s)
           n == SemsOf(c)[s].used + 1
<1>1. /\ call[c].at = "key" /\ call[c] \in CallType /\ Proper(c, call[c])
      /\ HasKey(call[c], SemsOf(c)) /\ UNCHANGED <<keyLimit, taken, slot, retired, events>>
  BY DEF IInv, CallInv, TakeKey, gates
<1>2. call' = [call EXCEPT ![c] = x]
  BY DEF TakeKey, Goes
<1>3. /\ x \in CallType /\ x.at = "request" /\ x.ref = call[c].ref /\ x.sem = s
      /\ x.gate = call[c].gate /\ x.total = call[c].total /\ x.keyLimit = call[c].keyLimit
  BY <1>0, <1>1 DEF CallType, Steps
<1> HIDE DEF x
<1>4. Proper(c, x) /\ HasKey(x, SemsOf(c))
  BY <1>0, <1>1, <1>3 DEF Proper, HasKey, Limited
<1>5. call'[c] = x /\ \A d \in Calls : d # c => call'[d] = call[d]
  BY <1>2, <1>3 DEF IInv, CallInv
<1>6. R' = R \cup {c} /\ c \notin R
  <2>1. c \in Requesting(k, r, s)' /\ c \notin Requesting(k, r, s)
    BY <1>0, <1>1, <1>3, <1>5 DEF Requesting, Ref
  <2> QED
    BY <2>1, <1>5 DEF Requesting
<1>7. n = Cardinality(R') /\ n \in Nat
  <2>1. IsFiniteSet(R) /\ Cardinality(R) \in Nat
    BY RequestingFinite
  <2>2. Cardinality(R \cup {c}) = Cardinality(R) + 1
    <3> HIDE DEF R
    <3> QED
      BY <2>1, <1>6, FS_AddElement
  <2>3. SemsOf(c)[s].used = Cardinality(R)
    <3>1. k \in Clients /\ r \in Keys /\ SemsOf(c) = keySem[k][r]
      BY <1>0, SemsAre
    <3>2. s \in 1..Len(SemsOf(c))
      BY <1>0, <1>1 DEF HasKey
    <3> QED
      BY <3>1, <3>2 DEF IInv, KeyInv
  <2> QED
    BY <2>1, <2>2, <2>3, <1>6
<1>8. keySem' = [keySem EXCEPT ![k][r][s].used = n]
  BY <1>0 DEF TakeKey, SemsOf
<1>9. CallInv' /\ KeyInv'
  <2>1. n = Cardinality(Requesting(k, r, s)')
    BY <1>6, <1>7
  <2> HIDE DEF n
  <2> QED
    BY <1>0, <1>1, <1>2, <1>3, <1>4, <1>7, <1>8, <2>1, KeyUse
<1>10. Passed(c)' = Passed(c) /\ Holds(c)' = Holds(c) /\ call'[c].total = call[c].total
  BY <1>1, <1>3, <1>5 DEF Passed, Running, Holds
<1>11. PermitInv' /\ SlotInv'
  BY <1>1, <1>5, <1>10, GatesSame DEF IInv
<1>12. PoolInv'
  BY <1>1, PoolSame DEF IInv
<1> QED
  BY <1>9, <1>11, <1>12 DEF IInv

LEMMA AnswerKeeps ==
    ASSUME IInv, NEW c \in Calls, Answer(c)
    PROVE  IInv'
<1>1. PICK answer \in {"final", "rejected"} :
             /\ Counts(answer = "rejected")
             /\ Becomes(c, [call[c] EXCEPT !.at = "leave", !.gate = WorkOf[c], !.sem = 0,
                                           !.answer = answer])
  BY DEF Answer
<1>0. PICK r, s : r = Ref(c) /\ s = call[c].sem
  OBVIOUS
<1> DEFINE x == [call[c] EXCEPT !.at = "leave", !.gate = WorkOf[c], !.sem = 0, !.answer = answer]
           k == ClientOf[c]
           R == Requesting(k, r, s)
           n == SemsOf(c)[s].used - 1
<1>2. /\ call[c].at = "request" /\ call[c] \in CallType /\ Proper(c, call[c])
      /\ HasKey(call[c], SemsOf(c)) /\ UNCHANGED <<keyLimit, taken, slot, retired>>
  BY DEF IInv, CallInv, Answer, gates
<1>3. call' = [call EXCEPT ![c] = x]
  BY <1>1 DEF Becomes
<1>4. /\ x \in CallType /\ x.at = "leave" /\ x.ref = call[c].ref /\ x.gate = WorkOf[c]
      /\ x.total = call[c].total /\ x.keyLimit = call[c].keyLimit
  <2>1. WorkOf[c] \in Gates
    BY ConstantsAre
  <2> QED
    BY <1>2, <2>1 DEF CallType, Steps
<1> HIDE DEF x
<1>5. Proper(c, x) /\ HasKey(x, SemsOf(c))
  BY <1>2, <1>4 DEF Proper, HasKey, Limited
<1>6. call'[c] = x /\ \A d \in Calls : d # c => call'[d] = call[d]
  BY <1>3, <1>4 DEF IInv, CallInv
<1>7. R' = R \ {c} /\ c \in R
  <2>1. c \notin Requesting(k, r, s)' /\ c \in Requesting(k, r, s)
    BY <1>0, <1>2, <1>4, <1>6 DEF Requesting, Ref
  <2> QED
    BY <2>1, <1>6 DEF Requesting
<1>8. n = Cardinality(R') /\ n \in Nat
  <2>1. IsFiniteSet(R) /\ Cardinality(R) \in Nat /\ Cardinality(R') \in Nat
    BY RequestingFinite
  <2>2. Cardinality(R \ {c}) = Cardinality(R) - 1
    <3> HIDE DEF R
    <3> QED
      BY <2>1, <1>7, FS_RemoveElement
  <2>3. SemsOf(c)[s].used = Cardinality(R)
    <3>1. k \in Clients /\ r \in Keys /\ SemsOf(c) = keySem[k][r]
      BY <1>0, SemsAre
    <3>2. s \in 1..Len(SemsOf(c))
      BY <1>0, <1>2 DEF HasKey
    <3> QED
      BY <3>1, <3>2 DEF IInv, KeyInv
  <2> QED
    BY <2>1, <2>2, <2>3, <1>7
<1>9. keySem' = [keySem EXCEPT ![k][r][s].used = n]
  BY <1>0 DEF Answer, SemsOf
<1>10. CallInv' /\ KeyInv'
  <2>1. n = Cardinality(Requesting(k, r, s)')
    BY <1>7, <1>8
  <2> HIDE DEF n
  <2> QED
    BY <1>0, <1>2, <1>3, <1>4, <1>5, <1>8, <1>9, <2>1, KeyUse
<1>11. Passed(c)' = Passed(c) /\ Holds(c)' = Holds(c) /\ call'[c].total = call[c].total
  BY <1>2, <1>4, <1>6 DEF Passed, Running, Holds
<1>12. PermitInv' /\ SlotInv'
  BY <1>2, <1>6, <1>11, GatesSame DEF IInv
<1>13. PoolInv'
  <2>1. events' \in 0..MaxEvents
    BY <1>1, BoundsAssumption DEF IInv, PoolInv, Counts
  <2> QED
    BY <1>2, <2>1 DEF IInv, PoolInv
<1> QED
  BY <1>10, <1>12, <1>13 DEF IInv

LEMMA FindKeyKeeps ==
    ASSUME IInv, NEW c \in Calls, FindKey(c)
    PROVE  IInv'
<1>0. PICK r : r = Ref(c)
  OBVIOUS
<1> DEFINE k == ClientOf[c]
           old == SemsOf(c)
           current == old # <<>> /\ Last(old).limit = call[c].keyLimit
           sem == [limit |-> call[c].keyLimit, used |-> 0]
           sems == IF current THEN old ELSE Append(old, sem)
           n == Len(sems)
           x == [call[c] EXCEPT !.at = "key", !.sem = n]
<1>1. /\ call[c].at = "find_key" /\ call[c] \in CallType /\ Proper(c, call[c])
      /\ UNCHANGED <<keyLimit, taken, slot, retired, events>>
  BY DEF IInv, CallInv, FindKey, gates
<1>2. call' = [call EXCEPT ![c] = x] /\ keySem' = [keySem EXCEPT ![ClientOf[c]][Ref(c)] = sems]
  BY DEF FindKey, Becomes
<1>3. /\ k \in Clients /\ r \in Keys /\ old \in Seq(Semaphore) /\ Len(old) \in Nat
      /\ old = keySem[k][r] /\ \A l \in Clients, q \in Keys : Len(keySem[l][q]) \in Nat
  BY <1>0, SemsAre
<1>4. sem \in Semaphore /\ sem.used = 0
  BY <1>1, BoundsAssumption DEF Proper, Limited, CallType, Semaphore, KeyLimits
<1>5. /\ sems \in Seq(Semaphore) /\ n \in Nat /\ n # 0 /\ Len(old) <= n
      /\ \A i \in 1..Len(old) : sems[i] = old[i]
      /\ \A i \in 1..n : i \notin 1..Len(old) => sems[i] = sem
  <2> HIDE DEF old, sem
  <2>1. CASE current
    <3>1. sems = old /\ old # <<>> /\ n = Len(old)
      BY <2>1
    <3> HIDE DEF sems, n
    <3>2. n \in Nat /\ n # 0 /\ sems \in Seq(Semaphore)
      BY <3>1, <1>3
    <3> QED
      BY <3>1, <3>2
  <2>2. CASE ~current
    <3>1. sems = Append(old, sem)
      BY <2>2
    <3>2. /\ sems \in Seq(Semaphore) /\ n = Len(old) + 1 /\ sems[Len(old) + 1] = sem
          /\ \A i \in 1..Len(old) : sems[i] = old[i]
      <4> HIDE DEF sems
      <4> QED
        BY <1>3, <1>4, <3>1
    <3> HIDE DEF sems, n
    <3> QED
      BY <1>3, <3>2
  <2> QED
    BY <2>1, <2>2
<1> HIDE DEF sems
<1>6. /\ keySem' \in [Clients -> [Keys -> Seq(Semaphore)]] /\ keySem'[k][r] = sems
      /\ \A l \in Clients, q \in Keys : l # k \/ q # r => keySem'[l][q] = keySem[l][q]
  <2>1. /\ keySem' \in [Clients -> [Keys -> Seq(Semaphore)]]
        /\ keySem'[ClientOf[c]][Ref(c)] = sems
        /\ \A l \in Clients, q \in Keys :
             l # ClientOf[c] \/ q # Ref(c) => keySem'[l][q] = keySem[l][q]
    <3>1. sems \in Seq(Semaphore)
      BY <1>5
    <3> QED
      BY <3>1, <1>2, KeysAre
  <2> QED
    BY <2>1, <1>0
<1> HIDE DEF n
<1>7. /\ x \in CallType /\ x.at = "key" /\ x.ref = r /\ x.sem = n
      /\ x.gate = call[c].gate /\ x.total = call[c].total /\ x.keyLimit = call[c].keyLimit
  BY <1>0, <1>1, <1>5 DEF CallType, Steps, Ref
<1> HIDE DEF x
<1>8. Proper(c, x)
  BY <1>1, <1>7 DEF Proper, Limited
<1> HIDE DEF k, old
<1>9. CallInv' /\ call'[c] = x /\ \A d \in Calls : d # c => call'[d] = call[d]
  <2>1. HasKey(x, keySem'[ClientOf[c]][x.ref])
    <3>1. keySem'[ClientOf[c]][x.ref] = sems
      BY <1>6, <1>7 DEF k
    <3>2. n \in 1..n /\ n = Len(sems)
      BY <1>5 DEF n
    <3> QED
      BY <3>1, <3>2, <1>7 DEF HasKey
  <2>2. \A d \in Calls : /\ ClientOf[d] \in Clients /\ Ref(d) \in Keys
                         /\ Len(keySem[ClientOf[d]][Ref(d)]) \in Nat
    BY SemsAre
  <2>3. \A l \in Clients, q \in Keys : /\ Len(keySem'[l][q]) \in Nat
                                       /\ Len(keySem[l][q]) <= Len(keySem'[l][q])
    BY <1>3, <1>5, <1>6, SMTT(30) DEF n
  <2> QED
    BY <1>2, <1>7, <1>8, <2>1, <2>2, <2>3, Moves DEF IInv
<1>10. \A l \in Clients, q \in Keys, i \in Nat : Requesting(l, q, i)' = Requesting(l, q, i)
  BY <1>1, <1>7, <1>9 DEF Requesting
<1>11. ASSUME NEW l \in Clients, NEW q \in Keys, NEW i \in 1..Len(keySem'[l][q])
       PROVE  keySem'[l][q][i].used = Cardinality(Requesting(l, q, i))
  <2>1. CASE i \in 1..Len(keySem[l][q])
    <3>1. keySem'[l][q][i] = keySem[l][q][i]
      <4>1. CASE l # k \/ q # r
        BY <4>1, <1>6
      <4>2. CASE l = k /\ q = r
        BY <2>1, <4>2, <1>3, <1>5, <1>6
      <4> QED
        BY <4>1, <4>2
    <3> QED
      BY <2>1, <3>1 DEF IInv, KeyInv
  <2>2. CASE i \notin 1..Len(keySem[l][q])
    <3>1. l = k /\ q = r
      BY <2>2, <1>6
    <3>2. keySem'[l][q][i] = sem
      BY <2>2, <3>1, <1>3, <1>5, <1>6 DEF n
    <3>3. Requesting(l, q, i) = {}
      <4> SUFFICES ASSUME NEW d \in Requesting(l, q, i) PROVE FALSE
        OBVIOUS
      <4>1. /\ d \in Calls /\ call[d].at = "request" /\ ClientOf[d] = l /\ Ref(d) = q
            /\ call[d].sem = i
        BY DEF Requesting, Ref
      <4>2. i \in 1..Len(SemsOf(d)) /\ SemsOf(d) = keySem[l][q]
        BY <4>1 DEF IInv, CallInv, HasKey, SemsOf
      <4> QED
        BY <4>2, <2>2
    <3>4. Cardinality(Requesting(l, q, i)) = 0
      BY <3>3, FS_EmptySet
    <3> QED
      BY <3>2, <3>4, <1>4
  <2> QED
    BY <2>1, <2>2
<1>12. KeyInv'
  <2>1. ASSUME NEW l \in Clients, NEW q \in Keys, NEW i \in 1..Len(keySem'[l][q])
        PROVE  keySem'[l][q][i].used = Cardinality(Requesting(l, q, i)')
    <3>1. i \in Nat
      OBVIOUS
    <3>2. Requesting(l, q, i)' = Requesting(l, q, i)
      BY <3>1, <1>10
    <3> QED
      BY <3>2, <1>11
  <2> QED
    BY <1>6, <2>1 DEF KeyInv, Semaphore
<1>13. Passed(c)' = Passed(c) /\ Holds(c)' = Holds(c) /\ call'[c].total = call[c].total
  BY <1>1, <1>7, <1>9 DEF Passed, Running, Holds
<1>14. PermitInv' /\ SlotInv'
  BY <1>1, <1>9, <1>13, GatesSame DEF IInv
<1>15. PoolInv'
  BY <1>1, PoolSame DEF IInv
<1> QED
  BY <1>9, <1>12, <1>14, <1>15 DEF IInv

-----------------------------------------------------------------------------
(* The environment. *)

\* A step that leaves all calls and what they hold alone.
LEMMA CallsStay ==
    ASSUME IInv, UNCHANGED <<call, taken, slot, keySem>>
    PROVE  CallInv' /\ PermitInv' /\ SlotInv' /\ KeyInv'
<1>1. CallInv'
  BY DEF IInv, CallInv, SemsOf, Ref
<1>2. KeyInv'
  <2>1. \A k, r, n : Requesting(k, r, n)' = Requesting(k, r, n)
    BY DEF Requesting
  <2>2. ASSUME NEW k \in Clients, NEW r \in Keys, NEW n \in 1..Len(keySem'[k][r])
        PROVE  keySem'[k][r][n].used = Cardinality(Requesting(k, r, n)')
    <3>1. keySem[k][r][n].used = Cardinality(Requesting(k, r, n))
      BY DEF IInv, KeyInv
    <3>2. Requesting(k, r, n)' = Requesting(k, r, n)
      BY <2>1
    <3> QED
      BY <3>1, <3>2
  <2>3. keySem' \in [Clients -> [Keys -> Seq([limit : KeyLimits, used : Nat])]]
    BY DEF IInv, KeyInv
  <2> QED
    BY <2>2, <2>3 DEF KeyInv
<1>3. \A d \in Calls : /\ Holds(d)' = Holds(d) /\ Passed(d)' = Passed(d)
                       /\ \A g \in Gates : LimitOf(d, g)' = LimitOf(d, g)
  BY OthersHold
<1>4. \A d \in Calls : Holds(d) \subseteq Gates /\ Passed(d) \subseteq Gates
  BY PassedAreGates DEF IInv
<1>5. PermitInv'
  BY <1>3, <1>4, PermitsSame DEF IInv
<1>6. SlotInv'
  BY <1>3, <1>4, SlotsSame DEF IInv
<1> QED
  BY <1>1, <1>2, <1>5, <1>6

LEMMA SetLimitKeeps ==
    ASSUME IInv, SetLimit
    PROVE  IInv'
<1>1. CallInv' /\ PermitInv' /\ SlotInv' /\ KeyInv'
  BY CallsStay DEF SetLimit, gates, client
<1>2. PoolInv'
  <2>1. PICK r \in Keys, limit \in KeyLimits : keyLimit' = [keyLimit EXCEPT ![r] = limit]
    BY DEF SetLimit
  <2>2. keyLimit' \in [Keys -> KeyLimits]
    BY <2>1 DEF IInv, PoolInv
  <2>3. events' \in 0..MaxEvents
    BY BoundsAssumption DEF SetLimit, Counts, IInv, PoolInv
  <2> QED
    BY <2>2, <2>3 DEF SetLimit, client, IInv, PoolInv
<1> QED
  BY <1>1, <1>2 DEF IInv

LEMMA CoolDownKeeps ==
    ASSUME IInv, NEW k \in Clients, CoolDown(k)
    PROVE  IInv'
<1>1. CallInv' /\ PermitInv' /\ SlotInv' /\ KeyInv'
  BY CallsStay DEF CoolDown, gates
<1>2. PoolInv'
  <2>1. PICK r : retired' = [retired EXCEPT ![k] = retired[k] \ {r}]
    BY DEF CoolDown
  <2>2. retired' \in [Clients -> SUBSET Keys]
    BY <2>1 DEF IInv, PoolInv
  <2> QED
    BY <2>2 DEF CoolDown, IInv, PoolInv
<1> QED
  BY <1>1, <1>2 DEF IInv

\* All calls of the process are over and hold nothing; the others do not
\* notice.
LEMMA CrashKeeps ==
    ASSUME IInv, NEW p \in Processes, Crash(p)
    PROVE  IInv'
<1> DEFINE dead == {c \in Calls : Running(c) /\ ProcessOf(c) = p}
<1>0. /\ call' = [c \in Calls |-> IF c \in dead THEN Over ELSE call[c]]
      /\ slot' = [g \in Gates |-> [i \in DOMAIN slot[g] |->
                    IF slot[g][i] \in dead THEN Free ELSE slot[g][i]]]
      /\ taken' = [taken EXCEPT ![p] = [g \in Gates |-> FullGate]]
      /\ retired' = [k \in Clients |-> IF Home[k] = p THEN {} ELSE retired[k]]
      /\ keySem' = [k \in Clients |-> IF Home[k] = p THEN NoSems ELSE keySem[k]]
      /\ keyLimit' = keyLimit /\ events' \in 0..MaxEvents
  BY BoundsAssumption DEF Crash, Counts, IInv, PoolInv
<1>1. PICK D : D = dead
  OBVIOUS
<1>2. Over \in CallType /\ Over.at = "over" /\ Over.gate = "total"
  BY ConstantsAre, BoundsAssumption DEF Over, Idle, CallType, Steps, Gates
<1>3. /\ D \subseteq Calls /\ \A c \in D : ProcessOf(c) = p /\ call'[c] = Over
      /\ \A c \in Calls \ D : call'[c] = call[c]
      /\ \A c \in Calls \ D : ProcessOf(c) = p => ~Running(c)
      /\ call' \in [Calls -> CallType]
  BY <1>0, <1>1, <1>2 DEF IInv, CallInv
<1> HIDE DEF dead
<1>4. \A c \in D : Passed(c)' = {} /\ Holds(c)' = {} /\ call'[c].at = "over"
  BY <1>2, <1>3 DEF Passed, Running, Holds
<1>5. \A c \in Calls \ D : /\ Passed(c)' = Passed(c) /\ Holds(c)' = Holds(c)
                           /\ \A g \in Gates : LimitOf(c, g)' = LimitOf(c, g)
  BY <1>3, OthersHold
<1>6. \A c \in Calls \ D : ProcessOf(c) = p =>
        Passed(c) = {} /\ Holds(c) = {} /\ call[c].at \notin {"key", "request"}
  BY <1>3 DEF Passed, Running, Holds
<1>7. \A k \in Clients : keySem'[k] = IF Home[k] = p THEN NoSems ELSE keySem[k]
  BY <1>0
<1>8. CallInv'
  <2> SUFFICES ASSUME NEW c \in Calls PROVE Proper(c, call'[c]) /\ HasKey(call'[c], SemsOf(c)')
    BY <1>3 DEF CallInv
  <2>1. CASE c \in D
    BY <2>1, <1>2, <1>3 DEF Proper, HasKey, Limited
  <2>2. CASE c \notin D
    <3>1. call'[c] = call[c] /\ Proper(c, call[c]) /\ HasKey(call[c], SemsOf(c))
      BY <2>2, <1>3 DEF IInv, CallInv
    <3>2. CASE ProcessOf(c) = p
      BY <2>2, <3>1, <3>2, <1>6 DEF HasKey
    <3>3. CASE ProcessOf(c) # p
      <4>1. SemsOf(c)' = SemsOf(c)
        BY <3>1, <3>3, <1>7, ConstantsAre DEF SemsOf, Ref, ProcessOf
      <4> QED
        BY <3>1, <4>1
    <3> QED
      BY <3>2, <3>3
  <2> QED
    BY <2>1, <2>2
<1>9. PermitInv'
  <2>1. taken \in [Processes -> [Gates -> [1..MaxTotal -> Nat]]]
    BY DEF IInv, PermitInv
  <2>2. FullGate \in [1..MaxTotal -> Nat] /\ \A l \in 1..MaxTotal : FullGate[l] = 0
    BY DEF FullGate
  <2>3. taken' \in [Processes -> [Gates -> [1..MaxTotal -> Nat]]]
          /\ \A q \in Processes : taken'[q] = IF q = p THEN [g \in Gates |-> FullGate] ELSE taken[q]
    BY <2>1, <2>2, <1>0
  <2>4. ASSUME NEW q \in Processes, NEW g \in Gates, NEW l \in 1..MaxTotal
        PROVE  taken'[q][g][l] = Cardinality(Holders(q, g, l)')
    <3>1. CASE q = p
      <4>1. Holders(q, g, l)' = {}
        <5>1. \A c \in Calls : ProcessOf(c) = p => Holds(c)' = {}
          BY <1>4, <1>5, <1>6
        <5> QED
          BY <3>1, <5>1 DEF Holders, ProcessOf
      <4>2. taken'[q][g][l] = 0
        BY <3>1, <2>2, <2>3
      <4> QED
        BY <4>1, <4>2, FS_EmptySet
    <3>2. CASE q # p
      <4>1. Holders(q, g, l)' = Holders(q, g, l)
        BY <3>2, <1>3, <1>5 DEF Holders, ProcessOf
      <4>2. taken'[q][g][l] = taken[q][g][l]
        BY <3>2, <2>3
      <4> QED
        BY <4>1, <4>2 DEF IInv, PermitInv
    <3> QED
      BY <3>1, <3>2
  <2> QED
    BY <2>3, <2>4 DEF PermitInv
<1>10. SlotInv'
  <2>1. SlotsFit(slot, PassedBy, LimitFor) /\ slot \in FilesType /\ Free \notin Calls
    BY ConstantsAre DEF IInv, SlotInv, SlotsFit, FilesType
  <2>2. \A g \in Gates : DOMAIN slot[g] = 0..(MaxTotal - 1)
    BY <2>1 DEF FilesType
  <2>3. slot' = [g \in Gates |-> [i \in 0..(MaxTotal - 1) |->
                   IF slot[g][i] \in D THEN Free ELSE slot[g][i]]]
    BY <1>0, <1>1, <2>2
  <2>4. slot' \in FilesType
    BY <2>1, <2>3 DEF FilesType
  <2>5. \A g \in Gates, i \in 0..(MaxTotal - 1) :
          slot'[g][i] = IF slot[g][i] \in D THEN Free ELSE slot[g][i]
    BY <2>3
  <2>6. ASSUME NEW g \in Gates, NEW i \in 0..(MaxTotal - 1), NEW c \in Calls, slot'[g][i] = c
        PROVE  g \in PassedBy'[c] /\ i < LimitFor'[c][g]
    <3>1. slot[g][i] = c /\ c \notin D
      BY <2>1, <2>5, <2>6
    <3>2. g \in PassedBy[c] /\ i < LimitFor[c][g]
      BY <3>1, <2>1 DEF SlotsFit
    <3> QED
      BY <3>1, <3>2, <1>5 DEF PassedBy, LimitFor
  <2>7. ASSUME NEW c \in Calls, NEW g \in PassedBy'[c]
        PROVE  \E i \in 0..(MaxTotal - 1) : slot'[g][i] = c
    <3>1. c \notin D /\ g \in PassedBy[c]
      BY <1>4, <1>5 DEF PassedBy
    <3>2. PICK i \in 0..(MaxTotal - 1) : slot[g][i] = c
      BY <3>1, <2>1 DEF SlotsFit
    <3>3. g \in Gates
      BY <3>1, PassedAreGates DEF PassedBy, IInv
    <3> QED
      BY <3>1, <3>2, <3>3, <2>5
  <2>8. SlotsFit(slot', PassedBy', LimitFor')
    BY <2>4, <2>6, <2>7 DEF SlotsFit, FilesType
  <2> QED
    BY <2>8 DEF SlotInv
<1>11. KeyInv'
  <2>1. NoSems \in [Keys -> Seq(Semaphore)] /\ \A r \in Keys : Len(NoSems[r]) = 0
    BY DEF NoSems
  <2>2. keySem' \in [Clients -> [Keys -> Seq(Semaphore)]]
    BY <2>1, <1>0 DEF IInv, KeyInv, Semaphore
  <2>3. ASSUME NEW k \in Clients, NEW r \in Keys, NEW n \in 1..Len(keySem'[k][r])
        PROVE  keySem'[k][r][n].used = Cardinality(Requesting(k, r, n)')
    <3>1. Home[k] # p
      <4>1. ASSUME Home[k] = p PROVE FALSE
        <5>1. Len(keySem'[k][r]) = 0
          BY <4>1, <2>1, <1>7
        <5>2. n \in 1..0
          BY <5>1
        <5> QED
          BY <5>2
      <4> QED
        BY <4>1
    <3>2. keySem'[k][r] = keySem[k][r]
      BY <3>1, <1>7
    <3>3. Requesting(k, r, n)' = Requesting(k, r, n)
      <4>1. \A c \in Calls : ClientOf[c] = k => c \notin D
        BY <3>1, <1>3 DEF ProcessOf
      <4> QED
        BY <4>1, <1>3 DEF Requesting
    <3> QED
      BY <3>2, <3>3 DEF IInv, KeyInv
  <2> QED
    BY <2>2, <2>3 DEF KeyInv, Semaphore
<1>12. PoolInv'
  <2>1. retired' \in [Clients -> SUBSET Keys]
    BY <1>0 DEF IInv, PoolInv
  <2> QED
    BY <1>0, <2>1 DEF IInv, PoolInv
<1> QED
  BY <1>8, <1>9, <1>10, <1>11, <1>12 DEF IInv

-----------------------------------------------------------------------------
(* The theorems. *)

LEMMA InitHolds ==
    ASSUME Init
    PROVE  IInv
<1>1. Idle \in CallType /\ Idle.at = "new" /\ Idle.gate = "total" /\ \A c \in Calls : call[c] = Idle
  BY ConstantsAre, BoundsAssumption DEF Init, Idle, CallType, Steps, Gates
<1>2. CallInv
  <2>1. call \in [Calls -> CallType]
    BY <1>1 DEF Init
  <2> QED
    BY <1>1, <2>1 DEF CallInv, Proper, HasKey, Limited
<1>3. \A c \in Calls : Passed(c) = {} /\ Holds(c) = {}
  BY <1>1 DEF Passed, Running, Holds
<1>4. PermitInv
  <2>1. \A p \in Processes, g \in Gates, l \in 1..MaxTotal : Holders(p, g, l) = {}
    BY <1>3 DEF Holders
  <2>2. \A p \in Processes, g \in Gates, l \in 1..MaxTotal :
          Cardinality(Holders(p, g, l)) = 0
    BY <2>1, FS_EmptySet
  <2>3. \A p \in Processes, g \in Gates, l \in 1..MaxTotal : taken[p][g][l] = 0
    BY DEF Init, FullGate
  <2>4. taken \in [Processes -> [Gates -> [1..MaxTotal -> Nat]]]
    BY DEF Init, FullGate
  <2> QED
    BY <2>2, <2>3, <2>4 DEF PermitInv
<1>5. SlotInv
  <2>1. Free \notin Calls
    BY ConstantsAre
  <2>2. slot \in [Gates -> [0..(MaxTotal - 1) -> Calls \cup {Free}]]
    BY DEF Init
  <2>3. \A g \in Gates, i \in 0..(MaxTotal - 1) : slot[g][i] = Free
    BY DEF Init
  <2> QED
    BY <1>3, <2>1, <2>2, <2>3 DEF SlotInv, SlotsFit, PassedBy
<1>6. KeyInv
  <2>1. NoSems \in [Keys -> Seq(Semaphore)] /\ \A r \in Keys : Len(NoSems[r]) = 0
    BY DEF NoSems
  <2>2. \A k \in Clients : keySem[k] = NoSems
    BY DEF Init
  <2>3. keySem \in [Clients -> [Keys -> Seq(Semaphore)]]
    BY <2>1 DEF Init
  <2> QED
    BY <2>1, <2>2, <2>3 DEF KeyInv, Semaphore
<1>7. PoolInv
  BY BoundsAssumption DEF Init, PoolInv, KeyLimits
<1> QED
  BY <1>2, <1>4, <1>5, <1>6, <1>7 DEF IInv

LEMMA NextHolds ==
    ASSUME IInv, [Next]_vars
    PROVE  IInv'
<1>1. ASSUME NEW c \in Calls, Begin(c) \/ Step(c) \/ TimeOut(c) PROVE IInv'
  BY <1>1, BeginKeeps, PrepareKeeps, TakePermitKeeps, TakeSlotKeeps, LeaveKeeps, FindKeyKeeps,
     TakeKeyKeeps, AnswerKeeps, TimeOutKeeps DEF Step
<1>2. CASE SetLimit
  BY <1>2, SetLimitKeeps
<1>3. ASSUME NEW k \in Clients, CoolDown(k) PROVE IInv'
  BY <1>3, CoolDownKeeps
<1>4. ASSUME NEW p \in Processes, Crash(p) PROVE IInv'
  BY <1>4, CrashKeeps
<1>5. CASE UNCHANGED vars
  <2>1. UNCHANGED <<call, keyLimit, taken, slot, retired, keySem, events>>
    BY <1>5 DEF vars, gates, client
  <2> QED
    BY <2>1, CallsStay, PoolSame DEF IInv
<1> QED
  BY <1>1, <1>2, <1>3, <1>4, <1>5 DEF Next

\* The permits and the locked files are those of the calls that hold them,
\* and the semaphores of a key are used by the requests on it
\* (_acquire_resource, _key_slot).
THEOREM Invariance == Spec => []IInv
<1>1. Init => IInv
  BY InitHolds
<1>2. IInv /\ [Next]_vars => IInv'
  BY NextHolds
<1> QED
  BY <1>1, <1>2, PTL DEF Spec

\* Whatever the limits were and become, no budget is exceeded: the calls
\* through a gate have different files, all below their limits
\* (_acquire_slot_file).
THEOREM BudgetKept == Spec => []WithinBudget
<1>1. ASSUME IInv, NEW g \in Gates, NEW n \in 1..MaxTotal
      PROVE  Cardinality({c \in Calls : g \in Passed(c) /\ Limits[call[c].total][g] <= n}) <= n
  <2> DEFINE S == {c \in Calls : g \in Passed(c) /\ Limits[call[c].total][g] <= n}
             T == 0..(n - 1)
             file == [c \in S |-> CHOOSE i \in 0..(MaxTotal - 1) : slot[g][i] = c]
  <2>1. SlotsFit(slot, PassedBy, LimitFor) /\ CallInv /\ MaxTotal \in Nat
    BY <1>1, ConstantsAre DEF IInv, SlotInv
  <2>2. ASSUME NEW c \in S PROVE file[c] \in T /\ slot[g][file[c]] = c
    <3>1. \E i \in 0..(MaxTotal - 1) : slot[g][i] = c
      BY <2>1 DEF SlotsFit, PassedBy
    <3>2. file[c] \in 0..(MaxTotal - 1) /\ slot[g][file[c]] = c
      BY <3>1
    <3>3. file[c] < LimitFor[c][g] /\ LimitFor[c][g] = Limits[call[c].total][g]
      <4> HIDE DEF file
      <4> QED
        BY <2>1, <3>2 DEF SlotsFit, LimitFor, LimitOf
    <3>4. call[c].at \in Limited
      BY <2>1 DEF Passed, Running, CallInv, CallType, Steps, Limited
    <3>5. Limits[call[c].total][g] \in 1..MaxTotal
      BY <2>1, <3>4, LimitIs DEF LimitOf
    <3>6. Limits[call[c].total][g] <= n
      OBVIOUS
    <3> QED
      BY <3>2, <3>3, <3>5, <3>6
  <2>3. file \in Injection(S, T)
    <3>1. file \in [S -> T]
      BY <2>2
    <3> HIDE DEF file
    <3>2. \A c, d \in S : file[c] = file[d] => c = d
      BY <2>2
    <3> HIDE DEF S, T
    <3> QED
      BY <3>1, <3>2 DEF Injection, IsInjective
  <2>4. IsFiniteSet(T) /\ Cardinality(T) = n
    BY FS_Interval
  <2>5. Cardinality(S) <= Cardinality(T)
    <3> HIDE DEF S, T, file
    <3> QED
      BY <2>3, <2>4, FS_Injection
  <2> QED
    BY <2>4, <2>5
<1>2. IInv => WithinBudget
  BY <1>1 DEF WithinBudget
<1> QED
  BY <1>2, Invariance, PTL

\* Whatever ends a call, it has given back all it held (the nested contexts
\* of acquire_llm and _key_slot).
THEOREM AllGivenBack == Spec => []NothingLeaks
<1> SUFFICES ASSUME IInv PROVE NothingLeaks
  BY Invariance, PTL
<1>1. ASSUME NEW p \in Processes, \A c \in Calls : Running(c) => ProcessOf(c) # p, NEW g \in Gates
      PROVE  taken[p][g] = FullGate
  <2>1. \A c \in Calls : ProcessOf(c) = p => Holds(c) = {}
    BY <1>1 DEF Holds, Passed, Running
  <2>2. \A l \in 1..MaxTotal : Holders(p, g, l) = {}
    BY <2>1 DEF Holders
  <2>3. ASSUME NEW l \in 1..MaxTotal PROVE taken[p][g][l] = 0
    <3>1. taken[p][g][l] = Cardinality(Holders(p, g, l))
      BY DEF IInv, PermitInv
    <3>2. Cardinality(Holders(p, g, l)) = 0
      BY <2>2, FS_EmptySet
    <3> QED
      BY <3>1, <3>2
  <2>4. taken[p][g] \in [1..MaxTotal -> Nat]
    BY DEF IInv, PermitInv
  <2> QED
    BY <2>3, <2>4 DEF FullGate
<1>2. ASSUME NEW k \in Clients, \A c \in Calls : Running(c) => ClientOf[c] # k,
             NEW r \in Keys, NEW n \in DOMAIN keySem[k][r]
      PROVE  keySem[k][r][n].used = 0
  <2>1. keySem[k][r] \in Seq(Semaphore)
    BY DEF IInv, KeyInv, Semaphore
  <2>2. n \in 1..Len(keySem[k][r])
    BY <2>1
  <2>3. Requesting(k, r, n) = {}
    BY <1>2 DEF Requesting, Running
  <2>4. keySem[k][r][n].used = Cardinality(Requesting(k, r, n))
    BY <2>2 DEF IInv, KeyInv
  <2>5. Cardinality(Requesting(k, r, n)) = 0
    BY <2>3, FS_EmptySet
  <2> QED
    BY <2>4, <2>5
<1>3. ASSUME NEW g \in Gates, NEW i \in DOMAIN slot[g], slot[g][i] # Free
      PROVE  g \in Passed(slot[g][i])
  <2>1. SlotsFit(slot, PassedBy, LimitFor)
    BY DEF IInv, SlotInv
  <2>2. slot \in [Gates -> [0..(MaxTotal - 1) -> Calls \cup {Free}]]
    BY <2>1 DEF SlotsFit
  <2>3. i \in 0..(MaxTotal - 1) /\ slot[g][i] \in Calls
    BY <1>3, <2>2
  <2>4. g \in PassedBy[slot[g][i]]
    BY <2>1, <2>3 DEF SlotsFit
  <2> QED
    BY <2>3, <2>4 DEF PassedBy
<1> QED
  BY <1>1, <1>2, <1>3 DEF NothingLeaks
=============================================================================
