------------------------ MODULE HistoryFence_proofs ------------------------
(***************************************************************************)
(* The history is cleared alone, for any number of threads, worker         *)
(* processes, crashes and restarts.  A thread that writes without the      *)
(* fence has a lease that every reader takes for live (LeaseInv), and a    *)
(* lease is only written by a thread whose process has the fence, so none  *)
(* is written while a reset holds the lock file (FenceInv, ClearInv).      *)
(***************************************************************************)
EXTENDS HistoryFence, TLAPS

-----------------------------------------------------------------------------
(* The inductive invariant. *)

\* Threads that are on their way into the fence, in it, or on their way out.
AtFence == {"asking", "acquiring", "inside", "draining", "unlocking"}
Entered == {"inside", "adopting", "offering"}
Serving == {"looping", "spawning", "waiting", "failing"}

\* Every thread keeps to the places and errands of its kind, and has an errand
\* as long as it is at the fence.
RoleOf(t) ==
  /\ t \in Writers => pc[t] \in AtFence \cup {"idle", "leased"}
                      /\ job[t] \in {"none", "write", "register", "unregister"}
  /\ t \in Resetters => pc[t] \in {"idle", "scanning", "clearing"} /\ job[t] = "none"
  /\ t = Queue => pc[t] \in AtFence \cup {"idle"} \cup Serving
                  /\ job[t] \in {"none", "register", "unregister", "handoff"} \cup EndsHandoff
  /\ t \in Children =>
       /\ pc[t] \in AtFence \cup {"unborn", "dead", "starting", "adopting", "offering", "waitack",
                                  "clock", "working"}
       /\ job[t] \in {"none", "adopt", "unregister"}
       /\ pc[t] \in {"adopting", "offering"} => job[t] = "adopt"
  /\ pc[t] \in AtFence <=> job[t] # "none" /\ pc[t] \notin {"adopting", "offering"}
RoleInv == \A t \in Threads : RoleOf(t)

\* The fence of a process is what its owner and adopters are doing; whoever is
\* in it, or clears the history, goes with the holder of the lock file.
FenceOf(p) ==
  \/ local[p] = NoFence
  \/ /\ local[p].owner \in Threads /\ ProcOf[local[p].owner] = p
     /\ \/ local[p].phase = "acquiring" /\ local[p].adopters = {} /\ pc[local[p].owner] = "acquiring"
        \/ local[p].phase = "active" /\ pc[local[p].owner] \in Entered /\ os = local[p].owner
        \/ local[p].phase = "closing" /\ pc[local[p].owner] = "draining" /\ os = local[p].owner
     /\ local[p].owner \notin local[p].adopters
     /\ \A t \in local[p].adopters : ProcOf[t] = p /\ pc[t] \in Entered
VisitOf(t) ==
  /\ pc[t] = "acquiring" => Fence(t).owner = t /\ Fence(t).phase = "acquiring"
  /\ pc[t] \in Entered => t \in Fence(t).adopters \/ (Fence(t).owner = t /\ Fence(t).phase = "active")
  /\ pc[t] = "draining" => Fence(t).owner = t /\ Fence(t).phase = "closing"
  /\ pc[t] \in {"unlocking", "scanning", "clearing"} => os = t
FenceInv == (\A p \in Procs : FenceOf(p)) /\ (\A t \in Threads : VisitOf(t))

\* A thread that goes on after its visit of the fence has a lease that says so.
HasLease(t) ==
  \/ pc[t] \in Serving \cup {"leased", "adopting", "offering", "waitack", "clock", "working"}
  \/ pc[t] \in AtFence /\ job[t] \in {"handoff"} \cup EndsHandoff
  \/ pc[t] \in {"asking", "acquiring", "inside"} /\ job[t] = "unregister"
  \/ pc[t] \in {"draining", "unlocking"} /\ job[t] \in {"register", "adopt"}
LeaseInv == \A t \in Threads : HasLease(t) => LeaseOf(t) \in leases

\* Nothing is leased while the history is cleared.
ClearInv == \A r \in Resetters : pc[r] = "clearing" => leases = {}

\* The queue starts each child once.
QueueInv ==
  /\ \A c \in pending : pc[c] = "unborn"
  /\ \A c \in running : pc[c] # "unborn"
  /\ job[Queue] = "handoff" \/ pc[Queue] = "spawning" =>
       cur \in Children /\ pc[cur] = "unborn" /\ cur \notin pending
  /\ job[Queue] \in EndsHandoff \/ pc[Queue] = "waiting" => cur \in Children /\ pc[cur] # "unborn"
  /\ okay => job[Queue] = "endhandoff"
  /\ running # {} => pc[Queue] \in Serving \/ job[Queue] \in {"handoff"} \cup EndsHandoff
  /\ job[Queue] = "raise" => broken

\* What a missing ready file tells the child that waits for its removal.
AnswerOf(c) ==
  /\ (pc[c] \in {"offering", "waitack"} \/ (pc[c] \in {"draining", "unlocking"} /\ job[c] = "adopt")) =>
       ready[c] \/ approved[c] \/ expired[c]
  /\ pc[c] = "clock" => approved[c] \/ expired[c]
  /\ pc[c] = "working" => approved[c]
AnswerInv == \A c \in Children : AnswerOf(c)

\* Nobody forgets a task: it waits, is being started, runs or is over.
Over(c) == Terminal(c) /\ pc[c] \in {"unborn", "dead"}
Starting == job[Queue] = "handoff" \/ pc[Queue] \in {"spawning", "waiting"} \/ okay
TaskInv == ~broken => \A c \in Children : c \in pending \cup running \/ Over(c) \/ (c = cur /\ Starting)

IInv == TypeOK /\ RoleInv /\ FenceInv /\ LeaseInv /\ ClearInv /\ QueueInv /\ AnswerInv /\ TaskInv

-----------------------------------------------------------------------------
(* What a step leaves alone. *)

\* Everything but the fence and the leases.
Errands == RoleInv /\ QueueInv /\ AnswerInv /\ TaskInv

Jobs == {"none", "write", "register", "unregister", "handoff", "endhandoff", "raise", "adopt"}

\* Places that FenceInv speaks of.
FencePlaces == {"acquiring", "draining", "unlocking", "scanning", "clearing"} \cup Entered

\* Only t has moved.
Only(t) ==
  /\ pc' \in [Threads -> Places] /\ job' \in [Threads -> Jobs]
  /\ \A u \in Threads : u # t => pc'[u] = pc[u] /\ job'[u] = job[u]

LEMMA Kinds ==
  /\ Queue \in Threads /\ Children \subseteq Threads
  /\ Writers \subseteq Threads /\ Resetters \subseteq Threads
  /\ \A t \in Threads : ProcOf[t] \in Procs /\ t # Nobody
BY ProcOfAssumption, NobodyAssumption DEF Threads

USE DEF EndsHandoff

\* Threads that move outside the fence do not change it.
LEMMA FenceFrame ==
  ASSUME TypeOK, FenceInv, os' = os, local' = local,
         \A t \in Threads :
           \/ pc'[t] = pc[t]
           \/ pc[t] \notin FencePlaces /\ pc'[t] \notin FencePlaces
           \/ pc[t] \in Entered /\ pc'[t] \in Entered
  PROVE  FenceInv'
<1>1. ASSUME NEW p \in Procs PROVE FenceOf(p)'
  <2>1. FenceOf(p)
    BY DEF FenceInv
  <2>2. local[p].adopters \subseteq Threads
    BY DEF TypeOK
  <2> QED
    BY <2>1, <2>2 DEF FenceOf, FencePlaces, Entered
<1>2. ASSUME NEW t \in Threads PROVE VisitOf(t)'
  BY DEF FenceInv, VisitOf, Fence, FencePlaces, Entered
<1> QED
  BY <1>1, <1>2 DEF FenceInv

\* The fence of a process that ends is free.
LEMMA FenceDeath ==
  ASSUME TypeOK, FenceInv, NEW p \in Procs, Freed(p),
         \A t \in Threads : ProcOf[t] = p => pc'[t] \notin FencePlaces,
         \A t \in Threads : ProcOf[t] # p =>
           pc'[t] = pc[t] \/ (pc[t] \notin FencePlaces /\ pc'[t] \notin FencePlaces)
  PROVE  FenceInv'
<1>1. local'[p] = NoFence /\ \A q \in Procs : q # p => local'[q] = local[q]
  BY DEF Freed, TypeOK
<1>2. \A t \in Threads : os = t /\ ProcOf[t] # p => os' = t
  BY DEF Freed
<1>3. ASSUME NEW q \in Procs PROVE FenceOf(q)'
  <2>1. CASE q = p
    BY <1>1, <2>1 DEF FenceOf, NoFence
  <2>2. CASE q # p
    <3>1. FenceOf(q) /\ local[q].adopters \subseteq Threads /\ local'[q] = local[q]
      BY <1>1, <2>2 DEF FenceInv, TypeOK
    <3> QED
      BY <1>2, <2>2, <3>1 DEF FenceOf, FencePlaces, Entered, NoFence
  <2> QED
    BY <2>1, <2>2
<1>4. ASSUME NEW t \in Threads PROVE VisitOf(t)'
  <2>1. CASE ProcOf[t] = p
    BY <2>1 DEF VisitOf, FencePlaces, Entered
  <2>2. CASE ProcOf[t] # p
    <3>1. VisitOf(t) /\ local'[ProcOf[t]] = local[ProcOf[t]]
      BY <1>1, <2>2, Kinds DEF FenceInv
    <3> QED
      BY <1>2, <2>2, <3>1 DEF VisitOf, Fence, FencePlaces, Entered
  <2> QED
    BY <2>1, <2>2
<1> QED
  BY <1>3, <1>4 DEF FenceInv

\* Whoever is in the fence goes with the holder of the lock file.
LEMMA InFence ==
  ASSUME TypeOK, FenceInv, NEW t \in Threads, pc[t] \in Entered \/ Adoptable(t)
  PROVE  Fence(t).owner \in Threads /\ os = Fence(t).owner /\ pc[os] \in Entered \cup {"draining"}
BY Kinds DEF FenceInv, FenceOf, VisitOf, Fence, Adoptable, NoFence, Entered

\* Nobody clears the history meanwhile.
LEMMA NobodyClears ==
  ASSUME TypeOK, FenceInv, NEW t \in Threads, pc[t] \in Entered \/ Adoptable(t)
  PROVE  \A r \in Resetters : pc[r] # "clearing"
BY InFence, Kinds DEF FenceInv, VisitOf, Entered

LEMMA LeaseFrame ==
  ASSUME LeaseInv, inc' = inc, leases \subseteq leases',
         \A t \in Threads : HasLease(t)' => HasLease(t) \/ LeaseOf(t) \in leases'
  PROVE  LeaseInv'
BY DEF LeaseInv, LeaseOf

LEMMA ClearFrame ==
  ASSUME ClearInv,
         \A r \in Resetters : pc'[r] = "clearing" => pc[r] = "clearing" /\ leases' \subseteq leases
  PROVE  ClearInv'
BY DEF ClearInv

\* A writer or a reset goes on.
LEMMA SideFrame ==
  ASSUME TypeOK, Errands, NEW t \in Threads, t \in Writers \cup Resetters, Only(t), RoleOf(t)',
         UNCHANGED <<approved, expired, pending, running, cur, okay, task, broken>>,
         \A c \in Children : ready[c] => ready'[c] \/ expired[c]
  PROVE  Errands'
<1> USE Kinds, KindsAssumption
<1>1. /\ pc'[Queue] = pc[Queue] /\ job'[Queue] = job[Queue]
      /\ \A c \in Children : pc'[c] = pc[c] /\ job'[c] = job[c]
  BY DEF Only
<1>2. RoleInv'
  BY DEF Errands, RoleInv, RoleOf, Only
<1>3. QueueInv'
  BY <1>1, SMTT(30) DEF Errands, QueueInv, TypeOK
<1>4. AnswerInv'
  BY <1>1 DEF Errands, AnswerInv, AnswerOf
<1>5. TaskInv'
  BY <1>1 DEF Errands, TaskInv, Over, Starting, Terminal
<1> QED
  BY <1>2, <1>3, <1>4, <1>5 DEF Errands

\* A worker goes on or dies.
LEMMA ChildFrame ==
  ASSUME TypeOK, Errands, NEW c \in Children, Only(c), RoleOf(c)', AnswerOf(c)',
         pc[c] \notin {"unborn", "dead"}, pc'[c] # "unborn",
         UNCHANGED <<pending, running, cur, okay, broken>>,
         \A d \in Children : d # c =>
           /\ task'[d] = task[d]
           /\ ready'[d] = ready[d] /\ approved'[d] = approved[d] /\ expired'[d] = expired[d]
  PROVE  Errands'
<1> USE Kinds, KindsAssumption
<1>1. /\ pc'[Queue] = pc[Queue] /\ job'[Queue] = job[Queue]
      /\ \A d \in Children : d # c => pc'[d] = pc[d] /\ job'[d] = job[d]
  BY DEF Only
<1>2. RoleInv'
  BY DEF Errands, RoleInv, RoleOf, Only
<1>3. QueueInv'
  BY <1>1, SMTT(30) DEF Errands, QueueInv, TypeOK
<1>4. AnswerInv'
  BY <1>1 DEF Errands, AnswerInv, AnswerOf
<1>5. TaskInv'
  BY <1>1 DEF Errands, TaskInv, Over, Starting, Terminal
<1> QED
  BY <1>2, <1>3, <1>4, <1>5 DEF Errands

\* A thread gets on with its visit of the fence.
LEMMA VisitFrame ==
  ASSUME TypeOK, Errands, NEW t \in Threads, Only(t), job' = job,
         pc[t] \in AtFence, pc'[t] \in AtFence,
         pc'[t] \in {"draining", "unlocking"} /\ job[t] = "adopt" => pc[t] = "draining",
         UNCHANGED <<ready, expired, approved, queueVars>>
  PROVE  Errands'
<1> USE Kinds, KindsAssumption
<1>1. RoleOf(t)'
  BY DEF Errands, RoleInv, RoleOf, AtFence, Serving
<1>2. CASE t \in Writers \cup Resetters
  BY <1>1, <1>2, SideFrame DEF queueVars
<1>3. CASE t \in Children
  <2>1. AnswerOf(t)'
    BY <1>3 DEF Errands, AnswerInv, AnswerOf, AtFence
  <2> QED
    BY <1>1, <1>3, <2>1, ChildFrame DEF queueVars, AtFence
<1>4. CASE t = Queue
  <2>1. RoleInv'
    BY <1>1 DEF Errands, RoleInv, RoleOf, Only
  <2>2. \A c \in Children : pc'[c] = pc[c] /\ job'[c] = job[c]
    BY <1>4 DEF Only
  <2>3. QueueInv'
    BY <1>4, <2>2 DEF Errands, QueueInv, TypeOK, queueVars, AtFence, Serving
  <2>4. AnswerInv'
    BY <2>2 DEF Errands, AnswerInv, AnswerOf
  <2>5. TaskInv'
    BY <1>4, <2>2 DEF Errands, TaskInv, Over, Starting, Terminal, queueVars, AtFence
  <2> QED
    BY <2>1, <2>3, <2>4, <2>5 DEF Errands
<1> QED
  BY <1>2, <1>3, <1>4 DEF Threads

\* The visit of t does not take the lease of u.
LeaseStays(u, t) == HasLease(u) /\ (u = t => job[t] # "unregister")

\* A thread goes on after its visit of the fence.
LEMMA ContinueFrame ==
  ASSUME TypeOK, Errands, NEW t \in Threads, Continue(t),
         (pc[t] \in {"inside", "asking"} /\ job[t] # "adopt") \/ pc[t] = "unlocking",
         UNCHANGED <<ready, expired, approved>>
  PROVE  /\ Errands'
         /\ pc' = [pc EXCEPT ![t] = After(t)] /\ After(t) \in Places \ FencePlaces
         /\ \A u \in Threads : HasLease(u)' => LeaseStays(u, t) \/ (u = t /\ job[t] = "register")
         /\ pending' \subseteq Children /\ running' \subseteq Children
         /\ cur' \in Children \cup {Nobody} /\ okay' \in BOOLEAN /\ broken' \in BOOLEAN
         /\ task' \in [Children -> {"queued", "assigned", "completed", "failed"}]
         /\ exit' \in [Children -> {"none", "zero", "error"}]
         /\ job' \in [Threads -> Jobs]
<1> USE Kinds, KindsAssumption
<1>1. RoleOf(t) /\ job[t] # "none"
  BY DEF Errands, RoleInv, RoleOf, AtFence
<1>2. pc' = [pc EXCEPT ![t] = After(t)] /\ job' = [job EXCEPT ![t] = "none"]
  BY DEF Continue, Goto
<1>3. After(t) \in Places \ FencePlaces
  BY DEF After, Places, FencePlaces, Entered
<1>4. Only(t) /\ pc'[t] = After(t) /\ job'[t] = "none"
  BY <1>2, <1>3 DEF Only, TypeOK, Jobs
<1>5. UNCHANGED <<pending, task, broken>>
  BY DEF Continue
<1>6. RoleOf(t)'
  BY <1>1, <1>4 DEF RoleOf, After, AtFence, Serving
<1>7. Errands'
  <2>1. CASE t \in Writers \cup Resetters
    <3>1. UNCHANGED <<running, cur, okay>>
      BY <1>1, <2>1 DEF Continue, RoleOf
    <3> QED
      BY <1>4, <1>5, <1>6, <2>1, <3>1, SideFrame
  <2>2. CASE t \in Children
    <3>1. UNCHANGED <<running, cur, okay>>
      BY <1>1, <2>2 DEF Continue, RoleOf
    <3>2. AnswerOf(t)'
      <4>1. AnswerOf(t)
        BY <2>2 DEF Errands, AnswerInv
      <4> QED
        BY <1>1, <1>4, <2>2, <4>1 DEF AnswerOf, RoleOf, After
    <3> QED
      BY <1>1, <1>4, <1>5, <1>6, <2>2, <3>1, <3>2, ChildFrame DEF After, RoleOf
  <2>3. CASE t = Queue
    <3>1. RoleInv'
      BY <1>4, <1>6 DEF Errands, RoleInv, RoleOf, Only
    <3>2. \A c \in Children : pc'[c] = pc[c] /\ job'[c] = job[c]
      BY <1>4, <2>3 DEF Only
    <3>3. AnswerInv'
      BY <3>2 DEF Errands, AnswerInv, AnswerOf
    <3>4. job[Queue] \in {"register", "unregister", "handoff"} \cup EndsHandoff
      BY <1>1, <2>3 DEF RoleOf
    <3>5. QueueInv' /\ TaskInv'
      <4>1. CASE job[Queue] \in EndsHandoff
        <5>1. /\ pc'[Queue] \in {"looping", "failing"} /\ job'[Queue] = "none" /\ cur' = Nobody /\ okay' = FALSE
              /\ running' = IF okay THEN running \cup {cur} ELSE running
          BY <1>4, <2>3, <4>1 DEF After, Continue
        <5>2. QueueInv'
          BY <1>5, <3>2, <4>1, <5>1 DEF Errands, QueueInv, TypeOK, Serving
        <5>3. TaskInv'
          BY <1>5, <2>3, <3>2, <4>1, <5>1 DEF Errands, TaskInv, Over, Starting, Terminal
        <5> QED
          BY <5>2, <5>3
      <4>2. CASE job[Queue] \notin EndsHandoff
        <5>1. UNCHANGED <<running, cur, okay>>
          BY <2>3, <4>2 DEF Continue
        <5>2. pc'[Queue] = IF job[Queue] = "handoff" THEN "spawning"
                           ELSE IF job[Queue] = "register" THEN "looping" ELSE "idle"
          BY <1>4, <2>3, <3>4, <4>2 DEF After
        <5>3. QueueInv'
          BY <1>4, <1>5, <2>3, <3>2, <4>2, <5>1, <5>2 DEF Errands, QueueInv, TypeOK, Serving
        <5>4. TaskInv'
          BY <1>4, <1>5, <2>3, <3>2, <4>2, <5>1, <5>2 DEF Errands, TaskInv, Over, Starting, Terminal
        <5> QED
          BY <5>3, <5>4
      <4> QED
        BY <4>1, <4>2
    <3> QED
      BY <3>1, <3>3, <3>5 DEF Errands
  <2> QED
    BY <2>1, <2>2, <2>3 DEF Threads
<1>8. \A u \in Threads : HasLease(u)' => LeaseStays(u, t) \/ (u = t /\ job[t] = "register")
  <2>1. HasLease(t)' => (HasLease(t) /\ job[t] # "unregister") \/ job[t] = "register"
    BY <1>1, <1>4 DEF HasLease, After, AtFence, Serving, RoleOf
  <2>2. \A u \in Threads : u # t => (HasLease(u)' <=> HasLease(u))
    BY <1>4 DEF HasLease, Only
  <2> QED
    BY <2>1, <2>2 DEF LeaseStays
<1>9. /\ pending' \subseteq Children /\ broken' \in BOOLEAN
      /\ task' \in [Children -> {"queued", "assigned", "completed", "failed"}]
  BY <1>5 DEF TypeOK
<1>10. running' \subseteq Children /\ cur' \in Children \cup {Nobody} /\ okay' \in BOOLEAN
  <2>1. job[t] \in EndsHandoff => cur \in Children
    BY <1>1 DEF Errands, QueueInv, RoleOf, Threads
  <2> QED
    BY <2>1 DEF Continue, TypeOK
<1>11. exit' \in [Children -> {"none", "zero", "error"}]
  BY DEF Continue, TypeOK
<1> QED
  BY <1>2, <1>3, <1>4, <1>7, <1>8, <1>9, <1>10, <1>11 DEF Only

-----------------------------------------------------------------------------
(* The fence. *)

\* Parts of the invariant.
LEMMA Parts ==
  ASSUME IInv
  PROVE  TypeOK /\ Errands /\ RoleInv /\ FenceInv /\ LeaseInv /\ ClearInv
BY DEF IInv, Errands

LEMMA Whole ==
  ASSUME TypeOK', Errands', FenceInv', LeaseInv', ClearInv'
  PROVE  IInv'
BY DEF IInv, Errands

\* A visit that goes on writes no lease.
LEMMA VisitKeeps ==
  ASSUME IInv, NEW t \in Threads, NEW place \in AtFence, Goto(t, place), job' = job,
         pc[t] \in AtFence,
         place = "asking" => pc[t] = "asking",
         place \in {"acquiring", "inside"} => pc[t] \in {"asking", "acquiring"},
         place \in {"draining", "unlocking"} => pc[t] = "draining",
         UNCHANGED <<leases, inc, handoffVars, queueVars>>,
         TypeOK', FenceInv'
  PROVE  IInv'
<1>1. Only(t) /\ pc'[t] = place
  BY Parts DEF Goto, Only, TypeOK, Places, AtFence, Jobs
<1>2. Errands'
  BY <1>1, Parts, VisitFrame DEF handoffVars
<1>3. \A u \in Threads : HasLease(u)' => HasLease(u)
  <2>1. HasLease(t)' => HasLease(t)
    BY <1>1 DEF HasLease, AtFence, Serving
  <2>2. \A u \in Threads : u # t => (HasLease(u)' <=> HasLease(u))
    BY <1>1 DEF Only, HasLease
  <2> QED
    BY <2>1, <2>2
<1>4. LeaseInv'
  BY <1>3, LeaseFrame, Parts
<1>5. ClearInv'
  BY <1>1, ClearFrame, Parts, Kinds DEF Only, AtFence
<1> QED
  BY <1>2, <1>4, <1>5, Whole

FenceRecord ==
  [phase : {"none", "acquiring", "active", "closing"}, owner : Threads \cup {Nobody},
   adopters : SUBSET Threads]

\* One process' fence becomes f.
LEMMA LocalIs ==
  ASSUME TypeOK, NEW p \in Procs, NEW f \in FenceRecord, local' = [local EXCEPT ![p] = f]
  PROVE  /\ local' \in [Procs -> FenceRecord] /\ local'[p] = f
         /\ \A q \in Procs : q # p => local'[q] = local[q]
BY DEF TypeOK, FenceRecord

LEMMA AdoptKeeps ==
  ASSUME IInv, NEW t \in Threads, Adopt(t)
  PROVE  IInv'
<1> USE Kinds, Parts
<1> DEFINE p == ProcOf[t]
<1> DEFINE f == [local[p] EXCEPT !.adopters = @ \cup {t}]
<1>0. local[p] \in FenceRecord /\ f \in FenceRecord /\ f.owner = local[p].owner
      /\ f.phase = local[p].phase /\ f.adopters = local[p].adopters \cup {t}
  BY SMTT(30) DEF TypeOK, FenceRecord
<1>1. /\ local' \in [Procs -> FenceRecord] /\ local'[p] = f
      /\ \A q \in Procs : q # p => local'[q] = local[q]
  <2>1. local' = [local EXCEPT ![p] = f]
    BY DEF Adopt
  <2> HIDE DEF f, p
  <2> QED
    BY <1>0, <2>1, LocalIs DEF p
<1>2. pc' = [pc EXCEPT ![t] = "inside"] /\ pc[t] = "asking" /\ local[p].phase = "active"
  BY DEF Adopt, Goto, Adoptable, Fence
<1>3. TypeOK'
  BY <1>1, <1>2 DEF Adopt, TypeOK, FenceRecord, Places, handoffVars, queueVars
<1>4. \A u \in Threads : u # t => pc'[u] = pc[u]
  BY <1>2 DEF TypeOK
<1>5. pc'[t] = "inside"
  BY <1>2 DEF TypeOK
<1>6. local[p].owner # t /\ local'[p].owner = local[p].owner /\ local'[p].phase = "active"
      /\ local'[p].adopters = local[p].adopters \cup {t}
  <2>1. FenceOf(p)
    BY DEF FenceInv
  <2> HIDE DEF f
  <2>2. local[p].owner # t
    BY <1>2, <2>1 DEF FenceOf, NoFence, Entered
  <2> QED
    BY <1>0, <1>1, <1>2, <2>2
<1>7. FenceInv'
  <2>1. ASSUME NEW q \in Procs PROVE FenceOf(q)'
    <3>1. FenceOf(q) /\ local[q].adopters \subseteq Threads
      BY DEF FenceInv, TypeOK
    <3>2. CASE q = p
      BY <1>1, <1>2, <1>4, <1>5, <1>6, <3>1, <3>2 DEF FenceOf, Entered, Adopt, NoFence
    <3>3. CASE q # p
      BY <1>1, <1>2, <1>4, <1>5, <3>1, <3>3 DEF FenceOf, Entered, Adopt, NoFence
    <3> QED
      BY <3>2, <3>3
  <2>2. ASSUME NEW u \in Threads PROVE VisitOf(u)'
    <3>1. VisitOf(u)
      BY DEF FenceInv
    <3>2. CASE u = t
      BY <1>5, <1>6, <3>2 DEF VisitOf, Fence, Entered
    <3>3. CASE u # t
      BY <1>1, <1>4, <1>6, <3>1, <3>3 DEF VisitOf, Fence, Entered, Adopt
    <3> QED
      BY <3>2, <3>3
  <2> QED
    BY <2>1, <2>2 DEF FenceInv
<1> QED
  BY <1>2, <1>3, <1>7, VisitKeeps DEF Adopt, AtFence

LEMMA ClaimKeeps ==
  ASSUME IInv, NEW t \in Threads, Claim(t)
  PROVE  IInv'
<1> USE Kinds, Parts
<1> DEFINE p == ProcOf[t]
<1>1. /\ local' \in [Procs -> FenceRecord]
      /\ local'[p] = [phase |-> "acquiring", owner |-> t, adopters |-> {}]
      /\ \A q \in Procs : q # p => local'[q] = local[q]
  BY LocalIs DEF Claim, FenceRecord
<1>2. pc' = [pc EXCEPT ![t] = "acquiring"] /\ pc[t] = "asking" /\ local[p] = NoFence
  BY DEF Claim, Goto, Fence
<1>3. TypeOK'
  BY <1>1, <1>2 DEF Claim, TypeOK, FenceRecord, Places, handoffVars, queueVars
<1>4. pc'[t] = "acquiring" /\ \A u \in Threads : u # t => pc'[u] = pc[u]
  BY <1>2 DEF TypeOK
<1>5. FenceInv'
  <2>1. ASSUME NEW q \in Procs PROVE FenceOf(q)'
    <3>1. FenceOf(q) /\ local[q].adopters \subseteq Threads
      BY DEF FenceInv, TypeOK
    <3>2. CASE q = p
      BY <1>1, <1>4, <3>2 DEF FenceOf
    <3>3. CASE q # p
      BY <1>1, <1>2, <1>4, <3>1, <3>3 DEF FenceOf, Entered, Claim, NoFence
    <3> QED
      BY <3>2, <3>3
  <2>2. ASSUME NEW u \in Threads PROVE VisitOf(u)'
    <3>1. VisitOf(u)
      BY DEF FenceInv
    <3>2. CASE u = t
      BY <1>1, <1>4, <3>2 DEF VisitOf, Fence, Entered
    <3>3. CASE u # t
      BY <1>1, <1>2, <1>4, <3>1, <3>3 DEF VisitOf, Fence, Entered, Claim, NoFence
    <3> QED
      BY <3>2, <3>3
  <2> QED
    BY <2>1, <2>2 DEF FenceInv
<1> QED
  BY <1>2, <1>3, <1>5, VisitKeeps DEF Claim, AtFence

LEMMA ActivateKeeps ==
  ASSUME IInv, NEW t \in Threads, Activate(t)
  PROVE  IInv'
<1> USE Kinds, Parts
<1> DEFINE p == ProcOf[t]
<1> DEFINE f == [local[p] EXCEPT !.phase = "active"]
<1>0. local[p] \in FenceRecord /\ f \in FenceRecord /\ f.owner = local[p].owner
      /\ f.phase = "active" /\ f.adopters = local[p].adopters
  <2>1. local[p] \in FenceRecord
    BY DEF TypeOK, FenceRecord
  <2> QED
    BY <2>1 DEF FenceRecord
<1>1. /\ local' \in [Procs -> FenceRecord] /\ local'[p] = f
      /\ \A q \in Procs : q # p => local'[q] = local[q]
  <2>1. local' = [local EXCEPT ![p] = f]
    BY DEF Activate
  <2> HIDE DEF f, p
  <2> QED
    BY <1>0, <2>1, LocalIs DEF p
<1>2. pc' = [pc EXCEPT ![t] = "inside"] /\ pc[t] = "acquiring" /\ os = Nobody /\ os' = t
  BY DEF Activate, Goto
<1>3. TypeOK'
  <2>1. pc' \in [Threads -> Places] /\ os' \in Threads
    BY <1>2 DEF TypeOK, Places
  <2>2. UNCHANGED <<leases, inc, job, handoffVars, queueVars>>
    BY DEF Activate
  <2> HIDE DEF f
  <2> QED
    BY <1>1, <2>1, <2>2 DEF TypeOK, FenceRecord, handoffVars, queueVars
<1>4. pc'[t] = "inside" /\ \A u \in Threads : u # t => pc'[u] = pc[u]
  BY <1>2 DEF TypeOK
<1>5. local[p].owner = t /\ local[p].phase = "acquiring" /\ local[p].adopters = {}
  BY <1>2 DEF FenceInv, VisitOf, FenceOf, Fence, NoFence, Entered
<1>6. local'[p].owner = t /\ local'[p].phase = "active" /\ local'[p].adopters = {}
  BY <1>0, <1>1, <1>5
<1>7. FenceInv'
  <2>1. ASSUME NEW q \in Procs PROVE FenceOf(q)'
    <3>1. FenceOf(q) /\ local[q].adopters \subseteq Threads
      BY DEF FenceInv, TypeOK
    <3>2. CASE q = p
      BY <1>2, <1>4, <1>6, <3>2 DEF FenceOf, Entered
    <3>3. CASE q # p
      BY <1>1, <1>2, <1>4, <3>1, <3>3 DEF FenceOf, Entered, NoFence
    <3> QED
      BY <3>2, <3>3
  <2>2. ASSUME NEW u \in Threads PROVE VisitOf(u)'
    <3>1. VisitOf(u)
      BY DEF FenceInv
    <3>2. CASE u = t
      BY <1>2, <1>4, <1>6, <3>2 DEF VisitOf, Fence, Entered
    <3>3. CASE u # t
      BY <1>1, <1>2, <1>4, <1>5, <1>6, <3>1, <3>3 DEF VisitOf, Fence, Entered
    <3> QED
      BY <3>2, <3>3
  <2> QED
    BY <2>1, <2>2 DEF FenceInv
<1> QED
  BY <1>2, <1>3, <1>7, VisitKeeps DEF Activate, AtFence

LEMMA DrainKeeps ==
  ASSUME IInv, NEW t \in Threads, Drain(t)
  PROVE  IInv'
<1> USE Kinds, Parts
<1> DEFINE p == ProcOf[t]
<1>1. /\ local' \in [Procs -> FenceRecord] /\ local'[p] = NoFence
      /\ \A q \in Procs : q # p => local'[q] = local[q]
  BY LocalIs DEF Drain, FenceRecord, NoFence
<1>2. pc' = [pc EXCEPT ![t] = "unlocking"] /\ pc[t] = "draining" /\ local[p].adopters = {}
  BY DEF Drain, Goto, Fence
<1>3. TypeOK'
  BY <1>1, <1>2 DEF Drain, TypeOK, FenceRecord, Places, handoffVars, queueVars
<1>4. pc'[t] = "unlocking" /\ \A u \in Threads : u # t => pc'[u] = pc[u]
  BY <1>2 DEF TypeOK
<1>5. local[p].owner = t /\ local[p].phase = "closing" /\ os = t
  BY <1>2 DEF FenceInv, VisitOf, FenceOf, Fence, NoFence, Entered
<1>6. FenceInv'
  <2>1. ASSUME NEW q \in Procs PROVE FenceOf(q)'
    <3>1. FenceOf(q) /\ local[q].adopters \subseteq Threads
      BY DEF FenceInv, TypeOK
    <3>2. CASE q = p
      BY <1>1, <3>2 DEF FenceOf, NoFence
    <3>3. CASE q # p
      BY <1>1, <1>2, <1>4, <3>1, <3>3 DEF FenceOf, Entered, Drain, NoFence
    <3> QED
      BY <3>2, <3>3
  <2>2. ASSUME NEW u \in Threads PROVE VisitOf(u)'
    <3>1. VisitOf(u)
      BY DEF FenceInv
    <3>2. CASE u = t
      BY <1>4, <1>5, <3>2 DEF VisitOf, Entered, Drain
    <3>3. CASE u # t
      BY <1>1, <1>2, <1>4, <1>5, <3>1, <3>3 DEF VisitOf, Fence, Entered, Drain, NoFence
    <3> QED
      BY <3>2, <3>3
  <2> QED
    BY <2>1, <2>2 DEF FenceInv
<1> QED
  BY <1>2, <1>3, <1>6, VisitKeeps DEF Drain, AtFence

\* The owner lets nobody in any more.
LEMMA CloseKeeps ==
  ASSUME TypeOK, FenceInv, NEW t \in Threads, pc[t] \in Entered, t \notin Fence(t).adopters,
         local' = [local EXCEPT ![ProcOf[t]].phase = "closing"], Goto(t, "draining"), os' = os
  PROVE  FenceInv' /\ local' \in [Procs -> FenceRecord]
<1> USE Kinds
<1> DEFINE p == ProcOf[t]
<1> DEFINE f == [local[p] EXCEPT !.phase = "closing"]
<1>0. local[p] \in FenceRecord /\ f \in FenceRecord /\ f.owner = local[p].owner
      /\ f.phase = "closing" /\ f.adopters = local[p].adopters
  <2>1. local[p] \in FenceRecord
    BY DEF TypeOK, FenceRecord
  <2> QED
    BY <2>1 DEF FenceRecord
<1>1. /\ local' \in [Procs -> FenceRecord] /\ local'[p] = f
      /\ \A q \in Procs : q # p => local'[q] = local[q]
  <2>1. local' = [local EXCEPT ![p] = f]
    OBVIOUS
  <2> HIDE DEF f, p
  <2> QED
    BY <1>0, <2>1, LocalIs DEF p
<1>2. pc'[t] = "draining" /\ \A u \in Threads : u # t => pc'[u] = pc[u]
  BY DEF Goto, TypeOK
<1>3. local[p].owner = t /\ local[p].phase = "active" /\ os = t
      /\ \A u \in local[p].adopters : u \in Threads /\ u # t /\ ProcOf[u] = p /\ pc[u] \in Entered
  <2>1. local[p].owner = t /\ local[p].phase = "active"
    BY DEF FenceInv, VisitOf, Fence
  <2>2. FenceOf(p) /\ local[p].adopters \subseteq Threads
    BY DEF FenceInv, TypeOK
  <2> QED
    BY <2>1, <2>2 DEF FenceOf, NoFence
<1> HIDE DEF f
<1>4. local'[p].owner = t /\ local'[p].phase = "closing" /\ local'[p].adopters = local[p].adopters
  BY <1>0, <1>1, <1>3
<1>5. ASSUME NEW q \in Procs PROVE FenceOf(q)'
  <2>1. FenceOf(q) /\ local[q].adopters \subseteq Threads
    BY DEF FenceInv, TypeOK
  <2>2. CASE q = p
    BY <1>2, <1>3, <1>4, <2>2 DEF FenceOf
  <2>3. CASE q # p
    BY <1>1, <1>2, <1>3, <2>1, <2>3 DEF FenceOf, Entered, NoFence
  <2> QED
    BY <2>2, <2>3
<1>6. ASSUME NEW u \in Threads PROVE VisitOf(u)'
  <2>1. VisitOf(u)
    BY DEF FenceInv
  <2>2. CASE u = t
    BY <1>2, <1>4, <2>2 DEF VisitOf, Fence, Entered
  <2>3. CASE u # t
    BY <1>1, <1>2, <1>3, <1>4, <2>1, <2>3 DEF VisitOf, Fence, Entered
  <2> QED
    BY <2>2, <2>3
<1> QED
  BY <1>1, <1>5, <1>6 DEF FenceInv

\* What is done inside leaves the leases of the others.
LEMMA BodyLeases ==
  ASSUME TypeOK, LeaseInv, NEW t \in Threads, Body(t)
  PROVE  /\ leases' \subseteq [by : Threads, inc : Nat, listed : BOOLEAN]
         /\ handoff' \in [Children -> BOOLEAN]
         /\ \A u \in Threads : LeaseStays(u, t) => LeaseOf(u) \in leases'
         /\ job[t] = "register" => LeaseOf(t) \in leases'
<1>1. LeaseOf(t) \in [by : Threads, inc : Nat, listed : BOOLEAN]
  BY Kinds DEF LeaseOf, TypeOK
<1>2. handoff' \in [Children -> BOOLEAN]
  BY DEF Body, TypeOK
<1>3. leases' \subseteq [by : Threads, inc : Nat, listed : BOOLEAN]
  BY <1>1 DEF Body, TypeOK
<1>4. \A u \in Threads : u # t => LeaseOf(u) # LeaseOf(t)
  BY DEF LeaseOf
<1>5. \A u \in Threads : LeaseStays(u, t) => LeaseOf(u) \in leases'
  BY <1>4 DEF Body, LeaseInv, LeaseStays
<1> QED
  BY <1>2, <1>3, <1>5 DEF Body

LEMMA BodyKeeps ==
  ASSUME TypeOK, LeaseInv, NEW t \in Threads, Body(t), inc' = inc,
         \A u \in Threads : HasLease(u)' => LeaseStays(u, t) \/ (u = t /\ job[t] = "register")
  PROVE  LeaseInv'
BY BodyLeases DEF LeaseInv, LeaseOf

LEMMA LeaveKeeps ==
  ASSUME IInv, NEW t \in Threads, Leave(t)
  PROVE  IInv'
<1> USE Kinds, Parts
<1> DEFINE p == ProcOf[t]
<1>1. pc[t] = "inside" /\ job[t] # "adopt" /\ Body(t) /\ UNCHANGED <<os, inc, ready, expired, approved>>
  BY DEF Leave
<1>2. \A r \in Resetters : pc[r] # "clearing"
  BY <1>1, NobodyClears DEF Entered
<1>3. CASE t \in Fence(t).adopters
  <2> DEFINE f == [local[p] EXCEPT !.adopters = @ \ {t}]
  <2>0. local[p] \in FenceRecord /\ f \in FenceRecord /\ f.owner = local[p].owner
        /\ f.phase = local[p].phase /\ f.adopters = local[p].adopters \ {t}
    BY DEF TypeOK, FenceRecord
  <2>1. /\ local' \in [Procs -> FenceRecord] /\ local'[p] = f
        /\ \A q \in Procs : q # p => local'[q] = local[q]
    <3>1. local' = [local EXCEPT ![p] = f]
      BY <1>3 DEF Leave
    <3> HIDE DEF f, p
    <3> QED
      BY <2>0, <3>1, LocalIs DEF p
  <2>2. Continue(t)
    BY <1>3 DEF Leave
  <2>3. /\ Errands'
        /\ pc' = [pc EXCEPT ![t] = After(t)] /\ After(t) \in Places \ FencePlaces
        /\ \A u \in Threads : HasLease(u)' => LeaseStays(u, t) \/ (u = t /\ job[t] = "register")
        /\ pending' \subseteq Children /\ running' \subseteq Children
        /\ cur' \in Children \cup {Nobody} /\ okay' \in BOOLEAN /\ broken' \in BOOLEAN
        /\ task' \in [Children -> {"queued", "assigned", "completed", "failed"}]
        /\ exit' \in [Children -> {"none", "zero", "error"}]
        /\ job' \in [Threads -> Jobs]
    BY <1>1, <2>2, ContinueFrame
  <2>4. pc'[t] \in Places \ FencePlaces /\ \A u \in Threads : u # t => pc'[u] = pc[u]
    BY <2>3 DEF TypeOK
  <2>5. TypeOK'
    <3>1. leases' \subseteq [by : Threads, inc : Nat, listed : BOOLEAN] /\ handoff' \in [Children -> BOOLEAN]
      BY <1>1, BodyLeases
    <3>2. pc' \in [Threads -> Places]
      BY <2>3 DEF TypeOK
    <3> HIDE DEF f
    <3> QED
      BY <1>1, <2>1, <2>3, <3>1, <3>2 DEF TypeOK, FenceRecord, Jobs
  <2> HIDE DEF f
  <2>6. FenceInv'
    <3>1. FenceOf(p) /\ local[p].adopters \subseteq Threads
      BY DEF FenceInv, TypeOK
    <3>2. local[p].owner # t
      BY <1>3, <3>1 DEF FenceOf, NoFence, Fence
    <3>3. ASSUME NEW q \in Procs PROVE FenceOf(q)'
      <4>1. FenceOf(q) /\ local[q].adopters \subseteq Threads
        BY DEF FenceInv, TypeOK
      <4>2. CASE q = p
        <5>1. local[p] # NoFence
          BY <1>3 DEF NoFence, Fence
        <5>2. /\ local'[p].owner = local[p].owner /\ local'[p].phase = local[p].phase
              /\ local'[p].adopters = local[p].adopters \ {t} /\ pc'[local[p].owner] = pc[local[p].owner]
          BY <2>0, <2>1, <2>4, <3>1, <3>2, <5>1 DEF FenceOf
        <5>3. \A u \in local'[p].adopters : ProcOf[u] = p /\ pc'[u] \in Entered
          BY <2>4, <3>1, <5>1, <5>2 DEF FenceOf
        <5> QED
          BY <1>1, <1>3, <3>1, <4>2, <5>1, <5>2, <5>3 DEF FenceOf, Fence
      <4>3. CASE q # p
        BY <1>1, <2>1, <2>4, <4>1, <4>3 DEF FenceOf, Entered, NoFence, FencePlaces
      <4> QED
        BY <4>2, <4>3
    <3>4. ASSUME NEW u \in Threads PROVE VisitOf(u)'
      <4>1. VisitOf(u)
        BY DEF FenceInv
      <4>2. CASE u = t
        BY <2>4, <4>2 DEF VisitOf, FencePlaces, Entered
      <4>3. CASE u # t
        <5>1. local'[ProcOf[u]].owner = local[ProcOf[u]].owner
              /\ local'[ProcOf[u]].phase = local[ProcOf[u]].phase
              /\ (u \in local'[ProcOf[u]].adopters <=> u \in local[ProcOf[u]].adopters)
          BY <2>0, <2>1, <4>3
        <5> QED
          BY <1>1, <2>4, <4>1, <4>3, <5>1 DEF VisitOf, Fence, Entered
      <4> QED
        BY <4>2, <4>3
    <3> QED
      BY <3>3, <3>4 DEF FenceInv
  <2>7. LeaseInv'
    BY <1>1, <2>3, BodyKeeps
  <2>8. ClearInv'
    BY <1>2, <2>4, ClearFrame DEF FencePlaces
  <2> QED
    BY <2>3, <2>5, <2>6, <2>7, <2>8, Whole
<1>4. CASE t \notin Fence(t).adopters
  <2>1. /\ local' = [local EXCEPT ![p].phase = "closing"] /\ Goto(t, "draining")
        /\ UNCHANGED <<job, queueVars>>
    BY <1>4 DEF Leave
  <2>2. FenceInv' /\ local' \in [Procs -> FenceRecord]
    BY <1>1, <1>4, <2>1, CloseKeeps DEF Entered
  <2>3. Only(t) /\ pc'[t] = "draining" /\ job' = job
    BY <2>1 DEF Goto, Only, TypeOK, Places, Jobs
  <2>4. Errands'
    BY <1>1, <2>1, <2>3, VisitFrame DEF AtFence
  <2>5. TypeOK'
    <3>1. leases' \subseteq [by : Threads, inc : Nat, listed : BOOLEAN] /\ handoff' \in [Children -> BOOLEAN]
      BY <1>1, BodyLeases
    <3> QED
      BY <1>1, <2>1, <2>2, <2>3, <3>1 DEF TypeOK, FenceRecord, Only, queueVars
  <2>6. \A u \in Threads : HasLease(u)' => LeaseStays(u, t) \/ (u = t /\ job[t] = "register")
    <3>1. HasLease(t)' => LeaseStays(t, t) \/ job[t] = "register"
      BY <1>1, <2>3 DEF HasLease, LeaseStays, AtFence, Serving
    <3>2. \A u \in Threads : u # t => (HasLease(u)' <=> HasLease(u))
      BY <2>3 DEF Only, HasLease
    <3> QED
      BY <3>1, <3>2 DEF LeaseStays
  <2>7. LeaseInv'
    BY <1>1, <2>6, BodyKeeps
  <2>8. ClearInv'
    BY <1>2, <2>3, ClearFrame DEF Only
  <2> QED
    BY <2>2, <2>4, <2>5, <2>7, <2>8, Whole
<1> QED
  BY <1>3, <1>4

\* What ContinueFrame says, with the type of what the visit wrote.
LEMMA ContinueTyped ==
  ASSUME TypeOK, Errands, NEW t \in Threads, Continue(t),
         (pc[t] \in {"inside", "asking"} /\ job[t] # "adopt") \/ pc[t] = "unlocking",
         UNCHANGED <<inc, ready, expired, approved>>,
         os' \in Threads \cup {Nobody}, local' \in [Procs -> FenceRecord],
         leases' \subseteq [by : Threads, inc : Nat, listed : BOOLEAN],
         handoff' \in [Children -> BOOLEAN]
  PROVE  /\ TypeOK' /\ Errands' /\ pc'[t] \in Places \ FencePlaces
         /\ \A u \in Threads : u # t => pc'[u] = pc[u]
         /\ \A u \in Threads : HasLease(u)' => LeaseStays(u, t) \/ (u = t /\ job[t] = "register")
<1>1. /\ Errands'
      /\ pc' = [pc EXCEPT ![t] = After(t)] /\ After(t) \in Places \ FencePlaces
      /\ \A u \in Threads : HasLease(u)' => LeaseStays(u, t) \/ (u = t /\ job[t] = "register")
      /\ pending' \subseteq Children /\ running' \subseteq Children
      /\ cur' \in Children \cup {Nobody} /\ okay' \in BOOLEAN /\ broken' \in BOOLEAN
      /\ task' \in [Children -> {"queued", "assigned", "completed", "failed"}]
      /\ exit' \in [Children -> {"none", "zero", "error"}]
      /\ job' \in [Threads -> Jobs]
  BY ContinueFrame
<1>2. pc' \in [Threads -> Places] /\ pc'[t] \in Places \ FencePlaces
      /\ \A u \in Threads : u # t => pc'[u] = pc[u]
  BY <1>1 DEF TypeOK
<1>3. TypeOK'
  BY <1>1, <1>2 DEF TypeOK, FenceRecord, Jobs
<1> QED
  BY <1>1, <1>2, <1>3

LEMMA UnlockKeeps ==
  ASSUME IInv, NEW t \in Threads, Unlock(t)
  PROVE  IInv'
<1> USE Kinds, Parts
<1>1. pc[t] = "unlocking" /\ os' = Nobody /\ Continue(t) /\ UNCHANGED <<local, leases, inc, handoffVars>>
  BY DEF Unlock
<1>2. os = t
  BY <1>1 DEF FenceInv, VisitOf
<1>3. /\ os' \in Threads \cup {Nobody} /\ local' \in [Procs -> FenceRecord]
      /\ leases' \subseteq [by : Threads, inc : Nat, listed : BOOLEAN]
      /\ handoff' \in [Children -> BOOLEAN]
  BY <1>1 DEF TypeOK, FenceRecord, handoffVars
<1>4. /\ TypeOK' /\ Errands' /\ pc'[t] \in Places \ FencePlaces
      /\ \A u \in Threads : u # t => pc'[u] = pc[u]
      /\ \A u \in Threads : HasLease(u)' => LeaseStays(u, t) \/ (u = t /\ job[t] = "register")
  BY <1>1, <1>3, ContinueTyped DEF handoffVars
<1>5. FenceInv'
  <2>1. ASSUME NEW q \in Procs PROVE FenceOf(q)'
    <3>1. FenceOf(q) /\ local[q].adopters \subseteq Threads
      BY DEF FenceInv, TypeOK
    <3> QED
      BY <1>1, <1>2, <1>4, <3>1 DEF FenceOf, Entered, NoFence
  <2>2. ASSUME NEW u \in Threads PROVE VisitOf(u)'
    <3>1. VisitOf(u)
      BY DEF FenceInv
    <3> QED
      BY <1>1, <1>2, <1>4, <3>1 DEF VisitOf, Fence, Entered, FencePlaces
  <2> QED
    BY <2>1, <2>2 DEF FenceInv
<1>6. LeaseInv'
  <2>1. HasLease(t) <=> job[t] \in {"handoff", "register", "adopt"} \cup EndsHandoff
    BY <1>1 DEF HasLease, AtFence, Serving
  <2>2. \A u \in Threads : HasLease(u)' => HasLease(u)
    BY <1>4, <2>1 DEF LeaseStays
  <2> QED
    BY <1>1, <2>2, LeaseFrame
<1>7. ClearInv'
  BY <1>1, <1>4, ClearFrame DEF FencePlaces
<1> QED
  BY <1>4, <1>5, <1>6, <1>7, Whole

LEMMA RegisterDirectlyKeeps ==
  ASSUME IInv, NEW t \in Threads, RegisterDirectly(t)
  PROVE  IInv'
<1> USE Kinds, Parts
<1>1. /\ pc[t] = "asking" /\ job[t] # "adopt" /\ Adoptable(t) /\ Body(t) /\ Continue(t)
      /\ UNCHANGED <<os, local, inc, ready, expired, approved>>
  BY DEF RegisterDirectly
<1>2. \A r \in Resetters : pc[r] # "clearing"
  BY <1>1, NobodyClears
<1>3. /\ os' \in Threads \cup {Nobody} /\ local' \in [Procs -> FenceRecord]
      /\ leases' \subseteq [by : Threads, inc : Nat, listed : BOOLEAN]
      /\ handoff' \in [Children -> BOOLEAN]
  <2>1. os' \in Threads \cup {Nobody} /\ local' \in [Procs -> FenceRecord]
    BY <1>1 DEF TypeOK, FenceRecord
  <2> QED
    BY <1>1, <2>1, BodyLeases
<1>4. /\ TypeOK' /\ Errands' /\ pc'[t] \in Places \ FencePlaces
      /\ \A u \in Threads : u # t => pc'[u] = pc[u]
      /\ \A u \in Threads : HasLease(u)' => LeaseStays(u, t) \/ (u = t /\ job[t] = "register")
  BY <1>1, <1>3, ContinueTyped
<1>5. FenceInv'
  <2>1. pc[t] \notin FencePlaces
    BY <1>1 DEF FencePlaces, Entered
  <2> QED
    BY <1>1, <1>4, <2>1, FenceFrame
<1>6. LeaseInv'
  BY <1>1, <1>4, BodyKeeps
<1>7. ClearInv'
  BY <1>2, <1>4, ClearFrame DEF FencePlaces
<1> QED
  BY <1>4, <1>5, <1>6, <1>7, Whole

LEMMA GiveUpKeeps ==
  ASSUME IInv, NEW t \in Threads, GiveUp(t)
  PROVE  IInv'
<1> USE Kinds, Parts, KindsAssumption
<1> DEFINE p == ProcOf[t]
<1>1. pc[t] \in {"asking", "acquiring"} /\ UNCHANGED <<os, inc, handoffVars>>
  BY DEF GiveUp
<1>2. RoleOf(t) /\ job[t] # "none"
  BY <1>1 DEF RoleInv, RoleOf, AtFence
<1>3. t = Queue => /\ job[t] = "handoff" => cur \in Children /\ pc[cur] = "unborn" /\ cur \notin pending
                   /\ job[t] \in EndsHandoff => cur \in Children /\ pc[cur] # "unborn"
                   /\ running # {} => job[t] \in {"handoff"} \cup EndsHandoff
                   /\ okay => job[t] = "endhandoff"
  BY <1>1 DEF Errands, QueueInv, Serving
<1>4. pc'[t] \in {"dead", "looping", "failing", "idle"} /\ job'[t] = "none" /\ Only(t)
  <2>1. pc' \in [Threads -> Places] /\ pc'[t] \in {"dead", "looping", "failing", "idle"}
        /\ \A u \in Threads : u # t => pc'[u] = pc[u]
    <3>1. \E s \in {"dead", "looping", "failing", "idle"} : Goto(t, s)
      BY DEF GiveUp
    <3> QED
      BY <3>1 DEF Goto, TypeOK, Places
  <2>2. job' = [job EXCEPT ![t] = "none"]
    BY DEF GiveUp
  <2> QED
    BY <2>1, <2>2 DEF Only, TypeOK, Jobs
<1>5. /\ t \in Children => pc'[t] = "dead" /\ UNCHANGED <<pending, running, cur, okay, task, broken>>
      /\ t = Queue /\ job[t] = "handoff" =>
           /\ pc'[t] = "looping" /\ task' = [task EXCEPT ![cur] = "failed"] /\ cur' = Nobody
           /\ UNCHANGED <<pending, running, okay, exit, broken>>
      /\ t = Queue /\ job[t] \in EndsHandoff =>
           /\ pc'[t] = "failing" /\ cur' = Nobody /\ okay' = FALSE /\ broken' = TRUE
           /\ UNCHANGED <<pending, running, task, exit>>
      /\ t \notin Children /\ ~(t = Queue /\ job[t] \in {"handoff"} \cup EndsHandoff) =>
           pc'[t] = "idle" /\ UNCHANGED queueVars
  BY DEF GiveUp, Goto, TypeOK
<1>6. RoleOf(t)'
  BY <1>1, <1>2, <1>4, <1>5 DEF RoleOf, AtFence, Serving, Threads
<1>7. Errands'
  <2>1. CASE t \in Writers \cup Resetters
    BY <1>1, <1>4, <1>5, <1>6, <2>1, SideFrame DEF queueVars, handoffVars
  <2>2. CASE t \in Children
    <3>1. AnswerOf(t)'
      BY <1>5, <2>2 DEF AnswerOf
    <3> QED
      BY <1>1, <1>4, <1>5, <1>6, <2>2, <3>1, ChildFrame DEF handoffVars
  <2>3. CASE t = Queue
    <3>1. RoleInv'
      BY <1>4, <1>6 DEF RoleInv, RoleOf, Only
    <3>2. \A c \in Children : pc'[c] = pc[c] /\ job'[c] = job[c]
      BY <1>4, <2>3 DEF Only
    <3>3. AnswerInv'
      BY <1>1, <3>2 DEF Errands, AnswerInv, AnswerOf, handoffVars
    <3>4. QueueInv' /\ TaskInv'
      <4>1. CASE job[t] = "handoff"
        <5>1. QueueInv'
          BY <1>3, <1>4, <1>5, <2>3, <3>2, <4>1 DEF Errands, QueueInv, TypeOK, Serving
        <5>2. task'[cur] = "failed" /\ \A c \in Children : c # cur => task'[c] = task[c]
          BY <1>3, <1>5, <2>3, <4>1 DEF TypeOK
        <5>3. TaskInv'
          BY <1>3, <1>5, <2>3, <3>2, <4>1, <5>2 DEF Errands, TaskInv, Over, Terminal
        <5> QED
          BY <5>1, <5>3
      <4>2. CASE job[t] \in EndsHandoff
        BY <1>3, <1>4, <1>5, <2>3, <3>2, <4>2 DEF Errands, QueueInv, TaskInv, TypeOK, Serving
      <4>3. CASE job[t] \notin {"handoff"} \cup EndsHandoff
        <5>1. pc'[t] = "idle" /\ UNCHANGED queueVars
          BY <1>5, <2>3, <4>3
        <5>2. QueueInv'
          BY <1>3, <1>4, <2>3, <3>2, <4>3, <5>1 DEF Errands, QueueInv, TypeOK, Serving, queueVars
        <5>3. TaskInv'
          BY <1>1, <1>3, <2>3, <3>2, <4>3, <5>1 DEF Errands, TaskInv, Over, Terminal, Starting, queueVars
        <5> QED
          BY <5>2, <5>3
      <4> QED
        BY <4>1, <4>2, <4>3
    <3> QED
      BY <3>1, <3>3, <3>4 DEF Errands
  <2> QED
    BY <2>1, <2>2, <2>3 DEF Threads
<1>8. FenceInv' /\ local' \in [Procs -> FenceRecord]
  <2>1. CASE pc[t] = "asking"
    <3>1. local' = local
      BY <2>1 DEF GiveUp
    <3>2. FenceInv'
      BY <1>1, <1>4, <2>1, <3>1, FenceFrame DEF Only, FencePlaces, Entered
    <3> QED
      BY <3>1, <3>2 DEF TypeOK, FenceRecord
  <2>2. CASE pc[t] = "acquiring"
    <3>1. local' = [local EXCEPT ![p] = NoFence]
      BY <2>2 DEF GiveUp
    <3>2. /\ local' \in [Procs -> FenceRecord] /\ local'[p] = NoFence
          /\ \A q \in Procs : q # p => local'[q] = local[q]
      <4>1. NoFence \in FenceRecord
        BY DEF FenceRecord, NoFence
      <4>2. p \in Procs /\ TypeOK
        BY ProcOfAssumption DEF IInv
      <4> HIDE DEF p
      <4> QED
        BY <3>1, <4>1, <4>2, LocalIs
    <3>3. local[p].owner = t /\ local[p].phase = "acquiring" /\ local[p].adopters = {}
      BY <2>2 DEF FenceInv, VisitOf, FenceOf, Fence, NoFence, Entered
    <3>4. ASSUME NEW q \in Procs PROVE FenceOf(q)'
      <4>1. FenceOf(q) /\ local[q].adopters \subseteq Threads
        BY DEF FenceInv, TypeOK
      <4>2. CASE q = p
        BY <3>2, <4>2 DEF FenceOf
      <4>3. CASE q # p
        BY <1>1, <1>4, <2>2, <3>2, <4>1, <4>3 DEF FenceOf, Entered, NoFence, Only
      <4> QED
        BY <4>2, <4>3
    <3>5. ASSUME NEW u \in Threads PROVE VisitOf(u)'
      <4>1. VisitOf(u)
        BY DEF FenceInv
      <4>2. CASE u = t
        BY <1>4, <4>2 DEF VisitOf, Entered
      <4>3. CASE u # t
        BY <1>1, <1>4, <3>2, <3>3, <4>1, <4>3 DEF VisitOf, Fence, Entered, Only, NoFence
      <4> QED
        BY <4>2, <4>3
    <3> QED
      BY <3>2, <3>4, <3>5 DEF FenceInv
  <2> QED
    BY <1>1, <2>1, <2>2
<1>9. LeaseOf(t) \in leases \/ job[t] # "unregister"
  BY <1>1 DEF LeaseInv, HasLease
<1>10. LeaseOf(t) \in [by : Threads, inc : Nat, listed : BOOLEAN]
       /\ [LeaseOf(t) EXCEPT !.listed = FALSE] \in [by : Threads, inc : Nat, listed : BOOLEAN]
  BY DEF LeaseOf, TypeOK
<1>11. leases' \subseteq [by : Threads, inc : Nat, listed : BOOLEAN]
  BY <1>10 DEF GiveUp, TypeOK
<1>12. LeaseInv'
  <2>1. ASSUME NEW u \in Threads, HasLease(u)' PROVE LeaseOf(u)' \in leases'
    <3>1. HasLease(u) /\ (u = t => job[t] # "unregister")
      <4>1. CASE u = t
        BY <1>1, <1>2, <1>4, <1>5, <2>1, <4>1 DEF HasLease, AtFence, Serving, RoleOf
      <4>2. CASE u # t
        BY <1>4, <2>1, <4>2 DEF HasLease, Only
      <4> QED
        BY <4>1, <4>2
    <3>2. LeaseOf(u) \in leases /\ (u # t => LeaseOf(u) # LeaseOf(t))
      BY <3>1 DEF LeaseInv, LeaseOf
    <3>3. LeaseOf(u)' = LeaseOf(u)
      BY <1>1 DEF LeaseOf
    <3> QED
      BY <3>1, <3>2, <3>3 DEF GiveUp
  <2> QED
    BY <2>1 DEF LeaseInv
<1>13. ClearInv'
  <2>1. ASSUME NEW r \in Resetters, pc'[r] = "clearing" PROVE leases' = {}
    <3>1. leases = {}
      BY <1>4, <2>1 DEF ClearInv, Only
    <3> QED
      BY <1>9, <3>1 DEF GiveUp
  <2> QED
    BY <2>1 DEF ClearInv
<1>14. TypeOK'
  <2>1. os' \in Threads \cup {Nobody} /\ inc' \in [Procs -> Nat]
        /\ handoff' \in [Children -> BOOLEAN] /\ ready' \in [Children -> BOOLEAN]
        /\ expired' \in [Children -> BOOLEAN] /\ approved' \in [Children -> BOOLEAN]
    BY <1>1 DEF TypeOK, handoffVars
  <2>2. /\ pending' \subseteq Children /\ running' \subseteq Children
        /\ cur' \in Children \cup {Nobody} /\ okay' \in BOOLEAN /\ broken' \in BOOLEAN
    BY <1>5, <1>2 DEF TypeOK, queueVars
  <2>3. /\ task' \in [Children -> {"queued", "assigned", "completed", "failed"}]
        /\ exit' \in [Children -> {"none", "zero", "error"}]
    BY DEF GiveUp, TypeOK, queueVars
  <2> QED
    BY <1>4, <1>8, <1>11, <2>1, <2>2, <2>3 DEF TypeOK, FenceRecord, Only, Jobs
<1> QED
  BY <1>7, <1>8, <1>12, <1>13, <1>14, Whole

-----------------------------------------------------------------------------
(* Writers, and the loop of the queue. *)

\* Steps outside the fence write no lease.
LEMMA QuietKeeps ==
  ASSUME IInv, UNCHANGED fenceVars, TypeOK', Errands',
         \A u \in Threads :
           \/ pc'[u] = pc[u]
           \/ pc[u] \notin FencePlaces /\ pc'[u] \notin FencePlaces
           \/ pc[u] \in Entered /\ pc'[u] \in Entered,
         \A u \in Threads : HasLease(u)' => HasLease(u)
  PROVE  IInv'
<1> USE Parts, Kinds
<1>1. os' = os /\ local' = local /\ leases' = leases /\ inc' = inc
  BY DEF fenceVars
<1>2. FenceInv'
  BY <1>1, FenceFrame
<1>3. LeaseInv'
  BY <1>1, LeaseFrame
<1>4. ClearInv'
  BY <1>1, ClearFrame DEF FencePlaces, Entered
<1> QED
  BY <1>2, <1>3, <1>4, Whole

\* A step of one thread outside the fence.
LEMMA LoneKeeps ==
  ASSUME IInv, UNCHANGED fenceVars, NEW t \in Threads, Only(t), TypeOK', Errands',
         \/ pc[t] \notin FencePlaces /\ pc'[t] \notin FencePlaces
         \/ pc[t] \in Entered /\ pc'[t] \in Entered,
         HasLease(t)' => HasLease(t)
  PROVE  IInv'
<1>1. \A u \in Threads : u # t => pc'[u] = pc[u] /\ (HasLease(u)' <=> HasLease(u))
  BY DEF Only, HasLease
<1> QED
  BY <1>1, QuietKeeps

LEMMA WriterKeeps ==
  ASSUME IInv, NEW w \in Writers, WriteFenced(w) \/ TakeLease(w) \/ EndLease(w)
  PROVE  IInv'
<1> USE Kinds, KindsAssumption, Parts
<1>1. PICK j \in Jobs :
        /\ Ask(w, j) /\ UNCHANGED <<fenceVars, handoffVars, queueVars>>
        /\ \/ pc[w] = "idle" /\ j \in {"write", "register"}
           \/ pc[w] = "leased" /\ j = "unregister"
  <2>1. CASE WriteFenced(w)
    BY <2>1 DEF WriteFenced, Jobs
  <2>2. CASE TakeLease(w)
    BY <2>2 DEF TakeLease, Jobs
  <2>3. CASE EndLease(w)
    BY <2>3 DEF EndLease, Jobs
  <2> QED
    BY <2>1, <2>2, <2>3
<1>2. Only(w) /\ pc'[w] = "asking" /\ job'[w] = j
  BY <1>1 DEF Ask, Goto, Only, TypeOK, Places, Jobs
<1>3. RoleOf(w)'
  BY <1>1, <1>2 DEF RoleOf, AtFence
<1>4. Errands'
  BY <1>1, <1>2, <1>3, SideFrame DEF handoffVars, queueVars
<1>5. TypeOK'
  BY <1>1, <1>2 DEF TypeOK, Only, Jobs, fenceVars, handoffVars, queueVars
<1>6. HasLease(w)' => HasLease(w)
  BY <1>1, <1>2 DEF HasLease, AtFence, Serving
<1>7. pc[w] \notin FencePlaces /\ pc'[w] \notin FencePlaces
  BY <1>1, <1>2 DEF FencePlaces, Entered
<1> QED
  BY <1>1, <1>2, <1>4, <1>5, <1>6, <1>7, LoneKeeps

\* The queue takes a step outside the fence that leaves its children alone.
LEMMA QueueMoves ==
  ASSUME IInv, UNCHANGED <<fenceVars, expired>>, Only(Queue), TypeOK', RoleOf(Queue)', QueueInv', TaskInv',
         pc[Queue] \in Serving \cup {"idle"}, pc'[Queue] \in Serving \cup {"asking"},
         HasLease(Queue)' => HasLease(Queue),
         \A c \in Children : ready[c] \/ approved[c] \/ expired[c] => ready'[c] \/ approved'[c] \/ expired'[c],
         \A c \in Children : approved[c] => approved'[c]
  PROVE  IInv'
<1> USE Kinds, KindsAssumption, Parts
<1>1. RoleInv'
  BY DEF RoleInv, RoleOf, Only
<1>2. AnswerInv'
  BY DEF Errands, AnswerInv, AnswerOf, Only
<1>3. Errands'
  BY <1>1, <1>2 DEF Errands
<1> QED
  BY <1>3, LoneKeeps DEF fenceVars, Serving, FencePlaces, Entered

\* Where the queue is, it keeps no errand or a certain one.
LEMMA QueueAt ==
  ASSUME IInv, pc[Queue] \in Serving \cup {"idle"}
  PROVE  /\ job[Queue] = "none" /\ okay = FALSE
         /\ pc[Queue] = "idle" => running = {}
         /\ pc[Queue] \notin {"spawning", "waiting"} => ~Starting
         /\ pc[Queue] = "spawning" => cur \in Children /\ pc[cur] = "unborn" /\ cur \notin pending \cup running
         /\ pc[Queue] = "waiting" => cur \in Children /\ pc[cur] # "unborn" /\ cur \notin pending
<1>1. RoleOf(Queue)
  BY Parts, Kinds DEF RoleInv
<1>2. job[Queue] = "none"
  BY <1>1 DEF RoleOf, AtFence, Serving
<1> QED
  BY <1>2, Parts DEF Errands, QueueInv, Starting, Serving, TypeOK

LEMMA StartRunKeeps ==
  ASSUME IInv, StartRun
  PROVE  IInv'
<1> USE Kinds, KindsAssumption, Parts
<1>1. /\ pc[Queue] = "idle" /\ Ask(Queue, "register")
      /\ UNCHANGED <<fenceVars, handoffVars, queueVars>>
  BY DEF StartRun
<1>2. Only(Queue) /\ pc'[Queue] = "asking" /\ job'[Queue] = "register"
  BY <1>1 DEF Ask, Goto, Only, TypeOK, Places, Jobs
<1>3. job[Queue] = "none" /\ okay = FALSE /\ running = {} /\ ~Starting
  BY <1>1, QueueAt
<1>4. \A c \in Children : pc'[c] = pc[c] /\ job'[c] = job[c]
  BY <1>2 DEF Only
<1>5. TypeOK'
  BY <1>1, <1>2 DEF TypeOK, Only, Jobs, fenceVars, handoffVars, queueVars
<1>6. RoleOf(Queue)'
  BY <1>2 DEF RoleOf, AtFence
<1>7. QueueInv'
  BY <1>1, <1>2, <1>3, <1>4 DEF Errands, QueueInv, TypeOK, queueVars
<1>8. TaskInv'
  BY <1>1, <1>3, <1>4 DEF Errands, TaskInv, Over, Terminal, queueVars
<1> QED
  BY <1>1, <1>2, <1>5, <1>6, <1>7, <1>8, QueueMoves DEF handoffVars, HasLease, AtFence, Serving

LEMMA AssignKeeps ==
  ASSUME IInv, NEW c \in Children, Assign(c)
  PROVE  IInv'
<1> USE Kinds, KindsAssumption, Parts
<1>1. /\ pc[Queue] = "looping" /\ c \in pending /\ Ask(Queue, "handoff")
      /\ pending' = pending \ {c} /\ task' = [task EXCEPT ![c] = "assigned"] /\ cur' = c
      /\ UNCHANGED <<fenceVars, handoffVars, running, okay, exit, broken>>
  BY DEF Assign
<1>2. Only(Queue) /\ pc'[Queue] = "asking" /\ job'[Queue] = "handoff"
  BY <1>1 DEF Ask, Goto, Only, TypeOK, Places, Jobs
<1>3. job[Queue] = "none" /\ okay = FALSE /\ ~Starting
  BY <1>1, QueueAt DEF Serving
<1>4. \A d \in Children : pc'[d] = pc[d] /\ job'[d] = job[d]
  BY <1>2 DEF Only
<1>5. TypeOK'
  BY <1>1, <1>2 DEF TypeOK, Only, Jobs, fenceVars, handoffVars
<1>6. RoleOf(Queue)'
  BY <1>2 DEF RoleOf, AtFence
<1>7. QueueInv'
  BY <1>1, <1>2, <1>3, <1>4 DEF Errands, QueueInv, TypeOK
<1>8. TaskInv'
  <2>1. \A d \in Children : d # c => task'[d] = task[d]
    BY <1>1 DEF TypeOK
  <2> QED
    BY <1>1, <1>2, <1>3, <1>4, <2>1 DEF Errands, TaskInv, Over, Terminal, Starting
<1> QED
  BY <1>1, <1>2, <1>5, <1>6, <1>7, <1>8, QueueMoves DEF handoffVars, HasLease, AtFence, Serving

LEMMA SpawnKeeps ==
  ASSUME IInv, Spawn
  PROVE  IInv'
<1> USE Kinds, KindsAssumption, Parts
<1>1. /\ pc[Queue] = "spawning" /\ pc' = [pc EXCEPT ![Queue] = "waiting", ![cur] = "starting"]
      /\ UNCHANGED <<fenceVars, job, handoffVars, queueVars>>
  BY DEF Spawn
<1>2. job[Queue] = "none" /\ okay = FALSE /\ cur \in Children /\ pc[cur] = "unborn"
      /\ cur \notin pending \cup running /\ cur # Queue
  BY <1>1, QueueAt DEF Serving
<1>3. /\ pc' \in [Threads -> Places] /\ pc'[Queue] = "waiting" /\ pc'[cur] = "starting"
      /\ \A u \in Threads : u \notin {Queue, cur} => pc'[u] = pc[u]
  BY <1>1, <1>2 DEF TypeOK, Places
<1>4. TypeOK'
  BY <1>1, <1>3 DEF TypeOK, fenceVars, handoffVars, queueVars
<1>5. RoleInv'
  BY <1>1, <1>2, <1>3 DEF RoleInv, RoleOf, AtFence, Serving
<1>6. QueueInv'
  BY <1>1, <1>2, <1>3 DEF Errands, QueueInv, queueVars, Serving, TypeOK
<1>7. AnswerInv'
  BY <1>1, <1>2, <1>3 DEF Errands, AnswerInv, AnswerOf, handoffVars
<1>8. TaskInv'
  BY <1>1, <1>2, <1>3 DEF Errands, TaskInv, Over, Terminal, Starting, queueVars
<1>9. \A u \in Threads : HasLease(u)' => HasLease(u)
  BY <1>1, <1>2, <1>3 DEF HasLease, Serving, AtFence
<1>10. Errands'
  BY <1>5, <1>6, <1>7, <1>8 DEF Errands
<1> QED
  BY <1>1, <1>2, <1>3, <1>4, <1>9, <1>10, QuietKeeps DEF FencePlaces, Entered

LEMMA ApproveKeeps ==
  ASSUME IInv, Approve
  PROVE  IInv'
<1> USE Kinds, KindsAssumption, Parts
<1>1. /\ pc[Queue] = "waiting" /\ Ask(Queue, "endhandoff") /\ okay' = TRUE
      /\ ready' = [ready EXCEPT ![cur] = FALSE] /\ approved' = [approved EXCEPT ![cur] = TRUE]
      /\ UNCHANGED <<fenceVars, handoff, expired, pending, running, cur, task, exit, broken>>
  BY DEF Approve
<1>2. Only(Queue) /\ pc'[Queue] = "asking" /\ job'[Queue] = "endhandoff"
  BY <1>1 DEF Ask, Goto, Only, TypeOK, Places, Jobs
<1>3. cur \in Children /\ pc[cur] # "unborn" /\ cur \notin pending
  BY <1>1, QueueAt DEF Serving
<1>4. \A d \in Children : pc'[d] = pc[d] /\ job'[d] = job[d]
  BY <1>2 DEF Only
<1>5. TypeOK'
  BY <1>1, <1>2 DEF TypeOK, Only, Jobs, fenceVars
<1>6. RoleOf(Queue)'
  BY <1>2 DEF RoleOf, AtFence
<1>7. QueueInv'
  BY <1>1, <1>2, <1>3, <1>4 DEF Errands, QueueInv, TypeOK
<1>8. TaskInv'
  BY <1>1, <1>4 DEF Errands, TaskInv, Over, Terminal, Starting
<1>9. /\ approved'[cur] = TRUE
      /\ \A c \in Children : c # cur => ready'[c] = ready[c] /\ approved'[c] = approved[c]
  BY <1>1, <1>3 DEF TypeOK
<1> QED
  BY <1>1, <1>2, <1>5, <1>6, <1>7, <1>8, <1>9, QueueMoves DEF HasLease, AtFence, Serving

LEMMA PollKeeps ==
  ASSUME IInv, NEW c \in Children, Poll(c)
  PROVE  IInv'
<1> USE Kinds, KindsAssumption, Parts
<1>1. /\ pc[Queue] = "looping" /\ pc[c] = "dead" /\ running' = running \ {c} /\ FailUnlessTerminal(c)
      /\ UNCHANGED <<fenceVars, pc, job, handoffVars, pending, cur, okay, exit, broken>>
  BY DEF Poll
<1>2. Terminal(c)' /\ \A d \in Children : d # c => task'[d] = task[d]
  BY <1>1 DEF FailUnlessTerminal, Terminal, TypeOK
<1>3. Only(Queue)
  BY <1>1 DEF Only, TypeOK, Jobs
<1>4. TypeOK'
  BY <1>1 DEF TypeOK, fenceVars, handoffVars, FailUnlessTerminal
<1>5. RoleOf(Queue)'
  BY <1>1 DEF RoleInv, RoleOf
<1>6. QueueInv'
  BY <1>1 DEF Errands, QueueInv, Serving
<1>7. TaskInv'
  <2>1. \A d \in Children : d # c => (Over(d)' <=> Over(d))
    BY <1>1, <1>2 DEF Over, Terminal
  <2>2. Over(c)' /\ (Starting' <=> Starting)
    BY <1>1, <1>2 DEF Over, Starting
  <2> QED
    BY <1>1, <2>1, <2>2 DEF Errands, TaskInv
<1> QED
  BY <1>1, <1>3, <1>4, <1>5, <1>6, <1>7, QueueMoves DEF HasLease, AtFence, Serving, handoffVars

LEMMA DeadlineKeeps ==
  ASSUME IInv, Deadline
  PROVE  IInv'
<1> USE Kinds, KindsAssumption, Parts
<1>1. /\ pc[Queue] = "looping" /\ Goto(Queue, "failing")
      /\ UNCHANGED <<fenceVars, job, handoffVars, queueVars>>
  BY DEF Deadline
<1>2. Only(Queue) /\ pc'[Queue] = "failing" /\ job' = job
  BY <1>1 DEF Goto, Only, TypeOK, Places, Jobs
<1>3. job[Queue] = "none" /\ okay = FALSE
  BY <1>1, QueueAt DEF Serving
<1>4. \A d \in Children : pc'[d] = pc[d] /\ job'[d] = job[d]
  BY <1>2 DEF Only
<1>5. TypeOK'
  BY <1>1, <1>2 DEF TypeOK, Only, fenceVars, handoffVars, queueVars
<1>6. RoleOf(Queue)'
  BY <1>2, <1>3 DEF RoleOf, AtFence, Serving
<1>7. QueueInv'
  BY <1>1, <1>2, <1>3, <1>4 DEF Errands, QueueInv, TypeOK, queueVars, Serving
<1>8. TaskInv'
  BY <1>1, <1>2, <1>3, <1>4 DEF Errands, TaskInv, Over, Terminal, Starting, queueVars
<1> QED
  BY <1>1, <1>2, <1>5, <1>6, <1>7, <1>8, QueueMoves DEF handoffVars, HasLease, Serving

LEMMA FailPendingKeeps ==
  ASSUME IInv, NEW c \in Children, FailPending(c)
  PROVE  IInv'
<1> USE Kinds, KindsAssumption, Parts
<1>1. /\ pc[Queue] = "failing" /\ c \in pending /\ pending' = pending \ {c}
      /\ task' = [task EXCEPT ![c] = "failed"]
      /\ UNCHANGED <<fenceVars, pc, job, handoffVars, running, cur, okay, exit, broken>>
  BY DEF FailPending
<1>2. task'[c] = "failed" /\ \A d \in Children : d # c => task'[d] = task[d]
  BY <1>1 DEF TypeOK
<1>3. Only(Queue)
  BY <1>1 DEF Only, TypeOK, Jobs
<1>4. TypeOK'
  BY <1>1 DEF TypeOK, fenceVars, handoffVars
<1>5. RoleOf(Queue)'
  BY <1>1 DEF RoleInv, RoleOf
<1>6. QueueInv'
  BY <1>1 DEF Errands, QueueInv, Serving
<1>7. TaskInv'
  <2>1. \A d \in Children : d # c => (Over(d)' <=> Over(d))
    BY <1>1, <1>2 DEF Over, Terminal
  <2>2. Over(c)' /\ (Starting' <=> Starting)
    BY <1>1, <1>2 DEF Over, Starting, Terminal, Errands, QueueInv
  <2> QED
    BY <1>1, <2>1, <2>2 DEF Errands, TaskInv
<1> QED
  BY <1>1, <1>3, <1>4, <1>5, <1>6, <1>7, QueueMoves DEF HasLease, AtFence, Serving, handoffVars

\* A run that ends by an exception forgets its workers.
LEMMA UnreapedKeeps ==
  ASSUME IInv, Unreaped
  PROVE  IInv'
<1> USE Kinds, KindsAssumption, Parts
<1>1. /\ pc[Queue] = "failing" /\ Ask(Queue, "unregister") /\ running' = {} /\ broken' = TRUE
      /\ UNCHANGED <<fenceVars, handoffVars, pending, cur, okay, task, exit>>
  BY DEF Unreaped
<1>2. Only(Queue) /\ pc'[Queue] = "asking" /\ job'[Queue] = "unregister"
  BY <1>1 DEF Ask, Goto, Only, TypeOK, Places, Jobs
<1>3. job[Queue] = "none" /\ okay = FALSE
  BY <1>1, QueueAt DEF Serving
<1>4. \A c \in Children : pc'[c] = pc[c] /\ job'[c] = job[c]
  BY <1>2 DEF Only
<1>5. TypeOK'
  BY <1>1, <1>2 DEF TypeOK, Only, Jobs, fenceVars, handoffVars
<1>6. RoleOf(Queue)'
  BY <1>2 DEF RoleOf, AtFence
<1>7. QueueInv'
  BY <1>1, <1>2, <1>3, <1>4 DEF Errands, QueueInv, TypeOK, Serving
<1>8. TaskInv'
  BY <1>1 DEF TaskInv
<1> QED
  BY <1>1, <1>2, <1>5, <1>6, <1>7, <1>8, QueueMoves DEF handoffVars, HasLease, AtFence, Serving

LEMMA StartupUnreapedKeeps ==
  ASSUME IInv, StartupUnreaped
  PROVE  IInv'
<1> USE Kinds, KindsAssumption, Parts
<1>1. /\ pc[Queue] = "waiting" /\ Ask(Queue, "raise") /\ broken' = TRUE
      /\ task' = [task EXCEPT ![cur] = "failed"]
      /\ UNCHANGED <<fenceVars, handoffVars, pending, running, cur, okay, exit>>
  BY DEF StartupUnreaped
<1>2. Only(Queue) /\ pc'[Queue] = "asking" /\ job'[Queue] = "raise"
  BY <1>1 DEF Ask, Goto, Only, TypeOK, Places, Jobs
<1>3. job[Queue] = "none" /\ okay = FALSE /\ cur \in Children /\ pc[cur] # "unborn" /\ cur \notin pending
  BY <1>1, QueueAt DEF Serving
<1>4. \A c \in Children : pc'[c] = pc[c] /\ job'[c] = job[c]
  BY <1>2 DEF Only
<1>5. TypeOK'
  BY <1>1, <1>2 DEF TypeOK, Only, Jobs, fenceVars, handoffVars
<1>6. RoleOf(Queue)'
  BY <1>2 DEF RoleOf, AtFence
<1>7. QueueInv'
  BY <1>1, <1>2, <1>3, <1>4 DEF Errands, QueueInv, TypeOK, Serving
<1>8. TaskInv'
  BY <1>1 DEF TaskInv
<1> QED
  BY <1>1, <1>2, <1>5, <1>6, <1>7, <1>8, QueueMoves DEF handoffVars, HasLease, AtFence, Serving

LEMMA RunEndsKeeps ==
  ASSUME IInv, RunEnds
  PROVE  IInv'
<1> USE Kinds, KindsAssumption, Parts
<1>1. /\ pc[Queue] \in {"looping", "failing"} /\ Ask(Queue, "unregister") /\ pending \cup running = {}
      /\ UNCHANGED <<fenceVars, handoffVars, queueVars>>
  BY DEF RunEnds
<1>2. Only(Queue) /\ pc'[Queue] = "asking" /\ job'[Queue] = "unregister"
  BY <1>1 DEF Ask, Goto, Only, TypeOK, Places, Jobs
<1>3. job[Queue] = "none" /\ okay = FALSE /\ running = {} /\ ~Starting
  BY <1>1, QueueAt DEF Serving
<1>4. \A c \in Children : pc'[c] = pc[c] /\ job'[c] = job[c]
  BY <1>2 DEF Only
<1>5. TypeOK'
  BY <1>1, <1>2 DEF TypeOK, Only, Jobs, fenceVars, handoffVars, queueVars
<1>6. RoleOf(Queue)'
  BY <1>2 DEF RoleOf, AtFence
<1>7. QueueInv'
  BY <1>1, <1>2, <1>3, <1>4 DEF Errands, QueueInv, queueVars
<1>8. TaskInv'
  BY <1>1, <1>3, <1>4 DEF Errands, TaskInv, Over, Terminal, queueVars
<1> QED
  BY <1>1, <1>2, <1>5, <1>6, <1>7, <1>8, QueueMoves DEF handoffVars, HasLease, AtFence, Serving

-----------------------------------------------------------------------------
(* A worker process. *)

\* A worker that takes a step outside the fence.
LEMMA ChildMoves ==
  ASSUME IInv, NEW c \in Children, UNCHANGED fenceVars, Only(c), TypeOK', RoleOf(c)', AnswerOf(c)',
         pc[c] \notin {"unborn", "dead"}, pc'[c] # "unborn",
         UNCHANGED <<pending, running, cur, okay, broken, approved, expired>>,
         \A d \in Children : d # c => task'[d] = task[d] /\ ready'[d] = ready[d],
         \/ pc[c] \notin FencePlaces /\ pc'[c] \notin FencePlaces
         \/ pc[c] \in Entered /\ pc'[c] \in Entered,
         HasLease(c)' => HasLease(c)
  PROVE  IInv'
<1>1. Errands'
  BY Parts, ChildFrame
<1> QED
  BY <1>1, Kinds, LoneKeeps

\* A worker that asks for the fence.
LEMMA ChildAsks ==
  ASSUME IInv, NEW c \in Children, NEW j \in {"adopt", "unregister"}, Ask(c, j),
         UNCHANGED <<fenceVars, handoffVars, queueVars>>,
         pc[c] \in {"starting", "waitack", "clock", "working"}, j = "unregister" => HasLease(c)
  PROVE  IInv'
<1> USE Kinds, KindsAssumption, Parts
<1>1. Only(c) /\ pc'[c] = "asking" /\ job'[c] = j
  BY DEF Ask, Goto, Only, TypeOK, Places, Jobs
<1>2. TypeOK'
  BY <1>1 DEF TypeOK, Only, Jobs, fenceVars, handoffVars, queueVars
<1>3. RoleOf(c)'
  BY <1>1 DEF RoleOf, AtFence
<1>4. AnswerOf(c)'
  BY <1>1 DEF AnswerOf
<1>5. HasLease(c)' => HasLease(c)
  BY <1>1 DEF HasLease, AtFence, Serving
<1>6. pc[c] \notin FencePlaces /\ pc'[c] \notin FencePlaces
  BY <1>1 DEF FencePlaces, Entered
<1> QED
  BY <1>1, <1>2, <1>3, <1>4, <1>5, <1>6, ChildMoves DEF handoffVars, queueVars

LEMMA ChildAdoptsKeeps ==
  ASSUME IInv, NEW c \in Children, ChildAdopts(c)
  PROVE  IInv'
BY ChildAsks DEF ChildAdopts

LEMMA ChildTimesOutKeeps ==
  ASSUME IInv, NEW c \in Children, ChildTimesOut(c) \/ ChildEnds(c)
  PROVE  IInv'
<1>1. pc[c] \in {"waitack", "working"} /\ Ask(c, "unregister")
      /\ UNCHANGED <<fenceVars, handoffVars, queueVars>>
  BY DEF ChildTimesOut, ChildEnds
<1>2. HasLease(c)
  BY <1>1 DEF HasLease
<1> QED
  BY <1>1, <1>2, ChildAsks

\* A worker that goes on without the fence.
LEMMA ChildGoes ==
  ASSUME IInv, NEW c \in Children, NEW place \in {"clock", "working"}, Goto(c, place), job' = job,
         UNCHANGED <<fenceVars, handoffVars, queueVars>>,
         pc[c] \in {"waitack", "clock"}, AnswerOf(c)'
  PROVE  IInv'
<1> USE Kinds, KindsAssumption, Parts
<1>1. Only(c) /\ pc'[c] = place
  BY DEF Goto, Only, TypeOK, Places, Jobs
<1>2. TypeOK'
  BY <1>1 DEF TypeOK, Only, fenceVars, handoffVars, queueVars
<1>3. RoleOf(c)'
  BY <1>1 DEF RoleInv, RoleOf, AtFence
<1>4. HasLease(c)' => HasLease(c)
  BY <1>1 DEF HasLease
<1>5. pc[c] \notin FencePlaces /\ pc'[c] \notin FencePlaces
  BY <1>1 DEF FencePlaces, Entered
<1> QED
  BY <1>1, <1>2, <1>3, <1>4, <1>5, ChildMoves DEF handoffVars, queueVars

LEMMA ChildSeesAnswerKeeps ==
  ASSUME IInv, NEW c \in Children, ChildSeesAnswer(c)
  PROVE  IInv'
<1>1. pc[c] = "waitack" /\ ~ready[c] /\ Goto(c, "clock") /\ job' = job
      /\ UNCHANGED <<fenceVars, handoffVars, queueVars>>
  BY DEF ChildSeesAnswer
<1>2. AnswerOf(c) /\ pc'[c] = "clock"
  BY <1>1, Parts, Kinds DEF Errands, AnswerInv, Goto, TypeOK
<1>3. AnswerOf(c)'
  BY <1>1, <1>2 DEF AnswerOf, handoffVars
<1> QED
  BY <1>1, <1>3, ChildGoes

LEMMA ChildChecksClockKeeps ==
  ASSUME IInv, NEW c \in Children, ChildChecksClock(c)
  PROVE  IInv'
<1>1. pc[c] = "clock" /\ UNCHANGED <<fenceVars, handoffVars, queueVars>> /\ HasLease(c)
  BY DEF ChildChecksClock, HasLease
<1>2. CASE expired[c]
  BY <1>1, <1>2, ChildAsks DEF ChildChecksClock
<1>3. CASE ~expired[c]
  <2>1. Goto(c, "working") /\ job' = job
    BY <1>3 DEF ChildChecksClock
  <2>2. AnswerOf(c) /\ pc'[c] = "working"
    BY <2>1, Parts, Kinds DEF Errands, AnswerInv, Goto, TypeOK
  <2>3. AnswerOf(c)'
    BY <1>1, <1>3, <2>2 DEF AnswerOf, handoffVars
  <2> QED
    BY <1>1, <2>1, <2>3, ChildGoes
<1> QED
  BY <1>2, <1>3

LEMMA ChildOffersKeeps ==
  ASSUME IInv, NEW c \in Children, ChildOffers(c)
  PROVE  IInv'
<1> USE Kinds, KindsAssumption, Parts
<1>1. /\ pc[c] = "adopting" /\ ready' = [ready EXCEPT ![c] = TRUE] /\ Goto(c, "offering")
      /\ UNCHANGED <<fenceVars, job, handoff, expired, approved, queueVars>>
  BY DEF ChildOffers
<1>2. Only(c) /\ pc'[c] = "offering" /\ job' = job
  BY <1>1 DEF Goto, Only, TypeOK, Places, Jobs
<1>3. ready'[c] = TRUE /\ \A d \in Children : d # c => ready'[d] = ready[d]
  BY <1>1 DEF TypeOK
<1>4. TypeOK'
  BY <1>1, <1>2 DEF TypeOK, Only, fenceVars, queueVars
<1>5. RoleOf(c)' /\ AnswerOf(c)'
  BY <1>1, <1>2, <1>3 DEF RoleInv, RoleOf, AtFence, AnswerOf
<1>6. HasLease(c)' => HasLease(c)
  BY <1>1, <1>2 DEF HasLease
<1>7. pc[c] \in Entered /\ pc'[c] \in Entered
  BY <1>1, <1>2 DEF Entered
<1> QED
  BY <1>1, <1>2, <1>3, <1>4, <1>5, <1>6, <1>7, ChildMoves DEF queueVars

LEMMA ChildWorksKeeps ==
  ASSUME IInv, NEW c \in Children, ChildWorks(c)
  PROVE  IInv'
<1> USE Kinds, KindsAssumption, Parts
<1>1. /\ pc[c] = "working" /\ task' = [task EXCEPT ![c] = "completed"]
      /\ UNCHANGED <<fenceVars, pc, job, handoffVars, pending, running, cur, okay, exit, broken>>
  BY DEF ChildWorks
<1>2. Only(c) /\ pc' = pc /\ job' = job
  BY <1>1 DEF Only, TypeOK, Jobs
<1>3. TypeOK' /\ \A d \in Children : d # c => task'[d] = task[d]
  BY <1>1 DEF TypeOK, fenceVars, handoffVars
<1>4. RoleOf(c)' /\ AnswerOf(c)'
  BY <1>1 DEF RoleInv, RoleOf, Errands, AnswerInv, AnswerOf, handoffVars
<1>5. HasLease(c)' => HasLease(c)
  BY <1>1 DEF HasLease
<1>6. pc[c] \notin FencePlaces
  BY <1>1 DEF FencePlaces, Entered
<1> QED
  BY <1>1, <1>2, <1>3, <1>4, <1>5, <1>6, ChildMoves DEF handoffVars

LEMMA ExpireKeeps ==
  ASSUME IInv, NEW c \in Children, Expire(c)
  PROVE  IInv'
<1> USE Kinds, KindsAssumption, Parts
<1>1. /\ expired' = [expired EXCEPT ![c] = TRUE]
      /\ UNCHANGED <<fenceVars, pc, job, handoff, ready, approved, queueVars>>
  BY DEF Expire
<1>2. TypeOK' /\ expired'[c] = TRUE /\ \A d \in Children : d # c => expired'[d] = expired[d]
  BY <1>1 DEF TypeOK, fenceVars, queueVars
<1>3. RoleInv' /\ QueueInv' /\ TaskInv'
  BY <1>1 DEF RoleInv, RoleOf, Errands, QueueInv, TaskInv, Over, Terminal, Starting, queueVars
<1>4. AnswerInv'
  BY <1>1, <1>2 DEF Errands, AnswerInv, AnswerOf
<1>5. \A u \in Threads : HasLease(u)' => HasLease(u)
  BY <1>1 DEF HasLease
<1> QED
  BY <1>1, <1>2, <1>3, <1>4, <1>5, QuietKeeps DEF Errands

\* A child is alone in its process: its fence is its own.
LEMMA ChildOwns ==
  ASSUME IInv, NEW c \in Children, pc[c] \in Entered
  PROVE  c \notin Fence(c).adopters
<1> USE Kinds, Parts
<1>1. FenceOf(ProcOf[c]) /\ VisitOf(c)
  BY DEF FenceInv
<1> QED
  BY <1>1, ChildAssumption DEF FenceOf, VisitOf, Fence, NoFence

LEMMA ChildTakesOverKeeps ==
  ASSUME IInv, NEW c \in Children, ChildTakesOver(c)
  PROVE  IInv'
<1> USE Kinds, KindsAssumption, Parts
<1>1. /\ pc[c] = "offering" /\ handoff' = [handoff EXCEPT ![c] = FALSE]
      /\ local' = [local EXCEPT ![ProcOf[c]].phase = "closing"] /\ Goto(c, "draining")
      /\ UNCHANGED <<os, leases, inc, job, ready, expired, approved, queueVars>>
  BY DEF ChildTakesOver
<1>2. Only(c) /\ pc'[c] = "draining" /\ job' = job
  BY <1>1 DEF Goto, Only, TypeOK, Places, Jobs
<1>3. FenceInv' /\ local' \in [Procs -> FenceRecord]
  <2>1. pc[c] \in Entered
    BY <1>1 DEF Entered
  <2> QED
    BY <1>1, <2>1, ChildOwns, CloseKeeps
<1>4. TypeOK'
  BY <1>1, <1>2, <1>3 DEF TypeOK, Only, FenceRecord, queueVars
<1>5. RoleOf(c)' /\ AnswerOf(c)'
  <2>1. RoleOf(c) /\ AnswerOf(c)
    BY DEF RoleInv, Errands, AnswerInv
  <2> QED
    BY <1>1, <1>2, <2>1 DEF RoleOf, AtFence, AnswerOf
<1>6. Errands'
  BY <1>1, <1>2, <1>5, ChildFrame DEF queueVars
<1>7. \A u \in Threads : HasLease(u)' => HasLease(u)
  BY <1>1, <1>2 DEF HasLease, Only, AtFence, Serving
<1>8. LeaseInv' /\ ClearInv'
  BY <1>1, <1>2, <1>7, LeaseFrame, ClearFrame DEF Only
<1> QED
  BY <1>3, <1>4, <1>6, <1>8, Whole

-----------------------------------------------------------------------------
(* Deaths. *)

LEMMA FreedTyped ==
  ASSUME TypeOK, NEW p \in Procs, Freed(p)
  PROVE  os' \in Threads \cup {Nobody} /\ local' \in [Procs -> FenceRecord]
<1>1. NoFence \in FenceRecord
  BY DEF NoFence, FenceRecord
<1> QED
  BY <1>1, LocalIs DEF Freed, TypeOK

\* A child that dies leaves the fence and needs its lease no more.
LEMMA DeathKeeps ==
  ASSUME IInv, NEW c \in Children, Dies(c), Goto(c, "dead"), job' = [job EXCEPT ![c] = "none"],
         UNCHANGED <<leases, inc>>
  PROVE  /\ Only(c) /\ pc'[c] = "dead" /\ job'[c] = "none" /\ RoleOf(c)' /\ AnswerOf(c)'
         /\ os' \in Threads \cup {Nobody} /\ local' \in [Procs -> FenceRecord]
         /\ exit' \in [Children -> {"none", "zero", "error"}]
         /\ FenceInv' /\ LeaseInv' /\ ClearInv'
<1> USE Kinds, KindsAssumption, Parts
<1>1. Only(c) /\ pc'[c] = "dead" /\ job'[c] = "none"
  BY DEF Goto, Only, TypeOK, Places, Jobs
<1>2. RoleOf(c)' /\ AnswerOf(c)'
  BY <1>1 DEF RoleOf, AtFence, AnswerOf
<1>3. Freed(ProcOf[c])
  BY DEF Dies
<1>4. FenceInv'
  <2>1. \A t \in Threads : ProcOf[t] = ProcOf[c] => pc'[t] \notin FencePlaces
    BY <1>1, ChildAssumption DEF FencePlaces, Entered
  <2>2. \A t \in Threads : ProcOf[t] # ProcOf[c] => pc'[t] = pc[t]
    BY <1>1 DEF Only
  <2> QED
    BY <1>3, <2>1, <2>2, FenceDeath
<1>5. \A u \in Threads : HasLease(u)' => HasLease(u)
  BY <1>1 DEF HasLease, Only, AtFence, Serving
<1>6. LeaseInv' /\ ClearInv'
  BY <1>1, <1>5, LeaseFrame, ClearFrame DEF Only
<1>7. exit' \in [Children -> {"none", "zero", "error"}]
  BY DEF Dies, TypeOK
<1> QED
  BY <1>1, <1>2, <1>3, <1>4, <1>6, <1>7, FreedTyped

LEMMA ChildCrashKeeps ==
  ASSUME IInv, NEW c \in Children, ChildCrash(c)
  PROVE  IInv'
<1> USE Kinds, Parts
<1>1. /\ pc[c] \notin {"unborn", "dead"} /\ Dies(c) /\ Goto(c, "dead") /\ job' = [job EXCEPT ![c] = "none"]
      /\ UNCHANGED <<leases, inc, handoffVars, pending, running, cur, okay, task, broken>>
  BY DEF ChildCrash
<1>2. /\ Only(c) /\ pc'[c] = "dead" /\ job'[c] = "none" /\ RoleOf(c)' /\ AnswerOf(c)'
      /\ os' \in Threads \cup {Nobody} /\ local' \in [Procs -> FenceRecord]
      /\ exit' \in [Children -> {"none", "zero", "error"}]
      /\ FenceInv' /\ LeaseInv' /\ ClearInv'
  BY <1>1, DeathKeeps
<1>3. TypeOK'
  BY <1>1, <1>2 DEF TypeOK, Only, FenceRecord, Jobs, handoffVars
<1>4. Errands'
  BY <1>1, <1>2, ChildFrame DEF handoffVars
<1> QED
  BY <1>2, <1>3, <1>4, Whole

LEMMA ChildRegistersKeeps ==
  ASSUME IInv, NEW c \in Children, ChildRegisters(c)
  PROVE  IInv'
<1> USE Kinds, KindsAssumption, Parts
<1>1. /\ pc[c] = "inside" /\ job[c] = "adopt"
      /\ UNCHANGED <<inc, handoffVars, pending, running, cur, okay, task, broken>>
  BY DEF ChildRegisters
<1>2. CASE handoff[c] /\ ~expired[c]
  <2>1. /\ leases' = leases \cup {LeaseOf(c)} /\ Goto(c, "adopting")
        /\ UNCHANGED <<os, local, job, exit>>
    BY <1>2 DEF ChildRegisters
  <2>2. Only(c) /\ pc'[c] = "adopting" /\ job' = job
    BY <2>1 DEF Goto, Only, TypeOK, Places, Jobs
  <2>3. TypeOK'
    <3>1. LeaseOf(c) \in [by : Threads, inc : Nat, listed : BOOLEAN]
      BY DEF LeaseOf, TypeOK
    <3>2. leases' \subseteq [by : Threads, inc : Nat, listed : BOOLEAN]
      BY <2>1, <3>1 DEF TypeOK
    <3> QED
      BY <1>1, <2>1, <2>2, <3>2 DEF TypeOK, Only, handoffVars
  <2>4. RoleOf(c)' /\ AnswerOf(c)'
    BY <1>1, <2>2 DEF RoleOf, AtFence, AnswerOf
  <2>5. Errands'
    BY <1>1, <2>2, <2>4, ChildFrame DEF handoffVars
  <2>6. FenceInv'
    BY <1>1, <2>1, <2>2, FenceFrame DEF Only, Entered
  <2>7. LeaseInv'
    <3>1. \A u \in Threads : u # c => (HasLease(u)' <=> HasLease(u))
      BY <2>2 DEF HasLease, Only
    <3>2. LeaseOf(c) \in leases'
      BY <2>1
    <3> QED
      BY <1>1, <2>1, <3>1, <3>2, LeaseFrame
  <2>8. ClearInv'
    <3>1. \A r \in Resetters : pc[r] # "clearing"
      BY <1>1, NobodyClears DEF Entered
    <3> QED
      BY <2>2, <3>1, ClearFrame DEF Only
  <2> QED
    BY <2>3, <2>5, <2>6, <2>7, <2>8, Whole
<1>3. CASE ~(handoff[c] /\ ~expired[c])
  <2>1. Dies(c) /\ Goto(c, "dead") /\ job' = [job EXCEPT ![c] = "none"] /\ leases' = leases
    BY <1>3 DEF ChildRegisters
  <2>2. /\ Only(c) /\ pc'[c] = "dead" /\ job'[c] = "none" /\ RoleOf(c)' /\ AnswerOf(c)'
        /\ os' \in Threads \cup {Nobody} /\ local' \in [Procs -> FenceRecord]
        /\ exit' \in [Children -> {"none", "zero", "error"}]
        /\ FenceInv' /\ LeaseInv' /\ ClearInv'
    BY <1>1, <2>1, DeathKeeps
  <2>3. TypeOK'
    BY <1>1, <2>1, <2>2 DEF TypeOK, Only, FenceRecord, Jobs, handoffVars
  <2>4. Errands'
    BY <1>1, <2>2, ChildFrame DEF handoffVars
  <2> QED
    BY <2>2, <2>3, <2>4, Whole
<1> QED
  BY <1>2, <1>3

LEMMA FailRunningKeeps ==
  ASSUME IInv, NEW c \in Children, FailRunning(c)
  PROVE  IInv'
<1> USE Kinds, KindsAssumption, Parts
<1>1. /\ pc[Queue] = "failing" /\ c \in running /\ Dies(c) /\ Goto(c, "dead")
      /\ job' = [job EXCEPT ![c] = "none"] /\ running' = running \ {c} /\ FailUnlessTerminal(c)
      /\ UNCHANGED <<leases, inc, handoffVars, pending, cur, okay, broken>>
  BY DEF FailRunning
<1>2. /\ Only(c) /\ pc'[c] = "dead" /\ job'[c] = "none" /\ RoleOf(c)' /\ AnswerOf(c)'
      /\ os' \in Threads \cup {Nobody} /\ local' \in [Procs -> FenceRecord]
      /\ exit' \in [Children -> {"none", "zero", "error"}]
      /\ FenceInv' /\ LeaseInv' /\ ClearInv'
  BY <1>1, DeathKeeps
<1>3. TypeOK'
  BY <1>1, <1>2 DEF TypeOK, Only, FenceRecord, Jobs, handoffVars, FailUnlessTerminal
<1>4. Terminal(c)' /\ \A d \in Children : d # c => task'[d] = task[d]
  BY <1>1 DEF FailUnlessTerminal, Terminal, TypeOK
<1>5. job[Queue] = "none" /\ okay = FALSE /\ ~Starting
  BY <1>1, QueueAt DEF Serving
<1>6. /\ pc'[Queue] = pc[Queue] /\ job'[Queue] = job[Queue]
      /\ \A d \in Children : d # c => pc'[d] = pc[d] /\ job'[d] = job[d]
  BY <1>2 DEF Only
<1>7. RoleInv'
  BY <1>2 DEF RoleInv, RoleOf, Only
<1>8. AnswerInv'
  BY <1>1, <1>2, <1>6 DEF Errands, AnswerInv, AnswerOf, handoffVars
<1>9. QueueInv'
  <2>1. c \notin pending
    BY <1>1 DEF Errands, QueueInv
  <2> QED
    BY <1>1, <1>2, <1>5, <1>6, <2>1 DEF Errands, QueueInv, TypeOK, Serving
<1>10. TaskInv'
  <2>1. \A d \in Children : d # c => (Over(d)' <=> Over(d))
    BY <1>4, <1>6 DEF Over, Terminal
  <2>2. Over(c)'
    BY <1>2, <1>4 DEF Over
  <2> QED
    BY <1>1, <1>5, <2>1, <2>2 DEF Errands, TaskInv
<1>11. Errands'
  BY <1>7, <1>8, <1>9, <1>10 DEF Errands
<1> QED
  BY <1>2, <1>3, <1>11, Whole

LEMMA StartupFailsKeeps ==
  ASSUME IInv, StartupFails
  PROVE  IInv'
<1> USE Kinds, KindsAssumption, Parts
<1>1. /\ pc[Queue] \in {"spawning", "waiting"}
      /\ pc' = [pc EXCEPT ![Queue] = "asking", ![cur] = "dead"]
      /\ job' = [job EXCEPT ![Queue] = "endhandoff", ![cur] = "none"]
      /\ task' = [task EXCEPT ![cur] = "failed"]
      /\ UNCHANGED <<leases, inc, handoffVars, pending, running, cur, okay, broken>>
  BY DEF StartupFails
<1>2. cur \in Children /\ cur # Queue /\ cur \notin pending /\ okay = FALSE
  BY <1>1, QueueAt DEF Serving
<1>3. /\ pc' \in [Threads -> Places] /\ job' \in [Threads -> Jobs]
      /\ pc'[Queue] = "asking" /\ job'[Queue] = "endhandoff" /\ pc'[cur] = "dead" /\ job'[cur] = "none"
      /\ \A u \in Threads : u \notin {Queue, cur} => pc'[u] = pc[u] /\ job'[u] = job[u]
  BY <1>1, <1>2 DEF TypeOK, Places, Jobs
<1>4. task'[cur] = "failed" /\ \A c \in Children : c # cur => task'[c] = task[c]
  BY <1>1, <1>2 DEF TypeOK
<1>5. RoleInv'
  BY <1>2, <1>3 DEF RoleInv, RoleOf, AtFence
<1>6. QueueInv'
  BY <1>1, <1>2, <1>3 DEF Errands, QueueInv, TypeOK
<1>7. AnswerInv'
  BY <1>1, <1>2, <1>3 DEF Errands, AnswerInv, AnswerOf, handoffVars
<1>8. TaskInv'
  BY <1>1, <1>2, <1>3, <1>4 DEF Errands, TaskInv, Over, Terminal, Starting
<1>9. \A u \in Threads : HasLease(u)' => HasLease(u)
  BY <1>1, <1>2, <1>3 DEF HasLease, Serving, AtFence
<1>10. LeaseInv'
  BY <1>1, <1>9, LeaseFrame
<1>11. ClearInv'
  BY <1>1, <1>2, <1>3, ClearFrame
<1>12. FenceInv' /\ os' \in Threads \cup {Nobody} /\ local' \in [Procs -> FenceRecord]
       /\ exit' \in [Children -> {"none", "zero", "error"}]
  <2>0. pc[Queue] \notin FencePlaces /\ pc'[Queue] \notin FencePlaces /\ pc'[cur] \notin FencePlaces
    BY <1>1, <1>3 DEF FencePlaces, Entered
  <2>1. CASE pc[Queue] = "waiting"
    <3>1. Freed(ProcOf[cur])
      BY <2>1 DEF StartupFails, Dies
    <3>2. exit' \in [Children -> {"none", "zero", "error"}]
      BY <2>1 DEF StartupFails, Dies, TypeOK
    <3>3. \A t \in Threads : ProcOf[t] = ProcOf[cur] => t = cur
      BY <1>2, ChildAssumption
    <3> QED
      BY <1>2, <1>3, <2>0, <3>1, <3>2, <3>3, FenceDeath, FreedTyped
  <2>2. CASE pc[Queue] = "spawning"
    <3>1. UNCHANGED <<os, local, exit>>
      BY <2>2 DEF StartupFails
    <3>2. pc[cur] \notin FencePlaces
      BY <2>2, QueueAt DEF Serving, FencePlaces, Entered
    <3>3. FenceInv'
      BY <1>3, <2>0, <3>1, <3>2, FenceFrame
    <3> QED
      BY <3>1, <3>3 DEF TypeOK, FenceRecord
  <2> QED
    BY <1>1, <2>1, <2>2
<1>13. TypeOK'
  BY <1>1, <1>3, <1>12 DEF TypeOK, FenceRecord, Jobs, handoffVars
<1>14. Errands'
  BY <1>5, <1>6, <1>7, <1>8 DEF Errands
<1> QED
  BY <1>10, <1>11, <1>12, <1>13, <1>14, Whole

LEMMA CrashKeeps ==
  ASSUME IInv, NEW p \in Procs, Crash(p)
  PROVE  IInv'
<1> USE Kinds, KindsAssumption, Parts
<1>1. /\ \A c \in Children : ProcOf[c] # p
      /\ inc' = [inc EXCEPT ![p] = @ + 1] /\ Freed(p)
      /\ pc' = [t \in Threads |-> IF ProcOf[t] = p THEN "idle" ELSE pc[t]]
      /\ job' = [t \in Threads |-> IF ProcOf[t] = p THEN "none" ELSE job[t]]
      /\ leases' = { IF ProcOf[l.by] = p THEN [l EXCEPT !.listed = FALSE] ELSE l : l \in leases }
      /\ UNCHANGED <<handoffVars, task, exit>>
  BY DEF Crash
<1>2. /\ ProcOf[Queue] = p => pending' = {} /\ running' = {} /\ cur' = Nobody /\ okay' = FALSE /\ broken' = TRUE
      /\ ProcOf[Queue] # p => UNCHANGED <<pending, running, cur, okay, broken>>
  BY DEF Crash
<1>3. /\ pc' \in [Threads -> Places] /\ job' \in [Threads -> Jobs]
      /\ \A t \in Threads : ProcOf[t] = p => pc'[t] = "idle" /\ job'[t] = "none"
      /\ \A t \in Threads : ProcOf[t] # p => pc'[t] = pc[t] /\ job'[t] = job[t]
  BY <1>1 DEF TypeOK, Places, Jobs
<1>4. \A c \in Children : pc'[c] = pc[c] /\ job'[c] = job[c]
  BY <1>1, <1>3
<1>5. RoleInv'
  <2>1. ASSUME NEW t \in Threads, ProcOf[t] = p PROVE RoleOf(t)'
    BY <1>1, <1>3, <2>1 DEF RoleOf, AtFence
  <2>2. ASSUME NEW t \in Threads, ProcOf[t] # p PROVE RoleOf(t)'
    BY <1>3, <2>2 DEF RoleInv, RoleOf
  <2> QED
    BY <2>1, <2>2 DEF RoleInv
<1>6. QueueInv'
  <2>1. CASE ProcOf[Queue] = p
    BY <1>2, <1>3, <2>1 DEF QueueInv
  <2>2. CASE ProcOf[Queue] # p
    BY <1>2, <1>3, <1>4, <2>2 DEF Errands, QueueInv, TypeOK
  <2> QED
    BY <2>1, <2>2
<1>7. AnswerInv'
  BY <1>1, <1>4 DEF Errands, AnswerInv, AnswerOf, handoffVars
<1>8. TaskInv'
  BY <1>1, <1>2, <1>3, <1>4 DEF Errands, TaskInv, Over, Terminal, Starting
<1>9. Errands'
  BY <1>5, <1>6, <1>7, <1>8 DEF Errands
<1>10. FenceInv' /\ os' \in Threads \cup {Nobody} /\ local' \in [Procs -> FenceRecord]
  BY <1>1, <1>3, FenceDeath, FreedTyped DEF FencePlaces, Entered
<1>11. LeaseInv'
  <2>1. ASSUME NEW u \in Threads, HasLease(u)' PROVE LeaseOf(u)' \in leases'
    <3>1. ProcOf[u] # p /\ HasLease(u)
      BY <1>3, <2>1 DEF HasLease, AtFence, Serving
    <3>2. LeaseOf(u)' = LeaseOf(u) /\ LeaseOf(u).by = u
      BY <1>1, <3>1 DEF LeaseOf, TypeOK
    <3>3. LeaseOf(u) \in leases
      BY <3>1 DEF LeaseInv
    <3> QED
      BY <1>1, <3>1, <3>2, <3>3
  <2> QED
    BY <2>1 DEF LeaseInv
<1>12. ClearInv'
  <2>1. ASSUME NEW r \in Resetters, pc'[r] = "clearing" PROVE leases' = {}
    BY <1>1, <1>3, <2>1 DEF ClearInv
  <2> QED
    BY <2>1 DEF ClearInv
<1>13. TypeOK'
  <2>1. leases' \subseteq [by : Threads, inc : Nat, listed : BOOLEAN]
    <3>1. \A l \in [by : Threads, inc : Nat, listed : BOOLEAN] :
            [l EXCEPT !.listed = FALSE] \in [by : Threads, inc : Nat, listed : BOOLEAN]
      OBVIOUS
    <3> QED
      BY <1>1, <3>1 DEF TypeOK
  <2>2. inc' \in [Procs -> Nat]
    BY <1>1 DEF TypeOK
  <2>3. /\ pending' \subseteq Children /\ running' \subseteq Children
        /\ cur' \in Children \cup {Nobody} /\ okay' \in BOOLEAN /\ broken' \in BOOLEAN
    BY <1>2 DEF TypeOK
  <2> QED
    BY <1>1, <1>3, <1>10, <2>1, <2>2, <2>3 DEF TypeOK, FenceRecord, Jobs, handoffVars
<1> QED
  BY <1>9, <1>10, <1>11, <1>12, <1>13, Whole

-----------------------------------------------------------------------------
(* A reset. *)

\* A reset takes or gives back the lock file, or keeps it from one place to
\* the next.
LEMMA ResetFence ==
  ASSUME TypeOK, FenceInv, NEW r \in Resetters, RoleInv, Only(r), local' = local,
         \/ os = Nobody /\ os' = r /\ pc'[r] = "scanning" /\ pc[r] = "idle"
         \/ os = r /\ os' = r /\ pc'[r] = "clearing" /\ pc[r] = "scanning"
         \/ os = r /\ os' = Nobody /\ pc'[r] = "idle" /\ pc[r] \in {"scanning", "clearing"}
  PROVE  FenceInv'
<1> USE Kinds
<1>1. \A u \in Threads : u # r => pc'[u] = pc[u]
  BY DEF Only
<1>2. ASSUME NEW q \in Procs PROVE FenceOf(q)'
  <2>1. FenceOf(q) /\ local[q].adopters \subseteq Threads
    BY DEF FenceInv, TypeOK
  <2> QED
    BY <1>1, <2>1 DEF FenceOf, Entered, NoFence
<1>3. ASSUME NEW u \in Threads PROVE VisitOf(u)'
  <2>1. VisitOf(u)
    BY DEF FenceInv
  <2> QED
    BY <1>1, <2>1 DEF VisitOf, Fence, Entered
<1> QED
  BY <1>2, <1>3 DEF FenceInv

LEMMA StartResetKeeps ==
  ASSUME IInv, NEW r \in Resetters, StartReset(r)
  PROVE  IInv'
<1> USE Kinds, KindsAssumption, Parts
<1>1. /\ pc[r] = "idle" /\ os = Nobody /\ os' = r /\ Goto(r, "scanning")
      /\ UNCHANGED <<local, leases, inc, job, handoffVars, queueVars>>
  BY DEF StartReset
<1>2. Only(r) /\ pc'[r] = "scanning" /\ job' = job
  BY <1>1 DEF Goto, Only, TypeOK, Places, Jobs
<1>3. TypeOK'
  BY <1>1, <1>2 DEF TypeOK, Only, handoffVars, queueVars
<1>4. RoleOf(r)'
  BY <1>1, <1>2 DEF RoleInv, RoleOf, AtFence
<1>5. Errands'
  BY <1>1, <1>2, <1>4, SideFrame DEF handoffVars, queueVars
<1>6. FenceInv'
  BY <1>1, <1>2, ResetFence
<1>7. \A u \in Threads : HasLease(u)' => HasLease(u)
  BY <1>1, <1>2 DEF HasLease, Only, AtFence, Serving
<1>8. LeaseInv' /\ ClearInv'
  BY <1>1, <1>2, <1>7, LeaseFrame, ClearFrame DEF Only
<1> QED
  BY <1>3, <1>5, <1>6, <1>8, Whole

LEMMA EndResetKeeps ==
  ASSUME IInv, NEW r \in Resetters, EndReset(r)
  PROVE  IInv'
<1> USE Kinds, KindsAssumption, Parts
<1>1. /\ pc[r] = "clearing" /\ os' = Nobody /\ Goto(r, "idle")
      /\ UNCHANGED <<local, leases, inc, job, handoffVars, queueVars>>
  BY DEF EndReset
<1>2. Only(r) /\ pc'[r] = "idle" /\ job' = job
  BY <1>1 DEF Goto, Only, TypeOK, Places, Jobs
<1>3. TypeOK'
  BY <1>1, <1>2 DEF TypeOK, Only, handoffVars, queueVars
<1>4. RoleOf(r)'
  BY <1>1, <1>2 DEF RoleInv, RoleOf, AtFence
<1>5. Errands'
  BY <1>1, <1>2, <1>4, SideFrame DEF handoffVars, queueVars
<1>6. os = r
  BY <1>1 DEF FenceInv, VisitOf
<1>7. FenceInv'
  BY <1>1, <1>2, <1>6, ResetFence
<1>8. \A u \in Threads : HasLease(u)' => HasLease(u)
  BY <1>1, <1>2 DEF HasLease, Only, AtFence, Serving
<1>9. LeaseInv' /\ ClearInv'
  BY <1>1, <1>2, <1>8, LeaseFrame, ClearFrame DEF Only
<1> QED
  BY <1>3, <1>5, <1>7, <1>9, Whole

\* Every reader takes the lease of a thread that relies on it for live.
LEMMA LeaseIsLive ==
  ASSUME IInv, NEW t \in Threads, NEW r \in Resetters, HasLease(t)
  PROVE  Live(LeaseOf(t), r)
<1>1. t \in Children => pc[t] \notin {"unborn", "dead"}
  BY DEF HasLease, Serving, AtFence
<1>2. ProcUp(ProcOf[t])
  BY <1>1, ChildAssumption DEF ProcUp
<1> QED
  BY <1>2 DEF Live, LeaseOf

LEMMA ScanKeeps ==
  ASSUME IInv, NEW r \in Resetters, Scan(r)
  PROVE  IInv'
<1> USE Kinds, KindsAssumption, Parts
<1>1. /\ pc[r] = "scanning" /\ leases' = { l \in leases : Live(l, r) }
      /\ handoff' = [c \in Children |-> handoff[c] /\ ~expired[c]]
      /\ ready' = [c \in Children |-> ready[c] /\ ~expired[c]]
      /\ UNCHANGED <<local, inc, job, expired, approved, queueVars>>
  BY DEF Scan
<1>2. os = r
  BY <1>1 DEF FenceInv, VisitOf
<1>3. \/ leases' = {} /\ Goto(r, "clearing") /\ os' = os
      \/ Goto(r, "idle") /\ os' = Nobody
  BY DEF Scan
<1>4. /\ Only(r)
      /\ job' = job
      /\ \/ pc'[r] = "clearing" /\ leases' = {} /\ os' = os
         \/ pc'[r] = "idle" /\ os' = Nobody
  BY <1>1, <1>3 DEF Goto, Only, TypeOK, Places, Jobs
<1>5. TypeOK'
  <2>1. handoff' \in [Children -> BOOLEAN] /\ ready' \in [Children -> BOOLEAN]
    BY <1>1
  <2>2. leases' \subseteq [by : Threads, inc : Nat, listed : BOOLEAN] /\ os' \in Threads \cup {Nobody}
    BY <1>1, <1>4 DEF TypeOK
  <2> QED
    BY <1>1, <1>4, <2>1, <2>2 DEF TypeOK, Only, queueVars
<1>6. RoleOf(r)'
  BY <1>1, <1>4 DEF RoleInv, RoleOf, AtFence
<1>7. Errands'
  <2>1. \A c \in Children : ready[c] => ready'[c] \/ expired[c]
    BY <1>1
  <2> QED
    BY <1>1, <1>4, <1>6, <2>1, SideFrame DEF queueVars
<1>8. FenceInv'
  BY <1>1, <1>2, <1>4, ResetFence
<1>9. LeaseInv'
  <2>1. ASSUME NEW u \in Threads, HasLease(u)' PROVE LeaseOf(u)' \in leases'
    <3>1. HasLease(u)
      BY <1>1, <1>4, <2>1 DEF HasLease, Only, AtFence, Serving
    <3>2. LeaseOf(u) \in leases /\ Live(LeaseOf(u), r)
      BY <3>1, LeaseIsLive DEF LeaseInv
    <3>3. LeaseOf(u)' = LeaseOf(u)
      BY <1>1 DEF LeaseOf
    <3> QED
      BY <1>1, <3>2, <3>3
  <2> QED
    BY <2>1 DEF LeaseInv
<1>10. ClearInv'
  <2>1. ASSUME NEW s \in Resetters, s # r PROVE pc'[s] # "clearing"
    BY <1>2, <1>4, <2>1 DEF FenceInv, VisitOf, Only
  <2> QED
    BY <1>4, <2>1 DEF ClearInv
<1> QED
  BY <1>5, <1>7, <1>8, <1>9, <1>10, Whole

-----------------------------------------------------------------------------
(* The theorems. *)

LEMMA InitHolds == Init => IInv
<1> SUFFICES ASSUME Init PROVE IInv
  OBVIOUS
<1> USE Kinds, KindsAssumption DEF Init
<1>1. TypeOK
  BY DEF TypeOK, NoFence, Places
<1>2. \A t \in Threads : pc[t] \in {"idle", "unborn"} /\ job[t] = "none" /\ (pc[t] = "unborn" <=> t \in Children)
  OBVIOUS
<1>3. RoleInv
  BY <1>2 DEF RoleInv, RoleOf, AtFence
<1>4. FenceInv
  BY <1>2 DEF FenceInv, FenceOf, VisitOf, Entered
<1>5. LeaseInv /\ ClearInv
  BY <1>2 DEF LeaseInv, HasLease, ClearInv, AtFence, Serving
<1>6. QueueInv
  BY <1>2 DEF QueueInv
<1>7. AnswerInv /\ TaskInv
  BY <1>2 DEF AnswerInv, AnswerOf, TaskInv
<1> QED
  BY <1>1, <1>3, <1>4, <1>5, <1>6, <1>7 DEF IInv

LEMMA FenceStepKeeps ==
  ASSUME IInv, NEW t \in Threads, FenceStep(t)
  PROVE  IInv'
BY AdoptKeeps, ClaimKeeps, ActivateKeeps, LeaveKeeps, DrainKeeps, UnlockKeeps,
   RegisterDirectlyKeeps, GiveUpKeeps DEF FenceStep

LEMMA QueueStepKeeps ==
  ASSUME IInv, QueueStep
  PROVE  IInv'
BY StartRunKeeps, SpawnKeeps, ApproveKeeps, StartupFailsKeeps, DeadlineKeeps, RunEndsKeeps,
   UnreapedKeeps, StartupUnreapedKeeps,
   AssignKeeps, PollKeeps, FailRunningKeeps, FailPendingKeeps DEF QueueStep

LEMMA ChildStepKeeps ==
  ASSUME IInv, NEW c \in Children, ChildStep(c)
  PROVE  IInv'
BY ChildAdoptsKeeps, ChildRegistersKeeps, ChildOffersKeeps, ChildTakesOverKeeps,
   ChildSeesAnswerKeeps, ChildChecksClockKeeps, ChildTimesOutKeeps, ChildWorksKeeps DEF ChildStep

LEMMA StutterKeeps ==
  ASSUME IInv, UNCHANGED vars
  PROVE  IInv'
BY DEF vars, fenceVars, handoffVars, queueVars, IInv, TypeOK, RoleInv, RoleOf, FenceInv, FenceOf, VisitOf,
       Fence, LeaseInv, HasLease, LeaseOf, ClearInv, QueueInv, AnswerInv, AnswerOf, TaskInv, Over,
       Terminal, Starting

LEMMA NextKeeps == IInv /\ [Next]_vars => IInv'
<1> SUFFICES ASSUME IInv, [Next]_vars PROVE IInv'
  OBVIOUS
<1>1. CASE UNCHANGED vars
  BY <1>1, StutterKeeps
<1>2. CASE \E t \in Threads : FenceStep(t)
  BY <1>2, FenceStepKeeps
<1>3. CASE \E w \in Writers : WriteFenced(w) \/ TakeLease(w) \/ EndLease(w)
  BY <1>3, WriterKeeps
<1>4. CASE QueueStep
  BY <1>4, QueueStepKeeps
<1>5. CASE \E c \in Children : ChildStep(c) \/ ChildCrash(c) \/ Expire(c)
  BY <1>5, ChildStepKeeps, ChildCrashKeeps, ExpireKeeps
<1>6. CASE \E r \in Resetters : ResetStep(r)
  BY <1>6, StartResetKeeps, ScanKeeps, EndResetKeeps DEF ResetStep
<1>7. CASE \E p \in Procs : Crash(p)
  BY <1>7, CrashKeeps
<1> QED
  BY <1>1, <1>2, <1>3, <1>4, <1>5, <1>6, <1>7 DEF Next

\* The inductive invariant of the fence: its local owners and adopters, the
\* leases, the clearing reset, the queue, its answers and its tasks.
THEOREM Invariance == Spec => []IInv
<1>1. Init => IInv
  BY InitHolds
<1>2. IInv /\ [Next]_vars => IInv'
  BY NextKeeps
<1> QED
  BY <1>1, <1>2, PTL DEF Spec

\* The variables keep their types.
THEOREM TypeCorrect == Spec => []TypeOK
<1>1. IInv => TypeOK
  BY DEF IInv
<1> QED
  BY <1>1, Invariance, PTL

\* clear_sidebar_history_data clears while no thread of any process is in the
\* fence, writes with a lease, runs the queue or works as a child of it.
THEOREM ClearedAlone == Spec => []ClearsAlone
<1>1. IInv => ClearsAlone
  <2> SUFFICES ASSUME IInv, NEW r \in Resetters, pc[r] = "clearing", NEW t \in Threads
               PROVE  ~Writing(t)
    BY DEF ClearsAlone
  <2>1. pc[t] # "inside"
    BY NobodyClears, Parts DEF Entered
  <2>2. ~HasLease(t)
    BY Parts DEF LeaseInv, ClearInv
  <2> QED
    BY <2>1, <2>2 DEF Writing, HasLease, Serving
<1> QED
  BY <1>1, Invariance, PTL

\* A worker process starts its task only after the queue approved it in time,
\* never because a reset swept its ready file away.
THEOREM WorkApproved == Spec => []WorkIsApproved
<1>1. IInv => WorkIsApproved
  BY DEF IInv, AnswerInv, AnswerOf, WorkIsApproved
<1> QED
  BY <1>1, Invariance, PTL

\* run_until_idle returns with every task completed or failed and no worker
\* left, unless it was ended by a crash or a fence timeout.
THEOREM NothingLeft == Spec => []RunLeavesNothing
<1>1. IInv => RunLeavesNothing
  <2> SUFFICES ASSUME IInv, pc[Queue] = "idle", pending = {}, ~broken
               PROVE  \A c \in Children : Over(c)
    BY DEF RunLeavesNothing, Over
  <2>1. running = {} /\ ~Starting
    BY QueueAt
  <2> QED
    BY <2>1 DEF IInv, TaskInv
<1> QED
  BY <1>1, Invariance, PTL
=============================================================================
