------------------------- MODULE ProcessLock_proofs -------------------------
(***************************************************************************)
(* Mutual exclusion of both lock files for any number of threads and       *)
(* processes.  MutualExclusion follows from HolderKeepsFile because no two *)
(* threads have the same token; that a holder keeps its file needs, in     *)
(* every state, that the guard is where the program counters say           *)
(* (GuardOK), that the file of a holder can not be judged stale (OwnerOK)  *)
(* and that nobody holds the lock while a thread is about to remove a      *)
(* stale file (StaleOK).                                                   *)
(***************************************************************************)
EXTENDS ProcessLock, TLAPS

\* Places in which the thread's file must not be taken away.
Owning == CSStates \cup {"writing", "leaving"}

GuardOK == \A t \in Threads : pc[t] \in GuardStates <=> guard = t

TokensUnique ==
  \A t, u \in Threads : token[t] # NoToken /\ token[t] = token[u] => t = u

OwnerOK ==
  \A t \in Threads : pc[t] \in Owning =>
    /\ file # NoFile /\ file.tok = token[t]
    /\ token[t] \in active[ProcOf[t]]
    /\ file.proc = ProcOf[t] /\ file.inc = inc[ProcOf[t]]
    /\ file.content # "released"
    /\ kind = "short" => pc[t] # "beating"
    /\ kind = "short" /\ pc[t] = "held" => file.content = "held"

StaleOK ==
  \A t \in Threads : pc[t] = "stale" => \A u \in Threads : pc[u] \notin Owning

IInv == TypeOK /\ GuardOK /\ TokensUnique /\ OwnerOK /\ StaleOK

-----------------------------------------------------------------------------
\* A file that belongs to an owner is not judged stale (_holder_is_stale,
\* pid_lock_file_is_stale).
LEMMA OwnerNotStale ==
  ASSUME IInv, NEW t \in Threads, NEW u \in Threads, pc[u] \in CSStates, Stale(t)
  PROVE  FALSE
<1>1. pc[u] \in Owning
  BY DEF Owning
<1>2. ~CreatorDead /\ ~Forgotten(t) /\ file.content # "released"
  BY <1>1, ProcOfAssumption DEF IInv, OwnerOK, TypeOK, CreatorDead, Forgotten, SameInstance
<1>3. kind = "short" => file.content = "held"
  BY <1>1 DEF IInv, OwnerOK, CSStates
<1> QED
  BY <1>2, <1>3 DEF Stale, LongStale, ShortStale, IInv, TypeOK, Kinds

\* Two owners would have the same token.
LEMMA OneOwner ==
  ASSUME IInv, NEW t \in Threads, NEW u \in Threads, pc[t] \in Owning, pc[u] \in Owning
  PROVE  t = u
<1>1. token[t] = token[u] /\ token[t] \in Tokens
  BY ProcOfAssumption DEF IInv, OwnerOK, TypeOK
<1> QED
  BY <1>1, NoTokenAssumption DEF IInv, TokensUnique

\* A token that is fresh is nobody's.
LEMMA FreshToken ==
  ASSUME Fresh # {}
  PROVE  LET k == CHOOSE k \in Tokens : k \in Fresh
         IN k \in Tokens /\ k \in Fresh
BY DEF Fresh

\* A write through a descriptor keeps the path, its creator and its token.
LEMMA WrittenFile ==
  ASSUME file \in Files \cup {NoFile}, NEW t \in Threads, NEW c \in Contents
  PROVE  /\ Written(t, c) \in Files \cup {NoFile}
         /\ file = NoFile <=> Written(t, c) = NoFile
         /\ file # NoFile => /\ Written(t, c).tok = file.tok
                             /\ Written(t, c).proc = file.proc
                             /\ Written(t, c).inc = file.inc
         /\ ~OwnFile(t) => Written(t, c) = file
         /\ OwnFile(t) => Written(t, c).content = c
BY NoFileAssumption DEF Written, OwnFile, Files

-----------------------------------------------------------------------------
\* No file, no guard, no token.
LEMMA InitInv == Init => IInv
BY BoundsAssumption, NobodyAssumption
  DEF Init, IInv, TypeOK, GuardOK, TokensUnique, OwnerOK, StaleOK, Owning, States,
      CSStates, GuardStates

\* Every action keeps the types.
LEMMA NextType ==
  ASSUME IInv, [Next]_vars
  PROVE  TypeOK'
<1> USE ProcOfAssumption, NobodyAssumption DEF IInv, TypeOK, States, GuardStates, CSStates
<1>1. ASSUME NEW t \in Threads, Enter(t) \/ Refuse(t) \/ FindStale(t)
      PROVE  TypeOK'
  BY <1>1 DEF Enter, Refuse, FindStale, Idle, Files
<1>2. ASSUME NEW t \in Threads, Create(t)
      PROVE  TypeOK'
  <2> DEFINE k == CHOOSE k \in Tokens : k \in Fresh
  <2>1. k \in Tokens
    BY <1>2, FreshToken DEF Create
  <2> HIDE DEF k
  <2>2. /\ file' = [tok |-> k, proc |-> ProcOf[t], inc |-> inc[ProcOf[t]],
                    content |-> "unreadable", aged |-> FALSE]
        /\ token' = [token EXCEPT ![t] = k]
        /\ active' = [active EXCEPT ![ProcOf[t]] = @ \cup {k}]
        /\ pc' = [pc EXCEPT ![t] = "writing"]
        /\ UNCHANGED <<kind, guard, seen, inc, fails>>
    BY <1>2 DEF Create, k
  <2>3. file' \in Files
    BY <2>1, <2>2 DEF Files, Contents
  <2> QED
    BY <2>1, <2>2, <2>3
<1>3. ASSUME NEW t \in Threads, Publish(t) \/ Beat(t) \/ LeaveUnguarded(t)
      PROVE  TypeOK'
  BY <1>3, WrittenFile DEF Publish, Beat, LeaveUnguarded, Contents
<1>4. ASSUME NEW t \in Threads, PublishFails(t)
      PROVE  TypeOK'
  BY <1>4, WrittenFile DEF PublishFails, Fail, Idle, Contents
<1>5. ASSUME NEW t \in Threads, Unlink(t) \/ UnlinkFails(t)
      PROVE  TypeOK'
  BY <1>5 DEF Unlink, UnlinkFails, Fail, Idle
<1>6. ASSUME NEW t \in Threads, BeatDone(t) \/ BeatFails(t)
      PROVE  TypeOK'
  <2>1. file # NoFile => [file EXCEPT !.content = "held", !.aged = FALSE] \in Files
    BY DEF Files, Contents
  <2>2. file' \in Files \cup {NoFile}
    BY <1>6, <2>1 DEF BeatDone, BeatFails
  <2> QED
    BY <1>6, <2>2 DEF BeatDone, BeatFails, Fail
<1>7. ASSUME NEW t \in Threads, Leave(t) \/ MarkReleased(t) \/ LeftUnguarded(t)
      PROVE  TypeOK'
  BY <1>7, WrittenFile DEF Leave, MarkReleased, LeftUnguarded, Fail, Idle, Contents
<1>8. ASSUME NEW t \in Threads, UnlinkOwn(t) \/ UnlinkOwnFails(t)
      PROVE  TypeOK'
  BY <1>8 DEF UnlinkOwn, UnlinkOwnFails, OwnFile, Fail, Idle, Files
<1>9. CASE Age
  BY <1>9 DEF Age, Files
<1>10. ASSUME NEW p \in Procs, Crash(p)
       PROVE  TypeOK'
  BY <1>10 DEF Crash
<1>11. CASE UNCHANGED vars
  BY <1>11 DEF vars
<1> QED
  BY <1>1, <1>2, <1>3, <1>4, <1>5, <1>6, <1>7, <1>8, <1>9, <1>10, <1>11 DEF Next, GuardStep

\* The guard is taken and given up where the actions say.
LEMMA NextGuard ==
  ASSUME IInv, [Next]_vars
  PROVE  GuardOK'
<1> USE NobodyAssumption, ProcOfAssumption DEF IInv, TypeOK, GuardOK, GuardStates
<1>1. ASSUME NEW t \in Threads, Enter(t) \/ Create(t) \/ Publish(t) \/ PublishFails(t) \/ Refuse(t)
      PROVE  GuardOK'
  BY <1>1 DEF Enter, Create, Publish, PublishFails, Refuse, Idle
<1>2. ASSUME NEW t \in Threads, FindStale(t) \/ Unlink(t) \/ UnlinkFails(t)
      PROVE  GuardOK'
  BY <1>2 DEF FindStale, Unlink, UnlinkFails, Idle
<1>3. ASSUME NEW t \in Threads, Beat(t) \/ BeatDone(t) \/ BeatFails(t)
      PROVE  GuardOK'
  BY <1>3 DEF Beat, BeatDone, BeatFails
<1>4. ASSUME NEW t \in Threads, Leave(t) \/ MarkReleased(t) \/ UnlinkOwn(t) \/ UnlinkOwnFails(t)
      PROVE  GuardOK'
  BY <1>4 DEF Leave, MarkReleased, UnlinkOwn, UnlinkOwnFails, Idle
<1>5. ASSUME NEW t \in Threads, LeaveUnguarded(t) \/ LeftUnguarded(t)
      PROVE  GuardOK'
  BY <1>5 DEF LeaveUnguarded, LeftUnguarded, Idle
<1>6. ASSUME NEW p \in Procs, Crash(p)
      PROVE  GuardOK'
  BY <1>6 DEF Crash
<1>7. CASE Age \/ UNCHANGED vars
  BY <1>7 DEF Age, vars
<1> QED
  BY <1>1, <1>2, <1>3, <1>4, <1>5, <1>6, <1>7 DEF Next, GuardStep

\* A fresh token is nobody else's (uuid4).
LEMMA NextTokens ==
  ASSUME IInv, [Next]_vars
  PROVE  TokensUnique'
<1> USE ProcOfAssumption, NoTokenAssumption DEF IInv, TypeOK, TokensUnique
<1>1. ASSUME NEW t \in Threads, Create(t)
      PROVE  TokensUnique'
  <2> DEFINE k == CHOOSE k \in Tokens : k \in Fresh
  <2>1. k \in Tokens /\ \A u \in Threads : token[u] # k
    BY <1>1, FreshToken DEF Create, Fresh
  <2>2. token' = [token EXCEPT ![t] = k]
    BY <1>1 DEF Create
  <2> QED
    BY <2>1, <2>2
<1>2. ASSUME NEW t \in Threads, PublishFails(t) \/ Refuse(t) \/ UnlinkFails(t) \/ UnlinkOwn(t)
                                 \/ UnlinkOwnFails(t) \/ LeftUnguarded(t)
      PROVE  TokensUnique'
  BY <1>2 DEF PublishFails, Refuse, UnlinkFails, UnlinkOwn, UnlinkOwnFails, LeftUnguarded, Idle
<1>3. ASSUME NEW p \in Procs, Crash(p)
      PROVE  TokensUnique'
  BY <1>3 DEF Crash
<1>4. CASE UNCHANGED token
  BY <1>4
<1> QED
  BY <1>1, <1>2, <1>3, <1>4
     DEF Next, GuardStep, Enter, Publish, FindStale, Unlink, Beat, BeatDone, BeatFails,
         Leave, MarkReleased, LeaveUnguarded, Age, vars

\* The file of an owner stays, is not marked and keeps its creator.
LEMMA NextOwner ==
  ASSUME IInv, [Next]_vars
  PROVE  OwnerOK'
<1> USE ProcOfAssumption, NoTokenAssumption, NobodyAssumption DEF IInv, TypeOK
<1> SUFFICES ASSUME NEW u \in Threads, pc'[u] \in Owning
             PROVE  /\ file' # NoFile /\ file'.tok = token'[u]
                    /\ token'[u] \in active'[ProcOf[u]]
                    /\ file'.proc = ProcOf[u] /\ file'.inc = inc'[ProcOf[u]]
                    /\ file'.content # "released"
                    /\ kind' = "short" => pc'[u] # "beating"
                    /\ kind' = "short" /\ pc'[u] = "held" => file'.content = "held"
  BY DEF OwnerOK
<1> DEFINE Kept == /\ file' # NoFile /\ file'.tok = token'[u]
                   /\ token'[u] \in active'[ProcOf[u]]
                   /\ file'.proc = ProcOf[u] /\ file'.inc = inc'[ProcOf[u]]
                   /\ file'.content # "released"
                   /\ kind' = "short" => pc'[u] # "beating"
                   /\ kind' = "short" /\ pc'[u] = "held" => file'.content = "held"
<1>0. pc[u] \in Owning => OwnFile(u) /\ token[u] \in Tokens
  BY DEF OwnerOK, OwnFile
<1>1. ASSUME NEW t \in Threads, Enter(t) \/ Refuse(t) \/ FindStale(t) \/ Unlink(t) \/ UnlinkFails(t)
      PROVE  Kept
  <2>1. u # t /\ pc[u] \in Owning /\ pc'[u] = pc[u] /\ token'[u] = token[u]
    BY <1>1 DEF Enter, Refuse, FindStale, Unlink, UnlinkFails, Idle, Owning, CSStates
  <2>2. UNCHANGED <<file, kind, inc, active>>
    BY <1>1, <2>1 DEF Enter, Refuse, FindStale, Unlink, UnlinkFails, StaleOK
  <2> QED
    BY <2>1, <2>2 DEF OwnerOK
<1>2. ASSUME NEW t \in Threads, Create(t)
      PROVE  Kept
  <2>1. u = t
    BY <1>2, <1>0 DEF Create, OwnFile
  <2> DEFINE k == CHOOSE k \in Tokens : k \in Fresh
  <2>2. k \in Tokens
    BY <1>2, FreshToken DEF Create
  <2>3. /\ file' = [tok |-> k, proc |-> ProcOf[t], inc |-> inc[ProcOf[t]],
                    content |-> "unreadable", aged |-> FALSE]
        /\ token' = [token EXCEPT ![t] = k]
        /\ active' = [active EXCEPT ![ProcOf[t]] = @ \cup {k}]
        /\ pc' = [pc EXCEPT ![t] = "writing"]
        /\ UNCHANGED <<kind, inc>>
    BY <1>2 DEF Create
  <2> HIDE DEF k
  <2>4. file' \in Files
    BY <2>2, <2>3 DEF Files, Contents
  <2> QED
    BY <2>1, <2>2, <2>3, <2>4, NoFileAssumption
<1>3. ASSUME NEW t \in Threads, Publish(t) \/ PublishFails(t)
      PROVE  Kept
  <2>1. OwnFile(t) /\ pc[t] \in Owning
    BY <1>3 DEF Publish, PublishFails, OwnerOK, Owning, OwnFile
  <2>2. u = t
    BY <1>3, <2>1, OneOwner DEF Publish, PublishFails, Idle
  <2>3. Publish(t)
    BY <1>3, <2>2 DEF PublishFails, Idle, Owning, CSStates
  <2> QED
    BY <2>1, <2>2, <2>3, WrittenFile DEF Publish, OwnerOK, Contents
<1>4. ASSUME NEW t \in Threads, Beat(t) \/ BeatDone(t) \/ BeatFails(t)
      PROVE  Kept
  <2>1. OwnFile(t) /\ pc[t] \in Owning /\ pc[u] \in Owning /\ kind' = kind
    BY <1>4 DEF Beat, BeatDone, BeatFails, OwnerOK, Owning, CSStates, OwnFile
  <2>2. u = t
    BY <2>1, OneOwner
  <2>3. CASE Beat(t)
    BY <2>1, <2>2, <2>3, WrittenFile DEF Beat, OwnerOK, Contents, Kinds
  <2>4. CASE BeatDone(t)
    <3>1. file' = [file EXCEPT !.content = "held", !.aged = FALSE] /\ file \in Files
      BY <2>1, <2>4 DEF BeatDone, OwnFile
    <3>2. /\ file' \in Files /\ file'.tok = file.tok /\ file'.proc = file.proc
          /\ file'.inc = file.inc /\ file'.content = "held"
      BY <3>1 DEF Files, Contents
    <3> QED
      BY <2>1, <2>2, <2>4, <3>2, NoFileAssumption DEF BeatDone, OwnerOK
  <2>5. CASE BeatFails(t)
    BY <2>1, <2>2, <2>5 DEF BeatFails, OwnerOK
  <2> QED
    BY <1>4, <2>3, <2>4, <2>5
<1>5. ASSUME NEW t \in Threads, Leave(t)
      PROVE  Kept
  BY <1>5 DEF Leave, OwnerOK, Owning, CSStates
<1>6. ASSUME NEW t \in Threads, MarkReleased(t)
      PROVE  Kept
  <2>1. pc[t] \in Owning /\ pc'[t] \notin Owning /\ (pc'[u] = pc[u] \/ u = t)
    BY <1>6 DEF MarkReleased, Owning, CSStates
  <2>2. u # t /\ pc[u] \in Owning
    BY <1>6, <2>1 DEF MarkReleased, Owning, CSStates
  <2> QED
    BY <1>6, <2>2, OneOwner DEF MarkReleased, Owning
<1>7. ASSUME NEW t \in Threads, UnlinkOwn(t) \/ UnlinkOwnFails(t)
      PROVE  Kept
  <2>1. u # t /\ pc[u] \in Owning /\ pc'[u] = pc[u] /\ token'[u] = token[u]
    BY <1>7 DEF UnlinkOwn, UnlinkOwnFails, Idle, Owning, CSStates
  <2>2. ~OwnFile(t)
    BY <1>0, <2>1 DEF OwnFile, TokensUnique
  <2>3. UNCHANGED <<file, kind, inc, active>>
    BY <1>7, <2>2 DEF UnlinkOwn, UnlinkOwnFails
  <2> QED
    BY <2>1, <2>3 DEF OwnerOK
<1>8. ASSUME NEW t \in Threads, LeaveUnguarded(t)
      PROVE  Kept
  <2>1. pc[t] \in Owning /\ pc'[t] \notin Owning /\ u # t /\ pc[u] \in Owning
    BY <1>8 DEF LeaveUnguarded, Owning, CSStates
  <2> QED
    BY <2>1, OneOwner
<1>9. ASSUME NEW t \in Threads, LeftUnguarded(t)
      PROVE  Kept
  <2>1. u # t /\ pc[u] \in Owning /\ pc'[u] = pc[u] /\ token'[u] = token[u]
    BY <1>9 DEF LeftUnguarded, Idle, Owning, CSStates
  <2>2. ~OwnFile(t) /\ token[t] # token[u]
    BY <1>0, <2>1 DEF OwnFile, TokensUnique
  <2>3. file' = file
    BY <1>9, <2>2, WrittenFile DEF LeftUnguarded, Contents
  <2>4. active' = [active EXCEPT ![ProcOf[t]] = @ \ {token[t]}] /\ UNCHANGED <<kind, inc>>
    BY <1>9 DEF LeftUnguarded
  <2> QED
    BY <2>1, <2>2, <2>3, <2>4 DEF OwnerOK
<1>10. CASE Age
  <2>1. file' = [file EXCEPT !.aged = TRUE] /\ file \in Files
    BY <1>10 DEF Age
  <2>2. /\ file' \in Files /\ file'.tok = file.tok /\ file'.proc = file.proc
        /\ file'.inc = file.inc /\ file'.content = file.content
    BY <2>1 DEF Files
  <2> QED
    BY <1>10, <2>2, NoFileAssumption DEF Age, OwnerOK
<1>11. ASSUME NEW p \in Procs, Crash(p)
       PROVE  Kept
  <2>1. ProcOf[u] # p /\ pc'[u] = pc[u] /\ token'[u] = token[u]
    BY <1>11 DEF Crash, Owning, CSStates
  <2> QED
    BY <1>11, <2>1 DEF Crash, OwnerOK
<1>12. CASE UNCHANGED vars
  BY <1>12 DEF vars, OwnerOK
<1> QED
  BY <1>1, <1>2, <1>3, <1>4, <1>5, <1>6, <1>7, <1>8, <1>9, <1>10, <1>11, <1>12
     DEF Next, GuardStep

\* A thread that is about to remove a stale file still has the guard, so nobody
\* became an owner since it judged the file.
LEMMA NextStale ==
  ASSUME IInv, [Next]_vars
  PROVE  StaleOK'
<1> USE ProcOfAssumption, NobodyAssumption DEF IInv, TypeOK, StaleOK
<1> SUFFICES ASSUME NEW x \in Threads, pc'[x] = "stale", NEW u \in Threads, pc'[u] \in Owning
             PROVE  FALSE
  BY DEF StaleOK
<1>1. ASSUME NEW t \in Threads, FindStale(t)
      PROVE  FALSE
  <2>1. pc[u] \in Owning /\ u # t /\ pc[t] = "guarded"
    BY <1>1 DEF FindStale, Owning, CSStates
  <2>2. pc[u] \notin {"writing", "leaving"}
    BY <2>1 DEF GuardOK, GuardStates
  <2>3. pc[u] \in CSStates
    BY <2>1, <2>2 DEF Owning
  <2> QED
    BY <1>1, <2>3, OwnerNotStale DEF FindStale
<1>2. ASSUME pc[x] = "stale", pc[u] \notin Owning
      PROVE  FALSE
  <2>1. guard = x
    BY <1>2 DEF GuardOK, GuardStates
  <2>2. \A t \in Threads : ~Create(t) \/ t = x
    BY <2>1 DEF GuardOK, GuardStates, Create
  <2> QED
    BY <1>2, <2>1, <2>2
       DEF Next, GuardStep, Enter, Create, Publish, PublishFails, Refuse, FindStale, Unlink,
           UnlinkFails, MarkReleased, UnlinkOwn, UnlinkOwnFails, Beat, BeatDone, BeatFails,
           Leave, LeaveUnguarded, LeftUnguarded, Age, Crash, Idle, Owning, CSStates, vars
<1>3. pc[x] # "stale" => \E t \in Threads : FindStale(t)
  BY DEF Next, GuardStep, Enter, Create, Publish, PublishFails, Refuse, FindStale, Unlink,
         UnlinkFails, MarkReleased, UnlinkOwn, UnlinkOwnFails, Beat, BeatDone, BeatFails,
         Leave, LeaveUnguarded, LeftUnguarded, Age, Crash, Idle, vars
<1> QED
  BY <1>1, <1>2, <1>3

-----------------------------------------------------------------------------
\* The inductive invariant.
THEOREM Invariance == Spec => []IInv
<1>1. IInv /\ [Next]_vars => IInv'
  BY NextType, NextGuard, NextTokens, NextOwner, NextStale DEF IInv
<1> QED
  BY InitInv, <1>1, PTL DEF Spec

\* It implies the properties of the run.
LEMMA InvSafe == IInv => TypeOK /\ MutualExclusion /\ HolderKeepsFile
BY OneOwner DEF IInv, MutualExclusion, HolderKeepsFile, InCS, OwnerOK, Owning

\* Every variable of the lock keeps its type.
THEOREM TypeCorrect == Spec => []TypeOK
BY Invariance, InvSafe, PTL

\* Never two threads between acquire and release, in one process or in several,
\* whatever crashed, aged, or could not be written or deleted (ProcessLock,
\* ShortProcessLock).
THEOREM OneHolder == Spec => []MutualExclusion
BY Invariance, InvSafe, PTL

\* A holder's file is never taken over or removed by anybody else.
THEOREM FileStays == Spec => []HolderKeepsFile
BY Invariance, InvSafe, PTL

-----------------------------------------------------------------------------
(* Refinement: what callers see is a mutex whose owner may die. *)

\* The owner is the thread in its critical section, if there is one.
LEMMA OwnerIs ==
  ASSUME MutualExclusion, NEW t \in Threads, InCS(t)
  PROVE  Owner = t
BY DEF MutualExclusion, Owner

\* Without such a thread nobody is the owner.
LEMMA NoOwner ==
  ASSUME \A t \in Threads : ~InCS(t)
  PROVE  Owner = Nobody
BY DEF Owner

\* Every step of the lock is a step of the mutex or leaves the owner alone.
LEMMA MutexStep ==
  ASSUME IInv, IInv', [Next]_vars
  PROVE  [Abstract!Next]_Owner
<1> USE ProcOfAssumption, NobodyAssumption DEF IInv, TypeOK, CSStates, InCS
<1>0. MutualExclusion /\ MutualExclusion'
  <2>1. MutualExclusion
    BY InvSafe
  <2>2. MutualExclusion'
    BY InvSafe, IInv', PTL
  <2> QED
    BY <2>1, <2>2
<1>1. ASSUME NEW t \in Threads, Publish(t)
      PROVE  Abstract!Acquire(t)
  <2>1. \A u \in Threads : ~InCS(u)
    BY <1>1, OneOwner DEF Publish, Owning
  <2>2. Owner = Nobody
    BY <2>1, NoOwner
  <2>3. pc'[t] = "held"
    BY <1>1 DEF Publish
  <2>4. Owner' = t
    BY <1>0, <2>3 DEF Owner, MutualExclusion
  <2> QED
    BY <2>2, <2>4 DEF Abstract!Acquire
<1>2. ASSUME NEW t \in Threads, Leave(t) \/ LeaveUnguarded(t)
      PROVE  Abstract!Release(t)
  <2>1. InCS(t) /\ \A u \in Threads : ~(pc'[u] \in {"held", "beating"})
    BY <1>2, <1>0 DEF Leave, LeaveUnguarded, MutualExclusion
  <2>2. Owner = t
    BY <1>0, <2>1, OwnerIs
  <2>3. Owner' = Nobody
    BY <2>1 DEF Owner
  <2> QED
    BY <2>2, <2>3 DEF Abstract!Release
<1>3. ASSUME UNCHANGED [t \in Threads |-> InCS(t)]
      PROVE  Owner' = Owner
  <2>1. \A t \in Threads : InCS(t)' = InCS(t)
    BY <1>3
  <2>2. CASE \E t \in Threads : InCS(t)
    <3>1. PICK t \in Threads : InCS(t)
      BY <2>2
    <3>2. Owner = t
      BY <1>0, <3>1, OwnerIs
    <3>3. Owner' = t
      BY <1>0, <2>1, <3>1 DEF Owner, MutualExclusion
    <3> QED
      BY <3>2, <3>3
  <2>3. CASE \A t \in Threads : ~InCS(t)
    BY <2>1, <2>3 DEF Owner
  <2> QED
    BY <2>2, <2>3
<1>4. ASSUME NEW p \in Procs, Crash(p)
      PROVE  Abstract!Die(p) \/ Owner' = Owner
  <2>1. CASE \E t \in Threads : InCS(t) /\ ProcOf[t] = p
    <3>1. PICK t \in Threads : InCS(t) /\ ProcOf[t] = p
      BY <2>1
    <3>2. Owner = t
      BY <1>0, <3>1, OwnerIs
    <3>3. \A u \in Threads : ~(pc'[u] \in {"held", "beating"})
      BY <1>0, <1>4, <3>1 DEF Crash, MutualExclusion
    <3>4. Owner' = Nobody
      BY <3>3 DEF Owner
    <3> QED
      BY <3>1, <3>2, <3>4 DEF Abstract!Die
  <2>2. CASE \A t \in Threads : InCS(t) => ProcOf[t] # p
    <3>1. \A t \in Threads : InCS(t)' = InCS(t)
      BY <1>4, <2>2 DEF Crash
    <3> QED
      BY <1>3, <3>1
  <2> QED
    BY <2>1, <2>2
<1> DEFINE SameCS == \A u \in Threads : (pc'[u] \in CSStates) = (pc[u] \in CSStates)
<1>5. SameCS => Owner' = Owner
  BY <1>3
<1>6. ASSUME NEW t \in Threads, Enter(t) \/ Create(t) \/ PublishFails(t) \/ Refuse(t) \/ FindStale(t)
                                 \/ Unlink(t) \/ UnlinkFails(t)
      PROVE  Owner' = Owner
  <2>1. SameCS
    BY <1>6 DEF Enter, Create, PublishFails, Refuse, FindStale, Unlink, UnlinkFails, Idle
  <2> QED
    BY <1>5, <2>1
<1>7. ASSUME NEW t \in Threads, Beat(t) \/ BeatDone(t) \/ BeatFails(t) \/ MarkReleased(t)
                                 \/ UnlinkOwn(t) \/ UnlinkOwnFails(t) \/ LeftUnguarded(t)
      PROVE  Owner' = Owner
  <2>1. SameCS
    BY <1>7 DEF Beat, BeatDone, BeatFails, MarkReleased, UnlinkOwn, UnlinkOwnFails,
       LeftUnguarded, Idle
  <2> QED
    BY <1>5, <2>1
<1>8. CASE Age \/ UNCHANGED vars
  BY <1>3, <1>8 DEF Age, vars
<1> QED
  BY <1>1, <1>2, <1>4, <1>6, <1>7, <1>8 DEF Next, GuardStep, Abstract!Next

\* The lock implements a mutex.
THEOREM Refinement == Spec => ImplementsMutex
<1>1. Init => Abstract!Init
  BY DEF Init, Abstract!Init, Owner, InCS, CSStates
<1>2. IInv /\ IInv' /\ [Next]_vars => [Abstract!Next]_Owner
  BY MutexStep
<1> QED
  BY <1>1, <1>2, Invariance, PTL DEF Spec, ImplementsMutex, Abstract!Spec
=============================================================================
