------------------------ MODULE ResetShutdown_proofs ------------------------
(***************************************************************************)
(* A helper that was authorized owns the reset lock until it removes it,   *)
(* for any number of processes, pids' reuse, requests and failures, so two *)
(* resets never run together.  Ownership can be lost only to a request     *)
(* that removes or creates the lock: the lookup keeps it because the pid   *)
(* in it still leads to the helper (PidsDiffer), and past the lookup there *)
(* is no owner (LockFollows), as one sidebar schedules at a time           *)
(* (OneFrontend).                                                          *)
(***************************************************************************)
EXTENDS ResetShutdown, TLAPS

\* Steps of a sidebar that holds the single instance lock.
Holding == FrontendUp \cup {"lifecycle_start", "check_first", "start_weflow", "check_again",
                            "write_launch", "check_last"}
\* Steps of a request whose lock does not name a helper yet.
Unnaming == {"trust", "record", "spawn", "name_status", "name_lock"}
Dead == {"unborn", "gone"}

\* Live processes have pids, all different.
PidsDiffer ==
    /\ \A q \in Procs : proc[q].pid = 0 <=> proc[q].at \in Dead
    /\ \A q, r \in Procs : proc[q].pid # 0 /\ proc[q].pid = proc[r].pid => q = r

OneFrontend == \A f \in Procs : proc[f].at \in Holding => instance = f

\* The lock file is what the progress of the request says.
FollowsAt(step, l) ==
    /\ step \in {"admit", "create"} => l = NoLock
    /\ step = "fill" => l = BlankLock
    /\ step \in Unnaming => l.pid = 0
LockFollows == \A f \in Procs : FollowsAt(proc[f].at, lock)

IInv == TypeOK /\ PidsDiffer /\ OneFrontend /\ LockFollows /\ WorkingOwnsLock

\* The same helper owns both lock records.
SameOwner(l, m) == l.pid = m.pid /\ l.start = m.start /\ l.token = m.token

-----------------------------------------------------------------------------
LEMMA Zero == 0 \notin Procs /\ 0 \notin Pids
BY BoundsAssumption DEF Procs, Pids

LEMMA NoLockTyped == NoLock \in LockRecord /\ BlankLock \in LockRecord /\ NoLock.pid = 0 /\ BlankLock.pid = 0
BY BoundsAssumption DEF NoLock, BlankLock, LockRecord

LEMMA GoneTyped == Gone \in ProcessRecord /\ Unborn \in ProcessRecord
<1>1. 0 \in 0..MaxRequests
  BY BoundsAssumption
<1>2. "gone" \in Steps /\ "unborn" \in Steps
  BY DEF Steps
<1>3. Unborn \in ProcessRecord
  BY <1>1, <1>2 DEF Unborn, ProcessRecord
<1>4. Gone \in ProcessRecord
  BY <1>2, <1>3 DEF Gone, ProcessRecord
<1> QED
  BY <1>3, <1>4

LEMMA StepsDiffer ==
    /\ Working \cap (Holding \cup Dead) = {} /\ Holding \cap Dead = {}
    /\ Working \subseteq Steps /\ Holding \subseteq Steps /\ Dead \subseteq Steps
    /\ Unnaming \cup {"admit", "create", "fill"} \subseteq Holding
BY DEF Working, Holding, Dead, Steps, FrontendUp, Unnaming, CheckSteps

\* The pid of a live process leads to it (process_start_marker).
LEMMA OwnerIs ==
    ASSUME PidsDiffer, NEW q \in Procs, proc[q].pid # 0
    PROVE  Owner(proc[q].pid) = q
BY DEF PidsDiffer, Owner

\* A pid that is handed out is no live process's.
LEMMA NewPid ==
    ASSUME TypeOK, NEW p \in FreePids
    PROVE  p \in Pids /\ \A q \in Procs : proc[q].pid # p
<1>1. Remembered \subseteq Pids
  BY DEF Remembered, TypeOK, ProcessRecord, LockRecord, StatusRecord
<1>2. \A q \in Procs : proc[q].pid \in Remembered \cup {0}
  BY DEF Remembered
<1>3. \A q \in Procs : proc[q].pid \in Taken
  BY DEF Taken
<1> QED
  BY <1>1, <1>2, <1>3, Zero DEF FreePids

\* The other variables stay in their ranges.
OthersTyped ==
    /\ status' \in StatusRecord /\ launch' \in Procs \cup {0} /\ weflow' \in BOOLEAN
    /\ requests' \in 0..MaxRequests /\ failures' \in 0..MaxFailures

\* A live process q takes a step, after which it is the live process R.
LEMMA StepKeeps ==
    ASSUME IInv, OthersTyped, NEW q \in Procs, NEW R \in ProcessRecord,
           proc' = [proc EXCEPT ![q] = R],
           proc[q].at \notin Dead, R.at \notin Dead, R.pid = proc[q].pid,
           instance' = instance \/ (instance = 0 /\ instance' = q),
           lifecycle' \in {0, q, lifecycle},
           R.at \in Holding => instance' = q,
           lock' \in LockRecord,
           lock' = lock \/ proc[q].at \in Holding \/ lock.pid # 0,
           \A h \in Procs : h # q /\ proc[h].at \in Working => SameOwner(lock', lock),
           R.at \in Working => lock'.pid = R.pid /\ lock'.start = q /\ lock'.token = R.token,
           FollowsAt(R.at, lock')
    PROVE  IInv'
<1> USE Zero, StepsDiffer
<1>1. /\ proc' \in [Procs -> ProcessRecord] /\ proc'[q] = R
      /\ \A r \in Procs : r # q => proc'[r] = proc[r]
  BY DEF IInv, TypeOK
<1>2. TypeOK'
  <2>1. (instance # 0 => Alive(instance))' /\ (lifecycle # 0 => Alive(lifecycle))'
    BY <1>1 DEF IInv, TypeOK, Alive, Dead
  <2>2. instance' \in Procs \cup {0} /\ lifecycle' \in Procs \cup {0}
    BY DEF IInv, TypeOK
  <2> QED
    BY <1>1, <2>1, <2>2 DEF TypeOK, OthersTyped
<1>3. PidsDiffer'
  BY <1>1 DEF IInv, PidsDiffer
<1>4. OneFrontend'
  BY <1>1 DEF IInv, OneFrontend
<1>5. LockFollows'
  <2> SUFFICES ASSUME NEW f \in Procs, f # q PROVE FollowsAt(proc[f].at, lock')
    BY <1>1 DEF LockFollows
  <2>1. FollowsAt(proc[f].at, lock)
    BY DEF IInv, LockFollows
  <2>2. CASE proc[f].at \notin Unnaming \cup {"admit", "create", "fill"}
    BY <2>2 DEF FollowsAt
  <2>3. CASE proc[f].at \in Unnaming \cup {"admit", "create", "fill"}
    <3>1. instance = f
      BY <2>3 DEF IInv, OneFrontend
    <3>2. lock.pid = 0
      BY <2>1, <2>3, NoLockTyped DEF FollowsAt
    <3>3. lock' = lock
      BY <3>1, <3>2 DEF IInv, OneFrontend
    <3> QED
      BY <2>1, <3>3
  <2> QED
    BY <2>2, <2>3
<1>6. WorkingOwnsLock'
  <2> SUFFICES ASSUME NEW h \in Procs, proc'[h].at \in Working PROVE Owned(h)'
    BY DEF WorkingOwnsLock
  <2>1. CASE h = q
    BY <1>1, <2>1 DEF Owned
  <2>2. CASE h # q
    BY <1>1, <2>2 DEF Owned, IInv, WorkingOwnsLock, SameOwner
  <2> QED
    BY <2>1, <2>2
<1> QED
  BY <1>2, <1>3, <1>4, <1>5, <1>6 DEF IInv

\* A live process ends; a helper may take its own lock with it.
LEMMA EndKeeps ==
    ASSUME IInv, OthersTyped, NEW q \in Procs, proc[q].at \notin Dead, Ends(q),
           lock' = lock \/ (Owned(q) /\ lock' = NoLock)
    PROVE  IInv'
<1> USE Zero, StepsDiffer
<1>1. /\ proc' \in [Procs -> ProcessRecord] /\ proc'[q] = Gone
      /\ \A r \in Procs : r # q => proc'[r] = proc[r]
  BY GoneTyped DEF IInv, TypeOK, Ends
<1>0. Gone.pid = 0 /\ Gone.at = "gone" /\ Gone.at \in Dead
  BY DEF Gone, Unborn, Dead
<1>2. TypeOK'
  <2>1. (instance # 0 => Alive(instance))' /\ (lifecycle # 0 => Alive(lifecycle))'
    BY <1>1 DEF IInv, TypeOK, Alive, Dead, Ends
  <2>2. instance' \in Procs \cup {0} /\ lifecycle' \in Procs \cup {0} /\ lock' \in LockRecord
    BY NoLockTyped DEF IInv, TypeOK, Ends
  <2> QED
    BY <1>1, <2>1, <2>2 DEF TypeOK, OthersTyped
<1>3. PidsDiffer'
  BY <1>1, <1>0 DEF IInv, PidsDiffer
<1>4. OneFrontend'
  BY <1>1, <1>0 DEF IInv, OneFrontend, Ends
<1>7. lock' = lock \/ (lock.pid # 0 /\ lock.start = q)
  BY DEF Owned, IInv, PidsDiffer
<1>5. LockFollows'
  <2> SUFFICES ASSUME NEW f \in Procs, f # q PROVE FollowsAt(proc[f].at, lock')
    BY <1>1, <1>0 DEF LockFollows, FollowsAt, Unnaming
  <2>1. FollowsAt(proc[f].at, lock)
    BY DEF IInv, LockFollows
  <2> QED
    BY <1>7, <2>1, NoLockTyped DEF FollowsAt
<1>6. WorkingOwnsLock'
  <2> SUFFICES ASSUME NEW h \in Procs, proc'[h].at \in Working PROVE Owned(h)'
    BY DEF WorkingOwnsLock
  <2>1. h # q
    BY <1>1, <1>0
  <2>2. Owned(h)
    BY <1>1, <2>1 DEF IInv, WorkingOwnsLock
  <2> QED
    BY <1>1, <1>7, <2>1, <2>2 DEF Owned
<1> QED
  BY <1>2, <1>3, <1>4, <1>5, <1>6 DEF IInv

\* A process R starts, while the rest stays.
LEMMA BirthKeeps ==
    ASSUME IInv, OthersTyped, NEW q \in Procs, proc[q].at = "unborn",
           NEW R \in ProcessRecord, proc' = [proc EXCEPT ![q] = R],
           R.pid \in FreePids, R.at \notin Dead \cup Holding \cup Working,
           UNCHANGED <<lock, instance, lifecycle>>
    PROVE  IInv'
<1> USE Zero, StepsDiffer
<1>1. /\ proc' \in [Procs -> ProcessRecord] /\ proc'[q] = R
      /\ \A r \in Procs : r # q => proc'[r] = proc[r]
  BY DEF IInv, TypeOK
<1>2. R.pid \in Pids /\ \A r \in Procs : proc[r].pid # R.pid
  BY NewPid DEF IInv
<1>3. TypeOK'
  <2>1. (instance # 0 => Alive(instance))' /\ (lifecycle # 0 => Alive(lifecycle))'
    BY <1>1 DEF IInv, TypeOK, Alive, Dead
  <2> QED
    BY <1>1, <2>1 DEF IInv, TypeOK, OthersTyped
<1>4. PidsDiffer'
  BY <1>1, <1>2 DEF IInv, PidsDiffer
<1>5. OneFrontend'
  BY <1>1 DEF IInv, OneFrontend
<1>6. LockFollows'
  BY <1>1 DEF IInv, LockFollows, FollowsAt
<1>7. WorkingOwnsLock'
  BY <1>1 DEF IInv, WorkingOwnsLock, Owned
<1> QED
  BY <1>3, <1>4, <1>5, <1>6, <1>7 DEF IInv

\* StepKeeps for a step that leaves the lock and the instance alone.
LEMMA MoveKeeps ==
    ASSUME IInv, OthersTyped, NEW q \in Procs, NEW R \in ProcessRecord,
           proc' = [proc EXCEPT ![q] = R],
           proc[q].at \notin Dead, R.at \notin Dead,
           R.pid = proc[q].pid, R.token = proc[q].token,
           lock' = lock, instance' = instance, lifecycle' \in {0, q, lifecycle},
           R.at \in Holding => proc[q].at \in Holding,
           R.at \in Working => proc[q].at \in Working \/ Owned(q),
           FollowsAt(R.at, lock)
    PROVE  IInv'
<1>1. R.at \in Holding => instance' = q
  BY DEF IInv, OneFrontend
<1>2. R.at \in Working => lock.pid = R.pid /\ lock.start = q /\ lock.token = R.token
  BY DEF IInv, WorkingOwnsLock, Owned
<1>3. lock' \in LockRecord
  BY DEF IInv, TypeOK
<1> QED
  BY <1>1, <1>2, <1>3, StepKeeps DEF SameOwner

\* StepKeeps for a step of a sidebar that schedules, while the lock names no
\* helper: nobody works.
LEMMA HolderKeeps ==
    ASSUME IInv, OthersTyped, NEW q \in Procs, NEW R \in ProcessRecord,
           proc' = [proc EXCEPT ![q] = R],
           proc[q].at \in Holding, R.at \in Holding, R.pid = proc[q].pid,
           \A h \in Procs : proc[h].at \in Working => ~Owned(h),
           lock' \in LockRecord, UNCHANGED locks,
           FollowsAt(R.at, lock')
    PROVE  IInv'
<1>1. instance' = q
  BY DEF IInv, OneFrontend, locks
<1>2. \A h \in Procs : proc[h].at \notin Working
  BY DEF IInv, WorkingOwnsLock
<1> QED
  BY <1>1, <1>2, StepsDiffer, StepKeeps DEF locks

\* Nobody works while the lock has no pid.
LEMMA NobodyWorks ==
    ASSUME IInv, lock.pid = 0
    PROVE  \A h \in Procs : proc[h].at \in Working => ~Owned(h)
BY StepsDiffer DEF IInv, PidsDiffer, Owned

LEMMA Typed ==
    ASSUME IInv, NEW q \in Procs
    PROVE  /\ proc[q] \in ProcessRecord /\ lock \in LockRecord /\ status \in StatusRecord
           /\ launch \in Procs \cup {0} /\ weflow \in BOOLEAN /\ launch \in Procs \cup {0}
           /\ instance \in Procs \cup {0} /\ lifecycle \in Procs \cup {0}
           /\ requests \in 0..MaxRequests /\ failures \in 0..MaxFailures
BY DEF IInv, TypeOK

LEMMA FailureTyped == ASSUME IInv, Failure \/ UNCHANGED budget
                      PROVE requests' \in 0..MaxRequests /\ failures' \in 0..MaxFailures
BY BoundsAssumption DEF IInv, TypeOK, Failure, budget

\* A step that only moves q.
LEMMA AtTyped ==
    ASSUME IInv, NEW q \in Procs, NEW step \in Steps
    PROVE  /\ [proc[q] EXCEPT !.at = step] \in ProcessRecord
           /\ [proc[q] EXCEPT !.at = step].pid = proc[q].pid
           /\ [proc[q] EXCEPT !.at = step].token = proc[q].token
           /\ [proc[q] EXCEPT !.at = step].at = step
<1>1. proc[q] \in ProcessRecord
  BY Typed
<1> QED
  BY <1>1 DEF ProcessRecord

-----------------------------------------------------------------------------
(* Starting.                                                               *)

LEMMA StartingKeeps ==
    ASSUME IInv, NEW f \in Procs, Starting(f) \/ Leave(f)
    PROVE  IInv'
<1> DEFINE R(step) == [proc[f] EXCEPT !.at = step]
<1> USE StepsDiffer, Typed
<1>1. ASSUME CheckLock(f) PROVE IInv'
  <2>0. OthersTyped /\ proc[f].at \in CheckSteps
    BY <1>1 DEF CheckLock, OthersTyped, files, budget
  <2>1. CASE LockBusy
    BY <1>1, <2>0, <2>1, EndKeeps DEF CheckLock, files, CheckSteps, Dead
  <2>2. CASE ~LockBusy
    <3> DEFINE S == [proc[f] EXCEPT !.seen = TRUE]
    <3>1. S \in ProcessRecord /\ S.pid = proc[f].pid /\ S.token = proc[f].token /\ S.at = proc[f].at
      BY DEF ProcessRecord
    <3>2. proc' = [proc EXCEPT ![f] = S] /\ UNCHANGED <<lock, instance, lifecycle>>
      BY <1>1, <2>2 DEF CheckLock, files, locks
    <3>3. proc[f].at \notin Dead \cup Working /\ FollowsAt(S.at, lock)
      BY <2>0, <3>1 DEF CheckSteps, Dead, Working, FollowsAt, Unnaming
    <3> HIDE DEF S
    <3> QED
      BY <2>0, <3>1, <3>2, <3>3, MoveKeeps
  <2> QED
    BY <2>1, <2>2
<1>2. ASSUME CheckStatus(f) PROVE IInv'
  <2>0. OthersTyped /\ proc[f].at \in CheckSteps
    BY <1>2 DEF CheckStatus, OthersTyped, files, budget
  <2>1. CASE StatusBusy
    BY <1>2, <2>0, <2>1, EndKeeps DEF CheckStatus, files, CheckSteps, Dead
  <2>2. CASE ~StatusBusy
    <3> DEFINE S == [proc[f] EXCEPT !.seen = FALSE, !.at = AfterCheck(proc[f].at)]
    <3>0. /\ AfterCheck(proc[f].at) \in {"instance", "start_weflow", "write_launch", "up"}
          /\ AfterCheck(proc[f].at) \in Holding => proc[f].at \in Holding
          /\ AfterCheck(proc[f].at) \in Steps
      BY <2>0 DEF AfterCheck, CheckSteps, Holding, FrontendUp, Steps
    <3>1. S \in ProcessRecord /\ S.pid = proc[f].pid /\ S.token = proc[f].token
          /\ S.at = AfterCheck(proc[f].at)
      BY <3>0 DEF ProcessRecord
    <3>2. proc' = [proc EXCEPT ![f] = S] /\ UNCHANGED <<lock, instance>> /\ lifecycle' \in {0, lifecycle}
      BY <1>2, <2>2 DEF CheckStatus, files
    <3>3. proc[f].at \notin Dead /\ S.at \notin Dead \cup Working /\ FollowsAt(S.at, lock)
      BY <2>0, <3>0, <3>1 DEF CheckSteps, Dead, Working, FollowsAt, Unnaming
    <3> HIDE DEF S
    <3> QED
      BY <2>0, <3>0, <3>1, <3>2, <3>3, MoveKeeps
  <2> QED
    BY <2>1, <2>2
<1>3. ASSUME TakeInstance(f) PROVE IInv'
  <2>0. OthersTyped /\ proc[f].at = "instance" /\ lock' = lock
    BY <1>3 DEF TakeInstance, OthersTyped, files, budget
  <2>1. CASE instance = 0
    <3>1. "lifecycle_start" \in Steps /\ "lifecycle_start" \notin Dead \cup Working
          /\ FollowsAt("lifecycle_start", lock) /\ "instance" \notin Dead
      BY DEF Steps, Dead, Working, FollowsAt, Unnaming
    <3>2. proc' = [proc EXCEPT ![f] = R("lifecycle_start")] /\ instance' = f /\ lifecycle' = lifecycle
      BY <1>3, <2>1 DEF TakeInstance, At
    <3>3. /\ R("lifecycle_start") \in ProcessRecord /\ R("lifecycle_start").pid = proc[f].pid
          /\ R("lifecycle_start").at = "lifecycle_start"
      BY <3>1, AtTyped
    <3> HIDE DEF R
    <3> QED
      BY <2>0, <2>1, <3>1, <3>2, <3>3, StepKeeps DEF SameOwner
  <2>2. CASE instance # 0
    BY <1>3, <2>0, <2>2, EndKeeps DEF TakeInstance, Dead
  <2> QED
    BY <2>1, <2>2
<1>4. ASSUME TakeLifecycleToStart(f) \/ StartWeflow(f) \/ WriteLaunch(f) PROVE IInv'
  <2>0. OthersTyped /\ lock' = lock /\ instance' = instance
    BY <1>4 DEF TakeLifecycleToStart, StartWeflow, WriteLaunch, OthersTyped, files, locks, budget
  <2>1. lifecycle' \in {f, lifecycle}
    BY <1>4 DEF TakeLifecycleToStart, StartWeflow, WriteLaunch, locks
  <2>2. PICK step \in {"check_first", "check_again", "check_last"} : At(f, step)
    BY <1>4 DEF TakeLifecycleToStart, StartWeflow, WriteLaunch
  <2>3. proc[f].at \in {"lifecycle_start", "start_weflow", "write_launch"}
    BY <1>4 DEF TakeLifecycleToStart, StartWeflow, WriteLaunch
  <2>4. step \in Steps /\ step \notin Dead \cup Working /\ proc[f].at \in Holding
        /\ proc[f].at \notin Dead /\ FollowsAt(step, lock)
    BY <2>2, <2>3 DEF Steps, CheckSteps, Dead, Working, FollowsAt, Unnaming, Holding
  <2>5. proc' = [proc EXCEPT ![f] = R(step)]
    BY <2>2 DEF At
  <2>6. R(step) \in ProcessRecord /\ R(step).pid = proc[f].pid /\ R(step).token = proc[f].token
        /\ R(step).at = step
    BY <2>4, AtTyped
  <2> HIDE DEF R
  <2> QED
    BY <2>0, <2>1, <2>4, <2>5, <2>6, MoveKeeps
<1>5. ASSUME Leave(f) PROVE IInv'
  <2>0. OthersTyped /\ Ends(f) /\ proc[f].at \notin Dead /\ lock' = lock
    BY <1>5 DEF Leave, OthersTyped, files, budget, Dead
  <2> QED
    BY <2>0, EndKeeps
<1> QED
  BY <1>1, <1>2, <1>3, <1>4, <1>5 DEF Starting

-----------------------------------------------------------------------------
(* Scheduling.                                                             *)

\* A request that ends forgets its helper.
LEMMA AnswersTyped ==
    ASSUME IInv, NEW f \in Procs, Answers(f)
    PROVE  \E R \in ProcessRecord : /\ proc' = [proc EXCEPT ![f] = R]
                                    /\ R.at = "up" /\ R.pid = proc[f].pid
<1> DEFINE R == [proc[f] EXCEPT !.at = "up", !.kin = 0, !.kinPid = 0, !.token = 0]
<1>1. 0 \in 0..MaxRequests /\ "up" \in Steps
  BY BoundsAssumption DEF Steps, FrontendUp
<1>2. R \in ProcessRecord /\ R.at = "up" /\ R.pid = proc[f].pid
  BY <1>1, Typed DEF ProcessRecord
<1>3. proc' = [proc EXCEPT ![f] = R]
  BY DEF Answers
<1> HIDE DEF R
<1> QED
  BY <1>2, <1>3

\* The lookup removes no working helper's lock.
LEMMA LookupKeeps ==
    ASSUME IInv, NEW f \in Procs, Lookup(f)
    PROVE  IInv'
<1> USE Typed, StepsDiffer
<1>1. OthersTyped /\ UNCHANGED locks /\ proc[f].at = "up"
  BY BoundsAssumption DEF Lookup, OthersTyped
<1>2. CASE UNCHANGED <<proc, lock>>
  BY <1>1, <1>2 DEF IInv, TypeOK, Alive, locks, PidsDiffer, OneFrontend, LockFollows, FollowsAt,
       WorkingOwnsLock, Owned, OthersTyped
<1>3. CASE ~UNCHANGED <<proc, lock>>
  <2> DEFINE R == [proc[f] EXCEPT !.at = "admit", !.token = requests + 1]
  <2>1. /\ proc' = [proc EXCEPT ![f] = R] /\ lock' = NoLock /\ requests + 1 \in 0..MaxRequests
        /\ \/ lock = NoLock
           \/ lock.pid # 0 => ~(/\ Owner(lock.pid) # 0
                                /\ lock.start = 0 \/ Owner(lock.pid) = lock.start)
    <3>1. requests < MaxRequests
      BY DEF Lookup
    <3>2. requests + 1 \in 0..MaxRequests
      BY <3>1, BoundsAssumption
    <3> QED
      BY <1>3, <3>2 DEF Lookup
  <2>2. "admit" \in Steps /\ "admit" \in Holding /\ "up" \in Holding
    BY DEF Steps, FrontendUp, Holding
  <2>3. R \in ProcessRecord /\ R.at = "admit" /\ R.pid = proc[f].pid
    BY <2>1, <2>2 DEF ProcessRecord
  <2>4. \A h \in Procs : proc[h].at \in Working => ~Owned(h)
    <3> SUFFICES ASSUME NEW h \in Procs, proc[h].at \in Working, Owned(h) PROVE FALSE
      OBVIOUS
    <3>1. proc[h].pid # 0
      BY DEF IInv, PidsDiffer
    <3>2. Owner(lock.pid) = h
      BY <3>1, OwnerIs DEF IInv, Owned
    <3> QED
      BY <2>1, <3>1, <3>2, NoLockTyped, Zero DEF Owned
  <2>5. FollowsAt("admit", lock')
    BY <2>1 DEF FollowsAt, Unnaming
  <2> HIDE DEF R
  <2> QED
    BY <1>1, <2>1, <2>2, <2>3, <2>4, <2>5, NoLockTyped, HolderKeeps
<1> QED
  BY <1>2, <1>3

\* The helper is born while the sidebar that spawned it goes on to name it.
LEMMA SpawnKeeps ==
    ASSUME IInv, NEW f \in Procs, Spawn(f)
    PROVE  IInv'
<1> USE Typed, StepsDiffer, Zero
<1>1. PICK h \in Procs, p \in FreePids :
         /\ proc[h].at = "unborn"
         /\ proc' = [proc EXCEPT
               ![f].at = "name_status", ![f].kin = h, ![f].kinPid = p,
               ![h] = [Process("helper", p, "preflight") EXCEPT
                         !.kin = f, !.kinPid = proc[f].pid, !.token = proc[f].token]]
  BY DEF Spawn, IsNext
<1>2. /\ proc[f].at = "spawn" /\ UNCHANGED <<lock, status, launch, instance, lifecycle, weflow>>
      /\ UNCHANGED <<requests, failures>>
  BY DEF Spawn, files, locks, budget
<1>3. p \in Pids /\ \A r \in Procs : proc[r].pid # p
  BY NewPid DEF IInv
<1>4. f # h
  BY <1>1, <1>2
<1> DEFINE F == [proc[f] EXCEPT !.at = "name_status", !.kin = h, !.kinPid = p]
           H == [Process("helper", p, "preflight") EXCEPT
                         !.kin = f, !.kinPid = proc[f].pid, !.token = proc[f].token]
<1>5. "name_status" \in Steps /\ "preflight" \in Steps
  BY DEF Steps, FrontendUp
<1>6. F \in ProcessRecord /\ F.at = "name_status" /\ F.pid = proc[f].pid
  BY <1>3, <1>5 DEF ProcessRecord
<1>7. H \in ProcessRecord /\ H.at = "preflight" /\ H.pid = p
  BY <1>3, <1>5, GoneTyped DEF ProcessRecord, Process
<1>8. /\ proc' \in [Procs -> ProcessRecord] /\ proc'[f] = F /\ proc'[h] = H
      /\ \A r \in Procs : r # f /\ r # h => proc'[r] = proc[r]
  BY <1>1, <1>4, <1>6, <1>7 DEF IInv, TypeOK
<1> HIDE DEF F, H
<1>9. TypeOK'
  <2>1. (instance # 0 => Alive(instance))' /\ (lifecycle # 0 => Alive(lifecycle))'
    BY <1>2, <1>6, <1>7, <1>8 DEF IInv, TypeOK, Alive
  <2> QED
    BY <1>2, <1>8, <2>1 DEF TypeOK
<1>10. PidsDiffer'
  <2>1. \A r \in Procs : (proc[r].pid = 0 <=> proc[r].at \in Dead)'
    BY <1>2, <1>3, <1>6, <1>7, <1>8 DEF IInv, PidsDiffer, Dead
  <2>2. \A r \in Procs : r # h => proc'[r].pid = proc[r].pid
    BY <1>6, <1>8
  <2>3. \A r \in Procs : r # h => proc'[r].pid # p
    BY <1>3, <2>2
  <2> QED
    BY <1>7, <1>8, <2>1, <2>2, <2>3 DEF IInv, PidsDiffer
<1>11. OneFrontend'
  BY <1>2, <1>6, <1>7, <1>8 DEF IInv, OneFrontend, Holding, FrontendUp
<1>12. LockFollows'
  BY <1>2, <1>6, <1>7, <1>8 DEF IInv, LockFollows, FollowsAt, Unnaming
<1>13. WorkingOwnsLock'
  BY <1>2, <1>6, <1>7, <1>8 DEF IInv, WorkingOwnsLock, Owned, Working
<1> QED
  BY <1>9, <1>10, <1>11, <1>12, <1>13 DEF IInv

\* The requests' other steps: the lock has no pid before any that writes it.
LEMMA SchedulingKeeps ==
    ASSUME IInv, NEW f \in Procs, Scheduling(f)
    PROVE  IInv'
<1> USE Typed, StepsDiffer
<1>1. CASE Spawn(f)
  BY <1>1, SpawnKeeps
<1>2. CASE ~Spawn(f)
  <2>1. /\ UNCHANGED locks
        /\ OthersTyped
        /\ proc[f].at \in {"admit", "create", "fill"} \cup Unnaming
    <3>1. UNCHANGED <<launch, locks, weflow>> /\ (Failure \/ UNCHANGED budget)
          /\ proc[f].at \in {"admit", "create", "fill"} \cup Unnaming
      BY <1>2 DEF Scheduling, Admit, CreateLock, FillLock, Trust, Record, SpawnFails, NameInStatus,
           NameInLock, NamingFails, files, Unnaming
    <3>2. requests' \in 0..MaxRequests /\ failures' \in 0..MaxFailures
      BY <3>1, FailureTyped
    <3>3. status' \in StatusRecord
      <4>1. NoStatus \in StatusRecord
        BY DEF NoStatus, StatusRecord
      <4>2. /\ [NoStatus EXCEPT !.st = "scheduled"] \in StatusRecord
            /\ [NoStatus EXCEPT !.st = "error"] \in StatusRecord
        BY <4>1 DEF StatusRecord, Nonterminal, Terminal
      <4>3. /\ [st |-> "scheduled", pid |-> proc[f].kinPid, start |-> proc[f].kin] \in StatusRecord
            /\ [st |-> "error", pid |-> proc[f].kinPid, start |-> 0] \in StatusRecord
        BY DEF StatusRecord, ProcessRecord, Nonterminal, Terminal
      <4> QED
        BY <1>2, <4>1, <4>2, <4>3 DEF Scheduling, Admit, CreateLock, FillLock, Trust, Record,
             SpawnFails, NameInStatus, NameInLock, NamingFails, files
    <3> QED
      BY <3>1, <3>2, <3>3 DEF OthersTyped
  <2>2. lock.pid = 0 /\ proc[f].at \in Holding
    BY <2>1, NoLockTyped DEF IInv, LockFollows, FollowsAt
  <2>3. \A h \in Procs : proc[h].at \in Working => ~Owned(h)
    BY <2>2, NobodyWorks
  <2>4. ASSUME NEW step \in Steps, At(f, step), step \in Holding, FollowsAt(step, lock'),
               lock' \in LockRecord
        PROVE  IInv'
    <3> DEFINE R == [proc[f] EXCEPT !.at = step]
    <3>1. R \in ProcessRecord /\ R.pid = proc[f].pid /\ R.at = step
      BY AtTyped
    <3>2. proc' = [proc EXCEPT ![f] = R]
      BY <2>4 DEF At
    <3> HIDE DEF R
    <3> QED
      BY <2>1, <2>2, <2>3, <2>4, <3>1, <3>2, HolderKeeps
  <2>5. ASSUME Answers(f), lock' \in LockRecord
        PROVE  IInv'
    <3>1. "up" \in Holding /\ FollowsAt("up", lock')
      BY DEF Holding, FrontendUp, FollowsAt, Unnaming
    <3> QED
      BY <2>1, <2>2, <2>3, <2>5, <3>1, AnswersTyped, HolderKeeps
  <2>6. {"create", "fill", "trust", "record", "spawn", "name_lock"} \subseteq Steps \cap Holding
    BY DEF Steps, Holding, FrontendUp
  <2>7. ASSUME Admit(f) PROVE IInv'
    <3>1. lock' = lock /\ FollowsAt("create", lock)
      BY <2>7 DEF Admit, files, IInv, LockFollows, FollowsAt, Unnaming
    <3> QED
      BY <2>4, <2>5, <2>6, <2>7, <3>1 DEF Admit
  <2>8. ASSUME CreateLock(f) PROVE IInv'
    <3>1. FollowsAt("fill", lock')
      BY <2>8 DEF CreateLock, FollowsAt, Unnaming
    <3> QED
      BY <2>4, <2>6, <2>8, <3>1, NoLockTyped DEF CreateLock
  <2>9. ASSUME FillLock(f) PROVE IInv'
    <3>1. lock' \in LockRecord /\ lock'.pid = 0
      <4>1. proc[f].token \in 0..MaxRequests
        BY DEF ProcessRecord
      <4> QED
        BY <2>9, <4>1, NoLockTyped DEF FillLock, LockRecord
    <3>2. FollowsAt("trust", lock')
      BY <3>1 DEF FollowsAt
    <3> QED
      BY <2>4, <2>6, <2>9, <3>1, <3>2 DEF FillLock
  <2>10. ASSUME Trust(f) PROVE IInv'
    <3>1. FollowsAt("record", lock)
      BY <2>2 DEF FollowsAt
    <3> QED
      BY <2>4, <2>5, <2>6, <2>10, <3>1, NoLockTyped DEF Trust
  <2>11. ASSUME Record(f) PROVE IInv'
    <3>1. FollowsAt("spawn", lock)
      BY <2>2 DEF FollowsAt
    <3> QED
      BY <2>4, <2>5, <2>6, <2>11, <3>1 DEF Record
  <2>12. ASSUME SpawnFails(f) PROVE IInv'
    BY <2>5, <2>12, NoLockTyped DEF SpawnFails
  <2>13. ASSUME NameInStatus(f) PROVE IInv'
    <3>1. FollowsAt("name_lock", lock)
      BY <2>2 DEF FollowsAt
    <3> QED
      BY <2>4, <2>6, <2>13, <3>1 DEF NameInStatus
  <2>14. ASSUME NameInLock(f) PROVE IInv'
    <3>1. lock' \in LockRecord
      BY <2>14 DEF NameInLock, LockRecord, ProcessRecord
    <3> QED
      BY <2>5, <2>14, <3>1 DEF NameInLock
  <2>15. ASSUME NamingFails(f) PROVE IInv'
    BY <2>5, <2>15 DEF NamingFails, files
  <2> QED
    BY <1>2, <2>7, <2>8, <2>9, <2>10, <2>11, <2>12, <2>13, <2>14, <2>15 DEF Scheduling
<1> QED
  BY <1>1, <1>2

-----------------------------------------------------------------------------
(* Resetting.                                                              *)

\* A helper that ends or moves on owns the lock before and after.
LEMMA StatusWritten ==
    ASSUME IInv, NEW h \in Procs, NEW st \in {"none"} \cup Nonterminal \cup Terminal, WritesStatus(h, st)
    PROVE  /\ status' \in StatusRecord /\ lock' \in LockRecord /\ SameOwner(lock', lock)
           /\ lock' = lock \/ Owned(h)
<1>1. proc[h] \in ProcessRecord /\ lock \in LockRecord
  BY Typed
<1>2. status' \in StatusRecord
  BY <1>1 DEF WritesStatus, StatusRecord, ProcessRecord
<1>3. /\ [lock EXCEPT !.age = "young"] \in LockRecord
      /\ SameOwner([lock EXCEPT !.age = "young"], lock)
  BY <1>1 DEF LockRecord, SameOwner
<1> QED
  BY <1>1, <1>2, <1>3 DEF WritesStatus, SameOwner

\* StepKeeps for a helper.
LEMMA HelperKeeps ==
    ASSUME IInv, OthersTyped, NEW h \in Procs, NEW step \in Working, At(h, step),
           proc[h].at \notin Dead \cup Holding, proc[h].at \in Working \/ Owned(h),
           instance' = instance, lifecycle' \in {0, h, lifecycle},
           lock' \in LockRecord, SameOwner(lock', lock), lock' = lock \/ Owned(h)
    PROVE  IInv'
<1> DEFINE R == [proc[h] EXCEPT !.at = step]
<1>1. step \in Steps /\ step \notin Dead \cup Holding
  BY StepsDiffer
<1>2. R \in ProcessRecord /\ R.pid = proc[h].pid /\ R.at = step /\ R.token = proc[h].token
  BY <1>1, AtTyped
<1>3. proc' = [proc EXCEPT ![h] = R]
  BY DEF At
<1>4. FollowsAt(step, lock')
  BY <1>1, StepsDiffer DEF FollowsAt
<1>5. Owned(h) /\ lock.pid # 0
  BY Zero DEF IInv, WorkingOwnsLock, Owned, PidsDiffer
<1> HIDE DEF R
<1> QED
  BY <1>1, <1>2, <1>3, <1>4, <1>5, StepKeeps DEF Owned, SameOwner

\* The parent dies, the helper goes on.
LEMMA TerminateKeeps ==
    ASSUME IInv, NEW h \in Procs, TerminateParent(h)
    PROVE  IInv'
<1> USE Typed, StepsDiffer, Zero
<1>1. PICK step \in {"stop_browser", "leave_failed"} :
         proc' = IF Target(h) = 0 THEN [proc EXCEPT ![h].at = step]
                 ELSE [[proc EXCEPT ![h].at = step] EXCEPT ![Target(h)] = Gone]
  BY DEF TerminateParent
<1> DEFINE t == Target(h)
           R == [proc[h] EXCEPT !.at = step]
<1>2. /\ proc[h].at = "terminate" /\ UNCHANGED <<lock, status, launch, weflow>>
      /\ instance' = IF t # 0 /\ instance = t THEN 0 ELSE instance
      /\ lifecycle' = IF t # 0 /\ lifecycle = t THEN 0 ELSE lifecycle
      /\ requests' \in 0..MaxRequests /\ failures' \in 0..MaxFailures
  BY FailureTyped DEF TerminateParent, files
<1>3. t \in Procs \cup {0}
  BY DEF Target, ProcessRecord
<1>4. step \in Working /\ step \in Steps /\ "terminate" \in Working
  BY DEF Working, Steps
<1>5. R \in ProcessRecord /\ R.pid = proc[h].pid /\ R.at = step /\ R.token = proc[h].token
  BY <1>4, AtTyped
<1>6. Gone \in ProcessRecord /\ Gone.pid = 0 /\ Gone.at = "gone" /\ Gone.at \in Dead
  BY GoneTyped DEF Gone, Unborn, Dead
<1>7. /\ proc' \in [Procs -> ProcessRecord]
      /\ \A r \in Procs : proc'[r] = IF r = t THEN Gone ELSE IF r = h THEN R ELSE proc[r]
  BY <1>1, <1>3, <1>5, <1>6 DEF IInv, TypeOK
<1> HIDE DEF t, R
<1>8. TypeOK'
  <2>1. (instance # 0 => Alive(instance))' /\ (lifecycle # 0 => Alive(lifecycle))'
    BY <1>2, <1>4, <1>5, <1>7 DEF IInv, TypeOK, Alive, Dead
  <2> QED
    BY <1>2, <1>7, <2>1 DEF IInv, TypeOK
<1>9. PidsDiffer'
  <2>1. \A r \in Procs : proc'[r].pid \in {0, proc[r].pid}
    BY <1>5, <1>6, <1>7
  <2>2. \A r \in Procs : (proc[r].pid = 0 <=> proc[r].at \in Dead)'
    BY <1>2, <1>4, <1>5, <1>6, <1>7 DEF IInv, PidsDiffer
  <2> QED
    BY <2>1, <2>2 DEF IInv, PidsDiffer
<1>10. OneFrontend'
  BY <1>2, <1>4, <1>5, <1>6, <1>7 DEF IInv, OneFrontend
<1>11. LockFollows'
  BY <1>2, <1>4, <1>5, <1>6, <1>7 DEF IInv, LockFollows, FollowsAt
<1>12. WorkingOwnsLock'
  BY <1>2, <1>4, <1>5, <1>6, <1>7 DEF IInv, WorkingOwnsLock, Owned
<1> QED
  BY <1>8, <1>9, <1>10, <1>11, <1>12 DEF IInv

LEMMA ResettingKeeps ==
    ASSUME IInv, NEW h \in Procs, Resetting(h)
    PROVE  IInv'
<1> USE Typed, StepsDiffer
<1>1. ASSUME Preflight(h) PROVE IInv'
  <2>1. PICK step \in {"delay", "delay_unverified"} : At(h, step)
    BY <1>1 DEF Preflight
  <2>2. proc[h].at = "preflight" /\ OthersTyped /\ UNCHANGED <<lock, instance, lifecycle>>
    BY <1>1, FailureTyped DEF Preflight, OthersTyped, files, locks
  <2>3. /\ step \in Steps /\ step \notin Dead \cup Holding \cup Working /\ FollowsAt(step, lock)
        /\ proc[h].at \notin Dead
    BY <2>1, <2>2 DEF Steps, Dead, Holding, FrontendUp, Working, FollowsAt, Unnaming
  <2> DEFINE R == [proc[h] EXCEPT !.at = step]
  <2>4. R \in ProcessRecord /\ R.pid = proc[h].pid /\ R.at = step /\ R.token = proc[h].token
    BY <2>3, AtTyped
  <2>5. proc' = [proc EXCEPT ![h] = R]
    BY <2>1 DEF At
  <2> HIDE DEF R
  <2> QED
    BY <2>2, <2>3, <2>4, <2>5, MoveKeeps
<1>2. ASSUME Authorize(h) PROVE IInv'
  <2>1. /\ proc[h].at \in {"delay", "delay_unverified"} /\ proc[h].at \notin Dead \cup Holding
        /\ OthersTyped
    BY <1>2 DEF Authorize, OthersTyped, budget, Dead, Holding, FrontendUp
  <2>2. CASE Authorized(h)
    <3>1. PICK step \in {"browser", "fail"} : At(h, step)
      BY <1>2, <2>2 DEF Authorize
    <3>2. step \in Working
      BY DEF Working
    <3>3. UNCHANGED <<lock, instance, lifecycle>> /\ Owned(h)
      BY <1>2, <2>2 DEF Authorize, Authorized, locks
    <3> QED
      BY <2>1, <3>1, <3>2, <3>3, HelperKeeps DEF SameOwner
  <2>3. CASE ~Authorized(h)
    BY <1>2, <2>1, <2>3, EndKeeps DEF Authorize
  <2> QED
    BY <2>2, <2>3
<1>3. ASSUME CheckBrowser(h) \/ TakeLifecycleToReset(h) \/ Report(h) \/ FindParent(h) \/ StopBrowser(h)
               \/ StopWeflow(h) \/ Conclude(h) \/ LeaveLifecycle(h) \/ RecordFailure(h)
      PROVE  IInv'
  <2>1. \E step \in Working : At(h, step)
    BY <1>3 DEF Working, CheckBrowser, TakeLifecycleToReset, Report, FindParent, StopBrowser,
         StopWeflow, Conclude, LeaveLifecycle, RecordFailure
  <2>2. proc[h].at \in Working
    BY <1>3 DEF Working, CheckBrowser, TakeLifecycleToReset, Report, FindParent, StopBrowser,
         StopWeflow, Conclude, LeaveLifecycle, RecordFailure
  <2>3. /\ instance' = instance /\ lifecycle' \in {0, h, lifecycle}
        /\ launch' = launch /\ weflow' \in BOOLEAN /\ (Failure \/ UNCHANGED budget)
    BY <1>3 DEF CheckBrowser, TakeLifecycleToReset, Report, FindParent, StopBrowser,
         StopWeflow, Conclude, LeaveLifecycle, RecordFailure, files, locks
  <2>4. \/ UNCHANGED <<status, lock>>
        \/ \E st \in {"none"} \cup Nonterminal \cup Terminal : WritesStatus(h, st)
    <3>1. proc[h].result \in Terminal \cup {"none"}
      BY DEF ProcessRecord
    <3> QED
      BY <1>3, <3>1 DEF CheckBrowser, TakeLifecycleToReset, Report, FindParent, StopBrowser,
         StopWeflow, Conclude, LeaveLifecycle, RecordFailure, files, Nonterminal, Terminal
  <2>5. /\ status' \in StatusRecord /\ lock' \in LockRecord /\ SameOwner(lock', lock)
        /\ lock' = lock \/ Owned(h)
    BY <2>4, StatusWritten DEF SameOwner
  <2>6. OthersTyped
    BY <2>3, <2>5, FailureTyped DEF OthersTyped
  <2> QED
    BY <2>1, <2>2, <2>3, <2>5, <2>6, HelperKeeps
<1>4. ASSUME Clear(h) PROVE IInv'
  <2>1. PICK r \in Terminal : proc' = [proc EXCEPT ![h].at = "conclude", ![h].result = r]
    BY <1>4 DEF Clear
  <2>2. proc[h].at = "clear" /\ OthersTyped /\ UNCHANGED <<lock, instance, lifecycle>>
    BY <1>4 DEF Clear, OthersTyped, files, locks, budget
  <2>3. {"clear", "conclude"} \subseteq Working
    BY DEF Working
  <2> DEFINE R == [proc[h] EXCEPT !.at = "conclude", !.result = r]
  <2>4. R \in ProcessRecord /\ R.pid = proc[h].pid /\ R.at = "conclude" /\ R.token = proc[h].token
    BY <2>3 DEF ProcessRecord
  <2>5. proc' = [proc EXCEPT ![h] = R] /\ FollowsAt("conclude", lock)
    BY <2>1 DEF FollowsAt, Unnaming
  <2> HIDE DEF R
  <2> QED
    BY <2>2, <2>3, <2>4, <2>5, MoveKeeps
<1>5. ASSUME RemoveLock(h) PROVE IInv'
  <2>1. OthersTyped
    BY <1>5 DEF RemoveLock, OthersTyped, budget
  <2>2. Ends(h) /\ proc[h].at \notin Dead
    BY <1>5 DEF RemoveLock, Dead
  <2>3. lock' = lock \/ (Owned(h) /\ lock' = NoLock)
    BY <1>5 DEF RemoveLock
  <2> QED
    BY <2>1, <2>2, <2>3, EndKeeps
<1> QED
  BY <1>1, <1>2, <1>3, <1>4, <1>5, TerminateKeeps DEF Resetting

-----------------------------------------------------------------------------
(* The environment, and the theorems.                                      *)

LEMMA EnvironmentKeeps ==
    ASSUME IInv, NEW q \in Procs,
           Launch(q) \/ Crash(q) \/ OtherStarts(q) \/ OtherEnds(q)
    PROVE  IInv'
<1> USE Typed
<1>1. ASSUME Launch(q) \/ OtherStarts(q) PROVE IInv'
  <2>1. PICK p \in FreePids, kind \in {"frontend", "other"}, step \in {"precheck", "runs"} :
           proc' = [proc EXCEPT ![q] = Process(kind, p, step)]
    BY <1>1 DEF Launch, OtherStarts
  <2>2. proc[q].at = "unborn" /\ OthersTyped /\ UNCHANGED <<lock, instance, lifecycle>>
    BY <1>1 DEF Launch, OtherStarts, IsNext, OthersTyped, files, locks, budget
  <2>3. step \in Steps /\ step \notin Dead \cup Holding \cup Working
    BY DEF Steps, CheckSteps, Dead, Holding, FrontendUp, Working
  <2>4. p \in Pids
    BY NewPid DEF IInv
  <2> DEFINE R == Process(kind, p, step)
  <2>5. R \in ProcessRecord /\ R.pid = p /\ R.at = step
    BY <2>3, <2>4, GoneTyped DEF Process, ProcessRecord
  <2> HIDE DEF R
  <2>6. proc' = [proc EXCEPT ![q] = R]
    BY <2>1 DEF R
  <2> QED
    BY <2>2, <2>3, <2>5, <2>6, BirthKeeps
<1>2. ASSUME Crash(q) \/ OtherEnds(q) PROVE IInv'
  <2>1. Ends(q) /\ proc[q].at \notin Dead /\ lock' = lock
    BY <1>2 DEF Crash, OtherEnds, Alive, Dead, files
  <2>2. OthersTyped
    BY <1>2, FailureTyped DEF Crash, OtherEnds, OthersTyped, files
  <2> QED
    BY <2>1, <2>2, EndKeeps
<1> QED
  BY <1>1, <1>2

LEMMA AgeKeeps == ASSUME IInv, Age PROVE IInv'
<1>1. /\ UNCHANGED <<proc, status, launch, instance, lifecycle, weflow, requests, failures>>
      /\ lock' \in LockRecord /\ SameOwner(lock', lock) /\ lock # NoLock /\ lock # BlankLock
  BY DEF Age, locks, budget, IInv, TypeOK, LockRecord, SameOwner, NoLock, BlankLock
<1> QED
  BY <1>1 DEF IInv, TypeOK, Alive, PidsDiffer, OneFrontend, LockFollows, FollowsAt, WorkingOwnsLock,
     Owned, SameOwner

LEMMA Initially == Init => IInv
<1> SUFFICES ASSUME Init PROVE IInv
  OBVIOUS
<1>1. \A q \in Procs : proc[q].at = "unborn" /\ proc[q].pid = 0
  BY DEF Init, Unborn
<1>2. TypeOK
  <2>1. NoStatus \in StatusRecord
    BY DEF NoStatus, StatusRecord
  <2>2. proc \in [Procs -> ProcessRecord]
    BY GoneTyped DEF Init
  <2>3. requests \in 0..MaxRequests /\ failures \in 0..MaxFailures
    BY BoundsAssumption DEF Init
  <2> QED
    BY <2>1, <2>2, <2>3, NoLockTyped DEF Init, TypeOK
<1>3. "unborn" \notin Working \cup Holding /\ "unborn" \in Dead
  BY DEF Working, Holding, FrontendUp, Dead
<1>4. LockFollows
  BY <1>1 DEF LockFollows, FollowsAt, Unnaming
<1> QED
  BY <1>1, <1>2, <1>3, <1>4 DEF IInv, PidsDiffer, OneFrontend, WorkingOwnsLock

LEMMA NextKeeps == IInv /\ [Next]_vars => IInv'
<1> SUFFICES ASSUME IInv, [Next]_vars PROVE IInv'
  OBVIOUS
<1>1. CASE UNCHANGED vars
  BY <1>1 DEF vars, IInv, TypeOK, Alive, PidsDiffer, OneFrontend, LockFollows, FollowsAt,
     WorkingOwnsLock, Owned
<1>2. CASE Next
  BY <1>2, AgeKeeps, StartingKeeps, LookupKeeps, SchedulingKeeps, ResettingKeeps, EnvironmentKeeps
     DEF Next
<1> QED
  BY <1>1, <1>2

LEMMA Invariance == Spec => []IInv
BY Initially, NextKeeps, PTL DEF Spec

\* Every record of the files and of the processes stays in its range, and a
\* lock is held by a live process, however many processes start and fail.
THEOREM TypeCorrect == Spec => []TypeOK
<1>1. IInv => TypeOK
  BY DEF IInv
<1> QED
  BY <1>1, Invariance, PTL

\* No request takes the lock of an authorized helper away, whatever dies and
\* whoever is given a pid: the helper owns it until it removes it.
THEOREM OwnsReset == Spec => []WorkingOwnsLock
<1>1. IInv => WorkingOwnsLock
  BY DEF IInv
<1> QED
  BY <1>1, Invariance, PTL

\* At most one helper is past its authorization: two resets never run together.
OneReset == \A g, h \in Procs : proc[g].at \in Working /\ proc[h].at \in Working => g = h

THEOREM ResetsExclude == Spec => []OneReset
<1>1. IInv => OneReset
  BY DEF IInv, OneReset, WorkingOwnsLock, Owned
<1> QED
  BY <1>1, Invariance, PTL

\* The steps after a termination are reached by nothing else.
LEMMA OnlyTerminates ==
    ASSUME IInv, Next, NEW h \in Procs, proc[h].at = "terminate",
           proc'[h].at \in {"stop_browser", "leave_failed"}
    PROVE  TerminateParent(h)
<1>0. proc \in [Procs -> ProcessRecord]
  BY DEF IInv, TypeOK
<1>1. PICK q \in Procs : \/ Launch(q) \/ Starting(q) \/ Leave(q)
                         \/ Lookup(q) \/ Scheduling(q) \/ Resetting(q)
                         \/ Crash(q) \/ OtherStarts(q) \/ OtherEnds(q)
  BY DEF Next, Age
<1>2. ~(Launch(q) \/ OtherStarts(q))
  BY <1>0 DEF Launch, OtherStarts, IsNext, Process, Unborn
<1>3. ~(Leave(q) \/ Crash(q) \/ OtherEnds(q))
  BY <1>0 DEF Leave, Crash, OtherEnds, Ends, Gone, Unborn
<1>4. ~Starting(q)
  <2>1. ~CheckLock(q)
    BY <1>0 DEF CheckLock, Ends, Gone, Unborn, CheckSteps
  <2>2. ~CheckStatus(q)
    BY <1>0 DEF CheckStatus, Ends, Gone, Unborn, AfterCheck, CheckSteps
  <2> QED
    BY <1>0, <2>1, <2>2 DEF Starting, TakeInstance, Ends, Gone, Unborn, TakeLifecycleToStart,
         StartWeflow, WriteLaunch, At
<1>5. ~Lookup(q)
  BY <1>0 DEF Lookup
<1>6. ~Scheduling(q)
  <2>1. ~Spawn(q)
    BY <1>0 DEF Spawn, IsNext, Process, Unborn
  <2> QED
    BY <1>0, <2>1 DEF Scheduling, Admit, CreateLock, FillLock, Trust, Record, SpawnFails,
         NameInStatus, NameInLock, NamingFails, At, Answers
<1>7. Resetting(q)
  BY <1>1, <1>2, <1>3, <1>4, <1>5, <1>6
<1>8. ~(Authorize(q) \/ RemoveLock(q) \/ Clear(q))
  BY <1>0 DEF Authorize, RemoveLock, Clear, At, Ends, Gone, Unborn
<1>9. ~(\/ Preflight(q) \/ CheckBrowser(q) \/ TakeLifecycleToReset(q) \/ Report(q) \/ FindParent(q)
        \/ StopBrowser(q) \/ StopWeflow(q) \/ Conclude(q) \/ LeaveLifecycle(q) \/ RecordFailure(q))
  BY <1>0 DEF Preflight, CheckBrowser, TakeLifecycleToReset, Report, FindParent, StopBrowser,
     StopWeflow, Conclude, LeaveLifecycle, RecordFailure, At
<1>10. TerminateParent(q)
  BY <1>7, <1>8, <1>9 DEF Resetting
<1>11. q = h
  <2> SUFFICES ASSUME q # h PROVE FALSE
    OBVIOUS
  <2>1. proc'[h] \in {proc[h], Gone}
    BY <1>0, <1>10 DEF TerminateParent
  <2> QED
    BY <2>1 DEF Gone, Unborn
<1> QED
  BY <1>10, <1>11

\* A termination hits the helper's parent or nobody: between the look at the
\* parent and the kill its pid may have gone to any process.
THEOREM KillsParent == Spec => KillsOnlyParent
<1>1. ASSUME IInv, Next, NEW h \in Procs, NEW q \in Procs,
             proc[h].at = "terminate", proc'[h].at \in {"stop_browser", "leave_failed"},
             Alive(q), proc'[q].at = "gone"
      PROVE  q = proc[h].kin
  <2>0. proc \in [Procs -> ProcessRecord]
    BY <1>1 DEF IInv, TypeOK
  <2>1. TerminateParent(h)
    BY <1>1, OnlyTerminates
  <2>2. q # h
    BY <1>1
  <2>3. q = Target(h)
    BY <1>1, <2>0, <2>1, <2>2 DEF TerminateParent, Alive
  <2> QED
    BY <2>3, Zero DEF Target
<1>2. IInv /\ [Next]_vars
        => [\A h, q \in Procs :
              /\ proc[h].at = "terminate" /\ proc'[h].at \in {"stop_browser", "leave_failed"}
              /\ Alive(q) /\ proc'[q].at = "gone"
              => q = proc[h].kin]_vars
  BY <1>1
<1> QED
  BY <1>2, Invariance, PTL DEF Spec, KillsOnlyParent

-----------------------------------------------------------------------------
(***************************************************************************)
(* The second layer: what the owner of the lock may rely on.  Its parent   *)
(* is the sidebar that spawned it until that one ends; every other sidebar *)
(* is turned away at the check that precedes the start of WeFlow, because  *)
(* the lock in use is what the check finds; past the termination the       *)
(* parent has ended, so nobody is left who could start WeFlow; and the     *)
(* files name helpers only, which all end.                                 *)
(***************************************************************************)

\* A helper's steps and a sidebar's.
HelperSteps == Working \cup {"preflight", "delay", "delay_unverified"}
FrontendSteps == CheckSteps \cup FrontendUp \cup {"instance", "lifecycle_start", "start_weflow",
                                                  "write_launch"}
\* Steps at which the parent's end has been verified.
Concluding == {"stop_browser", "stop_weflow", "clear", "conclude"}

\* What the step says of the process.
KindAt(step) == CASE step \in Dead -> "none"
                  [] step = "runs" -> "other"
                  [] step \in HelperSteps -> "helper"
                  [] step \in FrontendSteps -> "frontend"
LocalInv == \A q \in Procs : /\ proc[q].kind = KindAt(proc[q].at)
                             /\ proc[q].seen => proc[q].at \in CheckSteps

\* A helper's parent is the sidebar that spawned it, until it ends.
KinInv == \A h \in Procs : proc[h].at \in HelperSteps =>
    /\ proc[h].kin \in Procs
    /\ \/ proc[proc[h].kin].at = "gone"
       \/ proc[proc[h].kin].at \in FrontendUp /\ proc[proc[h].kin].pid = proc[h].kinPid

\* A sidebar that has not passed the check that precedes the start of WeFlow.
Early(p) == \/ p.at \in {"precheck", "instance", "lifecycle_start"}
            \/ p.at = "check_first" /\ ~p.seen

\* While a helper works, no sidebar but its parent gets past that check.
QuietInv == \A h, f \in Procs :
    proc[h].at \in Working /\ proc[f].at \in FrontendSteps /\ f # proc[h].kin => Early(proc[f])

ParentEnded == \A h \in Procs : proc[h].at \in Concluding => proc[proc[h].kin].at = "gone"
WeflowEnded == \A h \in Procs : proc[h].at = "clear" => ~weflow

\* The files, and a sidebar about to write them, name helpers.
IsHelper(h) == h \in Procs /\ proc[h].at \in HelperSteps \cup {"gone"}
NamesInv ==
    /\ lock.start # 0 => IsHelper(lock.start)
    /\ status.start # 0 => IsHelper(status.start)
    /\ \A f \in Procs : proc[f].at \in {"name_status", "name_lock"} =>
          IsHelper(proc[f].kin)
    /\ lock.age = "blank" => lock = BlankLock

Layer == LocalInv /\ KinInv /\ QuietInv /\ ParentEnded /\ WeflowEnded /\ NamesInv

-----------------------------------------------------------------------------
LEMMA KindsDiffer ==
    /\ \A s \in Dead : KindAt(s) = "none"
    /\ \A s \in HelperSteps : KindAt(s) = "helper"
    /\ \A s \in FrontendSteps : KindAt(s) = "frontend"
    /\ KindAt("runs") = "other"
    /\ HelperSteps \cap (FrontendSteps \cup Dead \cup {"runs"}) = {}
    /\ FrontendSteps \cap (Dead \cup {"runs"}) = {} /\ "runs" \notin Dead
    /\ Steps = Dead \cup HelperSteps \cup FrontendSteps \cup {"runs"}
<1> USE DEF Dead, HelperSteps, FrontendSteps, Working, CheckSteps, FrontendUp
<1>1. /\ HelperSteps \cap (FrontendSteps \cup Dead \cup {"runs"}) = {}
      /\ FrontendSteps \cap (Dead \cup {"runs"}) = {} /\ "runs" \notin Dead
  OBVIOUS
<1>2. Steps = Dead \cup HelperSteps \cup FrontendSteps \cup {"runs"}
  BY DEF Steps
<1>3. /\ \A s \in Dead : KindAt(s) = "none"
      /\ \A s \in HelperSteps : KindAt(s) = "helper"
      /\ \A s \in FrontendSteps : KindAt(s) = "frontend"
      /\ KindAt("runs") = "other"
  BY DEF KindAt
<1> QED
  BY <1>1, <1>2, <1>3

LEMMA StepSets ==
    /\ Working \subseteq HelperSteps /\ Concluding \subseteq Working /\ "clear" \in Concluding
    /\ FrontendUp \subseteq FrontendSteps /\ CheckSteps \subseteq FrontendSteps
    /\ {"name_status", "name_lock"} \subseteq FrontendUp
    /\ FrontendSteps \cap Concluding = {}
    /\ {"gone", "unborn"} = Dead
    /\ FrontendSteps \subseteq Holding \cup {"precheck", "instance"}
    /\ FrontendUp \subseteq Holding /\ FrontendUp \cap {"precheck", "instance", "check_first", "lifecycle_start"} = {}
BY DEF HelperSteps, FrontendSteps, Working, CheckSteps, FrontendUp, Concluding, Dead, Holding

\* The files name helpers only.
FilesName(l, s) ==
    /\ l.start # 0 => IsHelper(l.start)
    /\ s.start # 0 => IsHelper(s.start)
    /\ l.age = "blank" => l = BlankLock

\* A live helper's lock shows a reset under way.
LEMMA LockShows ==
    ASSUME IInv, NEW h \in Procs, proc[h].at \in Working
    PROVE  LockBusy /\ lock # NoLock /\ lock.pid # 0 /\ Owner(lock.pid) = h /\ lock.start = h
<1>1. proc[h].pid # 0 /\ lock.pid = proc[h].pid /\ lock.start = h
  BY StepsDiffer DEF IInv, PidsDiffer, WorkingOwnsLock, Owned
<1>2. Owner(lock.pid) = h
  BY <1>1, OwnerIs DEF IInv
<1> QED
  BY <1>1, <1>2, Zero, NoLockTyped DEF LockBusy

LEMMA FrontendMoves ==
    ASSUME IInv, Layer, NEW f \in Procs, NEW R \in ProcessRecord, proc' = [proc EXCEPT ![f] = R],
           proc[f].at \in FrontendSteps, R.at \in FrontendSteps,
           R.kind = "frontend", R.pid = proc[f].pid,
           proc[f].at \in FrontendUp => R.at \in FrontendUp,
           R.seen => R.at \in CheckSteps,
           LockBusy /\ Early(proc[f]) => Early(R),
           weflow' = weflow \/ proc[f].at = "start_weflow",
           R.at \in {"name_status", "name_lock"} => IsHelper(R.kin),
           FilesName(lock', status')
    PROVE  Layer'
<1> USE KindsDiffer, StepSets
<1>1. proc'[f] = R /\ \A r \in Procs : r # f => proc'[r] = proc[r]
  BY DEF IInv, TypeOK
<1>2. \A h \in Procs : proc'[h].at \in HelperSteps => proc'[h] = proc[h]
  BY <1>1
<1>3. LocalInv'
  BY <1>1 DEF Layer, LocalInv
<1>4. KinInv'
  <2> SUFFICES ASSUME NEW h \in Procs, proc'[h].at \in HelperSteps
               PROVE  /\ proc'[h].kin \in Procs
                      /\ \/ proc'[proc'[h].kin].at = "gone"
                         \/ /\ proc'[proc'[h].kin].at \in FrontendUp
                            /\ proc'[proc'[h].kin].pid = proc'[h].kinPid
    BY DEF KinInv
  <2>1. /\ proc'[h] = proc[h] /\ proc[h].kin \in Procs
        /\ \/ proc[proc[h].kin].at = "gone"
           \/ proc[proc[h].kin].at \in FrontendUp /\ proc[proc[h].kin].pid = proc[h].kinPid
    BY <1>2 DEF Layer, KinInv
  <2> QED
    BY <1>1, <2>1
<1>5. QuietInv'
  <2> SUFFICES ASSUME NEW h \in Procs, NEW g \in Procs, proc'[h].at \in Working,
                      proc'[g].at \in FrontendSteps, g # proc'[h].kin
               PROVE  Early(proc'[g])
    BY DEF QuietInv, Early
  <2>1. proc'[h] = proc[h]
    BY <1>2
  <2>2. CASE g # f
    BY <1>1, <2>1, <2>2 DEF Layer, QuietInv
  <2>3. CASE g = f
    <3>1. Early(proc[f])
      BY <2>1, <2>3 DEF Layer, QuietInv
    <3>2. LockBusy
      BY <2>1, LockShows
    <3> QED
      BY <1>1, <2>3, <3>1, <3>2
  <2> QED
    BY <2>2, <2>3
<1>6. ParentEnded'
  <2> SUFFICES ASSUME NEW h \in Procs, proc'[h].at \in Concluding
               PROVE  proc'[proc'[h].kin].at = "gone"
    BY DEF ParentEnded
  <2>1. proc'[h] = proc[h] /\ proc[h].kin \in Procs /\ proc[proc[h].kin].at = "gone"
    BY <1>2 DEF Layer, ParentEnded, KinInv
  <2> QED
    BY <1>1, <2>1
<1>7. WeflowEnded'
  <2> SUFFICES ASSUME NEW h \in Procs, proc'[h].at = "clear" PROVE ~weflow'
    BY DEF WeflowEnded
  <2>1. proc'[h] = proc[h] /\ ~weflow /\ proc[proc[h].kin].at = "gone"
    BY <1>2 DEF Layer, ParentEnded, WeflowEnded
  <2>2. proc[f].at # "start_weflow"
    <3>1. f # proc[h].kin
      BY <2>1
    <3>2. Early(proc[f])
      BY <2>1, <3>1 DEF Layer, QuietInv
    <3> QED
      BY <3>2 DEF Early
  <2> QED
    BY <2>1, <2>2
<1>8. NamesInv'
  <2>1. \A h \in Procs : IsHelper(h) => h # f /\ proc'[h] = proc[h]
    BY <1>1 DEF IsHelper
  <2>2. /\ lock'.start # 0 => IsHelper(lock.start)'
        /\ status'.start # 0 => IsHelper(status.start)'
        /\ lock'.age = "blank" => lock' = BlankLock
    BY <2>1 DEF FilesName, IsHelper
  <2>3. \A g \in Procs : proc'[g].at \in {"name_status", "name_lock"} => IsHelper(proc[g].kin)'
    <3> SUFFICES ASSUME NEW g \in Procs, proc'[g].at \in {"name_status", "name_lock"}
                 PROVE  IsHelper(proc'[g].kin)
      BY <2>1 DEF IsHelper
    <3>1. CASE g = f
      BY <1>1, <3>1
    <3>2. CASE g # f
      BY <1>1, <3>2 DEF Layer, NamesInv
    <3> QED
      BY <3>1, <3>2
  <2> QED
    BY <2>2, <2>3, NoLockTyped DEF NamesInv, BlankLock, NoLock
<1> QED
  BY <1>3, <1>4, <1>5, <1>6, <1>7, <1>8 DEF Layer

\* Nothing moves but a lock's time stamp.
LEMMA Still ==
    ASSUME Layer, proc' = proc, weflow' = weflow, FilesName(lock', status')
    PROVE  Layer'
BY DEF Layer, LocalInv, KinInv, QuietInv, Early, ParentEnded, WeflowEnded, NamesInv, IsHelper, FilesName

\* A process ends.
LEMMA Ended ==
    ASSUME IInv, Layer, NEW q \in Procs, proc[q].at \notin Dead, proc' = [proc EXCEPT ![q] = Gone],
           weflow' = weflow, status' = status, lock' \in {lock, NoLock}
    PROVE  Layer'
<1> USE KindsDiffer, StepSets
<1>0. Gone.at = "gone" /\ Gone.kind = "none" /\ Gone.seen = FALSE
  BY DEF Gone, Unborn
<1>1. proc'[q] = Gone /\ \A r \in Procs : r # q => proc'[r] = proc[r]
  BY DEF IInv, TypeOK
<1>2. \A r \in Procs : proc'[r].at \notin Dead => proc'[r] = proc[r]
  BY <1>0, <1>1
<1>3. LocalInv'
  BY <1>0, <1>1 DEF Layer, LocalInv
<1>4. KinInv'
  BY <1>0, <1>1, <1>2 DEF Layer, KinInv
<1>5. QuietInv'
  BY <1>2 DEF Layer, QuietInv, Early
<1>6. ParentEnded'
  BY <1>0, <1>1, <1>2 DEF Layer, ParentEnded, KinInv
<1>7. WeflowEnded'
  BY <1>2 DEF Layer, WeflowEnded
<1>8. NamesInv'
  <2>1. \A h : IsHelper(h) => IsHelper(h)'
    BY <1>0, <1>1 DEF IsHelper
  <2>2. NoLock.start = 0 /\ NoLock.age # "blank"
    BY DEF NoLock
  <2>3. /\ lock'.start # 0 => IsHelper(lock'.start)
        /\ status'.start # 0 => IsHelper(status'.start)
        /\ lock'.age = "blank" => lock' = BlankLock
    BY <2>2 DEF Layer, NamesInv
  <2>4. \A g \in Procs : proc'[g].at \in {"name_status", "name_lock"} => IsHelper(proc'[g].kin)
    BY <1>2 DEF Layer, NamesInv
  <2>5. \A h : IsHelper(h) => h \in Procs /\ proc'[h].at \in HelperSteps \cup {"gone"}
    BY <2>1 DEF IsHelper
  <2> QED
    BY <2>3, <2>4, <2>5, NoLockTyped DEF NamesInv, BlankLock, NoLock, IsHelper
<1> QED
  BY <1>3, <1>4, <1>5, <1>6, <1>7, <1>8 DEF Layer

\* A sidebar or a process of another application starts.
LEMMA Born ==
    ASSUME IInv, Layer, NEW q \in Procs, proc[q].at = "unborn", NEW R \in ProcessRecord,
           proc' = [proc EXCEPT ![q] = R], R.at \in {"precheck", "runs"},
           R.kind = KindAt(R.at), R.seen = FALSE,
           UNCHANGED <<weflow, status, lock>>
    PROVE  Layer'
<1> USE KindsDiffer, StepSets
<1>0. "precheck" \in FrontendSteps
  BY DEF FrontendSteps, CheckSteps
<1>1. proc'[q] = R /\ \A r \in Procs : r # q => proc'[r] = proc[r]
  BY DEF IInv, TypeOK
<1>2. \A h \in Procs : proc'[h].at \in HelperSteps => h # q /\ proc'[h] = proc[h]
  BY <1>0, <1>1
<1>3. LocalInv'
  BY <1>1 DEF Layer, LocalInv
<1>4. KinInv'
  <2> SUFFICES ASSUME NEW h \in Procs, proc'[h].at \in HelperSteps
               PROVE  /\ proc'[h].kin \in Procs
                      /\ \/ proc'[proc'[h].kin].at = "gone"
                         \/ /\ proc'[proc'[h].kin].at \in FrontendUp
                            /\ proc'[proc'[h].kin].pid = proc'[h].kinPid
    BY DEF KinInv
  <2>1. /\ proc'[h] = proc[h] /\ proc[h].kin \in Procs
        /\ \/ proc[proc[h].kin].at = "gone"
           \/ proc[proc[h].kin].at \in FrontendUp /\ proc[proc[h].kin].pid = proc[h].kinPid
    BY <1>2 DEF Layer, KinInv
  <2>2. proc[h].kin # q
    BY <2>1
  <2> QED
    BY <1>1, <2>1, <2>2
<1>5. QuietInv'
  <2> SUFFICES ASSUME NEW h \in Procs, NEW g \in Procs, proc'[h].at \in Working,
                      proc'[g].at \in FrontendSteps, g # proc'[h].kin
               PROVE  Early(proc'[g])
    BY DEF QuietInv, Early
  <2>1. proc'[h] = proc[h]
    BY <1>2
  <2> QED
    BY <1>1, <2>1 DEF Layer, QuietInv, Early
<1>6. ParentEnded'
  <2> SUFFICES ASSUME NEW h \in Procs, proc'[h].at \in Concluding
               PROVE  proc'[proc'[h].kin].at = "gone"
    BY DEF ParentEnded
  <2>1. proc'[h] = proc[h] /\ proc[h].kin \in Procs /\ proc[proc[h].kin].at = "gone"
    BY <1>2 DEF Layer, ParentEnded, KinInv
  <2> QED
    BY <1>1, <2>1
<1>7. WeflowEnded'
  BY <1>2 DEF Layer, WeflowEnded
<1>8. NamesInv'
  <2>1. \A h : IsHelper(h) => h \in Procs /\ proc'[h].at \in HelperSteps \cup {"gone"}
    BY <1>1 DEF IsHelper
  <2>2. \A g \in Procs : proc'[g].at \in {"name_status", "name_lock"} => IsHelper(proc'[g].kin)
    BY <1>1 DEF Layer, NamesInv
  <2> QED
    BY <2>1, <2>2, NoLockTyped DEF Layer, NamesInv, BlankLock, NoLock, IsHelper
<1> QED
  BY <1>3, <1>4, <1>5, <1>6, <1>7, <1>8 DEF Layer

\* A helper's step.
LEMMA HelperMoves ==
    ASSUME IInv, Layer, NEW q \in Procs, NEW R \in ProcessRecord, proc' = [proc EXCEPT ![q] = R],
           proc[q].at \in HelperSteps, R.at \in HelperSteps,
           R.kind = "helper", R.seen = proc[q].seen, R.kin = proc[q].kin, R.kinPid = proc[q].kinPid,
           R.at \in Working => proc[q].at \in Working \/ Authorized(q),
           R.at \in Concluding => proc[q].at \in Concluding \/ proc[proc[q].kin].at = "gone",
           R.at = "clear" => ~weflow', weflow' \in {weflow, FALSE},
           FilesName(lock', status')
    PROVE  Layer'
<1> USE KindsDiffer, StepSets
<1>1. proc'[q] = R /\ \A r \in Procs : r # q => proc'[r] = proc[r]
  BY DEF IInv, TypeOK
<1>2. \A f \in Procs : (proc'[f].at \in FrontendSteps \/ proc[f].at \in FrontendSteps \cup Dead)
                         => f # q /\ proc'[f] = proc[f]
  BY <1>1
<1>3. \A h \in Procs : proc'[h].at \in HelperSteps
                         => /\ proc[h].at \in HelperSteps
                            /\ proc'[h].kin = proc[h].kin /\ proc'[h].kinPid = proc[h].kinPid
  BY <1>1
<1>4. LocalInv'
  BY <1>1 DEF Layer, LocalInv
<1>5. KinInv'
  BY <1>2, <1>3 DEF Layer, KinInv
<1>6. QuietInv'
  <2> SUFFICES ASSUME NEW h \in Procs, NEW g \in Procs, proc'[h].at \in Working,
                      proc'[g].at \in FrontendSteps, g # proc'[h].kin
               PROVE  Early(proc'[g])
    BY DEF QuietInv, Early
  <2>1. proc'[g] = proc[g] /\ g # proc[h].kin
    BY <1>2, <1>3
  <2>2. CASE proc[h].at \in Working
    BY <2>1, <2>2 DEF Layer, QuietInv
  <2>3. CASE proc[h].at \notin Working
    <3>1. h = q /\ ParentAlive(q)
      BY <1>1, <2>3 DEF Authorized
    <3>2. proc[h].kin \in Procs /\ proc[proc[h].kin].at \in FrontendUp
      <4>1. proc[h].kin \in Procs
        BY <1>3 DEF Layer, KinInv
      <4>2. proc[proc[h].kin].pid # 0
        BY <3>1, <4>1, Zero DEF ParentAlive, Owner
      <4> QED
        BY <1>3, <4>1, <4>2, StepsDiffer DEF Layer, KinInv, IInv, PidsDiffer
    <3>3. instance = proc[h].kin
      BY <3>2 DEF IInv, OneFrontend
    <3>4. proc[g].at \notin Holding
      BY <2>1, <3>3 DEF IInv, OneFrontend
    <3> QED
      BY <2>1, <3>4 DEF Early
  <2> QED
    BY <2>2, <2>3
<1>7. ParentEnded'
  <2> SUFFICES ASSUME NEW h \in Procs, proc'[h].at \in Concluding
               PROVE  proc'[proc'[h].kin].at = "gone"
    BY DEF ParentEnded
  <2>1. proc'[h].kin = proc[h].kin /\ proc[h].kin \in Procs
    BY <1>3 DEF Layer, KinInv
  <2>2. proc[proc[h].kin].at = "gone"
    BY <1>1 DEF Layer, ParentEnded
  <2> QED
    BY <1>2, <2>1, <2>2
<1>8. WeflowEnded'
  BY <1>1 DEF Layer, WeflowEnded
<1>9. NamesInv'
  <2>1. \A h : IsHelper(h) => h \in Procs /\ proc'[h].at \in HelperSteps \cup {"gone"}
    BY <1>1 DEF IsHelper
  <2>2. \A g \in Procs : proc'[g].at \in {"name_status", "name_lock"} => IsHelper(proc'[g].kin)
    BY <1>1, <1>2 DEF Layer, NamesInv
  <2> QED
    BY <2>1, <2>2, NoLockTyped DEF FilesName, NamesInv, BlankLock, NoLock, IsHelper
<1> QED
  BY <1>4, <1>5, <1>6, <1>7, <1>8, <1>9 DEF Layer

LEMMA AtFields ==
    ASSUME IInv, NEW q \in Procs, NEW step \in Steps
    PROVE  /\ [proc[q] EXCEPT !.at = step] \in ProcessRecord
           /\ [proc[q] EXCEPT !.at = step].at = step
           /\ [proc[q] EXCEPT !.at = step].pid = proc[q].pid
           /\ [proc[q] EXCEPT !.at = step].kind = proc[q].kind
           /\ [proc[q] EXCEPT !.at = step].seen = proc[q].seen
           /\ [proc[q] EXCEPT !.at = step].kin = proc[q].kin
           /\ [proc[q] EXCEPT !.at = step].kinPid = proc[q].kinPid
<1>1. proc[q] \in ProcessRecord
  BY Typed
<1> QED
  BY <1>1 DEF ProcessRecord

LEMMA FilesNamed == Layer => FilesName(lock, status)
BY DEF Layer, NamesInv, FilesName

\* A sidebar goes on.
LEMMA FrontendGoes ==
    ASSUME IInv, Layer, NEW f \in Procs, NEW step \in FrontendSteps, At(f, step),
           proc[f].at \in FrontendSteps,
           proc[f].at \in FrontendUp => step \in FrontendUp,
           proc[f].seen => step \in CheckSteps,
           LockBusy /\ Early(proc[f]) =>
             \/ step \in {"instance", "lifecycle_start"}
             \/ step = "check_first" /\ ~proc[f].seen,
           weflow' = weflow \/ proc[f].at = "start_weflow",
           step \in {"name_status", "name_lock"} => IsHelper(proc[f].kin),
           FilesName(lock', status')
    PROVE  Layer'
<1> DEFINE R == [proc[f] EXCEPT !.at = step]
<1>1. step \in Steps
  BY KindsDiffer
<1>2. /\ R \in ProcessRecord /\ R.at = step /\ R.pid = proc[f].pid /\ R.kind = proc[f].kind
      /\ R.seen = proc[f].seen /\ R.kin = proc[f].kin
  BY <1>1, AtFields
<1>3. proc' = [proc EXCEPT ![f] = R]
  BY DEF At
<1>4. proc[f].kind = "frontend"
  BY KindsDiffer DEF Layer, LocalInv
<1> HIDE DEF R
<1>5. LockBusy /\ Early(proc[f]) => Early(R)
  BY <1>2 DEF Early
<1> QED
  BY <1>2, <1>3, <1>4, <1>5, FrontendMoves

\* A helper goes on.
LEMMA HelperGoes ==
    ASSUME IInv, Layer, NEW h \in Procs, NEW step \in HelperSteps, At(h, step),
           proc[h].at \in HelperSteps,
           step \in Working => proc[h].at \in Working \/ Authorized(h),
           step \in Concluding => proc[h].at \in Concluding \/ proc[proc[h].kin].at = "gone",
           step = "clear" => ~weflow', weflow' \in {weflow, FALSE},
           FilesName(lock', status')
    PROVE  Layer'
<1> DEFINE R == [proc[h] EXCEPT !.at = step]
<1>1. step \in Steps
  BY KindsDiffer
<1>2. /\ R \in ProcessRecord /\ R.at = step /\ R.kinPid = proc[h].kinPid /\ R.kind = proc[h].kind
      /\ R.seen = proc[h].seen /\ R.kin = proc[h].kin
  BY <1>1, AtFields
<1>3. proc' = [proc EXCEPT ![h] = R]
  BY DEF At
<1>4. proc[h].kind = "helper"
  BY KindsDiffer DEF Layer, LocalInv
<1> HIDE DEF R
<1> QED
  BY <1>2, <1>3, <1>4, HelperMoves

\* A request ends.
LEMMA Answered ==
    ASSUME IInv, Layer, NEW f \in Procs, Answers(f), proc[f].at \in FrontendUp,
           weflow' = weflow, FilesName(lock', status')
    PROVE  Layer'
<1> DEFINE R == [proc[f] EXCEPT !.at = "up", !.kin = 0, !.kinPid = 0, !.token = 0]
<1>1. 0 \in 0..MaxRequests /\ "up" \in Steps /\ "up" \in FrontendUp
  BY BoundsAssumption DEF Steps, FrontendUp
<1>2. /\ R \in ProcessRecord /\ R.at = "up" /\ R.pid = proc[f].pid /\ R.kind = proc[f].kind
      /\ R.seen = proc[f].seen
  BY <1>1, Typed DEF ProcessRecord
<1>3. proc' = [proc EXCEPT ![f] = R]
  BY DEF Answers
<1>4. proc[f].kind = "frontend" /\ ~proc[f].seen
  BY KindsDiffer, StepSets DEF Layer, LocalInv, CheckSteps, FrontendUp
<1>5. ~Early(proc[f])
  BY StepSets DEF Early
<1> HIDE DEF R
<1> QED
  BY <1>1, <1>2, <1>3, <1>4, <1>5, StepSets, FrontendMoves

LEMMA StartingQuiet ==
    ASSUME IInv, Layer, NEW f \in Procs, Starting(f) \/ Leave(f)
    PROVE  Layer'
<1>0. FilesName(lock, status)
  BY FilesNamed
<1>1. ASSUME CheckLock(f) PROVE Layer'
  <2>0. proc[f].at \in CheckSteps /\ proc[f].at \in FrontendSteps /\ proc[f].at \notin Dead
        /\ UNCHANGED <<lock, status, weflow>>
    BY <1>1 DEF CheckLock, files, CheckSteps, FrontendSteps, Dead
  <2>1. CASE LockBusy
    BY <1>1, <2>0, <2>1, Ended DEF CheckLock, Ends
  <2>2. CASE ~LockBusy
    <3> DEFINE S == [proc[f] EXCEPT !.seen = TRUE]
    <3>1. S \in ProcessRecord /\ S.pid = proc[f].pid /\ S.kind = proc[f].kind /\ S.at = proc[f].at
      BY Typed DEF ProcessRecord
    <3>2. proc' = [proc EXCEPT ![f] = S]
      BY <1>1, <2>2 DEF CheckLock
    <3>3. proc[f].kind = "frontend" /\ proc[f].at \notin FrontendUp
      BY <2>0, KindsDiffer DEF Layer, LocalInv, CheckSteps, FrontendUp
    <3>4. proc[f].at \notin {"name_status", "name_lock"}
      BY <3>3 DEF FrontendUp
    <3> HIDE DEF S
    <3> QED
      BY <1>0, <2>0, <2>2, <3>1, <3>2, <3>3, <3>4, FrontendMoves
  <2> QED
    BY <2>1, <2>2
<1>2. ASSUME CheckStatus(f) PROVE Layer'
  <2>0. proc[f].at \in CheckSteps /\ proc[f].at \in FrontendSteps /\ proc[f].at \notin Dead
        /\ UNCHANGED <<lock, status, weflow>> /\ proc[f].seen
    BY <1>2 DEF CheckStatus, files, CheckSteps, FrontendSteps, Dead
  <2>1. CASE StatusBusy
    BY <1>2, <2>0, <2>1, Ended DEF CheckStatus, Ends
  <2>2. CASE ~StatusBusy
    <3> DEFINE S == [proc[f] EXCEPT !.seen = FALSE, !.at = AfterCheck(proc[f].at)]
    <3>0. /\ AfterCheck(proc[f].at) \in {"instance", "start_weflow", "write_launch", "up"}
          /\ AfterCheck(proc[f].at) \in Steps
          /\ AfterCheck(proc[f].at) \in FrontendSteps
          /\ proc[f].at = "precheck" => AfterCheck(proc[f].at) = "instance"
      BY <2>0 DEF AfterCheck, CheckSteps, FrontendSteps, FrontendUp, Steps
    <3>1. S \in ProcessRecord /\ S.pid = proc[f].pid /\ S.kind = proc[f].kind /\ S.seen = FALSE
          /\ S.at = AfterCheck(proc[f].at)
      BY <3>0, Typed DEF ProcessRecord
    <3>2. proc' = [proc EXCEPT ![f] = S]
      BY <1>2, <2>2 DEF CheckStatus
    <3>3. proc[f].kind = "frontend" /\ proc[f].at \notin FrontendUp
      BY <2>0, KindsDiffer DEF Layer, LocalInv, CheckSteps, FrontendUp
    <3> HIDE DEF S
    <3>4. Early(proc[f]) => Early(S)
      BY <2>0, <3>0, <3>1 DEF Early, CheckSteps
    <3> QED
      BY <1>0, <2>0, <3>0, <3>1, <3>2, <3>3, <3>4, FrontendMoves
  <2> QED
    BY <2>1, <2>2
<1>3. ASSUME TakeInstance(f) PROVE Layer'
  <2>0. proc[f].at = "instance" /\ UNCHANGED <<lock, status, weflow>> /\ ~proc[f].seen
        /\ proc[f].at \in FrontendSteps /\ proc[f].at \notin FrontendUp \cup Dead
    BY <1>3 DEF TakeInstance, files, Layer, LocalInv, CheckSteps, FrontendSteps, FrontendUp, Dead
  <2>1. CASE instance = 0
    <3>1. At(f, "lifecycle_start") /\ "lifecycle_start" \in FrontendSteps
      BY <1>3, <2>1 DEF TakeInstance, FrontendSteps
    <3> QED
      BY <1>0, <2>0, <3>1, FrontendGoes
  <2>2. CASE instance # 0
    BY <1>3, <2>0, <2>2, Ended DEF TakeInstance, Ends
  <2> QED
    BY <2>1, <2>2
<1>4. ASSUME TakeLifecycleToStart(f) \/ StartWeflow(f) \/ WriteLaunch(f) PROVE Layer'
  <2>1. PICK step \in {"check_first", "check_again", "check_last"} :
           At(f, step) /\ (proc[f].at = "lifecycle_start" => step = "check_first")
    BY <1>4 DEF TakeLifecycleToStart, StartWeflow, WriteLaunch
  <2>2. proc[f].at \in {"lifecycle_start", "start_weflow", "write_launch"}
    BY <1>4 DEF TakeLifecycleToStart, StartWeflow, WriteLaunch
  <2>3. /\ step \in FrontendSteps /\ step \in CheckSteps
        /\ proc[f].at \in FrontendSteps /\ proc[f].at \notin FrontendUp /\ ~proc[f].seen
    BY <2>1, <2>2 DEF Layer, LocalInv, FrontendSteps, FrontendUp, CheckSteps
  <2>4. /\ UNCHANGED <<lock, status>> /\ (weflow' = weflow \/ proc[f].at = "start_weflow")
    BY <1>4 DEF TakeLifecycleToStart, StartWeflow, WriteLaunch, files
  <2>5. Early(proc[f]) => step = "check_first"
    BY <2>1, <2>2 DEF Early
  <2> QED
    BY <1>0, <2>1, <2>3, <2>4, <2>5, FrontendGoes
<1>5. ASSUME Leave(f) PROVE Layer'
  BY <1>5, Ended DEF Leave, Ends, files, Dead
<1> QED
  BY <1>1, <1>2, <1>3, <1>4, <1>5 DEF Starting

LEMMA LookupQuiet ==
    ASSUME IInv, Layer, NEW f \in Procs, Lookup(f)
    PROVE  Layer'
<1>0. FilesName(lock, status) /\ FilesName(NoLock, status)
  BY FilesNamed DEF FilesName, NoLock
<1>1. UNCHANGED <<status, weflow>> /\ proc[f].at = "up"
  BY DEF Lookup
<1>2. CASE UNCHANGED <<proc, lock>>
  BY <1>0, <1>1, <1>2, Still
<1>3. CASE ~UNCHANGED <<proc, lock>>
  <2> DEFINE R == [proc[f] EXCEPT !.at = "admit", !.token = requests + 1]
  <2>1. proc' = [proc EXCEPT ![f] = R] /\ lock' = NoLock /\ requests + 1 \in 0..MaxRequests
    <3>1. requests < MaxRequests
      BY DEF Lookup
    <3>2. requests + 1 \in 0..MaxRequests
      BY <3>1, Typed, BoundsAssumption
    <3> QED
      BY <1>3, <3>2 DEF Lookup
  <2>2. "admit" \in Steps /\ "admit" \in FrontendUp /\ "up" \in FrontendUp
    BY DEF Steps, FrontendUp
  <2>3. /\ R \in ProcessRecord /\ R.at = "admit" /\ R.pid = proc[f].pid
        /\ R.kind = proc[f].kind /\ R.seen = proc[f].seen
    BY <2>1, <2>2, Typed DEF ProcessRecord
  <2>4. proc[f].kind = "frontend" /\ ~proc[f].seen /\ ~Early(proc[f])
    BY <1>1, <2>2, KindsDiffer, StepSets DEF Layer, LocalInv, CheckSteps, Early
  <2> HIDE DEF R
  <2> QED
    BY <1>0, <1>1, <2>1, <2>2, <2>3, <2>4, StepSets, FrontendMoves
<1> QED
  BY <1>2, <1>3

\* A helper is born with its parent's identity.
LEMMA SpawnQuiet ==
    ASSUME IInv, Layer, NEW f \in Procs, Spawn(f)
    PROVE  Layer'
<1> USE KindsDiffer, StepSets
<1>1. PICK h \in Procs, p \in FreePids :
         /\ proc[h].at = "unborn"
         /\ proc' = [proc EXCEPT
               ![f].at = "name_status", ![f].kin = h, ![f].kinPid = p,
               ![h] = [Process("helper", p, "preflight") EXCEPT
                         !.kin = f, !.kinPid = proc[f].pid, !.token = proc[f].token]]
  BY DEF Spawn, IsNext
<1>2. proc[f].at = "spawn" /\ UNCHANGED <<lock, status, weflow>>
  BY DEF Spawn, files
<1>3. f # h /\ p \in Pids
  BY <1>1, <1>2, NewPid DEF IInv
<1> DEFINE F == [proc[f] EXCEPT !.at = "name_status", !.kin = h, !.kinPid = p]
           H == [Process("helper", p, "preflight") EXCEPT
                         !.kin = f, !.kinPid = proc[f].pid, !.token = proc[f].token]
<1>4. "name_status" \in Steps /\ "preflight" \in Steps /\ "preflight" \in HelperSteps \ Working
      /\ "spawn" \in FrontendUp
  BY DEF Steps, FrontendUp, HelperSteps, Working
<1>5. F.at = "name_status" /\ F.pid = proc[f].pid /\ F.kin = h /\ F.kind = proc[f].kind /\ F.seen = proc[f].seen
      /\ F \in ProcessRecord
  <2>1. proc[f] \in ProcessRecord /\ h \in Procs /\ p \in Pids
    BY <1>1, <1>3, Typed
  <2>2. [proc[f] EXCEPT !.at = "name_status"] \in ProcessRecord
    BY <1>4, <2>1 DEF ProcessRecord
  <2> QED
    BY <1>4, <2>1, <2>2 DEF ProcessRecord
<1>6. H.at = "preflight" /\ H.kind = "helper" /\ H.kin = f /\ H.kinPid = proc[f].pid /\ H.seen = FALSE
      /\ H \in ProcessRecord
  BY <1>3, <1>4, Typed, GoneTyped DEF ProcessRecord, Process, Unborn
<1>7. proc'[f] = F /\ proc'[h] = H /\ \A r \in Procs : r # f /\ r # h => proc'[r] = proc[r]
  BY <1>1, <1>3 DEF IInv, TypeOK
<1> HIDE DEF F, H
<1>8. \A r \in Procs : proc'[r].at \in Working => proc'[r] = proc[r] /\ proc[r].at \in HelperSteps
  BY <1>4, <1>5, <1>6, <1>7
<1>9. ~proc[f].seen /\ proc[f].kind = "frontend"
  BY <1>2, <1>4 DEF Layer, LocalInv, CheckSteps
<1>10. LocalInv'
  BY <1>4, <1>5, <1>6, <1>7, <1>9 DEF Layer, LocalInv
<1>11. KinInv'
  <2> SUFFICES ASSUME NEW r \in Procs, proc'[r].at \in HelperSteps
               PROVE  /\ proc'[r].kin \in Procs
                      /\ \/ proc'[proc'[r].kin].at = "gone"
                         \/ /\ proc'[proc'[r].kin].at \in FrontendUp
                            /\ proc'[proc'[r].kin].pid = proc'[r].kinPid
    BY DEF KinInv
  <2>1. CASE r = h
    BY <1>5, <1>6, <1>7, <2>1
  <2>2. CASE r # h
    <3>1. proc'[r] = proc[r]
      BY <1>5, <1>7, <2>2
    <3>2. /\ proc[r].kin \in Procs
          /\ \/ proc[proc[r].kin].at = "gone"
             \/ proc[proc[r].kin].at \in FrontendUp /\ proc[proc[r].kin].pid = proc[r].kinPid
      BY <3>1 DEF Layer, KinInv
    <3>3. proc[r].kin # h
      BY <1>1, <3>2
    <3> QED
      BY <1>2, <1>5, <1>7, <3>1, <3>2, <3>3
  <2> QED
    BY <2>1, <2>2
<1>12. QuietInv'
  <2> SUFFICES ASSUME NEW r \in Procs, NEW g \in Procs, proc'[r].at \in Working,
                      proc'[g].at \in FrontendSteps, g # proc'[r].kin
               PROVE  Early(proc'[g])
    BY DEF QuietInv, Early
  <2>1. proc'[r] = proc[r]
    BY <1>8
  <2>2. g # h
    BY <1>4, <1>6, <1>7
  <2>3. g # f
    <3> SUFFICES ASSUME g = f PROVE FALSE
      OBVIOUS
    <3>1. Early(proc[f])
      BY <1>2, <1>4, <2>1 DEF Layer, QuietInv
    <3> QED
      BY <1>2, <3>1 DEF Early
  <2> QED
    BY <1>7, <2>1, <2>2, <2>3 DEF Layer, QuietInv
<1>13. ParentEnded'
  <2> SUFFICES ASSUME NEW r \in Procs, proc'[r].at \in Concluding
               PROVE  proc'[proc'[r].kin].at = "gone"
    BY DEF ParentEnded
  <2>1. proc'[r] = proc[r] /\ proc[r].kin \in Procs /\ proc[proc[r].kin].at = "gone"
    BY <1>8 DEF Layer, ParentEnded, KinInv
  <2> QED
    BY <1>1, <1>2, <1>7, <2>1
<1>14. WeflowEnded'
  BY <1>2, <1>8 DEF Layer, WeflowEnded
<1>15. NamesInv'
  <2>1. \A r : IsHelper(r) => r \in Procs /\ proc'[r].at \in HelperSteps \cup {"gone"}
    BY <1>1, <1>2, <1>4, <1>7 DEF IsHelper
  <2>2. \A g \in Procs : proc'[g].at \in {"name_status", "name_lock"}
                           => proc'[g].kin \in Procs /\ proc'[proc'[g].kin].at \in HelperSteps \cup {"gone"}
    BY <1>4, <1>5, <1>6, <1>7, <2>1 DEF Layer, NamesInv
  <2> QED
    BY <1>2, <2>1, <2>2, NoLockTyped DEF Layer, NamesInv, BlankLock, NoLock, IsHelper
<1> QED
  BY <1>10, <1>11, <1>12, <1>13, <1>14, <1>15 DEF Layer

LEMMA SchedulingQuiet ==
    ASSUME IInv, Layer, NEW f \in Procs, Scheduling(f)
    PROVE  Layer'
<1>1. CASE Spawn(f)
  BY <1>1, SpawnQuiet
<1>2. CASE ~Spawn(f)
  <2>1. /\ weflow' = weflow
        /\ proc[f].at \in {"admit", "create", "fill", "trust", "record", "spawn", "name_status", "name_lock"}
    BY <1>2 DEF Scheduling, Admit, CreateLock, FillLock, Trust, Record, SpawnFails, NameInStatus,
         NameInLock, NamingFails
  <2>2. proc[f].at \in FrontendUp /\ proc[f].at \in FrontendSteps
    BY <2>1 DEF FrontendUp, FrontendSteps
  <2>3. ~proc[f].seen /\ ~Early(proc[f])
    BY <2>1 DEF Layer, LocalInv, CheckSteps, Early
  <2>4. proc[f].at \in {"name_status", "name_lock"} => IsHelper(proc[f].kin)
    BY DEF Layer, NamesInv
  <2>5. FilesName(lock', status')
    <3>1. /\ NoLock.start = 0 /\ NoLock.age = "none" /\ BlankLock.start = 0
          /\ NoStatus.start = 0
          /\ \A t : LET l == [NoLock EXCEPT !.token = t, !.owner = f, !.age = "young"]
                    IN l.start = 0 /\ l.age = "young"
          /\ \A t : [NoStatus EXCEPT !.st = t].start = 0
      BY DEF NoLock, BlankLock, NoStatus
    <3>2. FilesName(lock, status)
      BY FilesNamed
    <3>3. CASE Admit(f) \/ CreateLock(f) \/ FillLock(f) \/ Trust(f) \/ NamingFails(f)
      BY <3>1, <3>2, <3>3, ZenonT(40) DEF FilesName, Admit, CreateLock, FillLock, Trust, NamingFails, files
    <3>4. CASE Record(f) \/ SpawnFails(f)
      <4>1. lock' \in {lock, NoLock} /\ (status' = status \/ \E t : status' \in {NoStatus, [NoStatus EXCEPT !.st = t]})
        BY <3>4 DEF Record, SpawnFails
      <4>2. lock' = lock \/ (lock'.start = 0 /\ lock'.age = "none")
        BY <3>1, <4>1
      <4>3. status' = status \/ status'.start = 0
        BY <3>1, <4>1
      <4> QED
        BY <3>2, <4>2, <4>3 DEF FilesName
    <3>5. CASE NameInStatus(f)
      BY <2>4, <3>2, <3>5 DEF FilesName, NameInStatus
    <3>6. CASE NameInLock(f)
      BY <2>4, <3>2, <3>6 DEF FilesName, NameInLock
    <3> QED
      BY <1>2, <3>3, <3>4, <3>5, <3>6 DEF Scheduling
  <2>6. \/ Answers(f)
        \/ \E step \in {"create", "fill", "trust", "record", "spawn", "name_lock"} :
              At(f, step) /\ (step = "name_lock" => proc[f].at = "name_status")
    BY <1>2 DEF Scheduling, Admit, CreateLock, FillLock, Trust, Record, SpawnFails, NameInStatus,
         NameInLock, NamingFails
  <2>7. CASE Answers(f)
    BY <2>1, <2>2, <2>5, <2>7, Answered
  <2>8. ASSUME NEW step \in {"create", "fill", "trust", "record", "spawn", "name_lock"},
               At(f, step), step = "name_lock" => proc[f].at = "name_status"
        PROVE  Layer'
    <3>1. step \in FrontendUp /\ step \in FrontendSteps
      BY DEF FrontendUp, FrontendSteps
    <3>2. step \in {"name_status", "name_lock"} => IsHelper(proc[f].kin)
      BY <2>4, <2>8
    <3> QED
      BY <2>1, <2>2, <2>3, <2>5, <2>8, <3>1, <3>2, FrontendGoes
  <2> QED
    BY <2>6, <2>7, <2>8
<1> QED
  BY <1>1, <1>2

\* The parent has ended when its pid has no owner or another one.
LEMMA ParentIsGone ==
    ASSUME IInv, Layer, NEW h \in Procs, proc[h].at \in HelperSteps,
           Owner(proc[h].kinPid) # proc[h].kin
    PROVE  proc[proc[h].kin].at = "gone"
<1>1. /\ proc[h].kin \in Procs
      /\ \/ proc[proc[h].kin].at = "gone"
         \/ proc[proc[h].kin].at \in FrontendUp /\ proc[proc[h].kin].pid = proc[h].kinPid
  BY DEF Layer, KinInv
<1>2. SUFFICES ASSUME proc[proc[h].kin].at \in FrontendUp, proc[proc[h].kin].pid = proc[h].kinPid
               PROVE  FALSE
  BY <1>1
<1>3. proc[proc[h].kin].pid # 0
  BY <1>1, <1>2, StepSets, StepsDiffer DEF IInv, PidsDiffer
<1> QED
  BY <1>1, <1>2, <1>3, OwnerIs DEF IInv

LEMMA TerminateQuiet ==
    ASSUME IInv, Layer, NEW h \in Procs, TerminateParent(h)
    PROVE  Layer'
<1> USE KindsDiffer, StepSets
<1>1. PICK step \in {"stop_browser", "leave_failed"} :
         proc' = IF Target(h) = 0 THEN [proc EXCEPT ![h].at = step]
                 ELSE [[proc EXCEPT ![h].at = step] EXCEPT ![Target(h)] = Gone]
  BY DEF TerminateParent
<1>2. proc[h].at = "terminate" /\ UNCHANGED <<lock, status, weflow>>
  BY DEF TerminateParent, files
<1>3. /\ "terminate" \in Working /\ "terminate" \in HelperSteps /\ step \in Working /\ step \in HelperSteps
      /\ step # "clear"
  BY DEF Working, HelperSteps
<1>4. FilesName(lock, status)
  BY FilesNamed
<1>5. proc[h].kin \in Procs
  BY <1>2, <1>3 DEF Layer, KinInv
<1>6. CASE ~ParentAlive(h)
  <2>1. At(h, step)
    BY <1>1, <1>6 DEF Target, At
  <2>2. proc[proc[h].kin].at = "gone"
    BY <1>2, <1>3, <1>6, ParentIsGone DEF ParentAlive
  <2> QED
    BY <1>2, <1>3, <1>4, <2>1, <2>2, HelperGoes
<1>7. CASE ParentAlive(h)
  <2> DEFINE R == [proc[h] EXCEPT !.at = step]
  <2>1. PICK k \in Procs : k = proc[h].kin
    BY <1>5
  <2>2. Target(h) = k /\ k # 0
    BY <1>7, <2>1, Zero DEF Target
  <2>3. k # h
    BY <1>2, <1>3, <2>1 DEF Layer, KinInv
  <2>4. step \in Steps
    BY <1>3
  <2>5. /\ R.at = step /\ R.kind = proc[h].kind
        /\ R.seen = proc[h].seen /\ R.kin = proc[h].kin /\ R.kinPid = proc[h].kinPid
    BY <2>4, AtFields
  <2>6. Gone.at = "gone" /\ Gone.kind = "none" /\ Gone.seen = FALSE
    BY DEF Gone, Unborn
  <2>7. proc'[k] = Gone /\ proc'[h] = R /\ \A r \in Procs : r # k /\ r # h => proc'[r] = proc[r]
    BY <1>1, <2>2, <2>3 DEF IInv, TypeOK
  <2> HIDE DEF R
  <2>8. \A r \in Procs : proc'[r].at \in HelperSteps
                           => /\ proc[r].at \in HelperSteps
                              /\ proc[r].at \in Working <=> proc'[r].at \in Working
                              /\ proc'[r].kin = proc[r].kin /\ proc'[r].kinPid = proc[r].kinPid
    BY <1>2, <1>3, <2>5, <2>6, <2>7
  <2>9. \A r \in Procs : (proc'[r].at \in FrontendSteps \/ proc'[r].at = "clear") => proc'[r] = proc[r]
    BY <1>3, <2>5, <2>6, <2>7
  <2>10. LocalInv'
    BY <1>2, <1>3, <2>5, <2>6, <2>7 DEF Layer, LocalInv
  <2>11. KinInv'
    <3> SUFFICES ASSUME NEW r \in Procs, proc'[r].at \in HelperSteps
                 PROVE  /\ proc'[r].kin \in Procs
                        /\ \/ proc'[proc'[r].kin].at = "gone"
                           \/ /\ proc'[proc'[r].kin].at \in FrontendUp
                              /\ proc'[proc'[r].kin].pid = proc'[r].kinPid
      BY DEF KinInv
    <3>1. /\ proc[r].kin \in Procs /\ proc'[r].kin = proc[r].kin /\ proc'[r].kinPid = proc[r].kinPid
          /\ \/ proc[proc[r].kin].at = "gone"
             \/ proc[proc[r].kin].at \in FrontendUp /\ proc[proc[r].kin].pid = proc[r].kinPid
      BY <2>8 DEF Layer, KinInv
    <3>2. proc[r].kin # h
      BY <1>2, <1>3, <3>1
    <3> QED
      BY <2>6, <2>7, <3>1, <3>2
  <2>12. QuietInv'
    <3> SUFFICES ASSUME NEW r \in Procs, NEW g \in Procs, proc'[r].at \in Working,
                        proc'[g].at \in FrontendSteps, g # proc'[r].kin
                 PROVE  Early(proc'[g])
      BY DEF QuietInv, Early
    <3>1. proc'[g] = proc[g] /\ g # proc[r].kin /\ proc[r].at \in Working
      BY <2>8, <2>9
    <3> QED
      BY <3>1 DEF Layer, QuietInv
  <2>13. ParentEnded'
    <3> SUFFICES ASSUME NEW r \in Procs, proc'[r].at \in Concluding
                 PROVE  proc'[proc'[r].kin].at = "gone"
      BY DEF ParentEnded
    <3>1. proc'[r].kin = proc[r].kin
      BY <2>8
    <3>2. CASE r = h
      BY <2>1, <2>6, <2>7, <3>1, <3>2
    <3>3. CASE r # h
      <4>1. proc'[r] = proc[r]
        BY <2>6, <2>7, <3>3
      <4>2. proc[r].kin \in Procs /\ proc[proc[r].kin].at = "gone"
        BY <2>8, <4>1 DEF Layer, ParentEnded, KinInv
      <4>3. proc[r].kin # h
        BY <1>2, <1>3, <4>2
      <4> QED
        BY <2>6, <2>7, <3>1, <4>2, <4>3
    <3> QED
      BY <3>2, <3>3
  <2>14. WeflowEnded'
    BY <1>2, <2>9 DEF Layer, WeflowEnded
  <2>15. NamesInv'
    <3>1. \A r : IsHelper(r) => r \in Procs /\ proc'[r].at \in HelperSteps \cup {"gone"}
      BY <1>3, <2>5, <2>6, <2>7 DEF IsHelper
    <3>2. \A g \in Procs : proc'[g].at \in {"name_status", "name_lock"}
                             => proc'[g].kin \in Procs /\ proc'[proc'[g].kin].at \in HelperSteps \cup {"gone"}
      BY <2>9, <3>1 DEF Layer, NamesInv
    <3> QED
      BY <1>2, <3>1, <3>2, NoLockTyped DEF Layer, NamesInv, BlankLock, NoLock, IsHelper
  <2> QED
    BY <2>10, <2>11, <2>12, <2>13, <2>14, <2>15 DEF Layer
<1> QED
  BY <1>6, <1>7

\* A helper that writes the status names itself.
LEMMA WritesOwnName ==
    ASSUME Layer, NEW h \in Procs, NEW st, proc[h].at \in HelperSteps, WritesStatus(h, st), lock \in LockRecord
    PROVE  FilesName(lock', status')
<1>1. status'.start = h /\ IsHelper(h)
  BY DEF WritesStatus, IsHelper
<1>2. lock'.start = lock.start /\ lock'.age \in {"young", lock.age}
  BY DEF WritesStatus, LockRecord
<1>3. lock'.age = "blank" => lock' = lock
  BY DEF WritesStatus, LockRecord
<1> QED
  BY <1>1, <1>2, <1>3 DEF Layer, NamesInv, FilesName

LEMMA ResettingQuiet ==
    ASSUME IInv, Layer, NEW h \in Procs, Resetting(h)
    PROVE  Layer'
<1>0. FilesName(lock, status) /\ lock \in LockRecord
  BY FilesNamed, Typed
<1>1. ASSUME Preflight(h) PROVE Layer'
  <2>1. PICK step \in {"delay", "delay_unverified"} : At(h, step)
    BY <1>1 DEF Preflight
  <2>2. proc[h].at \in HelperSteps /\ step \in HelperSteps /\ step \notin Working
    BY <1>1, <2>1 DEF Preflight, HelperSteps, Working
  <2>3. UNCHANGED <<lock, status, weflow>>
    BY <1>1 DEF Preflight, files
  <2>4. step # "clear" /\ step \notin Concluding
    BY <2>2, StepSets
  <2> QED
    BY <1>0, <2>1, <2>2, <2>3, <2>4, HelperGoes
<1>2. ASSUME Authorize(h) PROVE Layer'
  <2>1. proc[h].at \in HelperSteps /\ proc[h].at \notin Dead /\ UNCHANGED <<status, weflow>>
    BY <1>2 DEF Authorize, HelperSteps, Dead
  <2>2. CASE Authorized(h)
    <3>1. PICK step \in {"browser", "fail"} : At(h, step)
      BY <1>2, <2>2 DEF Authorize
    <3>2. step \in HelperSteps /\ step \notin Concluding /\ step # "clear"
      BY DEF HelperSteps, Working, Concluding
    <3>3. lock' = lock
      BY <1>2, <2>2 DEF Authorize
    <3> QED
      BY <1>0, <2>1, <2>2, <3>1, <3>2, <3>3, HelperGoes
  <2>3. CASE ~Authorized(h)
    BY <1>2, <2>1, <2>3, Ended DEF Authorize, Ends
  <2> QED
    BY <2>2, <2>3
<1>3. ASSUME CheckBrowser(h) \/ TakeLifecycleToReset(h) \/ Report(h) \/ FindParent(h) \/ StopBrowser(h)
               \/ StopWeflow(h) \/ Conclude(h) \/ LeaveLifecycle(h) \/ RecordFailure(h)
      PROVE  Layer'
  <2>1. PICK step \in Working :
           /\ At(h, step)
           /\ step \in Concluding => \/ proc[h].at \in Concluding
                                     \/ FindParent(h) /\ Owner(proc[h].kinPid) = 0
           /\ step = "clear" => weflow' = FALSE
    BY <1>3 DEF Working, Concluding, CheckBrowser, TakeLifecycleToReset, Report, FindParent, StopBrowser,
         StopWeflow, Conclude, LeaveLifecycle, RecordFailure
  <2>2. proc[h].at \in Working
    BY <1>3 DEF Working, CheckBrowser, TakeLifecycleToReset, Report, FindParent, StopBrowser,
         StopWeflow, Conclude, LeaveLifecycle, RecordFailure
  <2>3. weflow' \in {weflow, FALSE}
    BY <1>3 DEF CheckBrowser, TakeLifecycleToReset, Report, FindParent, StopBrowser,
         StopWeflow, Conclude, LeaveLifecycle, RecordFailure
  <2>4. UNCHANGED <<status, lock>> \/ \E st : WritesStatus(h, st)
    BY <1>3 DEF CheckBrowser, TakeLifecycleToReset, Report, FindParent, StopBrowser,
       StopWeflow, Conclude, LeaveLifecycle, RecordFailure, files
  <2>5. proc[h].at \in HelperSteps /\ step \in HelperSteps
    BY <2>2, StepSets
  <2>6. FilesName(lock', status')
    BY <1>0, <2>4, <2>5, WritesOwnName
  <2>7. step \in Concluding => proc[h].at \in Concluding \/ proc[proc[h].kin].at = "gone"
    <3>1. Owner(proc[h].kinPid) = 0 => Owner(proc[h].kinPid) # proc[h].kin
      BY <2>5, Zero DEF Layer, KinInv
    <3> QED
      BY <2>1, <2>5, <3>1, ParentIsGone
  <2> QED
    BY <2>1, <2>2, <2>3, <2>5, <2>6, <2>7, HelperGoes
<1>4. ASSUME Clear(h) PROVE Layer'
  <2>1. PICK r \in Terminal : proc' = [proc EXCEPT ![h].at = "conclude", ![h].result = r]
    BY <1>4 DEF Clear
  <2>2. proc[h].at = "clear" /\ UNCHANGED <<lock, status, weflow>>
    BY <1>4 DEF Clear, files
  <2>3. /\ {"clear", "conclude"} \subseteq Concluding \cap HelperSteps /\ "clear" \in Working
        /\ "conclude" \in Steps
    BY DEF Working, Concluding, HelperSteps, Steps
  <2> DEFINE R == [proc[h] EXCEPT !.at = "conclude", !.result = r]
  <2>4. /\ R \in ProcessRecord /\ R.at = "conclude" /\ R.kind = proc[h].kind /\ R.seen = proc[h].seen
        /\ R.kin = proc[h].kin /\ R.kinPid = proc[h].kinPid
    BY <2>3, Typed DEF ProcessRecord
  <2>5. proc' = [proc EXCEPT ![h] = R]
    BY <2>1
  <2>6. proc[h].kind = "helper"
    BY <2>2, <2>3, KindsDiffer DEF Layer, LocalInv
  <2> HIDE DEF R
  <2> QED
    BY <1>0, <2>2, <2>3, <2>4, <2>5, <2>6, HelperMoves
<1>5. ASSUME RemoveLock(h) PROVE Layer'
  BY <1>5, Ended DEF RemoveLock, Ends, Dead
<1> QED
  BY <1>1, <1>2, <1>3, <1>4, <1>5, TerminateQuiet DEF Resetting

LEMMA EnvironmentQuiet ==
    ASSUME IInv, Layer, NEW q \in Procs,
           Launch(q) \/ Crash(q) \/ OtherStarts(q) \/ OtherEnds(q)
    PROVE  Layer'
<1>1. ASSUME Launch(q) \/ OtherStarts(q) PROVE Layer'
  <2>1. PICK p \in FreePids, kind \in {"frontend", "other"}, step \in {"precheck", "runs"} :
           /\ proc' = [proc EXCEPT ![q] = Process(kind, p, step)]
           /\ kind = KindAt(step)
    <3>1. KindAt("precheck") = "frontend" /\ KindAt("runs") = "other"
      BY KindsDiffer DEF FrontendSteps, CheckSteps
    <3> QED
      BY <1>1, <3>1 DEF Launch, OtherStarts
  <2>2. proc[q].at = "unborn" /\ UNCHANGED <<weflow, status, lock>>
    BY <1>1 DEF Launch, OtherStarts, IsNext, files
  <2>3. step \in Steps /\ p \in Pids
    BY NewPid DEF Steps, CheckSteps, IInv
  <2> DEFINE R == Process(kind, p, step)
  <2>5. R \in ProcessRecord /\ R.at = step /\ R.kind = kind /\ R.seen = FALSE
    BY <2>1, <2>3, GoneTyped DEF Process, ProcessRecord, Unborn
  <2> HIDE DEF R
  <2>6. proc' = [proc EXCEPT ![q] = R]
    BY <2>1 DEF R
  <2> QED
    BY <2>1, <2>2, <2>5, <2>6, Born
<1>2. ASSUME Crash(q) \/ OtherEnds(q) PROVE Layer'
  <2>1. Ends(q) /\ proc[q].at \notin Dead /\ UNCHANGED <<lock, status, weflow>>
    BY <1>2 DEF Crash, OtherEnds, Alive, Dead, files
  <2> QED
    BY <2>1, Ended DEF Ends
<1> QED
  BY <1>1, <1>2

LEMMA NextQuiet == IInv /\ Layer /\ [Next]_vars => Layer'
<1> SUFFICES ASSUME IInv, Layer, [Next]_vars PROVE Layer'
  OBVIOUS
<1>0. FilesName(lock, status)
  BY FilesNamed
<1>1. CASE UNCHANGED vars
  BY <1>0, <1>1, Still DEF vars
<1>2. CASE Age
  <2>1. proc' = proc /\ weflow' = weflow /\ status' = status
    BY <1>2 DEF Age
  <2>2. lock'.start = lock.start /\ lock'.age # "blank"
    BY <1>2 DEF Age, IInv, TypeOK, LockRecord
  <2> QED
    BY <1>0, <2>1, <2>2, Still DEF FilesName
<1>3. CASE Next /\ ~Age
  BY <1>3, StartingQuiet, LookupQuiet, SchedulingQuiet, ResettingQuiet, EnvironmentQuiet DEF Next
<1> QED
  BY <1>1, <1>2, <1>3

LEMMA QuietInitially == Init => Layer
<1> SUFFICES ASSUME Init PROVE Layer
  OBVIOUS
<1>1. \A q \in Procs : proc[q].at = "unborn" /\ proc[q].kind = "none" /\ proc[q].seen = FALSE
  BY DEF Init, Unborn
<1>2. "unborn" \in Dead /\ KindAt("unborn") = "none"
  BY KindsDiffer DEF Dead
<1>3. "unborn" \notin HelperSteps \cup FrontendSteps \cup Working \cup Concluding
  BY <1>2, KindsDiffer, StepSets
<1>4. lock.start = 0 /\ lock.age = "none" /\ status.start = 0
  BY DEF Init, NoLock, NoStatus
<1> QED
  BY <1>1, <1>2, <1>3, <1>4 DEF Layer, LocalInv, KinInv, QuietInv, ParentEnded, WeflowEnded, NamesInv

LEMMA LayerHolds == Spec => [](IInv /\ Layer)
<1>1. Init => IInv /\ Layer
  BY Initially, QuietInitially
<1>2. IInv /\ Layer /\ [Next]_vars => (IInv /\ Layer)'
  BY NextKeeps, NextQuiet
<1> QED
  BY <1>1, <1>2, PTL DEF Spec

\* While the history is cleared WeFlow is down and no sidebar is past the
\* check that precedes its start: the helper's parent has ended, and every
\* other start is given up at that check because it finds the lock in use.
THEOREM ClearedStopped == Spec => []ClearsStopped
<1>1. IInv /\ Layer => ClearsStopped
  <2> SUFFICES ASSUME IInv, Layer, NEW h \in Procs, NEW f \in Procs, proc[h].at = "clear"
               PROVE  /\ ~weflow
                      /\ proc[f].kind = "frontend" /\ Alive(f) =>
                            proc[f].at \in {"precheck", "instance", "lifecycle_start", "check_first"}
    BY DEF ClearsStopped
  <2>1. ~weflow /\ proc[h].at \in Working /\ proc[proc[h].kin].at = "gone"
    BY StepSets DEF Layer, WeflowEnded, ParentEnded
  <2>2. ASSUME proc[f].kind = "frontend", Alive(f)
        PROVE  proc[f].at \in {"precheck", "instance", "lifecycle_start", "check_first"}
    <3>1. f # proc[h].kin
      BY <2>1, <2>2 DEF Alive
    <3>2. proc[f].at \in Steps
      BY Typed DEF ProcessRecord
    <3>3. proc[f].at \in FrontendSteps
      BY <2>2, <3>2, KindsDiffer DEF Layer, LocalInv
    <3> QED
      BY <2>1, <3>1, <3>3 DEF Layer, QuietInv, Early
  <2> QED
    BY <2>1, <2>2
<1> QED
  BY <1>1, LayerHolds, PTL

\* The lock of a helper at work shows every page a reset that is under way or
\* cannot be told, whatever the status file says.
THEOREM PageTold == Spec => []PageIsTold
<1>1. IInv => PageIsTold
  <2> SUFFICES ASSUME IInv, NEW h \in Procs, proc[h].at \in Working
               PROVE  ResetShown \in {"active", "unknown"}
    BY DEF PageIsTold
  <2>1. lock # NoLock /\ lock.pid # 0 /\ Owner(lock.pid) = h /\ lock.start = h /\ h # 0
    BY LockShows, Zero
  <2>2. lock # BlankLock
    BY <2>1, NoLockTyped
  <2>3. LockState = "active"
    BY <2>1, <2>2 DEF LockState
  <2> QED
    BY <2>3 DEF ResetShown
<1> QED
  BY <1>1, Invariance, PTL

\* Once everything has come to its end only files that name no helper can
\* keep the sidebar from starting: whatever helper they name has ended.
THEOREM ReopensInTheEnd == Spec => []ReopensAtRest
<1>1. IInv /\ Layer => ReopensAtRest
  <2> SUFFICES ASSUME IInv, Layer, AtRest, LockBusy \/ StatusBusy, ~Unnamed
               PROVE  FALSE
    BY DEF ReopensAtRest
  <2>1. ASSUME NEW p, p # 0, Owner(p) # 0, IsHelper(Owner(p)) PROVE FALSE
    <3>1. Owner(p) \in Procs /\ proc[Owner(p)].pid = p
      BY <2>1, Zero DEF Owner
    <3>2. proc[Owner(p)].at \notin Dead
      BY <2>1, <3>1 DEF IInv, PidsDiffer
    <3>3. Alive(Owner(p)) /\ proc[Owner(p)].at \in HelperSteps
      BY <2>1, <3>2 DEF IsHelper, Alive, Dead
    <3>4. proc[Owner(p)].at \in {"up", "runs"}
      BY <3>1, <3>3 DEF AtRest
    <3>5. "up" \in FrontendSteps
      BY DEF FrontendSteps, FrontendUp
    <3> QED
      BY <3>3, <3>4, <3>5, KindsDiffer
  <2>2. CASE LockBusy
    <3>1. lock.pid # 0
      BY <2>2 DEF LockBusy, AtRest, Unnamed, Layer, NamesInv
    <3>2. Owner(lock.pid) # 0 /\ lock.start = Owner(lock.pid) /\ IsHelper(lock.start)
      BY <2>2, <3>1 DEF LockBusy, Unnamed, Layer, NamesInv
    <3> QED
      BY <2>1, <3>1, <3>2
  <2>3. CASE StatusBusy
    <3>1. status.pid # 0 /\ status.start # 0 /\ Owner(status.pid) = status.start /\ IsHelper(status.start)
      BY <2>3 DEF StatusBusy, Unnamed, Layer, NamesInv
    <3> QED
      BY <2>1, <3>1
  <2> QED
    BY <2>2, <2>3
<1> QED
  BY <1>1, LayerHolds, PTL
=============================================================================
