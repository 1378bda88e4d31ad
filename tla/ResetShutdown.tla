--------------------------- MODULE ResetShutdown ---------------------------
(***************************************************************************)
(* A history reset asked for in the sidebar.  The sidebar process cannot   *)
(* clear the files it has open, so it schedules a detached helper          *)
(* (scripts/sidebar_history_reset_shutdown.py) that stops the sidebar, its *)
(* browser and WeFlow, clears the history and exits; the user then starts  *)
(* the sidebar again (scripts/start_sidebar_frontend.py).                  *)
(*                                                                         *)
(* The parties agree through two files only: history_reset_shutdown.lock   *)
(* (who resets) and history_reset_shutdown.json (how far it got).  Each    *)
(* process reads them at moments of its own, any of them may die between   *)
(* two steps, and the operating system gives the pid of a dead process to  *)
(* a new one: a process is its start marker, of which the pid says little. *)
(*                                                                         *)
(* The process locks (sidebar_frontend_lifecycle, weflow_lifecycle, the    *)
(* locks that make scheduling sequential) are ProcessLock's: a dead        *)
(* holder's lock is free.  What clearing does is HistoryFence's.           *)
(***************************************************************************)
EXTENDS Naturals, FiniteSets

CONSTANTS
    MaxProcs,     \* processes started
    MaxRequests,  \* reset requests that pass the page's checks
    MaxFailures   \* processes that die without cleaning up, and failed writes,
                  \* spawns, queries and verifications, all together

ASSUME BoundsAssumption ==
    MaxProcs \in Nat \ {0} /\ MaxRequests \in Nat /\ MaxFailures \in Nat

\* Processes are numbered in the order they start: the number stands for the
\* start marker, which the operating system never gives twice.
Procs == 1..MaxProcs
\* Enough pids for every process and every pid a file or a process remembers.
Pids == 1..(2 * MaxProcs + 2)

VARIABLES
    proc,       \* [Procs -> record]: kind, pid, at (its next step), token, and the process
                \* it deals with: kin, kinPid (a helper's parent, a sidebar's new helper)
    lock,       \* history_reset_shutdown.lock
    status,     \* history_reset_shutdown.json
    launch,     \* the process sidebar_launch.json names, or 0
    instance,   \* holder of sidebar_frontend_lifecycle.lock, or 0
    lifecycle,  \* holder of weflow_lifecycle.lock, or 0
    weflow,     \* WeFlow runs
    requests, failures

files == <<lock, status, launch>>
locks == <<instance, lifecycle>>
budget == <<requests, failures>>
vars == <<proc, lock, status, launch, instance, lifecycle, weflow, requests, failures>>

Nonterminal == {"scheduled", "running"}
\* "error" stands for blocked, partial_error and error, which nothing here tells apart.
Terminal == {"ok", "error"}

CheckSteps == {"precheck", "check_first", "check_again", "check_last"}
FrontendUp == {"up", "admit", "create", "fill", "trust", "record", "spawn", "name_status", "name_lock"}
\* An authorized helper, from its authorization to the removal of its lock.
Working == {"browser", "lifecycle", "report", "stop_parent", "terminate", "stop_browser",
            "stop_weflow", "clear", "conclude", "leave", "leave_failed",
            "except", "fail", "unlock"}

NoLock == [pid |-> 0, start |-> 0, token |-> 0, owner |-> 0, age |-> "none"]
\* The file between its creation and its first write.
BlankLock == [NoLock EXCEPT !.age = "blank"]
NoStatus == [st |-> "none", pid |-> 0, start |-> 0]
Unborn == [kind |-> "none", pid |-> 0, at |-> "unborn", kin |-> 0, kinPid |-> 0, token |-> 0,
           seen |-> FALSE, result |-> "none"]
Gone == [Unborn EXCEPT !.at = "gone"]

-----------------------------------------------------------------------------
(* What a process can find out about another one.                          *)

Alive(q) == proc[q].at \notin {"unborn", "gone"}

\* The live process with pid p, or 0: _pid_exists together with
\* process_start_marker.
Owner(p) == LET owners == {q \in Procs : proc[q].pid = p}
            IN IF p = 0 \/ owners = {} THEN 0 ELSE CHOOSE q \in owners : TRUE

\* The pids the next process may get: one that a file or a process remembers,
\* or the first of the others, which are all alike.  While a sidebar records
\* the helper it has spawned it holds the process handle, which keeps the pid.
Remembered == ({lock.pid, status.pid} \cup UNION {{proc[q].pid, proc[q].kinPid} : q \in Procs}) \ {0}
Taken == {proc[q].pid : q \in Procs} \cup {proc[f].kinPid : f \in {q \in Procs : proc[q].kind = "frontend"}}
FreePids == LET known == Remembered IN
            (known \ Taken) \cup {p \in Pids : p \notin known /\ \A r \in 1..(p - 1) : r \in known}

\* Mutant: a process with the helper's pid is taken for the helper.
LockBusyByPid == /\ lock # NoLock
                 /\ \/ lock.pid = 0 /\ lock.age \in {"blank", "young"}
                    \/ lock.pid # 0 /\ Owner(lock.pid) # 0

\* The lock alone shows a reset under way.
LockBusy == /\ lock # NoLock
            /\ \/ lock.pid = 0 /\ lock.age \in {"blank", "young"}
               \/ /\ lock.pid # 0 /\ Owner(lock.pid) # 0
                  /\ lock.start = 0 \/ lock.start = Owner(lock.pid)

\* The status file shows a reset under way; a status without a helper's
\* identity counts as one.
StatusBusy == /\ status.st \in Nonterminal
              /\ \/ status.pid = 0 \/ status.start = 0
                 \/ Owner(status.pid) = status.start

-----------------------------------------------------------------------------
Init ==
    /\ proc = [q \in Procs |-> Unborn]
    /\ lock = NoLock /\ status = NoStatus /\ launch = 0
    /\ instance = 0 /\ lifecycle = 0 /\ weflow = FALSE
    /\ requests = 0 /\ failures = 0

At(q, step) == proc' = [proc EXCEPT ![q].at = step]

\* The process q ends, whatever it held is released.
Ends(q) ==
    /\ proc' = [proc EXCEPT ![q] = Gone]
    /\ instance' = IF instance = q THEN 0 ELSE instance
    /\ lifecycle' = IF lifecycle = q THEN 0 ELSE lifecycle

Failure == failures < MaxFailures /\ failures' = failures + 1 /\ UNCHANGED requests

IsNext(q) == proc[q].at = "unborn" /\ \A r \in 1..(q - 1) : proc[r].at # "unborn"
Process(kind, p, step) == [Unborn EXCEPT !.kind = kind, !.pid = p, !.at = step]

-----------------------------------------------------------------------------
(* Starting the sidebar: scripts/start_sidebar_frontend.py.                *)

Launch(f) ==
    /\ IsNext(f)
    /\ \E p \in FreePids : proc' = [proc EXCEPT ![f] = Process("frontend", p, "precheck")]
    /\ UNCHANGED <<files, locks, weflow, budget>>

AfterCheck(step) == CASE step = "precheck" -> "instance"
                      [] step = "check_first" -> "start_weflow"
                      [] step = "check_again" -> "write_launch"
                      [] step = "check_last" -> "up"

\* _history_reset_in_progress reads the lock first and, when that does not
\* settle it, the status file; a start is given up when either shows a reset.
CheckLock(f) ==
    /\ proc[f].at \in CheckSteps /\ ~proc[f].seen
    /\ IF LockBusy THEN Ends(f)
       ELSE proc' = [proc EXCEPT ![f].seen = TRUE] /\ UNCHANGED locks
    /\ UNCHANGED <<files, weflow, budget>>

CheckStatus(f) ==
    /\ proc[f].at \in CheckSteps /\ proc[f].seen
    /\ IF StatusBusy THEN Ends(f)
       ELSE /\ proc' = [proc EXCEPT ![f].seen = FALSE, ![f].at = AfterCheck(proc[f].at)]
            /\ lifecycle' = IF proc[f].at = "check_last" THEN 0 ELSE lifecycle
            /\ UNCHANGED instance
    /\ UNCHANGED <<files, weflow, budget>>

\* One sidebar at a time, without waiting.
TakeInstance(f) ==
    /\ proc[f].at = "instance"
    /\ IF instance = 0 THEN instance' = f /\ At(f, "lifecycle_start") /\ UNCHANGED lifecycle
       ELSE Ends(f)
    /\ UNCHANGED <<files, weflow, budget>>

TakeLifecycleToStart(f) ==
    /\ proc[f].at = "lifecycle_start"
    /\ lifecycle = 0 /\ lifecycle' = f
    /\ At(f, "check_first")
    /\ UNCHANGED <<files, instance, weflow, budget>>

\* WeFlow is started, found running, or not available.
StartWeflow(f) ==
    /\ proc[f].at = "start_weflow"
    /\ weflow' \in {weflow, TRUE}
    /\ At(f, "check_again")
    /\ UNCHANGED <<files, locks, budget>>

WriteLaunch(f) ==
    /\ proc[f].at = "write_launch"
    /\ launch' = f
    /\ At(f, "check_last")
    /\ UNCHANGED <<lock, status, locks, weflow, budget>>

\* The lifecycle lock stays contended, WeFlow or the launch state fails, or
\* the user closes the page while no reset is being scheduled.
Leave(f) ==
    /\ proc[f].at \in {"lifecycle_start", "check_again", "write_launch", "up"} /\ ~proc[f].seen
    /\ Ends(f)
    /\ UNCHANGED <<files, weflow, budget>>

-----------------------------------------------------------------------------
(* Scheduling: _schedule_sidebar_history_reset_shutdown, by a sidebar that *)
(* is up.  Its requests take their turns at the schedule lock.             *)

\* The request ends and forgets the helper it spawned.
Answers(f) == proc' = [proc EXCEPT ![f].at = "up", ![f].kin = 0, ![f].kinPid = 0, ![f].token = 0]

\* Mutant: a lock is in use for 20 seconds, whoever it names.
LookupByAge(f) ==
    /\ proc[f].at = "up" /\ requests < MaxRequests
    /\ requests' = requests + 1
    /\ IF lock.age = "young" THEN UNCHANGED <<proc, lock>>
       ELSE /\ proc' = [proc EXCEPT ![f].at = "admit", ![f].token = requests + 1]
            /\ lock' = NoLock
    /\ UNCHANGED <<status, launch, locks, weflow, failures>>

\* The lock left by an earlier reset: in use (the request is answered as a
\* duplicate), or removed because its helper is dead or was never named.
Lookup(f) ==
    LET helper == IF lock.pid # 0 THEN lock.pid ELSE status.pid
        inUse == \/ /\ helper # 0 /\ Owner(helper) # 0
                    /\ lock.start = 0 \/ Owner(helper) = lock.start
                 \/ helper = 0 /\ lock.age = "young"
    IN /\ proc[f].at = "up" /\ requests < MaxRequests
       /\ requests' = requests + 1
       /\ IF lock # NoLock /\ inUse THEN UNCHANGED <<proc, lock>>
          ELSE /\ proc' = [proc EXCEPT ![f].at = "admit", ![f].token = requests + 1]
               /\ lock' = NoLock
       /\ UNCHANGED <<status, launch, locks, weflow, failures>>

\* An unfinished status of a helper that may still live stops the request,
\* lock or no lock.
Admit(f) ==
    /\ proc[f].at = "admit"
    /\ IF StatusBusy THEN Answers(f) ELSE At(f, "create")
    /\ UNCHANGED <<files, locks, weflow, budget>>

\* The lock is created exclusively.  Only scheduling creates it, so the file
\* the lookup did not find is still absent.
CreateLock(f) ==
    /\ proc[f].at = "create"
    /\ lock' = BlankLock
    /\ At(f, "fill")
    /\ UNCHANGED <<status, launch, locks, weflow, budget>>

FillLock(f) ==
    /\ proc[f].at = "fill"
    /\ lock' = [NoLock EXCEPT !.token = proc[f].token, !.owner = f, !.age = "young"]
    /\ At(f, "trust")
    /\ UNCHANGED <<status, launch, locks, weflow, budget>>

\* The launch state must name this very process; a start marker that cannot
\* be read gives the request up too.
Trust(f) ==
    /\ proc[f].at = "trust"
    /\ \/ launch = f /\ At(f, "record") /\ UNCHANGED <<lock, budget>>
       \/ /\ IF launch = f THEN Failure ELSE UNCHANGED budget
          /\ Answers(f) /\ lock' = NoLock
    /\ UNCHANGED <<status, launch, locks, weflow>>

\* The scheduled status is written before the helper exists.
Record(f) ==
    /\ proc[f].at = "record"
    /\ \/ status' = [NoStatus EXCEPT !.st = "scheduled"] /\ At(f, "spawn") /\ UNCHANGED budget
       \/ Failure /\ Answers(f) /\ UNCHANGED status
    /\ UNCHANGED <<lock, launch, locks, weflow>>

Spawn(f) ==
    /\ proc[f].at = "spawn"
    /\ \E h \in Procs : IsNext(h) /\ \E p \in FreePids :
          proc' = [proc EXCEPT
               ![f].at = "name_status", ![f].kin = h, ![f].kinPid = p,
               ![h] = [Process("helper", p, "preflight") EXCEPT
                         !.kin = f, !.kinPid = proc[f].pid, !.token = proc[f].token]]
    /\ UNCHANGED <<files, locks, weflow, budget>>

\* The spawn fails.  The failure is recorded, or the status is removed, and
\* the lock with it; or neither can be written and both files stay.
SpawnFails(f) ==
    /\ proc[f].at = "spawn" /\ Failure
    /\ \/ status' = [NoStatus EXCEPT !.st = "error"] /\ lock' = NoLock
       \/ status' = NoStatus /\ lock' = NoLock
       \/ UNCHANGED <<status, lock>>
    /\ Answers(f)
    /\ UNCHANGED <<launch, locks, weflow>>

\* The helper's pid and start marker go into the status, then into the lock.
\* Of a helper that cannot be queried (it may have exited) only the pid is
\* known: an error, and a lock that no helper can call its own.
NameInStatus(f) ==
    /\ proc[f].at = "name_status"
    /\ At(f, "name_lock")
    /\ \/ /\ status' = [st |-> "scheduled", pid |-> proc[f].kinPid, start |-> proc[f].kin]
          /\ UNCHANGED budget
       \/ /\ status' = [st |-> "error", pid |-> proc[f].kinPid, start |-> 0]
          /\ IF Alive(proc[f].kin) THEN Failure ELSE UNCHANGED budget
    /\ UNCHANGED <<lock, launch, locks, weflow>>

NameInLock(f) ==
    /\ proc[f].at = "name_lock"
    /\ lock' = [pid |-> proc[f].kinPid, start |-> IF status.st = "error" THEN 0 ELSE proc[f].kin,
                token |-> proc[f].token, owner |-> f, age |-> "young"]
    /\ Answers(f)
    /\ UNCHANGED <<status, launch, locks, weflow, budget>>

\* Either write fails: the request ends in an exception and the files stay.
NamingFails(f) ==
    /\ proc[f].at \in {"name_status", "name_lock"} /\ Failure
    /\ Answers(f)
    /\ UNCHANGED <<files, locks, weflow>>

-----------------------------------------------------------------------------
(* The helper: main of scripts/sidebar_history_reset_shutdown.py.          *)

ParentAlive(h) == Owner(proc[h].kinPid) = proc[h].kin

\* The lock names this helper and carries its token.
Owned(h) == lock.pid = proc[h].pid /\ lock.start = h /\ lock.token = proc[h].token

\* The parent's identity is taken at once, before the delay in which the
\* answer reaches the page.
Preflight(h) ==
    /\ proc[h].at = "preflight"
    /\ \/ ParentAlive(h) /\ At(h, "delay") /\ UNCHANGED budget
       \/ /\ IF ParentAlive(h) THEN Failure ELSE UNCHANGED budget
          /\ At(h, "delay_unverified")
    /\ UNCHANGED <<files, locks, weflow>>

Authorized(h) == Owned(h) /\ lock.owner = proc[h].kin /\ ParentAlive(h) /\ lock.age # "stale"

\* After the delay the helper goes on only with a lock that is its own, fresh
\* and written by a parent that still lives; otherwise it exits silently.
Authorize(h) ==
    /\ proc[h].at \in {"delay", "delay_unverified"}
    /\ IF Authorized(h)
       THEN At(h, IF proc[h].at = "delay" THEN "browser" ELSE "fail") /\ UNCHANGED <<lock, locks>>
       ELSE Ends(h) /\ lock' = IF Owned(h) THEN NoLock ELSE lock
    /\ UNCHANGED <<status, launch, weflow, budget>>

CheckBrowser(h) ==
    /\ proc[h].at = "browser"
    /\ \/ launch = proc[h].kin /\ At(h, "lifecycle") /\ UNCHANGED budget
       \/ (IF launch = proc[h].kin THEN Failure ELSE UNCHANGED budget) /\ At(h, "fail")
    /\ UNCHANGED <<files, locks, weflow>>

\* _write_status also stamps the lock, as long as it is the helper's.
WritesStatus(h, st) ==
    /\ status' = [st |-> st, pid |-> proc[h].pid, start |-> h]
    /\ lock' = IF Owned(h) THEN [lock EXCEPT !.age = "young"] ELSE lock

TakeLifecycleToReset(h) ==
    /\ proc[h].at = "lifecycle"
    /\ \/ lifecycle = 0 /\ lifecycle' = h /\ At(h, "report")
       \/ lifecycle # 0 /\ At(h, "except") /\ UNCHANGED lifecycle
    /\ UNCHANGED <<files, instance, weflow, budget>>

Report(h) ==
    /\ proc[h].at = "report"
    /\ \/ WritesStatus(h, "running") /\ At(h, "stop_parent") /\ UNCHANGED budget
       \/ Failure /\ At(h, "leave_failed") /\ UNCHANGED <<status, lock>>
    /\ UNCHANGED <<launch, locks, weflow>>

\* The parent is gone, or still the process that was verified; a pid that
\* went to another process ends the reset.
FindParent(h) ==
    /\ proc[h].at = "stop_parent"
    /\ LET p == Owner(proc[h].kinPid) IN
          \/ p = 0 /\ At(h, "stop_browser") /\ UNCHANGED budget
          \/ p = proc[h].kin /\ At(h, "terminate") /\ UNCHANGED budget
          \/ /\ IF p \in {0, proc[h].kin} THEN Failure ELSE UNCHANGED budget
             /\ At(h, "leave_failed")
    /\ UNCHANGED <<files, locks, weflow>>

\* Mutant: the termination goes by the pid.
TargetByPid(h) == Owner(proc[h].kinPid)

\* The process a termination by pid and start marker hits: none when the pid
\* has another owner by now.
Target(h) == IF ParentAlive(h) THEN proc[h].kin ELSE 0

\* The parent is terminated; then its pid must be free and its children must
\* be stopped, or the reset fails with the sidebar already down.
TerminateParent(h) ==
    /\ proc[h].at = "terminate"
    /\ LET t == Target(h)
           freed == Owner(proc[h].kinPid) \in {0, t}
           Then(step) == [proc EXCEPT ![h].at = step]
           Killed(state) == IF t = 0 THEN state ELSE [state EXCEPT ![t] = Gone]
       IN /\ \/ freed /\ proc' = Killed(Then("stop_browser")) /\ UNCHANGED budget
             \/ /\ IF freed THEN Failure ELSE UNCHANGED budget
                /\ proc' = Killed(Then("leave_failed"))
          /\ instance' = IF t # 0 /\ instance = t THEN 0 ELSE instance
          /\ lifecycle' = IF t # 0 /\ lifecycle = t THEN 0 ELSE lifecycle
    /\ UNCHANGED <<files, weflow>>

StopBrowser(h) ==
    /\ proc[h].at = "stop_browser"
    /\ \/ WritesStatus(h, "running") /\ At(h, "stop_weflow") /\ UNCHANGED budget
       \/ Failure /\ At(h, "leave_failed") /\ UNCHANGED <<status, lock>>
    /\ UNCHANGED <<launch, locks, weflow>>

\* Mutant: the reset goes on when the stop could not be verified.
StopWeflowUnverified(h) ==
    /\ proc[h].at = "stop_weflow"
    /\ \/ weflow' = FALSE /\ UNCHANGED budget
       \/ weflow' \in {weflow, FALSE} /\ Failure
    /\ WritesStatus(h, "running") /\ At(h, "clear")
    /\ UNCHANGED <<launch, locks>>

\* WeFlow and its child processes are stopped and the lock of its start is
\* removed; all of it must be verified.
StopWeflow(h) ==
    /\ proc[h].at = "stop_weflow"
    /\ \/ weflow' = FALSE /\ WritesStatus(h, "running") /\ At(h, "clear") /\ UNCHANGED budget
       \/ weflow' \in {weflow, FALSE} /\ Failure /\ At(h, "leave_failed") /\ UNCHANGED <<status, lock>>
    /\ UNCHANGED <<launch, locks>>

\* clear_sidebar_history_data clears; or it finds a writer or stops half-way.
Clear(h) ==
    /\ proc[h].at = "clear"
    /\ \E r \in Terminal :
          proc' = [proc EXCEPT ![h].at = "conclude", ![h].result = r]
    /\ UNCHANGED <<files, locks, weflow, budget>>

Conclude(h) ==
    /\ proc[h].at = "conclude"
    /\ \/ WritesStatus(h, proc[h].result) /\ At(h, "leave") /\ UNCHANGED budget
       \/ Failure /\ At(h, "leave_failed") /\ UNCHANGED <<status, lock>>
    /\ UNCHANGED <<launch, locks, weflow>>

\* The lifecycle lock is released before a failure is recorded and before the
\* reset lock is removed.
LeaveLifecycle(h) ==
    /\ proc[h].at \in {"leave", "leave_failed"}
    /\ lifecycle' = 0
    /\ At(h, IF proc[h].at = "leave" THEN "unlock" ELSE "except")
    /\ UNCHANGED <<files, instance, weflow, budget>>

\* A failure is recorded, if the status can be written.
RecordFailure(h) ==
    /\ proc[h].at \in {"fail", "except"}
    /\ \/ WritesStatus(h, "error") /\ UNCHANGED budget
       \/ proc[h].at = "except" /\ Failure /\ UNCHANGED <<status, lock>>
    /\ At(h, "unlock")
    /\ UNCHANGED <<launch, locks, weflow>>

RemoveLock(h) ==
    /\ proc[h].at = "unlock"
    /\ lock' = IF Owned(h) THEN NoLock ELSE lock
    /\ Ends(h)
    /\ UNCHANGED <<status, launch, weflow, budget>>

-----------------------------------------------------------------------------
(* The environment.                                                        *)

\* A process of this application dies without cleaning up.
Crash(q) ==
    /\ Alive(q) /\ proc[q].kind # "other"
    /\ Failure
    /\ Ends(q)
    /\ UNCHANGED <<files, weflow>>

\* A process of another application starts, on a pid that somebody of this
\* one remembers (the others concern nobody here), or ends.
OtherStarts(q) ==
    /\ IsNext(q)
    /\ \E p \in FreePids \cap Remembered : proc' = [proc EXCEPT ![q] = Process("other", p, "runs")]
    /\ UNCHANGED <<files, locks, weflow, budget>>
OtherEnds(q) == proc[q].at = "runs" /\ Ends(q) /\ UNCHANGED <<files, weflow, budget>>

\* The lock's time stamp passes 20 seconds, then 120.
Age ==
    /\ \/ lock.age = "young" /\ lock' = [lock EXCEPT !.age = "old"]
       \/ lock.age = "old" /\ lock' = [lock EXCEPT !.age = "stale"]
    /\ UNCHANGED <<proc, status, launch, locks, weflow, budget>>

Starting(f) == CheckLock(f) \/ CheckStatus(f) \/ TakeInstance(f) \/ TakeLifecycleToStart(f)
                 \/ StartWeflow(f) \/ WriteLaunch(f)
Scheduling(f) == Admit(f) \/ CreateLock(f) \/ FillLock(f) \/ Trust(f) \/ Record(f) \/ Spawn(f) \/ SpawnFails(f)
                   \/ NameInStatus(f) \/ NameInLock(f) \/ NamingFails(f)
Resetting(h) == Preflight(h) \/ Authorize(h) \/ CheckBrowser(h) \/ TakeLifecycleToReset(h)
                  \/ Report(h) \/ FindParent(h) \/ TerminateParent(h) \/ StopBrowser(h)
                  \/ StopWeflow(h) \/ Clear(h) \/ Conclude(h) \/ LeaveLifecycle(h)
                  \/ RecordFailure(h) \/ RemoveLock(h)

Next == \/ Age
        \/ \E q \in Procs : \/ Launch(q) \/ Starting(q) \/ Leave(q)
                            \/ Lookup(q) \/ Scheduling(q) \/ Resetting(q)
                            \/ Crash(q) \/ OtherStarts(q) \/ OtherEnds(q)

Spec == Init /\ [][Next]_vars

-----------------------------------------------------------------------------
(* What the page shows: _sidebar_history_reset_status.                     *)

\* Mutant: a lock that was not stamped for 20 seconds counts as left behind.
LockStateByAge ==
    CASE lock = NoLock -> "missing"
      [] lock = BlankLock -> "unknown"
      [] lock.age = "young" -> "active"
      [] OTHER -> "inactive"

LockState ==
    CASE lock = NoLock -> "missing"
      [] lock = BlankLock -> "unknown"
      [] lock.pid = 0 /\ lock.age = "young" -> "active"
      [] Owner(lock.pid) # 0 /\ lock.start = 0 -> "unknown"
      [] Owner(lock.pid) # 0 /\ lock.start = Owner(lock.pid) -> "active"
      [] OTHER -> "inactive"

ResetShown ==
    CASE LockState = "unknown" -> "unknown"
      [] LockState = "active" -> IF status.st \in Nonterminal THEN "active" ELSE "unknown"
      [] LockState \in {"missing", "inactive"} ->
            IF status.st = "none" THEN "idle"
            ELSE IF status.st \in Terminal THEN status.st
            ELSE IF StatusBusy THEN "unknown" ELSE "interrupted"

-----------------------------------------------------------------------------
(* Properties                                                              *)

Steps == {"unborn", "gone", "runs", "instance", "lifecycle_start", "start_weflow", "write_launch",
          "preflight", "delay", "delay_unverified"} \cup CheckSteps \cup FrontendUp \cup Working

\* The ranges of the records.
ProcessRecord ==
    [kind : {"none", "frontend", "helper", "other"}, pid : Pids \cup {0}, at : Steps,
     kin : Procs \cup {0}, kinPid : Pids \cup {0}, token : 0..MaxRequests, seen : BOOLEAN,
     result : {"none"} \cup Terminal]
LockRecord == [pid : Pids \cup {0}, start : Procs \cup {0}, token : 0..MaxRequests,
               owner : Procs \cup {0}, age : {"none", "blank", "young", "old", "stale"}]
StatusRecord ==
    [st : {"none"} \cup Nonterminal \cup Terminal, pid : Pids \cup {0}, start : Procs \cup {0}]

\* Every variable stays in its range, and the two locks are held by live processes.
TypeOK ==
    /\ proc \in [Procs -> ProcessRecord] /\ lock \in LockRecord /\ status \in StatusRecord
    /\ launch \in Procs \cup {0} /\ weflow \in BOOLEAN
    /\ instance \in Procs \cup {0} /\ (instance # 0 => Alive(instance))
    /\ lifecycle \in Procs \cup {0} /\ (lifecycle # 0 => Alive(lifecycle))
    /\ requests \in 0..MaxRequests /\ failures \in 0..MaxFailures

\* While the helper clears the history, WeFlow does not run, no sidebar is up
\* and none is past the check that could start WeFlow or the page again.
ClearsStopped ==
    \A h, f \in Procs : proc[h].at = "clear" =>
        /\ ~weflow
        /\ proc[f].kind = "frontend" /\ Alive(f) =>
              proc[f].at \in {"precheck", "instance", "lifecycle_start", "check_first"}

\* From its authorization to its end a helper owns the reset lock: no request,
\* no start and no other helper takes it away, so there is one reset at a time.
WorkingOwnsLock == \A h \in Procs : proc[h].at \in Working => Owned(h)

\* Meanwhile no page is told that the reset ended, was interrupted or never
\* was, so the server refuses every change.
PageIsTold == \A h \in Procs : proc[h].at \in Working => ResetShown \in {"active", "unknown"}

\* The helper's termination hits its parent or nothing, whoever has the pid.
KillsOnlyParent ==
    [][\A h, q \in Procs :
          /\ proc[h].at = "terminate" /\ proc'[h].at \in {"stop_browser", "leave_failed"}
          /\ Alive(q) /\ proc'[q].at = "gone"
          => q = proc[h].kin]_vars

\* When every start, request and reset has come to its end and the lock's
\* first 20 seconds are over, the sidebar can be started again, unless the
\* files name no helper: those a sidebar leaves that stops before naming it.
AtRest == lock.age # "young" /\ \A q \in Procs : Alive(q) => proc[q].at \in {"up", "runs"}
Unnamed == \/ lock = BlankLock
           \/ lock.pid # 0 /\ lock.start = 0
           \/ status.st \in Nonterminal /\ (status.pid = 0 \/ status.start = 0)
ReopensAtRest == AtRest /\ (LockBusy \/ StatusBusy) => Unnamed
=============================================================================
