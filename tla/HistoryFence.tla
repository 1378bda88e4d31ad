---------------------------- MODULE HistoryFence ----------------------------
(***************************************************************************)
(* History writers against a destructive history reset                     *)
(* (runtime/history_fence.py, clear_sidebar_history_data), with the local  *)
(* worker queue (agent/worker_queue.py), whose children take part through  *)
(* a startup handoff.                                                      *)
(*                                                                         *)
(* The operating system fence is the lock file of ProcessLock, here a      *)
(* mutex that dies with its process.  Inside a process one thread owns the *)
(* fence and its siblings adopt it.  A long writer registers a lease under *)
(* the fence and then writes without it; a reset holds the fence, reads    *)
(* the leases and clears only when none is live.                           *)
(***************************************************************************)
EXTENDS Naturals, FiniteSets

CONSTANTS
  Writers,     \* threads of the sidebar that write, fenced or leased
  Resetters,   \* threads that clear the history
  Queue,       \* the thread in run_until_idle
  Children,    \* worker processes, one thread and one task each
  Procs,       \* process ids
  ProcOf,      \* the process of each thread
  Nobody,      \* no thread
  MaxParallel, \* max_parallel of the queue
  MaxStarts    \* bound: how often a process that is not a child is started

Threads == Writers \cup Resetters \cup {Queue} \cup Children

ASSUME ProcOfAssumption == ProcOf \in [Threads -> Procs]
ASSUME NobodyAssumption == Nobody \notin Threads
ASSUME ChildAssumption ==
  \A c \in Children, t \in Threads : ProcOf[c] = ProcOf[t] => c = t
ASSUME KindsAssumption ==
  /\ Writers \cap Resetters = {} /\ (Writers \cup Resetters) \cap Children = {}
  /\ Queue \notin Writers \cup Resetters \cup Children
ASSUME BoundsAssumption == MaxParallel \in Nat \ {0} /\ MaxStarts \in Nat

VARIABLES
  os,        \* the thread that holds the history_reset_fence lock
  local,     \* _ACTIVE_PROCESS_FENCES of each process: phase, owner, adopters
  pc,        \* where each thread is
  job,       \* what it entered, or wants to enter, the fence for
  leases,    \* lease files: thread and process instance that wrote it, and
             \* whether the instance still lists the token
  inc,       \* start marker of the instance that runs under each process id
  handoff,   \* the startup handoff file of each child is there
  ready,     \* its .ready file is there
  expired,   \* handoff_deadline_epoch has passed
  pending,   \* tasks of the queue that were not started
  running,   \* children the queue watches
  cur,       \* the child it is starting
  okay,      \* startup_approved
  task,      \* task status
  exit,      \* exit code of each child
  approved,  \* history: the parent approved the child in time
  broken     \* history: the queue ended by a crash, a fence timeout or a worker that
             \* cannot be reaped

fenceVars == <<os, local, leases, inc>>
handoffVars == <<handoff, ready, expired, approved>>
queueVars == <<pending, running, cur, okay, task, exit, broken>>
vars == <<fenceVars, pc, job, handoffVars, queueVars>>

NoFence == [phase |-> "none", owner |-> Nobody, adopters |-> {}]
Fence(t) == local[ProcOf[t]]
LeaseOf(t) == [by |-> t, inc |-> inc[ProcOf[t]], listed |-> TRUE]

Init ==
  /\ os = Nobody
  /\ local = [p \in Procs |-> NoFence]
  /\ pc = [t \in Threads |-> IF t \in Children THEN "unborn" ELSE "idle"]
  /\ job = [t \in Threads |-> "none"]
  /\ leases = {}
  /\ inc = [p \in Procs |-> 1]
  /\ handoff = [c \in Children |-> FALSE]
  /\ ready = [c \in Children |-> FALSE]
  /\ expired = [c \in Children |-> FALSE]
  /\ approved = [c \in Children |-> FALSE]
  /\ pending = Children
  /\ running = {}
  /\ cur = Nobody
  /\ okay = FALSE
  /\ task = [c \in Children |-> "queued"]
  /\ exit = [c \in Children |-> "none"]
  /\ broken = FALSE

-----------------------------------------------------------------------------
(* Entering and leaving the fence of a process. *)

Goto(t, place) == pc' = [pc EXCEPT ![t] = place]
Ask(t, j) == Goto(t, "asking") /\ job' = [job EXCEPT ![t] = j]

\* The handoff of a start is over; "raise" when an exception is on its way.
EndsHandoff == {"endhandoff", "raise"}

\* Where a thread goes on when its visit of the fence is over.
After(t) ==
  CASE job[t] = "register" -> IF t = Queue THEN "looping" ELSE "leased"
    [] job[t] = "handoff" -> "spawning"
    [] job[t] = "endhandoff" -> "looping"
    [] job[t] = "raise" -> "failing"
    [] job[t] = "adopt" -> "waitack"
    [] job[t] = "unregister" -> IF t \in Children THEN "dead" ELSE "idle"
    [] OTHER -> "idle"

\* The queue has started its child when the handoff is over.
Continue(t) ==
  /\ Goto(t, After(t))
  /\ job' = [job EXCEPT ![t] = "none"]
  /\ IF job[t] \in EndsHandoff
     THEN /\ running' = IF okay THEN running \cup {cur} ELSE running
          /\ cur' = Nobody /\ okay' = FALSE
     ELSE UNCHANGED <<running, cur, okay>>
  /\ exit' = IF t \in Children /\ job[t] = "unregister" /\ exit[t] = "none"
             THEN [exit EXCEPT ![t] = IF task[t] = "completed" THEN "zero" ELSE "error"]
             ELSE exit
  /\ UNCHANGED <<pending, task, broken>>

\* Adopters can join as long as somebody of the process is in the fence.
Adoptable(t) == Fence(t).phase = "active"

Adopt(t) ==
  /\ pc[t] = "asking" /\ Adoptable(t)
  /\ local' = [local EXCEPT ![ProcOf[t]].adopters = @ \cup {t}]
  /\ Goto(t, "inside")
  /\ UNCHANGED <<os, leases, inc, job, handoffVars, queueVars>>

\* The first thread publishes itself before it tries the lock file.
Claim(t) ==
  /\ pc[t] = "asking" /\ Fence(t) = NoFence
  /\ local' = [local EXCEPT ![ProcOf[t]] = [phase |-> "acquiring", owner |-> t, adopters |-> {}]]
  /\ Goto(t, "acquiring")
  /\ UNCHANGED <<os, leases, inc, job, handoffVars, queueVars>>

Activate(t) ==
  /\ pc[t] = "acquiring" /\ os = Nobody
  /\ os' = t
  /\ local' = [local EXCEPT ![ProcOf[t]].phase = "active"]
  /\ Goto(t, "inside")
  /\ UNCHANGED <<leases, inc, job, handoffVars, queueVars>>

\* What is done inside: the files of leases and handoffs.
Body(t) ==
  CASE job[t] = "register" -> leases' = leases \cup {LeaseOf(t)} /\ UNCHANGED handoff
    [] job[t] = "unregister" -> leases' = leases \ {LeaseOf(t)} /\ UNCHANGED handoff
    [] job[t] = "handoff" -> handoff' = [handoff EXCEPT ![cur] = TRUE] /\ UNCHANGED leases
    [] job[t] \in EndsHandoff -> handoff' = [handoff EXCEPT ![cur] = FALSE] /\ UNCHANGED leases
    [] OTHER -> UNCHANGED <<leases, handoff>>

Leave(t) ==
  /\ pc[t] = "inside" /\ job[t] # "adopt"
  /\ Body(t)
  /\ IF t \in Fence(t).adopters
     THEN /\ local' = [local EXCEPT ![ProcOf[t]].adopters = @ \ {t}]
          /\ Continue(t)
     ELSE /\ local' = [local EXCEPT ![ProcOf[t]].phase = "closing"]
          /\ Goto(t, "draining")
          /\ UNCHANGED <<job, queueVars>>
  /\ UNCHANGED <<os, inc, ready, expired, approved>>

\* The owner waits for its adopters before the lock file is given up.
Drain(t) ==
  /\ pc[t] = "draining" /\ Fence(t).adopters = {}
  /\ local' = [local EXCEPT ![ProcOf[t]] = NoFence]
  /\ Goto(t, "unlocking")
  /\ UNCHANGED <<os, leases, inc, job, handoffVars, queueVars>>

Unlock(t) ==
  /\ pc[t] = "unlocking"
  /\ os' = Nobody
  /\ Continue(t)
  /\ UNCHANGED <<local, leases, inc, handoffVars>>

\* A lease or handoff is written at once while a sibling has the fence.
RegisterDirectly(t) ==
  /\ pc[t] = "asking" /\ job[t] \in {"register", "handoff"} /\ Adoptable(t)
  /\ Body(t)
  /\ Continue(t)
  /\ UNCHANGED <<os, local, inc, ready, expired, approved>>

\* The fence is not obtained in time.  A release then drops its token and
\* leaves the file; the queue's handoff release raises through the whole run.
GiveUp(t) ==
  /\ pc[t] \in {"asking", "acquiring"}
  /\ local' = IF pc[t] = "acquiring" THEN [local EXCEPT ![ProcOf[t]] = NoFence] ELSE local
  /\ leases' = IF job[t] = "unregister"
               THEN (leases \ {LeaseOf(t)}) \cup {[LeaseOf(t) EXCEPT !.listed = FALSE]}
               ELSE leases
  /\ job' = [job EXCEPT ![t] = "none"]
  /\ CASE t \in Children -> Goto(t, "dead") /\ exit' = [exit EXCEPT ![t] = "error"]
                            /\ UNCHANGED <<pending, running, cur, okay, task, broken>>
       [] t = Queue /\ job[t] = "handoff" ->
            /\ Goto(t, "looping")
            /\ task' = [task EXCEPT ![cur] = "failed"]
            /\ cur' = Nobody
            /\ UNCHANGED <<pending, running, okay, exit, broken>>
       [] t = Queue /\ job[t] \in EndsHandoff ->
            /\ Goto(t, "failing")
            /\ cur' = Nobody /\ okay' = FALSE /\ broken' = TRUE
            /\ UNCHANGED <<pending, running, task, exit>>
       [] OTHER -> Goto(t, "idle") /\ UNCHANGED queueVars
  /\ UNCHANGED <<os, inc, handoffVars>>

-----------------------------------------------------------------------------
(* Writers of the sidebar. *)

WriteFenced(w) ==
  /\ pc[w] = "idle"
  /\ Ask(w, "write")
  /\ UNCHANGED <<fenceVars, handoffVars, queueVars>>

TakeLease(w) ==
  /\ pc[w] = "idle"
  /\ Ask(w, "register")
  /\ UNCHANGED <<fenceVars, handoffVars, queueVars>>

EndLease(w) ==
  /\ pc[w] = "leased"
  /\ Ask(w, "unregister")
  /\ UNCHANGED <<fenceVars, handoffVars, queueVars>>

-----------------------------------------------------------------------------
(* The death of processes. *)

ProcUp(p) == \A c \in Children : ProcOf[c] = p => pc[c] \notin {"unborn", "dead"}

Freed(p) ==
  /\ os' = IF os # Nobody /\ ProcOf[os] = p THEN Nobody ELSE os
  /\ local' = [local EXCEPT ![p] = NoFence]

\* A child dies by itself or is terminated.
Dies(c) ==
  /\ Freed(ProcOf[c])
  /\ exit' = [exit EXCEPT ![c] = IF @ = "none" THEN "error" ELSE @]

ChildCrash(c) ==
  /\ pc[c] \notin {"unborn", "dead"}
  /\ Dies(c)
  /\ Goto(c, "dead")
  /\ job' = [job EXCEPT ![c] = "none"]
  /\ UNCHANGED <<leases, inc, handoffVars, pending, running, cur, okay, task, broken>>

Crash(p) ==
  /\ inc[p] < MaxStarts /\ \A c \in Children : ProcOf[c] # p
  /\ inc' = [inc EXCEPT ![p] = @ + 1]
  /\ Freed(p)
  /\ pc' = [t \in Threads |-> IF ProcOf[t] = p THEN "idle" ELSE pc[t]]
  /\ job' = [t \in Threads |-> IF ProcOf[t] = p THEN "none" ELSE job[t]]
  /\ leases' = { IF ProcOf[l.by] = p THEN [l EXCEPT !.listed = FALSE] ELSE l : l \in leases }
  /\ IF ProcOf[Queue] = p
     THEN pending' = {} /\ running' = {} /\ cur' = Nobody /\ okay' = FALSE /\ broken' = TRUE
     ELSE UNCHANGED <<pending, running, cur, okay, broken>>
  /\ UNCHANGED <<handoffVars, task, exit>>

-----------------------------------------------------------------------------
(* run_until_idle *)

StartRun ==
  /\ pc[Queue] = "idle" /\ pending # {}
  /\ Ask(Queue, "register")
  /\ UNCHANGED <<fenceVars, handoffVars, queueVars>>

Assign(c) ==
  /\ pc[Queue] = "looping" /\ c \in pending /\ Cardinality(running) < MaxParallel
  /\ pending' = pending \ {c}
  /\ task' = [task EXCEPT ![c] = "assigned"]
  /\ cur' = c
  /\ Ask(Queue, "handoff")
  /\ UNCHANGED <<fenceVars, handoffVars, running, okay, exit, broken>>

Spawn ==
  /\ pc[Queue] = "spawning"
  /\ pc' = [pc EXCEPT ![Queue] = "waiting", ![cur] = "starting"]
  /\ UNCHANGED <<fenceVars, job, handoffVars, queueVars>>

\* ready_for_process, then the approval: the ready file is removed.
Approve ==
  /\ pc[Queue] = "waiting" /\ ready[cur] /\ pc[cur] # "dead"
  /\ ready' = [ready EXCEPT ![cur] = FALSE]
  /\ approved' = [approved EXCEPT ![cur] = TRUE]
  /\ okay' = TRUE
  /\ Ask(Queue, "endhandoff")
  /\ UNCHANGED <<fenceVars, handoff, expired, pending, running, cur, task, exit, broken>>

\* The process cannot be made, has ended, or is not ready within five seconds.
StartupFails ==
  /\ pc[Queue] \in {"spawning", "waiting"}
  /\ IF pc[Queue] = "waiting" THEN Dies(cur) ELSE UNCHANGED <<os, local, exit>>
  /\ pc' = [pc EXCEPT ![Queue] = "asking", ![cur] = "dead"]
  /\ job' = [job EXCEPT ![Queue] = "endhandoff", ![cur] = "none"]
  /\ task' = [task EXCEPT ![cur] = "failed"]
  /\ UNCHANGED <<leases, inc, handoffVars, pending, running, cur, okay, broken>>

\* ... and cannot be terminated: the exception leaves the run.
StartupUnreaped ==
  /\ pc[Queue] = "waiting" /\ pc[cur] # "dead"
  /\ task' = [task EXCEPT ![cur] = "failed"]
  /\ broken' = TRUE
  /\ Ask(Queue, "raise")
  /\ UNCHANGED <<fenceVars, handoffVars, pending, running, cur, okay, exit>>

Terminal(c) == task[c] \in {"completed", "failed"}

FailUnlessTerminal(c) == task' = [task EXCEPT ![c] = IF Terminal(c) THEN @ ELSE "failed"]

Poll(c) ==
  /\ pc[Queue] = "looping" /\ c \in running /\ pc[c] = "dead"
  /\ running' = running \ {c}
  /\ FailUnlessTerminal(c)
  /\ UNCHANGED <<fenceVars, pc, job, handoffVars, pending, cur, okay, exit, broken>>

\* Mutant: the run's timeout looks only at the tasks that are not started.
DeadlineOfPending ==
  /\ pc[Queue] = "looping" /\ pending # {}
  /\ Goto(Queue, "failing")
  /\ UNCHANGED <<fenceVars, job, handoffVars, queueVars>>

\* max_seconds are over.
Deadline ==
  /\ pc[Queue] = "looping" /\ pending \cup running # {}
  /\ Goto(Queue, "failing")
  /\ UNCHANGED <<fenceVars, job, handoffVars, queueVars>>

FailRunning(c) ==
  /\ pc[Queue] = "failing" /\ c \in running
  /\ Dies(c)
  /\ Goto(c, "dead")
  /\ job' = [job EXCEPT ![c] = "none"]
  /\ running' = running \ {c}
  /\ FailUnlessTerminal(c)
  /\ UNCHANGED <<leases, inc, handoffVars, pending, cur, okay, broken>>

\* A worker that cannot be reaped: the others stay as they are, and what was not
\* started waits for another run.
Unreaped ==
  /\ pc[Queue] = "failing" /\ \E c \in running : pc[c] # "dead"
  /\ running' = {} /\ broken' = TRUE
  /\ Ask(Queue, "unregister")
  /\ UNCHANGED <<fenceVars, handoffVars, pending, cur, okay, task, exit>>

\* Mutant: tasks that were never started are forgotten.
DropPending(c) ==
  /\ pc[Queue] = "failing" /\ running = {} /\ c \in pending
  /\ pending' = pending \ {c}
  /\ UNCHANGED <<fenceVars, pc, job, handoffVars, running, cur, okay, task, exit, broken>>

FailPending(c) ==
  /\ pc[Queue] = "failing" /\ running = {} /\ c \in pending
  /\ pending' = pending \ {c}
  /\ task' = [task EXCEPT ![c] = "failed"]
  /\ UNCHANGED <<fenceVars, pc, job, handoffVars, running, cur, okay, exit, broken>>

RunEnds ==
  /\ pc[Queue] \in {"looping", "failing"} /\ pending \cup running = {}
  /\ Ask(Queue, "unregister")
  /\ UNCHANGED <<fenceVars, handoffVars, queueVars>>

-----------------------------------------------------------------------------
(* A worker process. *)

ChildAdopts(c) ==
  /\ pc[c] = "starting"
  /\ Ask(c, "adopt")
  /\ UNCHANGED <<fenceVars, handoffVars, queueVars>>

\* The handoff must be there and in time; then the child's own lease is written.
ChildRegisters(c) ==
  /\ pc[c] = "inside" /\ job[c] = "adopt"
  /\ IF handoff[c] /\ ~expired[c]
     THEN /\ leases' = leases \cup {LeaseOf(c)}
          /\ Goto(c, "adopting")
          /\ UNCHANGED <<os, local, job, exit>>
     ELSE /\ Dies(c)
          /\ Goto(c, "dead")
          /\ job' = [job EXCEPT ![c] = "none"]
          /\ UNCHANGED leases
  /\ UNCHANGED <<inc, handoffVars, pending, running, cur, okay, task, broken>>

ChildOffers(c) ==
  /\ pc[c] = "adopting"
  /\ ready' = [ready EXCEPT ![c] = TRUE]
  /\ Goto(c, "offering")
  /\ UNCHANGED <<fenceVars, job, handoff, expired, approved, queueVars>>

\* The handoff file goes last; then the fence of the child is closed.
ChildTakesOver(c) ==
  /\ pc[c] = "offering"
  /\ handoff' = [handoff EXCEPT ![c] = FALSE]
  /\ local' = [local EXCEPT ![ProcOf[c]].phase = "closing"]
  /\ Goto(c, "draining")
  /\ UNCHANGED <<os, leases, inc, job, ready, expired, approved, queueVars>>

\* The parent's answer is the disappearance of the ready file...
ChildSeesAnswer(c) ==
  /\ pc[c] = "waitack" /\ ~ready[c]
  /\ Goto(c, "clock")
  /\ UNCHANGED <<fenceVars, job, handoffVars, queueVars>>

\* Mutant: a missing ready file is an approval whatever the time.
ChildChecksNoClock(c) ==
  /\ pc[c] = "clock"
  /\ Goto(c, "working")
  /\ UNCHANGED <<fenceVars, job, handoffVars, queueVars>>

\* ...unless the deadline has passed, when anybody may have removed it.
ChildChecksClock(c) ==
  /\ pc[c] = "clock"
  /\ IF expired[c] THEN Ask(c, "unregister") ELSE Goto(c, "working") /\ job' = job
  /\ UNCHANGED <<fenceVars, handoffVars, queueVars>>

ChildTimesOut(c) ==
  /\ pc[c] = "waitack" /\ expired[c]
  /\ Ask(c, "unregister")
  /\ UNCHANGED <<fenceVars, handoffVars, queueVars>>

ChildWorks(c) ==
  /\ pc[c] = "working" /\ task[c] = "assigned"
  /\ task' = [task EXCEPT ![c] = "completed"]
  /\ UNCHANGED <<fenceVars, pc, job, handoffVars, pending, running, cur, okay, exit, broken>>

ChildEnds(c) ==
  /\ pc[c] = "working"
  /\ Ask(c, "unregister")
  /\ UNCHANGED <<fenceVars, handoffVars, queueVars>>

\* ttl_seconds pass after the handoff was written.
Expire(c) ==
  /\ handoff[c] \/ ready[c] \/ pc[c] \notin {"unborn", "dead"}
  /\ ~expired[c]
  /\ expired' = [expired EXCEPT ![c] = TRUE]
  /\ UNCHANGED <<fenceVars, pc, job, handoff, ready, approved, queueVars>>

-----------------------------------------------------------------------------
(* clear_sidebar_history_data: the lock file is taken directly, without wait. *)

StartReset(r) ==
  /\ pc[r] = "idle" /\ os = Nobody
  /\ os' = r
  /\ Goto(r, "scanning")
  /\ UNCHANGED <<local, leases, inc, job, handoffVars, queueVars>>

\* Mutant: only the leases of other processes are looked at.
LiveElsewhere(l, r) == ProcOf[l.by] # ProcOf[r] /\ ProcUp(ProcOf[l.by]) /\ inc[ProcOf[l.by]] = l.inc

\* A lease of the reader's own process instance counts while its token is
\* listed, any other while its process runs.
Live(l, r) ==
  IF ProcOf[l.by] = ProcOf[r] /\ l.inc = inc[ProcOf[r]]
  THEN l.listed
  ELSE ProcUp(ProcOf[l.by]) /\ inc[ProcOf[l.by]] = l.inc

\* active_history_writer_leases removes what is not live and reports the rest.
Scan(r) ==
  /\ pc[r] = "scanning"
  /\ leases' = { l \in leases : Live(l, r) }
  /\ handoff' = [c \in Children |-> handoff[c] /\ ~expired[c]]
  /\ ready' = [c \in Children |-> ready[c] /\ ~expired[c]]
  /\ IF leases' = {} /\ \A c \in Children : ~handoff'[c]
     THEN Goto(r, "clearing") /\ os' = os
     ELSE Goto(r, "idle") /\ os' = Nobody
  /\ UNCHANGED <<local, inc, job, expired, approved, queueVars>>

EndReset(r) ==
  /\ pc[r] = "clearing"
  /\ os' = Nobody
  /\ Goto(r, "idle")
  /\ UNCHANGED <<local, leases, inc, job, handoffVars, queueVars>>

-----------------------------------------------------------------------------
FenceStep(t) ==
  \/ Adopt(t) \/ Claim(t) \/ Activate(t) \/ Leave(t) \/ Drain(t) \/ Unlock(t)
  \/ RegisterDirectly(t) \/ GiveUp(t)

QueueStep ==
  \/ StartRun \/ Spawn \/ Approve \/ StartupFails \/ StartupUnreaped \/ Deadline \/ Unreaped \/ RunEnds
  \/ \E c \in Children : Assign(c) \/ Poll(c) \/ FailRunning(c) \/ FailPending(c)

ChildStep(c) ==
  \/ ChildAdopts(c) \/ ChildRegisters(c) \/ ChildOffers(c) \/ ChildTakesOver(c)
  \/ ChildSeesAnswer(c) \/ ChildChecksClock(c) \/ ChildTimesOut(c)
  \/ ChildWorks(c) \/ ChildEnds(c)

ResetStep(r) == StartReset(r) \/ Scan(r) \/ EndReset(r)

Next ==
  \/ \E t \in Threads : FenceStep(t)
  \/ \E w \in Writers : WriteFenced(w) \/ TakeLease(w) \/ EndLease(w)
  \/ QueueStep
  \/ \E c \in Children : ChildStep(c) \/ ChildCrash(c) \/ Expire(c)
  \/ \E r \in Resetters : ResetStep(r)
  \/ \E p \in Procs : Crash(p)

\* The threads of the sidebar leave the fence and do not wait in it for ever,
\* the queue goes on with its loop.  A child may hang anywhere.
Fairness ==
  /\ \A t \in Threads \ Children : WF_vars(FenceStep(t))
  /\ WF_vars(Spawn \/ Approve \/ StartupFails)
  /\ WF_vars(Deadline \/ RunEnds \/ \E c \in Children : FailRunning(c) \/ FailPending(c))
  /\ \A r \in Resetters : WF_vars(Scan(r)) /\ WF_vars(EndReset(r))

Spec == Init /\ [][Next]_vars
FairSpec == Spec /\ Fairness

-----------------------------------------------------------------------------
Places ==
  {"unborn", "dead", "idle", "asking", "acquiring", "inside", "draining", "unlocking",
   "leased", "looping", "spawning", "waiting", "failing", "starting", "adopting",
   "offering", "waitack", "clock", "working", "scanning", "clearing"}

\* The types of the variables.
TypeOK ==
  /\ os \in Threads \cup {Nobody}
  /\ local \in [Procs -> [phase : {"none", "acquiring", "active", "closing"},
                          owner : Threads \cup {Nobody}, adopters : SUBSET Threads]]
  /\ pc \in [Threads -> Places]
  /\ job \in [Threads -> {"none", "write", "register", "unregister", "handoff", "endhandoff", "raise", "adopt"}]
  /\ leases \subseteq [by : Threads, inc : Nat, listed : BOOLEAN]
  /\ inc \in [Procs -> Nat]
  /\ handoff \in [Children -> BOOLEAN] /\ ready \in [Children -> BOOLEAN]
  /\ expired \in [Children -> BOOLEAN] /\ approved \in [Children -> BOOLEAN]
  /\ pending \subseteq Children /\ running \subseteq Children
  /\ cur \in Children \cup {Nobody} /\ okay \in BOOLEAN /\ broken \in BOOLEAN
  /\ task \in [Children -> {"queued", "assigned", "completed", "failed"}]
  /\ exit \in [Children -> {"none", "zero", "error"}]

Writing(t) == pc[t] \in {"inside", "leased", "looping", "spawning", "waiting", "failing", "working"}

\* While the history is being cleared nobody writes it: no thread in the fence,
\* no leased writer, no queue in its loop and no worker of it.
ClearsAlone ==
  \A r \in Resetters : pc[r] = "clearing" => \A t \in Threads : ~Writing(t)

\* A worker starts to work only after its parent approved it in time; a ready
\* file that a reset swept away is not taken for an answer.
WorkIsApproved == \A c \in Children : pc[c] = "working" => approved[c]

\* A finished run leaves no task open and no worker alive, unless it was ended
\* by a crash, the timeout of a handoff's release or a worker that cannot be reaped.
RunLeavesNothing ==
  pc[Queue] = "idle" /\ pending = {} /\ ~broken =>
    \A c \in Children : Terminal(c) /\ pc[c] \in {"unborn", "dead"}

\* The queue ends, even if a worker hangs, holding the fence or not.
RunEndsInTheEnd == pc[Queue] = "looping" ~> pc[Queue] = "idle"
=============================================================================
