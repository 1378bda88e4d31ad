----------------------------- MODULE ProcessLock -----------------------------
(***************************************************************************)
(* The two lock files of runtime/process_lock.py on one path: ProcessLock  *)
(* ("long": held for minutes, with heartbeats) and ShortProcessLock        *)
(* ("short": held for one operation, reclaimed when old).                  *)
(*                                                                         *)
(* The lock is a file made with O_EXCL.  Whoever creates, judges or        *)
(* removes it holds the mutation guard, an operating system lock on a      *)
(* sibling file that dies with its process.  Heartbeats and the release of *)
(* a thread that could not get the guard write the file without it.        *)
(***************************************************************************)
EXTENDS Naturals, FiniteSets

CONSTANTS
  Threads,    \* callers of acquire and release
  Procs,      \* process ids
  ProcOf,     \* the process of each thread
  Tokens,     \* owner tokens (uuid4)
  NoToken,    \* no token
  NoFile,     \* the path does not exist
  Nobody,     \* no thread
  MaxStarts,  \* bound: how often a process id is used
  MaxFails    \* bound: file operations that fail

ASSUME ProcOfAssumption == ProcOf \in [Threads -> Procs]
ASSUME NoTokenAssumption == NoToken \notin Tokens
ASSUME NobodyAssumption == Nobody \notin Threads
ASSUME BoundsAssumption == MaxStarts \in Nat /\ MaxFails \in Nat

Kinds == {"long", "short"}
\* A file in the middle of a write, or whose write failed, is not JSON.
Contents == {"unreadable", "held", "released"}
Files == [ tok : Tokens, proc : Procs, inc : Nat, content : Contents, aged : BOOLEAN ]

ASSUME NoFileAssumption == NoFile \notin Files

VARIABLES
  kind,     \* which of the two locks uses the path
  file,     \* the lock file: token, process and start marker of its creator
  guard,    \* the thread that holds the mutation guard
  pc,       \* where each thread is
  token,    \* its owner_token
  seen,     \* the token it read in a stale file
  active,   \* _ACTIVE_LONG_LOCK_TOKENS / _ACTIVE_SHORT_LOCK_TOKENS per process
  inc,      \* start marker of the instance that runs under each process id
  fails     \* file operations that failed so far

vars == <<kind, file, guard, pc, token, seen, active, inc, fails>>

CSStates == {"held", "beating"}
GuardStates == {"guarded", "stale", "writing", "leaving", "unlinking"}
States == {"idle", "marking"} \cup CSStates \cup GuardStates

InCS(t) == pc[t] \in CSStates

Init ==
  /\ kind \in Kinds
  /\ file = NoFile
  /\ guard = Nobody
  /\ pc = [t \in Threads |-> "idle"]
  /\ token = [t \in Threads |-> NoToken]
  /\ seen = [t \in Threads |-> NoToken]
  /\ active = [p \in Procs |-> {}]
  /\ inc = [p \in Procs |-> 1]
  /\ fails = 0

Fail == fails < MaxFails /\ fails' = fails + 1

\* A write through the descriptor of t: it reaches the path only while the
\* file t created is still there.
Written(t, content) ==
  IF file # NoFile /\ file.tok = token[t] THEN [file EXCEPT !.content = content] ELSE file

\* The descriptor is closed and the call returns.
Idle(t) == /\ pc' = [pc EXCEPT ![t] = "idle"]
           /\ token' = [token EXCEPT ![t] = NoToken]
           /\ seen' = [seen EXCEPT ![t] = NoToken]

-----------------------------------------------------------------------------
(* Acquiring. *)

Enter(t) ==
  /\ pc[t] = "idle" /\ guard = Nobody
  /\ guard' = t
  /\ pc' = [pc EXCEPT ![t] = "guarded"]
  /\ UNCHANGED <<kind, file, token, seen, active, inc, fails>>

Fresh ==
  { k \in Tokens : /\ file = NoFile \/ file.tok # k
                   /\ \A p \in Procs : k \notin active[p]
                   /\ \A t \in Threads : token[t] # k /\ seen[t] # k }

Create(t) ==
  /\ pc[t] = "guarded" /\ file = NoFile /\ Fresh # {}
  /\ LET k == CHOOSE k \in Tokens : k \in Fresh
     IN /\ file' = [tok |-> k, proc |-> ProcOf[t], inc |-> inc[ProcOf[t]],
                    content |-> "unreadable", aged |-> FALSE]
        /\ token' = [token EXCEPT ![t] = k]
        /\ active' = [active EXCEPT ![ProcOf[t]] = @ \cup {k}]
  /\ pc' = [pc EXCEPT ![t] = "writing"]
  /\ UNCHANGED <<kind, guard, seen, inc, fails>>

Publish(t) ==
  /\ pc[t] = "writing"
  /\ file' = Written(t, "held")
  /\ pc' = [pc EXCEPT ![t] = "held"]
  /\ guard' = Nobody
  /\ UNCHANGED <<kind, token, seen, active, inc, fails>>

\* The payload cannot be written: a released marker is tried, the token is
\* given up and the file is deleted, each of which may fail too.
PublishFails(t) ==
  /\ pc[t] = "writing" /\ Fail
  /\ file' \in {NoFile, Written(t, "released"), Written(t, "unreadable")}
  /\ active' = [active EXCEPT ![ProcOf[t]] = @ \ {token[t]}]
  /\ guard' = Nobody
  /\ Idle(t)
  /\ UNCHANGED <<kind, inc>>

SameInstance(t) == file.proc = ProcOf[t] /\ file.inc = inc[ProcOf[t]]
CreatorDead == inc[file.proc] # file.inc
Forgotten(t) == SameInstance(t) /\ file.tok \notin active[ProcOf[t]]

\* _holder_is_stale: a file that cannot be read is left for an operator.
LongStale(t) ==
  \/ file.content = "released"
  \/ file.content = "held" /\ (CreatorDead \/ Forgotten(t))

\* Mutant: any old file is reclaimed, its owner alive or not.
ShortStaleByAge(t) ==
  \/ file.content = "released"
  \/ file.content = "held" /\ Forgotten(t)
  \/ file.aged

\* Mutant: only a released or forgotten file is reclaimed.
ShortStaleNeverOld(t) ==
  \/ file.content = "released"
  \/ file.content = "held" /\ Forgotten(t)

\* pid_lock_file_is_stale
ShortStale(t) ==
  \/ file.content = "released"
  \/ file.content = "held" /\ Forgotten(t)
  \/ file.aged /\ (file.content = "unreadable" \/ CreatorDead)

Stale(t) == IF kind = "long" THEN LongStale(t) ELSE ShortStale(t)

Refuse(t) ==
  /\ pc[t] = "guarded" /\ file # NoFile /\ ~Stale(t)
  /\ guard' = Nobody
  /\ Idle(t)
  /\ UNCHANGED <<kind, file, active, inc, fails>>

FindStale(t) ==
  /\ pc[t] = "guarded" /\ file # NoFile /\ Stale(t)
  /\ pc' = [pc EXCEPT ![t] = "stale"]
  /\ seen' = [seen EXCEPT ![t] = file.tok]
  /\ UNCHANGED <<kind, file, guard, token, active, inc, fails>>

\* Only the owner that was judged is removed.
StillSeen(t) == file # NoFile /\ file.tok = seen[t]

Unlink(t) ==
  /\ pc[t] = "stale" /\ StillSeen(t)
  /\ file' = NoFile
  /\ pc' = [pc EXCEPT ![t] = "guarded"]
  /\ seen' = [seen EXCEPT ![t] = NoToken]
  /\ UNCHANGED <<kind, guard, token, active, inc, fails>>

UnlinkFails(t) ==
  /\ pc[t] = "stale"
  /\ IF StillSeen(t) THEN Fail ELSE fails' = fails
  /\ guard' = Nobody
  /\ Idle(t)
  /\ UNCHANGED <<kind, file, active, inc>>

-----------------------------------------------------------------------------
(* Holding. *)

\* The heartbeat and update_metadata overwrite the file in place.
Beat(t) ==
  /\ kind = "long" /\ pc[t] = "held"
  /\ file' = Written(t, "unreadable")
  /\ pc' = [pc EXCEPT ![t] = "beating"]
  /\ UNCHANGED <<kind, guard, token, seen, active, inc, fails>>

BeatDone(t) ==
  /\ pc[t] = "beating"
  /\ file' = IF file # NoFile /\ file.tok = token[t]
             THEN [file EXCEPT !.content = "held", !.aged = FALSE] ELSE file
  /\ pc' = [pc EXCEPT ![t] = "held"]
  /\ UNCHANGED <<kind, guard, token, seen, active, inc, fails>>

BeatFails(t) ==
  /\ pc[t] = "beating" /\ Fail
  /\ pc' = [pc EXCEPT ![t] = "held"]
  /\ UNCHANGED <<kind, file, guard, token, seen, active, inc>>

\* stale_after_seconds pass without a write.
Age ==
  /\ file # NoFile /\ ~file.aged
  /\ file' = [file EXCEPT !.aged = TRUE]
  /\ UNCHANGED <<kind, guard, pc, token, seen, active, inc, fails>>

-----------------------------------------------------------------------------
(* Releasing. *)

Leave(t) ==
  /\ pc[t] = "held" /\ guard = Nobody
  /\ guard' = t
  /\ pc' = [pc EXCEPT ![t] = "leaving"]
  /\ UNCHANGED <<kind, file, token, seen, active, inc, fails>>

\* The released marker, the descriptor and the token, in that order.
MarkReleased(t) ==
  /\ pc[t] = "leaving"
  /\ \/ file' = Written(t, "released") /\ fails' = fails
     \/ Fail /\ file' \in {file, Written(t, "unreadable")}
  /\ active' = [active EXCEPT ![ProcOf[t]] = @ \ {token[t]}]
  /\ pc' = [pc EXCEPT ![t] = "unlinking"]
  /\ UNCHANGED <<kind, guard, token, seen, inc>>

OwnFile(t) == file # NoFile /\ file.tok = token[t]

\* The long lock reads a file that is not JSON as somebody else's and leaves it.
UnlinkOwn(t) ==
  /\ pc[t] = "unlinking"
  /\ ~(OwnFile(t) /\ kind = "short" /\ file.content = "unreadable")
  /\ file' = IF OwnFile(t) /\ file.content # "unreadable" THEN NoFile ELSE file
  /\ guard' = Nobody
  /\ Idle(t)
  /\ UNCHANGED <<kind, active, inc, fails>>

\* All attempts fail: without a marker in the file the token is registered again.
UnlinkOwnFails(t) ==
  /\ pc[t] = "unlinking" /\ OwnFile(t)
  /\ IF kind = "short" /\ file.content = "unreadable" THEN fails' = fails ELSE Fail
  /\ active' = IF file.content = "released" THEN active
               ELSE [active EXCEPT ![ProcOf[t]] = @ \cup {token[t]}]
  /\ guard' = Nobody
  /\ Idle(t)
  /\ UNCHANGED <<kind, file, inc>>

\* The guard is not obtained within two seconds: only the marker is written.
LeaveUnguarded(t) ==
  /\ pc[t] = "held" /\ guard # Nobody
  /\ file' = Written(t, "unreadable")
  /\ pc' = [pc EXCEPT ![t] = "marking"]
  /\ UNCHANGED <<kind, guard, token, seen, active, inc, fails>>

\* Mutant: the file is deleted although the guard was not obtained.
LeftUnguardedUnlinks(t) ==
  /\ pc[t] = "marking"
  /\ file' = NoFile
  /\ active' = [active EXCEPT ![ProcOf[t]] = @ \ {token[t]}]
  /\ Idle(t)
  /\ UNCHANGED <<kind, guard, inc, fails>>

LeftUnguarded(t) ==
  /\ pc[t] = "marking"
  /\ \/ file' = Written(t, "released") /\ fails' = fails
     \/ Fail /\ file' = file
  /\ active' = [active EXCEPT ![ProcOf[t]] = @ \ {token[t]}]
  /\ Idle(t)
  /\ UNCHANGED <<kind, guard, inc>>

\* The process dies; its id is used by the next instance.
Crash(p) ==
  /\ inc[p] < MaxStarts
  /\ inc' = [inc EXCEPT ![p] = @ + 1]
  /\ pc' = [t \in Threads |-> IF ProcOf[t] = p THEN "idle" ELSE pc[t]]
  /\ token' = [t \in Threads |-> IF ProcOf[t] = p THEN NoToken ELSE token[t]]
  /\ seen' = [t \in Threads |-> IF ProcOf[t] = p THEN NoToken ELSE seen[t]]
  /\ active' = [active EXCEPT ![p] = {}]
  /\ guard' = IF guard # Nobody /\ ProcOf[guard] = p THEN Nobody ELSE guard
  /\ UNCHANGED <<kind, file, fails>>

-----------------------------------------------------------------------------
GuardStep(t) ==
  \/ Create(t) \/ Publish(t) \/ PublishFails(t) \/ Refuse(t) \/ FindStale(t)
  \/ Unlink(t) \/ UnlinkFails(t) \/ MarkReleased(t) \/ UnlinkOwn(t) \/ UnlinkOwnFails(t)

Next ==
  \/ \E t \in Threads :
       \/ Enter(t) \/ GuardStep(t)
       \/ Beat(t) \/ BeatDone(t) \/ BeatFails(t)
       \/ Leave(t) \/ LeaveUnguarded(t) \/ LeftUnguarded(t)
  \/ Age
  \/ \E p \in Procs : Crash(p)

\* Callers poll; a thread that has the guard, or is in a write, goes on; time
\* passes.  Nobody has to release a lock, and no process has to crash.
Fairness ==
  /\ WF_vars(\E t \in Threads : Enter(t))
  /\ \A t \in Threads : WF_vars(GuardStep(t)) /\ WF_vars(LeftUnguarded(t))
  /\ \A t \in Threads : WF_vars(BeatDone(t) \/ BeatFails(t))
  /\ WF_vars(Age)

Spec == Init /\ [][Next]_vars
FairSpec == Spec /\ Fairness

-----------------------------------------------------------------------------
(* The types of the variables; what a token means is left to HolderKeepsFile. *)
TypeOK ==
  /\ kind \in Kinds
  /\ file \in Files \cup {NoFile}
  /\ guard \in Threads \cup {Nobody}
  /\ pc \in [Threads -> States]
  /\ token \in [Threads -> Tokens \cup {NoToken}]
  /\ seen \in [Threads -> Tokens \cup {NoToken}]
  /\ active \in [Procs -> SUBSET Tokens]
  /\ inc \in [Procs -> Nat]
  /\ fails \in Nat

\* Two threads, in one process or in two, are never both between acquire and
\* release, whatever crashed, timed out or failed to be deleted before.
MutualExclusion == \A t, u \in Threads : InCS(t) /\ InCS(u) => t = u

\* The file a holder created is still there and still names it: no takeover and
\* no late release of somebody else removes it.
HolderKeepsFile ==
  \A t \in Threads : InCS(t) => file # NoFile /\ file.tok = token[t]

\* The lock as its callers see it is a mutex whose owner may die.
Owner == IF \E t \in Threads : InCS(t) THEN CHOOSE t \in Threads : InCS(t) ELSE Nobody
Abstract == INSTANCE Mutex WITH owner <- Owner
ImplementsMutex == Abstract!Spec

\* What the crash of an owner, or a release that could not delete the file,
\* leaves behind, unless it is the unreadable file of a long lock, which the
\* class leaves for an operator.
Abandoned ==
  /\ file # NoFile
  /\ file.content = "released" \/ CreatorDead
  /\ kind = "long" => file.content # "unreadable"

\* Such a file is replaced or removed in the end, without an operator.
Recovers == Abandoned ~> ~Abandoned
=============================================================================
