-------------------------------- MODULE Mutex --------------------------------
(***************************************************************************)
(* What a lock promises: one owner at a time, who leaves by himself or     *)
(* dies with his process.                                                  *)
(***************************************************************************)
CONSTANTS Threads, Procs, ProcOf, Nobody

VARIABLE owner

Init == owner = Nobody

Acquire(t) == owner = Nobody /\ owner' = t

Release(t) == owner = t /\ owner' = Nobody

\* The process of the owner dies.
Die(p) == owner # Nobody /\ ProcOf[owner] = p /\ owner' = Nobody

Next ==
  \/ \E t \in Threads : Acquire(t) \/ Release(t)
  \/ \E p \in Procs : Die(p)

Spec == Init /\ [][Next]_owner
=============================================================================
