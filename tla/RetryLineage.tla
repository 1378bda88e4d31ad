---------------------------- MODULE RetryLineage ----------------------------
(***************************************************************************)
(* The chains that retry_of forms in the outbox.  Records are numbered in  *)
(* the order of the file; parent[r] = NoRecord for a record that retries   *)
(* none.                                                                   *)
(***************************************************************************)
EXTENDS Naturals

NoRecord == 0

\* _retry_ancestor_ids: the records that r retries, directly or not.
AncestorsIn(parent, r) ==
  LET above[s \in {NoRecord} \cup DOMAIN parent] ==
        IF s = NoRecord \/ parent[s] = NoRecord THEN {} ELSE {parent[s]} \cup above[parent[s]]
  IN above[r]

\* _retry_descendants, among the records the file holds.
DescendantsIn(parent, held, r) == { d \in held : r \in AncestorsIn(parent, d) }
=============================================================================
