--------------------------- MODULE MCWeflowSource ---------------------------
(* An instance of WeflowSource for TLC: one conversation. *)
EXTENDS WeflowSource, TLC
CONSTANTS a, m1, m2, m3, side, cli
AllInA == [m \in Msgs |-> a]
AnyOrder == Permutations(Msgs)
Plan(n, S) == [e \in Events |-> IF e = "arrive" THEN n ELSE IF e \in S THEN 1 ELSE 0]
Plans ==
  {Plan(3, S) : S \in {{"listen"}, {"cli"}, {"backfill", "delete"}}}
  \cup {Plan(2, S) : S \in {{"reset", "cli", "fault"}, {"reset", "backfill", "delete"},
                            {"cli", "delete"}, {"cli", "listen"}, {"delete", "listen"},
                            {"reset", "listen", "fault"},
                            {"backfill", "cli"}}}
=============================================================================
