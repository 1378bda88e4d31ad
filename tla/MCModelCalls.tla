---------------------------- MODULE MCModelCalls ----------------------------
(* An instance of ModelCalls for TLC: two processes with a client each. *)
EXTENDS ModelCalls
CONSTANTS c1, c2, c3, kA, kB, p1, p2, r1, r2
CallsOf == [c \in Calls |-> IF c = c3 THEN kB ELSE kA]
WorkTwo == [c \in Calls |-> IF c = c1 THEN "interactive" ELSE "background"]
HomeOf == (kA :> p1) @@ (kB :> p2)
\* The governor writes the ratio 0.7.
SevenTenths == [total \in 0..4 |-> (total * 7) \div 10]
TwoKeys == <<r1, r2>>
\* The keys are alike: without loss of generality c1 begins with r1.
Rotation == [c \in Calls |-> IF c = c1 THEN {r1} ELSE Keys]
=============================================================================
