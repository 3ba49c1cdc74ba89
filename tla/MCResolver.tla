----------------------------- MODULE MCResolver -----------------------------
(***************************************************************************)
(* Resolver for TLC: one host, whose stream matches the first query only.  *)
(***************************************************************************)
EXTENDS Resolver

OneHost == [h \in {"h1"} |-> {"q1"}]
Noise   == {[query |-> "q2", port |-> 2]}

(* A search until one stream is found, then one that times out; one that   *)
(* has no port and times out; or a continuous one.                         *)
Find   == [query |-> "q1", minimum |-> 1, timed |-> FALSE, continuous |-> FALSE, free |-> {1}]
Look   == [Find EXCEPT !.query = "q2", !.timed = TRUE]
Deaf   == [Find EXCEPT !.timed = TRUE, !.free = {}]
Follow == [Find EXCEPT !.minimum = 0, !.continuous = TRUE]
MCPlans == {<<Find, Look>>, <<Deaf>>, <<Follow>>}
=============================================================================
