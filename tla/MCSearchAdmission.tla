------------------------- MODULE MCSearchAdmission -------------------------
(* Envelopes n1 and n2 carry the same query id and n3 another; the artifact *)
(* a1 repeats the first.  The run about copies has envelopes only, of two   *)
(* queries.                                                                 *)
EXTENDS SearchAdmission, TLC

CONSTANTS n3, q1, q2

MCQueryOf == [m \in Envelopes \cup Artifacts |-> IF m = n3 THEN q2 ELSE q1]

Symmetry == Permutations(Handlers)
=============================================================================
