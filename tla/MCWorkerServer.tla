--------------------------- MODULE MCWorkerServer ---------------------------
(* Two orchestrators, a session of each made for the first incarnation of  *)
(* the worker, one query that can be sealed into two envelopes, and one    *)
(* bootstrap nonce more than the cache retains.                            *)
EXTENDS WorkerServer, TLC

CONSTANTS o1, o2, s1, s2

MCSenders == {o1, o2}
MCSessionIds == {s1, s2}
MCSenderOf == s1 :> o1 @@ s2 :> o2
MCKemOf == s1 :> 1 @@ s2 :> 2

Symmetry == Permutations(Keys) \cup Permutations(Envelopes)
=============================================================================
