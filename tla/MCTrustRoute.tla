---------------------------- MODULE MCTrustRoute ----------------------------
(* Three threads for two senders' keys.  Two keys of one sender race, a copy *)
(* of a request races with it, and the last place in the cache is contended. *)
EXTENDS TrustRoute, TLC

CONSTANTS s1, s2, k1, k2, n1, n2, n3

MCRequests == {[sender |-> s1, key |-> k1, nonce |-> n1],
               [sender |-> s1, key |-> k2, nonce |-> n2],
               [sender |-> s2, key |-> k2, nonce |-> n3],
               [sender |-> s1, key |-> NONE, nonce |-> n3]}

Symmetry == Permutations(Threads)
=============================================================================
