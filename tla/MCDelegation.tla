---------------------------- MODULE MCDelegation ----------------------------
(* Constants shared by the runs of Delegation: an orchestrator and a worker, *)
(* and calls that repeat a client nonce when a run says so.                  *)
EXTENDS DelegationProperties, TLC

CONSTANTS o1, n1

MCSenders == {o1}
MCNonces == Calls \X (0..Attempts)
MCKeys == 1..(MaxRestarts + 1)

\* A nonce of its own for each call.
OwnNonces == [c \in Calls |-> c]

\* The calls over a reliable network repeat one client request.
RepeatedNonce == [c \in Calls |-> IF c \in FaultyCalls THEN c ELSE n1]

Symmetry == Permutations(FaultyCalls) \cup Permutations(Calls \ FaultyCalls)
=============================================================================
