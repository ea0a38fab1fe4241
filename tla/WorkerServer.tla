---------------------------- MODULE WorkerServer ----------------------------
(***************************************************************************)
(* One worker facing every request its peers ever made, in any order and   *)
(* any number of times: requests are delayed, duplicated and reordered,    *)
(* and the process restarts.  A session transcript is bound to the sender  *)
(* named in its context and to the KEM key its ciphertext was made for, so *)
(* both are functions of the session id.                                   *)
(***************************************************************************)
EXTENDS WorkerMemory

CONSTANTS SenderOf, KemOf, MaxIncarnations

ASSUME TranscriptAssumption == /\ SenderOf \in [SessionIds -> Senders]
                               /\ KemOf \in [SessionIds -> Nat]

Init == WorkerInit

TrustRequest ==
    \E x \in Senders, k \in Keys, n \in Nonces, p \in BOOLEAN, reply \in {NONE, "400", "401"} :
        Trust([sender |-> x, key |-> k, nonce |-> n, proof |-> p], reply)

\* The thread of such a request goes on.
Store == \E r \in storing : StorePin(r, "200")

\* A ciphertext exists only once the incarnation it is made for has published
\* its KEM key.
SessionRequest ==
    \E s \in {x \in SessionIds : KemOf[x] <= inc}, k \in Keys, reply \in {"200", "400"} :
        AcceptSession([sender |-> SenderOf[s], signer |-> k, sid |-> s, kem |-> KemOf[s]],
                      reply)

Replies == {"unknown session", "authentication failed", "replay detected", "results"}

ExecuteRequest ==
    \E s \in SessionIds, n \in Envelopes, q \in Queries, b \in BOOLEAN, reply \in Replies :
        Execute([sid |-> s, nonce |-> n, query |-> q, sealed |-> b], reply)

TeardownRequest ==
    \E x \in Senders, s \in SessionIds, n \in Nonces, p \in BOOLEAN, reply \in {"200", "401"} :
        Teardown([sender |-> x, sid |-> s, nonce |-> n, proof |-> p], reply)

Restart == inc < MaxIncarnations /\ WorkerRestart

Next == \/ TrustRequest
        \/ Store
        \/ SessionRequest
        \/ ExecuteRequest
        \/ TeardownRequest
        \/ Restart

Spec == Init /\ [][Next]_workerVars

-----------------------------------------------------------------------------
TypeOK == WorkerTypeOK

\* The inductive invariant, with the KEM keys that the transcripts are bound to
\* (preserved by every handler, as WorkerMemoryProofs shows).
WorkerInv == MemoryInv(KemOf)
=============================================================================
