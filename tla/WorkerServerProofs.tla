------------------------ MODULE WorkerServerProofs ------------------------
(***************************************************************************)
(* Proofs about WorkerServer for any sets of senders, keys, sessions,      *)
(* queries and nonces, and any number of restarts.  What each handler does *)
(* to the worker's memory is shown in WorkerMemoryProofs.                  *)
(***************************************************************************)
EXTENDS WorkerServer, WorkerMemoryProofs

\* Every request a peer may make preserves the invariant.
LEMMA WorkerInvStep == WorkerInv /\ Next => WorkerInv'
<1> SUFFICES ASSUME MemoryInv(KemOf), Next
             PROVE  MemoryInv(KemOf)'
    BY DEF WorkerInv
<1>1. CASE TrustRequest
  <2>1. PICK x \in Senders, k \in Keys, n \in Nonces, p \in BOOLEAN,
             reply \in {NONE, "400", "401"} :
             Trust([sender |-> x, key |-> k, nonce |-> n, proof |-> p], reply)
      BY <1>1 DEF TrustRequest
  <2> QED
      BY <2>1, TrustKeeps, TranscriptAssumption
<1>2. CASE SessionRequest
  <2>1. PICK s \in {x \in SessionIds : KemOf[x] <= inc}, k \in Keys,
             reply \in {"200", "400"} :
             AcceptSession([sender |-> SenderOf[s], signer |-> k, sid |-> s,
                            kem |-> KemOf[s]], reply)
      BY <1>2 DEF SessionRequest
  <2> QED
      BY <2>1, SessionKeeps, TranscriptAssumption
<1>3. CASE ExecuteRequest
  <2>1. PICK s \in SessionIds, n \in Envelopes, q \in Queries, b \in BOOLEAN,
             reply \in Replies :
             Execute([sid |-> s, nonce |-> n, query |-> q, sealed |-> b], reply)
      BY <1>3 DEF ExecuteRequest
  <2> QED
      BY <2>1, ExecuteKeeps, TranscriptAssumption
<1>4. CASE TeardownRequest
  <2>1. PICK x \in Senders, s \in SessionIds, n \in Nonces, p \in BOOLEAN,
             reply \in {"200", "401"} :
             Teardown([sender |-> x, sid |-> s, nonce |-> n, proof |-> p], reply)
      BY <1>4 DEF TeardownRequest
  <2> QED
      BY <2>1, TeardownKeeps, TranscriptAssumption
<1>5. CASE Store
    BY <1>5, StoreKeeps, TranscriptAssumption DEF Store
<1>6. CASE Restart
    BY <1>6, RestartKeeps, TranscriptAssumption DEF Restart
<1> QED
    BY <1>1, <1>2, <1>3, <1>4, <1>5, <1>6 DEF Next

\* The invariant holds in every reachable state: what the worker remembers in
\* accepted_session_ids and its records, and what it may forget at a restart.
THEOREM WorkerInvHolds == Spec => []WorkerInv
<1>1. Init => WorkerInv
    BY MemoryInit DEF Init, WorkerInv
<1>2. WorkerInv /\ UNCHANGED workerVars => WorkerInv'
    BY MemoryStutter, TranscriptAssumption DEF WorkerInv
<1>3. WorkerInv /\ [Next]_workerVars => WorkerInv'
    BY <1>2, WorkerInvStep
<1> QED
    BY <1>1, <1>3, PTL DEF Spec

\* The variables of the worker keep their types.
THEOREM TypeCorrect == Spec => []TypeOK
<1>1. WorkerInv => TypeOK
    BY DEF WorkerInv, MemoryInv, TypeOK
<1> QED
    BY <1>1, WorkerInvHolds, PTL

\* A query runs at most once in a session whatever is replayed, delayed or
\* restarted (secure_search_agent.py 97-100, 162-170 and 206-222), as long as the
\* worker handles one execute request at a time: Execute is one step here, and
\* SearchAdmission shows that copies handled at once can both run.
THEOREM OncePerSessionHolds == Spec => []OncePerSession
<1>1. WorkerInv => OncePerSession
    BY DEF WorkerInv, MemoryInv
<1> QED
    BY <1>1, WorkerInvHolds, PTL

\* A session that was torn down or lost never becomes usable again
\* (secure_search_agent.py 97-100 and 114-125).
THEOREM ClosedForGoodHolds == Spec => []ClosedForGood
<1>1. WorkerInv => ClosedForGood
    BY DEF WorkerInv, MemoryInv
<1> QED
    BY <1>1, WorkerInvHolds, PTL

\* A live session belongs to the key pinned for its sender, unless registrations
\* of two keys for that sender were between comparison and store at once in this
\* incarnation: the two are separate, unlocked statements here as in the code
\* (secure_search_agent.py 45-50 and 65-81).
THEOREM LiveSessionsPinnedHolds == Spec => []LiveSessionsPinned
<1>1. WorkerInv => LiveSessionsPinned
    BY DEF WorkerInv, MemoryInv
<1> QED
    BY <1>1, WorkerInvHolds, PTL
=============================================================================
