-------------------------- MODULE DelegationProofs --------------------------
(***************************************************************************)
(* Proofs about Delegation for any number of calls, attempts, restarts,    *)
(* lost, late and repeated requests.  First for concurrent calls: the      *)
(* inductive invariant, the safety properties that follow from it, and the *)
(* refinement of SearchService.  Then for calls that are served one at a   *)
(* time: what they leave behind at the worker, and how they recover.       *)
(***************************************************************************)
EXTENDS DelegationProperties, WorkerMemoryProofs, FiniteSetTheorems

LEMMA NoAnswer == NONE # "200" /\ NONE \notin {"results", "replay detected"} /\ NONE \notin Calls
    BY IdentifiersAssumption DEF Replies

\* The fields of a request, by its kind.
LEMMA RequestFields ==
    ASSUME NEW m, WellFormed(m)
    PROVE  /\ m.call \in Calls
           /\ m.kind \in {"trust", "session", "execute", "teardown"}
           /\ m.kind = "trust" => /\ m.sender \in Senders /\ m.key \in Keys
                                  /\ m.nonce \in Nonces
           /\ m.kind = "session" => /\ m.sender \in Senders /\ m.signer \in Keys
                                    /\ m.sid = m.call /\ m.kem = disc[m.call]
                                    /\ m = SessionMsg(m.call, m.signer)
           /\ m.kind = "execute" => /\ m.sid \in Calls
                                    /\ m.query = m.call /\ m.nonce = m.call
                                    /\ m = ExecuteMsg(m.call, m.sid)
           /\ m.kind = "teardown" => m.sid \in Calls /\ m.nonce \in Nonces
<1>1. PICK c \in Calls, s \in Calls :
        \/ \E k \in Keys : m = TrustMsg(c, k) \/ m = SessionMsg(c, k)
        \/ m = ExecuteMsg(c, s)
        \/ \E k \in 1..Attempts : m = TeardownMsg(c, s, k)
    BY DEF WellFormed
<1>2. ASSUME NEW k \in Keys, m = TrustMsg(c, k)
      PROVE  /\ m.call \in Calls /\ m.kind = "trust"
             /\ m.sender \in Senders /\ m.key \in Keys /\ m.nonce \in Nonces
    BY <1>2, IdentifiersAssumption, BoundsAssumption DEF TrustMsg
<1>3. ASSUME NEW k \in Keys, m = SessionMsg(c, k)
      PROVE  /\ m.call \in Calls /\ m.kind = "session"
             /\ m.sender \in Senders /\ m.signer \in Keys
             /\ m.sid = m.call /\ m.kem = disc[m.call] /\ m = SessionMsg(m.call, m.signer)
    BY <1>3, IdentifiersAssumption DEF SessionMsg
<1>4. ASSUME m = ExecuteMsg(c, s)
      PROVE  /\ m.call \in Calls /\ m.kind = "execute" /\ m.sid \in Calls
             /\ m.query = m.call /\ m.nonce = m.call /\ m = ExecuteMsg(m.call, m.sid)
    BY <1>4 DEF ExecuteMsg
<1>5. ASSUME NEW k \in 1..Attempts, m = TeardownMsg(c, s, k)
      PROVE  /\ m.call \in Calls /\ m.kind = "teardown"
             /\ m.sid \in Calls /\ m.nonce \in Nonces
    BY <1>5, IdentifiersAssumption, BoundsAssumption DEF TeardownMsg
<1> QED
    BY <1>1, <1>2, <1>3, <1>4, <1>5

\* A request stays well-formed while what it says of the discovery stays true.
LEMMA WellFormedStays ==
    ASSUME NEW m, WellFormed(m), m.kind = "session" => disc'[m.call] = disc[m.call]
    PROVE  WellFormed(m)'
<1>1. PICK c \in Calls, s \in Calls :
        \/ \E k \in Keys : m = TrustMsg(c, k) \/ m = SessionMsg(c, k)
        \/ m = ExecuteMsg(c, s)
        \/ \E k \in 1..Attempts : m = TeardownMsg(c, s, k)
    BY DEF WellFormed
<1>2. ASSUME NEW k \in Keys, m = TrustMsg(c, k) PROVE WellFormed(m)'
    BY <1>2 DEF WellFormed, TrustMsg
<1>3. ASSUME NEW k \in Keys, m = SessionMsg(c, k) PROVE WellFormed(m)'
  <2>1. m.kind = "session" /\ m.call = c
      BY <1>3 DEF SessionMsg
  <2>2. m = SessionMsg(c, k)'
      BY <1>3, <2>1 DEF SessionMsg
  <2> QED
      BY <2>2 DEF WellFormed
<1>4. ASSUME m = ExecuteMsg(c, s) PROVE WellFormed(m)'
    BY <1>4 DEF WellFormed, ExecuteMsg
<1>5. ASSUME NEW k \in 1..Attempts, m = TeardownMsg(c, s, k) PROVE WellFormed(m)'
    BY <1>5 DEF WellFormed, TeardownMsg
<1> QED
    BY <1>1, <1>2, <1>3, <1>4, <1>5

-----------------------------------------------------------------------------
\* The worker's steps.

\* What serving a request, or finishing a registration, does to the worker's memory
\* and to the history.
LEMMA HandleKeeps ==
    ASSUME DelegationInv, NEW m \in sent, NEW reply, Handle(m, reply) \/ StorePin(m, reply)
    PROVE  /\ \A K \in [SessionIds -> Nat] : K = disc => MemoryInv(K)'
           /\ inc' = inc
           /\ storing' \subseteq storing \cup {x \in sent : x.kind = "trust"}
           /\ KnownIds' \subseteq KnownIds \cup (IF m.kind = "session" THEN {m.sid} ELSE {})
           /\ \A s, c \in Calls : executions[<<s, c>>] <= executions'[<<s, c>>]
           /\ \A s, c \in Calls : executions'[<<s, c>>] # executions[<<s, c>>] =>
                  m.kind = "execute" /\ m.sid = s /\ m.query = c
<1>1. MemoryInv(disc) /\ WorkerTypeOK /\ disc \in [Calls -> Nat] /\ WellFormed(m)
    BY DEF DelegationInv, TypeOK, OrchTypeOK, CallTypeOK, NetTypeOK, RequestsWellFormed
<1>2. PICK K \in [SessionIds -> Nat] : K = disc
    BY <1>1, IdentifiersAssumption
<1>3. MemoryInv(K)
    BY <1>1, <1>2
<1>4. \A s, c \in Calls : executions[<<s, c>>] \in Nat
    BY <1>1, IdentifiersAssumption DEF WorkerTypeOK
<1>5. CASE m.kind = "trust" /\ Trust(m, reply)
  <2>1. MemoryInv(K)'
      BY <1>1, <1>3, <1>5, RequestFields, TrustKeeps
  <2>2. KnownIds' \subseteq KnownIds
      BY <1>3, <1>5, KnownStays
  <2>3. /\ UNCHANGED <<inc, executions>>
        /\ storing' \subseteq storing \cup {x \in sent : x.kind = "trust"}
      BY <1>5 DEF Trust, workerVars, volatile
  <2> QED
      BY <1>2, <1>4, <2>1, <2>2, <2>3
<1>6. CASE m.kind = "session" /\ AcceptSession(m, reply)
  <2>1. MemoryInv(K)'
    <3>1. /\ m.sender \in Senders /\ m.signer \in Keys /\ m.sid \in SessionIds
          /\ m.kem = K[m.sid] /\ K[m.sid] <= inc
        BY <1>1, <1>2, <1>6, RequestFields, IdentifiersAssumption
           DEF DelegationInv, DiscoveryPast
    <3> QED
        BY <1>3, <1>6, <3>1, SessionKeeps
  <2>2. KnownIds' \subseteq KnownIds \cup {m.sid}
      BY <1>6, KnownGrows
  <2>3. UNCHANGED <<inc, storing, executions>>
      BY <1>6 DEF AcceptSession, workerVars, volatile
  <2> QED
      BY <1>2, <1>4, <1>6, <2>1, <2>2, <2>3
<1>7. CASE m.kind = "execute" /\ Execute(m, reply)
  <2>1. m.sid \in SessionIds /\ m.query \in Queries /\ m.nonce \in Envelopes
      BY <1>1, <1>7, RequestFields, IdentifiersAssumption
  <2>2. MemoryInv(K)'
      BY <1>3, <1>7, <2>1, ExecuteKeeps
  <2>3. KnownIds' \subseteq KnownIds
      BY <1>3, <1>7, <2>1, KnownStays
  <2>4. UNCHANGED <<inc, storing>>
      BY <1>7 DEF Execute, workerVars, volatile
  <2>5. /\ \A s, c \in Calls : s # m.sid \/ c # m.query =>
              executions'[<<s, c>>] = executions[<<s, c>>]
        /\ executions[<<m.sid, m.query>>] <= executions'[<<m.sid, m.query>>]
    <3>1. /\ \A s \in SessionIds, c \in Queries : s # m.sid \/ c # m.query =>
                executions'[<<s, c>>] = executions[<<s, c>>]
          /\ executions[<<m.sid, m.query>>] <= executions'[<<m.sid, m.query>>]
        BY <1>3, <1>7, <2>1, ExecuteRuns
    <3> QED
        BY <3>1, IdentifiersAssumption
  <2>6. ASSUME NEW s \in Calls, NEW c \in Calls
        PROVE  /\ executions[<<s, c>>] <= executions'[<<s, c>>]
               /\ executions'[<<s, c>>] # executions[<<s, c>>] => m.sid = s /\ m.query = c
    <3>1. CASE s = m.sid /\ c = m.query
        BY <2>5, <3>1
    <3>2. CASE s # m.sid \/ c # m.query
      <4>1. executions'[<<s, c>>] = executions[<<s, c>>] /\ executions[<<s, c>>] \in Nat
          BY <1>4, <2>5, <3>2
      <4> QED
          BY <4>1
    <3> QED
        BY <3>1, <3>2
  <2> QED
      BY <1>2, <1>7, <2>2, <2>3, <2>4, <2>6
<1>8. CASE m.kind = "teardown" /\ Teardown(m, reply)
  <2>1. MemoryInv(K)'
      BY <1>1, <1>3, <1>8, RequestFields, TeardownKeeps, IdentifiersAssumption
  <2>2. KnownIds' \subseteq KnownIds
      BY <1>3, <1>8, KnownStays
  <2>3. UNCHANGED <<inc, storing, executions>>
      BY <1>8 DEF Teardown, workerVars, volatile
  <2> QED
      BY <1>2, <1>4, <2>1, <2>2, <2>3
<1>9. CASE StorePin(m, reply)
  <2>1. MemoryInv(K)'
      BY <1>3, <1>9, StoreKeeps
  <2>2. KnownIds' \subseteq KnownIds
      BY <1>3, <1>9, KnownStays
  <2>3. storing' \subseteq storing /\ UNCHANGED <<inc, executions>>
      BY <1>9 DEF StorePin
  <2> QED
      BY <1>2, <1>4, <2>1, <2>2, <2>3
<1> QED
    BY <1>5, <1>6, <1>7, <1>8, <1>9 DEF Handle

\* A reply that carries the query id means that the query has run.
LEMMA HandleAnswers ==
    ASSUME DelegationInv, NEW m \in sent,
           NEW reply \in {"results", "replay detected"},
           Handle(m, reply) \/ StorePin(m, reply)
    PROVE  m.call \in Calls /\ m.sid \in Calls /\ executions'[<<m.sid, m.call>>] > 0
<1>1. m.kind = "execute" /\ Execute(m, reply)
    BY NoAnswer DEF Handle, Trust, StorePin, AcceptSession, Teardown
<1>2. MemoryInv(disc) /\ WellFormed(m) /\ disc \in [Calls -> Nat]
    BY DEF DelegationInv, TypeOK, OrchTypeOK, CallTypeOK, NetTypeOK, RequestsWellFormed
<1>3. PICK K \in [SessionIds -> Nat] : K = disc
    BY <1>2, IdentifiersAssumption
<1>4. /\ m.sid \in Calls /\ m.call \in Calls /\ m.query = m.call
      /\ m.sid \in SessionIds /\ m.query \in Queries
    BY <1>1, <1>2, RequestFields, IdentifiersAssumption
<1>5. executions'[<<m.sid, m.query>>] > 0
    BY <1>1, <1>2, <1>3, <1>4, ExecuteRuns
<1> QED
    BY <1>4, <1>5

\* The worker's memory, seen with the KEM keys the orchestrator has recorded.
LEMMA MemoryOfDiscovery ==
    ASSUME NEW K, K = disc', MemoryInv(K)'
    PROVE  MemoryInv(disc)'
    BY DEF MemoryInv, AcceptedFits, LiveAccepted, ClosedRemembered, ExecutionRemembered, Stale

\* The parts of the invariant that a step of the worker can disturb.
LEMMA WorkerStepKeeps ==
    ASSUME DelegationInv,
           UNCHANGED <<orchVars, pc, disc, sess, got, status, try, waiting, sent>>,
           pending' \subseteq sent, inc <= inc',
           rsp' \in [Calls -> Replies \cup {NONE}],
           MemoryInv(disc)', StoringWereAsked', KnownWereAsked', RunsWereAsked',
           RepliesAreTrue'
    PROVE  DelegationInv'
<1>1. TypeOK'
    BY DEF DelegationInv, TypeOK, OrchTypeOK, CallTypeOK, NetTypeOK, MemoryInv, orchVars
<1>2. DiscoveryPast'
  <2>1. inc \in Nat /\ inc' \in Nat /\ \A c \in Calls : disc[c] \in Nat
      BY <1>1 DEF DelegationInv, TypeOK, OrchTypeOK, CallTypeOK, NetTypeOK, WorkerTypeOK
  <2>2. \A c \in Calls : disc[c] <= inc
      BY DEF DelegationInv, DiscoveryPast
  <2>3. \A c \in Calls : disc[c] <= inc'
      BY <2>1, <2>2
  <2> QED
      BY <2>3 DEF DiscoveryPast
<1>3. RequestsWellFormed'
    BY WellFormedStays DEF DelegationInv, RequestsWellFormed
<1>4. SendersAdmitted' /\ OneExecuteEach' /\ WaitsInExchange' /\ AnsweredAtEnd'
    BY DEF DelegationInv, SendersAdmitted, OneExecuteEach, WaitsInExchange, AnsweredAtEnd,
           ExecuteMsg
<1>5. NoncesRemembered' /\ (oinc = 1 => ClientNonceOnce)'
    BY DEF DelegationInv, NoncesRemembered, ClientNonceOnce, orchVars
<1> QED
    BY <1>1, <1>2, <1>3, <1>4, <1>5 DEF DelegationInv

\* Serving a request, or a copy of one, and finishing a registration.
LEMMA ServeKeeps ==
    ASSUME DelegationInv, NEW m \in sent, Serve(m) \/ ServeCopy(m) \/ Store(m)
    PROVE  DelegationInv'
<1>1. PICK reply \in Replies \cup {NONE} :
         /\ Handle(m, reply) \/ StorePin(m, reply)
         /\ rsp' = rsp \/ rsp' = [rsp EXCEPT ![m.call] = reply]
         /\ pending' = pending \ {m} \/ pending' = pending
    BY DEF Serve, ServeCopy, Store, netVars
<1>2. UNCHANGED <<orchVars, pc, disc, sess, got, status, try, waiting, sent>>
    BY DEF Serve, ServeCopy, Store, netVars
<1>3. TypeOK /\ WellFormed(m) /\ m.call \in Calls
    BY RequestFields DEF DelegationInv, RequestsWellFormed
<1>4. PICK K \in [SessionIds -> Nat] : K = disc
    BY <1>3, IdentifiersAssumption DEF TypeOK, OrchTypeOK, CallTypeOK, NetTypeOK
<1>5. /\ MemoryInv(K)'
      /\ inc' = inc
      /\ storing' \subseteq storing \cup {x \in sent : x.kind = "trust"}
      /\ KnownIds' \subseteq KnownIds \cup (IF m.kind = "session" THEN {m.sid} ELSE {})
      /\ \A s, c \in Calls : executions[<<s, c>>] <= executions'[<<s, c>>]
      /\ \A s, c \in Calls : executions'[<<s, c>>] # executions[<<s, c>>] =>
             m.kind = "execute" /\ m.sid = s /\ m.query = c
    BY <1>1, <1>4, HandleKeeps
<1>6. MemoryInv(disc)'
    BY <1>2, <1>4, <1>5, MemoryOfDiscovery
<1>6a. StoringWereAsked'
    BY <1>2, <1>5 DEF DelegationInv, StoringWereAsked
<1>7. KnownWereAsked'
  <2> SUFFICES ASSUME NEW s \in KnownIds'
               PROVE  \E k \in Keys : SessionMsg(s, k) \in sent
      BY <1>2 DEF KnownWereAsked, SessionMsg
  <2>1. CASE s \in KnownIds
      BY <2>1 DEF DelegationInv, KnownWereAsked
  <2>2. CASE m.kind = "session" /\ s = m.sid
      BY <1>3, <2>2, RequestFields
  <2> QED
      BY <1>5, <2>1, <2>2
<1>8. RunsWereAsked'
  <2> SUFFICES ASSUME NEW c \in Calls, NEW s \in Calls, executions'[<<s, c>>] > 0
               PROVE  ExecuteMsg(c, s) \in sent
      BY <1>2 DEF RunsWereAsked, ExecuteMsg
  <2>1. CASE executions'[<<s, c>>] = executions[<<s, c>>]
      BY <2>1 DEF DelegationInv, RunsWereAsked
  <2>2. CASE m.kind = "execute" /\ m.sid = s /\ m.query = c
      BY <1>3, <2>2, RequestFields
  <2> QED
      BY <1>5, <2>1, <2>2
<1>9. Ran \subseteq Ran'
  <2> SUFFICES ASSUME NEW c \in Calls, NEW s \in Calls, executions[<<s, c>>] > 0
               PROVE  executions'[<<s, c>>] > 0
      BY DEF Ran
  <2>1. executions[<<s, c>>] \in Nat /\ executions'[<<s, c>>] \in Nat
      BY <1>3, <1>5, IdentifiersAssumption DEF TypeOK, WorkerTypeOK, MemoryInv
  <2> QED
      BY <1>5, <2>1
<1>10. ASSUME NEW c \in Calls, rsp'[c] \in {"results", "replay detected"}, rsp'[c] # rsp[c]
       PROVE  c \in Ran'
  <2>1. c = m.call /\ reply \in {"results", "replay detected"}
      BY <1>1, <1>3, <1>10 DEF TypeOK, OrchTypeOK, CallTypeOK, NetTypeOK
  <2>2. m.sid \in Calls /\ executions'[<<m.sid, m.call>>] > 0
      BY <1>1, <2>1, HandleAnswers
  <2> QED
      BY <2>1, <2>2 DEF Ran
<1>11. RepliesAreTrue'
    BY <1>2, <1>9, <1>10 DEF DelegationInv, RepliesAreTrue
<1>12. /\ rsp' \in [Calls -> Replies \cup {NONE}]
       /\ pending' \subseteq sent
       /\ inc <= inc'
    BY <1>1, <1>3, <1>5 DEF TypeOK, OrchTypeOK, CallTypeOK, NetTypeOK, WorkerTypeOK
<1> QED
    BY <1>2, <1>5, <1>6, <1>6a, <1>7, <1>8, <1>11, <1>12, WorkerStepKeeps

\* A restart of the worker.
LEMMA RestartWorkerKeeps == DelegationInv /\ RestartWorker => DelegationInv'
<1> SUFFICES ASSUME DelegationInv, RestartWorker PROVE DelegationInv'
    OBVIOUS
<1>1. /\ WorkerRestart /\ inc' = inc + 1 /\ executions' = executions /\ storing' = {}
      /\ rsp' = [c \in Calls |-> IF InStore(c) THEN "reset" ELSE rsp[c]]
      /\ UNCHANGED <<orchVars, pc, disc, sess, got, status, try, waiting, sent, pending>>
    BY DEF RestartWorker, WorkerRestart, FreshProcess
<1>2. TypeOK /\ inc \in Nat /\ MemoryInv(disc)
    BY DEF DelegationInv, TypeOK, WorkerTypeOK
<1>3. PICK K \in [SessionIds -> Nat] : K = disc
    BY <1>2, IdentifiersAssumption DEF TypeOK, OrchTypeOK, CallTypeOK, NetTypeOK
<1>4. MemoryInv(disc)'
    BY <1>1, <1>2, <1>3, RestartKeeps, MemoryOfDiscovery
<1>5. KnownIds' \subseteq KnownIds
    BY <1>1, <1>2, <1>3, KnownStays
<1>6. KnownWereAsked' /\ StoringWereAsked'
    BY <1>1, <1>5 DEF DelegationInv, KnownWereAsked, StoringWereAsked, SessionMsg
<1>7. RunsWereAsked' /\ RepliesAreTrue'
    BY <1>1 DEF DelegationInv, RunsWereAsked, RepliesAreTrue, Ran, ExecuteMsg
<1>8. /\ pending' \subseteq sent /\ rsp' \in [Calls -> Replies \cup {NONE}]
      /\ UNCHANGED <<orchVars, pc, disc, sess, got, status, try, waiting, sent>>
      /\ inc <= inc'
  <2>1. "reset" \in Replies
      BY DEF Replies
  <2>2. pending' \subseteq sent /\ inc <= inc'
      BY <1>1, <1>2 DEF TypeOK, NetTypeOK
  <2>3. rsp' \in [Calls -> Replies \cup {NONE}]
      BY <1>1, <1>2, <2>1 DEF TypeOK, NetTypeOK
  <2> QED
      BY <1>1, <2>2, <2>3
<1> QED
    BY <1>4, <1>6, <1>7, <1>8, WorkerStepKeeps

-----------------------------------------------------------------------------
\* The orchestrator's steps.  Once a call has discovered the worker, all its
\* thread does is move on, conclude from the reply it waits for, and post at
\* most one request; ThreadStep says how much of that the invariant rests on.

OthersStay(c) ==
    \A d \in Calls \ {c} : /\ pc'[d] = pc[d] /\ status'[d] = status[d]
                           /\ waiting'[d] = waiting[d] /\ rsp'[d] = rsp[d]

Moves(c) ==
    /\ pc[c] \notin {"new", "done"} /\ pc'[c] \notin {"new", "discover"}
    /\ pc[c] \in FromExecute => pc'[c] \in FromExecute
    /\ status'[c] \notin {"400", "401"}
    /\ status'[c] = "none" <=> pc'[c] # "done"
    /\ waiting'[c] # NONE => pc'[c] \in Exchanging
    /\ pc'[c] = "teardown" => waiting'[c] \in {m \in sent' : m.kind = "teardown"}

Learns(c) ==
    /\ got' \in [Calls -> BOOLEAN]
    /\ \A d \in Calls \ {c} : got'[d] = got[d]
    /\ got'[c] => got[c] \/ rsp[c] \in {"results", "replay detected"}

Concludes(c) ==
    /\ rsp'[c] = rsp[c] \/ rsp'[c] = NONE
    /\ status'[c] = "ok" => got[c]

Discovers(c) == \/ UNCHANGED disc
                \/ pc[c] = "discover" /\ disc' = [disc EXCEPT ![c] = inc]

Posts(c, m) == /\ sent' = sent \cup {m}
               /\ pc[c] # "discover" /\ WellFormed(m) /\ m.call = c
               /\ m.kind = "execute" => pc[c] \in {"lookup", "fetch"} /\ pc'[c] = "execute"

ThreadStep(c) == /\ OthersStay(c) /\ Moves(c) /\ Learns(c) /\ Concludes(c)
                 /\ Discovers(c)
                 /\ sent' = sent \/ \E m : Posts(c, m)
                 /\ UNCHANGED <<workerVars, oinc, delegated>>

LEMMA ThreadStepKeeps ==
    ASSUME DelegationInv, TypeOK', NEW c \in Calls, ThreadStep(c)
    PROVE  DelegationInv'
<1>1. sent \subseteq sent' /\ \A m \in sent' \ sent : Posts(c, m)
    BY DEF ThreadStep, Posts
<1>2. /\ UNCHANGED <<workerVars, oinc, delegated>>
      /\ inc \in Nat /\ disc \in [Calls -> Nat] /\ disc' \in [Calls -> Nat]
    BY DEF ThreadStep, DelegationInv, TypeOK, WorkerTypeOK, CallTypeOK
<1>3. /\ \A m \in sent' : disc'[m.call] = disc[m.call]
      /\ \A s \in KnownIds : disc'[s] = disc[s]
  <2>1. CASE UNCHANGED disc
      BY <2>1
  <2>2. CASE pc[c] = "discover" /\ disc' = [disc EXCEPT ![c] = inc]
    <3>1. \A m \in sent' : m.call \in Calls /\ m.call # c
        BY <1>1, <2>2, RequestFields
           DEF Posts, DelegationInv, RequestsWellFormed, SendersAdmitted
    <3>2. \A s \in KnownIds : s # c
      <4>1. \A k \in Keys : SessionMsg(c, k).call = c
          BY DEF SessionMsg
      <4> QED
          BY <1>1, <3>1, <4>1 DEF DelegationInv, KnownWereAsked
    <3>3. KnownIds \subseteq Calls
        BY IdentifiersAssumption DEF KnownIds, DelegationInv, TypeOK, WorkerTypeOK
    <3> QED
        BY <1>2, <2>2, <3>1, <3>2, <3>3
  <2> QED
      BY <2>1, <2>2 DEF ThreadStep, Discovers
<1>4. MemoryInv(disc)'
  <2>1. PICK K \in [SessionIds -> Nat], K2 \in [SessionIds -> Nat] : K = disc /\ K2 = disc'
      BY <1>2, IdentifiersAssumption
  <2>2. MemoryInv(K2)
      BY <1>3, <2>1, MemoryOfKnown DEF DelegationInv
  <2>3. MemoryInv(K2)'
      BY <1>2, <2>2, MemoryStutter
  <2> QED
      BY <2>1, <2>3, MemoryOfDiscovery
<1>5. DiscoveryPast'
    BY <1>2 DEF ThreadStep, Discovers, DelegationInv, DiscoveryPast, workerVars
<1>5a. RequestsWellFormed'
  <2> SUFFICES ASSUME NEW m \in sent' PROVE WellFormed(m)'
      BY DEF RequestsWellFormed
  <2>1. WellFormed(m)
      BY <1>1 DEF Posts, DelegationInv, RequestsWellFormed
  <2> QED
      BY <1>3, <2>1, WellFormedStays
<1>6. \A m \in sent' : /\ m.call \in Calls
                       /\ m.kind = "execute" => m = ExecuteMsg(m.call, m.sid)
    BY <1>1, RequestFields DEF Posts, DelegationInv, RequestsWellFormed
<1>7. SendersAdmitted'
    BY <1>1, <1>6 DEF ThreadStep, OthersStay, Moves, Posts, DelegationInv, SendersAdmitted
<1>8. OneExecuteEach'
  <2>1. ASSUME NEW m \in sent', m.kind = "execute" PROVE pc'[m.call] \in FromExecute
      BY <1>1, <1>6, <2>1
         DEF ThreadStep, OthersStay, Moves, Posts, DelegationInv, OneExecuteEach, FromExecute
  <2>2. ASSUME NEW d \in Calls, NEW s1 \in Calls, NEW s2 \in Calls,
               ExecuteMsg(d, s1) \in sent', ExecuteMsg(d, s2) \in sent'
        PROVE  s1 = s2
    <3>1. \A s \in Calls : /\ ExecuteMsg(d, s).kind = "execute"
                           /\ ExecuteMsg(d, s).call = d /\ ExecuteMsg(d, s).sid = s
        BY DEF ExecuteMsg
    <3>2. CASE ExecuteMsg(d, s1) \in sent /\ ExecuteMsg(d, s2) \in sent
        BY <3>2 DEF DelegationInv, OneExecuteEach
    <3>3. CASE ExecuteMsg(d, s1) \notin sent /\ ExecuteMsg(d, s2) \notin sent
        BY <1>1, <2>2, <3>1, <3>3 DEF ThreadStep, Posts
    <3>4. ASSUME NEW s \in Calls, NEW t \in Calls,
                 ExecuteMsg(d, s) \in sent, ExecuteMsg(d, t) \in sent' \ sent
          PROVE  FALSE
      <4>1. pc[d] \in FromExecute
          BY <3>1, <3>4 DEF DelegationInv, OneExecuteEach
      <4>2. d = c /\ pc[c] \in {"lookup", "fetch"}
          BY <1>1, <3>1, <3>4 DEF Posts
      <4> QED
          BY <4>1, <4>2 DEF FromExecute
    <3> QED
        BY <2>2, <3>2, <3>3, <3>4
  <2> QED
      BY <2>1, <2>2 DEF OneExecuteEach, ExecuteMsg
<1>9. WaitsInExchange'
    BY <1>1 DEF ThreadStep, OthersStay, Moves, DelegationInv, WaitsInExchange
<1>10. RunsWereAsked'
    BY <1>1, <1>2 DEF DelegationInv, RunsWereAsked, ExecuteMsg, workerVars
<1>10a. KnownWereAsked'
  <2> SUFFICES ASSUME NEW s \in KnownIds
               PROVE  \E k \in Keys : SessionMsg(s, k)' \in sent'
      BY <1>2 DEF KnownWereAsked, KnownIds, workerVars, volatile
  <2>1. PICK k \in Keys : SessionMsg(s, k) \in sent
      BY DEF DelegationInv, KnownWereAsked
  <2>2. SessionMsg(s, k)' = SessionMsg(s, k)
      BY <1>3 DEF SessionMsg
  <2> QED
      BY <1>1, <2>1, <2>2
<1>10b. StoringWereAsked'
    BY <1>1, <1>2 DEF DelegationInv, StoringWereAsked, workerVars, volatile
<1>11. RepliesAreTrue'
  <2> SUFFICES ASSUME NEW d \in Calls,
                      \/ rsp'[d] \in {"results", "replay detected"}
                      \/ got'[d] \/ status'[d] = "ok"
               PROVE  d \in Ran
      BY <1>2 DEF RepliesAreTrue, Ran, workerVars
  <2>1. \/ rsp[d] \in {"results", "replay detected"}
        \/ got[d] \/ status[d] = "ok"
      BY IdentifiersAssumption DEF ThreadStep, OthersStay, Learns, Concludes, Replies
  <2> QED
      BY <2>1 DEF DelegationInv, RepliesAreTrue
<1>12. AnsweredAtEnd'
    BY DEF ThreadStep, OthersStay, Moves, DelegationInv, AnsweredAtEnd
<1>13. NoncesRemembered' /\ (oinc = 1 => ClientNonceOnce)'
  <2>1. status[c] = "none"
      BY DEF ThreadStep, Moves, DelegationInv, AnsweredAtEnd
  <2> QED
      BY <1>2, <2>1
         DEF ThreadStep, OthersStay, Moves, DelegationInv, NoncesRemembered, ClientNonceOnce
<1> QED
    BY <1>4, <1>5, <1>5a, <1>7, <1>8, <1>9, <1>10, <1>10a, <1>10b, <1>11, <1>12,
       <1>13
       DEF DelegationInv

\* The requests that the actions build.
LEMMA Constructors ==
    ASSUME NEW c \in Calls
    PROVE  /\ \A k \in Keys : LET m == TrustMsg(c, k)
                             IN  WellFormed(m) /\ m.kind = "trust" /\ m.call = c
           /\ \A k \in Keys : LET m == SessionMsg(c, k)
                             IN  WellFormed(m) /\ m.kind = "session" /\ m.call = c
           /\ \A s \in Calls : LET m == ExecuteMsg(c, s)
                              IN  WellFormed(m) /\ m.kind = "execute" /\ m.call = c
           /\ \A s \in Calls, k \in 1..Attempts :
                  LET m == TeardownMsg(c, s, k)
                  IN  WellFormed(m) /\ m.kind = "teardown" /\ m.call = c
<1>1. /\ \A k \in Keys : WellFormed(TrustMsg(c, k)) /\ WellFormed(SessionMsg(c, k))
      /\ \A s \in Calls : WellFormed(ExecuteMsg(c, s))
      /\ \A s \in Calls, k \in 1..Attempts : WellFormed(TeardownMsg(c, s, k))
    BY DEF WellFormed
<1> QED
    BY <1>1 DEF TrustMsg, SessionMsg, ExecuteMsg, TeardownMsg

LEMMA WorkerTypeStays ==
    ASSUME WorkerTypeOK, UNCHANGED workerVars
    PROVE  WorkerTypeOK'
    BY DEF WorkerTypeOK, workerVars, volatile

\* A step that posts a request and waits for its reply.
LEMMA PostingStep ==
    ASSUME DelegationInv, NEW c \in Calls, NEW m, NEW l \in Exchanging,
           pc' = [pc EXCEPT ![c] = l], Post(c, m),
           pc[c] \notin {"new", "discover", "done"},
           pc[c] \in FromExecute => l \in FromExecute,
           WellFormed(m), m.call = c, l = "teardown" => m.kind = "teardown",
           m.kind = "execute" => pc[c] \in {"lookup", "fetch"} /\ l = "execute",
           UNCHANGED <<workerVars, oinc, delegated, disc, got, status>>,
           OrchTypeOK', sess' \in [Calls -> Calls \cup {NONE}], try' \in [Calls -> 0..Attempts]
    PROVE  TypeOK' /\ ThreadStep(c)
<1>1. WorkerTypeOK /\ OrchTypeOK /\ CallTypeOK /\ NetTypeOK
    BY DEF DelegationInv, TypeOK
<1>2. /\ pc'[c] = l /\ status'[c] = status[c] /\ got' = got
      /\ waiting' = [waiting EXCEPT ![c] = m] /\ waiting'[c] = m
      /\ rsp' = [rsp EXCEPT ![c] = NONE] /\ rsp'[c] = NONE
      /\ sent' = sent \cup {m} /\ pending' = pending \cup {m}
      /\ status[c] = "none"
    BY <1>1 DEF Post, CallTypeOK, NetTypeOK, DelegationInv, AnsweredAtEnd
<1>3. CallTypeOK'
    BY <1>1 DEF CallTypeOK, Exchanging, Labels
<1>4. NetTypeOK'
    BY <1>1, <1>2 DEF NetTypeOK
<1>5. TypeOK'
    BY <1>1, <1>3, <1>4, WorkerTypeStays DEF TypeOK
<1>6. OthersStay(c)
    BY <1>1, <1>2 DEF CallTypeOK, NetTypeOK, OthersStay
<1>7. Moves(c)
    BY <1>2 DEF Moves, Exchanging
<1>8. Learns(c)
    BY <1>1, <1>2 DEF CallTypeOK, Learns
<1>9. Concludes(c)
    BY <1>2 DEF Concludes
<1>10. Posts(c, m)
    BY <1>2 DEF Posts
<1> QED
    BY <1>5, <1>6, <1>7, <1>8, <1>9, <1>10 DEF ThreadStep, Discovers

\* A step that posts nothing.
LEMMA QuietStep ==
    ASSUME DelegationInv, NEW c \in Calls,
           NEW l \in Labels \ {"new", "discover", "teardown"}, NEW st \in Answers \ {"400", "401"},
           pc' = [pc EXCEPT ![c] = l], status' = [status EXCEPT ![c] = st],
           pc[c] \notin {"new", "done"},
           pc[c] \in FromExecute => l \in FromExecute,
           st = "none" <=> l # "done", st = "ok" => got[c],
           \/ StopWaiting(c)
           \/ UNCHANGED netVars /\ pc[c] \notin Exchanging,
           Learns(c), Discovers(c), UNCHANGED <<workerVars, oinc, delegated>>,
           OrchTypeOK', sess' \in [Calls -> Calls \cup {NONE}], try' \in [Calls -> 0..Attempts]
    PROVE  TypeOK' /\ ThreadStep(c)
<1>1. WorkerTypeOK /\ OrchTypeOK /\ CallTypeOK /\ NetTypeOK
    BY DEF DelegationInv, TypeOK
<1>2. /\ waiting' = [waiting EXCEPT ![c] = NONE] /\ waiting'[c] = NONE
      /\ rsp' = [rsp EXCEPT ![c] = NONE] \/ rsp' = rsp
      /\ UNCHANGED <<sent, pending>>
  <2>1. CASE StopWaiting(c)
      BY <1>1, <2>1 DEF StopWaiting, NetTypeOK
  <2>2. CASE UNCHANGED netVars /\ pc[c] \notin Exchanging
    <3>1. waiting[c] = NONE
        BY <2>2 DEF DelegationInv, WaitsInExchange
    <3> QED
        BY <1>1, <2>2, <3>1 DEF NetTypeOK, netVars
  <2> QED
      BY <2>1, <2>2
<1>3. CallTypeOK'
  <2>1. disc' \in [Calls -> Nat]
      BY <1>1 DEF CallTypeOK, WorkerTypeOK, Discovers
  <2>2. got' \in [Calls -> BOOLEAN]
      BY DEF Learns
  <2>3. pc' \in [Calls -> Labels] /\ status' \in [Calls -> Answers]
      BY <1>1 DEF CallTypeOK
  <2> QED
      BY <2>1, <2>2, <2>3 DEF CallTypeOK
<1>4. NetTypeOK'
    BY <1>1, <1>2 DEF NetTypeOK
<1>5. TypeOK'
    BY <1>1, <1>3, <1>4, WorkerTypeStays DEF TypeOK
<1>6. OthersStay(c)
    BY <1>1, <1>2 DEF CallTypeOK, NetTypeOK, OthersStay
<1>7. pc'[c] = l /\ status'[c] = st
    BY <1>1 DEF CallTypeOK
<1>8. Moves(c)
    BY <1>2, <1>7 DEF Moves
<1>9. Concludes(c)
    BY <1>1, <1>2, <1>7 DEF Concludes, NetTypeOK
<1> QED
    BY <1>2, <1>5, <1>6, <1>8, <1>9 DEF ThreadStep

\* What the actions of a thread have in common: a call that is being served has
\* no answer yet, and keeps its result until the reply to its query arrives.
LEMMA Serving ==
    ASSUME DelegationInv, NEW c \in Calls
    PROVE  /\ OrchTypeOK /\ CallTypeOK /\ NetTypeOK
           /\ pc[c] # "done" => status[c] = "none"
           /\ pc[c] # "done" /\ UNCHANGED status => status' = [status EXCEPT ![c] = "none"]
           /\ UNCHANGED got => Learns(c)
<1>1. OrchTypeOK /\ CallTypeOK /\ NetTypeOK
    BY DEF DelegationInv, TypeOK
<1>2. pc[c] # "done" => status[c] = "none"
    BY DEF DelegationInv, AnsweredAtEnd
<1>3. pc[c] # "done" /\ UNCHANGED status => status' = [status EXCEPT ![c] = "none"]
    BY <1>1, <1>2 DEF CallTypeOK
<1>4. UNCHANGED got => Learns(c)
    BY <1>1 DEF CallTypeOK, Learns
<1> QED
    BY <1>1, <1>2, <1>3, <1>4

LEMMA LookupIsStep ==
    ASSUME DelegationInv, NEW c \in Calls, Lookup(c)
    PROVE  TypeOK' /\ ThreadStep(c)
<1>1. /\ pc[c] = "lookup" /\ OrchTypeOK' /\ Learns(c) /\ UNCHANGED <<status, try, got>>
      /\ UNCHANGED <<workerVars, oinc, delegated, disc>>
      /\ osession \in Calls \cup {NONE} /\ CallTypeOK
    BY Serving DEF Lookup, OrchTypeOK, orchVars
<1>2. CASE osession = NONE
    BY <1>1, <1>2, Serving, QuietStep
       DEF Discovers, Lookup, Goto, CallTypeOK, Labels, Answers, FromExecute, Exchanging
<1>3. CASE osession # NONE
  <2>1. /\ pc' = [pc EXCEPT ![c] = "execute"] /\ Post(c, ExecuteMsg(c, osession))
        /\ sess' \in [Calls -> Calls \cup {NONE}] /\ try' \in [Calls -> 0..Attempts]
      BY <1>1, <1>3 DEF Lookup, Goto, CallTypeOK
  <2> QED
      BY <1>1, <1>3, <2>1, Constructors, PostingStep DEF FromExecute, Exchanging
<1> QED
    BY <1>2, <1>3

\* The except clause: on to the cleanup, without an answer yet.
LEMMA FailIsStep ==
    ASSUME DelegationInv, NEW c \in Calls, Fail(c),
           pc[c] \notin {"new", "discover", "teardown", "done"},
           Learns(c), UNCHANGED <<workerVars, oinc, delegated, disc, sess, status, try>>,
           OrchTypeOK'
    PROVE  TypeOK' /\ ThreadStep(c)
<1>1. /\ pc' = [pc EXCEPT ![c] = "cleanup"] /\ StopWaiting(c)
      /\ status' = [status EXCEPT ![c] = "none"]
      /\ sess' \in [Calls -> Calls \cup {NONE}] /\ try' \in [Calls -> 0..Attempts]
    BY Serving DEF Fail, Goto, CallTypeOK
<1> QED
    BY <1>1, QuietStep DEF Discovers, Labels, Answers, FromExecute

LEMMA HandshakeIsStep ==
    ASSUME DelegationInv, NEW c \in Calls, Handshake(c)
    PROVE  TypeOK' /\ ThreadStep(c)
<1>1. /\ pc[c] = "handshake" /\ OrchTypeOK' /\ Learns(c)
      /\ UNCHANGED <<workerVars, oinc, delegated, disc, sess, status, try>>
    BY Serving DEF Handshake, OrchTypeOK, orchVars
<1>2. CASE Fail(c)
    BY <1>1, <1>2, FailIsStep
<1>3. CASE Goto(c, "register") /\ UNCHANGED netVars
    BY <1>1, <1>3, Serving, QuietStep
       DEF Discovers, Goto, CallTypeOK, Labels, Answers, FromExecute, Exchanging
<1> QED
    BY <1>2, <1>3 DEF Handshake

LEMMA ComparePinIsStep ==
    ASSUME DelegationInv, NEW c \in Calls, ComparePin(c)
    PROVE  TypeOK' /\ ThreadStep(c)
<1>1. /\ pc[c] = "register" /\ OrchTypeOK' /\ Learns(c)
      /\ UNCHANGED <<workerVars, oinc, delegated, disc, sess, status, try>>
    BY Serving DEF ComparePin, OrchTypeOK, orchVars
<1>2. CASE Fail(c)
    BY <1>1, <1>2, FailIsStep
<1>3. CASE Goto(c, "pin") /\ UNCHANGED netVars
    BY <1>1, <1>3, Serving, QuietStep
       DEF Discovers, Goto, CallTypeOK, Labels, Answers, FromExecute, Exchanging
<1> QED
    BY <1>2, <1>3 DEF ComparePin

LEMMA RegisterIsStep ==
    ASSUME DelegationInv, NEW c \in Calls, Register(c)
    PROVE  TypeOK' /\ ThreadStep(c)
<1>1. /\ pc[c] = "pin" /\ Learns(c)
      /\ UNCHANGED <<workerVars, oinc, delegated, disc, sess, try, got>>
    BY Serving DEF Register
<1>2. OrchTypeOK'
    BY Serving, BoundsAssumption DEF Register, LogBreaks, OrchTypeOK, CallTypeOK
<1>3. CASE Fail(c) /\ UNCHANGED status
    BY <1>1, <1>2, <1>3, FailIsStep
<1>4. CASE Post(c, TrustMsg(c, oinc)) /\ Goto(c, "trust") /\ UNCHANGED status
  <2>1. /\ pc' = [pc EXCEPT ![c] = "trust"] /\ oinc \in Keys
        /\ sess' \in [Calls -> Calls \cup {NONE}] /\ try' \in [Calls -> 0..Attempts]
      BY <1>1, <1>4, Serving DEF Goto, CallTypeOK, OrchTypeOK
  <2> QED
      BY <1>1, <1>2, <1>4, <2>1, Constructors, PostingStep DEF FromExecute, Exchanging
<1>5. CASE Answer(c, "error")
  <2>1. sess' \in [Calls -> Calls \cup {NONE}] /\ try' \in [Calls -> 0..Attempts]
      BY <1>1, Serving DEF CallTypeOK
  <2> QED
      BY <1>1, <1>2, <1>5, <2>1, QuietStep
         DEF Discovers, Answer, Goto, Labels, Answers, FromExecute
<1> QED
    BY <1>3, <1>4, <1>5 DEF Register, LogBreaks

LEMMA TrustedIsStep ==
    ASSUME DelegationInv, NEW c \in Calls, Trusted(c)
    PROVE  TypeOK' /\ ThreadStep(c)
<1>1. /\ pc[c] = "trust" /\ OrchTypeOK' /\ Learns(c)
      /\ UNCHANGED <<workerVars, oinc, delegated, disc, sess, status, try, got>>
    BY Serving DEF Trusted, Answered, OrchTypeOK, orchVars
<1>2. CASE Fail(c)
    BY <1>1, <1>2, FailIsStep
<1>3. CASE Post(c, SessionMsg(c, oinc)) /\ Goto(c, "session")
  <2>1. /\ pc' = [pc EXCEPT ![c] = "session"] /\ oinc \in Keys
        /\ sess' \in [Calls -> Calls \cup {NONE}] /\ try' \in [Calls -> 0..Attempts]
      BY <1>1, <1>3, Serving DEF Goto, CallTypeOK, OrchTypeOK
  <2> QED
      BY <1>1, <1>3, <2>1, Constructors, PostingStep DEF FromExecute, Exchanging
<1> QED
    BY <1>2, <1>3 DEF Trusted

LEMMA EstablishedIsStep ==
    ASSUME DelegationInv, NEW c \in Calls, Established(c)
    PROVE  TypeOK' /\ ThreadStep(c)
<1>1. /\ pc[c] = "session" /\ OrchTypeOK' /\ Learns(c)
      /\ UNCHANGED <<workerVars, oinc, delegated, disc, sess, status, try>>
    BY Serving DEF Established, Answered, OrchTypeOK
<1>2. CASE Fail(c)
    BY <1>1, <1>2, FailIsStep
<1>3. CASE Goto(c, "fetch") /\ StopWaiting(c)
    BY <1>1, <1>3, Serving, QuietStep
       DEF Discovers, Goto, CallTypeOK, Labels, Answers, FromExecute, Exchanging
<1> QED
    BY <1>2, <1>3 DEF Established

LEMMA FetchIsStep ==
    ASSUME DelegationInv, NEW c \in Calls, Fetch(c)
    PROVE  TypeOK' /\ ThreadStep(c)
<1>1. /\ pc[c] = "fetch" /\ OrchTypeOK' /\ Learns(c)
      /\ UNCHANGED <<workerVars, oinc, delegated, disc, status, try, got>>
      /\ osession \in Calls \cup {NONE} /\ CallTypeOK
    BY Serving DEF Fetch, OrchTypeOK, orchVars
<1>2. CASE Fail(c) /\ UNCHANGED sess
    BY <1>1, <1>2, FailIsStep
<1>3. CASE osession # NONE /\ Post(c, ExecuteMsg(c, osession)) /\ Goto(c, "execute")
           /\ sess' = [sess EXCEPT ![c] = osession]
  <2>1. /\ pc' = [pc EXCEPT ![c] = "execute"]
        /\ sess' \in [Calls -> Calls \cup {NONE}] /\ try' \in [Calls -> 0..Attempts]
      BY <1>1, <1>3 DEF Goto, CallTypeOK
  <2> QED
      BY <1>1, <1>3, <2>1, Constructors, PostingStep DEF FromExecute, Exchanging
<1> QED
    BY <1>2, <1>3 DEF Fetch

\* The reply to the query is what a call concludes its result from.
LEMMA ExecutedIsStep ==
    ASSUME DelegationInv, NEW c \in Calls, Executed(c)
    PROVE  TypeOK' /\ ThreadStep(c)
<1>1. /\ pc[c] = "execute" /\ OrchTypeOK' /\ Fail(c)
      /\ UNCHANGED <<workerVars, oinc, delegated, disc, sess, status, try>>
    BY Serving DEF Executed, Answered, OrchTypeOK, orchVars
<1>2. /\ got \in [Calls -> BOOLEAN]
      /\ got' = [got EXCEPT ![c] = rsp[c] \in {"results", "replay detected"}]
    BY Serving DEF Executed, CallTypeOK
<1>3. Learns(c)
  <2> DEFINE b == rsp[c] \in {"results", "replay detected"}
  <2>1. b \in BOOLEAN
      OBVIOUS
  <2>2. got' = [got EXCEPT ![c] = b]
      BY <1>2
  <2> HIDE DEF b
  <2>3. got' \in [Calls -> BOOLEAN] /\ got'[c] = b /\ \A d \in Calls \ {c} : got'[d] = got[d]
      BY <1>2, <2>1, <2>2
  <2> QED
      BY <2>3 DEF Learns, b
<1> QED
    BY <1>1, <1>3, FailIsStep

\* A teardown request names the session of the one it retries, or the session
\* that is kept when the cleanup begins.
LEMMA RetryIsStep ==
    ASSUME DelegationInv, NEW c \in Calls, pc[c] = "teardown", Retry(c),
           UNCHANGED <<workerVars, orchVars, disc, sess, got>>
    PROVE  TypeOK' /\ ThreadStep(c)
<1>1. /\ OrchTypeOK' /\ Learns(c) /\ sess' \in [Calls -> Calls \cup {NONE}]
      /\ CallTypeOK /\ UNCHANGED <<oinc, delegated>>
    BY Serving DEF CallTypeOK, OrchTypeOK, orchVars
<1>2. CASE try[c] < Attempts /\ PostTeardown(c, waiting[c].sid, try[c] + 1)
           /\ UNCHANGED <<pc, status>>
  <2>1. try[c] + 1 \in 1..Attempts /\ try' \in [Calls -> 0..Attempts]
      BY <1>1, <1>2, BoundsAssumption DEF CallTypeOK, PostTeardown
  <2>2. waiting[c].sid \in Calls
      BY RequestFields DEF DelegationInv, WaitsInExchange, RequestsWellFormed
  <2>3. pc' = [pc EXCEPT ![c] = "teardown"] /\ Post(c, TeardownMsg(c, waiting[c].sid, try[c] + 1))
      BY <1>1, <1>2 DEF CallTypeOK, PostTeardown
  <2> QED
      BY <1>1, <1>2, <2>1, <2>2, <2>3, Constructors, PostingStep DEF FromExecute, Exchanging
<1>3. CASE Answer(c, "discarded") /\ UNCHANGED try
    BY <1>1, <1>3, QuietStep DEF Discovers, Answer, Goto, CallTypeOK, Labels, Answers, FromExecute
<1> QED
    BY <1>2, <1>3 DEF Retry

LEMMA CleanupIsStep ==
    ASSUME DelegationInv, NEW c \in Calls, Cleanup(c)
    PROVE  TypeOK' /\ ThreadStep(c)
<1>1. /\ pc[c] = "cleanup" /\ OrchTypeOK' /\ Learns(c) /\ CallTypeOK
      /\ UNCHANGED <<workerVars, oinc, delegated, disc, sess, got>>
      /\ osession \in Calls \cup {NONE} /\ sess' \in [Calls -> Calls \cup {NONE}]
    BY Serving DEF Cleanup, CallTypeOK, OrchTypeOK, orchVars
<1>2. CASE Answer(c, Outcome(c)) /\ UNCHANGED try
  <2>1. /\ Outcome(c) \in {"ok", "failed"} /\ (Outcome(c) = "ok" => got[c])
        /\ pc' = [pc EXCEPT ![c] = "done"] /\ status' = [status EXCEPT ![c] = Outcome(c)]
        /\ StopWaiting(c) /\ try' \in [Calls -> 0..Attempts]
      BY <1>1, <1>2 DEF Outcome, Answer, Goto, CallTypeOK
  <2> QED
      BY <1>1, <2>1, QuietStep DEF Discovers, Labels, Answers, FromExecute
<1>3. CASE /\ osession # NONE /\ PostTeardown(c, osession, 1)
           /\ Goto(c, "teardown") /\ UNCHANGED status
  <2>1. 1 \in 1..Attempts /\ try' \in [Calls -> 0..Attempts]
      BY <1>1, <1>3, BoundsAssumption DEF CallTypeOK, PostTeardown
  <2>2. pc' = [pc EXCEPT ![c] = "teardown"] /\ Post(c, TeardownMsg(c, osession, 1))
      BY <1>3 DEF Goto, PostTeardown
  <2> QED
      BY <1>1, <1>3, <2>1, <2>2, Constructors, PostingStep DEF FromExecute, Exchanging
<1> QED
    BY <1>2, <1>3 DEF Cleanup

LEMMA TornDownIsStep ==
    ASSUME DelegationInv, NEW c \in Calls, TornDown(c)
    PROVE  TypeOK' /\ ThreadStep(c)
<1>1. /\ pc[c] = "teardown" /\ Learns(c) /\ OrchTypeOK /\ CallTypeOK
      /\ UNCHANGED <<workerVars, oinc, registry, delegated, disc, sess, got>>
      /\ sess' \in [Calls -> Calls \cup {NONE}]
    BY Serving DEF TornDown, Answered, CallTypeOK
<1>2. CASE Forget(c)
  <2>1. OrchTypeOK'
      BY <1>1, <1>2, BoundsAssumption DEF Forget, LogBreaks, OrchTypeOK
  <2>2. PICK st \in {"ok", "failed", "discarded", "error"} :
           (st = "ok" => got[c]) /\ Answer(c, st) /\ UNCHANGED try
      BY <1>2 DEF Forget, LogBreaks, Outcome
  <2> QED
      BY <1>1, <2>1, <2>2, QuietStep DEF Discovers, Answer, Goto, CallTypeOK, Labels, Answers, FromExecute
<1>3. CASE Retry(c) /\ UNCHANGED <<osession, audit>>
    BY <1>1, <1>3, RetryIsStep DEF orchVars
<1> QED
    BY <1>2, <1>3 DEF TornDown

LEMMA TimeOutIsStep ==
    ASSUME DelegationInv, NEW c \in Calls, TimeOut(c)
    PROVE  TypeOK' /\ ThreadStep(c)
<1>1. /\ pc[c] \in Exchanging /\ OrchTypeOK' /\ Learns(c)
      /\ UNCHANGED <<workerVars, orchVars, oinc, delegated, disc, sess, got>>
    BY Serving DEF TimeOut, OrchTypeOK, orchVars, DelegationInv, WaitsInExchange
<1>2. CASE pc[c] = "teardown" /\ Retry(c)
    BY <1>1, <1>2, RetryIsStep
<1>3. CASE pc[c] # "teardown" /\ Fail(c) /\ UNCHANGED <<status, try>>
    BY <1>1, <1>3, FailIsStep DEF Exchanging
<1> QED
    BY <1>2, <1>3 DEF TimeOut

LEMMA DiscoverIsStep ==
    ASSUME DelegationInv, NEW c \in Calls, Discover(c)
    PROVE  TypeOK' /\ ThreadStep(c)
<1>1. /\ pc[c] = "discover" /\ OrchTypeOK' /\ Learns(c) /\ Discovers(c)
      /\ UNCHANGED <<workerVars, oinc, delegated, sess, try, got>>
      /\ sess' \in [Calls -> Calls \cup {NONE}] /\ try' \in [Calls -> 0..Attempts]
    BY Serving DEF Discover, Discovers, CallTypeOK, OrchTypeOK, orchVars
<1>2. CASE Goto(c, "lookup") /\ UNCHANGED <<status, netVars>>
    BY <1>1, <1>2, Serving, QuietStep
       DEF Goto, CallTypeOK, Labels, Answers, FromExecute, Exchanging
<1>3. CASE Answer(c, "unavailable")
    BY <1>1, <1>3, QuietStep DEF Answer, Goto, Labels, Answers, FromExecute
<1> QED
    BY <1>2, <1>3 DEF Discover

\* Whatever the thread of an admitted call does next.
LEMMA ThreadIsStep ==
    ASSUME DelegationInv, NEW c \in Calls, Thread(c)
    PROVE  TypeOK' /\ ThreadStep(c)
    BY DiscoverIsStep, LookupIsStep, HandshakeIsStep, ComparePinIsStep, RegisterIsStep,
       TrustedIsStep, EstablishedIsStep, FetchIsStep, ExecutedIsStep, CleanupIsStep,
       TornDownIsStep, TimeOutIsStep
       DEF Thread

-----------------------------------------------------------------------------
\* The start of a call, and a restart of the orchestrator.

\* What neither of them touches.
LEMMA OutsideKeeps ==
    ASSUME DelegationInv, UNCHANGED <<workerVars, disc, sent>>
    PROVE  /\ WorkerTypeOK' /\ MemoryInv(disc)' /\ DiscoveryPast' /\ RequestsWellFormed'
           /\ StoringWereAsked' /\ KnownWereAsked' /\ RunsWereAsked' /\ Ran' = Ran
<1>1. PICK K \in [SessionIds -> Nat] : K = disc
    BY IdentifiersAssumption DEF DelegationInv, TypeOK, CallTypeOK
<1>2. MemoryInv(disc)'
    BY <1>1, MemoryStutter, MemoryOfDiscovery DEF DelegationInv
<1>3. RequestsWellFormed'
    BY WellFormedStays DEF DelegationInv, RequestsWellFormed
<1>4. StoringWereAsked' /\ KnownWereAsked' /\ RunsWereAsked'
    BY DEF DelegationInv, StoringWereAsked, KnownWereAsked, RunsWereAsked, KnownIds,
           SessionMsg, ExecuteMsg, workerVars, volatile
<1>5. DiscoveryPast' /\ Ran' = Ran /\ WorkerTypeOK'
    BY WorkerTypeStays DEF DelegationInv, DiscoveryPast, TypeOK, Ran, workerVars
<1> QED
    BY <1>2, <1>3, <1>4, <1>5

\* A call starts by being refused, or by being admitted with its nonce recorded.
Begins(c, label, answer) ==
    pc' = [pc EXCEPT ![c] = label] /\ status' = [status EXCEPT ![c] = answer]

Records(c) == /\ ClientNonce[c] \notin delegated
              /\ delegated' = delegated \cup {ClientNonce[c]}

LEMMA StartIsStep ==
    ASSUME DelegationInv, NEW c \in Calls, Start(c)
    PROVE  /\ pc[c] = "new" /\ status[c] = "none" /\ waiting[c] = NONE
           /\ \/ Begins(c, "done", "401") /\ UNCHANGED delegated
              \/ Begins(c, "done", "400") /\ Records(c)
              \/ Begins(c, "discover", "none") /\ Records(c)
           /\ UNCHANGED <<workerVars, oinc, registry, osession, audit, disc, sess, got, try,
                          sent, pending, waiting>>
           /\ rsp' = [rsp EXCEPT ![c] = NONE] \/ rsp' = rsp
<1>1. /\ pc[c] = "new" /\ waiting[c] = NONE /\ status[c] = "none"
      /\ waiting = [waiting EXCEPT ![c] = NONE] /\ status = [status EXCEPT ![c] = "none"]
    BY Serving DEF Start, RefuseUnauthenticated, RefuseReplayed, Admit, MayStart, Exchanging,
                   DelegationInv, WaitsInExchange, NetTypeOK, CallTypeOK
<1>2. CASE RefuseUnauthenticated(c) \/ RefuseReplayed(c)
    BY <1>1, <1>2 DEF RefuseUnauthenticated, RefuseReplayed, Answer, Goto, StopWaiting,
                      Begins, orchVars
<1>3. CASE Admit(c)
    BY <1>1, <1>3 DEF Admit, FreshClientNonce, Accepts, Answer, Goto, StopWaiting,
                      Begins, Records, netVars
<1> QED
    BY <1>2, <1>3 DEF Start

LEMMA StartKeeps ==
    ASSUME DelegationInv, NEW c \in Calls, Start(c)
    PROVE  DelegationInv'
<1>1. /\ pc[c] = "new" /\ status[c] = "none" /\ waiting[c] = NONE
      /\ \/ Begins(c, "done", "401") /\ UNCHANGED delegated
         \/ Begins(c, "done", "400") /\ Records(c)
         \/ Begins(c, "discover", "none") /\ Records(c)
      /\ UNCHANGED <<workerVars, oinc, registry, osession, audit, disc, sess, got, try,
                     sent, pending, waiting>>
      /\ rsp' = [rsp EXCEPT ![c] = NONE] \/ rsp' = rsp
    BY StartIsStep
<1>2. OrchTypeOK /\ CallTypeOK /\ NetTypeOK
    BY Serving
<1>3. \A d \in Calls \ {c} : pc'[d] = pc[d] /\ status'[d] = status[d]
    BY <1>1, <1>2 DEF Begins, CallTypeOK
<1>4. /\ pc'[c] \in {"discover", "done"} /\ status'[c] \in {"none", "400", "401"}
      /\ status'[c] = "none" <=> pc'[c] # "done"
      /\ status'[c] = "401" \/ Records(c)
    BY <1>1, <1>2 DEF Begins, CallTypeOK
<1>5. TypeOK'
  <2>1. WorkerTypeOK'
      BY <1>1, OutsideKeeps
  <2>2. OrchTypeOK'
      BY <1>1, <1>2 DEF OrchTypeOK, Records
  <2>3. CallTypeOK'
      BY <1>1, <1>2 DEF CallTypeOK, Begins, Labels, Answers
  <2>4. NetTypeOK'
      BY <1>1, <1>2 DEF NetTypeOK
  <2> QED
      BY <2>1, <2>2, <2>3, <2>4 DEF TypeOK
<1>6. \A m \in sent : m.call \in Calls \ {c}
    BY <1>1, RequestFields DEF DelegationInv, RequestsWellFormed, SendersAdmitted
<1>7. SendersAdmitted' /\ OneExecuteEach'
    BY <1>1, <1>3, <1>6 DEF DelegationInv, SendersAdmitted, OneExecuteEach, ExecuteMsg
<1>8. WaitsInExchange'
    BY <1>1, <1>3, <1>4 DEF DelegationInv, WaitsInExchange
<1>9. RepliesAreTrue'
  <2> SUFFICES ASSUME NEW d \in Calls,
                      \/ rsp'[d] \in {"results", "replay detected"}
                      \/ got'[d] \/ status'[d] = "ok"
               PROVE  d \in Ran
      BY <1>1, OutsideKeeps DEF RepliesAreTrue
  <2>1. \/ rsp[d] \in {"results", "replay detected"}
        \/ got[d] \/ status[d] = "ok"
      BY <1>1, <1>2, <1>3, <1>4, IdentifiersAssumption DEF Replies, NetTypeOK
  <2> QED
      BY <2>1 DEF DelegationInv, RepliesAreTrue
<1>10. AnsweredAtEnd'
    BY <1>3, <1>4 DEF DelegationInv, AnsweredAtEnd
<1>11. NoncesRemembered' /\ (oinc = 1 => ClientNonceOnce)'
  <2>1. delegated \subseteq delegated' /\ oinc' = oinc
      BY <1>1 DEF Records
  <2>2. NoncesRemembered'
      BY <1>3, <1>4, <2>1 DEF DelegationInv, NoncesRemembered, Records
  <2>3. ASSUME oinc = 1, NEW d \in Calls \ {c}, ClientNonce[d] = ClientNonce[c],
               pc[d] # "new", status'[c] # "401"
        PROVE  status[d] = "401"
      BY <1>4, <2>3 DEF DelegationInv, NoncesRemembered, Records
  <2>4. (oinc = 1 => ClientNonceOnce)'
      BY <1>3, <2>1, <2>3 DEF DelegationInv, ClientNonceOnce
  <2> QED
      BY <2>2, <2>4
<1> QED
    BY <1>1, <1>5, <1>7, <1>8, <1>9, <1>10, <1>11, OutsideKeeps DEF DelegationInv

\* A restart of the orchestrator ends the calls it was serving and forgets the
\* nonces; what they had posted may still be served.
LEMMA RestartOrchestratorKeeps == DelegationInv /\ RestartOrchestrator => DelegationInv'
<1> SUFFICES ASSUME DelegationInv, RestartOrchestrator PROVE DelegationInv'
    OBVIOUS
<1>1. /\ oinc <= MaxRestarts /\ oinc' = oinc + 1
      /\ registry' = NONE /\ osession' = NONE /\ delegated' = {}
      /\ pc' = [c \in Calls |-> IF c \in Active THEN "done" ELSE pc[c]]
      /\ status' = [c \in Calls |-> IF c \in Active THEN "lost" ELSE status[c]]
      /\ waiting' = [c \in Calls |-> NONE] /\ rsp' = [c \in Calls |-> NONE]
      /\ UNCHANGED <<workerVars, audit, disc, sess, got, try, sent, pending>>
    BY DEF RestartOrchestrator
<1>2. OrchTypeOK /\ CallTypeOK /\ NetTypeOK
    BY DEF DelegationInv, TypeOK
<1>3. oinc \in 1..(MaxRestarts + 1) /\ oinc' \in 1..(MaxRestarts + 1) /\ oinc' # 1
    BY <1>1, <1>2, IdentifiersAssumption, BoundsAssumption DEF OrchTypeOK
<1>4. \A c \in Calls : \/ pc'[c] = pc[c] /\ status'[c] = status[c] /\ pc[c] \in {"new", "done"}
                       \/ pc'[c] = "done" /\ status'[c] = "lost" /\ pc[c] \notin {"new", "done"}
    BY <1>1, <1>2 DEF CallTypeOK, Active
<1>5. TypeOK'
  <2>1. WorkerTypeOK'
      BY <1>1, OutsideKeeps
  <2>2. OrchTypeOK'
      BY <1>1, <1>2, <1>3, IdentifiersAssumption DEF OrchTypeOK
  <2>3. CallTypeOK'
      BY <1>1, <1>2 DEF CallTypeOK, Labels, Answers
  <2>4. NetTypeOK'
      BY <1>1, <1>2 DEF NetTypeOK
  <2> QED
      BY <2>1, <2>2, <2>3, <2>4 DEF TypeOK
<1>6. \A m \in sent : m.call \in Calls
    BY RequestFields DEF DelegationInv, RequestsWellFormed
<1>7. SendersAdmitted' /\ OneExecuteEach'
    BY <1>1, <1>4, <1>6
       DEF DelegationInv, SendersAdmitted, OneExecuteEach, ExecuteMsg, FromExecute
<1>8. WaitsInExchange'
    BY <1>1, <1>4 DEF WaitsInExchange
<1>9. RepliesAreTrue'
  <2> SUFFICES ASSUME NEW d \in Calls,
                      \/ rsp'[d] \in {"results", "replay detected"}
                      \/ got'[d] \/ status'[d] = "ok"
               PROVE  d \in Ran
      BY <1>1, OutsideKeeps DEF RepliesAreTrue
  <2>1. got[d] \/ status[d] = "ok"
      BY <1>1, <1>4, IdentifiersAssumption DEF Replies
  <2> QED
      BY <2>1 DEF DelegationInv, RepliesAreTrue
<1>10. AnsweredAtEnd'
    BY <1>4 DEF DelegationInv, AnsweredAtEnd
<1>11. NoncesRemembered' /\ (oinc = 1 => ClientNonceOnce)'
    BY <1>3 DEF NoncesRemembered
<1> QED
    BY <1>1, <1>5, <1>7, <1>8, <1>9, <1>10, <1>11, OutsideKeeps DEF DelegationInv

-----------------------------------------------------------------------------
\* The invariant holds from the start and is kept by every step.

LEMMA DelegationInvInit == Init => DelegationInv
<1> SUFFICES ASSUME Init PROVE DelegationInv
    OBVIOUS
<1>1. /\ WorkerInit /\ oinc = 1 /\ registry = NONE /\ osession = NONE
      /\ delegated = {} /\ audit = 0 /\ sent = {} /\ pending = {}
      /\ \A c \in Calls : /\ pc[c] = "new" /\ disc[c] = 0 /\ status[c] = "none"
                          /\ got[c] = FALSE /\ waiting[c] = NONE /\ rsp[c] = NONE
    BY DEF Init
<1>2. PICK K \in [SessionIds -> Nat] : K = disc
    BY IdentifiersAssumption DEF Init
<1>3. MemoryInv(disc) /\ WorkerTypeOK
    BY <1>1, <1>2, MemoryInit DEF MemoryInv
<1>4. TypeOK
  <2>1. OrchTypeOK
      BY <1>1, IdentifiersAssumption, BoundsAssumption DEF OrchTypeOK
  <2>2. CallTypeOK
      BY BoundsAssumption DEF Init, CallTypeOK, Labels, Answers
  <2>3. NetTypeOK
      BY DEF Init, NetTypeOK
  <2> QED
      BY <1>3, <2>1, <2>2, <2>3 DEF TypeOK
<1>5. KnownIds = {} /\ \A c, s \in Calls : executions[<<s, c>>] = 0
  <2>1. acceptedIds = {} /\ closed = {}
      BY <1>1 DEF WorkerInit
  <2>2. \A s \in SessionIds, q \in Queries : executions[<<s, q>>] = 0
      BY <1>1 DEF WorkerInit
  <2>3. KnownIds = {}
    <3>1. ASSUME NEW s \in SessionIds, NEW q \in Queries
          PROVE  ~(executions[<<s, q>>] > 0)
        BY <2>2
    <3> QED
        BY <2>1, <3>1 DEF KnownIds
  <2> QED
      BY <2>2, <2>3, IdentifiersAssumption
<1>6. DiscoveryPast
    BY <1>1 DEF DiscoveryPast, WorkerInit
<1>7. RequestsWellFormed /\ SendersAdmitted /\ OneExecuteEach /\ WaitsInExchange
    BY <1>1 DEF RequestsWellFormed, SendersAdmitted, OneExecuteEach, WaitsInExchange
<1>8. StoringWereAsked /\ KnownWereAsked /\ RunsWereAsked
    BY <1>1, <1>5 DEF StoringWereAsked, KnownWereAsked, RunsWereAsked, WorkerInit
<1>9. RepliesAreTrue
    BY <1>1, IdentifiersAssumption DEF RepliesAreTrue, Replies
<1>10. AnsweredAtEnd /\ NoncesRemembered /\ ClientNonceOnce
    BY <1>1 DEF AnsweredAtEnd, NoncesRemembered, ClientNonceOnce
<1> QED
    BY <1>3, <1>4, <1>6, <1>7, <1>8, <1>9, <1>10 DEF DelegationInv

LEMMA DelegationInvStutter == DelegationInv /\ UNCHANGED vars => DelegationInv'
<1> SUFFICES ASSUME DelegationInv, UNCHANGED vars PROVE DelegationInv'
    OBVIOUS
<1>1. UNCHANGED <<workerVars, orchVars, netVars, pc, disc, sess, got, status, try>>
    BY DEF vars
<1>2. TypeOK'
  <2>1. WorkerTypeOK'
      BY <1>1, OutsideKeeps DEF netVars
  <2> QED
      BY <1>1, <2>1
         DEF DelegationInv, TypeOK, OrchTypeOK, CallTypeOK, NetTypeOK, orchVars, netVars
<1>3. /\ MemoryInv(disc)' /\ DiscoveryPast' /\ RequestsWellFormed'
      /\ StoringWereAsked' /\ KnownWereAsked' /\ RunsWereAsked' /\ Ran' = Ran
    BY <1>1, OutsideKeeps DEF netVars
<1>4. SendersAdmitted' /\ OneExecuteEach' /\ WaitsInExchange' /\ AnsweredAtEnd'
    BY <1>1 DEF DelegationInv, SendersAdmitted, OneExecuteEach, WaitsInExchange, AnsweredAtEnd,
                ExecuteMsg, netVars
<1>5. RepliesAreTrue' /\ NoncesRemembered' /\ (oinc = 1 => ClientNonceOnce)'
    BY <1>1, <1>3 DEF DelegationInv, RepliesAreTrue, NoncesRemembered, ClientNonceOnce,
                      orchVars, netVars
<1> QED
    BY <1>2, <1>3, <1>4, <1>5 DEF DelegationInv

LEMMA DelegationInvStep == DelegationInv /\ [Next]_vars => DelegationInv'
    BY StartKeeps, ThreadIsStep, ThreadStepKeeps, ServeKeeps, RestartWorkerKeeps,
       RestartOrchestratorKeeps, DelegationInvStutter
       DEF Next

\* The inductive invariant of the protocol.
THEOREM DelegationInvHolds == Spec => []DelegationInv
    BY DelegationInvInit, DelegationInvStep, PTL DEF Spec

-----------------------------------------------------------------------------
\* What follows from it in every state.

THEOREM TypeCorrect == Spec => []TypeOK
<1>1. DelegationInv => TypeOK
    BY DEF DelegationInv
<1> QED
    BY <1>1, DelegationInvHolds, PTL

LEMMA OneExecution == DelegationInv => ExecutedOnce
<1> SUFFICES ASSUME DelegationInv, NEW c \in Calls, NEW s1 \in Calls, NEW s2 \in Calls
             PROVE  /\ executions[<<s1, c>>] <= 1
                    /\ executions[<<s1, c>>] + executions[<<s2, c>>] = 2 => s1 = s2
    BY DEF ExecutedOnce
<1>1. \A s \in Calls : executions[<<s, c>>] \in Nat /\ executions[<<s, c>>] <= 1
    BY IdentifiersAssumption DEF DelegationInv, MemoryInv, WorkerTypeOK, OncePerSession
<1>2. \A s \in Calls : executions[<<s, c>>] > 0 => ExecuteMsg(c, s) \in sent
    BY DEF DelegationInv, RunsWereAsked
<1>3. executions[<<s1, c>>] > 0 /\ executions[<<s2, c>>] > 0 => s1 = s2
    BY <1>2 DEF DelegationInv, OneExecuteEach
<1> QED
    BY <1>1, <1>3

\* However often and late its requests are served, and whatever restarts, the
\* query of a call runs once, in one session: the session's records and its KEM
\* key stop a repetition there, and a call asks in one session only.  Shown for a
\* worker that handles one execute request at a time: the records are tested and
\* made in one step here (Execute), in unlocked statements in the code, and
\* SearchAdmission shows that copies handled at once can both run.
THEOREM ExecutedOnceHolds == Spec => []ExecutedOnce
    BY OneExecution, DelegationInvHolds, PTL

\* No late or repeated establishment brings back a session that was torn down
\* or lost: not in a form in which the worker would run anything.
THEOREM ClosedForGoodHolds == Spec => []ClosedForGood
<1>1. DelegationInv => ClosedForGood
    BY DEF DelegationInv, MemoryInv
<1> QED
    BY <1>1, DelegationInvHolds, PTL

\* While the orchestrator runs, a client nonce serves one call: every other call
\* that carries it is answered 401.
THEOREM ClientNonceOnceHolds == Spec => [](oinc = 1 => ClientNonceOnce)
<1>1. DelegationInv => (oinc = 1 => ClientNonceOnce)
    BY DEF DelegationInv
<1> QED
    BY <1>1, DelegationInvHolds, PTL

-----------------------------------------------------------------------------
\* The protocol implements SearchService, step by step.

\* How often a query has run: the set that is counted is empty or a singleton.
LEMMA RunsCount == DelegationInv => RunsOf = [c \in Calls |-> IF c \in Ran THEN 1 ELSE 0]
<1> SUFFICES ASSUME DelegationInv, NEW c \in Calls
             PROVE  Cardinality(Runs(c)) = IF c \in Ran THEN 1 ELSE 0
    BY DEF RunsOf
<1>1. \A s \in Calls : executions[<<s, c>>] \in Nat /\ executions[<<s, c>>] <= 1
    BY IdentifiersAssumption DEF DelegationInv, MemoryInv, WorkerTypeOK, OncePerSession
<1>2. CASE c \notin Ran
  <2>1. \A s \in Calls : 1..executions[<<s, c>>] = {}
      BY <1>1, <1>2 DEF Ran
  <2>2. Runs(c) = {}
      BY <2>1 DEF Runs
  <2> QED
      BY <1>2, <2>2, FS_EmptySet
<1>3. CASE c \in Ran
  <2>1. PICK s \in Calls : executions[<<s, c>>] > 0
      BY <1>3 DEF Ran
  <2>2. ASSUME NEW t \in Calls, t # s PROVE executions[<<t, c>>] = 0
      BY <1>1, <2>1, <2>2, OneExecution DEF ExecutedOnce
  <2>3. 1..executions[<<s, c>>] = {1} /\ \A t \in Calls \ {s} : 1..executions[<<t, c>>] = {}
      BY <1>1, <2>1, <2>2
  <2>4. Runs(c) = {<<s, 1>>}
    <3> DEFINE In(t) == {<<t, n>> : n \in 1..executions[<<t, c>>]}
    <3>1. \A t \in Calls : In(t) = IF t = s THEN {<<s, 1>>} ELSE {}
        BY <2>3
    <3>2. Runs(c) = UNION {In(t) : t \in Calls}
        BY DEF Runs
    <3> HIDE DEF In
    <3> QED
        BY <3>1, <3>2
  <2> QED
      BY <1>3, <2>4, FS_Singleton
<1> QED
    BY <1>2, <1>3

LEMMA RunsCountNext == (DelegationInv => RunsOf = [c \in Calls |-> IF c \in Ran THEN 1 ELSE 0])'
    BY RunsCount, PTL

LEMMA RunsStay ==
    ASSUME executions' = executions
    PROVE  RunsOf' = RunsOf
    BY DEF RunsOf, Runs

\* What the service does not see.
LEMMA ServiceStutter ==
    ASSUME Opened' = Opened, RunsOf' = RunsOf, status' = status
    PROVE  UNCHANGED Service!vars
    BY DEF Service!vars

LEMMA ServiceInit == Init => Service!Init
<1> SUFFICES ASSUME Init PROVE Service!Init
    OBVIOUS
<1>1. Opened = {}
    BY DEF Init, Opened
<1>2. \A c, s \in Calls : executions[<<s, c>>] = 0
    BY IdentifiersAssumption DEF Init, WorkerInit
<1>3. ASSUME NEW c \in Calls, NEW s \in Calls
      PROVE  ~(executions[<<s, c>>] > 0)
    BY <1>2
<1>4. Ran = {}
    BY <1>3 DEF Ran
<1>5. RunsOf = [c \in Calls |-> 0]
    BY <1>4, DelegationInvInit, RunsCount
<1> QED
    BY <1>1, <1>5 DEF Init, Service!Init

\* The start of a call opens or refuses it.
LEMMA StartRefines ==
    ASSUME DelegationInv, NEW c \in Calls, Start(c)
    PROVE  Service!Next
<1>1. /\ pc[c] = "new" /\ status[c] = "none"
      /\ \/ Begins(c, "done", "401") \/ Begins(c, "done", "400")
         \/ Begins(c, "discover", "none")
      /\ UNCHANGED <<workerVars, disc, sent>>
    BY StartIsStep
<1>2. CallTypeOK /\ c \notin Opened /\ RunsOf' = RunsOf
    BY <1>1, Serving, RunsStay DEF Opened, workerVars
<1>3. \A d \in Calls \ {c} : d \in Opened' <=> d \in Opened
    BY <1>1, <1>2 DEF Begins, CallTypeOK, Opened
<1>4. Opened \subseteq Calls /\ Opened' \subseteq Calls
    BY DEF Opened
<1>5. CASE \E why \in {"401", "400"} : Begins(c, "done", why)
  <2>1. PICK why \in {"401", "400"} : Begins(c, "done", why)
      BY <1>5
  <2>2. c \notin Opened'
      BY <1>2, <2>1 DEF Begins, CallTypeOK, Opened
  <2>3. Opened' = Opened
      BY <1>2, <1>3, <1>4, <2>2
  <2>4. Service!Refuse(c, why)
      BY <1>1, <1>2, <2>1, <2>3 DEF Begins, Service!Refuse
  <2> QED
      BY <2>4 DEF Service!Next, Service!Refusals
<1>6. CASE Begins(c, "discover", "none")
  <2>1. c \in Opened' /\ status' = status
      BY <1>1, <1>2, <1>6 DEF Begins, CallTypeOK, Opened
  <2>2. Opened' = Opened \cup {c}
      BY <1>2, <1>3, <1>4, <2>1
  <2>3. Service!Open(c)
      BY <1>1, <1>2, <2>1, <2>2 DEF Service!Open
  <2> QED
      BY <2>3 DEF Service!Next
<1> QED
    BY <1>1, <1>5, <1>6

\* A thread answers "ok" only for a query that has run.
LEMMA ThreadRefines ==
    ASSUME DelegationInv, TypeOK', NEW c \in Calls, ThreadStep(c)
    PROVE  [Service!Next]_Service!vars
<1>1. CallTypeOK /\ CallTypeOK' /\ pc[c] \notin {"new", "done"} /\ status[c] = "none"
    BY Serving DEF TypeOK, ThreadStep, Moves
<1>2. RunsOf' = RunsOf
    BY RunsStay DEF ThreadStep, workerVars
<1>3. /\ pc'[c] # "new" /\ status'[c] \notin {"400", "401"}
      /\ status'[c] = "ok" => got[c]
      /\ \A d \in Calls \ {c} : pc'[d] = pc[d] /\ status'[d] = status[d]
    BY DEF ThreadStep, OthersStay, Moves, Concludes
<1>4. Opened' = Opened /\ c \in Opened
    BY <1>1, <1>3 DEF Opened
<1>5. status' = [status EXCEPT ![c] = status'[c]] /\ status'[c] \in Answers \ {"400", "401"}
    BY <1>1, <1>3 DEF CallTypeOK
<1>6. CASE status'[c] = "none"
  <2>1. status' = status
      BY <1>1, <1>5, <1>6 DEF CallTypeOK
  <2> QED
      BY <1>2, <1>4, <2>1, ServiceStutter
<1>7. CASE status'[c] = "ok"
  <2>1. RunsOf[c] = 1
      BY <1>3, <1>7, RunsCount DEF DelegationInv, RepliesAreTrue
  <2>2. Service!Succeed(c)
      BY <1>1, <1>2, <1>4, <1>5, <1>7, <2>1 DEF Service!Succeed
  <2> QED
      BY <2>2 DEF Service!Next
<1>8. CASE status'[c] \in Service!Failures
  <2>1. status' = [d \in Calls |-> IF d \in {c} THEN status'[c] ELSE status[d]]
      BY <1>1, <1>3 DEF CallTypeOK
  <2>2. Service!Disappoint({c})
      BY <1>1, <1>2, <1>4, <1>8, <2>1 DEF Service!Disappoint
  <2> QED
      BY <2>2 DEF Service!Next
<1> QED
    BY <1>5, <1>6, <1>7, <1>8 DEF Answers, Service!Failures

\* Serving a request, in time, late or again, runs at most the query of its call.
LEMMA ServeRefines ==
    ASSUME DelegationInv, NEW m \in sent, Serve(m) \/ ServeCopy(m) \/ Store(m)
    PROVE  [Service!Next]_Service!vars
<1>1. PICK reply \in Replies \cup {NONE} : Handle(m, reply) \/ StorePin(m, reply)
    BY DEF Serve, ServeCopy, Store
<1>2. UNCHANGED <<pc, disc, status>>
    BY DEF Serve, ServeCopy, Store
<1>3. WellFormed(m) /\ m.call \in Calls
    BY RequestFields DEF DelegationInv, RequestsWellFormed
<1>4. PICK K \in [SessionIds -> Nat] : K = disc
    BY IdentifiersAssumption DEF DelegationInv, TypeOK, CallTypeOK
<1>5. /\ MemoryInv(K)'
      /\ \A s, c \in Calls : executions[<<s, c>>] <= executions'[<<s, c>>]
      /\ \A s, c \in Calls : executions'[<<s, c>>] # executions[<<s, c>>] =>
             m.kind = "execute" /\ m.sid = s /\ m.query = c
    BY <1>1, <1>4, HandleKeeps
<1>6. \A s, c \in Calls : executions[<<s, c>>] \in Nat /\ executions'[<<s, c>>] \in Nat
    BY <1>5, IdentifiersAssumption DEF DelegationInv, MemoryInv, WorkerTypeOK
<1>7. Ran \subseteq Ran'
    BY <1>5, <1>6 DEF Ran
<1>8. Ran' \subseteq Ran \cup {m.call}
  <2> SUFFICES ASSUME NEW c \in Calls, NEW s \in Calls, executions'[<<s, c>>] > 0
               PROVE  c \in Ran \cup {m.call}
      BY DEF Ran
  <2>1. CASE executions'[<<s, c>>] = executions[<<s, c>>]
      BY <2>1 DEF Ran
  <2>2. CASE m.kind = "execute" /\ m.query = c
      BY <1>3, <2>2, RequestFields
  <2> QED
      BY <1>5, <2>1, <2>2
<1>9. m.call \in Opened /\ Opened' = Opened
    BY <1>2, <1>3 DEF DelegationInv, SendersAdmitted, Opened
<1>9a. /\ RunsOf = [c \in Calls |-> IF c \in Ran THEN 1 ELSE 0]
       /\ RunsOf' = [c \in Calls |-> IF c \in Ran' THEN 1 ELSE 0]
    BY RunsCount, RunsCountNext, ServeKeeps
<1>10. CASE Ran' = Ran
    BY <1>2, <1>9, <1>9a, <1>10, ServiceStutter
<1>11. CASE Ran' # Ran
  <2>1. Ran' = Ran \cup {m.call} /\ m.call \notin Ran
      BY <1>7, <1>8, <1>11
  <2>1a. RunsOf[m.call] = 0 /\ RunsOf' = [RunsOf EXCEPT ![m.call] = 1]
      BY <1>3, <1>9a, <2>1
  <2>2. Service!Run(m.call)
      BY <1>2, <1>9, <2>1a DEF Service!Run
  <2> QED
      BY <1>3, <2>2 DEF Service!Next
<1> QED
    BY <1>10, <1>11

\* A restart disappoints the calls that are being served, all of them at once.
LEMMA RestartRefines ==
    ASSUME DelegationInv, RestartOrchestrator
    PROVE  [Service!Next]_Service!vars
<1>1. /\ pc' = [c \in Calls |-> IF c \in Active THEN "done" ELSE pc[c]]
      /\ status' = [c \in Calls |-> IF c \in Active THEN "lost" ELSE status[c]]
      /\ UNCHANGED <<workerVars, disc, sent>>
    BY DEF RestartOrchestrator
<1>2. CallTypeOK /\ RunsOf' = RunsOf
    BY <1>1, RunsStay DEF DelegationInv, TypeOK, workerVars
<1>3. Active \subseteq Opened /\ \A c \in Active : status[c] = "none"
    BY DEF Active, Opened, DelegationInv, AnsweredAtEnd
<1>4. Opened' = Opened
    BY <1>1, <1>3 DEF Active, Opened
<1>5. CASE Active = {}
  <2>1. status' = status
      BY <1>1, <1>2, <1>5 DEF CallTypeOK
  <2> QED
      BY <1>2, <1>4, <2>1, ServiceStutter
<1>6. CASE Active # {}
  <2>1. Service!Disappoint(Active)
      BY <1>1, <1>2, <1>3, <1>4, <1>6 DEF Service!Disappoint, Service!Failures
  <2> QED
      BY <2>1 DEF Service!Next, Active
<1> QED
    BY <1>5, <1>6

LEMMA ServiceStep == DelegationInv /\ [Next]_vars => [Service!Next]_Service!vars
<1> SUFFICES ASSUME DelegationInv, [Next]_vars PROVE [Service!Next]_Service!vars
    OBVIOUS
<1>1. ASSUME NEW c \in Calls, Thread(c) PROVE [Service!Next]_Service!vars
    BY <1>1, ThreadIsStep, ThreadRefines
<1>2. CASE RestartWorker
    BY <1>2, RunsStay, ServiceStutter DEF RestartWorker, WorkerRestart, Opened
<1>3. CASE UNCHANGED vars
    BY <1>3, RunsStay, ServiceStutter DEF vars, workerVars, Opened
<1> QED
    BY <1>1, <1>2, <1>3, StartRefines, ServeRefines, RestartRefines DEF Next

\* Behind the threads, the retries and the restarts, a client sees a service
\* that runs its query at most once, never after turning it away, and answers
\* with a result only when the query has run.  The count of executions is mapped, so
\* a second one would be no step of the service; that there is none is shown for a
\* worker that handles one execute request at a time, as in ExecutedOnceHolds.
THEOREM ServesClientsHolds == Spec => ServesClients
    BY ServiceInit, ServiceStep, DelegationInvHolds, PTL DEF Spec, ServesClients, Service!Spec

-----------------------------------------------------------------------------
(* Calls that are served one at a time. *)

\* What each action of a thread does to the call, its request and the state that
\* calls share, one operator per place.
Keeps(c) ==
    \A d \in Calls \ {c} :
        /\ pc'[d] = pc[d] /\ status'[d] = status[d] /\ disc'[d] = disc[d]
        /\ waiting'[d] = waiting[d] /\ rsp'[d] = rsp[d]
        /\ sess'[d] = sess[d] /\ got'[d] = got[d]

Goes(c, label, answer) ==
    /\ pc'[c] = label /\ status'[c] = answer
    /\ waiting'[c] = NONE
    /\ UNCHANGED <<sent, pending>>

Posted(c, label, m) ==
    /\ pc'[c] = label /\ status'[c] = status[c]
    /\ waiting'[c] = m /\ rsp'[c] = NONE
    /\ sent' = sent \cup {m} /\ pending' = pending \cup {m}

Shared == UNCHANGED <<registry, osession, audit>>
Locals(c) == disc'[c] = disc[c] /\ sess'[c] = sess[c] /\ got'[c] = got[c]

AtDiscover(c) ==
    /\ pc[c] = "discover" /\ Shared /\ sess'[c] = sess[c] /\ got'[c] = got[c]
    /\ \/ Goes(c, "lookup", "none") /\ disc'[c] = inc
       \/ Goes(c, "done", "unavailable") /\ c \in FaultyCalls /\ disc'[c] = disc[c]

AtLookup(c) ==
    /\ pc[c] \in {"lookup", "fetch"} /\ Shared
    /\ \/ /\ osession = NONE /\ Locals(c)
          /\ Goes(c, IF pc[c] = "lookup" THEN "handshake" ELSE "cleanup", "none")
       \/ /\ osession # NONE /\ disc'[c] = disc[c] /\ got'[c] = got[c] /\ sess'[c] = osession
          /\ Posted(c, "execute", ExecuteMsg(c, osession))

AtHandshake(c) ==
    /\ pc[c] \in {"handshake", "register"} /\ Shared /\ Locals(c)
    /\ \/ /\ pc[c] = "handshake" /\ inc = disc[c] /\ Goes(c, "register", "none")
       \/ /\ pc[c] = "handshake" /\ (inc # disc[c] \/ c \in FaultyCalls)
          /\ Goes(c, "cleanup", "none")
       \/ pc[c] = "register" /\ PinConflict(c) /\ Goes(c, "cleanup", "none")
       \/ pc[c] = "register" /\ Goes(c, "pin", "none")

LogFails(c) == /\ c \in FaultyCalls
               /\ audit' \in {audit, audit + 1} /\ audit' <= AuditRoom

AtPin(c) ==
    /\ pc[c] = "pin" /\ Locals(c) /\ registry' = disc[c] /\ osession' = osession
    /\ \/ audit < AuditRoom /\ audit' = audit + 1 /\ Posted(c, "trust", TrustMsg(c, oinc))
       \/ audit >= AuditRoom /\ audit' = audit /\ Goes(c, "cleanup", "none")
       \/ LogFails(c) /\ Goes(c, "done", "error")

AtTrust(c) ==
    /\ pc[c] = "trust" /\ rsp[c] = "200" /\ Shared /\ Locals(c)
    /\ Posted(c, "session", SessionMsg(c, oinc))

AtSession(c) ==
    /\ pc[c] = "session" /\ rsp[c] = "200" /\ Locals(c)
    /\ osession' = c /\ UNCHANGED <<registry, audit>>
    /\ Goes(c, "fetch", "none")

AtExecute(c) ==
    /\ pc[c] = "execute" /\ rsp[c] # NONE /\ Shared /\ disc'[c] = disc[c] /\ sess'[c] = sess[c]
    /\ got'[c] = (rsp[c] \in {"results", "replay detected"})
    /\ Goes(c, "cleanup", "none")

AtFailure(c) ==
    /\ pc[c] \in {"trust", "session", "execute"} /\ Shared /\ Locals(c)
    /\ c \in FaultyCalls \/ (pc[c] # "execute" /\ rsp[c] \notin {NONE, "200"})
    /\ Goes(c, "cleanup", "none")

AtCleanup(c) ==
    /\ pc[c] = "cleanup" /\ Shared /\ Locals(c)
    /\ \/ osession = NONE /\ Goes(c, "done", Outcome(c))
       \/ osession # NONE /\ Posted(c, "teardown", TeardownMsg(c, osession, 1))

AtTeardown(c) ==
    /\ pc[c] = "teardown" /\ rsp[c] = "200" /\ Locals(c)
    /\ osession' = NONE /\ registry' = registry
    /\ \/ audit < AuditRoom /\ audit' = audit + 1 /\ Goes(c, "done", Outcome(c))
       \/ audit >= AuditRoom /\ audit' = audit /\ Goes(c, "done", "discarded")
       \/ LogFails(c) /\ Goes(c, "done", "error")

AtRetry(c) ==
    /\ pc[c] = "teardown" /\ Shared /\ Locals(c)
    /\ c \in FaultyCalls \/ rsp[c] \notin {NONE, "200"}
    /\ \/ \E k \in 1..Attempts : Posted(c, "teardown", TeardownMsg(c, waiting[c].sid, k))
       \/ Goes(c, "done", "discarded")

Row(c) == \/ AtDiscover(c) \/ AtLookup(c) \/ AtHandshake(c) \/ AtPin(c) \/ AtTrust(c)
          \/ AtSession(c) \/ AtExecute(c) \/ AtFailure(c) \/ AtCleanup(c) \/ AtTeardown(c)
          \/ AtRetry(c)

\* Every action of a thread is one of these steps.
LEMMA ThreadRow ==
    ASSUME DelegationInv, NEW c \in Calls, Thread(c)
    PROVE  Keeps(c) /\ Row(c) /\ UNCHANGED <<workerVars, oinc, delegated>>
<1>0. CallTypeOK /\ NetTypeOK /\ OrchTypeOK /\ (pc[c] # "done" => status[c] = "none")
    BY Serving
<1>1. pc[c] \notin Exchanging => waiting[c] = NONE
    BY DEF DelegationInv, WaitsInExchange
<1> USE DEF Keeps, Goes, Posted, Shared, Locals, Goto, Fail, StopWaiting, Post, Answer,
            CallTypeOK, NetTypeOK
<1>2. CASE Discover(c)
    BY <1>0, <1>1, <1>2 DEF Discover, Row, AtDiscover, Exchanging, orchVars, netVars
<1>3. CASE Lookup(c)
    BY <1>0, <1>1, <1>3 DEF Lookup, Row, AtLookup, Exchanging, orchVars, netVars
<1>4. CASE Handshake(c)
    BY <1>0, <1>1, <1>4 DEF Handshake, Row, AtHandshake, Exchanging, orchVars, netVars
<1>5. CASE ComparePin(c)
    BY <1>0, <1>1, <1>5 DEF ComparePin, Row, AtHandshake, Exchanging, orchVars, netVars
<1>6. CASE Register(c)
    BY <1>0, <1>1, <1>6, BoundsAssumption
       DEF Register, LogBreaks, LogFails, Row, AtPin, Exchanging, orchVars, netVars
<1>7. CASE Trusted(c)
    BY <1>0, <1>7 DEF Trusted, Answered, Row, AtTrust, AtFailure, orchVars
<1>8. CASE Established(c)
    BY <1>0, <1>8 DEF Established, Answered, Row, AtSession, AtFailure, orchVars
<1>9. CASE Fetch(c)
    BY <1>0, <1>1, <1>9 DEF Fetch, Row, AtLookup, orchVars
<1>10. CASE Executed(c)
    BY <1>0, <1>10 DEF Executed, Answered, Row, AtExecute, orchVars
<1>11. CASE Cleanup(c)
    BY <1>0, <1>11 DEF Cleanup, Row, AtCleanup, PostTeardown, orchVars
<1>12. CASE TornDown(c)
    BY <1>0, <1>12, BoundsAssumption
       DEF TornDown, Answered, Row, AtTeardown, AtRetry, Forget, LogBreaks, LogFails, Retry,
           PostTeardown
<1>13. CASE TimeOut(c)
  <2>1. pc[c] \in Exchanging /\ c \in FaultyCalls
      BY <1>1, <1>13 DEF TimeOut
  <2>2. CASE pc[c] = "teardown"
      BY <1>0, <1>13, <2>1, <2>2, BoundsAssumption
         DEF TimeOut, Row, AtRetry, Retry, PostTeardown, orchVars
  <2>3. CASE pc[c] # "teardown"
      BY <1>0, <1>13, <2>1, <2>3 DEF TimeOut, Row, AtFailure, Exchanging, orchVars
  <2> QED
      BY <2>2, <2>3
<1> QED
    BY <1>2, <1>3, <1>4, <1>5, <1>6, <1>7, <1>8, <1>9, <1>10, <1>11, <1>12, <1>13
       DEF Thread

\* The requests that a thread posts, by the step that posts them.
LEMMA PostedFields ==
    ASSUME NEW c, NEW s, NEW k
    PROVE  /\ TrustMsg(c, k).kind = "trust" /\ TrustMsg(c, k).call = c
           /\ SessionMsg(c, k).kind = "session" /\ SessionMsg(c, k).call = c
           /\ SessionMsg(c, k).sid = c
           /\ ExecuteMsg(c, s).kind = "execute" /\ ExecuteMsg(c, s).call = c
           /\ ExecuteMsg(c, s).sid = s
           /\ TeardownMsg(c, s, k).kind = "teardown" /\ TeardownMsg(c, s, k).call = c
           /\ TeardownMsg(c, s, k).sid = s
    BY DEF TrustMsg, SessionMsg, ExecuteMsg, TeardownMsg

\* The one call that is being served moves on; the others wait or are done.
LEMMA RowEntry ==
    ASSUME DelegationInv, OneAtATime, NEW c \in Calls,
           \A d \in Calls : WaitsForItsStep(d) /\ EntryFollowsCall(d),
           Keeps(c), Row(c)
    PROVE  /\ OneAtATime' /\ pc[c] \notin {"new", "done"}
           /\ \A d \in Calls \ {c} : pc[d] \in {"new", "done"}
           /\ \A d \in Calls : WaitsForItsStep(d)' /\ EntryFollowsCall(d)'
<1>0. CallTypeOK /\ NetTypeOK /\ OrchTypeOK /\ WaitsForItsStep(c) /\ EntryFollowsCall(c)
      /\ NONE \notin Calls
    BY Serving, IdentifiersAssumption
<1>1. pc[c] \notin {"new", "done"}
    BY DEF Row, AtDiscover, AtLookup, AtHandshake, AtPin, AtTrust, AtSession, AtExecute,
           AtFailure, AtCleanup, AtTeardown, AtRetry
<1>2. \A d \in Calls \ {c} : pc[d] \in {"new", "done"}
    BY <1>1 DEF OneAtATime, Active
<1>3. OneAtATime'
    BY <1>1, <1>2 DEF OneAtATime, Active, Keeps
<1>4. ASSUME NEW d \in Calls \ {c} PROVE WaitsForItsStep(d)' /\ EntryFollowsCall(d)'
    BY <1>2, <1>4 DEF Keeps, WaitsForItsStep, EntryFollowsCall, Exchanging, Unsent,
                      Establishing
<1>5. WaitsForItsStep(c)' /\ EntryFollowsCall(c)'
  <2> USE <1>0, PostedFields
      DEF WaitsForItsStep, EntryFollowsCall, Exchanging, Unsent, Establishing,
          Goes, Posted, Shared, Locals
  <2>1. CASE AtDiscover(c)
      BY <2>1 DEF AtDiscover
  <2>2. CASE AtLookup(c)
      BY <2>2 DEF AtLookup
  <2>3. CASE AtHandshake(c)
      BY <2>3 DEF AtHandshake
  <2>4. CASE AtPin(c)
      BY <2>4 DEF AtPin
  <2>5. CASE AtTrust(c)
      BY <2>5 DEF AtTrust
  <2>6. CASE AtSession(c)
      BY <2>6 DEF AtSession
  <2>7. CASE AtExecute(c)
      BY <2>7 DEF AtExecute
  <2>8. CASE AtFailure(c)
      BY <2>8 DEF AtFailure
  <2>9. CASE AtCleanup(c)
      BY <2>9 DEF AtCleanup
  <2>10. CASE AtTeardown(c)
      BY <2>10 DEF AtTeardown
  <2>11. CASE AtRetry(c)
      BY <2>11 DEF AtRetry
  <2> QED
      BY <2>1, <2>2, <2>3, <2>4, <2>5, <2>6, <2>7, <2>8, <2>9, <2>10, <2>11 DEF Row
<1> QED
    BY <1>1, <1>2, <1>3, <1>4, <1>5

\* A call starts only when no other is being served.
LEMMA StartsAlone ==
    ASSUME MaxActive = 1, DelegationInv, OneAtATime, NEW c \in Calls, Start(c)
    PROVE  Active = {}
<1>1. Cardinality(Active) < 1
    BY DEF Start, RefuseUnauthenticated, RefuseReplayed, Admit, MayStart
<1>2. ASSUME NEW d \in Active PROVE FALSE
  <2>1. Active = {d}
      BY DEF OneAtATime
  <2>2. Cardinality({d}) = 1
      BY FS_Singleton, Zenon
  <2>3. ~(1 < 1)
      OBVIOUS
  <2> QED
      BY <1>1, <2>1, <2>2, <2>3, Zenon
<1> QED
    BY <1>2


\* Who is being served, and for what it waits, after a step of anyone else.
LEMMA OutsideEntry ==
    ASSUME MaxActive = 1, DelegationInv, OneAtATime,
           \A d \in Calls : WaitsForItsStep(d) /\ EntryFollowsCall(d),
           \/ \E c \in Calls : Start(c)
           \/ \E m \in sent : Serve(m) \/ ServeCopy(m) \/ Store(m)
           \/ RestartWorker \/ RestartOrchestrator
    PROVE  OneAtATime' /\ \A d \in Calls : WaitsForItsStep(d)' /\ EntryFollowsCall(d)'
<1> USE DEF OneAtATime, Active, WaitsForItsStep, EntryFollowsCall, Exchanging, Unsent,
            Establishing
<1>1. ASSUME NEW c \in Calls, Start(c)
      PROVE  OneAtATime' /\ \A d \in Calls : WaitsForItsStep(d)' /\ EntryFollowsCall(d)'
  <2>1. /\ pc[c] = "new" /\ pc' = [pc EXCEPT ![c] = pc'[c]] /\ pc'[c] \in {"discover", "done"}
        /\ UNCHANGED <<osession, sess, got, sent, waiting>>
      BY <1>1, StartIsStep, Serving DEF Begins, CallTypeOK
  <2>2. \A d \in Calls : pc[d] \in {"new", "done"}
      BY <1>1, StartsAlone
  <2>3. \A d \in Calls \ {c} : pc'[d] = pc[d]
      BY <2>1, Serving DEF CallTypeOK
  <2> QED
      BY <2>1, <2>2, <2>3
<1>2. CASE UNCHANGED <<pc, osession, sess, got, sent, waiting>>
    BY <1>2
<1>3. CASE RestartOrchestrator
  <2>1. /\ \A d \in Calls : pc'[d] \in {"new", "done"} /\ (pc'[d] = "new" => pc[d] = "new")
                            /\ (pc[d] # "new" => pc'[d] = "done")
        /\ UNCHANGED <<sess, got>>
      BY <1>3 DEF RestartOrchestrator
  <2> QED
      BY <2>1
<1> QED
    BY <1>1, <1>2, <1>3 DEF Serve, ServeCopy, Store, RestartWorker, orchVars, netVars

\* What serving a request, late or repeated as it may be, cannot do.
LEMMA HandleSerial ==
    ASSUME DelegationInv, NEW m \in sent, NEW reply, Handle(m, reply) \/ StorePin(m, reply)
    PROVE  /\ inc' = inc /\ acceptedIds \subseteq acceptedIds'
           /\ \A s \in Calls : s \in acceptedIds /\ sessions[s] = NONE => sessions'[s] = NONE
           /\ \A s \in Calls : sessions[s] = NONE /\ sessions'[s] # NONE
                 => m.kind = "session" /\ m.sid = s
           /\ m.kind = "session" /\ reply = "200" => m.sid \in acceptedIds'
           /\ m.kind = "session" => \/ m.sid \in acceptedIds'
                                    \/ UNCHANGED <<sessions, acceptedIds>>
           /\ m.kind = "teardown" /\ reply = "200" => sessions'[m.sid] = NONE
<1>1. WorkerTypeOK /\ WellFormed(m) /\ SessionIds = Calls /\ NONE \notin Record
    BY IdentifiersAssumption, AbsenceAssumption
       DEF DelegationInv, TypeOK, RequestsWellFormed
<1>2. CASE m.kind = "trust" /\ Trust(m, reply)
    BY <1>2 DEF Trust, workerVars, volatile
<1>3. CASE m.kind = "session" /\ AcceptSession(m, reply)
    BY <1>1, <1>3, RequestFields DEF AcceptSession, workerVars, volatile, Accepts, WorkerTypeOK
<1>4. CASE m.kind = "execute" /\ Execute(m, reply)
    BY <1>1, <1>4, RequestFields DEF Execute, workerVars, volatile, WorkerTypeOK
<1>5. CASE m.kind = "teardown" /\ Teardown(m, reply)
    BY <1>1, <1>5, RequestFields DEF Teardown, workerVars, volatile, WorkerTypeOK
<1>6. CASE StorePin(m, reply)
  <2>1. m.kind = "trust"
      BY <1>6 DEF DelegationInv, StoringWereAsked, StorePin
  <2> QED
      BY <1>6, <2>1 DEF StorePin
<1> QED
    BY <1>2, <1>3, <1>4, <1>5, <1>6 DEF Handle

\* What the invariants of the acknowledgements take from the rest.
Entries == /\ DelegationInv /\ OneAtATime
           /\ \A d \in Calls : WaitsForItsStep(d) /\ EntryFollowsCall(d)

LEMMA RowAcknowledged ==
    ASSUME Entries, AcknowledgedStays, NEW c \in Calls, Keeps(c), Row(c), UNCHANGED workerVars
    PROVE  AcknowledgedStays'
<1>1. /\ CallTypeOK /\ NetTypeOK /\ OrchTypeOK /\ EntryFollowsCall(c) /\ NONE \notin Calls
      /\ pc[c] # "done" => status[c] = "none"
    BY Serving, IdentifiersAssumption DEF Entries
<1>2. \A d \in Calls \ {c} : pc[d] \in {"new", "done"} /\ pc'[d] = pc[d]
    BY RowEntry DEF Entries, Keeps
<1>3. UNCHANGED <<acceptedIds, sessions>>
    BY DEF workerVars, volatile
<1>4. ASSUME NEW d \in Calls \ {c}, status'[d] = "ok"
      PROVE  sess'[d] \in acceptedIds /\ sessions[sess'[d]] = NONE
    BY <1>4 DEF Keeps, AcknowledgedStays
<1>5. /\ osession' # NONE => osession' \in acceptedIds
      /\ pc'[c] = "session" /\ rsp'[c] = "200" => c \in acceptedIds
      /\ pc'[c] = "teardown" /\ rsp'[c] = "200" => sessions[osession'] = NONE
      /\ status'[c] = "ok" => sess'[c] \in acceptedIds /\ sessions[sess'[c]] = NONE
  <2> USE <1>1, NoAnswer
      DEF AcknowledgedStays, EntryFollowsCall, Unsent, Establishing, Goes, Posted, Shared,
          Locals, Outcome
  <2>1. CASE AtDiscover(c)
      BY <2>1 DEF AtDiscover
  <2>2. CASE AtLookup(c)
      BY <2>2 DEF AtLookup
  <2>3. CASE AtHandshake(c)
      BY <2>3 DEF AtHandshake
  <2>4. CASE AtPin(c)
      BY <2>4 DEF AtPin
  <2>5. CASE AtTrust(c)
      BY <2>5 DEF AtTrust
  <2>6. CASE AtSession(c)
      BY <2>6 DEF AtSession
  <2>7. CASE AtExecute(c)
      BY <2>7 DEF AtExecute
  <2>8. CASE AtFailure(c)
      BY <2>8 DEF AtFailure
  <2>9. CASE AtCleanup(c)
      BY <2>9 DEF AtCleanup
  <2>10. CASE AtTeardown(c)
      BY <2>10 DEF AtTeardown
  <2>11. CASE AtRetry(c)
      BY <2>11 DEF AtRetry
  <2> QED
      BY <2>1, <2>2, <2>3, <2>4, <2>5, <2>6, <2>7, <2>8, <2>9, <2>10, <2>11 DEF Row
<1> QED
    BY <1>2, <1>3, <1>4, <1>5 DEF AcknowledgedStays

LEMMA ServeAcknowledged ==
    ASSUME Entries, AcknowledgedStays, NEW m \in sent, Serve(m) \/ ServeCopy(m) \/ Store(m)
    PROVE  AcknowledgedStays'
<1>1. /\ CallTypeOK /\ NetTypeOK /\ OrchTypeOK /\ NONE \notin Calls /\ WellFormed(m)
      /\ \A d \in Calls : EntryFollowsCall(d) /\ WaitsForItsStep(d)
    BY Serving, IdentifiersAssumption DEF Entries, DelegationInv, TypeOK, RequestsWellFormed
<1>2. PICK reply \in Replies \cup {NONE} :
         /\ Handle(m, reply) \/ StorePin(m, reply)
         /\ \/ rsp' = rsp
            \/ waiting[m.call] = m /\ rsp' = [rsp EXCEPT ![m.call] = reply]
    BY DEF Serve, ServeCopy, Store, netVars
<1>3. UNCHANGED <<osession, pc, status, sess>>
    BY DEF Serve, ServeCopy, Store, orchVars
<1>4. /\ acceptedIds \subseteq acceptedIds'
      /\ \A s \in Calls : s \in acceptedIds /\ sessions[s] = NONE => sessions'[s] = NONE
      /\ m.kind = "session" /\ reply = "200" => m.sid \in acceptedIds'
      /\ m.kind = "teardown" /\ reply = "200" => sessions'[m.sid] = NONE
    BY <1>2, HandleSerial DEF Entries
<1>5. \A d \in Calls : rsp'[d] = "200" => \/ rsp[d] = "200"
                                          \/ waiting[d] = m /\ reply = "200"
    BY <1>1, <1>2 DEF NetTypeOK
<1>6. osession # NONE => osession \in acceptedIds'
    BY <1>4 DEF AcknowledgedStays
<1>7. ASSUME NEW d \in Calls, pc[d] = "session", rsp'[d] = "200" PROVE d \in acceptedIds'
  <2>1. CASE rsp[d] = "200"
      BY <1>4, <1>7, <2>1 DEF AcknowledgedStays
  <2>2. CASE waiting[d] = m /\ reply = "200"
      BY <1>1, <1>4, <1>7, <2>2, RequestFields DEF WaitsForItsStep, Exchanging
  <2> QED
      BY <1>5, <1>7, <2>1, <2>2
<1>8. ASSUME NEW d \in Calls, pc[d] = "teardown", rsp'[d] = "200"
      PROVE  sessions'[osession] = NONE
  <2>1. osession \in Calls /\ osession # NONE
      BY <1>1, <1>8 DEF EntryFollowsCall, OrchTypeOK
  <2>2. CASE rsp[d] = "200"
      BY <1>4, <1>8, <2>1, <2>2 DEF AcknowledgedStays
  <2>3. CASE waiting[d] = m /\ reply = "200"
      BY <1>1, <1>4, <1>8, <2>3 DEF WaitsForItsStep, EntryFollowsCall, Exchanging
  <2> QED
      BY <1>5, <1>8, <2>2, <2>3
<1>9. ASSUME NEW d \in Calls, status[d] = "ok"
      PROVE  sess[d] \in acceptedIds' /\ sessions'[sess[d]] = NONE
  <2>1. sess[d] \in acceptedIds /\ sessions[sess[d]] = NONE /\ acceptedIds \subseteq Calls
      BY <1>9, IdentifiersAssumption
         DEF AcknowledgedStays, Entries, DelegationInv, TypeOK, WorkerTypeOK
  <2> QED
      BY <1>4, <2>1
<1> QED
    BY <1>3, <1>6, <1>7, <1>8, <1>9 DEF AcknowledgedStays

LEMMA OutsideAcknowledged ==
    ASSUME Entries, AcknowledgedStays,
           (\E c \in Calls : Start(c)) \/ RestartOrchestrator
    PROVE  AcknowledgedStays'
<1>0. CallTypeOK /\ NetTypeOK /\ UNCHANGED <<acceptedIds, sessions, sess>>
    BY Serving, StartIsStep
       DEF Entries, RestartOrchestrator, workerVars, volatile, DelegationInv, TypeOK
<1>1. ASSUME NEW c \in Calls, Start(c) PROVE AcknowledgedStays'
  <2>1. /\ \A d \in Calls : pc'[d] = pc[d] \/ pc'[d] \in {"discover", "done"}
        /\ \A d \in Calls : status'[d] = status[d] \/ status'[d] \in {"none", "400", "401"}
        /\ \A d \in Calls : rsp'[d] = rsp[d] \/ rsp'[d] = NONE
        /\ osession' = osession /\ NONE # "200"
      BY <1>0, <1>1, StartIsStep, IdentifiersAssumption
         DEF Entries, Begins, CallTypeOK, NetTypeOK, Replies
  <2> QED
      BY <1>0, <2>1 DEF AcknowledgedStays
<1>2. CASE RestartOrchestrator
  <2>1. /\ \A d \in Calls : pc'[d] \in {"new", "done"}
        /\ \A d \in Calls : status'[d] = "ok" => status[d] = "ok"
        /\ osession' = NONE
      BY <1>0, <1>2 DEF RestartOrchestrator, Active, CallTypeOK
  <2> QED
      BY <1>0, <2>1 DEF AcknowledgedStays
<1> QED
    BY <1>1, <1>2


\* The sessions the worker may still hold, or be asked for.
LEMMA RowAccounted ==
    ASSUME Entries, AcknowledgedStays, SessionsAccounted, NEW c \in Calls, Keeps(c), Row(c),
           UNCHANGED workerVars
    PROVE  SessionsAccounted'
<1>1. /\ CallTypeOK /\ NetTypeOK /\ OrchTypeOK /\ EntryFollowsCall(c)
      /\ pc[c] # "done" => status[c] = "none"
      /\ EntryFollowsCall(c)' /\ acceptedIds' = acceptedIds /\ Live' = Live
    BY Serving, RowEntry DEF Entries, workerVars, volatile, Live
<1>2. \A d \in Calls \ {c} : Unconfirmed(d) => Unconfirmed(d)'
    BY DEF Keeps, Unconfirmed
<1>3. Unconfirmed(c) => Unconfirmed(c)' \/ (c \in acceptedIds /\ osession' = c)
  <2> USE <1>1, NoAnswer
      DEF AcknowledgedStays, Unconfirmed, EntryFollowsCall, Unsent, Establishing, Goes,
          Posted, Shared, Locals, Outcome
  <2>1. CASE AtPin(c) \/ AtHandshake(c) \/ AtDiscover(c) \/ AtLookup(c)
      BY <2>1 DEF AtPin, AtHandshake, AtDiscover, AtLookup
  <2>2. CASE AtTrust(c) \/ AtExecute(c) \/ AtTeardown(c) \/ AtRetry(c)
      BY <2>2 DEF AtTrust, AtExecute, AtTeardown, AtRetry
  <2>3. CASE AtSession(c)
      BY <2>3 DEF AtSession
  <2>4. CASE AtFailure(c)
      BY <2>4 DEF AtFailure
  <2>5. CASE AtCleanup(c)
      BY <2>5 DEF AtCleanup
  <2> QED
      BY <2>1, <2>2, <2>3, <2>4, <2>5 DEF Row
<1>4. osession # NONE /\ osession' # osession => sessions[osession] = NONE
    BY <1>1, NoAnswer
       DEF Row, AtDiscover, AtLookup, AtHandshake, AtPin, AtTrust, AtSession, AtExecute,
           AtFailure, AtCleanup, AtTeardown, AtRetry, Shared, AcknowledgedStays,
           EntryFollowsCall, Establishing
<1>5. ASSUME NEW m \in sent' \ sent, m.kind = "session" PROVE m.sid = c /\ Unconfirmed(c)'
  <2>1. AtTrust(c) \/ \A x \in sent' \ sent : x.kind # "session"
    <3> USE PostedFields DEF Goes, Posted
    <3>1. CASE AtDiscover(c) \/ AtLookup(c) \/ AtHandshake(c) \/ AtPin(c) \/ AtTrust(c)
        BY <3>1 DEF AtDiscover, AtLookup, AtHandshake, AtPin
    <3>2. CASE AtSession(c) \/ AtExecute(c) \/ AtFailure(c)
        BY <3>2 DEF AtSession, AtExecute, AtFailure
    <3>3. CASE AtCleanup(c) \/ AtTeardown(c) \/ AtRetry(c)
        BY <3>3 DEF AtCleanup, AtTeardown, AtRetry
    <3> QED
        BY <3>1, <3>2, <3>3 DEF Row
  <2>2. /\ sent' = sent \cup {SessionMsg(c, oinc)} /\ pc'[c] = "session"
        /\ sess'[c] = sess[c] /\ pc[c] = "trust"
      BY <1>5, <2>1 DEF AtTrust, Posted, Locals
  <2> QED
      BY <1>1, <2>2, PostedFields DEF EntryFollowsCall, Establishing, Unconfirmed
<1>6. \A m \in sent : m.kind = "session" => m.sid \in Calls
    BY RequestFields DEF Entries, DelegationInv, RequestsWellFormed
<1>7. ASSUME NEW m \in sent', m.kind = "session"
      PROVE  m.sid \in acceptedIds \/ Unconfirmed(m.sid)'
    BY <1>2, <1>3, <1>5, <1>6, <1>7 DEF SessionsAccounted
<1>8. ASSUME NEW s \in Live PROVE s = osession' \/ Unconfirmed(s)'
  <2>1. s \in Calls /\ sessions[s] # NONE /\ (s = osession \/ Unconfirmed(s))
      BY <1>8, IdentifiersAssumption DEF SessionsAccounted, Live
  <2> QED
      BY <1>2, <1>3, <1>4, <2>1, NoAnswer
<1> QED
    BY <1>1, <1>7, <1>8 DEF SessionsAccounted

LEMMA ServeAccounted ==
    ASSUME Entries, AcknowledgedStays, SessionsAccounted,
           NEW m \in sent, Serve(m) \/ ServeCopy(m) \/ Store(m)
    PROVE  SessionsAccounted'
<1>1. /\ \E reply \in Replies \cup {NONE} : Handle(m, reply) \/ StorePin(m, reply)
      /\ UNCHANGED <<osession, pc, status, sess, sent>> /\ WellFormed(m)
    BY DEF Serve, ServeCopy, Store, orchVars, netVars, Entries, DelegationInv, RequestsWellFormed
<1>2. /\ acceptedIds \subseteq acceptedIds'
      /\ \A s \in Calls : s \in acceptedIds /\ sessions[s] = NONE => sessions'[s] = NONE
      /\ \A s \in Calls : sessions[s] = NONE /\ sessions'[s] # NONE
            => m.kind = "session" /\ m.sid = s
    BY <1>1, HandleSerial DEF Entries
<1>3. ASSUME NEW x \in sent, x.kind = "session" PROVE x.sid \in acceptedIds' \/ Unconfirmed(x.sid)
    BY <1>2, <1>3 DEF SessionsAccounted
<1>4. ASSUME NEW s \in Live' PROVE s = osession \/ Unconfirmed(s)
  <2>1. s \in Calls /\ sessions'[s] # NONE
      BY <1>4, IdentifiersAssumption DEF Live
  <2>2. CASE sessions[s] # NONE
      BY <2>1, <2>2, IdentifiersAssumption DEF SessionsAccounted, Live
  <2>3. CASE sessions[s] = NONE
      BY <1>2, <2>1, <2>3 DEF SessionsAccounted
  <2> QED
      BY <2>2, <2>3
<1> QED
    BY <1>1, <1>3, <1>4 DEF SessionsAccounted, Unconfirmed

LEMMA StartAccounted ==
    ASSUME Entries, SessionsAccounted, NEW c \in Calls, Start(c)
    PROVE  SessionsAccounted'
<1>1. /\ pc[c] = "new" /\ status[c] = "none" /\ CallTypeOK
      /\ \A d \in Calls \ {c} : pc'[d] = pc[d] /\ status'[d] = status[d]
      /\ UNCHANGED <<workerVars, osession, sess, sent>>
    BY StartIsStep, Serving DEF Entries, Begins, CallTypeOK
<1>2. \A s \in Calls : Unconfirmed(s) => Unconfirmed(s)'
    BY <1>1 DEF Unconfirmed
<1>3. \A m \in sent : m.kind = "session" => m.sid \in Calls
    BY RequestFields DEF Entries, DelegationInv, RequestsWellFormed
<1>4. acceptedIds' = acceptedIds /\ Live' = Live /\ Live \subseteq Calls
    BY <1>1, IdentifiersAssumption DEF workerVars, volatile, Live
<1> QED
    BY <1>1, <1>2, <1>3, <1>4 DEF SessionsAccounted


LEMMA SerialInvInit == Init => SerialInv
<1> SUFFICES ASSUME Init PROVE SerialInv
    OBVIOUS
<1>1. /\ \A c \in Calls : pc[c] = "new" /\ sess[c] = NONE /\ got[c] = FALSE /\ status[c] = "none"
                          /\ waiting[c] = NONE /\ rsp[c] = NONE
      /\ sent = {} /\ osession = NONE /\ inc = 1
    BY DEF Init, WorkerInit
<1>2. Live = {}
    BY DEF Init, WorkerInit, Live
<1>3. OneAtATime /\ inc # 0
    BY <1>1 DEF OneAtATime, Active
<1>4. \A c \in Calls : WaitsForItsStep(c) /\ EntryFollowsCall(c)
    BY <1>1 DEF WaitsForItsStep, EntryFollowsCall, Exchanging, Unsent, Establishing
<1>5. AcknowledgedStays /\ SessionsAccounted
    BY <1>1, <1>2 DEF AcknowledgedStays, SessionsAccounted
<1> QED
    BY <1>3, <1>4, <1>5 DEF SerialInv

\* Restarts, and which steps are none.
LEMMA Incarnations ==
    ASSUME DelegationInv, inc # 0
    PROVE  /\ RestartWorker => inc' # 1 /\ inc' # 0
           /\ RestartOrchestrator => oinc' # 1 /\ inc' = inc
           /\ \A c \in Calls : Start(c) => inc' = inc /\ oinc' = oinc
           /\ \A m \in sent : Serve(m) \/ ServeCopy(m) \/ Store(m) =>
                  inc' = inc /\ oinc' = oinc
<1>1. inc \in Nat /\ oinc \in 1..(MaxRestarts + 1)
    BY IdentifiersAssumption DEF DelegationInv, TypeOK, WorkerTypeOK, OrchTypeOK
<1>2. RestartWorker => inc' # 1 /\ inc' # 0
    BY <1>1 DEF RestartWorker, WorkerRestart
<1>3. RestartOrchestrator => oinc' # 1 /\ inc' = inc
    BY <1>1, BoundsAssumption DEF RestartOrchestrator, workerVars
<1>4. \A c \in Calls : Start(c) => inc' = inc /\ oinc' = oinc
    BY StartIsStep DEF workerVars
<1>5. \A m \in sent : Serve(m) \/ ServeCopy(m) \/ Store(m) => inc' = inc /\ oinc' = oinc
    BY HandleSerial DEF Serve, ServeCopy, Store, orchVars
<1> QED
    BY <1>2, <1>3, <1>4, <1>5

LEMMA SerialInvStep ==
    ASSUME MaxActive = 1, DelegationInv, SerialInv, [Next]_vars
    PROVE  SerialInv'
<1>1. Entries /\ inc # 0
    BY DEF Entries, SerialInv
<1>2. ASSUME NEW c \in Calls, Thread(c) PROVE SerialInv'
  <2>1. Keeps(c) /\ Row(c) /\ UNCHANGED <<workerVars, oinc, delegated>>
      BY <1>2, ThreadRow
  <2>2. inc' = inc /\ oinc' = oinc
      BY <2>1 DEF workerVars
  <2>3. OneAtATime' /\ \A d \in Calls : WaitsForItsStep(d)' /\ EntryFollowsCall(d)'
      BY <1>1, <2>1, RowEntry DEF Entries
  <2>4. inc = 1 => AcknowledgedStays'
      BY <1>1, <2>1, RowAcknowledged DEF SerialInv
  <2>5. inc = 1 /\ oinc = 1 => SessionsAccounted'
      BY <1>1, <2>1, RowAccounted DEF SerialInv
  <2> QED
      BY <1>1, <2>2, <2>3, <2>4, <2>5 DEF SerialInv
<1>3. ASSUME NEW c \in Calls, Start(c) PROVE SerialInv'
  <2>1. inc' = inc /\ oinc' = oinc
      BY <1>1, <1>3, Incarnations
  <2>2. OneAtATime' /\ \A d \in Calls : WaitsForItsStep(d)' /\ EntryFollowsCall(d)'
      BY <1>1, <1>3, OutsideEntry DEF Entries
  <2>3. inc = 1 => AcknowledgedStays'
      BY <1>1, <1>3, OutsideAcknowledged DEF SerialInv
  <2>4. inc = 1 /\ oinc = 1 => SessionsAccounted'
      BY <1>1, <1>3, StartAccounted DEF SerialInv
  <2> QED
      BY <1>1, <2>1, <2>2, <2>3, <2>4 DEF SerialInv
<1>4. ASSUME NEW m \in sent, Serve(m) \/ ServeCopy(m) \/ Store(m) PROVE SerialInv'
  <2>1. inc' = inc /\ oinc' = oinc
      BY <1>1, <1>4, Incarnations
  <2>2. OneAtATime' /\ \A d \in Calls : WaitsForItsStep(d)' /\ EntryFollowsCall(d)'
      BY <1>1, <1>4, OutsideEntry DEF Entries
  <2>3. inc = 1 => AcknowledgedStays'
      BY <1>1, <1>4, ServeAcknowledged DEF SerialInv
  <2>4. inc = 1 /\ oinc = 1 => SessionsAccounted'
      BY <1>1, <1>4, ServeAccounted DEF SerialInv
  <2> QED
      BY <1>1, <2>1, <2>2, <2>3, <2>4 DEF SerialInv
<1>5. CASE RestartWorker
    BY <1>1, <1>5, Incarnations, OutsideEntry DEF SerialInv, Entries
<1>6. CASE RestartOrchestrator
    BY <1>1, <1>6, Incarnations, OutsideEntry, OutsideAcknowledged DEF SerialInv, Entries
<1>7. CASE UNCHANGED vars
  <2>1. /\ UNCHANGED <<inc, oinc, osession, acceptedIds, sessions, pc, sess, got, status,
                       waiting, rsp, sent>>
        /\ Active' = Active /\ Live' = Live
      BY <1>7 DEF vars, workerVars, volatile, orchVars, netVars, Active, Live
  <2>2. OneAtATime' /\ inc' # 0
      BY <2>1 DEF SerialInv, OneAtATime
  <2>3. \A d \in Calls : WaitsForItsStep(d)' /\ EntryFollowsCall(d)'
      BY <2>1 DEF SerialInv, WaitsForItsStep, EntryFollowsCall
  <2>4. inc' = 1 => AcknowledgedStays'
      BY <2>1 DEF SerialInv, AcknowledgedStays
  <2>5. inc' = 1 /\ oinc' = 1 => SessionsAccounted'
      BY <2>1 DEF SerialInv, SessionsAccounted, Unconfirmed
  <2> QED
      BY <2>2, <2>3, <2>4, <2>5 DEF SerialInv
<1> QED
    BY <1>2, <1>3, <1>4, <1>5, <1>6, <1>7 DEF Next

\* The inductive invariant of calls that are served one at a time, whatever is
\* lost, late or repeated and whichever process restarts.
THEOREM SerialInvHolds == ASSUME MaxActive = 1 PROVE Spec => []SerialInv
<1>1. DelegationInv /\ SerialInv /\ [Next]_vars => SerialInv'
    BY SerialInvStep
<1> QED
    BY <1>1, SerialInvInit, DelegationInvHolds, PTL DEF Spec

\* Between the worker's restarts a call that answered with a result has left no
\* session behind.
THEOREM OkMeansGoneHolds == ASSUME MaxActive = 1 PROVE Spec => [](inc = 1 => OkMeansGone)
<1>1. SerialInv => (inc = 1 => OkMeansGone)
    BY DEF SerialInv, AcknowledgedStays, OkMeansGone
<1> QED
    BY <1>1, SerialInvHolds, PTL

\* Until a restart, the sessions that calls leave behind at the worker are those
\* of establishments that were never confirmed.
THEOREM OnlyUnconfirmedLeakHolds ==
    ASSUME MaxActive = 1 PROVE Spec => [](inc = 1 /\ oinc = 1 => OnlyUnconfirmedLeak)
<1>1. DelegationInv /\ SerialInv => (inc = 1 /\ oinc = 1 => OnlyUnconfirmedLeak)
  <2> SUFFICES ASSUME DelegationInv, SerialInv, inc = 1, oinc = 1, Active = {},
                      NEW s \in Live, s # osession
               PROVE  status[s] = "failed" /\ sess[s] = NONE
      BY DEF OnlyUnconfirmedLeak
  <2>1. Unconfirmed(s) /\ s \in Calls
      BY IdentifiersAssumption DEF SerialInv, SessionsAccounted, Live
  <2>2. pc[s] \in {"new", "done"}
      BY <2>1 DEF Active
  <2> QED
      BY <2>1, <2>2 DEF Unconfirmed
<1> QED
    BY <1>1, SerialInvHolds, DelegationInvHolds, PTL

\* A result is thrown away only with its session kept for another attempt, or when
\* the audit log is full and the session is gone at the worker too.
LEMMA DiscardStep ==
    ASSUME DelegationInv, SerialInv, [Next]_vars,
           NEW c \in Calls, status'[c] = "discarded", status[c] # "discarded"
    PROVE  \/ osession' # NONE
           \/ /\ audit = AuditRoom
              /\ inc = 1 => osession # NONE /\ sessions[osession] = NONE
<1>1. Entries /\ CallTypeOK /\ audit \in 0..AuditRoom /\ AuditRoom \in Nat
    BY Serving, BoundsAssumption DEF Entries, SerialInv, OrchTypeOK
<1>2. \A d \in Calls : Start(d) => status'[c] # "discarded"
    BY <1>1, StartIsStep DEF Begins, CallTypeOK
<1>3. ASSUME NEW d \in Calls, Thread(d)
      PROVE  \/ osession' # NONE
             \/ /\ audit = AuditRoom
                /\ inc = 1 => osession # NONE /\ sessions[osession] = NONE
  <2>1. Keeps(d) /\ Row(d) /\ EntryFollowsCall(d)
      BY <1>3, ThreadRow DEF SerialInv
  <2>2. c = d
      BY <2>1 DEF Keeps
  <2>3. AtTeardown(c) \/ AtRetry(c)
      BY <2>1, <2>2
         DEF Row, AtDiscover, AtLookup, AtHandshake, AtPin, AtTrust, AtSession, AtExecute,
             AtFailure, AtCleanup, Goes, Posted, Outcome
  <2>4. CASE AtTeardown(c)
    <3>1. AuditRoom <= audit
        BY <1>1, <2>4 DEF AtTeardown, Goes, Outcome
    <3>2. osession # NONE /\ (inc = 1 => sessions[osession] = NONE)
        BY <2>1, <2>2, <2>4 DEF AtTeardown, EntryFollowsCall, SerialInv, AcknowledgedStays
    <3> QED
        BY <1>1, <3>1, <3>2
  <2>5. CASE AtRetry(c)
      BY <2>1, <2>2, <2>5 DEF AtRetry, Shared, EntryFollowsCall
  <2> QED
      BY <2>3, <2>4, <2>5
<1>4. \A m \in sent : Serve(m) \/ ServeCopy(m) \/ Store(m) => status' = status
    BY DEF Serve, ServeCopy, Store
<1>5. ~RestartWorker /\ ~UNCHANGED vars
    BY DEF RestartWorker, vars
<1>6. ~RestartOrchestrator
    BY DEF RestartOrchestrator
<1> QED
    BY <1>2, <1>3, <1>4, <1>5, <1>6 DEF Next

\* A call answers "discarded" only with the session kept for another attempt, or for
\* want of room in the audit log, and then the worker does not hold the session
\* either (orchestrator_server.py 203-216 and 346-350).
THEOREM DiscardKeepsSessionHolds == ASSUME MaxActive = 1 PROVE Spec => DiscardKeepsSession
<1>1. DelegationInv /\ SerialInv /\ [Next]_vars
        => [\A c \in Calls : status'[c] = "discarded" /\ status[c] # "discarded" =>
              \/ osession' # NONE
              \/ /\ audit = AuditRoom
                 /\ inc = 1 => osession # NONE /\ sessions[osession] = NONE]_vars
    BY DiscardStep
<1> QED
    BY <1>1, SerialInvHolds, DelegationInvHolds, PTL DEF Spec, DiscardKeepsSession


-----------------------------------------------------------------------------
\* Calls without network trouble, while neither process restarts.

\* A cache that is sized for all the values there are never refuses a new one.
RoomForAll ==
    /\ IsFiniteSet(Nonces) /\ Cardinality(Nonces) <= MaxNonces
    /\ IsFiniteSet(Calls) /\ Cardinality(Calls) <= MaxSessions

LEMMA RoomForNew ==
    ASSUME NEW V, IsFiniteSet(V), NEW N \in Nat, Cardinality(V) <= N,
           NEW S \in SUBSET V, NEW v \in V, v \notin S
    PROVE  Accepts(S, N, v)
<1>1. Cardinality(S) \in Nat /\ Cardinality(V) \in Nat /\ Cardinality(S) <= Cardinality(V)
    BY FS_Subset, FS_CardinalityType
<1>2. Cardinality(S) # Cardinality(V)
    BY FS_Subset
<1>3. Cardinality(S) < N
    BY <1>1, <1>2
<1> QED
    BY <1>3 DEF Accepts, HasRoom

\* What the worker is shown of a request besides the fields of RequestFields.
LEMMA RequestProofs ==
    ASSUME NEW m, WellFormed(m)
    PROVE  /\ m.kind \in {"trust", "session", "teardown"} => m.sender = Orchestrator
           /\ m.kind \in {"trust", "teardown"} => m.proof
           /\ m.kind = "trust" => m.nonce = <<m.call, 0>>
           /\ m.kind = "execute" => m.sealed
           /\ m.kind = "teardown" => \E k \in 1..Attempts : m.nonce = <<m.call, k>>
<1>1. PICK c \in Calls, s \in Calls :
        \/ \E k \in Keys : m = TrustMsg(c, k) \/ m = SessionMsg(c, k)
        \/ m = ExecuteMsg(c, s)
        \/ \E k \in 1..Attempts : m = TeardownMsg(c, s, k)
    BY DEF WellFormed
<1>2. ASSUME NEW k \in Keys, m = TrustMsg(c, k)
      PROVE  /\ m.kind = "trust" /\ m.sender = Orchestrator /\ m.proof
             /\ m.nonce = <<m.call, 0>>
    BY <1>2 DEF TrustMsg
<1>3. ASSUME NEW k \in Keys, m = SessionMsg(c, k)
      PROVE  m.kind = "session" /\ m.sender = Orchestrator
    BY <1>3 DEF SessionMsg
<1>4. ASSUME m = ExecuteMsg(c, s) PROVE m.kind = "execute" /\ m.sealed
    BY <1>4 DEF ExecuteMsg
<1>5. ASSUME NEW k \in 1..Attempts, m = TeardownMsg(c, s, k)
      PROVE  /\ m.kind = "teardown" /\ m.sender = Orchestrator /\ m.proof
             /\ m.nonce = <<m.call, k>>
    BY <1>5 DEF TeardownMsg
<1> QED
    BY <1>1, <1>2, <1>3, <1>4, <1>5

\* The values that a live record has retained.
Retained(s) == sessions[s].nonces \cup sessions[s].queries

\* What serving a request, or storing the key of one, leaves at the worker.
LEMMA HandleLeaves ==
    ASSUME DelegationInv, NEW m \in sent, NEW reply, Handle(m, reply) \/ StorePin(m, reply)
    PROVE  /\ \A n \in bootNonces' : n \in bootNonces
                 \/ (m.kind \in {"trust", "teardown"} /\ n = m.nonce)
           /\ \A s \in acceptedIds' : s \in acceptedIds \/ (m.kind = "session" /\ s = m.sid)
           /\ \/ trusted'[Orchestrator] = trusted[Orchestrator]
              \/ m.kind = "trust" /\ trusted'[Orchestrator] = m.key
           /\ m.kind = "trust" /\ reply = "200" => trusted'[Orchestrator] = m.key
           /\ \A x \in storing' : x \in storing \/ (m.kind = "trust" /\ x = m)
           /\ \A x \in storing : x \in storing' \/ (m.kind = "trust" /\ x = m)
           /\ \A s \in Calls : sessions'[s] # NONE =>
                 \A x \in Retained(s)' : \/ sessions[s] # NONE /\ x \in Retained(s)
                                         \/ m.kind = "execute" /\ x = m.call
           /\ \A s \in Calls : sessions[s] # NONE /\ ~(m.kind = "teardown" /\ m.sid = s) =>
                 sessions'[s] # NONE /\ sessions'[s].keyed = sessions[s].keyed
           /\ m.kind = "session" /\ reply = "200" =>
                 sessions'[m.sid] # NONE /\ sessions'[m.sid].keyed = (m.kem = inc)
<1>1. /\ WorkerTypeOK /\ WellFormed(m) /\ SessionIds = Calls /\ NONE \notin Record
      /\ Orchestrator \in Senders
      /\ \A s \in Calls : sessions[s] # NONE => s \in acceptedIds /\ sessions[s] \in Record
    BY IdentifiersAssumption, AbsenceAssumption
       DEF DelegationInv, TypeOK, RequestsWellFormed, MemoryInv, LiveAccepted, Live,
           WorkerTypeOK
<1>2. CASE m.kind = "trust" /\ Trust(m, reply)
  <2>1. trusted' = trusted /\ sessions' = sessions /\ acceptedIds' = acceptedIds
      BY <1>2 DEF Trust, workerVars, volatile
  <2>2. reply # "200"
      BY <1>2, NoAnswer DEF Trust
  <2>3. /\ bootNonces' \subseteq bootNonces \cup {m.nonce}
        /\ storing' = storing \/ storing' = storing \cup {m}
      BY <1>2 DEF Trust, workerVars, volatile
  <2> QED
      BY <1>2, <2>1, <2>2, <2>3 DEF Retained
<1>6. CASE StorePin(m, reply)
  <2>1. m.kind = "trust" /\ m.sender = Orchestrator
      BY <1>1, <1>6, RequestProofs DEF DelegationInv, StoringWereAsked, StorePin
  <2>2. trusted' = [trusted EXCEPT ![Orchestrator] = m.key]
      BY <1>6, <2>1 DEF StorePin, Pin
  <2>3. trusted'[Orchestrator] = m.key
      BY <1>1, <2>2 DEF WorkerTypeOK
  <2> QED
      BY <1>6, <2>1, <2>3 DEF StorePin, Retained
<1>3. CASE m.kind = "session" /\ AcceptSession(m, reply)
  <2>1. m.sid \in Calls /\ m.sender \in Senders /\ m.signer \in Keys
      BY <1>1, <1>3, RequestFields
  <2>2. CASE UNCHANGED workerVars /\ reply = "400"
      BY <1>1, <1>3, <2>2 DEF workerVars, volatile, Retained
  <2>3. CASE reply = "200" /\ m.sid \notin acceptedIds
             /\ acceptedIds' = acceptedIds \cup {m.sid}
             /\ sessions' = [sessions EXCEPT ![m.sid] = NewRecord(m)]
             /\ UNCHANGED <<inc, trusted, bootNonces, storing, executions, closed>>
    <3>1. DEFINE r == NewRecord(m)
    <3>2. /\ r \in Record /\ r.keyed = (m.kem = inc) /\ r.nonces = {} /\ r.queries = {}
          /\ r # NONE
      <4>1. (m.kem = inc) \in BOOLEAN
          OBVIOUS
      <4>2. r \in Record
          BY <2>1, <4>1, Zenon DEF NewRecord, Record
      <4>3. r.keyed = (m.kem = inc) /\ r.nonces = {} /\ r.queries = {}
          BY Zenon DEF NewRecord
      <4> QED
          BY <1>1, <4>2, <4>3, Zenon
    <3>3. sessions' = [sessions EXCEPT ![m.sid] = r]
        BY <2>3
    <3> HIDE DEF r
    <3>4. \A s \in Calls : IF s = m.sid THEN sessions'[s] = r ELSE sessions'[s] = sessions[s]
        BY <1>1, <3>3 DEF WorkerTypeOK
    <3> QED
        BY <1>1, <1>3, <2>1, <2>3, <3>2, <3>4 DEF Retained
  <2> QED
      BY <1>3, <2>2, <2>3 DEF AcceptSession, Accepts
<1>4. CASE m.kind = "execute" /\ Execute(m, reply)
  <2>1. m.sid \in Calls /\ m.call \in Calls /\ m.query = m.call /\ m.nonce = m.call
      BY <1>1, <1>4, RequestFields
  <2>2. CASE UNCHANGED workerVars
      BY <1>1, <1>4, <2>2 DEF workerVars, volatile, Retained
  <2>3. CASE /\ sessions[m.sid] # NONE
             /\ \/ sessions' = [sessions EXCEPT ![m.sid].nonces = @ \cup {m.nonce}]
                \/ sessions' = [sessions EXCEPT ![m.sid].nonces = @ \cup {m.nonce},
                                                ![m.sid].queries = @ \cup {m.query}]
             /\ UNCHANGED <<inc, trusted, acceptedIds, bootNonces, storing, closed>>
    <3>1. sessions[m.sid] \in Record
        BY <1>1, <2>1, <2>3
    <3>2. /\ sessions'[m.sid] \in Record /\ sessions'[m.sid].keyed = sessions[m.sid].keyed
          /\ sessions'[m.sid].nonces = sessions[m.sid].nonces \cup {m.call}
          /\ sessions'[m.sid].queries \subseteq sessions[m.sid].queries \cup {m.call}
        BY <1>1, <2>1, <2>3, <3>1, IdentifiersAssumption DEF WorkerTypeOK, Record
    <3>3. \A s \in Calls \ {m.sid} : sessions'[s] = sessions[s]
        BY <1>1, <2>1, <2>3 DEF WorkerTypeOK
    <3> QED
        BY <1>1, <1>4, <2>1, <2>3, <3>2, <3>3 DEF Retained
  <2> QED
      BY <1>4, <2>2, <2>3 DEF Execute
<1>5. CASE m.kind = "teardown" /\ Teardown(m, reply)
    BY <1>1, <1>5, RequestFields DEF Teardown, workerVars, volatile, WorkerTypeOK, Retained
<1> QED
    BY <1>2, <1>3, <1>4, <1>5, <1>6 DEF Handle

\* Only a registration is not answered by the step that serves it.
LEMMA HandleReplies ==
    ASSUME NEW m, NEW reply, Handle(m, reply), m.kind # "trust"
    PROVE  reply # NONE
<1>1. \A s \in Replies : s # NONE
    BY IdentifiersAssumption
<1>2. reply \in Replies
    BY DEF Handle, AcceptSession, Execute, Teardown, Replies
<1> QED
    BY <1>1, <1>2

\* When a request of a call that nothing disturbs is served, it succeeds.
LEMMA HandleWorks ==
    ASSUME DelegationInv, RoomForAll, NEW m \in sent, NEW reply, Handle(m, reply),
           trusted[Orchestrator] \in {NONE, 1}
    PROVE  /\ m.kind = "trust" /\ m.key = 1 /\ m.nonce \notin bootNonces
              => reply = NONE /\ m \in storing'
           /\ /\ m.kind = "session" /\ m.signer = 1 /\ trusted[Orchestrator] # NONE
              /\ m.sid \notin acceptedIds
              => reply = "200"
           /\ m.kind = "teardown" /\ trusted[Orchestrator] # NONE /\ m.nonce \notin bootNonces
              => reply = "200"
           /\ /\ m.kind = "execute" /\ sessions[m.sid] # NONE /\ sessions[m.sid].keyed
              /\ m.call \notin Retained(m.sid)
              => reply = "results"
<1>1. /\ WorkerTypeOK /\ WellFormed(m) /\ MaxNonces \in Nat /\ MaxSessions \in Nat
      /\ acceptedIds \subseteq Calls /\ bootNonces \subseteq Nonces
    BY IdentifiersAssumption, SizesAssumption
       DEF DelegationInv, TypeOK, RequestsWellFormed, WorkerTypeOK
<1>2. ASSUME m.kind = "trust", m.key = 1, m.nonce \notin bootNonces
      PROVE  reply = NONE /\ m \in storing'
  <2>1. m.sender = Orchestrator /\ m.proof /\ m.nonce \in Nonces
      BY <1>1, <1>2, RequestFields, RequestProofs
  <2>2. Accepts(bootNonces, MaxNonces, m.nonce)
      BY <1>1, <1>2, <2>1, RoomForNew DEF RoomForAll
  <2>3. Trust(m, reply) /\ ~Refuses(m.sender, m.key)
      BY <1>2, <2>1 DEF Handle, Refuses
  <2> QED
      BY <2>1, <2>2, <2>3 DEF Trust
<1>3. ASSUME m.kind = "session", m.signer = 1, trusted[Orchestrator] # NONE,
             m.sid \notin acceptedIds
      PROVE  reply = "200"
  <2>1. m.sender = Orchestrator /\ m.sid \in Calls
      BY <1>1, <1>3, RequestFields, RequestProofs
  <2>2. Accepts(acceptedIds, MaxSessions, m.sid)
      BY <1>1, <1>3, <2>1, RoomForNew DEF RoomForAll
  <2>3. AcceptSession(m, reply) /\ SignedByTrusted(m)
      BY <1>3, <2>1 DEF Handle, SignedByTrusted
  <2> QED
      BY <2>2, <2>3 DEF AcceptSession
<1>4. ASSUME m.kind = "teardown", trusted[Orchestrator] # NONE, m.nonce \notin bootNonces
      PROVE  reply = "200"
  <2>1. /\ m.sender = Orchestrator /\ m.proof /\ m.nonce \in Nonces
        /\ m.sid \in SessionIds
      BY <1>1, <1>4, RequestFields, RequestProofs, IdentifiersAssumption
  <2>2. Accepts(bootNonces, MaxNonces, m.nonce)
      BY <1>1, <1>4, <2>1, RoomForNew DEF RoomForAll
  <2>3. sessions[m.sid] # NONE => sessions[m.sid].sender = Orchestrator
      BY <1>1, <2>1, RecordFields, IdentifiersAssumption
  <2>4. Teardown(m, reply) /\ MayTearDown(m)
      BY <1>4, <2>1, <2>2, <2>3 DEF Handle, MayTearDown
  <2> QED
      BY <2>4 DEF Teardown
<1>5. ASSUME m.kind = "execute", sessions[m.sid] # NONE, sessions[m.sid].keyed,
             m.call \notin Retained(m.sid)
      PROVE  reply = "results"
  <2>1. m.query = m.call /\ m.nonce = m.call /\ m.sealed
      BY <1>1, <1>5, RequestFields, RequestProofs
  <2>2. Execute(m, reply) /\ Opens(m) /\ m.query \notin sessions[m.sid].queries
      BY <1>5, <2>1 DEF Handle, Opens, Retained
  <2> QED
      BY <1>5, <2>2 DEF Execute
<1> QED
    BY <1>2, <1>3, <1>4, <1>5

\* What a thread posts, and about which session.
Posting(c, m) ==
    /\ m.call = c /\ pc'[c] = m.kind
    /\ \/ m.kind = "trust" /\ m.key = oinc /\ pc[c] = "pin"
       \/ m.kind = "session" /\ m.signer = oinc /\ m.sid = c /\ pc[c] = "trust" /\ rsp[c] = "200"
       \/ m.kind = "execute" /\ m.sid = osession /\ pc[c] \in {"lookup", "fetch"}
       \/ m.kind = "teardown" /\ m.sid = osession /\ pc[c] \in {"cleanup", "teardown"}
    /\ m.kind \in {"execute", "teardown"} => osession # NONE

LEMMA RowPosts ==
    ASSUME NEW c \in Calls, EntryFollowsCall(c), Row(c)
    PROVE  \/ sent' = sent /\ pending' = pending /\ pc'[c] \notin Exchanging
           \/ \E m : /\ Posting(c, m)
                     /\ sent' = sent \cup {m} /\ pending' = pending \cup {m}
                     /\ waiting'[c] = m /\ rsp'[c] = NONE
<1>0. /\ TrustMsg(c, oinc).key = oinc /\ SessionMsg(c, oinc).signer = oinc
    BY DEF TrustMsg, SessionMsg
<1> USE <1>0, PostedFields DEF Exchanging, Posting, Goes, Posted
<1>1. CASE AtDiscover(c) \/ AtHandshake(c) \/ AtSession(c) \/ AtExecute(c) \/ AtFailure(c)
           \/ AtTeardown(c)
    BY <1>1 DEF AtDiscover, AtHandshake, AtSession, AtExecute, AtFailure, AtTeardown
<1>2. CASE AtLookup(c)
    BY <1>2 DEF AtLookup
<1>3. CASE AtPin(c)
    BY <1>3 DEF AtPin
<1>4. CASE AtTrust(c)
    BY <1>4 DEF AtTrust
<1>5. CASE AtCleanup(c)
    BY <1>5 DEF AtCleanup
<1>6. CASE AtRetry(c)
    BY <1>6 DEF AtRetry, EntryFollowsCall
<1> QED
    BY <1>1, <1>2, <1>3, <1>4, <1>5, <1>6 DEF Row


\* Only what an earlier or the present call has established is kept and removed.
LEMMA RowFirstKeys ==
    ASSUME Entries, inc = 1, oinc = 1, FirstKeys, EntryLeftOver,
           NEW c \in Calls, Keeps(c), Row(c), UNCHANGED workerVars
    PROVE  FirstKeys' /\ EntryLeftOver'
<1>1. /\ CallTypeOK /\ NetTypeOK /\ OrchTypeOK /\ EntryFollowsCall(c)
      /\ pc[c] # "done" => status[c] = "none"
      /\ pc[c] \notin {"new", "done"} /\ \A d \in Calls \ {c} : pc[d] \in {"new", "done"}
    BY Serving, RowEntry DEF Entries
<1>2. trusted' = trusted
    BY DEF workerVars, volatile
<1>4. \A m \in sent' : /\ m.kind = "trust" => m.key = 1
                       /\ m.kind = "session" => m.signer = 1
    BY <1>1, RowPosts DEF Posting, FirstKeys
<1>5. registry' \in {NONE, 1}
    BY <1>1 DEF FirstKeys, Row, AtDiscover, AtLookup, AtHandshake, AtPin, AtTrust, AtSession,
                AtExecute, AtFailure, AtCleanup, AtTeardown, AtRetry, Shared
<1>6. osession' = osession \/ osession' = NONE \/ (AtSession(c) /\ osession' = c)
    BY DEF Row, AtDiscover, AtLookup, AtHandshake, AtPin, AtTrust,
           AtExecute, AtFailure, AtCleanup, AtTeardown, AtRetry, Shared, AtSession
<1>7. osession' # NONE => trusted[Orchestrator] # NONE
    BY <1>6 DEF FirstKeys, AtSession
<1>8. pc'[c] \notin {"new", "discover", "done"} => disc'[c] = 1
    BY <1>1 DEF FirstKeys, Row, AtDiscover, AtLookup, AtHandshake, AtPin, AtTrust, AtSession,
                AtExecute, AtFailure, AtCleanup, AtTeardown, AtRetry, Locals, Goes
<1>9. pc'[c] = "session" \/ (pc'[c] = "trust" /\ rsp'[c] = "200")
         => trusted[Orchestrator] # NONE
    BY <1>1, NoAnswer
       DEF FirstKeys, Row, AtDiscover, AtLookup, AtHandshake, AtPin, AtTrust, AtSession,
           AtExecute, AtFailure, AtCleanup, AtTeardown, AtRetry, Goes, Posted
<1>10. FirstKeys'
  <2>1. ASSUME NEW d \in Calls \ {c}
        PROVE  /\ pc'[d] \notin {"new", "discover", "done"} => disc'[d] = 1
               /\ pc'[d] \notin {"session", "trust"}
      BY <1>1 DEF Keeps
  <2> QED
      BY <1>2, <1>4, <1>5, <1>7, <1>8, <1>9, <2>1 DEF FirstKeys
<1>11. ASSUME osession' # NONE
       PROVE  \/ status'[osession'] = "discarded"
              \/ pc'[osession'] \in {"fetch", "execute", "cleanup", "teardown"}
  <2>1. CASE osession' = c
    <3>1. CASE AtSession(c)
        BY <2>1, <3>1 DEF AtSession, Goes
    <3>2. CASE osession = c
      <4>1. pc[c] \in {"fetch", "execute", "cleanup", "teardown"}
          BY <1>1, <3>2, NoAnswer DEF EntryLeftOver
      <4> QED
          BY <1>11, <2>1, <3>2, <4>1, NoAnswer
             DEF Row, AtDiscover, AtLookup, AtHandshake, AtPin, AtTrust, AtSession,
                 AtExecute, AtFailure, AtCleanup, AtTeardown, AtRetry, Goes, Posted
    <3> QED
        BY <1>6, <1>11, <2>1, <3>1, <3>2
  <2>2. CASE osession' # c
    <3>1. osession' = osession /\ osession \in Calls \ {c}
        BY <1>1, <1>6, <1>11, <2>2 DEF OrchTypeOK
    <3>2. status[osession] = "discarded"
        BY <1>1, <1>11, <3>1 DEF EntryLeftOver
    <3> QED
        BY <3>1, <3>2 DEF Keeps
  <2> QED
      BY <2>1, <2>2
<1>12. ASSUME NEW m \in sent', m.kind = "teardown" PROVE pc'[m.sid] \in {"teardown", "done"}
  <2>1. CASE m \in sent
    <3>1. m.sid \in Calls /\ pc[m.sid] \in {"teardown", "done"}
        BY <1>12, <2>1, RequestFields
           DEF Entries, DelegationInv, RequestsWellFormed, EntryLeftOver
    <3>2. CASE m.sid = c
        BY <1>1, <3>1, <3>2
           DEF Row, AtDiscover, AtLookup, AtHandshake, AtPin, AtTrust, AtSession,
               AtExecute, AtFailure, AtCleanup, AtTeardown, AtRetry, Goes, Posted
    <3> QED
        BY <3>1, <3>2 DEF Keeps
  <2>2. CASE m \notin sent
    <3>1. /\ pc'[c] = "teardown" /\ m.sid = osession /\ osession \in Calls
          /\ pc[c] \in {"cleanup", "teardown"}
        BY <1>1, <1>12, <2>2, RowPosts DEF Posting, OrchTypeOK
    <3>2. CASE osession # c
      <4>1. status[osession] = "discarded" \/ pc[osession] \notin {"new", "done"}
          BY <1>1, <3>1, NoAnswer DEF EntryLeftOver
      <4>2. pc[osession] = "done"
          BY <1>1, <3>1, <3>2, <4>1 DEF Entries, DelegationInv, AnsweredAtEnd
      <4> QED
          BY <3>1, <3>2, <4>2 DEF Keeps
    <3> QED
        BY <3>1, <3>2
  <2> QED
      BY <2>1, <2>2
<1>13. EntryLeftOver'
    BY <1>11, <1>12 DEF EntryLeftOver
<1> QED
    BY <1>10, <1>13

LEMMA ServeFirstKeys ==
    ASSUME Entries, inc = 1, oinc = 1, FirstKeys, EntryLeftOver,
           NEW m \in sent, Serve(m) \/ ServeCopy(m) \/ Store(m)
    PROVE  FirstKeys' /\ EntryLeftOver'
<1>1. /\ CallTypeOK /\ NetTypeOK /\ OrchTypeOK /\ WellFormed(m) /\ NONE \notin Nat
      /\ UNCHANGED <<registry, osession, pc, status, sess, sent, disc>>
    BY Serving, IdentifiersAssumption
       DEF Entries, Serve, ServeCopy, Store, orchVars, netVars, DelegationInv, TypeOK,
           RequestsWellFormed
<1>2. PICK reply \in Replies \cup {NONE} :
         /\ Handle(m, reply) \/ StorePin(m, reply)
         /\ \/ rsp' = rsp
            \/ waiting[m.call] = m /\ rsp' = [rsp EXCEPT ![m.call] = reply]
    BY DEF Serve, ServeCopy, Store, netVars
<1>3. /\ \/ trusted'[Orchestrator] = trusted[Orchestrator]
         \/ m.kind = "trust" /\ trusted'[Orchestrator] = m.key
      /\ m.kind = "trust" /\ reply = "200" => trusted'[Orchestrator] = m.key
    BY <1>2, HandleLeaves DEF Entries
<1>4. m.kind = "trust" => m.key = 1
    BY DEF FirstKeys
<1>5. /\ trusted'[Orchestrator] \in {NONE, 1}
      /\ trusted[Orchestrator] # NONE => trusted'[Orchestrator] # NONE
    BY <1>1, <1>3, <1>4 DEF FirstKeys
<1>6. ASSUME NEW d \in Calls, pc[d] = "trust", rsp'[d] = "200"
      PROVE  trusted'[Orchestrator] # NONE
  <2>1. CASE rsp[d] = "200"
      BY <1>5, <1>6, <2>1 DEF FirstKeys
  <2>2. CASE rsp[d] # "200"
    <3>1. waiting[d] = m /\ reply = "200"
        BY <1>1, <1>2, <1>6, <2>2 DEF NetTypeOK
    <3>2. m.kind = "trust"
        BY <1>6, <3>1 DEF Entries, WaitsForItsStep, Exchanging
    <3> QED
        BY <1>1, <1>3, <1>4, <3>1, <3>2
  <2> QED
      BY <2>1, <2>2
<1>7. FirstKeys'
    BY <1>1, <1>5, <1>6 DEF FirstKeys
<1>8. EntryLeftOver'
    BY <1>1 DEF EntryLeftOver
<1> QED
    BY <1>7, <1>8

LEMMA StartFirstKeys ==
    ASSUME Entries, inc = 1, FirstKeys, EntryLeftOver, NEW c \in Calls, Start(c)
    PROVE  FirstKeys' /\ EntryLeftOver'
<1>1. /\ pc[c] = "new" /\ status[c] = "none" /\ CallTypeOK /\ NetTypeOK /\ OrchTypeOK
      /\ \A d \in Calls \ {c} : pc'[d] = pc[d] /\ status'[d] = status[d]
      /\ pc'[c] \in {"discover", "done"}
      /\ \A d \in Calls : rsp'[d] = rsp[d] \/ rsp'[d] = NONE
      /\ UNCHANGED <<workerVars, registry, osession, sess, sent, disc>>
    BY StartIsStep, Serving DEF Entries, Begins, CallTypeOK, NetTypeOK
<1>2. \A m \in sent : m.kind = "teardown" => m.sid \in Calls
    BY RequestFields DEF Entries, DelegationInv, RequestsWellFormed
<1>3. trusted' = trusted
    BY <1>1 DEF workerVars, volatile
<1>4. FirstKeys'
    BY <1>1, <1>3, NoAnswer DEF FirstKeys
<1>5. EntryLeftOver'
    BY <1>1, <1>2 DEF EntryLeftOver, OrchTypeOK
<1> QED
    BY <1>4, <1>5


\* What the four parts about one call take from the rest.
Undisturbed == /\ Entries /\ inc = 1 /\ oinc = 1 /\ FirstKeys /\ EntryLeftOver
               /\ audit < AuditRoom

\* The call itself moves on: each of its steps has ended the exchange before it.
LEMMA RowServed ==
    ASSUME Undisturbed, NEW c \in Calls \ FaultyCalls, ServedOnce(c), Proceeds(c),
           Keeps(c), Row(c), UNCHANGED workerVars
    PROVE  ServedOnce(c)'
<1>0. EntryFollowsCall(c) /\ CallTypeOK /\ NetTypeOK
    BY Serving DEF Undisturbed, Entries
<1>1. pc[c] \in Exchanging => rsp[c] # NONE
    BY NoAnswer
       DEF Row, AtDiscover, AtLookup, AtHandshake, AtPin, AtTrust, AtSession, AtExecute,
           AtFailure, AtCleanup, AtTeardown, AtRetry, Exchanging
<1>2. \A m \in pending : m.call # c
    BY <1>1 DEF ServedOnce
<1>3. \A m \in pending' :
          m.call = c => pc'[c] \in Exchanging /\ waiting'[c] = m /\ rsp'[c] = NONE
    BY <1>0, <1>2, RowPosts DEF Posting, Exchanging
<1>6. \A m \in storing : m.call # c
    BY <1>1 DEF ServedOnce, InStore, Exchanging
<1>4. /\ Past(c, "trust") => Past(c, "trust")'
      /\ Past(c, "session") => Past(c, "session")'
      /\ Past(c, "execute") => Past(c, "execute")'
      /\ Past(c, "teardown") => Past(c, "teardown")'
  <2> USE DEF Past, After, FromExecute, Goes, Posted, Proceeds
  <2>1. CASE AtDiscover(c) \/ AtLookup(c) \/ AtHandshake(c) \/ AtPin(c)
      BY <2>1 DEF AtDiscover, AtLookup, AtHandshake, AtPin, LogFails
  <2>2. CASE AtTrust(c) \/ AtSession(c) \/ AtExecute(c)
      BY <2>2 DEF AtTrust, AtSession, AtExecute
  <2>3. CASE AtFailure(c) \/ AtCleanup(c) \/ AtTeardown(c) \/ AtRetry(c)
      BY <2>3 DEF AtFailure, AtCleanup, AtTeardown, AtRetry
  <2> QED
      BY <2>1, <2>2, <2>3 DEF Row
<1>5. UNCHANGED <<bootNonces, acceptedIds, sessions, storing>> /\ Live' = Live
    BY DEF workerVars, volatile, Live
<1> QED
    BY <1>3, <1>4, <1>5, <1>6 DEF ServedOnce

LEMMA RowProceeds ==
    ASSUME Undisturbed, NEW c \in Calls \ FaultyCalls, ServedOnce(c), Proceeds(c),
           Keeps(c), Row(c), UNCHANGED workerVars
    PROVE  Proceeds(c)'
<1>0. /\ EntryFollowsCall(c) /\ CallTypeOK /\ NetTypeOK /\ OrchTypeOK
      /\ pc[c] # "done" => status[c] = "none"
      /\ audit < AuditRoom /\ audit \in Nat /\ AuditRoom \in Nat /\ ~(AuditRoom <= audit)
      /\ pc[c] \notin {"new", "discover", "done"} => disc[c] = 1
      /\ registry \in {NONE, 1} /\ inc = 1
    BY Serving, BoundsAssumption DEF Undisturbed, Entries, FirstKeys, OrchTypeOK
<1>1. \A s \in Calls : status[s] = "discarded" => s # c
    BY <1>0 DEF Row, AtDiscover, AtLookup, AtHandshake, AtPin, AtTrust, AtSession, AtExecute,
           AtFailure, AtCleanup, AtTeardown, AtRetry
<1>2. osession # NONE =>
        \/ osession # c /\ status[osession] = "discarded"
        \/ osession = c /\ pc[c] \in {"fetch", "execute", "cleanup", "teardown"}
  <2> SUFFICES ASSUME osession # NONE
               PROVE  \/ osession # c /\ status[osession] = "discarded"
                      \/ osession = c /\ pc[c] \in {"fetch", "execute", "cleanup", "teardown"}
      OBVIOUS
  <2>1. osession \in Calls /\ (\/ status[osession] = "discarded"
                               \/ pc[osession] \in {"fetch", "execute", "cleanup", "teardown"})
      BY <1>0 DEF Undisturbed, EntryLeftOver, OrchTypeOK
  <2>2. \A d \in Calls \ {c} : pc[d] \in {"new", "done"}
      BY RowEntry DEF Undisturbed, Entries
  <2> QED
      BY <1>1, <2>1, <2>2
<1>3. sessions' = sessions
    BY DEF workerVars, volatile
<1>4. \A s \in Calls \ {c} : status'[s] = status[s]
    BY DEF Keeps
<1>5. Reuses(c) /\ sess'[c] = sess[c] => Reuses(c)'
    BY <1>0, <1>4 DEF Reuses, CallTypeOK
<1> USE NoAnswer DEF Goes, Posted, Shared, Locals
<1>6. CASE AtDiscover(c)
    BY <1>0, <1>6 DEF AtDiscover, Proceeds
<1>7. CASE AtLookup(c)
  <2>1. CASE osession = NONE
      BY <1>0, <1>7, <2>1 DEF AtLookup, Proceeds, EntryFollowsCall
  <2>2. CASE osession # NONE
    <3>1. /\ pc'[c] = "execute" /\ sess'[c] = osession /\ rsp'[c] = NONE
          /\ status'[c] = "none" /\ osession \in Calls
        BY <1>0, <1>7, <2>2 DEF AtLookup, OrchTypeOK
    <3>2. osession = c => sessions[c] # NONE /\ sessions[c].keyed
        BY <1>2, <1>7, <2>2 DEF AtLookup, Proceeds
    <3>3. osession # c => Reuses(c)'
        BY <1>2, <1>4, <2>2, <3>1 DEF Reuses
    <3> QED
        BY <1>3, <3>1, <3>2, <3>3 DEF Proceeds
  <2> QED
      BY <2>1, <2>2
<1>8. CASE AtHandshake(c) \/ AtPin(c)
    BY <1>0, <1>3, <1>8 DEF AtHandshake, AtPin, LogFails, PinConflict, Proceeds
<1>9. CASE AtTrust(c)
    BY <1>0, <1>9 DEF AtTrust, Proceeds
<1>10. CASE AtSession(c)
    BY <1>0, <1>3, <1>10 DEF AtSession, Proceeds
<1>11. CASE AtExecute(c)
  <2>1. sess[c] = c => rsp[c] = "results"
      BY <1>11 DEF AtExecute, Proceeds
  <2>2. osession # NONE /\ osession' = osession /\ sess'[c] = sess[c]
      BY <1>0, <1>11 DEF AtExecute, EntryFollowsCall
  <2>3. got'[c] \/ Reuses(c)'
      BY <1>5, <1>11, <2>1, <2>2 DEF AtExecute, Proceeds
  <2> QED
      BY <1>0, <1>11, <2>2, <2>3 DEF AtExecute, Proceeds
<1>12. CASE AtFailure(c)
    BY <1>12 DEF AtFailure, Proceeds
<1>13. CASE AtCleanup(c)
    BY <1>0, <1>5, <1>13 DEF AtCleanup, Proceeds
<1>14. CASE AtTeardown(c)
  <2>1. pc'[c] = "done" /\ osession' = NONE /\ status'[c] = Outcome(c) /\ sess'[c] = sess[c]
      BY <1>0, <1>14 DEF AtTeardown, LogFails
  <2>2. got[c] \/ Reuses(c)
      BY <1>14 DEF AtTeardown, Proceeds
  <2>3. ~got[c] => Reuses(c)' /\ osession' # sess'[c]
      BY <1>5, <2>1, <2>2 DEF Reuses
  <2> QED
      BY <2>1, <2>3 DEF Proceeds, Outcome
<1>15. CASE AtRetry(c)
    BY <1>15 DEF AtRetry, Proceeds
<1> QED
    BY <1>6, <1>7, <1>8, <1>9, <1>10, <1>11, <1>12, <1>13, <1>14, <1>15 DEF Row

\* Another call moves on: this one waits for its turn, or is done.
LEMMA OtherRow ==
    ASSUME Undisturbed, NEW c \in Calls \ FaultyCalls, ServedOnce(c), Proceeds(c),
           NEW d \in Calls \ {c}, Keeps(d), Row(d), UNCHANGED workerVars
    PROVE  ServedOnce(c)' /\ Proceeds(c)'
<1>0. /\ EntryFollowsCall(d) /\ CallTypeOK /\ NetTypeOK /\ OrchTypeOK
      /\ pc[c] \in {"new", "done"} /\ pc[d] \notin {"new", "done"} /\ status[d] = "none"
    BY Serving, RowEntry DEF Undisturbed, Entries
<1>1. /\ UNCHANGED <<bootNonces, acceptedIds, sessions, storing>> /\ Live' = Live
      /\ pc'[c] = pc[c] /\ status'[c] = status[c] /\ sess'[c] = sess[c] /\ got'[c] = got[c]
      /\ waiting'[c] = waiting[c] /\ rsp'[c] = rsp[c]
    BY DEF workerVars, volatile, Live, Keeps
<1>2. \A m \in pending' : m \in pending \/ m.call = d
    BY <1>0, RowPosts DEF Posting
<1>3. ServedOnce(c)'
    BY <1>0, <1>1, <1>2 DEF ServedOnce, Past
<1>4. ASSUME status[c] = "failed" PROVE Reuses(c)' /\ osession' # sess[c]
  <2>1. /\ sess[c] \notin {c, NONE} /\ status[sess[c]] = "discarded" /\ osession # sess[c]
        /\ sess[c] \in Calls \ {d}
      BY <1>0, <1>4 DEF Proceeds, Reuses, CallTypeOK
  <2>2. status'[sess[c]] = "discarded"
      BY <2>1 DEF Keeps
  <2>3. osession' \in {osession, NONE, d}
      BY DEF Row, AtDiscover, AtLookup, AtHandshake, AtPin, AtTrust, AtSession, AtExecute,
             AtFailure, AtCleanup, AtTeardown, AtRetry, Shared
  <2> QED
      BY <1>1, <2>1, <2>2, <2>3 DEF Reuses
<1>5. Proceeds(c)'
    BY <1>0, <1>1, <1>4 DEF Proceeds
<1> QED
    BY <1>3, <1>5


\* The request that a call waits for is served, or its key stored: it succeeds, and
\* what it leaves at the worker is what its reply says or is about to say.
LEMMA ServeOwn ==
    ASSUME Undisturbed, RoomForAll, NEW c \in Calls \ FaultyCalls, ServedOnce(c), Proceeds(c),
           NEW m \in sent, Serve(m) \/ ServeCopy(m) \/ Store(m), m.call = c
    PROVE  ServedOnce(c)' /\ Proceeds(c)'
<1>1. /\ CallTypeOK /\ NetTypeOK /\ OrchTypeOK /\ WellFormed(m) /\ EntryFollowsCall(c)
      /\ inc = 1 /\ FirstKeys /\ NONE \notin Replies
    BY Serving, IdentifiersAssumption
       DEF Undisturbed, Entries, DelegationInv, RequestsWellFormed
<1>2. PICK reply \in Replies \cup {NONE} :
         \/ /\ Serve(m) /\ Handle(m, reply) /\ m \in pending /\ pending' = pending \ {m}
            /\ rsp' = IF waiting[m.call] = m THEN [rsp EXCEPT ![m.call] = reply] ELSE rsp
         \/ /\ Store(m) /\ StorePin(m, reply) /\ pending' = pending
            /\ rsp' = IF waiting[m.call] = m /\ InStore(m.call)
                      THEN [rsp EXCEPT ![m.call] = reply] ELSE rsp
    BY DEF Serve, ServeCopy, Store
<1>3. UNCHANGED <<osession, pc, status, sess, got, waiting>>
    BY DEF Serve, ServeCopy, Store, orchVars, netVars
<1>4. /\ pc[c] \in Exchanging /\ waiting[c] = m /\ rsp[c] = NONE /\ m.kind = pc[c]
      /\ rsp'[c] = reply
      /\ StorePin(m, reply) => InStore(c) /\ m.kind = "trust" /\ reply = "200"
  <2>1. CASE Serve(m)
    <3>1. m \in pending
        BY <2>1 DEF Serve
    <3>2. pc[c] \in Exchanging /\ waiting[c] = m /\ rsp[c] = NONE /\ m \notin storing \ pending
        BY <3>1 DEF ServedOnce
    <3>3. ~StorePin(m, reply)
        BY <2>1, <3>1, <3>2 DEF ServedOnce, InStore, StorePin
    <3>4. m.kind = pc[c]
        BY <3>2 DEF Undisturbed, Entries, WaitsForItsStep
    <3> QED
        BY <1>1, <1>2, <2>1, <3>2, <3>3, <3>4 DEF NetTypeOK
  <2>2. CASE Store(m)
    <3>1. m \in storing /\ m.kind = "trust"
        BY <2>2 DEF Store, StorePin, Undisturbed, Entries, DelegationInv, StoringWereAsked
    <3>2. pc[c] = "trust" /\ waiting[c] = m /\ InStore(c) /\ rsp[c] = NONE /\ m \notin pending
        BY <3>1 DEF ServedOnce, InStore
    <3>3. ~Serve(m)
        BY <3>2 DEF Serve
    <3> QED
        BY <1>1, <1>2, <3>1, <3>2, <3>3 DEF NetTypeOK, Exchanging, StorePin
  <2> QED
      BY <1>2, <2>1, <2>2
<1>12. /\ m.kind # "trust" => Handle(m, reply) /\ reply # NONE
       /\ m.kind = "trust" => \/ reply = NONE /\ Handle(m, reply) /\ m \in storing'
                              \/ reply = "200" /\ StorePin(m, reply)
  <2>1. ASSUME m.kind # "trust" PROVE Handle(m, reply) /\ reply # NONE
      BY <1>2, <1>4, <2>1, HandleReplies
  <2>2. ASSUME m.kind = "trust", Handle(m, reply), ~StorePin(m, reply)
        PROVE  reply = NONE /\ m \in storing'
    <3>1. m.key = 1 /\ m.nonce = <<c, 0>>
        BY <1>1, <2>2, RequestProofs DEF FirstKeys
    <3>2. m \in pending
        BY <1>2, <2>2
    <3>3. m.nonce \notin bootNonces
      <4>1. \A x \in storing : x.call # c
          BY <1>4, <3>2 DEF ServedOnce, InStore
      <4>2. ~Past(c, "trust")
          BY <1>4, <2>2 DEF Past, After, FromExecute
      <4> QED
          BY <3>1, <4>1, <4>2 DEF ServedOnce
    <3> QED
        BY <1>1, <2>2, <3>1, <3>3, HandleWorks DEF FirstKeys, Undisturbed, Entries
  <2> QED
      BY <1>2, <1>4, <2>1, <2>2
<1>5. /\ ~Past(c, m.kind) /\ m.kind \in Exchanging
      /\ reply # NONE => Past(c, m.kind)'
      /\ \A step \in Exchanging : Past(c, step) => Past(c, step)'
    BY <1>3, <1>4 DEF Past, After, Exchanging, FromExecute
<1>6. /\ \A n \in bootNonces' : n \in bootNonces
            \/ (m.kind \in {"trust", "teardown"} /\ n = m.nonce)
      /\ \A s \in acceptedIds' : s \in acceptedIds \/ (m.kind = "session" /\ s = m.sid)
      /\ \A s \in Calls : sessions'[s] # NONE =>
            \A x \in Retained(s)' : \/ sessions[s] # NONE /\ x \in Retained(s)
                                    \/ m.kind = "execute" /\ x = m.call
      /\ m.kind = "session" /\ reply = "200" =>
            sessions'[m.sid] # NONE /\ sessions'[m.sid].keyed = (m.kem = inc)
      /\ \A x \in storing' : x \in storing \/ (m.kind = "trust" /\ x = m)
      /\ \A x \in storing : x \in storing' \/ (m.kind = "trust" /\ x = m)
    BY <1>2, HandleLeaves DEF Undisturbed, Entries
<1>7. ServedOnce(c)'
  <2>1. \A x \in pending' : x.call # c
      BY <1>2, <1>4 DEF ServedOnce, InStore
  <2>6. ASSUME NEW x \in storing', x.call = c
        PROVE  pc'[c] = "trust" /\ waiting'[c] = x /\ InStore(c)'
    <3>1. x = m
        BY <1>4, <1>6, <2>6 DEF ServedOnce
    <3>2. m \in storing' /\ m \notin pending'
        BY <2>1, <2>6, <3>1
    <3>3. ~StorePin(m, reply)
        BY <3>2 DEF StorePin
    <3>4. m.kind = "trust"
        BY <1>4, <1>6, <2>6, <3>1 DEF ServedOnce
    <3> QED
        BY <1>3, <1>4, <1>12, <3>1, <3>2, <3>3, <3>4 DEF InStore
  <2>2. <<c, 0>> \in bootNonces' => Past(c, "trust")' \/ \E x \in storing' : x.call = c
    <3>1. ASSUME <<c, 0>> = m.nonce, m.kind = "teardown" PROVE FALSE
        BY <1>1, <3>1, RequestProofs, BoundsAssumption
    <3>2. CASE m.kind = "trust"
        BY <1>5, <1>12, <3>2, NoAnswer
    <3>3. CASE m.kind # "trust"
        BY <1>5, <1>6, <3>1, <3>3 DEF ServedOnce, Exchanging
    <3> QED
        BY <3>2, <3>3
  <2>3. c \in acceptedIds' => Past(c, "session")'
      BY <1>4, <1>5, <1>6, <1>12 DEF ServedOnce, Exchanging
  <2>4. ASSUME NEW s \in Live', c \in Retained(s)' PROVE Past(c, "execute")'
    <3>1. s \in Calls /\ sessions'[s] # NONE
        BY <2>4, IdentifiersAssumption DEF Live
    <3>2. CASE sessions[s] # NONE /\ c \in Retained(s)
      <4>1. Past(c, "execute")
          BY <3>1, <3>2, IdentifiersAssumption DEF ServedOnce, Retained, Live
      <4> QED
          BY <1>5, <4>1 DEF Exchanging
    <3>3. CASE m.kind = "execute"
        BY <1>5, <1>12, <3>3
    <3> QED
        BY <1>6, <2>4, <3>1, <3>2, <3>3
  <2>5. ASSUME NEW k \in 1..Attempts, <<c, k>> \in bootNonces' PROVE Past(c, "teardown")'
    <3>1. ASSUME <<c, k>> = m.nonce, m.kind = "trust" PROVE FALSE
        BY <1>1, <3>1, RequestProofs, BoundsAssumption
    <3> QED
        BY <1>4, <1>5, <1>6, <1>12, <2>5, <3>1 DEF ServedOnce, Exchanging
  <2> QED
      BY <2>1, <2>2, <2>3, <2>4, <2>5, <2>6 DEF ServedOnce, Retained
<1>8. /\ pc[c] = "trust" => reply \in {NONE, "200"}
      /\ pc[c] \in {"session", "teardown"} => reply = "200"
      /\ pc[c] = "execute" /\ sess[c] = c => reply = "results"
  <2>1. trusted[Orchestrator] \in {NONE, 1}
      BY <1>1 DEF FirstKeys
  <2>2. pc[c] = "trust" => reply \in {NONE, "200"}
      BY <1>4, <1>12
  <2>3. pc[c] = "session" => reply = "200"
      BY <1>1, <1>4, <1>5, <1>12, <2>1, HandleWorks, RequestFields
         DEF ServedOnce, FirstKeys, Undisturbed, Entries
  <2>4. pc[c] = "teardown" => reply = "200"
      BY <1>1, <1>4, <1>5, <1>12, <2>1, HandleWorks, RequestProofs
         DEF ServedOnce, FirstKeys, EntryFollowsCall, Undisturbed, Entries
  <2>5. ASSUME pc[c] = "execute", sess[c] = c PROVE reply = "results"
    <3>1. m.sid = c /\ sessions[c] # NONE /\ sessions[c].keyed
        BY <1>1, <1>4, <2>5 DEF EntryFollowsCall, Proceeds
    <3>2. c \notin Retained(c)
        BY <1>4, <1>5, <2>5, <3>1, IdentifiersAssumption DEF ServedOnce, Retained, Live
    <3> QED
        BY <1>4, <1>12, <2>1, <2>5, <3>1, <3>2, HandleWorks DEF Undisturbed, Entries
  <2> QED
      BY <2>2, <2>3, <2>4, <2>5
<1>9. ASSUME pc[c] = "session" PROVE sessions'[c] # NONE /\ sessions'[c].keyed
  <2>1. m.sid = c /\ m.kem = inc
      BY <1>1, <1>4, <1>9, RequestFields DEF FirstKeys
  <2> QED
      BY <1>4, <1>6, <1>8, <1>9, <2>1
<1>10. Reuses(c)' <=> Reuses(c)
    BY <1>3 DEF Reuses
<1>11. Proceeds(c)'
  <2>1. /\ pc'[c] \in {"trust", "session", "teardown"} => rsp'[c] \in {NONE, "200"}
        /\ pc'[c] = "execute" /\ sess'[c] = c => rsp'[c] \in {NONE, "results"}
      BY <1>3, <1>4, <1>8
  <2>2. pc'[c] = "fetch" \/ (pc'[c] = "session" /\ rsp'[c] = "200")
           \/ (pc'[c] = "execute" /\ sess'[c] = c /\ rsp'[c] = NONE)
           => sessions'[c] # NONE /\ sessions'[c].keyed
      BY <1>3, <1>4, <1>9, <1>12 DEF Exchanging
  <2> QED
      BY <1>3, <1>10, <2>1, <2>2 DEF Proceeds
<1> QED
    BY <1>7, <1>11

\* Another call's request, late or repeated, is served: it has the nonces and the
\* session of another call.
LEMMA ServeOther ==
    ASSUME Undisturbed, NEW c \in Calls \ FaultyCalls, ServedOnce(c), Proceeds(c),
           NEW m \in sent, Serve(m) \/ ServeCopy(m) \/ Store(m), m.call # c
    PROVE  ServedOnce(c)' /\ Proceeds(c)'
<1>1. /\ CallTypeOK /\ NetTypeOK /\ WellFormed(m) /\ EntryLeftOver
    BY Serving DEF Undisturbed, Entries, DelegationInv, RequestsWellFormed
<1>2. PICK reply \in Replies \cup {NONE} :
         /\ Handle(m, reply) \/ StorePin(m, reply)
         /\ pending' \subseteq pending
         /\ rsp' = rsp \/ rsp' = [rsp EXCEPT ![m.call] = reply]
    BY DEF Serve, ServeCopy, Store, netVars
<1>3. UNCHANGED <<osession, pc, status, sess, got, waiting>> /\ rsp'[c] = rsp[c]
    BY <1>1, <1>2 DEF Serve, ServeCopy, Store, orchVars, netVars, NetTypeOK
<1>4. /\ \A n \in bootNonces' : n \in bootNonces
            \/ (m.kind \in {"trust", "teardown"} /\ n = m.nonce)
      /\ \A s \in acceptedIds' : s \in acceptedIds \/ (m.kind = "session" /\ s = m.sid)
      /\ \A s \in Calls : sessions'[s] # NONE =>
            \A x \in Retained(s)' : \/ sessions[s] # NONE /\ x \in Retained(s)
                                    \/ m.kind = "execute" /\ x = m.call
      /\ \A s \in Calls : sessions[s] # NONE /\ ~(m.kind = "teardown" /\ m.sid = s) =>
            sessions'[s] # NONE /\ sessions'[s].keyed = sessions[s].keyed
      /\ \A x \in storing' : x \in storing \/ (m.kind = "trust" /\ x = m)
      /\ \A x \in storing : x \in storing' \/ (m.kind = "trust" /\ x = m)
    BY <1>2, HandleLeaves DEF Undisturbed, Entries
<1>5. \A k : <<c, k>> \in bootNonces' => <<c, k>> \in bootNonces
    BY <1>1, <1>4, RequestProofs
<1>6. c \in acceptedIds' => c \in acceptedIds
    BY <1>1, <1>4, RequestFields
<1>7. ASSUME NEW s \in Live', c \in Retained(s)' PROVE s \in Live /\ c \in Retained(s)
    BY <1>4, <1>7, IdentifiersAssumption DEF Live
<1>8. ServedOnce(c)'
  <2>1. \A step : Past(c, step)' <=> Past(c, step)
      BY <1>3 DEF Past, After, FromExecute
  <2>2. \A s \in Live' : c \in Retained(s)' => Past(c, "execute")
      BY <1>7 DEF ServedOnce, Retained
  <2>3. \A x \in pending' :
            x.call = c => pc'[c] \in Exchanging /\ waiting'[c] = x /\ rsp'[c] = NONE
      BY <1>2, <1>3 DEF ServedOnce
  <2>5. ASSUME NEW x \in storing', x.call = c
        PROVE  pc'[c] = "trust" /\ waiting'[c] = x /\ InStore(c)'
    <3>1. x \in storing
        BY <1>4, <2>5
    <3>2. pc[c] = "trust" /\ waiting[c] = x /\ x \notin pending /\ rsp[c] = NONE
        BY <2>5, <3>1 DEF ServedOnce, InStore
    <3> QED
        BY <1>2, <1>3, <2>5, <3>2 DEF InStore
  <2>6. <<c, 0>> \in bootNonces' => Past(c, "trust") \/ \E x \in storing' : x.call = c
      BY <1>4, <1>5 DEF ServedOnce
  <2>4. /\ c \in acceptedIds' => Past(c, "session")
        /\ \A k \in 1..Attempts : <<c, k>> \in bootNonces' => Past(c, "teardown")
      BY <1>5, <1>6 DEF ServedOnce
  <2> QED
      BY <2>1, <2>2, <2>3, <2>4, <2>5, <2>6 DEF ServedOnce, Retained
<1>9. pc[c] \in {"fetch", "session", "execute"} /\ sessions[c] # NONE
         => sessions'[c] # NONE /\ sessions'[c].keyed = sessions[c].keyed
    BY <1>1, <1>4 DEF EntryLeftOver
<1>10. Proceeds(c)'
    BY <1>3, <1>9 DEF Proceeds, Reuses
<1> QED
    BY <1>8, <1>10

\* A call starts, this one or another.
LEMMA StartClean ==
    ASSUME MaxActive = 1, Undisturbed, NEW c \in Calls \ FaultyCalls, ServedOnce(c), Proceeds(c),
           NEW d \in Calls, Start(d)
    PROVE  ServedOnce(c)' /\ Proceeds(c)'
<1>1. /\ pc[d] = "new" /\ status[d] = "none" /\ CallTypeOK /\ NetTypeOK /\ OrchTypeOK
      /\ pc[c] \in {"new", "done"}
      /\ \A e \in Calls \ {d} : pc'[e] = pc[e] /\ status'[e] = status[e]
      /\ pc'[d] \in {"discover", "done"} /\ status'[d] \in {"none", "400", "401"}
      /\ UNCHANGED <<workerVars, osession, sess, got, waiting, pending>>
    BY StartIsStep, StartsAlone, Serving
       DEF Undisturbed, Entries, Begins, CallTypeOK, NetTypeOK, Active
<1>2. UNCHANGED <<bootNonces, acceptedIds, sessions, storing>> /\ Live' = Live
    BY <1>1 DEF workerVars, volatile, Live
<1>3. /\ \A m \in pending : m.call # c
      /\ \A m \in storing : m.call # c
    BY <1>1 DEF ServedOnce, Exchanging
<1>4. \A step \in Exchanging : Past(c, step) => Past(c, step)'
    BY <1>1 DEF Past, After, FromExecute, Exchanging
<1>5. ServedOnce(c)'
    BY <1>1, <1>2, <1>3, <1>4 DEF ServedOnce, Exchanging
<1>6. ASSUME status'[c] = "failed" PROVE Reuses(c)' /\ osession # sess[c]
  <2>1. /\ sess[c] \notin {c, NONE} /\ status[sess[c]] = "discarded" /\ osession # sess[c]
        /\ sess[c] \in Calls \ {d}
      BY <1>1, <1>6 DEF Proceeds, Reuses, CallTypeOK
  <2> QED
      BY <1>1, <2>1 DEF Reuses
<1>7. pc'[c] \in {"new", "discover", "done"}
      /\ status'[c] \in {"none", "ok", "failed", "400", "401"}
    BY <1>1 DEF Proceeds
<1>8. Proceeds(c)'
    BY <1>1, <1>6, <1>7 DEF Proceeds
<1> QED
    BY <1>5, <1>8


LEMMA RecoveryInvInit == Init => RecoveryInv
<1> SUFFICES ASSUME Init PROVE RecoveryInv
    OBVIOUS
<1>1. /\ \A c \in Calls : pc[c] = "new" /\ sess[c] = NONE /\ status[c] = "none" /\ rsp[c] = NONE
      /\ sent = {} /\ pending = {} /\ osession = NONE /\ registry = NONE
      /\ bootNonces = {} /\ acceptedIds = {} /\ trusted = [x \in Senders |-> NONE]
      /\ storing = {}
    BY DEF Init, WorkerInit
<1>2. Live = {}
    BY DEF Init, WorkerInit, Live
<1>3. trusted[Orchestrator] = NONE
    BY <1>1, IdentifiersAssumption
<1>4. FirstKeys /\ EntryLeftOver
    BY <1>1, <1>3 DEF FirstKeys, EntryLeftOver
<1>5. \A c \in Calls : ServedOnce(c) /\ Proceeds(c)
    BY <1>1, <1>2 DEF ServedOnce, Proceeds
<1> QED
    BY <1>4, <1>5 DEF RecoveryInv

LEMMA RecoveryInvStep ==
    ASSUME MaxActive = 1, RoomForAll, DelegationInv, SerialInv, RecoveryInv, [Next]_vars
    PROVE  RecoveryInv'
<1> SUFFICES ASSUME inc' = 1, oinc' = 1
             PROVE  /\ FirstKeys' /\ EntryLeftOver'
                    /\ audit' < AuditRoom =>
                          \A c \in Calls \ FaultyCalls : ServedOnce(c)' /\ Proceeds(c)'
    BY DEF RecoveryInv
<1>1. Entries /\ inc # 0 /\ audit \in Nat /\ AuditRoom \in Nat
    BY BoundsAssumption DEF Entries, SerialInv, DelegationInv, TypeOK, OrchTypeOK
<1>2. ~RestartWorker /\ ~RestartOrchestrator
    BY <1>1, Incarnations DEF SerialInv
<1>3. ASSUME inc = 1, oinc = 1, audit < AuditRoom
      PROVE  Undisturbed /\ \A c \in Calls \ FaultyCalls : ServedOnce(c) /\ Proceeds(c)
    BY <1>1, <1>3 DEF RecoveryInv, Undisturbed
<1>4. ASSUME NEW d \in Calls, Thread(d)
      PROVE  /\ FirstKeys' /\ EntryLeftOver'
             /\ audit' < AuditRoom =>
                   \A c \in Calls \ FaultyCalls : ServedOnce(c)' /\ Proceeds(c)'
  <2>1. Keeps(d) /\ Row(d) /\ UNCHANGED <<workerVars, oinc, delegated>>
      BY <1>4, ThreadRow
  <2>2. inc = 1 /\ oinc = 1
      BY <2>1 DEF workerVars
  <2>3. FirstKeys' /\ EntryLeftOver'
      BY <1>1, <2>1, <2>2, RowFirstKeys DEF RecoveryInv
  <2>4. audit' = audit \/ audit' = audit + 1
      BY <2>1 DEF Row, AtDiscover, AtLookup, AtHandshake, AtPin, AtTrust, AtSession,
                  AtExecute, AtFailure, AtCleanup, AtTeardown, AtRetry, LogFails, Shared
  <2>5. ASSUME audit' < AuditRoom, NEW c \in Calls \ FaultyCalls
        PROVE  ServedOnce(c)' /\ Proceeds(c)'
    <3>1. audit < AuditRoom
        BY <1>1, <2>4, <2>5
    <3>2. Undisturbed /\ ServedOnce(c) /\ Proceeds(c)
        BY <1>3, <2>2, <3>1
    <3>3. CASE c = d
        BY <2>1, <3>2, <3>3, RowServed, RowProceeds
    <3>4. CASE c # d
        BY <2>1, <3>2, <3>4, OtherRow
    <3> QED
        BY <3>3, <3>4
  <2> QED
      BY <2>3, <2>5
<1>5. ASSUME NEW d \in Calls, Start(d)
      PROVE  /\ FirstKeys' /\ EntryLeftOver'
             /\ audit' < AuditRoom =>
                   \A c \in Calls \ FaultyCalls : ServedOnce(c)' /\ Proceeds(c)'
  <2>1. inc = 1 /\ oinc = 1 /\ audit' = audit
      BY <1>1, <1>5, Incarnations, StartIsStep DEF Entries
  <2>2. FirstKeys' /\ EntryLeftOver'
      BY <1>1, <1>5, <2>1, StartFirstKeys DEF RecoveryInv
  <2> QED
      BY <1>3, <1>5, <2>1, <2>2, StartClean
<1>6. ASSUME NEW m \in sent, Serve(m) \/ ServeCopy(m) \/ Store(m)
      PROVE  /\ FirstKeys' /\ EntryLeftOver'
             /\ audit' < AuditRoom =>
                   \A c \in Calls \ FaultyCalls : ServedOnce(c)' /\ Proceeds(c)'
  <2>1. inc = 1 /\ oinc = 1 /\ audit' = audit
      BY <1>1, <1>6, Incarnations DEF Entries, Serve, ServeCopy, Store, orchVars
  <2>2. FirstKeys' /\ EntryLeftOver'
      BY <1>1, <1>6, <2>1, ServeFirstKeys DEF RecoveryInv
  <2> QED
      BY <1>3, <1>6, <2>1, <2>2, ServeOwn, ServeOther
<1>7. CASE UNCHANGED vars
  <2>1. /\ UNCHANGED <<inc, oinc, audit, registry, osession, trusted, bootNonces, acceptedIds,
                       storing, sessions, pc, disc, sess, got, status, waiting, rsp, sent,
                       pending>>
        /\ Live' = Live
      BY <1>7 DEF vars, workerVars, volatile, orchVars, netVars, Live
  <2>2. FirstKeys' /\ EntryLeftOver'
      BY <2>1 DEF RecoveryInv, FirstKeys, EntryLeftOver
  <2>3. ASSUME NEW c \in Calls, ServedOnce(c), Proceeds(c) PROVE ServedOnce(c)' /\ Proceeds(c)'
      BY <2>1, <2>3 DEF ServedOnce, InStore, Proceeds, Past, Reuses
  <2> QED
      BY <1>3, <2>1, <2>2, <2>3
<1> QED
    BY <1>2, <1>4, <1>5, <1>6, <1>7 DEF Next

THEOREM RecoveryInvHolds ==
    ASSUME MaxActive = 1, RoomForAll PROVE Spec => []RecoveryInv
<1>1. DelegationInv /\ SerialInv /\ RecoveryInv /\ [Next]_vars => RecoveryInv'
    BY RecoveryInvStep
<1> QED
    BY <1>1, RecoveryInvInit, DelegationInvHolds, SerialInvHolds, PTL DEF Spec

\* Until a restart or a full audit log, and with caches that have room for every
\* value, a call over a working network fails only by meeting the session that an
\* earlier call gave up on, and takes it away.
THEOREM CleanCallsRecoverHolds ==
    ASSUME MaxActive = 1, RoomForAll
    PROVE  Spec => [](inc = 1 /\ oinc = 1 => CleanCallsRecover)
<1>1. RecoveryInv => (inc = 1 /\ oinc = 1 => CleanCallsRecover)
    BY DEF RecoveryInv, Proceeds, Reuses, CleanCallsRecover
<1> QED
    BY <1>1, RecoveryInvHolds, PTL

=============================================================================
