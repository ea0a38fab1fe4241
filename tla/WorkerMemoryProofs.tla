------------------------- MODULE WorkerMemoryProofs -------------------------
(***************************************************************************)
(* Every handler of the worker preserves MemoryInv, for any sets of        *)
(* senders, keys, sessions, queries and nonces, and any assignment of KEM  *)
(* keys to sessions.  The lemmas speak of one request r and say of it only *)
(* what the handler reads, so that the proofs about WorkerServer and about *)
(* Delegation both rest on them.                                           *)
(***************************************************************************)
EXTENDS WorkerMemory, TLAPS

\* A fresh worker satisfies the invariant.
LEMMA MemoryInit ==
    ASSUME NEW kem, WorkerInit
    PROVE  MemoryInv(kem)
<1>1. WorkerTypeOK
    BY DEF WorkerInit, WorkerTypeOK
<1>2. Live = {}
    BY DEF WorkerInit, Live
<1>3. \A e \in SessionIds \X Queries : executions[e] = 0
    BY DEF WorkerInit
<1> QED
    BY <1>1, <1>2, <1>3
       DEF WorkerInit, MemoryInv, AcceptedFits, LiveAccepted, ClosedRemembered, ClosedForGood,
           ExecutionRemembered, OncePerSession, ListedQueriesRan, StoringAgrees,
           LiveSessionsPinned

\* A step that leaves the worker alone.
LEMMA MemoryStutter ==
    ASSUME NEW kem, MemoryInv(kem), UNCHANGED workerVars
    PROVE  MemoryInv(kem)'
    BY DEF workerVars, volatile, MemoryInv, WorkerTypeOK, AcceptedFits, LiveAccepted,
           ClosedRemembered, ClosedForGood, ExecutionRemembered, OncePerSession,
           ListedQueriesRan, StoringAgrees, Rivals, LiveSessionsPinned, Live, Stale

\* A handler other than that of registrations leaves them alone.
LEMMA StoringStays ==
    ASSUME StoringAgrees, UNCHANGED <<trusted, storing, raced>>
    PROVE  StoringAgrees'
    BY DEF StoringAgrees, Rivals

\* The fields of a live session.
LEMMA RecordFields ==
    ASSUME WorkerTypeOK, NEW s \in SessionIds, sessions[s] # NONE
    PROVE  /\ sessions[s] \in Record
           /\ sessions[s].sender \in Senders
           /\ sessions[s].signer \in Keys
           /\ sessions[s].keyed \in BOOLEAN
           /\ sessions[s].nonces \subseteq Envelopes
           /\ sessions[s].queries \subseteq Queries
    BY DEF WorkerTypeOK, Record

\* A registration that passes the comparison agrees with the pin, and with the other
\* registrations about to be stored or there is a race.
LEMMA TrustKeeps ==
    ASSUME NEW kem \in [SessionIds -> Nat], MemoryInv(kem),
           NEW r, r.sender \in Senders, r.key \in Keys, r.nonce \in Nonces, NEW reply,
           Trust(r, reply)
    PROVE  MemoryInv(kem)'
<1>0. WorkerTypeOK
    BY DEF MemoryInv
<1>1. CASE UNCHANGED workerVars
    BY <1>1, MemoryStutter
<1>2. CASE /\ bootNonces' = bootNonces \cup {r.nonce}
           /\ \/ UNCHANGED <<storing, raced>>
              \/ /\ trusted[r.sender] \in {NONE, r.key}
                 /\ storing' = storing \cup {r}
                 /\ raced' = raced \cup {x.sender : x \in Rivals(r)}
           /\ UNCHANGED <<inc, trusted, sessions, acceptedIds, executions, closed>>
  <2>1. WorkerTypeOK'
    <3>1. \A x \in Rivals(r) : x.sender \in Senders
        BY <1>0 DEF Rivals, WorkerTypeOK
    <3>2. raced' \subseteq Senders /\ bootNonces' \subseteq Nonces
        BY <1>0, <1>2, <3>1 DEF WorkerTypeOK
    <3>3. \A x \in storing' : x.sender \in Senders /\ x.key \in Keys
        BY <1>0, <1>2 DEF WorkerTypeOK
    <3> QED
        BY <1>0, <1>2, <3>2, <3>3 DEF WorkerTypeOK
  <2>2. StoringAgrees'
    <3> SUFFICES ASSUME NEW x \in storing', x.sender \notin raced'
                 PROVE  trusted[x.sender] \in {NONE, x.key} /\ Rivals(x)' = {}
        BY <1>2 DEF StoringAgrees
    <3>1. x.sender \notin raced
        BY <1>2
    <3>2. CASE UNCHANGED storing
        BY <1>2, <3>1, <3>2 DEF MemoryInv, StoringAgrees, Rivals
    <3>3. CASE storing' # storing
      <4>1. /\ trusted[r.sender] \in {NONE, r.key}
            /\ storing' = storing \cup {r}
            /\ raced' = raced \cup {y.sender : y \in Rivals(r)}
          BY <1>2, <3>3
      <4>2. ASSUME NEW y \in storing, y.sender = r.sender, y.key # r.key
            PROVE  y.sender \in raced'
          BY <4>1, <4>2 DEF Rivals
      <4>3. CASE x = r
          BY <4>1, <4>2, <4>3 DEF Rivals
      <4>4. CASE x \in storing
        <5>1. trusted[x.sender] \in {NONE, x.key} /\ Rivals(x) = {}
            BY <3>1, <4>4 DEF MemoryInv, StoringAgrees
        <5>2. ~ (r.sender = x.sender /\ r.key # x.key)
            BY <4>2, <4>4
        <5> QED
            BY <4>1, <5>1, <5>2 DEF Rivals
      <4> QED
          BY <4>1, <4>3, <4>4
    <3> QED
        BY <3>2, <3>3
  <2>3. raced \subseteq raced'
      BY <1>2
  <2> QED
      BY <1>2, <2>1, <2>2, <2>3
         DEF MemoryInv, AcceptedFits, LiveAccepted, ClosedRemembered, ClosedForGood,
             ExecutionRemembered, OncePerSession, ListedQueriesRan, LiveSessionsPinned, Live,
             Stale
<1> QED
    BY <1>1, <1>2 DEF Trust, Refuses

\* Without a race the key that is stored is the pin, or the sender has none and no
\* session.
LEMMA StoreKeeps ==
    ASSUME NEW kem \in [SessionIds -> Nat], MemoryInv(kem), NEW r, NEW reply,
           StorePin(r, reply)
    PROVE  MemoryInv(kem)'
<1>0. WorkerTypeOK
    BY DEF MemoryInv
<1>1. /\ r \in storing /\ r.sender \in Senders /\ r.key \in Keys
      /\ storing' = storing \ {r}
      /\ trusted' = [trusted EXCEPT ![r.sender] = r.key]
      /\ UNCHANGED <<inc, sessions, acceptedIds, bootNonces, raced, executions, closed>>
    BY <1>0 DEF StorePin, Pin, WorkerTypeOK
<1>2. WorkerTypeOK'
    BY <1>0, <1>1 DEF WorkerTypeOK
<1>3. \A x \in Senders \ {r.sender} : trusted'[x] = trusted[x]
    BY <1>0, <1>1 DEF WorkerTypeOK
<1>4. trusted'[r.sender] = r.key
    BY <1>0, <1>1 DEF WorkerTypeOK
<1>5. StoringAgrees'
  <2> SUFFICES ASSUME NEW x \in storing', x.sender \notin raced
               PROVE  trusted'[x.sender] \in {NONE, x.key} /\ Rivals(x)' = {}
      BY <1>1 DEF StoringAgrees
  <2>1. /\ x \in storing /\ x.sender \in Senders
        /\ trusted[x.sender] \in {NONE, x.key} /\ Rivals(x) = {}
      BY <1>0, <1>1 DEF MemoryInv, StoringAgrees, WorkerTypeOK
  <2>2. r.sender = x.sender => r.key = x.key
      BY <1>1, <2>1 DEF Rivals
  <2>3. Rivals(x)' = {}
      BY <1>1, <2>1 DEF Rivals
  <2> QED
      BY <1>3, <1>4, <2>1, <2>2, <2>3
<1>6. LiveSessionsPinned'
  <2> SUFFICES ASSUME NEW s \in Live, sessions[s].sender \notin raced
               PROVE  sessions[s].signer = trusted'[sessions[s].sender]
      BY <1>1 DEF LiveSessionsPinned, Live
  <2>1. sessions[s].signer = trusted[sessions[s].sender]
      BY DEF MemoryInv, LiveSessionsPinned
  <2>2. sessions[s].sender \in Senders /\ sessions[s].signer \in Keys
      BY <1>0, RecordFields DEF Live
  <2>3. CASE sessions[s].sender = r.sender
    <3>1. trusted[r.sender] \in {NONE, r.key}
        BY <1>1, <2>3 DEF MemoryInv, StoringAgrees
    <3> QED
        BY <1>4, <2>1, <2>2, <2>3, <3>1, AbsenceAssumption
  <2> QED
      BY <1>3, <2>1, <2>2, <2>3
<1> QED
    BY <1>1, <1>2, <1>5, <1>6
       DEF MemoryInv, AcceptedFits, LiveAccepted, ClosedRemembered, ClosedForGood,
           ExecutionRemembered, OncePerSession, ListedQueriesRan, Live, Stale

\* A new session's id was never accepted by this incarnation, so whatever is
\* remembered about it is older than the incarnation's KEM key.
LEMMA SessionKeeps ==
    ASSUME NEW kem \in [SessionIds -> Nat], MemoryInv(kem),
           NEW r, r.sender \in Senders, r.signer \in Keys, r.sid \in SessionIds,
           r.kem = kem[r.sid], kem[r.sid] <= inc, NEW reply,
           AcceptSession(r, reply)
    PROVE  MemoryInv(kem)'
<1>0. WorkerTypeOK /\ r.sender \in Senders /\ kem[r.sid] \in Nat /\ inc \in Nat
    BY DEF MemoryInv, WorkerTypeOK
<1>1. CASE UNCHANGED workerVars
    BY <1>1, MemoryStutter
<1>2. CASE ~ UNCHANGED workerVars
  <2> DEFINE new == [sender |-> r.sender, signer |-> r.signer, keyed |-> kem[r.sid] = inc,
                     nonces |-> {}, queries |-> {}]
  <2>1. /\ trusted[r.sender] = r.signer
        /\ r.sid \notin acceptedIds
        /\ acceptedIds' = acceptedIds \cup {r.sid}
        /\ sessions' = [sessions EXCEPT ![r.sid] = new]
        /\ UNCHANGED <<inc, trusted, bootNonces, storing, raced, executions, closed>>
      BY <1>2 DEF AcceptSession, SignedByTrusted, Accepts, NewRecord
  <2>2. new \in Record /\ new # NONE
    <3>1. (kem[r.sid] = inc) \in BOOLEAN
        OBVIOUS
    <3>2. new \in Record
        BY <1>0, <3>1, Zenon DEF Record
    <3> QED
        BY <3>2, AbsenceAssumption
  <2>2a. /\ new.keyed => kem[r.sid] = inc
        /\ new.sender = r.sender /\ new.signer = r.signer /\ new.queries = {}
    <3>1. new.keyed = (kem[r.sid] = inc)
        BY Zenon
    <3> QED
        BY <3>1, Zenon
  <2> HIDE DEF new
  <2>3. WorkerTypeOK'
      BY <1>0, <2>1, <2>2 DEF WorkerTypeOK
  <2>4. /\ sessions'[r.sid] = new
        /\ \A t \in SessionIds \ {r.sid} : sessions'[t] = sessions[t]
        /\ Live' = Live \cup {r.sid}
      BY <1>0, <2>1, <2>2 DEF WorkerTypeOK, Live
  <2>5. AcceptedFits(kem)' /\ ClosedRemembered(kem)'
      BY <1>0, <2>1 DEF MemoryInv, AcceptedFits, ClosedRemembered, Stale
  <2>6. LiveAccepted(kem)'
      BY <1>0, <2>1, <2>4, <2>2a DEF MemoryInv, LiveAccepted, Live
  <2>7. r.sid \in closed => Stale(kem, r.sid)
      BY <2>1 DEF MemoryInv, ClosedRemembered
  <2>8. ClosedForGood'
    <3> SUFFICES ASSUME NEW t \in closed, sessions'[t] # NONE
                 PROVE  ~ sessions'[t].keyed
        BY <2>1 DEF ClosedForGood
    <3>1. t \in SessionIds
        BY <1>0 DEF WorkerTypeOK
    <3>2. CASE t = r.sid
        BY <1>0, <2>4, <2>7, <2>2a, <3>2 DEF Stale
    <3>3. CASE t # r.sid
        BY <2>4, <3>1, <3>3 DEF MemoryInv, ClosedForGood
    <3> QED
        BY <3>2, <3>3
  <2>9. ExecutionRemembered(kem)'
      BY <2>1, <2>4 DEF MemoryInv, ExecutionRemembered, Stale
  <2>10. LiveSessionsPinned'
      BY <2>1, <2>4, <2>2a DEF MemoryInv, LiveSessionsPinned, Live
  <2>11. ListedQueriesRan'
      BY <2>1, <2>4, <2>2a DEF MemoryInv, ListedQueriesRan, Live
  <2>12. StoringAgrees'
      BY <2>1, StoringStays DEF MemoryInv
  <2> QED
      BY <2>1, <2>3, <2>5, <2>6, <2>8, <2>9, <2>10, <2>11, <2>12 DEF MemoryInv, OncePerSession
<1> QED
    BY <1>1, <1>2

\* A query runs only in a usable session, hence in the incarnation its key was
\* made for, and only when the live record does not list it.
LEMMA ExecuteKeeps ==
    ASSUME NEW kem \in [SessionIds -> Nat], MemoryInv(kem),
           NEW r, r.sid \in SessionIds, r.query \in Queries, r.nonce \in Envelopes, NEW reply,
           Execute(r, reply)
    PROVE  MemoryInv(kem)'
<1>0. WorkerTypeOK /\ inc \in Nat /\ kem[r.sid] \in Nat
    BY DEF MemoryInv, WorkerTypeOK
<1>1. CASE UNCHANGED workerVars
    BY <1>1, MemoryStutter
<1>2. CASE ~ UNCHANGED workerVars
  <2> DEFINE old == sessions[r.sid]
  <2> DEFINE new(Q) == [old EXCEPT !.nonces = old.nonces \cup {r.nonce}, !.queries = Q]
  <2>1. /\ old # NONE /\ old.keyed
        /\ UNCHANGED <<inc, trusted, acceptedIds, bootNonces, storing, raced, closed>>
        /\ \/ /\ r.query \in old.queries
              /\ sessions' = [sessions EXCEPT ![r.sid].nonces = @ \cup {r.nonce}]
              /\ UNCHANGED executions
           \/ /\ r.query \notin old.queries
              /\ sessions' = [sessions EXCEPT ![r.sid].nonces = @ \cup {r.nonce},
                                              ![r.sid].queries = @ \cup {r.query}]
              /\ executions' = [executions EXCEPT ![<<r.sid, r.query>>] = @ + 1]
      BY <1>2 DEF Execute, Opens
  <2>2. old \in Record
      BY <1>0, <2>1, RecordFields
  <2>3. /\ sessions'[r.sid] \in Record
        /\ sessions'[r.sid] # NONE
        /\ sessions'[r.sid].sender = old.sender /\ sessions'[r.sid].signer = old.signer
        /\ sessions'[r.sid].keyed = old.keyed
        /\ sessions'[r.sid].queries = old.queries \cup {r.query}
        /\ \A t \in SessionIds \ {r.sid} : sessions'[t] = sessions[t]
        /\ sessions' \in [SessionIds -> Record \cup {NONE}]
    <3>1. CASE r.query \in old.queries
      <4>1. sessions' = [sessions EXCEPT ![r.sid] = [old EXCEPT !.nonces = old.nonces \cup {r.nonce}]]
          BY <2>1, <3>1
      <4>2. [old EXCEPT !.nonces = old.nonces \cup {r.nonce}] \in Record
          BY <2>2 DEF Record
      <4> QED
          BY <1>0, <2>2, <3>1, <4>1, <4>2, AbsenceAssumption DEF WorkerTypeOK, Record
    <3>2. CASE r.query \notin old.queries
      <4>1. sessions' = [sessions EXCEPT ![r.sid] = new(old.queries \cup {r.query})]
          BY <1>0, <2>1, <2>2, <3>2 DEF WorkerTypeOK, Record
      <4>2. new(old.queries \cup {r.query}) \in Record
          BY <2>2 DEF Record
      <4> QED
          BY <1>0, <2>2, <4>1, <4>2, AbsenceAssumption DEF WorkerTypeOK, Record
    <3> QED
        BY <3>1, <3>2
  <2>4. Live' = Live
      BY <2>1, <2>3 DEF Live
  <2>5. r.sid \in acceptedIds /\ ~ Stale(kem, r.sid)
      BY <1>0, <2>1 DEF MemoryInv, LiveAccepted, Live, Stale
  <2>6. executions' \in [SessionIds \X Queries -> Nat]
      BY <1>0, <2>1 DEF WorkerTypeOK
  <2>7. WorkerTypeOK'
      BY <1>0, <2>1, <2>3, <2>6 DEF WorkerTypeOK
  <2>8. AcceptedFits(kem)' /\ ClosedRemembered(kem)'
      BY <2>1 DEF MemoryInv, AcceptedFits, ClosedRemembered, Stale
  <2>9. LiveAccepted(kem)'
      BY <2>1, <2>3, <2>4 DEF MemoryInv, LiveAccepted, Live
  <2>10. ClosedForGood'
    <3> SUFFICES ASSUME NEW t \in closed, sessions'[t] # NONE
                 PROVE  ~ sessions'[t].keyed
        BY <2>1 DEF ClosedForGood
    <3>1. t \in SessionIds /\ (sessions[t] # NONE => ~ sessions[t].keyed)
        BY <1>0 DEF MemoryInv, ClosedForGood, WorkerTypeOK
    <3> QED
        BY <2>1, <2>3, <3>1
  <2>11. LiveSessionsPinned'
      BY <2>1, <2>3, <2>4 DEF MemoryInv, LiveSessionsPinned, Live
  <2>12. ExecutionRemembered(kem)'
    <3> SUFFICES ASSUME NEW t \in SessionIds, NEW p \in Queries,
                        executions'[<<t, p>>] > 0, ~ Stale(kem, t)
                 PROVE  t \in acceptedIds /\ (t \in Live => p \in sessions'[t].queries)
        BY <2>1, <2>4 DEF ExecutionRemembered, Stale
    <3>1. CASE t = r.sid /\ p = r.query
        BY <2>3, <2>5, <3>1
    <3>2. CASE ~ (t = r.sid /\ p = r.query)
      <4>1. executions'[<<t, p>>] = executions[<<t, p>>]
          BY <1>0, <2>1, <3>2 DEF WorkerTypeOK
      <4>2. t \in acceptedIds /\ (t \in Live => p \in sessions[t].queries)
          BY <4>1 DEF MemoryInv, ExecutionRemembered
      <4> QED
          BY <2>3, <4>2
    <3> QED
        BY <3>1, <3>2
  <2>13. OncePerSession'
    <3> SUFFICES ASSUME NEW e \in SessionIds \X Queries PROVE executions'[e] <= 1
        BY DEF OncePerSession
    <3>1. executions[e] \in Nat /\ executions[e] <= 1
        BY <1>0 DEF MemoryInv, OncePerSession, WorkerTypeOK
    <3>2. CASE r.query \notin old.queries /\ e = <<r.sid, r.query>>
      <4>1. ~ (executions[<<r.sid, r.query>>] > 0)
          BY <2>1, <2>5, <3>2 DEF MemoryInv, ExecutionRemembered, Live
      <4> QED
          BY <1>0, <2>1, <3>1, <3>2, <4>1 DEF WorkerTypeOK
    <3>3. CASE ~ (r.query \notin old.queries /\ e = <<r.sid, r.query>>)
        BY <1>0, <2>1, <3>1, <3>3 DEF WorkerTypeOK
    <3> QED
        BY <3>2, <3>3
  <2>14. ListedQueriesRan'
    <3> SUFFICES ASSUME NEW t \in Live, NEW p \in sessions'[t].queries
                 PROVE  executions'[<<t, p>>] > 0
        BY <2>4 DEF ListedQueriesRan
    <3>1. t \in SessionIds /\ p \in Queries
        BY <1>0, <2>2, <2>3, RecordFields DEF Live
    <3>2. CASE r.query \notin old.queries /\ t = r.sid /\ p = r.query
        BY <1>0, <2>1, <3>1, <3>2 DEF WorkerTypeOK
    <3>3. CASE ~ (r.query \notin old.queries /\ t = r.sid /\ p = r.query)
      <4>1. p \in sessions[t].queries
          BY <2>3, <3>1, <3>3
      <4>2. executions[<<t, p>>] > 0
          BY <4>1 DEF MemoryInv, ListedQueriesRan
      <4> QED
          BY <1>0, <2>1, <3>1, <3>3, <4>2 DEF WorkerTypeOK
    <3> QED
        BY <3>2, <3>3
  <2>15. StoringAgrees'
      BY <2>1, StoringStays DEF MemoryInv
  <2> QED
      BY <2>7, <2>8, <2>9, <2>10, <2>11, <2>12, <2>13, <2>14, <2>15 DEF MemoryInv
<1> QED
    BY <1>1, <1>2

\* A torn-down session leaves its id among the accepted ones.
LEMMA TeardownKeeps ==
    ASSUME NEW kem \in [SessionIds -> Nat], MemoryInv(kem),
           NEW r, r.sid \in SessionIds, r.nonce \in Nonces, NEW reply,
           Teardown(r, reply)
    PROVE  MemoryInv(kem)'
<1>0. WorkerTypeOK
    BY DEF MemoryInv
<1>1. CASE UNCHANGED workerVars
    BY <1>1, MemoryStutter
<1>2. CASE ~ UNCHANGED workerVars
  <2>1. /\ bootNonces' = bootNonces \cup {r.nonce}
        /\ sessions' = [sessions EXCEPT ![r.sid] = NONE]
        /\ closed' = closed \cup (Live \cap {r.sid})
        /\ UNCHANGED <<inc, trusted, acceptedIds, storing, raced, executions>>
      BY <1>2 DEF Teardown
  <2>2. WorkerTypeOK'
      BY <1>0, <2>1 DEF WorkerTypeOK
  <2>3. /\ sessions'[r.sid] = NONE
        /\ \A t \in SessionIds \ {r.sid} : sessions'[t] = sessions[t]
        /\ Live' = Live \ {r.sid}
      BY <1>0, <2>1 DEF WorkerTypeOK, Live
  <2>4. /\ AcceptedFits(kem)' /\ LiveAccepted(kem)'
        /\ LiveSessionsPinned' /\ ListedQueriesRan' /\ OncePerSession'
      BY <2>1, <2>3
         DEF MemoryInv, AcceptedFits, LiveAccepted, LiveSessionsPinned, ListedQueriesRan,
             OncePerSession, Live
  <2>5. ExecutionRemembered(kem)'
      BY <2>1, <2>3 DEF MemoryInv, ExecutionRemembered, Live, Stale
  <2>6. ClosedRemembered(kem)'
      BY <2>1 DEF MemoryInv, ClosedRemembered, LiveAccepted, Stale
  <2>7. ClosedForGood'
    <3> SUFFICES ASSUME NEW t \in closed', sessions'[t] # NONE
                 PROVE  ~ sessions'[t].keyed
        BY DEF ClosedForGood
    <3>1. t \in SessionIds /\ t # r.sid /\ t \in closed
        BY <1>0, <2>1, <2>3 DEF WorkerTypeOK
    <3> QED
        BY <2>3, <3>1 DEF MemoryInv, ClosedForGood
  <2>8. StoringAgrees'
      BY <2>1, StoringStays DEF MemoryInv
  <2> QED
      BY <2>2, <2>4, <2>5, <2>6, <2>7, <2>8 DEF MemoryInv
<1> QED
    BY <1>1, <1>2

\* After a restart everything that was remembered is stale.
LEMMA RestartKeeps ==
    ASSUME NEW kem \in [SessionIds -> Nat], MemoryInv(kem), WorkerRestart
    PROVE  MemoryInv(kem)'
<1>0. WorkerTypeOK /\ inc \in Nat /\ \A s \in SessionIds : kem[s] \in Nat
    BY DEF MemoryInv, WorkerTypeOK
<1>1. /\ inc' = inc + 1
      /\ trusted' = [x \in Senders |-> NONE]
      /\ sessions' = [s \in SessionIds |-> NONE]
      /\ acceptedIds' = {} /\ bootNonces' = {}
      /\ storing' = {} /\ raced' = {}
      /\ closed' = closed \cup Live
      /\ UNCHANGED executions
    BY DEF WorkerRestart, FreshProcess
<1>2. Live' = {}
    BY <1>1 DEF Live
<1>3. WorkerTypeOK'
    BY <1>0, <1>1 DEF WorkerTypeOK, Live
<1>4. \A s \in SessionIds : s \in acceptedIds \/ Stale(kem, s) => Stale(kem, s)'
    BY <1>0, <1>1 DEF MemoryInv, AcceptedFits, Stale
<1>5. ClosedRemembered(kem)'
    BY <1>0, <1>1, <1>4
       DEF MemoryInv, ClosedRemembered, LiveAccepted, WorkerTypeOK, Live
<1>6. ExecutionRemembered(kem)'
    BY <1>1, <1>4 DEF MemoryInv, ExecutionRemembered
<1>7. ClosedForGood'
    BY <1>1, <1>3 DEF ClosedForGood, WorkerTypeOK
<1> QED
    BY <1>1, <1>2, <1>3, <1>5, <1>6, <1>7
       DEF MemoryInv, AcceptedFits, LiveAccepted, OncePerSession, ListedQueriesRan,
           StoringAgrees, LiveSessionsPinned

\* The invariant constrains the KEM keys of the sessions the worker knows only.
LEMMA MemoryOfKnown ==
    ASSUME NEW kem, NEW kem2, MemoryInv(kem),
           \A s \in KnownIds : kem2[s] = kem[s]
    PROVE  MemoryInv(kem2)
<1>1. Live \subseteq acceptedIds
    BY DEF MemoryInv, LiveAccepted
<1>2. AcceptedFits(kem2)
    BY DEF MemoryInv, AcceptedFits, KnownIds
<1>3. LiveAccepted(kem2)
    BY <1>1 DEF MemoryInv, LiveAccepted, KnownIds
<1>4. ClosedRemembered(kem2)
    BY DEF MemoryInv, ClosedRemembered, Stale, KnownIds
<1>5. ExecutionRemembered(kem2)
    BY DEF MemoryInv, ExecutionRemembered, Stale, KnownIds
<1> QED
    BY <1>2, <1>3, <1>4, <1>5 DEF MemoryInv

\* Only a session establishment makes an id known.
LEMMA KnownStays ==
    ASSUME NEW kem, MemoryInv(kem), NEW r, NEW reply,
           \/ Trust(r, reply) \/ StorePin(r, reply)
           \/ r.sid \in SessionIds /\ r.query \in Queries /\ Execute(r, reply)
           \/ Teardown(r, reply)
           \/ WorkerRestart
    PROVE  KnownIds' \subseteq KnownIds
<1>0. WorkerTypeOK /\ Live \subseteq acceptedIds
    BY DEF MemoryInv, LiveAccepted
<1>1. CASE Trust(r, reply) \/ StorePin(r, reply)
    BY <1>1 DEF Trust, StorePin, workerVars, volatile, KnownIds
<1>2. CASE r.sid \in SessionIds /\ r.query \in Queries /\ Execute(r, reply)
  <2>1. CASE UNCHANGED executions
      BY <1>2, <2>1 DEF Execute, workerVars, volatile, KnownIds
  <2>2. CASE ~ UNCHANGED executions
    <3>1. /\ r.sid \in Live
          /\ executions' = [executions EXCEPT ![<<r.sid, r.query>>] = @ + 1]
          /\ UNCHANGED <<acceptedIds, closed>>
        BY <1>2, <2>2 DEF Execute, workerVars, Live
    <3>2. \A s \in SessionIds \ {r.sid}, q \in Queries :
             executions'[<<s, q>>] = executions[<<s, q>>]
        BY <1>0, <1>2, <3>1 DEF WorkerTypeOK
    <3> QED
        BY <1>0, <3>1, <3>2 DEF KnownIds
  <2> QED
      BY <2>1, <2>2
<1>3. CASE Teardown(r, reply)
    BY <1>0, <1>3 DEF Teardown, workerVars, volatile, KnownIds
<1>4. CASE WorkerRestart
    BY <1>0, <1>4 DEF WorkerRestart, FreshProcess, KnownIds
<1> QED
    BY <1>1, <1>2, <1>3, <1>4

LEMMA KnownGrows ==
    ASSUME NEW r, NEW reply, AcceptSession(r, reply)
    PROVE  KnownIds' \subseteq KnownIds \cup {r.sid}
    BY DEF AcceptSession, workerVars, volatile, KnownIds

\* What an execute request does to the history: its own query runs or nothing
\* does, and an answer that names the query means that it has run.
LEMMA ExecuteRuns ==
    ASSUME NEW kem, MemoryInv(kem), NEW r, NEW reply,
           r.sid \in SessionIds, r.query \in Queries, Execute(r, reply)
    PROVE  /\ \A s \in SessionIds, q \in Queries :
                  s # r.sid \/ q # r.query => executions'[<<s, q>>] = executions[<<s, q>>]
           /\ executions[<<r.sid, r.query>>] <= executions'[<<r.sid, r.query>>]
           /\ reply \in {"results", "replay detected"} =>
                  executions'[<<r.sid, r.query>>] > 0
<1>0. /\ WorkerTypeOK
      /\ <<r.sid, r.query>> \in SessionIds \X Queries
      /\ executions[<<r.sid, r.query>>] \in Nat
    BY DEF MemoryInv, WorkerTypeOK
<1>1. \/ UNCHANGED executions
      \/ executions' = [executions EXCEPT ![<<r.sid, r.query>>] = @ + 1]
    BY DEF Execute, workerVars
<1>2. executions[<<r.sid, r.query>>] <= executions'[<<r.sid, r.query>>]
    BY <1>0, <1>1 DEF WorkerTypeOK
<1>3. ASSUME NEW s \in SessionIds, NEW q \in Queries, s # r.sid \/ q # r.query
      PROVE  executions'[<<s, q>>] = executions[<<s, q>>]
    BY <1>0, <1>1, <1>3 DEF WorkerTypeOK
<1>4. ASSUME reply \in {"results", "replay detected"}
      PROVE  executions'[<<r.sid, r.query>>] > 0
  <2>1. \/ /\ UNCHANGED executions
           /\ r.sid \in Live /\ r.query \in sessions[r.sid].queries
        \/ executions' = [executions EXCEPT ![<<r.sid, r.query>>] = @ + 1]
      BY <1>4 DEF Execute, Live
  <2>2. \/ UNCHANGED executions /\ executions[<<r.sid, r.query>>] > 0
        \/ executions' = [executions EXCEPT ![<<r.sid, r.query>>] = @ + 1]
      BY <2>1 DEF MemoryInv, ListedQueriesRan
  <2> QED
      BY <1>0, <2>2 DEF WorkerTypeOK
<1> QED
    BY <1>2, <1>3, <1>4
=============================================================================
