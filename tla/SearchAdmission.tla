--------------------------- MODULE SearchAdmission ---------------------------
(***************************************************************************)
(* SecureSearchAgent.execute_search with the interleavings of the worker's *)
(* handler threads.  Flask gives each request a thread, so a method that   *)
(* awaits nothing is still preempted between its statements: it tests the  *)
(* replay state of a session, or of the agent for signed artifacts, and    *)
(* records in it later, without a lock.  Every message here is authentic;  *)
(* copies of it may be delivered at any time.                              *)
(*                                                                         *)
(* Only AEAD envelopes come to handler threads: the route of the server    *)
(* refuses every other mode.  Signed artifacts come from in-process        *)
(* callers, which have one thread, so that one is handled alone.           *)
(***************************************************************************)
EXTENDS Integers, FiniteSets

CONSTANTS
    Handlers,    \* threads
    Envelopes,   \* AEAD messages to one session, named by their nonces
    Artifacts,   \* signed messages
    QueryOf,     \* the query id inside each message
    NONE

Messages == Envelopes \cup Artifacts
Queries == {QueryOf[m] : m \in Messages}

ASSUME MessagesAssumption ==
    /\ Envelopes \cap Artifacts = {} /\ NONE \notin Messages
    /\ DOMAIN QueryOf = Messages

VARIABLES
    live,      \* the session is in worker.sessions
    nonces,    \* processed_nonces of its record
    queries,   \* processed_query_ids of its record
    artifacts, \* worker.processed_artifact_ids
    pc,        \* the statement each thread executes next
    msg,       \* the message it handles
    answer,    \* its last answer
    known,     \* history: queries recorded when it received the message
    ran        \* history: how often each query ran, per replay set

vars == <<live, nonces, queries, artifacts, pc, msg, answer, known, ran>>

Kinds == {"session", "artifact"}
KindOf(m) == IF m \in Envelopes THEN "session" ELSE "artifact"

\* The replay set that execute_search selects for a message.
ReplaySet(m) == IF m \in Envelopes THEN queries ELSE artifacts

TypeOK ==
    /\ live \in BOOLEAN
    /\ nonces \subseteq Envelopes
    /\ queries \subseteq Queries /\ artifacts \subseteq Queries
    /\ pc \in [Handlers -> {"idle", "nonce", "open", "query", "record", "run"}]
    /\ msg \in [Handlers -> Messages \cup {NONE}]
    /\ answer \in [Handlers -> {"none", "unknown session", "authentication failed",
                                "replay detected", "results"}]
    /\ known \in [Handlers -> SUBSET Queries]
    /\ ran \in [Kinds \X Queries -> Nat]

Init ==
    /\ live = TRUE
    /\ nonces = {} /\ queries = {} /\ artifacts = {}
    /\ pc = [h \in Handlers |-> "idle"]
    /\ msg = [h \in Handlers |-> NONE]
    /\ answer = [h \in Handlers |-> "none"]
    /\ known = [h \in Handlers |-> {}]
    /\ ran = [e \in Kinds \X Queries |-> 0]

Goto(h, label) == pc' = [pc EXCEPT ![h] = label]

Reply(h, a) == Goto(h, "idle") /\ answer' = [answer EXCEPT ![h] = a]

Idle(h) == pc[h] = "idle"

Receive(h, m) ==
    /\ Idle(h)
    /\ \A g \in Handlers : ~Idle(g) => msg[g] \notin Artifacts
    /\ msg' = [msg EXCEPT ![h] = m]
    /\ known' = [known EXCEPT ![h] = ReplaySet(m)]

\* session_record = self.sessions.get(session_id).  The thread keeps the
\* record it got, even when the session is torn down meanwhile.
ReceiveEnvelope(h, m) ==
    /\ m \in Envelopes
    /\ Receive(h, m)
    /\ \/ live /\ Goto(h, "nonce") /\ answer' = [answer EXCEPT ![h] = "none"]
       \/ ~live /\ Reply(h, "unknown session")
    /\ UNCHANGED <<live, nonces, queries, artifacts, ran>>

ReceiveArtifact(h, m) ==
    /\ m \in Artifacts
    /\ \A g \in Handlers : Idle(g)
    /\ Receive(h, m)
    /\ Goto(h, "query")
    /\ answer' = [answer EXCEPT ![h] = "none"]
    /\ UNCHANGED <<live, nonces, queries, artifacts, ran>>

CheckNonce(h) ==
    /\ pc[h] = "nonce"
    /\ \/ msg[h] \in nonces /\ Reply(h, "authentication failed")
       \/ msg[h] \notin nonces /\ Goto(h, "open") /\ UNCHANGED answer
    /\ UNCHANGED <<live, nonces, queries, artifacts, msg, known, ran>>

\* Seeded fault: the query id is recorded among the nonces.
OpenMixed(h) ==
    /\ pc[h] = "open"
    /\ nonces' = nonces \cup {QueryOf[msg[h]]}
    /\ Goto(h, "query")
    /\ UNCHANGED <<live, queries, artifacts, msg, answer, known, ran>>

\* decrypt_payload succeeds; processed_nonces.add(nonce).
Open(h) ==
    /\ pc[h] = "open"
    /\ nonces' = nonces \cup {msg[h]}
    /\ Goto(h, "query")
    /\ UNCHANGED <<live, queries, artifacts, msg, answer, known, ran>>

\* Seeded fault: the copy is answered but the thread does not return.
CheckQueryFallingThrough(h) ==
    /\ pc[h] = "query"
    /\ Goto(h, "record")
    /\ UNCHANGED <<live, nonces, queries, artifacts, msg, answer, known, ran>>

CheckQuery(h) ==
    /\ pc[h] = "query"
    /\ \/ QueryOf[msg[h]] \in ReplaySet(msg[h]) /\ Reply(h, "replay detected")
       \/ QueryOf[msg[h]] \notin ReplaySet(msg[h]) /\ Goto(h, "record") /\ UNCHANGED answer
    /\ UNCHANGED <<live, nonces, queries, artifacts, msg, known, ran>>

\* Seeded fault: session and artifact queries share one replay set.
RecordInOneSet(h) ==
    /\ pc[h] = "record"
    /\ queries' = queries \cup {QueryOf[msg[h]]}
    /\ artifacts' = artifacts \cup {QueryOf[msg[h]]}
    /\ Goto(h, "run")
    /\ UNCHANGED <<live, nonces, msg, answer, known, ran>>

Record(h) ==
    /\ pc[h] = "record"
    /\ \/ /\ msg[h] \in Envelopes
          /\ queries' = queries \cup {QueryOf[msg[h]]}
          /\ UNCHANGED artifacts
       \/ /\ msg[h] \in Artifacts
          /\ artifacts' = artifacts \cup {QueryOf[msg[h]]}
          /\ UNCHANGED queries
    /\ Goto(h, "run")
    /\ UNCHANGED <<live, nonces, msg, answer, known, ran>>

Run(h) ==
    /\ pc[h] = "run"
    /\ ran' = [ran EXCEPT ![<<KindOf(msg[h]), QueryOf[msg[h]]>>] = @ + 1]
    /\ Reply(h, "results")
    /\ UNCHANGED <<live, nonces, queries, artifacts, msg, known>>

\* teardown_session pops the record; its id is never accepted again.
Teardown ==
    /\ live
    /\ live' = FALSE
    /\ UNCHANGED <<nonces, queries, artifacts, pc, msg, answer, known, ran>>

Step(h) == \/ \E m \in Messages : ReceiveEnvelope(h, m) \/ ReceiveArtifact(h, m)
           \/ CheckNonce(h) \/ Open(h) \/ CheckQuery(h) \/ Record(h) \/ Run(h)

Next == Teardown \/ \E h \in Handlers : Step(h)

Spec == Init /\ [][Next]_vars

-----------------------------------------------------------------------------
\* What the tests suggest and serial handling gives: a query runs at most once
\* in a session (and once as an artifact).  Two threads that handle copies of
\* an envelope, or two envelopes of one query, at the same time can both pass the
\* tests before either records.
RunsOnce == \A e \in Kinds \X Queries : ran[e] <= 1

\* What holds with any number of threads: a copy that arrives after the query
\* was recorded does not run it again.
LateCopiesRefused ==
    \A h \in Handlers : pc[h] \in {"record", "run"} => QueryOf[msg[h]] \notin known[h]

Refused(h) == answer[h] \in {"authentication failed", "replay detected"}

\* A message is turned away as a replay only in favour of a delivery that runs:
\* when all threads are idle, the query of every refused message has run.
RefusedMeansRan ==
    (\A h \in Handlers : pc[h] = "idle") =>
        \A h \in Handlers :
            Refused(h) => ran[<<KindOf(msg[h]), QueryOf[msg[h]]>>] > 0

-----------------------------------------------------------------------------
\* The inductive invariant behind LateCopiesRefused and RefusedMeansRan (proved
\* in SearchAdmissionProofs): a recorded query has run or is about to, and a
\* recorded nonce belongs to a query that has run or is still being handled.
Same(m1, m2) == KindOf(m1) = KindOf(m2) /\ QueryOf[m1] = QueryOf[m2]

HasRun(m) == ran[<<KindOf(m), QueryOf[m]>>] > 0

HandledAt(labels, m) ==
    \E h \in Handlers : pc[h] \in labels /\ msg[h] \in Messages /\ Same(msg[h], m)

WillRun(m) == HasRun(m) \/ HandledAt({"run"}, m)

Served(m) == HasRun(m) \/ HandledAt({"query", "record", "run"}, m)

Handled(h) ==
    /\ pc[h] # "idle" => msg[h] \in Messages
    /\ pc[h] \in {"nonce", "open"} => msg[h] \in Envelopes
    /\ answer[h] # "none" => msg[h] \in Messages
    /\ known[h] \subseteq ReplaySet(msg[h])
    /\ Refused(h) => Served(msg[h])

AdmissionInv ==
    /\ TypeOK
    /\ LateCopiesRefused
    /\ \A h \in Handlers : Handled(h)
    /\ \A m \in Messages : QueryOf[m] \in ReplaySet(m) => WillRun(m)
    /\ \A m \in nonces : Served(m)
=============================================================================
