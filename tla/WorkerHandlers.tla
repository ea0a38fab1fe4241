--------------------------- MODULE WorkerHandlers ---------------------------
(***************************************************************************)
(* The state of one worker process (worker_server.py and the               *)
(* SecureSearchAgent it serves) and its request handlers.  A handler is an *)
(* operator Handler(r, reply): the step that serves request r and answers  *)
(* reply.  A registration takes two steps, Trust and StorePin, because it  *)
(* compares the key and stores it in separate statements without a lock.   *)
(*                                                                         *)
(* Every other handler is one step.  Execute is one although the code      *)
(* tests the replay state and records in it later, without a lock: what is *)
(* shown here of executions supposes that the worker does not handle two   *)
(* copies of a request at the same time.  SearchAdmission opens            *)
(* execute_search and shows what is left when it does.                     *)
(*                                                                         *)
(* Cryptography is abstracted to what it decides: a proof of the bootstrap *)
(* secret is r.proof, a signature is the key r.signer that made it, an     *)
(* encapsulation r.kem names the worker incarnation whose KEM key it was   *)
(* made for (any other one decapsulates to an unrelated secret), and       *)
(* r.sealed says that the envelope was sealed with the sender's copy of    *)
(* the session key and well-formed metadata.                               *)
(***************************************************************************)
EXTENDS AcceptOnce

CONSTANTS
    Senders,      \* orchestrator agent ids
    Keys,         \* their signature public keys
    SessionIds,   \* session transcript hashes
    Queries,      \* query ids
    Envelopes,    \* AES-GCM message nonces
    Nonces,       \* bootstrap nonces
    MaxNonces,    \* size of BOOTSTRAP_NONCES
    MaxSessions,  \* size of accepted_session_ids
    NONE

ASSUME SizesAssumption == MaxNonces \in Nat \ {0} /\ MaxSessions \in Nat \ {0}

VARIABLES
    inc,          \* the process's incarnation: its keys are fresh at each start
    trusted,      \* worker.trusted_orchestrators
    sessions,     \* worker.sessions: a record, or NONE
    acceptedIds,  \* worker.accepted_session_ids
    bootNonces,   \* BOOTSTRAP_NONCES
    storing,      \* registrations that were compared and are not stored yet
    raced,        \* history: senders with two keys among them at some time
    executions,   \* history: how often each query ran in each session
    closed        \* history: sessions that were live and no longer are

volatile == <<trusted, sessions, acceptedIds, bootNonces, storing, raced>>
workerVars == <<inc, volatile, executions, closed>>

\* A session record: "keyed" says that the worker derived the same key as the
\* orchestrator, "signer" (history) is the key that signed the establishment.
Record == [sender : Senders, signer : Keys, keyed : BOOLEAN,
           nonces : SUBSET Envelopes, queries : SUBSET Queries]

ASSUME AbsenceAssumption == NONE \notin Keys /\ NONE \notin Record

WorkerTypeOK ==
    /\ inc \in Nat
    /\ trusted \in [Senders -> Keys \cup {NONE}]
    /\ sessions \in [SessionIds -> Record \cup {NONE}]
    /\ acceptedIds \subseteq SessionIds
    /\ bootNonces \subseteq Nonces
    /\ \A r \in storing : r.sender \in Senders /\ r.key \in Keys
    /\ raced \subseteq Senders
    /\ executions \in [SessionIds \X Queries -> Nat]
    /\ closed \subseteq SessionIds

FreshProcess == /\ trusted' = [x \in Senders |-> NONE]
                /\ sessions' = [s \in SessionIds |-> NONE]
                /\ acceptedIds' = {}
                /\ bootNonces' = {}
                /\ storing' = {} /\ raced' = {}

WorkerInit == /\ inc = 1
              /\ trusted = [x \in Senders |-> NONE]
              /\ sessions = [s \in SessionIds |-> NONE]
              /\ acceptedIds = {}
              /\ bootNonces = {}
              /\ storing = {} /\ raced = {}
              /\ executions = [e \in SessionIds \X Queries |-> 0]
              /\ closed = {}

Live == {s \in SessionIds : sessions[s] # NONE}

-----------------------------------------------------------------------------
\* POST /trust/orchestrator, r = [sender, key, nonce, proof].

\* Seeded fault: the pin is overwritten by the latest registration.
RefusesNothing(sender, key) == FALSE

Refuses(sender, key) == trusted[sender] \notin {NONE, key}

\* Seeded fault: the arguments of the pin are swapped.
PinSwapped(r) == trusted' = [trusted EXCEPT ![r.sender] = r.sender]

Pin(r) == trusted' = [trusted EXCEPT ![r.sender] = r.key]

Rivals(r) == {x \in storing : x.sender = r.sender /\ x.key # r.key}

\* An authentic request uses its nonce up even when the pin then refuses it.
\* One that passes the comparison has no reply yet.
Trust(r, reply) ==
    IF r.proof /\ Accepts(bootNonces, MaxNonces, r.nonce)
    THEN /\ bootNonces' = bootNonces \cup {r.nonce}
         /\ \/ /\ Refuses(r.sender, r.key)
               /\ reply = "400"
               /\ UNCHANGED <<storing, raced>>
            \/ /\ ~Refuses(r.sender, r.key)
               /\ reply = NONE
               /\ storing' = storing \cup {r}
               /\ raced' = raced \cup {x.sender : x \in Rivals(r)}
         /\ UNCHANGED <<inc, trusted, sessions, acceptedIds, executions, closed>>
    ELSE reply = "401" /\ UNCHANGED workerVars

\* The key is stored, whatever was pinned since it was compared.
StorePin(r, reply) ==
    /\ r \in storing
    /\ reply = "200"
    /\ storing' = storing \ {r}
    /\ Pin(r)
    /\ UNCHANGED <<inc, sessions, acceptedIds, bootNonces, raced, executions, closed>>

-----------------------------------------------------------------------------
\* POST /session, r = [sender, signer, sid, kem].

SignedByTrusted(r) == trusted[r.sender] # NONE /\ r.signer = trusted[r.sender]

\* Seeded fault: the KEM key survives a restart, so that an old encapsulation
\* still decapsulates.
NewRecordOldKey(r) == [sender |-> r.sender, signer |-> r.signer, keyed |-> TRUE,
                       nonces |-> {}, queries |-> {}]

NewRecord(r) == [sender |-> r.sender, signer |-> r.signer, keyed |-> r.kem = inc,
                 nonces |-> {}, queries |-> {}]

\* Seeded fault: an establishment is accepted again, with empty replay state.
AcceptSessionAgain(r, reply) ==
    IF SignedByTrusted(r)
    THEN /\ reply = "200"
         /\ acceptedIds' = acceptedIds \cup {r.sid}
         /\ sessions' = [sessions EXCEPT ![r.sid] = NewRecord(r)]
         /\ UNCHANGED <<inc, trusted, bootNonces, storing, raced, executions, closed>>
    ELSE reply = "400" /\ UNCHANGED workerVars

AcceptSession(r, reply) ==
    IF SignedByTrusted(r) /\ Accepts(acceptedIds, MaxSessions, r.sid)
    THEN /\ reply = "200"
         /\ acceptedIds' = acceptedIds \cup {r.sid}
         /\ sessions' = [sessions EXCEPT ![r.sid] = NewRecord(r)]
         /\ UNCHANGED <<inc, trusted, bootNonces, storing, raced, executions, closed>>
    ELSE reply = "400" /\ UNCHANGED workerVars

-----------------------------------------------------------------------------
\* POST /execute_search, r = [sid, nonce, query, sealed].

Opens(r) == /\ r.nonce \notin sessions[r.sid].nonces
            /\ r.sealed /\ sessions[r.sid].keyed

Execute(r, reply) ==
    \/ /\ sessions[r.sid] = NONE
       /\ reply = "unknown session"
       /\ UNCHANGED workerVars
    \/ /\ sessions[r.sid] # NONE
       /\ ~Opens(r)
       /\ reply = "authentication failed"
       /\ UNCHANGED workerVars
    \/ /\ sessions[r.sid] # NONE
       /\ Opens(r)
       /\ r.query \in sessions[r.sid].queries
       /\ reply = "replay detected"
       /\ sessions' = [sessions EXCEPT ![r.sid].nonces = @ \cup {r.nonce}]
       /\ UNCHANGED <<inc, trusted, acceptedIds, bootNonces, storing, raced,
                      executions, closed>>
    \/ /\ sessions[r.sid] # NONE
       /\ Opens(r)
       /\ r.query \notin sessions[r.sid].queries
       /\ reply = "results"
       /\ sessions' = [sessions EXCEPT ![r.sid].nonces = @ \cup {r.nonce},
                                       ![r.sid].queries = @ \cup {r.query}]
       /\ executions' = [executions EXCEPT ![<<r.sid, r.query>>] = @ + 1]
       /\ UNCHANGED <<inc, trusted, acceptedIds, bootNonces, storing, raced, closed>>

-----------------------------------------------------------------------------
\* POST /session/teardown, r = [sender, sid, nonce, proof].

MayTearDown(r) ==
    /\ trusted[r.sender] # NONE
    /\ sessions[r.sid] # NONE => sessions[r.sid].sender = r.sender
    /\ r.proof
    /\ Accepts(bootNonces, MaxNonces, r.nonce)

\* Seeded fault: teardown also releases the session id for reuse.
TeardownReleasing(r, reply) ==
    IF MayTearDown(r)
    THEN /\ reply = "200"
         /\ bootNonces' = bootNonces \cup {r.nonce}
         /\ sessions' = [sessions EXCEPT ![r.sid] = NONE]
         /\ acceptedIds' = acceptedIds \ {r.sid}
         /\ closed' = closed \cup (Live \cap {r.sid})
         /\ UNCHANGED <<inc, trusted, storing, raced, executions>>
    ELSE reply = "401" /\ UNCHANGED workerVars

\* "torn_down" and "already_absent" are both answered with 200; the session id
\* stays in accepted_session_ids.
Teardown(r, reply) ==
    IF MayTearDown(r)
    THEN /\ reply = "200"
         /\ bootNonces' = bootNonces \cup {r.nonce}
         /\ sessions' = [sessions EXCEPT ![r.sid] = NONE]
         /\ closed' = closed \cup (Live \cap {r.sid})
         /\ UNCHANGED <<inc, trusted, acceptedIds, storing, raced, executions>>
    ELSE reply = "401" /\ UNCHANGED workerVars

-----------------------------------------------------------------------------
\* Nothing of the worker is persisted: a restarted process has new keys and
\* empty caches.
WorkerRestart ==
    /\ inc' = inc + 1
    /\ FreshProcess
    /\ closed' = closed \cup Live
    /\ UNCHANGED executions
=============================================================================
