----------------------------- MODULE Delegation -----------------------------
(***************************************************************************)
(* orchestrator_server.py delegating client calls to one worker over HTTP, *)
(* composed with the handlers of WorkerHandlers.                           *)
(*                                                                         *)
(* Each call of POST /delegate_search runs in a thread of its own and all  *)
(* share orchestrator.sessions, the agent registry and the audit log       *)
(* without a lock.  A remote exchange is three steps (post, serve, reply), *)
(* and four for a registration, whose handler compares before it stores: a *)
(* posted request may be served late, after its caller timed out, or never;*)
(* a request may be delivered again at any time; and both processes may    *)
(* restart.                                                                *)
(*                                                                         *)
(* A call c generates at most one session and one query, with fresh random *)
(* identifiers and envelope nonce, so c also names its session id, query   *)
(* id and envelope nonce; <<c, 0>> is the nonce of its registration and    *)
(* <<c, k>> that of its k-th teardown request.                             *)
(***************************************************************************)
EXTENDS WorkerHandlers

CONSTANTS
    Calls,          \* client calls of /delegate_search
    ClientNonce,    \* the nonce each of them carries
    Orchestrator,   \* the orchestrator's agent id
    MaxDelegations, \* size of DELEGATION_NONCES
    Attempts,       \* teardown requests before giving up (3 in the code)
    AuditRoom,      \* audit events that fit under max_bytes
    FaultyCalls,    \* calls whose requests may be lost, late or repeated
    LogFaults,      \* those of them whose writes to the audit log may fail
    MaxActive,      \* threads serving /delegate_search at a time
    Redelivery,     \* are requests of FaultyCalls repeated in this instance?
    MaxIncarnations, MaxRestarts  \* bounds on worker and orchestrator starts

\* What the worker may answer, over all its handlers; "reset" is the end of a
\* connection whose handler died with its process.
Replies == {"200", "400", "401", "unknown session", "authentication failed",
            "replay detected", "results", "reset"}

ASSUME IdentifiersAssumption ==
    /\ Senders = {Orchestrator}
    /\ SessionIds = Calls /\ Queries = Calls /\ Envelopes = Calls
    /\ Nonces = Calls \X (0..Attempts)
    /\ Keys = 1..(MaxRestarts + 1)
    /\ NONE \notin Nat /\ NONE \notin Calls /\ NONE \notin Replies

ASSUME BoundsAssumption ==
    /\ MaxDelegations \in Nat \ {0} /\ Attempts \in Nat \ {0} /\ AuditRoom \in Nat
    /\ MaxActive \in Nat \ {0} /\ MaxRestarts \in Nat
    /\ MaxIncarnations \in Nat \ {0}
    /\ LogFaults \subseteq FaultyCalls /\ FaultyCalls \subseteq Calls
    /\ Redelivery \in BOOLEAN

VARIABLES
    oinc,       \* the orchestrator's incarnation, which is also its key
    registry,   \* the worker key pinned in orchestrator.registry, or NONE
    osession,   \* orchestrator.sessions.get(worker_id): a session id, or NONE
    delegated,  \* DELEGATION_NONCES
    audit,      \* events in the audit log
    pc,         \* where the thread of each call is
    disc,       \* the worker incarnation its discovery returned
    sess,       \* its local variable "session"
    got,        \* its local variable "result" is set
    status,     \* the answer to the client
    try,        \* its teardown attempt
    waiting,    \* the request it waits for, or NONE
    rsp,        \* the reply that arrived for it, or NONE
    sent,       \* every request ever posted
    pending     \* those not yet served

orchVars == <<oinc, registry, osession, delegated, audit>>
netVars == <<waiting, rsp, sent, pending>>
vars == <<workerVars, orchVars, netVars, pc, disc, sess, got, status, try>>

Init ==
    /\ WorkerInit
    /\ oinc = 1
    /\ registry = NONE
    /\ osession = NONE
    /\ delegated = {}
    /\ audit = 0
    /\ pc = [c \in Calls |-> "new"]
    /\ disc = [c \in Calls |-> 0]
    /\ sess = [c \in Calls |-> NONE]
    /\ got = [c \in Calls |-> FALSE]
    /\ status = [c \in Calls |-> "none"]
    /\ try = [c \in Calls |-> 0]
    /\ waiting = [c \in Calls |-> NONE]
    /\ rsp = [c \in Calls |-> NONE]
    /\ sent = {}
    /\ pending = {}

-----------------------------------------------------------------------------
\* Requests, with the fields the worker's handlers read.

TrustMsg(c, k) == [kind |-> "trust", call |-> c, sender |-> Orchestrator,
                   key |-> k, nonce |-> <<c, 0>>, proof |-> TRUE]

SessionMsg(c, k) == [kind |-> "session", call |-> c, sender |-> Orchestrator,
                     signer |-> k, sid |-> c, kem |-> disc[c]]

ExecuteMsg(c, s) == [kind |-> "execute", call |-> c, sid |-> s,
                     nonce |-> c, query |-> c, sealed |-> TRUE]

TeardownMsg(c, s, k) == [kind |-> "teardown", call |-> c, sender |-> Orchestrator,
                         sid |-> s, nonce |-> <<c, k>>, proof |-> TRUE]

Post(c, m) == /\ waiting' = [waiting EXCEPT ![c] = m]
              /\ rsp' = [rsp EXCEPT ![c] = NONE]
              /\ sent' = sent \cup {m}
              /\ pending' = pending \cup {m}

StopWaiting(c) == /\ waiting' = [waiting EXCEPT ![c] = NONE]
                  /\ rsp' = [rsp EXCEPT ![c] = NONE]
                  /\ UNCHANGED <<sent, pending>>

Goto(c, label) == pc' = [pc EXCEPT ![c] = label]

\* The except clause of delegate_search: cleanup follows a failure too.
Fail(c) == Goto(c, "cleanup") /\ StopWaiting(c)

Answer(c, s) == /\ Goto(c, "done")
                /\ status' = [status EXCEPT ![c] = s]
                /\ StopWaiting(c)

\* An OSError of log_event (the record may have reached the file or not) is not
\* among the exceptions that delegate_search catches: Flask answers 500, without
\* the cleanup.
LogBreaks(c) == /\ c \in LogFaults
                /\ audit' \in {audit, audit + 1} /\ audit' <= AuditRoom
                /\ Answer(c, "error")

Active == {c \in Calls : pc[c] \notin {"new", "done"}}

-----------------------------------------------------------------------------
\* delegate_search: authentication, validation and discovery.

MayStart(c) == pc[c] = "new" /\ Cardinality(Active) < MaxActive

\* A request without a valid digest and proof does not reach the nonce cache.
RefuseUnauthenticated(c) ==
    /\ MayStart(c)
    /\ Answer(c, "401")
    /\ UNCHANGED <<workerVars, orchVars, disc, sess, got, try>>

FreshClientNonce(c) == Accepts(delegated, MaxDelegations, ClientNonce[c])

RefuseReplayed(c) ==
    /\ MayStart(c)
    /\ ~FreshClientNonce(c)
    /\ Answer(c, "401")
    /\ UNCHANGED <<workerVars, orchVars, disc, sess, got, try>>

\* Seeded fault: the nonce is recorded only after the request was validated.
AdmitLateNonce(c) ==
    /\ MayStart(c)
    /\ FreshClientNonce(c)
    /\ \/ /\ Goto(c, "discover") /\ UNCHANGED <<status, netVars>>
          /\ delegated' = delegated \cup {ClientNonce[c]}
       \/ Answer(c, "400") /\ UNCHANGED delegated
    /\ UNCHANGED <<workerVars, oinc, registry, osession, audit, disc, sess, got, try>>

Admit(c) ==
    /\ MayStart(c)
    /\ FreshClientNonce(c)
    /\ delegated' = delegated \cup {ClientNonce[c]}
    /\ \/ Goto(c, "discover") /\ UNCHANGED <<status, netVars>>
       \/ Answer(c, "400")
    /\ UNCHANGED <<workerVars, oinc, registry, osession, audit, disc, sess, got, try>>

Discover(c) ==
    /\ pc[c] = "discover"
    /\ \/ /\ disc' = [disc EXCEPT ![c] = inc]
          /\ Goto(c, "lookup")
          /\ UNCHANGED <<status, netVars>>
       \/ c \in FaultyCalls /\ Answer(c, "unavailable") /\ UNCHANGED disc
    /\ UNCHANGED <<workerVars, orchVars, sess, got, try>>

\* Seeded fault: every call establishes a session, over the one that is kept.
LookupNothing(c) ==
    /\ pc[c] = "lookup"
    /\ Goto(c, "handshake")
    /\ UNCHANGED <<workerVars, orchVars, netVars, disc, sess, got, status, try>>

\* session = orchestrator.sessions.get(worker_id); a live one is reused.
Lookup(c) ==
    /\ pc[c] = "lookup"
    /\ \/ /\ osession = NONE
          /\ Goto(c, "handshake")
          /\ UNCHANGED <<sess, netVars>>
       \/ /\ osession # NONE
          /\ sess' = [sess EXCEPT ![c] = osession]
          /\ Post(c, ExecuteMsg(c, osession))
          /\ Goto(c, "execute")
    /\ UNCHANGED <<workerVars, orchVars, disc, got, status, try>>

-----------------------------------------------------------------------------
\* establish_remote_session: handshake, registration at both sides, session.

\* The reply proves the keys of the process that answers; they must be the
\* discovered ones.
Handshake(c) ==
    /\ pc[c] = "handshake"
    /\ \/ inc = disc[c] /\ Goto(c, "register") /\ UNCHANGED netVars
       \/ inc # disc[c] /\ Fail(c)
       \/ c \in FaultyCalls /\ Fail(c)
    /\ UNCHANGED <<workerVars, orchVars, disc, sess, got, status, try>>

PinConflict(c) == registry \notin {NONE, disc[c]}

\* register_agent compares the key with the pinned one ...
ComparePin(c) ==
    /\ pc[c] = "register"
    /\ \/ PinConflict(c) /\ Fail(c)
       \/ ~PinConflict(c) /\ Goto(c, "pin") /\ UNCHANGED netVars
    /\ UNCHANGED <<workerVars, orchVars, disc, sess, got, status, try>>

\* ... and stores it, whatever another thread has pinned in between.  register_worker
\* logs only then; a full log, or one that breaks, fails the call with the pin in
\* place.
Register(c) ==
    /\ pc[c] = "pin"
    /\ registry' = disc[c]
    /\ \/ /\ audit < AuditRoom
          /\ audit' = audit + 1
          /\ Post(c, TrustMsg(c, oinc))
          /\ Goto(c, "trust")
          /\ UNCHANGED status
       \/ audit >= AuditRoom /\ Fail(c) /\ UNCHANGED <<audit, status>>
       \/ LogBreaks(c)
    /\ UNCHANGED <<workerVars, oinc, osession, delegated, disc, sess, got, try>>

Answered(c, label) == pc[c] = label /\ rsp[c] # NONE

Trusted(c) ==
    /\ Answered(c, "trust")
    /\ \/ rsp[c] = "200" /\ Post(c, SessionMsg(c, oinc)) /\ Goto(c, "session")
       \/ rsp[c] # "200" /\ Fail(c)
    /\ UNCHANGED <<workerVars, orchVars, disc, sess, got, status, try>>

\* orchestrator.sessions[worker_id] = session, whatever is there.
Established(c) ==
    /\ Answered(c, "session")
    /\ \/ /\ rsp[c] = "200"
          /\ osession' = c
          /\ Goto(c, "fetch")
          /\ StopWaiting(c)
       \/ rsp[c] # "200" /\ Fail(c) /\ UNCHANGED osession
    /\ UNCHANGED <<workerVars, oinc, registry, delegated, audit, disc, sess, got,
                   status, try>>

\* session = orchestrator.sessions[worker_id]: a KeyError if another call has
\* removed the entry, that call's session if it has replaced it.
Fetch(c) ==
    /\ pc[c] = "fetch"
    /\ \/ osession = NONE /\ Fail(c) /\ UNCHANGED sess
       \/ /\ osession # NONE
          /\ sess' = [sess EXCEPT ![c] = osession]
          /\ Post(c, ExecuteMsg(c, osession))
          /\ Goto(c, "execute")
    /\ UNCHANGED <<workerVars, orchVars, disc, got, status, try>>

\* Seeded fault: the reply is not checked for the query id.
ExecutedUnchecked(c) ==
    /\ Answered(c, "execute")
    /\ got' = [got EXCEPT ![c] = TRUE]
    /\ Fail(c)
    /\ UNCHANGED <<workerVars, orchVars, disc, sess, status, try>>

\* A reply carries the query id of the request only when the worker opened it.
Executed(c) ==
    /\ Answered(c, "execute")
    /\ got' = [got EXCEPT ![c] = rsp[c] \in {"results", "replay detected"}]
    /\ Fail(c)
    /\ UNCHANGED <<workerVars, orchVars, disc, sess, status, try>>

-----------------------------------------------------------------------------
\* Cleanup and teardown_remote_session.

Outcome(c) == IF got[c] THEN "ok" ELSE "failed"

PostTeardown(c, s, k) == /\ Post(c, TeardownMsg(c, s, k))
                         /\ try' = [try EXCEPT ![c] = k]

\* Seeded fault: a failed call returns without the cleanup.
CleanupAfterSuccess(c) ==
    /\ pc[c] = "cleanup"
    /\ \/ /\ osession = NONE \/ ~got[c]
          /\ Answer(c, Outcome(c)) /\ UNCHANGED try
       \/ /\ osession # NONE /\ got[c]
          /\ PostTeardown(c, osession, 1)
          /\ Goto(c, "teardown")
          /\ UNCHANGED status
    /\ UNCHANGED <<workerVars, orchVars, disc, sess, got>>

\* Seeded fault: the session is popped before its teardown is acknowledged.
CleanupPopsFirst(c) ==
    /\ pc[c] = "cleanup"
    /\ \/ osession = NONE /\ Answer(c, Outcome(c)) /\ UNCHANGED try
       \/ /\ osession # NONE
          /\ PostTeardown(c, osession, 1)
          /\ Goto(c, "teardown")
          /\ UNCHANGED status
    /\ osession' = NONE
    /\ UNCHANGED <<workerVars, oinc, registry, delegated, audit, disc, sess, got>>

Cleanup(c) ==
    /\ pc[c] = "cleanup"
    /\ \/ osession = NONE /\ Answer(c, Outcome(c)) /\ UNCHANGED try
       \/ /\ osession # NONE
          /\ PostTeardown(c, osession, 1)
          /\ Goto(c, "teardown")
          /\ UNCHANGED status
    /\ UNCHANGED <<workerVars, orchVars, disc, sess, got>>

\* Seeded fault: attempts are not counted.
RetryForever(c) ==
    /\ PostTeardown(c, waiting[c].sid, try[c])
    /\ UNCHANGED <<pc, status>>

\* Seeded fault: giving up on the teardown does not affect the answer.
RetryQuietly(c) ==
    \/ /\ try[c] < Attempts
       /\ PostTeardown(c, waiting[c].sid, try[c] + 1)
       /\ UNCHANGED <<pc, status>>
    \/ try[c] = Attempts /\ Answer(c, Outcome(c)) /\ UNCHANGED try

\* A failed attempt is repeated with a new nonce; after the last of them the
\* session stays and the result is discarded.
Retry(c) ==
    \/ /\ try[c] < Attempts
       /\ PostTeardown(c, waiting[c].sid, try[c] + 1)
       /\ UNCHANGED <<pc, status>>
    \/ try[c] = Attempts /\ Answer(c, "discarded") /\ UNCHANGED try

\* An acknowledged teardown removes whatever session is stored for the worker
\* and logs the event; a full log, or one that breaks, makes the call fail after the
\* removal.
Forget(c) ==
    /\ osession' = NONE
    /\ \/ audit < AuditRoom /\ audit' = audit + 1 /\ Answer(c, Outcome(c))
       \/ audit >= AuditRoom /\ UNCHANGED audit /\ Answer(c, "discarded")
       \/ LogBreaks(c)
    /\ UNCHANGED try

TornDown(c) ==
    /\ Answered(c, "teardown")
    /\ \/ rsp[c] = "200" /\ Forget(c)
       \/ rsp[c] # "200" /\ Retry(c) /\ UNCHANGED <<osession, audit>>
    /\ UNCHANGED <<workerVars, oinc, registry, delegated, disc, sess, got>>

\* The request was lost, or its reply was, or either is late: the caller
\* cannot tell, and the request may still be served.
TimeOut(c) ==
    /\ c \in FaultyCalls
    /\ waiting[c] # NONE
    /\ \/ pc[c] = "teardown" /\ Retry(c)
       \/ pc[c] # "teardown" /\ Fail(c) /\ UNCHANGED <<status, try>>
    /\ UNCHANGED <<workerVars, orchVars, disc, sess, got>>

-----------------------------------------------------------------------------
\* The worker's side of the exchanges.

Handle(m, reply) ==
    \/ m.kind = "trust" /\ Trust(m, reply)
    \/ m.kind = "session" /\ AcceptSession(m, reply)
    \/ m.kind = "execute" /\ Execute(m, reply)
    \/ m.kind = "teardown" /\ Teardown(m, reply)

\* A registration that passes the comparison is answered later.
Serve(m) ==
    /\ m \in pending
    /\ \E reply \in Replies \cup {NONE} :
          /\ Handle(m, reply)
          /\ rsp' = IF waiting[m.call] = m THEN [rsp EXCEPT ![m.call] = reply] ELSE rsp
    /\ pending' = pending \ {m}
    /\ UNCHANGED <<orchVars, pc, disc, sess, got, status, try, waiting, sent>>

\* A copy of a request, before or after the request itself; nobody waits for
\* its reply.
ServeCopy(m) ==
    /\ Redelivery
    /\ m \in sent /\ m.call \in FaultyCalls
    /\ \E reply \in Replies \cup {NONE} : Handle(m, reply)
    /\ UNCHANGED <<orchVars, netVars, pc, disc, sess, got, status, try>>

\* The registration that call c waits for, and not only a copy of it, is being
\* stored.
InStore(c) == waiting[c] \in storing \ pending /\ rsp[c] = NONE

Store(m) ==
    /\ \E reply \in Replies :
          /\ StorePin(m, reply)
          /\ rsp' = IF waiting[m.call] = m /\ InStore(m.call)
                    THEN [rsp EXCEPT ![m.call] = reply] ELSE rsp
    /\ UNCHANGED <<orchVars, pc, disc, sess, got, status, try, waiting, sent, pending>>

RestartWorker ==
    /\ inc < MaxIncarnations
    /\ WorkerRestart
    /\ rsp' = [c \in Calls |-> IF InStore(c) THEN "reset" ELSE rsp[c]]
    /\ UNCHANGED <<orchVars, pc, disc, sess, got, status, try, waiting, sent, pending>>

\* Only the audit log survives; the calls being served are lost.
RestartOrchestrator ==
    /\ oinc <= MaxRestarts
    /\ oinc' = oinc + 1
    /\ registry' = NONE
    /\ osession' = NONE
    /\ delegated' = {}
    /\ pc' = [c \in Calls |-> IF c \in Active THEN "done" ELSE pc[c]]
    /\ status' = [c \in Calls |-> IF c \in Active THEN "lost" ELSE status[c]]
    /\ waiting' = [c \in Calls |-> NONE]
    /\ rsp' = [c \in Calls |-> NONE]
    /\ UNCHANGED <<workerVars, audit, disc, sess, got, try, sent, pending>>

-----------------------------------------------------------------------------
Thread(c) == \/ Discover(c) \/ Lookup(c)
             \/ Handshake(c) \/ ComparePin(c) \/ Register(c) \/ Trusted(c) \/ Established(c)
             \/ Fetch(c) \/ Executed(c)
             \/ Cleanup(c) \/ TornDown(c) \/ TimeOut(c)

Start(c) == RefuseUnauthenticated(c) \/ RefuseReplayed(c) \/ Admit(c)

Next == \/ \E c \in Calls : Start(c) \/ Thread(c)
        \/ \E m \in sent : Serve(m) \/ ServeCopy(m) \/ Store(m)
        \/ RestartWorker
        \/ RestartOrchestrator

Spec == Init /\ [][Next]_vars

\* Every thread of the server is scheduled, and every exchange ends: by its
\* reply or, in a call whose exchanges may fail, by the timeout that each
\* requests.post carries.  The worker serves, and finishes serving, what can be
\* waited for without a timeout.
Fairness == /\ \A c \in Calls : WF_vars(Thread(c))
            /\ \A c \in Calls \ FaultyCalls :
                  WF_vars(Serve(waiting[c]) \/ Store(waiting[c]))

FairSpec == Spec /\ Fairness
=============================================================================
