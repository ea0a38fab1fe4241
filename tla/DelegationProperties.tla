------------------------ MODULE DelegationProperties ------------------------
(***************************************************************************)
(* What the delegation protocol of Delegation is meant to guarantee.       *)
(***************************************************************************)
EXTENDS Delegation, WorkerMemory

Labels == {"new", "discover", "lookup", "handshake", "register", "pin", "trust", "session",
           "fetch", "execute", "cleanup", "teardown", "done"}

Answers == {"none", "ok", "failed", "discarded", "unavailable", "lost", "error", "400", "401"}

OrchTypeOK == /\ oinc \in Keys
              /\ registry \in Nat \cup {NONE}
              /\ osession \in Calls \cup {NONE}
              /\ delegated \subseteq {ClientNonce[c] : c \in Calls}
              /\ audit \in 0..AuditRoom

CallTypeOK == /\ pc \in [Calls -> Labels]
              /\ disc \in [Calls -> Nat]
              /\ sess \in [Calls -> Calls \cup {NONE}]
              /\ got \in [Calls -> BOOLEAN]
              /\ status \in [Calls -> Answers]
              /\ try \in [Calls -> 0..Attempts]

NetTypeOK == /\ waiting \in [Calls -> sent \cup {NONE}]
             /\ rsp \in [Calls -> Replies \cup {NONE}]
             /\ pending \subseteq sent

TypeOK == WorkerTypeOK /\ OrchTypeOK /\ CallTypeOK /\ NetTypeOK

-----------------------------------------------------------------------------
\* Safety that holds with concurrent calls, lost, late and repeated requests
\* and restarts of both processes.  What is said of executions supposes that
\* execute_search handles one copy of a request at a time (see WorkerHandlers):
\* copies delivered at once to two threads of the worker do run twice.

\* The query of a call is executed at most once, in at most one session, however
\* late and however often its requests are delivered, one copy at a time.
ExecutedOnce ==
    \A c, s1, s2 \in Calls :
        /\ executions[<<s1, c>>] <= 1
        /\ executions[<<s1, c>>] + executions[<<s2, c>>] = 2 => s1 = s2

\* The protocol implements the service its clients see: the query of a call runs
\* once at most (one copy of its request being handled at a time), only after the
\* call was admitted, "ok" means that it has run, and an answer is final.
Runs(c) == UNION {{<<s, n>> : n \in 1..executions[<<s, c>>]} : s \in Calls}
RunsOf == [c \in Calls |-> Cardinality(Runs(c))]
Opened == {c \in Calls : pc[c] # "new" /\ status[c] \notin {"400", "401"}}

Service == INSTANCE SearchService WITH opened <- Opened, ran <- RunsOf, outcome <- status
ServesClients == Service!Spec

\* A nonce of a client authenticates one call (while the orchestrator runs).
ClientNonceOnce ==
    \A c1, c2 \in Calls :
        /\ c1 # c2 /\ ClientNonce[c1] = ClientNonce[c2]
        /\ pc[c1] # "new" /\ pc[c2] # "new"
        => "401" \in {status[c1], status[c2]}

-----------------------------------------------------------------------------
\* Safety of calls that are served one at a time.

\* After a call that answered with a result, the worker no longer holds the
\* session that carried it, and no late or repeated request brings it back.
OkMeansGone ==
    \A c \in Calls : status[c] = "ok" => sessions[sess[c]] = NONE

\* Between calls, a session of the worker is either the one the orchestrator
\* keeps or one whose establishment was never confirmed to it.
OnlyUnconfirmedLeak ==
    Active = {} =>
        \A s \in Live : s = osession \/ (status[s] = "failed" /\ sess[s] = NONE)

\* A result is discarded when its session could not be torn down, and then the
\* session is kept for another attempt.  Discarded for want of room in the audit
\* log, it leaves a session that is gone at the worker too.
DiscardKeepsSession ==
    [][\A c \in Calls : status'[c] = "discarded" /\ status[c] # "discarded" =>
          \/ osession' # NONE
          \/ /\ audit = AuditRoom
             /\ inc = 1 => osession # NONE /\ sessions[osession] = NONE]_vars

\* While the audit log has room, a call whose exchanges all work fails only by using
\* a session that a call before it could not tear down, and it removes that session.
CleanCallsRecover ==
    audit < AuditRoom => \A c \in Calls \ FaultyCalls :
        /\ status[c] \in {"none", "ok", "failed", "400", "401"}
        /\ status[c] = "failed" => /\ sess[c] \notin {c, NONE}
                                   /\ status[sess[c]] \in {"failed", "discarded"}
                                   /\ osession # sess[c]

-----------------------------------------------------------------------------
\* What the comparison of transcript hashes is there for: a session that the
\* orchestrator keeps and the worker holds has one key at both ends.  An
\* establishment during which the worker restarts does not keep to it.
SessionKeysAgree ==
    osession # NONE /\ sessions[osession] # NONE => sessions[osession].keyed

\* "Register an agent key once and reject silent key substitution": what two calls
\* that register at the same time do not keep to.
PinNeverReplaced ==
    [][registry # NONE /\ oinc' = oinc => registry' = registry]_vars

\* Every call gets an answer: each exchange ends and no step waits for
\* another call.
EveryCallAnswered ==
    \A c \in Calls : pc[c] # "new" ~> pc[c] = "done"

-----------------------------------------------------------------------------
\* The inductive invariant behind the first two groups (proved in
\* DelegationProofs).  It ties the worker's memory to what was posted: a request
\* never leaves "sent", so whatever the worker knows or has run, late or
\* repeated, can be traced to the one call that asked for it.

\* An encapsulation made now, or before, is for an incarnation that has started.
DiscoveryPast == \A c \in Calls : disc[c] <= inc

\* Every request was built by one of the four constructors, for its call.
WellFormed(m) ==
    \E c, s \in Calls :
        \/ \E k \in Keys : m = TrustMsg(c, k) \/ m = SessionMsg(c, k)
        \/ m = ExecuteMsg(c, s)
        \/ \E k \in 1..Attempts : m = TeardownMsg(c, s, k)

RequestsWellFormed == \A m \in sent : WellFormed(m)

\* Only an admitted call that has discovered the worker posts anything.
SendersAdmitted ==
    \A m \in sent : /\ pc[m.call] \notin {"new", "discover"}
                   /\ status[m.call] \notin {"400", "401"}

\* A call posts one execute request, and none after its execute step.
FromExecute == {"execute", "cleanup", "teardown", "done"}

OneExecuteEach ==
    /\ \A m \in sent : m.kind = "execute" => pc[m.call] \in FromExecute
    /\ \A c, s1, s2 \in Calls :
          ExecuteMsg(c, s1) \in sent /\ ExecuteMsg(c, s2) \in sent => s1 = s2

\* Only a thread in an exchange waits, and one that tears a session down waits
\* for a teardown: that is where a retry takes the session from.
Exchanging == {"trust", "session", "execute", "teardown"}

WaitsInExchange ==
    \A c \in Calls :
        /\ waiting[c] # NONE => pc[c] \in Exchanging
        /\ pc[c] = "teardown" => waiting[c] \in {m \in sent : m.kind = "teardown"}

\* A registration is stored on request.
StoringWereAsked == storing \subseteq {m \in sent : m.kind = "trust"}

\* The worker knows a session, and has run a query, only on request.
KnownWereAsked ==
    \A s \in KnownIds : \E k \in Keys : SessionMsg(s, k) \in sent

RunsWereAsked ==
    \A c, s \in Calls : executions[<<s, c>>] > 0 => ExecuteMsg(c, s) \in sent

\* What a call concludes from a reply has happened.
Ran == {c \in Calls : \E s \in Calls : executions[<<s, c>>] > 0}

RepliesAreTrue ==
    \A c \in Calls : \/ rsp[c] \in {"results", "replay detected"}
                     \/ got[c] \/ status[c] = "ok"
                     => c \in Ran

AnsweredAtEnd == \A c \in Calls : status[c] = "none" <=> pc[c] # "done"

\* Until the orchestrator restarts it remembers the nonce of every call it did
\* not turn away for it.
NoncesRemembered ==
    oinc = 1 => \A c \in Calls : pc[c] = "new" \/ status[c] = "401"
                                   \/ ClientNonce[c] \in delegated

DelegationInv ==
    /\ TypeOK
    /\ MemoryInv(disc)
    /\ DiscoveryPast
    /\ RequestsWellFormed
    /\ SendersAdmitted
    /\ OneExecuteEach
    /\ WaitsInExchange
    /\ StoringWereAsked
    /\ KnownWereAsked
    /\ RunsWereAsked
    /\ RepliesAreTrue
    /\ AnsweredAtEnd
    /\ NoncesRemembered
    /\ oinc = 1 => ClientNonceOnce

-----------------------------------------------------------------------------
\* The inductive invariants behind the properties of calls that are served one at a
\* time, besides DelegationInv (proved in DelegationProofs for MaxActive = 1).

OneAtATime == \A c, d \in Active : c = d

Unsent == {"new", "discover", "lookup"}
Establishing == {"handshake", "register", "pin", "trust", "session"}

\* A thread in an exchange waits for the reply to that step's request.
WaitsForItsStep(c) ==
    pc[c] \in Exchanging =>
        waiting[c] \in sent /\ waiting[c].kind = pc[c] /\ waiting[c].call = c

\* What the orchestrator's entry for the worker is at each place of the one call.
EntryFollowsCall(c) ==
    /\ pc[c] \in Establishing => osession = NONE
    /\ pc[c] = "fetch" => osession = c
    /\ pc[c] \in {"execute", "teardown"} =>
          osession # NONE /\ osession = sess[c] /\ waiting[c].sid = osession
    /\ pc[c] = "cleanup" => osession = sess[c] /\ (got[c] => osession # NONE)
    /\ pc[c] \in Unsent \cup Establishing \cup {"fetch"} => sess[c] = NONE
    /\ got[c] => pc[c] \in {"cleanup", "teardown", "done"}

\* While the worker runs, what it has acknowledged stays so.
AcknowledgedStays ==
    /\ osession # NONE => osession \in acceptedIds
    /\ \A c \in Calls :
          /\ pc[c] = "session" /\ rsp[c] = "200" => c \in acceptedIds
          /\ pc[c] = "teardown" /\ rsp[c] = "200" => sessions[osession] = NONE
          /\ status[c] = "ok" => sess[c] \in acceptedIds /\ sessions[sess[c]] = NONE

\* Session s was asked for and the orchestrator has not heard of its acceptance.
Unconfirmed(s) ==
    sess[s] = NONE /\ (pc[s] \in {"session", "cleanup"} \/ status[s] = "failed")

SessionsAccounted ==
    /\ \A m \in sent : m.kind = "session" => m.sid \in acceptedIds \/ Unconfirmed(m.sid)
    /\ \A s \in Live : s = osession \/ Unconfirmed(s)

\* While neither process restarts, everyone has the keys of the first start, ...
FirstKeys ==
    /\ registry \in {NONE, 1} /\ trusted[Orchestrator] \in {NONE, 1}
    /\ \A m \in sent : /\ m.kind = "trust" => m.key = 1
                       /\ m.kind = "session" => m.signer = 1
    /\ osession # NONE => trusted[Orchestrator] # NONE
    /\ \A c \in Calls :
          /\ pc[c] \notin {"new", "discover", "done"} => disc[c] = 1
          /\ pc[c] = "session" \/ (pc[c] = "trust" /\ rsp[c] = "200")
                => trusted[Orchestrator] # NONE

\* ... and only the call that established a session, or one after it, removes it.
EntryLeftOver ==
    /\ osession # NONE => \/ status[osession] = "discarded"
                          \/ pc[osession] \in {"fetch", "execute", "cleanup", "teardown"}
    /\ \A m \in sent : m.kind = "teardown" => pc[m.sid] \in {"teardown", "done"}

\* A request of a call without network trouble is served once: what it leaves at
\* the worker is there only after its reply.
After == [trust    |-> {"session", "fetch"} \cup FromExecute,
          session  |-> {"fetch"} \cup FromExecute,
          execute  |-> {"cleanup", "teardown", "done"},
          teardown |-> {"done"}]

Past(c, step) == pc[c] \in After[step] \/ (pc[c] = step /\ rsp[c] # NONE)

ServedOnce(c) ==
    /\ \A m \in pending :
          m.call = c => pc[c] \in Exchanging /\ waiting[c] = m /\ rsp[c] = NONE
    /\ \A m \in storing : m.call = c => pc[c] = "trust" /\ waiting[c] = m /\ InStore(c)
    /\ <<c, 0>> \in bootNonces => Past(c, "trust") \/ \E m \in storing : m.call = c
    /\ c \in acceptedIds => Past(c, "session")
    /\ \A s \in Live :
          c \in sessions[s].nonces \cup sessions[s].queries => Past(c, "execute")
    /\ \A k \in 1..Attempts : <<c, k>> \in bootNonces => Past(c, "teardown")

\* The call reuses a session that an earlier one could not tear down.
Reuses(c) == sess[c] \notin {c, NONE} /\ status[sess[c]] = "discarded"

Proceeds(c) ==
    /\ pc[c] \in {"trust", "session", "teardown"} => rsp[c] \in {NONE, "200"}
    /\ pc[c] = "fetch" \/ (pc[c] = "session" /\ rsp[c] = "200")
          \/ (pc[c] = "execute" /\ sess[c] = c /\ rsp[c] = NONE)
          => sessions[c] # NONE /\ sessions[c].keyed
    /\ pc[c] = "execute" /\ sess[c] = c => rsp[c] \in {NONE, "results"}
    /\ pc[c] = "execute" => sess[c] = c \/ Reuses(c)
    /\ pc[c] \in {"cleanup", "teardown"} => osession # NONE /\ (got[c] \/ Reuses(c))
    /\ status[c] \in {"none", "ok", "failed", "400", "401"}
    /\ status[c] = "failed" => Reuses(c) /\ osession # sess[c]

\* What one call leaves to the next, until the process that would have to remember
\* it restarts.
SerialInv ==
    /\ OneAtATime /\ inc # 0
    /\ \A c \in Calls : WaitsForItsStep(c) /\ EntryFollowsCall(c)
    /\ inc = 1 => AcknowledgedStays
    /\ inc = 1 /\ oinc = 1 => SessionsAccounted

\* Why a call over a working network recovers, while the audit log has room.
RecoveryInv ==
    inc = 1 /\ oinc = 1 =>
        /\ FirstKeys
        /\ EntryLeftOver
        /\ audit < AuditRoom => \A c \in Calls \ FaultyCalls : ServedOnce(c) /\ Proceeds(c)
=============================================================================
