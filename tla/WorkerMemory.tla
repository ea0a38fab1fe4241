---------------------------- MODULE WorkerMemory ----------------------------
(***************************************************************************)
(* What one worker guarantees about its sessions, and the inductive        *)
(* invariant behind it, for any peer: WorkerServer puts the handlers of    *)
(* WorkerHandlers beside an arbitrary network, Delegation beside the       *)
(* orchestrator.                                                           *)
(*                                                                         *)
(* kem maps a session id to the incarnation whose KEM key its ciphertext   *)
(* was made for; the transcript hash binds it, so that every request for   *)
(* one session carries the same.  What an incarnation has to remember it   *)
(* remembers in accepted_session_ids and in the live records; what it      *)
(* forgets at a restart is harmless, because the KEM key of the session is *)
(* then older than the incarnation.                                        *)
(***************************************************************************)
EXTENDS WorkerHandlers

\* A query runs at most once in a session, however often and in whatever order
\* its envelope, its session establishment and the teardown are delivered, and
\* across restarts of the worker, provided that execute_search handles one copy
\* of it at a time: for copies handled at once see SearchAdmission.
OncePerSession == \A e \in SessionIds \X Queries : executions[e] <= 1

\* A session that was torn down, or lost in a restart, never becomes usable
\* again: a replayed establishment is refused by the incarnation that knew it
\* and cannot be decapsulated by a later one.
ClosedForGood == \A s \in closed : sessions[s] # NONE => ~sessions[s].keyed

\* Every live session was signed by the key that is pinned for its sender now,
\* unless registrations of two keys for that sender have been between comparison
\* and store at the same time.  Only such a race replaces a pin under a session.
LiveSessionsPinned ==
    \A s \in Live : \/ sessions[s].signer = trusted[sessions[s].sender]
                    \/ sessions[s].sender \in raced

\* What a live record lists as executed has been executed.
ListedQueriesRan ==
    \A s \in Live : \A q \in sessions[s].queries : executions[<<s, q>>] > 0

-----------------------------------------------------------------------------
Stale(kem, s) == kem[s] < inc

AcceptedFits(kem) == \A s \in acceptedIds : kem[s] <= inc

LiveAccepted(kem) == \A s \in Live : /\ s \in acceptedIds
                                     /\ sessions[s].keyed => kem[s] = inc

ClosedRemembered(kem) == \A s \in closed : s \in acceptedIds \/ Stale(kem, s)

ExecutionRemembered(kem) ==
    \A s \in SessionIds, q \in Queries :
        executions[<<s, q>>] > 0 =>
            \/ Stale(kem, s)
            \/ s \in acceptedIds /\ (s \in Live => q \in sessions[s].queries)

\* Without a race, the registrations about to be stored agree with each other and
\* with the pin.
StoringAgrees ==
    \A r \in storing : r.sender \notin raced =>
        /\ trusted[r.sender] \in {NONE, r.key}
        /\ Rivals(r) = {}

\* The sessions this worker, or an earlier incarnation of it, has seen.
KnownIds == acceptedIds \cup closed
                \cup {s \in SessionIds : \E q \in Queries : executions[<<s, q>>] > 0}

MemoryInv(kem) == /\ WorkerTypeOK
                  /\ AcceptedFits(kem)
                  /\ LiveAccepted(kem)
                  /\ ClosedRemembered(kem)
                  /\ ClosedForGood
                  /\ ExecutionRemembered(kem)
                  /\ OncePerSession
                  /\ ListedQueriesRan
                  /\ StoringAgrees
                  /\ LiveSessionsPinned
=============================================================================
