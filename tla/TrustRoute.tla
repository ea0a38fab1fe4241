----------------------------- MODULE TrustRoute -----------------------------
(***************************************************************************)
(* POST /trust/orchestrator of worker_server.py by concurrent threads, one *)
(* statement at a time: the nonce goes through the locked accept() of      *)
(* ReplayCache, and register_orchestrator then reads, compares and stores  *)
(* the key of the sender without a lock.  AgentRegistry.register_agent is  *)
(* the same code at the orchestrator.                                      *)
(*                                                                         *)
(* The requests here have all their fields and a valid proof; the others   *)
(* are answered before anything changes.                                   *)
(***************************************************************************)
EXTENDS ReplayCache

CONSTANTS
    Senders,
    Keys,       \* public keys; NONE stands for one that is not hexadecimal
    Requests    \* the registrations that the trust anchor has signed

ASSUME RequestsAssumption ==
    /\ Requests \subseteq [sender : Senders, key : Keys \cup {NONE}, nonce : Values]
    /\ NONE \notin Requests /\ NONE \notin Keys

VARIABLES
    trusted,    \* worker.trusted_orchestrators: a key per sender, or NONE
    at,         \* where the route's thread is
    req,        \* the request it serves, or NONE
    offered     \* history: keys of the requests received while the sender had no pin

routeVars == <<trusted, at, req, offered>>
allVars == <<vars, routeVars>>

RouteTypes ==
    /\ trusted \in [Senders -> Keys \cup {NONE}]
    /\ at \in [Threads -> {"free", "nonce", "store"}]
    /\ req \in [Threads -> Requests \cup {NONE}]
    /\ offered \in [Senders -> SUBSET (Keys \cup {NONE})]

RouteTypeOK == TypeOK /\ RouteTypes

RouteInit ==
    /\ Init
    /\ trusted = [s \in Senders |-> NONE]
    /\ at = [t \in Threads |-> "free"]
    /\ req = [t \in Threads |-> NONE]
    /\ offered = [s \in Senders |-> {}]

-----------------------------------------------------------------------------
\* The proof is valid: the nonce is next.
Receive(t, r) ==
    /\ at[t] = "free"
    /\ Call(t, r.nonce)
    /\ at' = [at EXCEPT ![t] = "nonce"]
    /\ req' = [req EXCEPT ![t] = r]
    /\ offered' = IF trusted[r.sender] = NONE
                  THEN [offered EXCEPT ![r.sender] = @ \cup {r.key}]
                  ELSE offered
    /\ UNCHANGED trusted

\* clear(), which the tests call between their requests.
Reset(t) ==
    /\ at[t] = "free"
    /\ Call(t, Clear)
    /\ UNCHANGED routeVars

\* Statements of accept() and clear().
InCache(t) ==
    /\ Enter(t) \/ CheckDuplicate(t) \/ CheckRoom(t) \/ Insert(t) \/ ClearAll(t) \/ Exit(t)
    /\ UNCHANGED routeVars

Returned(t, answer) == at[t] = "nonce" /\ pc[t] = "idle" /\ result[t] = answer

Respond(t) == /\ at' = [at EXCEPT ![t] = "free"]
              /\ req' = [req EXCEPT ![t] = NONE]

RefuseNonce(t) ==
    /\ Returned(t, "rejected")
    /\ Respond(t)
    /\ UNCHANGED <<vars, trusted, offered>>

\* Seeded fault: any well-formed key may replace the pinned one.
OnlyMalformed(t) == req[t].key = NONE

\* fromhex raises, or another key is pinned.
Refused(t) ==
    \/ req[t].key = NONE
    \/ trusted[req[t].sender] \notin {NONE, req[t].key}

Compare(t) ==
    /\ Returned(t, "accepted")
    /\ \/ Refused(t) /\ Respond(t)
       \/ ~Refused(t) /\ at' = [at EXCEPT ![t] = "store"] /\ UNCHANGED req
    /\ UNCHANGED <<vars, trusted, offered>>

\* What was compared may have been replaced since.
Store(t) ==
    /\ at[t] = "store"
    /\ trusted' = [trusted EXCEPT ![req[t].sender] = req[t].key]
    /\ Respond(t)
    /\ UNCHANGED <<vars, offered>>

RouteStep(t) ==
    \/ \E r \in Requests : Receive(t, r)
    \/ Reset(t)
    \/ InCache(t)
    \/ RefuseNonce(t)
    \/ Compare(t)
    \/ Store(t)

RouteNext == \E t \in Threads : RouteStep(t)

RouteSpec == RouteInit /\ [][RouteNext]_allVars

-----------------------------------------------------------------------------
\* The race is over who is first: a pin is the key of a request that came while
\* its sender had none, however late it is stored and whatever is stored in
\* between.  Once a sender is pinned, no registration that arrives with a new
\* key is ever stored.
OnlyRacersReplace ==
    \A s \in Senders : trusted[s] # NONE => trusted[s] \in offered[s]
=============================================================================
