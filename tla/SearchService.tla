--------------------------- MODULE SearchService ---------------------------
(***************************************************************************)
(* What /delegate_search promises a client, with the protocol left out: a  *)
(* call's query runs at most once, nothing runs for a call that was turned *)
(* away, and a call answered "ok" has run.  A call that failed may have    *)
(* run, or may even run later: the worker can serve a request whose caller *)
(* gave up.                                                                *)
(***************************************************************************)
EXTENDS Naturals

CONSTANTS Calls

VARIABLES opened,   \* calls admitted to the service
          ran,      \* how often the query of each call was executed
          outcome   \* the answer to each call, "none" until it is given

vars == <<opened, ran, outcome>>

Refusals == {"401", "400"}
Failures == {"unavailable", "failed", "discarded", "lost", "error"}

Init == /\ opened = {}
        /\ ran = [c \in Calls |-> 0]
        /\ outcome = [c \in Calls |-> "none"]

Open(c) == /\ c \notin opened /\ outcome[c] = "none"
           /\ opened' = opened \cup {c}
           /\ UNCHANGED <<ran, outcome>>

Refuse(c, why) == /\ c \notin opened /\ outcome[c] = "none"
                  /\ outcome' = [outcome EXCEPT ![c] = why]
                  /\ UNCHANGED <<opened, ran>>

Run(c) == /\ c \in opened /\ ran[c] = 0
          /\ ran' = [ran EXCEPT ![c] = 1]
          /\ UNCHANGED <<opened, outcome>>

Succeed(c) == /\ c \in opened /\ ran[c] = 1 /\ outcome[c] = "none"
              /\ outcome' = [outcome EXCEPT ![c] = "ok"]
              /\ UNCHANGED <<opened, ran>>

Disappoint(failing) ==
    /\ failing # {} /\ failing \subseteq opened
    /\ \A c \in failing : outcome[c] = "none"
    /\ \E why \in Failures :
          outcome' = [c \in Calls |-> IF c \in failing THEN why ELSE outcome[c]]
    /\ UNCHANGED <<opened, ran>>

Next == \/ \E c \in Calls : \/ Open(c) \/ Run(c) \/ Succeed(c)
                            \/ \E why \in Refusals : Refuse(c, why)
        \/ \E failing \in SUBSET Calls : Disappoint(failing)

Spec == Init /\ [][Next]_vars
=============================================================================
