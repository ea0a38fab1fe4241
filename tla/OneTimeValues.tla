--------------------------- MODULE OneTimeValues ---------------------------
(***************************************************************************)
(* The abstract specification of a replay cache: concurrent callers each   *)
(* get one answer, decided in a single indivisible step, and a value is    *)
(* accepted exactly when it is not retained and there is room for it.      *)
(***************************************************************************)
CONSTANTS Callers, Values,
          Room(_)   \* may one more value be added to this set?

VARIABLES retained, answer

vars == <<retained, answer>>

Init == /\ retained = {}
        /\ answer = [t \in Callers |-> "none"]

Ask(t) == /\ answer' = [answer EXCEPT ![t] = "none"]
          /\ UNCHANGED retained

Accept(t, v) == /\ answer[t] = "none"
                /\ v \notin retained /\ Room(retained)
                /\ answer' = [answer EXCEPT ![t] = "accepted"]
                /\ retained' = retained \cup {v}

Reject(t, v) == /\ answer[t] = "none"
                /\ v \in retained \/ ~Room(retained)
                /\ answer' = [answer EXCEPT ![t] = "rejected"]
                /\ UNCHANGED retained

Forget == retained' = {} /\ UNCHANGED answer

Next == \/ Forget
        \/ \E t \in Callers :
              Ask(t) \/ \E v \in Values : Accept(t, v) \/ Reject(t, v)

Spec == Init /\ [][Next]_vars
=============================================================================
