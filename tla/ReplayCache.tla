---------------------------- MODULE ReplayCache ----------------------------
(***************************************************************************)
(* security/replay_cache.py with the interleavings of threads that share   *)
(* one cache: accept() and clear() take the lock, and a thread can be      *)
(* preempted between any two statements of accept().                       *)
(***************************************************************************)
EXTENDS AcceptOnce

CONSTANTS Threads, Values, MaxEntries, NONE, Clear

ASSUME MaxEntriesAssumption == MaxEntries \in Nat \ {0}
ASSUME NamesAssumption == NONE \notin Threads /\ Clear \notin Values

VARIABLES
    entries,   \* keys of self._entries
    lock,      \* the thread inside "with self._lock", or NONE
    pc,        \* the statement each thread executes next
    op,        \* the value passed to accept(), or Clear
    result,    \* what the thread's last accept() returned
    accepted   \* history: how often each value was accepted since clear()

vars == <<entries, lock, pc, op, result, accepted>>

Inside == {"duplicate", "room", "insert", "clear", "exit"}

TypeOK == /\ entries \subseteq Values
          /\ lock \in Threads \cup {NONE}
          /\ pc \in [Threads -> {"idle", "enter"} \cup Inside]
          /\ op \in [Threads -> Values \cup {Clear}]
          /\ result \in [Threads -> {"none", "accepted", "rejected"}]
          /\ accepted \in [Values -> Nat]

Init == /\ entries = {}
        /\ lock = NONE
        /\ pc = [t \in Threads |-> "idle"]
        /\ op = [t \in Threads |-> Clear]
        /\ result = [t \in Threads |-> "none"]
        /\ accepted = [v \in Values |-> 0]

Goto(t, label) == pc' = [pc EXCEPT ![t] = label]

Call(t, o) ==
    /\ pc[t] = "idle"
    /\ op' = [op EXCEPT ![t] = o]
    /\ result' = [result EXCEPT ![t] = "none"]
    /\ Goto(t, "enter")
    /\ UNCHANGED <<entries, lock, accepted>>

\* Seeded fault: the test and the insertion run without the lock.
NoLock == TRUE

LockFree == lock = NONE

Enter(t) ==
    /\ pc[t] = "enter"
    /\ LockFree
    /\ lock' = t
    /\ Goto(t, IF op[t] = Clear THEN "clear" ELSE "duplicate")
    /\ UNCHANGED <<entries, op, result, accepted>>

\* An early "return False" leaves through the end of the with block.
Reject(t) == /\ result' = [result EXCEPT ![t] = "rejected"]
             /\ Goto(t, "exit")

CheckDuplicate(t) ==
    /\ pc[t] = "duplicate"
    /\ IF op[t] \in entries THEN Reject(t)
                            ELSE Goto(t, "room") /\ UNCHANGED result
    /\ UNCHANGED <<entries, lock, op, accepted>>

\* Seeded fault: "len > max_entries" instead of ">=".
CheckRoomOffByOne(t) ==
    /\ pc[t] = "room"
    /\ IF Cardinality(entries) <= MaxEntries THEN Goto(t, "insert") /\ UNCHANGED result
                                              ELSE Reject(t)
    /\ UNCHANGED <<entries, lock, op, accepted>>

\* Seeded fault: a full cache evicts a value to make room for the new one.
CheckRoomEvicting(t) ==
    /\ pc[t] = "room"
    /\ Goto(t, "insert")
    /\ IF HasRoom(entries, MaxEntries)
       THEN UNCHANGED entries
       ELSE \E old \in entries : entries' = entries \ {old}
    /\ UNCHANGED <<lock, op, result, accepted>>

CheckRoom(t) ==
    /\ pc[t] = "room"
    /\ IF HasRoom(entries, MaxEntries) THEN Goto(t, "insert") /\ UNCHANGED result
                                       ELSE Reject(t)
    /\ UNCHANGED <<entries, lock, op, accepted>>

Insert(t) ==
    /\ pc[t] = "insert"
    /\ entries' = entries \cup {op[t]}
    /\ result' = [result EXCEPT ![t] = "accepted"]
    /\ accepted' = [accepted EXCEPT ![op[t]] = @ + 1]
    /\ Goto(t, "exit")
    /\ UNCHANGED <<lock, op>>

\* Seeded fault: clear() leaves an entry for None behind.
ClearToPlaceholder(t) ==
    /\ pc[t] = "clear"
    /\ entries' = {NONE}
    /\ accepted' = [v \in Values |-> 0]
    /\ Goto(t, "exit")
    /\ UNCHANGED <<lock, op, result>>

ClearAll(t) ==
    /\ pc[t] = "clear"
    /\ entries' = {}
    /\ accepted' = [v \in Values |-> 0]
    /\ Goto(t, "exit")
    /\ UNCHANGED <<lock, op, result>>

Exit(t) ==
    /\ pc[t] = "exit"
    /\ lock' = NONE
    /\ Goto(t, "idle")
    /\ UNCHANGED <<entries, op, result, accepted>>

Step(t) == \/ \E o \in Values \cup {Clear} : Call(t, o)
           \/ Enter(t)
           \/ CheckDuplicate(t)
           \/ CheckRoom(t)
           \/ Insert(t)
           \/ ClearAll(t)
           \/ Exit(t)

Next == \E t \in Threads : Step(t)

Spec == Init /\ [][Next]_vars

-----------------------------------------------------------------------------
\* However the threads interleave between the duplicate test, the size test
\* and the insertion, accept() returns True at most once for a value (until
\* clear() is called): a nonce authenticates one request.
AcceptedOnce == \A v \in Values : accepted[v] <= 1

\* The cache never grows past max_entries, even when several threads found
\* the last free place before one of them filled it.
Bounded == Cardinality(entries) <= MaxEntries

\* The locked code is the atomic one-time test of OneTimeValues: the answer
\* is decided at the statement that fixes the return value.
RoomForOne(values) == HasRoom(values, MaxEntries)

OneTime == INSTANCE OneTimeValues
               WITH Callers <- Threads, retained <- entries, answer <- result,
                    Room <- RoomForOne

ImplementsOneTime == OneTime!Spec

-----------------------------------------------------------------------------
\* The inductive invariant behind AcceptedOnce, Bounded and ImplementsOneTime
\* (proved in ReplayCacheProofs): only the lock holder is inside the with
\* block, so what it has tested is still true when it acts on it, and the
\* count of acceptances is exactly membership.
Tested(t) ==
    /\ pc[t] \in Inside <=> lock = t
    /\ pc[t] \in {"enter", "duplicate", "room", "insert"} => result[t] = "none"
    /\ pc[t] \in {"duplicate", "room", "insert"} => op[t] \in Values
    /\ pc[t] \in {"room", "insert"} => op[t] \notin entries
    /\ pc[t] = "insert" => HasRoom(entries, MaxEntries)

LockInv ==
    /\ TypeOK
    /\ IsFiniteSet(entries)
    /\ Bounded
    /\ \A v \in Values : accepted[v] = IF v \in entries THEN 1 ELSE 0
    /\ \A t \in Threads : Tested(t)
=============================================================================
