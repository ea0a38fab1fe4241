------------------------- MODULE ReplayCacheProofs -------------------------
(***************************************************************************)
(* Proofs about ReplayCache for any number of threads, any set of values   *)
(* and any positive size, and about TrustRoute, whose threads share such a *)
(* cache: what the lock gives to the nonce, and what is left to the pin.   *)
(***************************************************************************)
EXTENDS TrustRoute, FiniteSetTheorems, TLAPS

\* The empty cache satisfies the invariant.
LEMMA LockInvInit == Init => LockInv
<1> SUFFICES ASSUME Init PROVE LockInv
    OBVIOUS
<1>1. IsFiniteSet(entries) /\ Cardinality(entries) = 0
    BY FS_EmptySet DEF Init
<1>2. TypeOK
    BY DEF Init, TypeOK
<1>3. Bounded
    BY <1>1, MaxEntriesAssumption DEF Bounded
<1>4. \A t \in Threads : Tested(t)
    BY NamesAssumption DEF Init, Tested, Inside
<1>5. \A v \in Values : accepted[v] = IF v \in entries THEN 1 ELSE 0
    BY DEF Init
<1> QED
    BY <1>1, <1>2, <1>3, <1>4, <1>5 DEF LockInv

\* Every statement of accept() and clear() preserves the invariant: a step
\* inside the with block excludes the others from it.
LEMMA LockInvStep == LockInv /\ [Next]_vars => LockInv'
<1> SUFFICES ASSUME LockInv, [Next]_vars PROVE LockInv'
    OBVIOUS
<1>0. /\ TypeOK /\ Bounded /\ IsFiniteSet(entries) /\ Cardinality(entries) \in Nat
      /\ \A v \in Values : accepted[v] = IF v \in entries THEN 1 ELSE 0
      /\ \A u \in Threads : Tested(u)
    BY FS_CardinalityType DEF LockInv
<1>1. CASE UNCHANGED vars
    BY <1>1, <1>0 DEF vars, LockInv, TypeOK, Bounded, Tested, HasRoom
<1>2. ASSUME NEW t \in Threads, NEW o \in Values \cup {Clear}, Call(t, o)
      PROVE  LockInv'
  <2>1. TypeOK'
      BY <1>0, <1>2 DEF TypeOK, Call, Goto
  <2>2. ASSUME NEW u \in Threads PROVE Tested(u)'
      BY <1>0, <1>2, <2>2 DEF TypeOK, Call, Goto, Tested, Inside, HasRoom
  <2> QED
      BY <1>0, <1>2, <2>1, <2>2 DEF Call, LockInv, Bounded
<1>3. ASSUME NEW t \in Threads, Enter(t) PROVE LockInv'
  <2>1. TypeOK'
      BY <1>0, <1>3 DEF TypeOK, Enter, Goto, Inside
  <2>2. ASSUME NEW u \in Threads PROVE Tested(u)'
      BY <1>0, <1>3, NamesAssumption
         DEF TypeOK, Enter, Goto, Tested, Inside, LockFree, HasRoom
  <2> QED
      BY <1>0, <1>3, <2>1, <2>2 DEF Enter, LockInv, Bounded
<1>4. ASSUME NEW t \in Threads, CheckDuplicate(t) PROVE LockInv'
  <2>1. TypeOK'
      BY <1>0, <1>4 DEF TypeOK, CheckDuplicate, Reject, Goto, Inside
  <2>2. ASSUME NEW u \in Threads PROVE Tested(u)'
      BY <1>0, <1>4 DEF TypeOK, CheckDuplicate, Reject, Goto, Tested, Inside, HasRoom
  <2> QED
      BY <1>0, <1>4, <2>1, <2>2 DEF CheckDuplicate, LockInv, Bounded
<1>5. ASSUME NEW t \in Threads, CheckRoom(t) PROVE LockInv'
  <2>1. TypeOK'
      BY <1>0, <1>5 DEF TypeOK, CheckRoom, Reject, Goto, Inside
  <2>2. ASSUME NEW u \in Threads PROVE Tested(u)'
      BY <1>0, <1>5 DEF TypeOK, CheckRoom, Reject, Goto, Tested, Inside, HasRoom
  <2> QED
      BY <1>0, <1>5, <2>1, <2>2 DEF CheckRoom, LockInv, Bounded
<1>6. ASSUME NEW t \in Threads, Insert(t) PROVE LockInv'
  <2>1. op[t] \in Values /\ op[t] \notin entries /\ HasRoom(entries, MaxEntries)
      BY <1>0, <1>6 DEF Insert, Tested
  <2>2. /\ IsFiniteSet(entries')
        /\ Cardinality(entries') = Cardinality(entries) + 1
      BY <1>0, <1>6, <2>1, FS_AddElement DEF Insert
  <2>3. Bounded'
      BY <1>0, <2>1, <2>2, MaxEntriesAssumption DEF Bounded, HasRoom
  <2>4. TypeOK'
      BY <1>0, <1>6, <2>1 DEF TypeOK, Insert, Goto, Inside
  <2>5. (\A v \in Values : accepted[v] = IF v \in entries THEN 1 ELSE 0)'
      BY <1>0, <1>6, <2>1 DEF TypeOK, Insert
  <2>6. lock = t /\ \A u \in Threads \ {t} : pc[u] \notin Inside
      BY <1>0, <1>6 DEF Insert, Tested, Inside
  <2>7. ASSUME NEW u \in Threads PROVE Tested(u)'
    <3>1. CASE u = t
        BY <1>0, <1>6, <2>6, <3>1 DEF TypeOK, Insert, Goto, Tested, Inside
    <3>2. CASE u # t
        BY <1>0, <1>6, <2>6, <3>2 DEF TypeOK, Insert, Goto, Tested, Inside
    <3> QED
        BY <3>1, <3>2
  <2> QED
      BY <2>2, <2>3, <2>4, <2>5, <2>7 DEF LockInv
<1>7. ASSUME NEW t \in Threads, ClearAll(t) PROVE LockInv'
  <2>1. IsFiniteSet(entries') /\ Cardinality(entries') = 0
      BY <1>7, FS_EmptySet DEF ClearAll
  <2>2. TypeOK'
      BY <1>0, <1>7 DEF TypeOK, ClearAll, Goto, Inside
  <2>3. lock = t /\ \A u \in Threads \ {t} : pc[u] \notin Inside
      BY <1>0, <1>7 DEF ClearAll, Tested, Inside
  <2>4. ASSUME NEW u \in Threads PROVE Tested(u)'
      BY <1>0, <1>7, <2>3 DEF TypeOK, ClearAll, Goto, Tested, Inside
  <2>5. (\A v \in Values : accepted[v] = IF v \in entries THEN 1 ELSE 0)'
      BY <1>7 DEF ClearAll
  <2> QED
      BY <2>1, <2>2, <2>4, <2>5, MaxEntriesAssumption DEF LockInv, Bounded
<1>8. ASSUME NEW t \in Threads, Exit(t) PROVE LockInv'
  <2>1. TypeOK'
      BY <1>0, <1>8 DEF TypeOK, Exit, Goto
  <2>2. ASSUME NEW u \in Threads PROVE Tested(u)'
      BY <1>0, <1>8, NamesAssumption DEF TypeOK, Exit, Goto, Tested, Inside, HasRoom
  <2> QED
      BY <1>0, <1>8, <2>1, <2>2 DEF Exit, LockInv, Bounded
<1> QED
    BY <1>1, <1>2, <1>3, <1>4, <1>5, <1>6, <1>7, <1>8 DEF Next, Step

\* The invariant holds in every reachable state.
THEOREM LockInvHolds == Spec => []LockInv
    BY LockInvInit, LockInvStep, PTL DEF Spec

\* accept() returns True at most once for a value, for any number of threads
\* (replay_cache.py 24-32).
THEOREM AcceptedOnceHolds == Spec => []AcceptedOnce
<1>1. LockInv => AcceptedOnce
    BY DEF LockInv, AcceptedOnce
<1> QED
    BY <1>1, LockInvHolds, PTL

\* The cache never holds more than max_entries values (replay_cache.py 29).
THEOREM BoundedHolds == Spec => []Bounded
<1>1. LockInv => Bounded
    BY DEF LockInv
<1> QED
    BY <1>1, LockInvHolds, PTL

\* The locked accept() implements the atomic test: each step of a thread is a
\* step of OneTimeValues or leaves its state unchanged.
THEOREM CacheImplementsOneTime == Spec => ImplementsOneTime
<1>1. Init => OneTime!Init
    BY DEF Init, OneTime!Init
<1>2. LockInv /\ [Next]_vars => [OneTime!Next]_(OneTime!vars)
  <2> SUFFICES ASSUME LockInv, [Next]_vars
               PROVE  OneTime!Next \/ UNCHANGED OneTime!vars
      OBVIOUS
  <2> USE DEF OneTime!vars, OneTime!Next
  <2>0. TypeOK /\ (\A u \in Threads : Tested(u))
      BY DEF LockInv
  <2>1. CASE UNCHANGED vars
      BY <2>1 DEF vars
  <2>2. ASSUME NEW t \in Threads, NEW o \in Values \cup {Clear}, Call(t, o)
        PROVE  OneTime!Next
      BY <2>2 DEF Call, OneTime!Ask
  <2>3. ASSUME NEW t \in Threads, Enter(t) \/ Exit(t)
        PROVE  UNCHANGED OneTime!vars
      BY <2>3 DEF Enter, Exit
  <2>4. ASSUME NEW t \in Threads, CheckDuplicate(t)
        PROVE  OneTime!Next \/ UNCHANGED OneTime!vars
    <3>1. result[t] = "none" /\ op[t] \in Values
        BY <2>0, <2>4 DEF CheckDuplicate, Tested
    <3>2. CASE op[t] \in entries
      <4>1. OneTime!Reject(t, op[t])
          BY <2>4, <3>1, <3>2 DEF CheckDuplicate, Reject, OneTime!Reject
      <4> QED
          BY <4>1, <3>1
    <3>3. CASE op[t] \notin entries
        BY <2>4, <3>3 DEF CheckDuplicate
    <3> QED
        BY <3>2, <3>3
  <2>5. ASSUME NEW t \in Threads, CheckRoom(t)
        PROVE  OneTime!Next \/ UNCHANGED OneTime!vars
    <3>1. result[t] = "none" /\ op[t] \in Values
        BY <2>0, <2>5 DEF CheckRoom, Tested
    <3>2. CASE HasRoom(entries, MaxEntries)
        BY <2>5, <3>2 DEF CheckRoom
    <3>3. CASE ~HasRoom(entries, MaxEntries)
      <4>1. OneTime!Reject(t, op[t])
          BY <2>5, <3>1, <3>3 DEF CheckRoom, Reject, RoomForOne, OneTime!Reject
      <4> QED
          BY <4>1, <3>1
    <3> QED
        BY <3>2, <3>3
  <2>6. ASSUME NEW t \in Threads, Insert(t) PROVE OneTime!Next
    <3>1. /\ result[t] = "none" /\ op[t] \in Values
          /\ op[t] \notin entries /\ HasRoom(entries, MaxEntries)
        BY <2>0, <2>6 DEF Insert, Tested
    <3>2. OneTime!Accept(t, op[t])
        BY <2>6, <3>1 DEF Insert, RoomForOne, OneTime!Accept
    <3> QED
        BY <3>1, <3>2
  <2>7. ASSUME NEW t \in Threads, ClearAll(t) PROVE OneTime!Next
      BY <2>7 DEF ClearAll, OneTime!Forget
  <2> QED
      BY <2>1, <2>2, <2>3, <2>4, <2>5, <2>6, <2>7 DEF Next, Step
<1> QED
    BY <1>1, <1>2, LockInvHolds, PTL DEF Spec, ImplementsOneTime, OneTime!Spec

-----------------------------------------------------------------------------
\* The route.

\* The key that a thread is about to store is of a request that came before the
\* pin; one that has not compared yet is such a request too, or will be compared
\* with a pin.
Racer(t) ==
    /\ at[t] # "free" => req[t] \in Requests
    /\ at[t] = "store" => /\ req[t].key # NONE
                          /\ req[t].key \in offered[req[t].sender]
    /\ at[t] = "nonce" => \/ req[t].key \in offered[req[t].sender]
                          \/ trusted[req[t].sender] # NONE

\* The inductive invariant behind OnlyRacersReplace.
RaceInv ==
    /\ RouteTypes
    /\ OnlyRacersReplace
    /\ \A t \in Threads : Racer(t)

-----------------------------------------------------------------------------
\* Every step of the route is a step of the cache, or leaves it alone.
LEMMA RouteStepsCache == RouteNext => [Next]_vars
<1> SUFFICES ASSUME NEW t \in Threads, RouteStep(t) PROVE [Next]_vars
    BY DEF RouteNext
<1>1. ASSUME NEW r \in Requests, Receive(t, r) PROVE Next
  <2>1. r.nonce \in Values
      BY RequestsAssumption
  <2>2. Call(t, r.nonce)
      BY <1>1 DEF Receive
  <2> QED
      BY <2>1, <2>2 DEF Next, Step
<1>2. CASE Reset(t)
    BY <1>2 DEF Reset, Next, Step
<1>3. CASE InCache(t)
    BY <1>3 DEF InCache, Next, Step
<1>4. CASE RefuseNonce(t) \/ Compare(t) \/ Store(t)
    BY <1>4 DEF RefuseNonce, Compare, Store
<1> QED
    BY <1>1, <1>2, <1>3, <1>4 DEF RouteStep

\* The route uses the cache as ReplayCache describes: what is proved there holds
\* of the nonces here.
THEOREM RouteImplementsCache == RouteSpec => Spec
<1>1. RouteInit => Init
    BY DEF RouteInit
<1>2. [RouteNext]_allVars => [Next]_vars
    BY RouteStepsCache DEF allVars
<1> QED
    BY <1>1, <1>2, PTL DEF RouteSpec, Spec

\* A registration nonce is accepted once, whatever the route's threads do
\* (worker_server.py 131-136, replay_cache.py 22-30).
THEOREM RouteNonceOnce == RouteSpec => []AcceptedOnce
    BY RouteImplementsCache, AcceptedOnceHolds, PTL

-----------------------------------------------------------------------------
LEMMA RaceInvInit == RouteInit => RaceInv
    BY RequestsAssumption DEF RouteInit, RaceInv, RouteTypes, OnlyRacersReplace, Racer

LEMMA RaceInvStep == RaceInv /\ [RouteNext]_allVars => RaceInv'
<1> SUFFICES ASSUME RaceInv, [RouteNext]_allVars PROVE RaceInv'
    OBVIOUS
<1>0. /\ RouteTypes /\ OnlyRacersReplace
      /\ \A u \in Threads : Racer(u)
    BY DEF RaceInv
<1>1. CASE UNCHANGED allVars
    BY <1>0, <1>1 DEF allVars, routeVars, RaceInv, RouteTypes, OnlyRacersReplace, Racer
<1>2. ASSUME NEW t \in Threads, NEW r \in Requests, Receive(t, r) PROVE RaceInv'
  <2>1. r.sender \in Senders /\ r.key \in Keys \cup {NONE}
      BY RequestsAssumption
  <2>2. RouteTypes'
      BY <1>0, <1>2, <2>1 DEF RouteTypes, Receive
  <2>3. /\ trusted' = trusted
        /\ \A s \in Senders : offered[s] \subseteq offered'[s]
        /\ r.key \in offered'[r.sender] \/ trusted[r.sender] # NONE
      BY <1>0, <1>2, <2>1 DEF RouteTypes, Receive
  <2>4. OnlyRacersReplace'
      BY <1>0, <2>3 DEF OnlyRacersReplace
  <2>5. ASSUME NEW u \in Threads PROVE Racer(u)'
    <3>1. CASE u = t
        BY <1>0, <1>2, <2>3, <3>1 DEF Receive, RouteTypes, Racer
    <3>2. CASE u # t
      <4>1. at'[u] = at[u] /\ req'[u] = req[u]
          BY <1>0, <1>2, <3>2 DEF Receive, RouteTypes
      <4>2. at[u] # "free" => req[u].sender \in Senders
          BY <1>0, RequestsAssumption DEF Racer
      <4> QED
          BY <1>0, <2>3, <4>1, <4>2 DEF Racer, RouteTypes
    <3> QED
        BY <3>1, <3>2
  <2> QED
      BY <2>2, <2>4, <2>5 DEF RaceInv
<1>3. ASSUME NEW t \in Threads, Reset(t) \/ InCache(t) PROVE RaceInv'
  <2>1. UNCHANGED routeVars
      BY <1>3 DEF Reset, InCache
  <2> QED
      BY <1>0, <2>1 DEF routeVars, RaceInv, RouteTypes, OnlyRacersReplace, Racer
<1>4. ASSUME NEW t \in Threads, RefuseNonce(t) PROVE RaceInv'
    BY <1>0, <1>4 DEF RefuseNonce, Respond, RaceInv, RouteTypes, OnlyRacersReplace, Racer
<1>5. ASSUME NEW t \in Threads, Compare(t) PROVE RaceInv'
  <2>1. UNCHANGED <<trusted, offered>>
      BY <1>5 DEF Compare
  <2>2. RouteTypes' /\ OnlyRacersReplace'
      BY <1>0, <1>5 DEF Compare, Respond, RouteTypes, OnlyRacersReplace
  <2>3. ASSUME ~Refused(t)
        PROVE  req[t].key # NONE /\ req[t].key \in offered[req[t].sender]
    <3>1. req[t] \in Requests /\ req[t].sender \in Senders
        BY <1>0, <1>5, RequestsAssumption DEF Compare, Returned, Racer
    <3>2. req[t].key # NONE /\ trusted[req[t].sender] \in {NONE, req[t].key}
        BY <2>3 DEF Refused
    <3>3. CASE trusted[req[t].sender] = NONE
        BY <1>0, <1>5, <3>2, <3>3 DEF Compare, Returned, Racer
    <3>4. CASE trusted[req[t].sender] = req[t].key
        BY <1>0, <3>1, <3>2, <3>4 DEF OnlyRacersReplace
    <3> QED
        BY <3>2, <3>3, <3>4
  <2>4. ASSUME NEW u \in Threads PROVE Racer(u)'
    <3>1. CASE u = t
      <4>1. CASE Refused(t) /\ Respond(t)
          BY <1>0, <3>1, <4>1 DEF Respond, RouteTypes, Racer
      <4>2. CASE ~Refused(t) /\ at' = [at EXCEPT ![t] = "store"] /\ UNCHANGED req
        <5>1. at'[t] = "store" /\ req'[t] = req[t] /\ req[t] \in Requests
            BY <1>0, <1>5, <4>2 DEF RouteTypes, Racer, Compare, Returned
        <5> QED
            BY <2>1, <2>3, <3>1, <4>2, <5>1 DEF Racer
      <4> QED
          BY <1>5, <4>1, <4>2 DEF Compare
    <3>2. CASE u # t
      <4>1. at'[u] = at[u] /\ req'[u] = req[u]
          BY <1>0, <1>5, <3>2 DEF Compare, Respond, RouteTypes
      <4> QED
          BY <1>0, <2>1, <4>1 DEF Racer
    <3> QED
        BY <3>1, <3>2
  <2> QED
      BY <2>2, <2>4 DEF RaceInv
<1>6. ASSUME NEW t \in Threads, Store(t) PROVE RaceInv'
  <2>1. /\ req[t] \in Requests /\ req[t].sender \in Senders /\ req[t].key \in Keys
        /\ req[t].key # NONE /\ req[t].key \in offered[req[t].sender]
      BY <1>0, <1>6, RequestsAssumption DEF Store, Racer
  <2>2. RouteTypes'
      BY <1>0, <1>6, <2>1 DEF Store, Respond, RouteTypes
  <2>3. OnlyRacersReplace'
      BY <1>0, <1>6, <2>1 DEF Store, RouteTypes, OnlyRacersReplace
  <2>4. /\ offered' = offered
        /\ \A s \in Senders : trusted[s] # NONE => trusted'[s] # NONE
      BY <1>0, <1>6, <2>1 DEF Store, RouteTypes
  <2>5. ASSUME NEW u \in Threads PROVE Racer(u)'
    <3>1. CASE u = t
        BY <1>0, <1>6, <3>1 DEF Store, Respond, RouteTypes, Racer
    <3>2. CASE u # t
      <4>1. at'[u] = at[u] /\ req'[u] = req[u]
          BY <1>0, <1>6, <3>2 DEF Store, Respond, RouteTypes
      <4>2. at[u] # "free" => req[u].sender \in Senders
          BY <1>0, RequestsAssumption DEF Racer
      <4> QED
          BY <1>0, <2>4, <4>1, <4>2 DEF Racer, RouteTypes
    <3> QED
        BY <3>1, <3>2
  <2> QED
      BY <2>2, <2>3, <2>5 DEF RaceInv
<1> QED
    BY <1>1, <1>2, <1>3, <1>4, <1>5, <1>6 DEF RouteNext, RouteStep

\* Type correctness of the route together with its cache.
THEOREM RouteTypeCorrect == RouteSpec => []RouteTypeOK
<1>1. RouteSpec => []RaceInv
    BY RaceInvInit, RaceInvStep, PTL DEF RouteSpec
<1>2. LockInv /\ RaceInv => RouteTypeOK
    BY DEF LockInv, RaceInv, RouteTypeOK
<1> QED
    BY <1>1, <1>2, RouteImplementsCache, LockInvHolds, PTL

\* Without a lock, a pin can change hands only between requests that came before
\* there was one, for any number of threads (secure_search_agent.py 45-50; the
\* same code is agent_registry.py 20-25).
THEOREM OnlyRacersReplaceHolds == RouteSpec => []OnlyRacersReplace
<1>1. RaceInv => OnlyRacersReplace
    BY DEF RaceInv
<1> QED
    BY <1>1, RaceInvInit, RaceInvStep, PTL DEF RouteSpec
=============================================================================
