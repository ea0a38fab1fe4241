------------------------ MODULE SearchAdmissionProofs ------------------------
(***************************************************************************)
(* Proofs about SearchAdmission for any number of handler threads and any  *)
(* messages: what execute_search guarantees although it takes no lock.     *)
(***************************************************************************)
EXTENDS SearchAdmission, TLAPS

\* A fresh session satisfies the invariant.
LEMMA AdmissionInvInit == Init => AdmissionInv
<1> SUFFICES ASSUME Init PROVE AdmissionInv
    OBVIOUS
<1>1. TypeOK
    BY DEF Init, TypeOK, Kinds
<1>2. \A h \in Handlers : Handled(h)
    BY DEF Init, Handled, Refused
<1>3. LateCopiesRefused
    BY DEF Init, LateCopiesRefused
<1>4. \A m \in Messages : QueryOf[m] \notin ReplaySet(m)
    BY DEF Init, ReplaySet
<1> QED
    BY <1>1, <1>2, <1>3, <1>4 DEF AdmissionInv, Init

\* Sameness of messages is an equivalence on what ran and what is handled.
LEMMA SameServed ==
    ASSUME NEW m1 \in Messages, NEW m2 \in Messages, Same(m1, m2)
    PROVE  /\ ReplaySet(m1) = ReplaySet(m2)
           /\ WillRun(m1) => WillRun(m2)
           /\ Served(m1) => Served(m2)
<1>1. ReplaySet(m1) = ReplaySet(m2)
    BY DEF Same, ReplaySet, KindOf
<1>2. HasRun(m1) => HasRun(m2)
    BY DEF Same, HasRun
<1>3. ASSUME NEW labels, HandledAt(labels, m1) PROVE HandledAt(labels, m2)
    BY <1>3 DEF HandledAt, Same
<1> QED
    BY <1>1, <1>2, <1>3 DEF WillRun, Served

\* What must run runs before what is served is forgotten.
LEMMA WillRunServed == ASSUME NEW m \in Messages, WillRun(m) PROVE Served(m)
    BY DEF WillRun, Served, HandledAt

\* Queries and the kinds of messages index the execution counts.
LEMMA RanIndex ==
    ASSUME NEW m \in Messages
    PROVE  <<KindOf(m), QueryOf[m]>> \in Kinds \X Queries
    BY DEF Kinds, KindOf, Queries

\* Counting up keeps a function into the naturals one.
LEMMA CountUp ==
    ASSUME NEW S, NEW f \in [S -> Nat], NEW i
    PROVE  [f EXCEPT ![i] = @ + 1] \in [S -> Nat]
<1>1. \A e \in S : f[e] \in Nat /\ f[e] + 1 \in Nat
    OBVIOUS
<1> QED
    BY <1>1, Zenon

\* No step of a thread takes an execution back.
LEMMA RanGrows ==
    ASSUME TypeOK, NEW h \in Handlers, Step(h), NEW e \in Kinds \X Queries
    PROVE  ran[e] \in Nat /\ ran'[e] \in Nat /\ ran'[e] >= ran[e]
<1>1. ran \in [Kinds \X Queries -> Nat]
    BY DEF TypeOK
<1>2. CASE Run(h)
  <2>1. PICK i : ran' = [ran EXCEPT ![i] = @ + 1]
      BY <1>2 DEF Run
  <2> QED
      BY <1>1, <2>1
<1>3. CASE UNCHANGED ran
    BY <1>1, <1>3
<1> QED
    BY <1>2, <1>3 DEF Step, ReceiveEnvelope, ReceiveArtifact, CheckNonce, Open,
                      CheckQuery, Record

\* So what has run has run after it.
LEMMA HasRunKept ==
    ASSUME TypeOK, NEW h \in Handlers, Step(h), NEW m \in Messages, HasRun(m)
    PROVE  HasRun(m)'
<1>1. HasRun(m)' <=> ran'[<<KindOf(m), QueryOf[m]>>] > 0
    BY DEF HasRun, KindOf
<1> QED
    BY <1>1, RanIndex, RanGrows DEF HasRun

\* A step of one thread leaves the others where they are.
LEMMA OthersStay ==
    ASSUME TypeOK, NEW h \in Handlers, Step(h), NEW g \in Handlers, g # h
    PROVE  pc'[g] = pc[g] /\ msg'[g] = msg[g] /\ answer'[g] = answer[g]
           /\ known'[g] = known[g]
    BY DEF TypeOK, Step, ReceiveEnvelope, ReceiveArtifact, Receive, Idle, CheckNonce, Open,
           CheckQuery, Record, Run, Goto, Reply

\* Running a query makes it one that has run.
LEMMA RunRuns ==
    ASSUME TypeOK, NEW h \in Handlers, Run(h), msg[h] \in Messages,
           NEW m \in Messages, Same(msg[h], m)
    PROVE  HasRun(m)'
<1> DEFINE e == <<KindOf(m), QueryOf[m]>>
<1>1. e \in Kinds \X Queries /\ ran \in [Kinds \X Queries -> Nat]
    BY RanIndex DEF TypeOK
<1>2. ran' = [ran EXCEPT ![e] = @ + 1]
    BY DEF Run, Same
<1>3. ran'[e] > 0
  <2> HIDE DEF e
  <2> QED
      BY <1>1, <1>2
<1> QED
    BY <1>3 DEF HasRun, KindOf

\* What is certain to run stays so.
LEMMA WillRunKept ==
    ASSUME AdmissionInv, NEW h \in Handlers, Step(h), NEW m \in Messages, WillRun(m)
    PROVE  WillRun(m)'
<1>0. TypeOK
    BY DEF AdmissionInv
<1>1. CASE HasRun(m)
    BY <1>0, <1>1, HasRunKept DEF WillRun
<1>2. CASE HandledAt({"run"}, m)
  <2>1. PICK g \in Handlers : pc[g] = "run" /\ msg[g] \in Messages /\ Same(msg[g], m)
      BY <1>2 DEF HandledAt
  <2>2. CASE g = h
    <3>1. Run(h)
        BY <2>1, <2>2 DEF Step, ReceiveEnvelope, ReceiveArtifact, Receive, Idle, CheckNonce,
                          Open, CheckQuery, Record
    <3> QED
        BY <1>0, <2>1, <2>2, <3>1, RunRuns DEF WillRun
  <2>3. CASE g # h
    <3>1. pc'[g] = "run" /\ msg'[g] \in Messages /\ Same(msg'[g], m)
        BY <1>0, <2>1, <2>3, OthersStay
    <3> QED
        BY <3>1 DEF WillRun, HandledAt, Same, KindOf
  <2> QED
      BY <2>2, <2>3
<1> QED
    BY <1>1, <1>2 DEF WillRun

\* What has run or is being handled stays so: a thread turns its message away
\* only when the query is recorded, and then it will run.
LEMMA ServedKept ==
    ASSUME AdmissionInv, NEW h \in Handlers, Step(h), NEW m \in Messages, Served(m)
    PROVE  Served(m)'
<1>0. TypeOK
    BY DEF AdmissionInv
<1>1. CASE HasRun(m)
    BY <1>0, <1>1, HasRunKept DEF Served
<1>2. CASE HandledAt({"query", "record", "run"}, m)
  <2>1. PICK g \in Handlers : /\ pc[g] \in {"query", "record", "run"}
                              /\ msg[g] \in Messages /\ Same(msg[g], m)
      BY <1>2 DEF HandledAt
  <2>2. CASE g # h
    <3>1. pc'[g] = pc[g] /\ msg'[g] = msg[g]
        BY <1>0, <2>2, OthersStay
    <3> QED
        BY <2>1, <3>1 DEF Served, HandledAt, Same, KindOf
  <2>3. CASE g = h /\ Run(h)
      BY <1>0, <2>1, <2>3, RunRuns DEF Served
  <2>4. CASE g = h /\ QueryOf[msg[h]] \in ReplaySet(msg[h])
    <3>1. WillRun(msg[h])
        BY <2>1, <2>4 DEF AdmissionInv
    <3>2. WillRun(m)'
        BY <2>1, <2>4, <3>1, SameServed, WillRunKept
    <3> QED
        BY <3>2 DEF WillRun, Served, HandledAt
  <2>5. CASE g = h /\ pc'[h] \in {"record", "run"} /\ msg' = msg
      BY <2>1, <2>5 DEF Served, HandledAt, Same, KindOf
  <2>6. \/ Run(h) \/ QueryOf[msg[h]] \in ReplaySet(msg[h])
        \/ pc'[h] \in {"record", "run"} /\ msg' = msg
        \/ g # h
      BY <1>0, <2>1 DEF TypeOK, Step, ReceiveEnvelope, ReceiveArtifact, Receive, Idle,
                        CheckNonce, Open, CheckQuery, Record, Goto, Reply
  <2> QED
      BY <2>2, <2>3, <2>4, <2>5, <2>6
<1> QED
    BY <1>1, <1>2 DEF Served

\* Every statement of execute_search preserves the invariant.
LEMMA ThreadStep ==
    ASSUME AdmissionInv, NEW h \in Handlers, Step(h)
    PROVE  AdmissionInv'
<1>0. /\ TypeOK /\ LateCopiesRefused
      /\ \A g \in Handlers : Handled(g)
      /\ \A m \in Messages : QueryOf[m] \in ReplaySet(m) => WillRun(m)
      /\ \A m \in nonces : Served(m)
    BY DEF AdmissionInv
<1>1. TypeOK'
  <2>1. ran' \in [Kinds \X Queries -> Nat]
    <3>1. CASE Run(h)
      <4>1. PICK i : ran' = [ran EXCEPT ![i] = @ + 1]
          BY <3>1 DEF Run
      <4> QED
          BY <1>0, <4>1, CountUp DEF TypeOK
    <3>2. CASE UNCHANGED ran
        BY <1>0, <3>2 DEF TypeOK
    <3> QED
        BY <3>1, <3>2 DEF Step, ReceiveEnvelope, ReceiveArtifact, CheckNonce, Open,
                          CheckQuery, Record
  <2>2. CASE \E m \in Messages : ReceiveEnvelope(h, m) \/ ReceiveArtifact(h, m)
    <3>1. PICK m \in Messages : ReceiveEnvelope(h, m) \/ ReceiveArtifact(h, m)
        BY <2>2
    <3>2. ReplaySet(m) \in SUBSET Queries
        BY <1>0 DEF TypeOK, ReplaySet
    <3>3. /\ msg' = [msg EXCEPT ![h] = m] /\ known' = [known EXCEPT ![h] = ReplaySet(m)]
          /\ UNCHANGED <<live, nonces, queries, artifacts>>
        BY <3>1 DEF ReceiveEnvelope, ReceiveArtifact, Receive
    <3>4. /\ pc' \in [Handlers -> {"idle", "nonce", "open", "query", "record", "run"}]
          /\ answer' \in [Handlers -> {"none", "unknown session", "authentication failed",
                                        "replay detected", "results"}]
        BY <1>0, <3>1 DEF TypeOK, ReceiveEnvelope, ReceiveArtifact, Goto, Reply
    <3> QED
        BY <1>0, <2>1, <3>2, <3>3, <3>4 DEF TypeOK
  <2>3. CASE CheckNonce(h) \/ CheckQuery(h) \/ Run(h)
      BY <1>0, <2>1, <2>3 DEF TypeOK, CheckNonce, CheckQuery, Run, Goto, Reply
  <2>4. CASE Open(h) \/ Record(h)
    <3>1. msg[h] \in Messages /\ QueryOf[msg[h]] \in Queries
        BY <1>0, <2>4 DEF Handled, Open, Record, Queries
    <3>2. Open(h) => msg[h] \in Envelopes
        BY <1>0 DEF Handled, Open
    <3> QED
        BY <1>0, <2>1, <2>4, <3>1, <3>2 DEF TypeOK, Open, Record, Goto
  <2> QED
      BY <2>2, <2>3, <2>4 DEF Step
<1>2. \A m \in Messages \cup {NONE} : ReplaySet(m) \subseteq ReplaySet(m)'
    BY <1>0 DEF ReplaySet, Step, ReceiveEnvelope, ReceiveArtifact, CheckNonce, Open,
                CheckQuery, Record, Run
<1>3. LateCopiesRefused'
  <2> SUFFICES ASSUME NEW g \in Handlers, pc'[g] \in {"record", "run"}
               PROVE  QueryOf[msg'[g]] \notin known'[g]
      BY DEF LateCopiesRefused
  <2>1. CASE g # h
      BY <1>0, <2>1, OthersStay DEF LateCopiesRefused
  <2>2. CASE g = h /\ CheckQuery(h)
      BY <1>0, <2>2 DEF TypeOK, CheckQuery, Goto, Reply, Handled
  <2>3. CASE g = h /\ ~CheckQuery(h)
      BY <1>0, <2>3 DEF TypeOK, LateCopiesRefused, Step, ReceiveEnvelope,
                        ReceiveArtifact, Receive, Idle, CheckNonce, Open, Record, Run,
                        Goto, Reply
  <2> QED
      BY <2>1, <2>2, <2>3
<1>4. ASSUME NEW g \in Handlers, g # h PROVE Handled(g)'
  <2>1. /\ pc'[g] = pc[g] /\ msg'[g] = msg[g] /\ answer'[g] = answer[g]
        /\ known'[g] = known[g]
      BY <1>0, <1>4, OthersStay
  <2>2. msg[g] \in Messages \cup {NONE}
      BY <1>0 DEF TypeOK
  <2>3. known'[g] \subseteq ReplaySet(msg[g])'
      BY <1>0, <1>2, <2>1, <2>2 DEF Handled
  <2>4. ASSUME Refused(g)' PROVE Served(msg[g])'
    <3>1. PICK m \in Messages : msg[g] = m /\ Served(m)
        BY <1>0, <2>1, <2>4 DEF Handled, Refused
    <3> QED
        BY <2>1, <3>1, ServedKept DEF Served, HasRun, HandledAt, Same, KindOf
  <2> QED
      BY <1>0, <2>1, <2>3, <2>4 DEF Handled, ReplaySet, Refused
<1>5. Handled(h)'
  <2>1. CASE \E m \in Messages : ReceiveEnvelope(h, m) \/ ReceiveArtifact(h, m)
    <3>1. PICK m \in Messages : ReceiveEnvelope(h, m) \/ ReceiveArtifact(h, m)
        BY <2>1
    <3>2. /\ msg'[h] = m /\ known'[h] = ReplaySet(m)
          /\ queries' = queries /\ artifacts' = artifacts
        BY <1>0, <3>1 DEF TypeOK, ReceiveEnvelope, ReceiveArtifact, Receive
    <3>3. /\ answer'[h] \in {"none", "unknown session"}
          /\ pc'[h] \in {"nonce", "open"} => m \in Envelopes
        BY <1>0, <3>1 DEF TypeOK, ReceiveEnvelope, ReceiveArtifact, Goto, Reply
    <3> QED
        BY <3>2, <3>3 DEF Handled, Refused, ReplaySet
  <2>2. CASE ~ \E m \in Messages : ReceiveEnvelope(h, m) \/ ReceiveArtifact(h, m)
    <3>1. msg[h] \in Messages /\ pc[h] # "idle" /\ msg' = msg /\ known' = known
        BY <1>0, <2>2 DEF Handled, Step, CheckNonce, Open, CheckQuery, Record, Run
    <3>2. PICK m \in Messages : m = msg[h] /\ m = msg'[h]
        BY <3>1
    <3>3. known'[h] \subseteq ReplaySet(m)'
        BY <1>0, <1>2, <3>1, <3>2 DEF Handled
    <3>4. pc'[h] \in {"nonce", "open"} => m \in Envelopes
        BY <1>0, <2>2, <3>1, <3>2
           DEF TypeOK, Handled, Step, CheckNonce, Open, CheckQuery, Record, Run, Goto,
               Reply
    <3>5. ASSUME Refused(h)' PROVE Served(m)'
      <4>1. CASE Served(m)
          BY <4>1, ServedKept
      <4>2. CASE ~Served(m)
        <5>1. m \notin nonces /\ QueryOf[m] \notin ReplaySet(m) /\ ~Refused(h)
            BY <1>0, <3>2, <4>2, WillRunServed DEF Handled, Refused
        <5> QED
            BY <1>0, <2>2, <3>2, <3>5, <5>1
               DEF TypeOK, Refused, Step, CheckNonce, Open, CheckQuery, Record, Run,
                   Goto, Reply
      <4> QED
          BY <4>1, <4>2
    <3>6. Refused(h)' => Served(msg[h])'
        BY <3>2, <3>5 DEF Served, HasRun, HandledAt, Same, KindOf
    <3> QED
        BY <3>2, <3>3, <3>4, <3>6 DEF Handled, Refused, ReplaySet
  <2> QED
      BY <2>1, <2>2
<1>6. ASSUME NEW m \in Messages, QueryOf[m] \in ReplaySet(m)'
      PROVE  WillRun(m)'
  <2>1. CASE QueryOf[m] \in ReplaySet(m)
      BY <1>0, <2>1, WillRunKept
  <2>2. CASE QueryOf[m] \notin ReplaySet(m)
    <3>0. Record(h)
        BY <1>6, <2>2 DEF ReplaySet, Step, ReceiveEnvelope, ReceiveArtifact,
                          CheckNonce, Open, CheckQuery, Run
    <3>1. Record(h) /\ msg[h] \in Messages /\ Same(msg[h], m)
        BY <1>0, <1>6, <2>2, <3>0, MessagesAssumption
           DEF ReplaySet, Record, Handled, Same, KindOf, Messages
    <3>2. pc'[h] = "run" /\ msg' = msg
        BY <1>0, <3>1 DEF Record, Goto, TypeOK
    <3> QED
        BY <3>1, <3>2 DEF WillRun, HandledAt, Same, KindOf
  <2> QED
      BY <2>1, <2>2
<1>7. ASSUME NEW m \in nonces' PROVE Served(m)'
  <2>1. CASE m \in nonces
      BY <1>0, <2>1, ServedKept DEF TypeOK, Messages
  <2>2. CASE m \notin nonces
    <3>1. Open(h) /\ m = msg[h]
        BY <1>7, <2>2 DEF Step, ReceiveEnvelope, ReceiveArtifact, CheckNonce, Open,
                          CheckQuery, Record, Run
    <3>2. pc'[h] = "query" /\ msg'[h] = m /\ m \in Messages
        BY <1>0, <3>1 DEF Open, Goto, TypeOK, Handled
    <3> QED
        BY <3>2 DEF Served, HandledAt, Same
  <2> QED
      BY <2>1, <2>2
<1> QED
    BY <1>1, <1>3, <1>4, <1>5, <1>6, <1>7 DEF AdmissionInv

\* A teardown only takes the session from later messages.
LEMMA TeardownStep == AdmissionInv /\ Teardown => AdmissionInv'
<1> SUFFICES ASSUME AdmissionInv, Teardown PROVE AdmissionInv'
    OBVIOUS
<1>1. TypeOK' /\ LateCopiesRefused'
    BY DEF AdmissionInv, Teardown, TypeOK, LateCopiesRefused
<1>2. /\ UNCHANGED <<nonces, queries, artifacts, pc, msg, answer, known, ran>>
      /\ \A m \in Messages : Served(m) => Served(m)'
      /\ \A m \in Messages : WillRun(m) => WillRun(m)'
    BY DEF Teardown, Served, WillRun, HasRun, HandledAt, Same, KindOf
<1>3. ASSUME NEW h \in Handlers PROVE Handled(h)'
  <2>1. Served(msg[h]) => Served(msg[h])'
      BY <1>2 DEF Served, HasRun, HandledAt, Same, KindOf
  <2>2. Handled(h)
      BY DEF AdmissionInv
  <2> QED
      BY <1>2, <2>1, <2>2 DEF Handled, Refused, ReplaySet
<1>4. nonces \subseteq Messages
    BY DEF AdmissionInv, TypeOK, Messages
<1> QED
    BY <1>1, <1>2, <1>3, <1>4 DEF AdmissionInv, ReplaySet

\* The invariant speaks of the variables below only.
LEMMA Stuttering == AdmissionInv /\ UNCHANGED vars => AdmissionInv'
<1> SUFFICES ASSUME AdmissionInv, UNCHANGED vars PROVE AdmissionInv'
    OBVIOUS
<1>1. UNCHANGED <<live, nonces, queries, artifacts, pc, msg, answer, known, ran>>
    BY DEF vars
<1>2. TypeOK' /\ LateCopiesRefused'
    BY <1>1 DEF AdmissionInv, TypeOK, LateCopiesRefused
<1>3. ASSUME NEW h \in Handlers PROVE Handled(h)'
  <2>1. Served(msg[h]) => Served(msg[h])'
      BY <1>1 DEF Served, HasRun, HandledAt, Same, KindOf
  <2>2. Handled(h)
      BY DEF AdmissionInv
  <2> QED
      BY <1>1, <2>1, <2>2 DEF Handled, Refused, ReplaySet
<1>4. \A m \in Messages : (Served(m) <=> Served(m)') /\ (WillRun(m) <=> WillRun(m)')
    BY <1>1 DEF Served, WillRun, HasRun, HandledAt, Same, KindOf
<1>5. nonces \subseteq Messages
    BY DEF AdmissionInv, TypeOK, Messages
<1> QED
    BY <1>1, <1>2, <1>3, <1>4, <1>5 DEF AdmissionInv, ReplaySet

\* The invariant holds for any number of threads, envelopes and artifacts.
THEOREM AdmissionInvHolds == Spec => []AdmissionInv
<1>1. AdmissionInv /\ [Next]_vars => AdmissionInv'
  <2> SUFFICES ASSUME AdmissionInv, [Next]_vars PROVE AdmissionInv'
      OBVIOUS
  <2>1. CASE UNCHANGED vars
      BY <2>1, Stuttering
  <2> QED
      BY <2>1, ThreadStep, TeardownStep DEF Next
<1> QED
    BY <1>1, AdmissionInvInit, PTL DEF Spec

\* Every thread is at a statement of execute_search, and what is recorded are the
\* ids and nonces of the messages there are.
THEOREM TypeCorrect == Spec => []TypeOK
<1>1. AdmissionInv => TypeOK
    BY DEF AdmissionInv
<1> QED
    BY <1>1, AdmissionInvHolds, PTL

\* A copy that arrives after its query was recorded is refused, although no
\* thread locks anything.
THEOREM LateCopiesRefusedHolds == Spec => []LateCopiesRefused
<1>1. AdmissionInv => LateCopiesRefused
    BY DEF AdmissionInv
<1> QED
    BY <1>1, AdmissionInvHolds, PTL

\* When no message is being handled, every message refused as a replay has run.
THEOREM RefusedMeansRanHolds == Spec => []RefusedMeansRan
<1>1. AdmissionInv => RefusedMeansRan
  <2> SUFFICES ASSUME AdmissionInv, \A h \in Handlers : pc[h] = "idle",
                      NEW h \in Handlers, Refused(h)
               PROVE  HasRun(msg[h])
      BY DEF RefusedMeansRan, HasRun
  <2>1. Served(msg[h])
      BY DEF AdmissionInv, Handled
  <2> QED
      BY <2>1 DEF Served, HandledAt
<1> QED
    BY <1>1, AdmissionInvHolds, PTL
=============================================================================
