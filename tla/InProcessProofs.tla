-------------------------- MODULE InProcessProofs --------------------------
(***************************************************************************)
(* Proofs about InProcess for any orchestrators, workers, agent ids,       *)
(* epochs, sizes and byte strings: what calls that may be cut off at every *)
(* event leave behind.                                                     *)
(***************************************************************************)
EXTENDS InProcess, SessionEncodingProofs

-----------------------------------------------------------------------------
\* The running call.

Establishing == {"pin", "derive", "accept", "keep"}
Delegating == {"seal", "execute", "open"}

\* The kind of a call can be told from the statement it is at.
LEMMA CallKinds ==
    ASSUME NEW c \in CallRecords
    PROVE  /\ c.pc \in Establishing => c \in Establishment \cup Delegation
           /\ c.pc \in Delegating => c \in Delegation
           /\ c.pc = "teardown" => c \in Ending \cup Delegation
           /\ c.pc = "register" => c \in Registration
           /\ c.pc = "handshake" => c \in Verification
           /\ c.kind = "delegate" <=> c \in Delegation
<1>1. CASE c = Idle
    BY <1>1 DEF Idle, Delegation, Establishing, Delegating
<1>2. CASE c \in Establishment
    BY <1>2 DEF Establishment, Delegation, Establishing, Delegating, Ended
<1>3. CASE c \in Delegation
    BY <1>3 DEF Delegation, Establishing, Delegating, Ended
<1>4. CASE c \in Ending
    BY <1>4 DEF Ending, Delegation, Establishing, Delegating, Ended
<1>5. CASE c \in Registration
    BY <1>5 DEF Registration, Delegation, Establishing, Delegating, Ended
<1>6. CASE c \in Verification
    BY <1>6 DEF Verification, Delegation, Establishing, Delegating, Ended
<1> QED
    BY <1>1, <1>2, <1>3, <1>4, <1>5, <1>6 DEF CallRecords

\* Going to another statement changes nothing else.
LEMMA GotoFields ==
    ASSUME NEW c \in CallRecords, c # Idle, NEW l
    PROVE  LET d == Goto(c, l) IN
           /\ d.pc = l /\ d.kind = c.kind /\ d.o = c.o /\ d.w = c.w
           /\ c \in Establishment \cup Delegation => d.sid = c.sid
           /\ c \in Delegation => /\ d.query = c.query /\ d.teardown = c.teardown
                                  /\ d.reply = c.reply /\ d.answer = c.answer
    BY DEF CallRecords, Idle, Establishment, Delegation, Ending, Registration, Verification,
           Goto

LEMMA GotoType ==
    ASSUME NEW c \in CallRecords, NEW l
    PROVE  /\ c \in Establishment /\ l \in Establishing \cup Ended => Goto(c, l) \in Establishment
           /\ c \in Delegation /\ l \in Establishing \cup Delegating \cup Ended \cup {"teardown"}
                  => Goto(c, l) \in Delegation
           /\ c # Idle /\ l \in Ended => Goto(c, l) \in CallRecords
    BY DEF CallRecords, Idle, Establishment, Delegation, Ending, Registration, Verification,
           Goto, Establishing, Delegating, Ended

\* Whom a call is about.
LEMMA CallParties ==
    ASSUME NEW c \in CallRecords, c # Idle
    PROVE  c.o \in Orchestrators /\ c.w \in Workers
           /\ IdOf[c.o] \in Ids /\ IdOf[c.w] \in Ids
<1>1. c.o \in Orchestrators /\ c.w \in Workers
    BY DEF CallRecords, Establishment, Delegation, Ending, Registration, Verification
<1> QED
    BY <1>1, InProcessAssumption

\* Where an action finds the call.
LEMMA Running ==
    ASSUME InProcessInv, call.pc \notin Ended
    PROVE  /\ TypeOK /\ call \in CallRecords /\ call # Idle
           /\ call.o \in Orchestrators /\ call.w \in Workers
           /\ IdOf[call.o] \in Ids /\ IdOf[call.w] \in Ids
<1>1. TypeOK /\ call \in CallRecords /\ call # Idle
    BY DEF InProcessInv, TypeOK, Idle, Ended
<1> QED
    BY <1>1, CallParties

\* A call that has not reached the worker with a query can end at any statement.
LEMMA RaisedStep ==
    ASSUME InProcessInv, call' = Goto(call, "raised"),
           call.pc \in Establishing \cup {"seal", "register", "handshake"},
           UNCHANGED <<calls, ran>>
    PROVE  /\ call' \in CallRecords /\ call'.pc = "raised"
           /\ EstablishingLatest' /\ DelegatingKept' /\ DelegatingTrue' /\ SentMeansTornDown'
<1>1. call.pc \notin Ended
    BY DEF Ended, Establishing
<1>2. call \in CallRecords /\ call # Idle
    BY <1>1, Running
<1>3. /\ call' \in CallRecords /\ call'.pc = "raised" /\ call'.kind = call.kind
      /\ call'.o = call.o /\ call'.w = call.w
      /\ call \in Delegation => /\ call'.query = call.query /\ call'.reply = call.reply
                                /\ call'.answer = call.answer /\ call'.sid = call.sid
    BY <1>2, GotoType, GotoFields DEF Ended
<1>4. EstablishingLatest' /\ DelegatingKept'
    BY <1>3 DEF EstablishingLatest, DelegatingKept
<1>5. call.kind = "delegate" => call \in Delegation /\ call.reply = "none"
    BY <1>2, CallKinds DEF InProcessInv, DelegatingTrue, Establishing, Ended
<1>6. DelegatingTrue' /\ SentMeansTornDown'
    BY <1>3, <1>5 DEF InProcessInv, DelegatingTrue, SentMeansTornDown, Ended
<1> QED
    BY <1>3, <1>4, <1>6

\* What a step keeps that leaves the sessions alone.
LEMMA SessionsStay ==
    ASSUME InProcessInv, UNCHANGED <<sessions, accepted, kept, dealt>>
    PROVE  LiveWhereDealt' /\ OnlyDealt' /\ ModesDerived' /\ KeptSessionsAgree'
    BY DEF InProcessInv, LiveWhereDealt, OnlyDealt, ModesDerived, KeptSessionsAgree, Agree

LEMMA DisplacedStays ==
    ASSUME InProcessInv, UNCHANGED <<sessions, accepted, kept, dealt, takenFor>>,
           call.pc # "keep"
    PROVE  Displaced'
    BY DEF InProcessInv, Displaced, Replaced

\* Which sessions there are.
LEMMA DealtTyped ==
    ASSUME TypeOK
    PROVE  /\ Len(dealt) \in Nat
           /\ \A s \in 1..Len(dealt) :
                 /\ s \in Sessions
                 /\ dealt[s].o \in Orchestrators /\ dealt[s].w \in Workers
                 /\ dealt[s].inputs \in Inputs /\ dealt[s].mode \in Modes
<1> DEFINE D == [o : Orchestrators, w : Workers, inputs : Inputs, mode : Modes]
<1>1. dealt \in Seq(D) /\ Len(dealt) <= MaxSessions
    BY DEF TypeOK
<1> HIDE DEF D
<1>2. Len(dealt) \in Nat /\ dealt \in [1..Len(dealt) -> D]
    BY <1>1, LenProperties
<1>3. \A s \in 1..Len(dealt) : s \in Sessions /\ dealt[s] \in D
    BY <1>1, <1>2, InProcessAssumption DEF Sessions
<1> QED
    BY <1>2, <1>3 DEF D

\* A step of the control alone.
LEMMA ControlStep ==
    ASSUME InProcessInv, TypeOK',
           UNCHANGED <<sessions, accepted, kept, links, dealt, takenFor, ran>>,
           call.pc # "keep", calls <= calls',
           call'.pc \in {"pin", "derive"} => Len(links) < calls',
           EstablishingLatest', DelegatingKept', DelegatingTrue', SentMeansTornDown',
           VerifiedRegistered'
    PROVE  InProcessInv'
<1>1. FreshSoFar'
  <2>1. calls \in Int /\ calls' \in Int /\ Len(links) \in Int
      BY LenProperties DEF InProcessInv, TypeOK
  <2>2. \A e \in ran : e[1] \in Int
      BY DEF InProcessInv, TypeOK
  <2> QED
      BY <2>1, <2>2 DEF InProcessInv, FreshSoFar
<1> QED
    BY <1>1, SessionsStay, DisplacedStays DEF InProcessInv

-----------------------------------------------------------------------------
\* A call begins.
LEMMA BeginStep ==
    ASSUME InProcessInv, NEW c \in CallRecords, Begin(c),
           c.pc \in {"pin", "seal", "teardown", "register", "handshake"},
           c.kind = "delegate" =>
               /\ c.pc # "teardown" /\ c.query = calls + 1
               /\ c.reply = "none" /\ c.answer = "none"
               /\ c.pc = "seal" => c.sid # NONE /\ kept[c.o][IdOf[c.w]] = c.sid
    PROVE  InProcessInv'
<1>1. /\ call.pc \in Ended /\ calls < MaxCalls /\ calls' = calls + 1 /\ call' = c
      /\ UNCHANGED <<trusted, sessions, accepted, kept, registry, links, dealt, takenFor, ran,
                     verified>>
    BY DEF Begin, workerSide, history
<1>2. TypeOK /\ calls \in Nat /\ calls' \in 0..MaxCalls /\ calls <= calls'
    BY <1>1, InProcessAssumption DEF InProcessInv, TypeOK
<1>3. TypeOK'
    BY <1>1, <1>2 DEF TypeOK
<1>4. EstablishingLatest' /\ DelegatingKept' /\ SentMeansTornDown'
    BY <1>1 DEF EstablishingLatest, DelegatingKept, SentMeansTornDown, Ended
<1>5. c.kind = "delegate" => {e \in ran : e[1] = c.query} = {}
    BY <1>2 DEF InProcessInv, FreshSoFar
<1>6. DelegatingTrue'
    BY <1>1, <1>2, <1>5 DEF DelegatingTrue
<1>7. VerifiedRegistered'
    BY <1>1 DEF InProcessInv, VerifiedRegistered
<1>8. Len(links) < calls' /\ call.pc # "keep"
    BY <1>1, <1>2, LenProperties DEF InProcessInv, TypeOK, FreshSoFar, Ended
<1> QED
    BY <1>1, <1>2, <1>3, <1>4, <1>6, <1>7, <1>8, ControlStep

LEMMA BeginningStep ==
    ASSUME InProcessInv,
           BeginEstablish \/ BeginTeardown \/ BeginDelegate \/ BeginRegister \/ BeginHandshake
    PROVE  InProcessInv'
<1>0. TypeOK
    BY DEF InProcessInv
<1>1. ASSUME NEW o \in Orchestrators, NEW w \in Workers, NEW qkd \in BOOLEAN,
             NEW e \in Epochs \cup {NONE},
             Begin([kind |-> "establish", o |-> o, w |-> w, pc |-> "pin",
                    qkd |-> qkd, epoch |-> e, sid |-> NONE])
      PROVE  InProcessInv'
  <2> DEFINE c == [kind |-> "establish", o |-> o, w |-> w, pc |-> "pin",
                   qkd |-> qkd, epoch |-> e, sid |-> NONE]
  <2>1. c \in CallRecords /\ c.pc = "pin" /\ c.kind = "establish"
      BY DEF CallRecords, Establishment
  <2> HIDE DEF c
  <2> QED
      BY <1>1, <2>1, BeginStep DEF c
<1>2. ASSUME NEW o \in Orchestrators, NEW w \in Workers,
             Begin([kind |-> "teardown", o |-> o, w |-> w, pc |-> "teardown",
                    teardown |-> TRUE, answer |-> "none"])
      PROVE  InProcessInv'
  <2> DEFINE c == [kind |-> "teardown", o |-> o, w |-> w, pc |-> "teardown",
                   teardown |-> TRUE, answer |-> "none"]
  <2>1. c \in CallRecords /\ c.pc = "teardown" /\ c.kind = "teardown"
      BY DEF CallRecords, Ending
  <2> HIDE DEF c
  <2> QED
      BY <1>2, <2>1, BeginStep DEF c
<1>3. CASE BeginDelegate
  <2>1. PICK o \in Orchestrators, w \in Workers, t \in BOOLEAN :
           Begin([kind |-> "delegate", o |-> o, w |-> w,
                  pc |-> IF kept[o][IdOf[w]] = NONE THEN "pin" ELSE "seal",
                  qkd |-> FALSE, epoch |-> NONE, sid |-> kept[o][IdOf[w]],
                  query |-> calls + 1, teardown |-> t, reply |-> "none",
                  answer |-> "none"])
      BY <1>3 DEF BeginDelegate
  <2> DEFINE c == [kind |-> "delegate", o |-> o, w |-> w,
                   pc |-> IF kept[o][IdOf[w]] = NONE THEN "pin" ELSE "seal",
                   qkd |-> FALSE, epoch |-> NONE, sid |-> kept[o][IdOf[w]],
                   query |-> calls + 1, teardown |-> t, reply |-> "none",
                   answer |-> "none"]
  <2>2. kept[o][IdOf[w]] \in Sessions \cup {NONE} /\ calls + 1 \in 1..MaxCalls
      BY <1>0, <2>1, InProcessAssumption DEF TypeOK, Begin
  <2>3. c \in CallRecords /\ c.pc \in {"pin", "seal"}
      BY <2>2 DEF CallRecords, Delegation
  <2>4. /\ c.query = calls + 1 /\ c.reply = "none" /\ c.answer = "none"
        /\ c.pc = "seal" => c.sid # NONE /\ kept[c.o][IdOf[c.w]] = c.sid
      OBVIOUS
  <2>5. Begin(c)
      BY <2>1
  <2> HIDE DEF c
  <2> QED
      BY <2>3, <2>4, <2>5, BeginStep
<1>4. ASSUME NEW o \in Orchestrators, NEW w \in Workers,
             Begin([kind |-> "register", o |-> o, w |-> w, pc |-> "register"])
      PROVE  InProcessInv'
  <2> DEFINE c == [kind |-> "register", o |-> o, w |-> w, pc |-> "register"]
  <2>1. c \in CallRecords /\ c.pc = "register" /\ c.kind = "register"
      BY DEF CallRecords, Registration
  <2> HIDE DEF c
  <2> QED
      BY <1>4, <2>1, BeginStep DEF c
<1>5. ASSUME NEW o \in Orchestrators, NEW w \in Workers,
             Begin([kind |-> "handshake", o |-> o, w |-> w, pc |-> "handshake"])
      PROVE  InProcessInv'
  <2> DEFINE c == [kind |-> "handshake", o |-> o, w |-> w, pc |-> "handshake"]
  <2>1. c \in CallRecords /\ c.pc = "handshake" /\ c.kind = "handshake"
      BY DEF CallRecords, Verification
  <2> HIDE DEF c
  <2> QED
      BY <1>5, <2>1, BeginStep DEF c
<1> QED
    BY <1>1, <1>2, <1>3, <1>4, <1>5
       DEF BeginEstablish, BeginTeardown, BeginRegister, BeginHandshake

-----------------------------------------------------------------------------
\* Steps that leave the sessions alone.

\* A call ends where something raised.
LEMMA CutOff ==
    ASSUME InProcessInv, call' = Goto(call, "raised"),
           call.pc \in {"pin", "derive", "accept", "seal", "register", "handshake"},
           UNCHANGED <<trusted, sessions, accepted, kept, registry, links, calls, dealt,
                       takenFor, ran, verified>>
    PROVE  InProcessInv'
<1>1. /\ call' \in CallRecords /\ call'.pc = "raised"
      /\ EstablishingLatest' /\ DelegatingKept' /\ DelegatingTrue' /\ SentMeansTornDown'
    BY RaisedStep DEF Establishing
<1>2. TypeOK' /\ VerifiedRegistered'
    BY <1>1 DEF InProcessInv, TypeOK, VerifiedRegistered
<1>3. calls <= calls'
    BY DEF InProcessInv, TypeOK
<1> QED
    BY <1>1, <1>2, <1>3, ControlStep

LEMMA PinStep ==
    ASSUME InProcessInv, Pin
    PROVE  InProcessInv'
<1>1. /\ call.pc = "pin"
      /\ UNCHANGED <<sessions, accepted, kept, registry, links, calls, dealt, takenFor, ran,
                     verified>>
    BY DEF Pin, At, history
<1>2. call \in CallRecords /\ call # Idle /\ call.o \in Orchestrators /\ TypeOK
    BY <1>1, Running DEF Ended
<1>3. CASE call' = Goto(call, "raised") /\ UNCHANGED trusted
    BY <1>1, <1>3, CutOff
<1>4. CASE /\ trusted' = [trusted EXCEPT ![call.w][IdOf[call.o]] = call.o]
           /\ call' = Goto(call, "derive")
  <2>1. call \in Establishment \cup Delegation
      BY <1>1, <1>2, CallKinds DEF Establishing
  <2>2. /\ call' \in CallRecords /\ call'.pc = "derive" /\ call'.kind = call.kind
        /\ call' \in Establishment \cup Delegation
        /\ call \in Delegation => /\ call'.query = call.query /\ call'.reply = call.reply
                                  /\ call'.answer = call.answer
      BY <1>2, <1>4, <2>1, GotoType, GotoFields DEF Establishing, CallRecords
  <2>3. TypeOK'
      BY <1>1, <1>2, <1>4, <2>2 DEF TypeOK
  <2>4. EstablishingLatest' /\ DelegatingKept' /\ VerifiedRegistered' /\ SentMeansTornDown'
      BY <1>1, <2>2 DEF InProcessInv, EstablishingLatest, DelegatingKept, VerifiedRegistered,
                        SentMeansTornDown, Ended
  <2>5. call.kind = "delegate" => call \in Delegation /\ call.reply = "none"
      BY <1>1, <1>2, CallKinds DEF InProcessInv, DelegatingTrue, Ended
  <2>6. DelegatingTrue'
      BY <1>1, <2>2, <2>5 DEF InProcessInv, DelegatingTrue
  <2>7. calls <= calls' /\ Len(links) < calls'
      BY <1>1, <1>2 DEF InProcessInv, FreshSoFar, TypeOK
  <2> QED
      BY <1>1, <2>2, <2>3, <2>4, <2>6, <2>7, ControlStep
<1> QED
    BY <1>3, <1>4 DEF Pin

LEMMA SealStep ==
    ASSUME InProcessInv, Seal
    PROVE  InProcessInv'
<1>1. /\ call.pc = "seal"
      /\ UNCHANGED <<trusted, sessions, accepted, kept, registry, links, calls, dealt,
                     takenFor, ran, verified>>
    BY DEF Seal, At, history, workerSide
<1>2. call \in CallRecords /\ call # Idle /\ call \in Delegation /\ TypeOK
    BY <1>1, Running, CallKinds DEF Ended, Delegating
<1>3. /\ Goto(call, "execute") \in Delegation
      /\ Goto(Goto(call, "execute"), "raised") = Goto(call, "raised")
    BY <1>2, GotoType DEF Delegating, Goto, Delegation
<1>4. CASE call' = Goto(call, "raised")
    BY <1>1, <1>4, CutOff
<1>5. CASE call' = Goto(call, "execute")
  <2>1. /\ call' \in CallRecords /\ call'.pc = "execute" /\ call'.kind = call.kind
        /\ call'.query = call.query /\ call'.reply = call.reply /\ call'.sid = call.sid
        /\ call'.answer = call.answer /\ call'.o = call.o /\ call'.w = call.w
      BY <1>2, <1>3, <1>5, GotoFields DEF CallRecords
  <2>2. call.kind = "delegate"
      BY <1>2 DEF Delegation
  <2>3. TypeOK'
      BY <1>1, <1>2, <2>1 DEF TypeOK
  <2>4. EstablishingLatest' /\ DelegatingKept' /\ VerifiedRegistered' /\ SentMeansTornDown'
      BY <1>1, <2>1 DEF InProcessInv, EstablishingLatest, DelegatingKept, VerifiedRegistered,
                        SentMeansTornDown, Ended
  <2>5. DelegatingTrue'
      BY <1>1, <2>1, <2>2 DEF InProcessInv, DelegatingTrue, Ended
  <2>6. calls <= calls'
      BY <1>1, <1>2 DEF TypeOK
  <2> QED
      BY <1>1, <2>1, <2>3, <2>4, <2>5, <2>6, ControlStep
<1> QED
    BY <1>3, <1>4, <1>5 DEF Seal, Logged

LEMMA OpenStep ==
    ASSUME InProcessInv, Open
    PROVE  InProcessInv'
<1>1. /\ call.pc = "open"
      /\ UNCHANGED <<trusted, sessions, accepted, kept, registry, links, calls, dealt,
                     takenFor, ran, verified>>
    BY DEF Open, At, history, workerSide
<1>2. call \in CallRecords /\ call # Idle /\ call \in Delegation /\ TypeOK
    BY <1>1, Running, CallKinds DEF Ended, Delegating
<1>3. PICK answer \in {IF call.reply = "sealed" THEN "results" ELSE "error", "raised"} :
          call' = [Goto(call, "teardown") EXCEPT !.answer = answer]
    BY DEF Open
<1>4. /\ call' \in Delegation /\ call'.pc = "teardown" /\ call'.kind = call.kind
      /\ call'.query = call.query /\ call'.reply = call.reply /\ call'.sid = call.sid
      /\ call'.answer = answer /\ call'.o = call.o /\ call'.w = call.w
      /\ call.kind = "delegate"
    BY <1>2, <1>3 DEF Goto, Delegation
<1>5. call' \in CallRecords
    BY <1>4 DEF CallRecords
<1>6. TypeOK'
    BY <1>1, <1>2, <1>5 DEF TypeOK
<1>7. EstablishingLatest' /\ DelegatingKept' /\ VerifiedRegistered' /\ SentMeansTornDown'
    BY <1>1, <1>4 DEF InProcessInv, EstablishingLatest, DelegatingKept, VerifiedRegistered,
                      SentMeansTornDown, Ended
<1>8. call.reply \in {"sealed", "clear"}
    <2>1. call.reply \in {"none", "sealed", "clear"}
        BY <1>2 DEF Delegation
    <2>2. call.reply # "none"
        BY <1>1, <1>4 DEF InProcessInv, DelegatingTrue
    <2> QED
        BY <2>1, <2>2
<1>9. DelegatingTrue'
    BY <1>1, <1>3, <1>4, <1>8 DEF InProcessInv, DelegatingTrue
<1>10. calls <= calls'
    BY <1>1, <1>2 DEF TypeOK
<1> QED
    BY <1>1, <1>4, <1>5, <1>6, <1>7, <1>9, <1>10, ControlStep

\* A registered key is never replaced, so what was verified stays registered.
LEMMA RegisterStep ==
    ASSUME InProcessInv, Register
    PROVE  InProcessInv'
<1>1. /\ call.pc = "register"
      /\ UNCHANGED <<trusted, sessions, accepted, kept, links, calls, dealt, takenFor, ran,
                     verified>>
    BY DEF Register, At, history, workerSide
<1>2. /\ call \in Registration /\ call # Idle /\ TypeOK
      /\ call.w \in Workers /\ call.o \in Orchestrators /\ IdOf[call.w] \in Ids
    BY <1>1, Running, CallKinds DEF Ended
<1>3. CASE call' = Goto(call, "raised") /\ UNCHANGED registry
    BY <1>1, <1>3, CutOff
<1>4. CASE /\ ~PinConflict(call)
           /\ registry' = [registry EXCEPT ![call.o][IdOf[call.w]] = call.w]
           /\ Logged(Goto(call, "returned"))
  <2>1. /\ call' \in CallRecords /\ call'.pc \in {"raised", "returned"}
        /\ call'.kind = "register"
      BY <1>2, <1>4 DEF Logged, Goto, Registration, CallRecords, Ended
  <2>2. TypeOK'
      BY <1>1, <1>2, <1>4, <2>1 DEF TypeOK
  <2>3. EstablishingLatest' /\ DelegatingKept' /\ DelegatingTrue' /\ SentMeansTornDown'
      BY <2>1 DEF EstablishingLatest, DelegatingKept, DelegatingTrue, SentMeansTornDown
  <2>4. VerifiedRegistered'
    <3>1. SUFFICES ASSUME NEW v \in verified
                   PROVE  registry'[v[1]][IdOf[v[2]]] = v[2]
        BY <1>1 DEF VerifiedRegistered
    <3>2. /\ v[1] \in Orchestrators /\ v[2] \in Workers /\ IdOf[v[2]] \in Ids
          /\ registry[v[1]][IdOf[v[2]]] = v[2] /\ v[2] # NONE
        BY <1>2, InProcessAssumption DEF InProcessInv, VerifiedRegistered, TypeOK
    <3>3. CASE v[1] = call.o /\ IdOf[v[2]] = IdOf[call.w]
        BY <1>2, <1>4, <3>2, <3>3 DEF PinConflict, TypeOK
    <3>4. CASE ~(v[1] = call.o /\ IdOf[v[2]] = IdOf[call.w])
        BY <1>2, <1>4, <3>2, <3>4 DEF TypeOK
    <3> QED
        BY <3>3, <3>4
  <2>5. calls <= calls'
      BY <1>1, <1>2 DEF TypeOK
  <2> QED
      BY <1>1, <2>1, <2>2, <2>3, <2>4, <2>5, ControlStep
<1> QED
    BY <1>3, <1>4 DEF Register

LEMMA HandshakeStep ==
    ASSUME InProcessInv, Handshake
    PROVE  InProcessInv'
<1>1. /\ call.pc = "handshake"
      /\ UNCHANGED <<trusted, sessions, accepted, kept, registry, links, calls, dealt,
                     takenFor, ran>>
    BY DEF Handshake, At, workerSide
<1>2. /\ call \in Verification /\ call # Idle /\ TypeOK
      /\ call.w \in Workers /\ call.o \in Orchestrators /\ IdOf[call.w] \in Ids
    BY <1>1, Running, CallKinds DEF Ended
<1>3. CASE call' = Goto(call, "raised") /\ UNCHANGED verified
    BY <1>1, <1>3, CutOff
<1>4. CASE /\ call' = Goto(call, "returned")
           /\ verified' = verified \cup {<<call.o, w>> : w \in
                              {call.w} \cap {registry[call.o][IdOf[call.w]]}}
  <2>1. call' \in CallRecords /\ call'.pc = "returned" /\ call'.kind = "handshake"
      BY <1>2, <1>4 DEF Goto, Verification, CallRecords, Ended
  <2>2. \A v \in verified' : v \in verified \/ (/\ v = <<call.o, call.w>>
                                               /\ registry[call.o][IdOf[call.w]] = call.w)
      BY <1>4
  <2>3. TypeOK'
    <3>1. verified' \subseteq Orchestrators \X Workers
        BY <1>2, <2>2 DEF TypeOK
    <3> QED
        BY <1>1, <1>2, <2>1, <3>1 DEF TypeOK
  <2>4. EstablishingLatest' /\ DelegatingKept' /\ DelegatingTrue' /\ SentMeansTornDown'
      BY <2>1 DEF EstablishingLatest, DelegatingKept, DelegatingTrue, SentMeansTornDown
  <2>5. VerifiedRegistered'
      BY <1>1, <2>2 DEF InProcessInv, VerifiedRegistered
  <2>6. calls <= calls'
      BY <1>1, <1>2 DEF TypeOK
  <2> QED
      BY <1>1, <2>1, <2>3, <2>4, <2>5, <2>6, ControlStep
<1> QED
    BY <1>3, <1>4 DEF Handshake

-----------------------------------------------------------------------------
\* A worker answers.  One that was given the session has it, so that only
\* another object answers in clear.
LEMMA ExecuteStep ==
    ASSUME InProcessInv, Execute
    PROVE  InProcessInv'
<1>1. /\ call.pc = "execute"
      /\ UNCHANGED <<trusted, sessions, accepted, kept, registry, links, calls, dealt,
                     takenFor, verified>>
    BY DEF Execute, At, workerSide
<1>2. /\ call \in Delegation /\ call # Idle /\ TypeOK
      /\ call.w \in Workers /\ call.o \in Orchestrators /\ IdOf[call.w] \in Ids
    BY <1>1, Running, CallKinds DEF Ended, Delegating
<1>3. call.kind = "delegate" /\ call.sid \in Sessions \cup {NONE} /\ call.query \in 1..MaxCalls
    BY <1>2 DEF Delegation
<1>4. call.sid # NONE /\ kept[call.o][IdOf[call.w]] = call.sid
    BY <1>1, <1>3 DEF InProcessInv, DelegatingKept
<1>5. Agree(dealt[call.sid].w, call.sid)
    BY <1>2, <1>4 DEF InProcessInv, KeptSessionsAgree
<1>6. call.reply = "none" /\ call.answer = "none" /\ call.query <= calls
      /\ {e \in ran : e[1] = call.query} = {}
    BY <1>1, <1>3 DEF InProcessInv, DelegatingTrue, Ended
<1>7. PICK reply \in {"sealed", "clear"} :
          /\ call' = [Goto(call, "open") EXCEPT !.reply = reply]
          /\ reply = "sealed" => ran' = ran \cup {<<call.query, call.w, call.sid>>}
          /\ reply = "clear" => UNCHANGED ran /\ dealt[call.sid].w # call.w
    BY <1>5 DEF Execute
<1>8. /\ call' \in Delegation /\ call'.pc = "open" /\ call'.kind = "delegate"
      /\ call'.query = call.query /\ call'.reply = reply /\ call'.sid = call.sid
      /\ call'.answer = call.answer /\ call'.o = call.o /\ call'.w = call.w
    BY <1>2, <1>3, <1>7 DEF Goto, Delegation
<1>9. ran' \subseteq (1..MaxCalls) \X Workers \X Sessions
    BY <1>2, <1>3, <1>4, <1>7 DEF TypeOK
<1>10. call' \in CallRecords
    BY <1>8 DEF CallRecords
<1>11. TypeOK'
    BY <1>1, <1>2, <1>9, <1>10 DEF TypeOK
<1>12. EstablishingLatest' /\ DelegatingKept' /\ VerifiedRegistered' /\ SentMeansTornDown'
    BY <1>1, <1>4, <1>8 DEF InProcessInv, EstablishingLatest, DelegatingKept,
                            VerifiedRegistered, SentMeansTornDown, Ended
<1>13. {e \in ran' : e[1] = call.query} =
           IF reply = "sealed" THEN {<<call.query, call.w, call.sid>>} ELSE {}
    BY <1>6, <1>7
<1>14. DelegatingTrue'
    BY <1>1, <1>6, <1>7, <1>8, <1>13 DEF DelegatingTrue
<1>15. FreshSoFar'
    BY <1>1, <1>6, <1>7, <1>8 DEF InProcessInv, FreshSoFar
<1> QED
    BY <1>1, <1>11, <1>12, <1>14, <1>15, SessionsStay, DisplacedStays DEF InProcessInv

-----------------------------------------------------------------------------
\* A session is derived.

Link == [by : Orchestrators, ends : SUBSET Ids, epoch : Bytes]
Dealing == [o : Orchestrators, w : Workers, inputs : Inputs, mode : Modes]

\* A QKD epoch is never missing where a QKD key is asked for.
LEMMA EpochType ==
    ASSUME NEW c \in Establishment \cup Delegation, NEW s \in Sessions
    PROVE  /\ Fresh[s] \in Bytes
           /\ Epoch(c, s) \in Bytes \cup {NONE}
           /\ c.qkd => Epoch(c, s) \in Bytes
<1>1. Fresh[s] \in Bytes
    BY FreshAssumption, InProcessAssumption DEF Sessions
<1>2. c.epoch \in Epochs \cup {NONE}
    BY DEF Establishment, Delegation
<1> QED
    BY <1>1, <1>2, InProcessAssumption DEF Epoch, Text

\* The link is found, and a new one is for a call that has made none yet.
LEMMA LinkFound ==
    ASSUME InProcessInv, call.pc = "derive", NEW s \in Sessions, links' = LinkAfter(call, s)
    PROVE  /\ links' \in Seq(Link) /\ Len(links') <= calls
           /\ call.qkd => \E k \in DOMAIN links' : links'[k] = LinkOf(call, s)
           /\ \A k \in DOMAIN links' : Fresh[k] \in Bytes
<1>1. /\ call \in Establishment \cup Delegation /\ TypeOK
      /\ call.w \in Workers /\ call.o \in Orchestrators
      /\ IdOf[call.w] \in Ids /\ IdOf[call.o] \in Ids
    BY Running, CallKinds DEF Ended, Establishing
<1>2. links \in Seq(Link) /\ Len(links) \in Nat /\ DOMAIN links = 1..Len(links)
      /\ calls \in 0..MaxCalls /\ Len(links) < calls
    BY <1>1, LenProperties DEF TypeOK, Link, InProcessInv, FreshSoFar
<1>3. CASE call.qkd /\ \A k \in DOMAIN links : links[k] # LinkOf(call, s)
  <2> DEFINE l == LinkOf(call, s)
  <2>1. l \in Link
      BY <1>1, <1>3, EpochType DEF LinkOf, Link
  <2>2. links' = Append(links, l)
      BY <1>3 DEF LinkAfter
  <2> HIDE DEF l
  <2>3. /\ links' \in Seq(Link) /\ Len(links') = Len(links) + 1
        /\ links'[Len(links) + 1] = l /\ DOMAIN links' = 1..(Len(links) + 1)
      BY <1>2, <2>1, <2>2, AppendProperties, LenProperties
  <2>4. Len(links) + 1 \in DOMAIN links' /\ Len(links') <= calls
      BY <1>2, <2>3
  <2>5. \A k \in DOMAIN links' : Fresh[k] \in Bytes
      BY <1>2, <2>3, <2>4, FreshAssumption, InProcessAssumption
  <2> QED
      BY <2>3, <2>4, <2>5 DEF l
<1>4. CASE ~(call.qkd /\ \A k \in DOMAIN links : links[k] # LinkOf(call, s))
  <2>1. links' = links
      BY <1>4 DEF LinkAfter
  <2>2. \A k \in DOMAIN links : Fresh[k] \in Bytes
      BY <1>2, FreshAssumption, InProcessAssumption
  <2> QED
      BY <1>2, <1>4, <2>1, <2>2
<1> QED
    BY <1>3, <1>4

LEMMA InputsTyped ==
    ASSUME InProcessInv, call.pc = "derive", NEW s \in Sessions, links' = LinkAfter(call, s),
           NEW context \in Contexts(call)
    PROVE  /\ InputsOf(call, s, context) \in Inputs
           /\ InputsOf(call, s, context).pqc_ciphertext = Fresh[s]
<1>1. /\ call \in Establishment \cup Delegation
      /\ IdOf[call.w] \in Bytes /\ IdOf[call.o] \in Bytes
    BY Running, CallKinds, InProcessAssumption DEF Ended, Establishing
<1>2. context \in Bytes
  <2>1. <<0>> \in Short
      BY LenProperties DEF Short, Byte
  <2> QED
      BY <2>1, ShortType, EmptyType DEF Contexts
<1>3. Epoch(call, s) \in Bytes \cup {NONE} /\ Fresh[s] \in Bytes
    BY <1>1, EpochType
<1> DEFINE secret == IF call.qkd
                     THEN Fresh[CHOOSE k \in DOMAIN links' : links'[k] = LinkOf(call, s)]
                     ELSE NONE
<1>4. secret \in Bytes \cup {NONE}
    BY LinkFound
<1>5. InputsOf(call, s, context) =
          [sender |-> IdOf[call.o], receiver |-> IdOf[call.w], context |-> context,
           pqc_ciphertext |-> Fresh[s], pqc_secret |-> Fresh[s], qrng_entropy |-> Fresh[s],
           qkd_secret |-> secret, qkd_epoch |-> Epoch(call, s)]
    BY DEF InputsOf
<1> HIDE DEF secret
<1> QED
    BY <1>1, <1>2, <1>3, <1>4, <1>5 DEF Inputs

LEMMA DealingStays ==
    ASSUME InProcessInv, NEW d \in Dealing, dealt' = Append(dealt, d)
    PROVE  /\ dealt' \in Seq(Dealing) /\ Len(dealt) \in Nat
           /\ Len(dealt') = Len(dealt) + 1 /\ dealt'[Len(dealt) + 1] = d
           /\ \A s \in 1..Len(dealt) : dealt'[s] = dealt[s]
    BY AppendProperties, LenProperties DEF InProcessInv, TypeOK, Dealing

LEMMA DeriveStep ==
    ASSUME InProcessInv, Derive
    PROVE  InProcessInv'
<1> DEFINE s == Len(dealt) + 1
<1>1. /\ call.pc = "derive" /\ s <= MaxSessions /\ links' = LinkAfter(call, s)
      /\ UNCHANGED <<trusted, sessions, accepted, kept, registry, calls, takenFor, ran,
                     verified>>
    BY DEF Derive, At, workerSide
<1>2. /\ call \in CallRecords /\ call # Idle /\ call \in Establishment \cup Delegation
      /\ TypeOK /\ call.w \in Workers /\ call.o \in Orchestrators
    BY <1>1, Running, CallKinds DEF Ended, Establishing
<1>3. Len(dealt) \in Nat /\ s \in Sessions
    BY <1>1, <1>2, LenProperties, InProcessAssumption DEF TypeOK, Sessions
<1>4. links' \in Seq(Link) /\ Len(links') <= calls
    BY <1>1, <1>3, LinkFound
<1>5. call.kind = "delegate" => call \in Delegation /\ call.reply = "none"
    BY <1>1, <1>2, CallKinds DEF InProcessInv, DelegatingTrue, Ended
<1>6. PICK context \in Contexts(call) :
          \/ /\ dealt' = Append(dealt, [o |-> call.o, w |-> call.w,
                                        inputs |-> InputsOf(call, s, context),
                                        mode |-> Mode(InputsOf(call, s, context))])
             /\ call' = [Goto(call, "accept") EXCEPT !.sid = s]
          \/ call' = Goto(call, "raised") /\ UNCHANGED dealt
    BY DEF Derive
<1> DEFINE in == InputsOf(call, s, context)
           d == [o |-> call.o, w |-> call.w, inputs |-> in, mode |-> Mode(in)]
<1>7. in \in Inputs /\ in.pqc_ciphertext = Fresh[s]
    BY <1>1, <1>3, InputsTyped
<1>8. /\ d \in Dealing /\ d.o = call.o /\ d.w = call.w /\ d.inputs.pqc_ciphertext = Fresh[s]
      /\ d.mode = Mode(d.inputs)
    <2> HIDE DEF in
    <2> QED BY <1>2, <1>7, InputTypes DEF Dealing
<1>9. CASE call' = Goto(call, "raised") /\ UNCHANGED dealt
  <2>1. /\ call' \in CallRecords /\ call'.pc = "raised"
        /\ EstablishingLatest' /\ DelegatingKept' /\ DelegatingTrue' /\ SentMeansTornDown'
      BY <1>1, <1>9, RaisedStep DEF Establishing
  <2>2. TypeOK'
      BY <1>1, <1>2, <1>4, <1>9, <2>1 DEF TypeOK, Link
  <2>3. FreshSoFar' /\ VerifiedRegistered'
      BY <1>1, <1>4, <1>9, <2>1 DEF InProcessInv, FreshSoFar, VerifiedRegistered
  <2> QED
      BY <1>1, <1>9, <2>1, <2>2, <2>3, SessionsStay, DisplacedStays DEF InProcessInv
<1>10. CASE dealt' = Append(dealt, d) /\ call' = [Goto(call, "accept") EXCEPT !.sid = s]
  <2> HIDE DEF d, in
  <2>1. /\ dealt' \in Seq(Dealing) /\ Len(dealt') = s /\ dealt'[s] = d
        /\ \A t \in 1..Len(dealt) : dealt'[t] = dealt[t]
      BY <1>8, <1>10, DealingStays
  <2> HIDE DEF s
  <2>2. /\ call' \in CallRecords /\ call'.pc = "accept" /\ call'.kind = call.kind
        /\ call'.sid = s /\ call'.o = call.o /\ call'.w = call.w
        /\ call \in Delegation => /\ call'.query = call.query /\ call'.reply = call.reply
                                  /\ call'.answer = call.answer
    <3>1. CASE call \in Establishment
        BY <1>3, <1>10, <3>1 DEF Establishment, Delegation, CallRecords, Goto, Ended
    <3>2. CASE call \in Delegation
        BY <1>3, <1>10, <3>2 DEF Establishment, Delegation, CallRecords, Goto, Ended
    <3> QED
        BY <1>2, <3>1, <3>2
  <2>3. TypeOK'
      BY <1>1, <1>2, <1>4, <2>1, <2>2 DEF TypeOK, Link, Dealing
  <2>4. \A t \in 1..Len(dealt) : t \in 1..Len(dealt') /\ t # s
      BY <1>3, <2>1 DEF s
  <2>5. \A w \in Workers, t \in Sessions :
            sessions[w][t] # NONE => t \in 1..Len(dealt) /\ dealt'[t] = dealt[t]
      BY <1>3, <2>1 DEF InProcessInv, LiveWhereDealt, Sessions
  <2>6. \A o \in Orchestrators, i \in Ids :
            kept[o][i] # NONE => kept[o][i] \in 1..Len(dealt) /\ dealt'[kept[o][i]] = dealt[kept[o][i]]
      BY <1>2, <1>3, <2>1 DEF InProcessInv, OnlyDealt, TypeOK, Sessions
  <2>7. LiveWhereDealt'
      BY <1>1, <1>3, <2>1, <2>4, <2>5 DEF InProcessInv, LiveWhereDealt, Agree
  <2>8. OnlyDealt'
      BY <1>1, <1>3, <2>1, <2>4, <2>6 DEF InProcessInv, OnlyDealt
  <2>9. KeptSessionsAgree'
      BY <1>1, <2>6 DEF InProcessInv, KeptSessionsAgree, Agree
  <2>10. EstablishingLatest'
    <3>1. \A o \in Orchestrators, i \in Ids : kept[o][i] # s
        BY <1>3, <1>2, <2>4, <2>6, InProcessAssumption DEF Sessions
    <3>2. \A w \in Workers : s \notin accepted[w]
        BY <2>4 DEF InProcessInv, OnlyDealt
    <3> QED
        BY <1>1, <1>3, <1>8, <2>1, <2>2, <3>1, <3>2 DEF EstablishingLatest, s
  <2>11. DelegatingKept' /\ SentMeansTornDown' /\ VerifiedRegistered'
      BY <1>1, <2>2 DEF InProcessInv, DelegatingKept, SentMeansTornDown, VerifiedRegistered, Ended
  <2>12. DelegatingTrue'
      BY <1>1, <1>5, <2>2 DEF InProcessInv, DelegatingTrue
  <2>13. Displaced'
    <3>1. ASSUME NEW w \in Workers, NEW t \in Sessions, sessions[w][t] # NONE, Replaced(t)
          PROVE  Replaced(t)'
      <4>1. PICK later \in (t + 1)..Len(dealt) :
                /\ dealt[later].o = dealt[t].o
                /\ IdOf[dealt[later].w] = IdOf[dealt[t].w]
                /\ later \in accepted[dealt[later].w]
          BY <3>1 DEF Replaced
      <4>2. later \in 1..Len(dealt) /\ later \in (t + 1)..Len(dealt')
          BY <1>3, <2>1 DEF s, Sessions
      <4> QED
          BY <1>1, <2>1, <2>5, <3>1, <4>1, <4>2 DEF Replaced
    <3> QED
        BY <1>1, <2>5, <3>1 DEF InProcessInv, Displaced
  <2>14. FreshSoFar'
    <3>1. ASSUME NEW t \in 1..Len(dealt')
          PROVE  dealt'[t].inputs.pqc_ciphertext = Fresh[t]
      <4>1. t \in 1..Len(dealt) \/ t = s
          BY <1>3, <2>1 DEF s
      <4> QED
          BY <1>8, <2>1, <4>1 DEF InProcessInv, FreshSoFar
    <3> QED
        BY <1>1, <1>4, <2>2, <3>1 DEF InProcessInv, FreshSoFar
  <2>15. ModesDerived'
    <3>1. ASSUME NEW t \in 1..Len(dealt')
          PROVE  dealt'[t].mode = Mode(dealt'[t].inputs)
      <4>1. t \in 1..Len(dealt) \/ t = s
          BY <1>3, <2>1 DEF s
      <4> QED
          BY <1>8, <2>1, <4>1 DEF InProcessInv, ModesDerived
    <3> QED
        BY <3>1 DEF ModesDerived
  <2> QED
      BY <2>3, <2>7, <2>8, <2>9, <2>10, <2>11, <2>12, <2>13, <2>14, <2>15 DEF InProcessInv
<1> QED
    BY <1>6, <1>9, <1>10

-----------------------------------------------------------------------------
\* A session is accepted: at the worker it was encapsulated for, and only if the
\* worker derives what the sender did.
LEMMA AcceptStep ==
    ASSUME InProcessInv, Accept
    PROVE  InProcessInv'
<1> DEFINE s == call.sid
           d == [inputs |-> dealt[s].inputs, mode |-> dealt[s].mode]
<1>1. /\ call.pc = "accept"
      /\ UNCHANGED <<trusted, kept, registry, links, calls, dealt, takenFor, ran, verified>>
    BY DEF Accept, At, history
<1>2. /\ call \in CallRecords /\ call # Idle /\ call \in Establishment \cup Delegation
      /\ TypeOK /\ call.w \in Workers /\ call.o \in Orchestrators
    BY <1>1, Running, CallKinds DEF Ended, Establishing
<1>3. /\ s = Len(dealt) /\ s # 0 /\ dealt[s].o = call.o /\ dealt[s].w = call.w
      /\ \A o \in Orchestrators, i \in Ids : kept[o][i] # s
      /\ \A w \in Workers : s \notin accepted[w]
    BY <1>1 DEF InProcessInv, EstablishingLatest
<1>4. /\ s \in 1..Len(dealt) /\ Len(dealt) \in Nat /\ s \in Sessions /\ d \in Derived
    <2>1. s \in 1..Len(dealt) /\ Len(dealt) \in Nat
        BY <1>2, <1>3, DealtTyped
    <2> QED
        BY <1>2, <2>1, DealtTyped DEF Derived
<1>5. call.kind = "delegate" => call \in Delegation /\ call.reply = "none"
    BY <1>1, <1>2, CallKinds DEF InProcessInv, DelegatingTrue, Ended
<1>6. \/ call' = Goto(call, "raised") /\ UNCHANGED <<accepted, sessions>>
      \/ /\ accepted' = [accepted EXCEPT ![call.w] = @ \cup {s}]
         /\ sessions' = [sessions EXCEPT ![call.w][s] =
                            [inputs |-> dealt[s].inputs, mode |-> Mode(dealt[s].inputs)]]
         /\ call' = Goto(call, "keep")
    BY DEF Accept
<1>7. CASE call' = Goto(call, "raised") /\ UNCHANGED <<accepted, sessions>>
    BY <1>1, <1>7, CutOff
<1>8. CASE /\ accepted' = [accepted EXCEPT ![call.w] = @ \cup {s}]
           /\ sessions' = [sessions EXCEPT ![call.w][s] =
                              [inputs |-> dealt[s].inputs, mode |-> Mode(dealt[s].inputs)]]
           /\ call' = Goto(call, "keep")
  <2>1. dealt[s].mode = Mode(dealt[s].inputs)
      BY <1>4 DEF InProcessInv, ModesDerived
  <2>2. sessions' = [sessions EXCEPT ![call.w][s] = d]
      BY <1>8, <2>1
  <2> HIDE DEF d
  <2>3. /\ call' \in CallRecords /\ call'.pc = "keep" /\ call'.kind = call.kind
        /\ call'.sid = s /\ call'.o = call.o /\ call'.w = call.w
        /\ call \in Delegation => /\ call'.query = call.query /\ call'.reply = call.reply
                                  /\ call'.answer = call.answer
      BY <1>2, <1>8, GotoFields, GotoType DEF CallRecords, Establishing
  <2> HIDE DEF s
  <2>4. /\ sessions' \in [Workers -> [Sessions -> Derived \cup {NONE}]]
        /\ sessions'[call.w][s] = d
        /\ \A w \in Workers, t \in Sessions :
              sessions'[w][t] = sessions[w][t] \/ (w = call.w /\ t = s)
      BY <1>2, <1>4, <2>2 DEF TypeOK
  <2>5. /\ accepted' \in [Workers -> SUBSET Sessions]
        /\ accepted'[call.w] = accepted[call.w] \cup {s}
        /\ \A w \in Workers : accepted[w] \subseteq accepted'[w]
        /\ \A w \in Workers : accepted'[w] \subseteq accepted[w] \cup {s}
      BY <1>2, <1>4, <1>8 DEF TypeOK
  <2>6. TypeOK'
      BY <1>1, <1>2, <2>3, <2>4, <2>5 DEF TypeOK
  <2>7. LiveWhereDealt'
    <3>1. ASSUME NEW w \in Workers, NEW t \in Sessions, sessions'[w][t] # NONE
          PROVE  (/\ t <= Len(dealt) /\ dealt[t].w = w
                  /\ Agree(w, t) /\ t \in accepted[w])'
      <4>1. CASE w = call.w /\ t = s
          BY <1>1, <1>3, <1>4, <2>4, <2>5, <4>1 DEF Agree, d
      <4>2. CASE sessions'[w][t] = sessions[w][t]
          BY <1>1, <2>5, <3>1, <4>2 DEF InProcessInv, LiveWhereDealt, Agree
      <4> QED
          BY <2>4, <4>1, <4>2
    <3> QED
        BY <3>1 DEF LiveWhereDealt
  <2>8. OnlyDealt'
      BY <1>1, <1>4, <2>5 DEF InProcessInv, OnlyDealt
  <2>9. KeptSessionsAgree'
    <3>1. ASSUME NEW o \in Orchestrators, NEW i \in Ids, kept[o][i] # NONE
          PROVE  /\ dealt[kept[o][i]].o = o /\ IdOf[dealt[kept[o][i]].w] = i
                 /\ Agree(dealt[kept[o][i]].w, kept[o][i])'
      <4> DEFINE t == kept[o][i]
      <4>1. t \in Sessions /\ t # s /\ t \in 1..Len(dealt)
          BY <1>2, <1>3, <3>1, InProcessAssumption DEF s, TypeOK, InProcessInv, OnlyDealt, Sessions
      <4>2. dealt[t].w \in Workers
          BY <1>2, <4>1, DealtTyped
      <4>3. /\ dealt[t].o = o /\ IdOf[dealt[t].w] = i /\ Agree(dealt[t].w, t)
          BY <3>1 DEF InProcessInv, KeptSessionsAgree
      <4>4. sessions'[dealt[t].w][t] = sessions[dealt[t].w][t]
          BY <2>4, <4>1, <4>2
      <4> QED
          BY <1>1, <4>3, <4>4 DEF Agree
    <3> QED
        BY <1>1, <3>1 DEF KeptSessionsAgree, Agree
  <2>10. EstablishingLatest'
    <3>1. s \in accepted'[call.w]
        BY <2>5
    <3>2. sessions'[call.w][s] = [inputs |-> dealt[s].inputs, mode |-> dealt[s].mode]
        BY <2>4 DEF d
    <3> QED
        BY <1>1, <1>3, <2>3, <3>1, <3>2 DEF EstablishingLatest, Agree
  <2>11. DelegatingKept' /\ SentMeansTornDown' /\ VerifiedRegistered' /\ FreshSoFar' /\ ModesDerived'
      BY <1>1, <2>3 DEF InProcessInv, DelegatingKept, SentMeansTornDown, VerifiedRegistered,
                        FreshSoFar, Ended, ModesDerived
  <2>12. DelegatingTrue'
      BY <1>1, <1>5, <2>3 DEF InProcessInv, DelegatingTrue
  <2>13. Displaced'
    <3>1. ASSUME NEW w \in Workers, NEW t \in Sessions, sessions'[w][t] # NONE
          PROVE  \/ kept[dealt[t].o][IdOf[w]] = t
                 \/ Replaced(t)'
                 \/ takenFor[t] \notin {NONE, w}
                 \/ t = s
      <4>1. CASE w = call.w /\ t = s
          BY <4>1
      <4>2. CASE sessions'[w][t] = sessions[w][t]
        <5>1. ASSUME Replaced(t)
              PROVE  Replaced(t)'
          <6>1. PICK later \in (t + 1)..Len(dealt) :
                   /\ dealt[later].o = dealt[t].o
                   /\ IdOf[dealt[later].w] = IdOf[dealt[t].w]
                   /\ later \in accepted[dealt[later].w]
              BY <5>1 DEF Replaced
          <6>2. dealt[later].w \in Workers
              BY <1>2, <1>4, <6>1, DealtTyped DEF Sessions
          <6> QED
              BY <1>1, <2>5, <6>1, <6>2 DEF Replaced
        <5> QED
            BY <1>1, <3>1, <4>2, <5>1 DEF InProcessInv, Displaced
      <4> QED
          BY <2>4, <4>1, <4>2
    <3> QED
        BY <1>1, <2>3, <3>1 DEF Displaced
  <2> QED
      BY <2>6, <2>7, <2>8, <2>9, <2>10, <2>11, <2>12, <2>13 DEF InProcessInv
<1> QED
    BY <1>6, <1>7, <1>8

-----------------------------------------------------------------------------
\* A session is kept: it replaces the one before it.
LEMMA KeepStep ==
    ASSUME InProcessInv, Keep
    PROVE  InProcessInv'
<1> DEFINE s == call.sid
           i == IdOf[call.w]
<1>1. /\ call.pc = "keep" /\ kept' = [kept EXCEPT ![call.o][i] = s]
      /\ UNCHANGED <<trusted, sessions, accepted, registry, links, calls, dealt, takenFor, ran,
                     verified>>
    BY DEF Keep, At, history, workerSide
<1>2. /\ call \in CallRecords /\ call # Idle /\ call \in Establishment \cup Delegation
      /\ TypeOK /\ call.w \in Workers /\ call.o \in Orchestrators /\ i \in Ids
    BY <1>1, Running, CallKinds DEF Ended, Establishing
<1>3. /\ s = Len(dealt) /\ s # 0 /\ dealt[s].o = call.o /\ dealt[s].w = call.w
      /\ \A o \in Orchestrators, j \in Ids : kept[o][j] # s
      /\ s \in accepted[call.w] /\ Agree(call.w, s)
    BY <1>1 DEF InProcessInv, EstablishingLatest
<1>4. s \in 1..Len(dealt) /\ Len(dealt) \in Nat /\ s \in Sessions /\ s # NONE
    <2>1. s \in 1..Len(dealt) /\ Len(dealt) \in Nat
        BY <1>2, <1>3, DealtTyped
    <2> QED
        BY <1>2, <2>1, DealtTyped, InProcessAssumption
<1>5. call.kind = "delegate" => call \in Delegation /\ call.reply = "none"
    BY <1>1, <1>2, CallKinds DEF InProcessInv, DelegatingTrue, Ended
<1>6. PICK l \in {"seal", "returned", "raised"} :
          /\ call' = Goto(call, l)
          /\ l = "seal" => call.kind = "delegate"
          /\ l = "returned" => call.kind # "delegate"
  <2>1. Goto(Goto(call, "seal"), "raised") = Goto(call, "raised")
        /\ Goto(Goto(call, "returned"), "raised") = Goto(call, "raised")
      BY <1>2 DEF Goto, Establishment, Delegation
  <2> QED
      BY <2>1 DEF Keep, Logged
<1>7. call \in Delegation => call.kind = "delegate"
    BY DEF Delegation
<1>8. /\ call' \in CallRecords /\ call'.pc = l /\ call'.kind = call.kind
      /\ call'.sid = s /\ call'.o = call.o /\ call'.w = call.w
      /\ call \in Delegation => /\ call'.query = call.query /\ call'.reply = call.reply
                                /\ call'.answer = call.answer
    BY <1>2, <1>5, <1>6, <1>7, GotoFields, GotoType DEF CallRecords, Delegating, Ended
<1> HIDE DEF s, i
<1>9. /\ kept' \in [Orchestrators -> [Ids -> Sessions \cup {NONE}]]
      /\ kept'[call.o][i] = s
      /\ \A o \in Orchestrators, j \in Ids :
            kept'[o][j] = kept[o][j] \/ (o = call.o /\ j = i)
    BY <1>1, <1>2, <1>4 DEF TypeOK
<1>10. TypeOK'
    BY <1>1, <1>2, <1>8, <1>9 DEF TypeOK
<1>11. LiveWhereDealt' /\ ModesDerived'
    BY <1>1 DEF InProcessInv, LiveWhereDealt, Agree, ModesDerived
<1>12. OnlyDealt'
    BY <1>1, <1>3, <1>4, <1>9 DEF InProcessInv, OnlyDealt
<1>13. KeptSessionsAgree'
  <2>1. ASSUME NEW o \in Orchestrators, NEW j \in Ids, kept'[o][j] # NONE
        PROVE  /\ dealt[kept'[o][j]].o = o /\ IdOf[dealt[kept'[o][j]].w] = j
               /\ sessions[dealt[kept'[o][j]].w][kept'[o][j]] =
                      [inputs |-> dealt[kept'[o][j]].inputs, mode |-> dealt[kept'[o][j]].mode]
    <3>1. CASE o = call.o /\ j = i
        BY <1>3, <1>9, <3>1 DEF Agree, i
    <3>2. CASE kept'[o][j] = kept[o][j]
        BY <2>1, <3>2 DEF InProcessInv, KeptSessionsAgree, Agree
    <3> QED
        BY <1>9, <3>1, <3>2
  <2>2. UNCHANGED <<sessions, dealt>>
      BY <1>1
  <2> QED
      BY <2>1, <2>2 DEF KeptSessionsAgree, Agree
<1>14. EstablishingLatest' /\ SentMeansTornDown' /\ FreshSoFar' /\ VerifiedRegistered'
    BY <1>1, <1>5, <1>6, <1>8 DEF InProcessInv, EstablishingLatest, SentMeansTornDown,
                                  FreshSoFar, VerifiedRegistered, Ended
<1>15. DelegatingKept'
    BY <1>4, <1>6, <1>8, <1>9 DEF DelegatingKept, i
<1>16. DelegatingTrue'
    BY <1>1, <1>5, <1>6, <1>8 DEF InProcessInv, DelegatingTrue
<1>17. Displaced'
  <2>1. ASSUME NEW w \in Workers, NEW t \in Sessions, sessions[w][t] # NONE
        PROVE  \/ kept'[dealt[t].o][IdOf[w]] = t
               \/ Replaced(t)
               \/ takenFor[t] \notin {NONE, w}
    <3>1. t \in 1..Len(dealt) /\ dealt[t].w = w /\ dealt[t].o \in Orchestrators /\ IdOf[w] \in Ids
        BY <1>2, <1>4, <2>1, DealtTyped, InProcessAssumption
           DEF InProcessInv, LiveWhereDealt, Sessions
    <3>2. CASE t = s
        BY <1>3, <1>9, <3>1, <3>2 DEF i
    <3>3. CASE t # s /\ kept[dealt[t].o][IdOf[w]] = t
      <4>1. CASE dealt[t].o = call.o /\ IdOf[w] = i
        <5>1. s \in (t + 1)..Len(dealt)
            BY <1>3, <1>4, <3>1, <3>3
        <5> QED
            BY <1>3, <3>1, <4>1, <5>1 DEF Replaced, i
      <4>2. CASE ~(dealt[t].o = call.o /\ IdOf[w] = i)
          BY <1>9, <3>1, <3>3, <4>2
      <4> QED
          BY <4>1, <4>2
    <3>4. CASE t # s /\ kept[dealt[t].o][IdOf[w]] # t
        BY <2>1, <3>4 DEF InProcessInv, Displaced, s
    <3> QED
        BY <3>2, <3>3, <3>4
  <2> QED
      BY <1>1, <2>1 DEF Displaced, Replaced
<1> QED
    BY <1>10, <1>11, <1>12, <1>13, <1>14, <1>15, <1>16, <1>17 DEF InProcessInv

\* A session is popped, and dropped at the worker at hand.
LEMMA TeardownStep ==
    ASSUME InProcessInv, Teardown
    PROVE  InProcessInv'
<1> DEFINE i == IdOf[call.w]
           s == kept[call.o][i]
<1>1. /\ call.pc = "teardown"
      /\ UNCHANGED <<trusted, accepted, registry, links, calls, dealt, ran, verified>>
    BY DEF Teardown, At
<1>2. /\ call \in CallRecords /\ call # Idle /\ call \in Ending \cup Delegation
      /\ TypeOK /\ call.w \in Workers /\ call.o \in Orchestrators /\ i \in Ids
    BY <1>1, Running, CallKinds DEF Ended
<1>3. call.kind = "delegate" => call \in Delegation /\ call.sid = s /\ call.sid # NONE
    BY <1>1, <1>2, CallKinds DEF InProcessInv, DelegatingKept
<1>4. PICK l \in Ended :
          /\ call' = Goto(call, l)
          /\ l = "returned" => call.answer # "raised"
  <2>1. \A l : Goto(Goto(call, l), "raised") = Goto(call, "raised")
      BY <1>2 DEF Goto, Ending, Delegation
  <2> QED
      BY <2>1 DEF Teardown, Close, Logged, Ended
<1>5. /\ call' \in CallRecords /\ call'.pc = l /\ call'.kind = call.kind
      /\ call'.o = call.o /\ call'.w = call.w
      /\ call \in Delegation => /\ call'.query = call.query /\ call'.teardown = call.teardown
                                /\ call'.reply = call.reply /\ call'.sid = call.sid
                                /\ call'.answer = call.answer
    BY <1>2, <1>4, GotoFields, GotoType
<1>6. EstablishingLatest' /\ DelegatingKept'
    BY <1>4, <1>5 DEF EstablishingLatest, DelegatingKept, Ended
<1>7. DelegatingTrue'
  <2>1. call \in Delegation => call.answer \in {"none", "results", "error", "raised"}
      BY DEF Delegation
  <2> QED
      BY <1>1, <1>3, <1>4, <1>5, <2>1 DEF InProcessInv, DelegatingTrue, Ended
<1>8. CASE /\ ~call.teardown \/ s = NONE
           /\ UNCHANGED <<sessions, kept, takenFor>>
  <2>1. TypeOK' /\ VerifiedRegistered'
      BY <1>1, <1>2, <1>5, <1>8 DEF InProcessInv, TypeOK, VerifiedRegistered
  <2>2. SentMeansTornDown'
      BY <1>3, <1>5, <1>8 DEF SentMeansTornDown
  <2>3. calls <= calls'
      BY <1>1, <1>2 DEF TypeOK
  <2>4. call'.pc \notin {"pin", "derive"}
      BY <1>4, <1>5 DEF Ended
  <2> QED
      BY <1>1, <1>6, <1>7, <1>8, <2>1, <2>2, <2>3, <2>4, ControlStep
<1>9. CASE /\ call.teardown /\ s # NONE
           /\ kept' = [kept EXCEPT ![call.o][i] = NONE]
           /\ sessions' = [sessions EXCEPT ![call.w][s] = NONE]
           /\ takenFor' = [takenFor EXCEPT ![s] = call.w]
  <2>1. s \in Sessions /\ dealt[s].o = call.o /\ IdOf[dealt[s].w] = i /\ call.w # NONE
      BY <1>2, <1>9, InProcessAssumption DEF TypeOK, InProcessInv, KeptSessionsAgree
  <2> HIDE DEF s, i
  <2>2. /\ kept' \in [Orchestrators -> [Ids -> Sessions \cup {NONE}]]
        /\ kept'[call.o][i] = NONE
        /\ \A o \in Orchestrators, j \in Ids :
              kept'[o][j] = kept[o][j] \/ (o = call.o /\ j = i)
      BY <1>2, <1>9 DEF TypeOK
  <2>3. /\ sessions' \in [Workers -> [Sessions -> Derived \cup {NONE}]]
        /\ sessions'[call.w][s] = NONE
        /\ \A w \in Workers, t \in Sessions :
              sessions'[w][t] = sessions[w][t] \/ (w = call.w /\ t = s)
      BY <1>2, <1>9, <2>1 DEF TypeOK
  <2>4. /\ takenFor' \in [Sessions -> Workers \cup {NONE}]
        /\ takenFor'[s] = call.w
        /\ \A t \in Sessions : takenFor'[t] = takenFor[t] \/ t = s
      BY <1>2, <1>9, <2>1 DEF TypeOK
  <2>5. TypeOK'
      BY <1>1, <1>2, <1>5, <2>2, <2>3, <2>4 DEF TypeOK
  <2>6. LiveWhereDealt' /\ ModesDerived'
      BY <1>1, <2>3 DEF InProcessInv, LiveWhereDealt, Agree, ModesDerived
  <2>7. OnlyDealt'
      BY <1>1, <2>2 DEF InProcessInv, OnlyDealt
  <2>8. KeptSessionsAgree'
    <3>1. ASSUME NEW o \in Orchestrators, NEW j \in Ids, kept'[o][j] # NONE
          PROVE  /\ dealt[kept'[o][j]].o = o /\ IdOf[dealt[kept'[o][j]].w] = j
                 /\ sessions'[dealt[kept'[o][j]].w][kept'[o][j]] =
                        [inputs |-> dealt[kept'[o][j]].inputs, mode |-> dealt[kept'[o][j]].mode]
      <4> DEFINE t == kept'[o][j]
      <4>1. t = kept[o][j] /\ ~(o = call.o /\ j = i)
          BY <2>2, <3>1
      <4>2. dealt[t].o = o /\ IdOf[dealt[t].w] = j /\ Agree(dealt[t].w, t)
          BY <3>1, <4>1 DEF InProcessInv, KeptSessionsAgree
      <4>3. t # s
          BY <2>1, <4>1, <4>2
      <4>4. t \in Sessions /\ t \in 1..Len(dealt)
          BY <1>2, <3>1, <4>1 DEF TypeOK, InProcessInv, OnlyDealt, Sessions
      <4>5. dealt[t].w \in Workers
          BY <1>2, <4>4, DealtTyped
      <4> QED
          BY <2>3, <4>2, <4>3, <4>4, <4>5 DEF Agree
    <3> QED
        BY <1>1, <3>1 DEF KeptSessionsAgree, Agree
  <2>9. Displaced'
    <3>1. ASSUME NEW w \in Workers, NEW t \in Sessions, sessions'[w][t] # NONE
          PROVE  \/ kept'[dealt[t].o][IdOf[w]] = t
                 \/ Replaced(t)
                 \/ takenFor'[t] \notin {NONE, w}
      <4>1. sessions[w][t] # NONE /\ ~(w = call.w /\ t = s)
          BY <2>3, <3>1
      <4>2. dealt[t].o \in Orchestrators /\ IdOf[w] \in Ids
          BY <1>2, <4>1, DealtTyped, InProcessAssumption
             DEF InProcessInv, LiveWhereDealt, Sessions
      <4>3. CASE t = s
          BY <2>1, <2>4, <4>1, <4>3
      <4>4. CASE t # s /\ kept[dealt[t].o][IdOf[w]] = t
        <5>1. ~(dealt[t].o = call.o /\ IdOf[w] = i)
            BY <4>4 DEF s
        <5> QED
            BY <2>2, <4>2, <4>4, <5>1
      <4>5. CASE t # s /\ kept[dealt[t].o][IdOf[w]] # t
          BY <1>1, <2>4, <4>1, <4>5 DEF InProcessInv, Displaced
      <4> QED
          BY <4>3, <4>4, <4>5
    <3> QED
        BY <1>1, <3>1 DEF Displaced, Replaced
  <2>10. SentMeansTornDown'
      BY <1>3, <1>5, <2>2, <2>3 DEF SentMeansTornDown, i
  <2>11. FreshSoFar' /\ VerifiedRegistered'
      BY <1>1, <1>4, <1>5 DEF InProcessInv, FreshSoFar, VerifiedRegistered, Ended
  <2> QED
      BY <1>6, <1>7, <2>5, <2>6, <2>7, <2>8, <2>9, <2>10, <2>11 DEF InProcessInv
<1> QED
    BY <1>8, <1>9 DEF Teardown

-----------------------------------------------------------------------------
LEMMA InitInv == Init => InProcessInv
<1> SUFFICES ASSUME Init PROVE InProcessInv
    OBVIOUS
<1> USE InProcessAssumption DEF Init
<1>1. TypeOK
    BY DEF TypeOK, CallRecords
<1>2. LiveWhereDealt /\ Displaced
    BY DEF LiveWhereDealt, Displaced
<1>3. OnlyDealt /\ KeptSessionsAgree
    BY DEF OnlyDealt, KeptSessionsAgree
<1>4. ModesDerived /\ FreshSoFar
    BY DEF ModesDerived, FreshSoFar, Idle
<1>5. EstablishingLatest /\ DelegatingKept /\ DelegatingTrue /\ SentMeansTornDown
    BY DEF EstablishingLatest, DelegatingKept, DelegatingTrue, SentMeansTornDown, Idle
<1>6. VerifiedRegistered
    BY DEF VerifiedRegistered
<1> QED
    BY <1>1, <1>2, <1>3, <1>4, <1>5, <1>6 DEF InProcessInv

LEMMA StepInv == InProcessInv /\ [Next]_vars => InProcessInv'
<1> SUFFICES ASSUME InProcessInv, [Next]_vars PROVE InProcessInv'
    OBVIOUS
<1>1. CASE BeginEstablish \/ BeginTeardown \/ BeginDelegate \/ BeginRegister \/ BeginHandshake
    BY <1>1, BeginningStep
<1>2. CASE Pin
    BY <1>2, PinStep
<1>3. CASE Derive
    BY <1>3, DeriveStep
<1>4. CASE Accept
    BY <1>4, AcceptStep
<1>5. CASE Keep
    BY <1>5, KeepStep
<1>6. CASE Seal
    BY <1>6, SealStep
<1>7. CASE Execute
    BY <1>7, ExecuteStep
<1>8. CASE Open
    BY <1>8, OpenStep
<1>9. CASE Teardown
    BY <1>9, TeardownStep
<1>10. CASE Register
    BY <1>10, RegisterStep
<1>11. CASE Handshake
    BY <1>11, HandshakeStep
<1>12. CASE UNCHANGED vars
    BY <1>12 DEF vars, InProcessInv, TypeOK, LiveWhereDealt, OnlyDealt, ModesDerived,
                 KeptSessionsAgree, EstablishingLatest, DelegatingKept, DelegatingTrue,
                 Displaced, Replaced, SentMeansTornDown, FreshSoFar, VerifiedRegistered, Agree
<1> QED
    BY <1>1, <1>2, <1>3, <1>4, <1>5, <1>6, <1>7, <1>8, <1>9, <1>10, <1>11, <1>12 DEF Next

-----------------------------------------------------------------------------
\* The inductive invariant: what holds wherever a call was cut off.
THEOREM InProcessInvHolds == Spec => []InProcessInv
    BY InitInv, StepInv, PTL DEF Spec

\* Every variable keeps its type: in particular a call is always one of the five
\* kinds of calls of orchestrator_agent.py, at a statement of its own.
THEOREM TypeCorrect == Spec => []TypeOK
<1>1. InProcessInv => TypeOK
    BY DEF InProcessInv
<1> QED
    BY <1>1, InProcessInvHolds, PTL

\* A session an orchestrator keeps is live at the worker that accepted it, with
\* the key and mode its sender derived: what establish_session, delegate_search
\* and teardown_session leave behind when any event is refused can be used.
THEOREM KeptSessionsAgreeHolds == Spec => []KeptSessionsAgree
<1>1. InProcessInv => KeptSessionsAgree
    BY DEF InProcessInv
<1> QED
    BY <1>1, InProcessInvHolds, PTL

\* Between calls, only a session that another one displaced, or that was popped
\* for another worker of the same id, is held by a worker alone.
THEOREM OnlyDisplacedLeakHolds == Spec => []OnlyDisplacedLeak
<1>1. InProcessInv => OnlyDisplacedLeak
    BY DEF InProcessInv, Displaced, OnlyDisplacedLeak, Ended
<1> QED
    BY <1>1, InProcessInvHolds, PTL

\* The finally clause of delegate_search leaves no session at either end once
\* the query was sent.
THEOREM SentMeansTornDownHolds == Spec => []SentMeansTornDown
<1>1. InProcessInv => SentMeansTornDown
    BY DEF InProcessInv
<1> QED
    BY <1>1, InProcessInvHolds, PTL

\* execute_search answers with an error only at a worker object that is not the
\* one the session was established with.
THEOREM OnlyStrangersFailHolds == Spec => []OnlyStrangersFail
<1>1. InProcessInv => OnlyStrangersFail
    BY DEF InProcessInv, DelegatingTrue, OnlyStrangersFail
<1> QED
    BY <1>1, InProcessInvHolds, PTL

\* delegate_search returns results exactly when its query ran, once, and at the
\* worker it named.
THEOREM AnswersMatchRunsHolds == Spec => []AnswersMatchRuns
<1>1. InProcessInv => AnswersMatchRuns
  <2>1. ASSUME InProcessInv, call.kind = "delegate", call.pc = "returned"
        PROVE  {e \in ran : e[1] = call.query} =
                   IF call.answer = "results" THEN {<<call.query, call.w, call.sid>>} ELSE {}
    <3>1. /\ call.answer \in {"results", "error"}
          /\ call.answer = "results" => call.reply = "sealed"
          /\ call.answer = "error" => call.reply = "clear"
          /\ {e \in ran : e[1] = call.query} =
                 IF call.reply = "sealed" THEN {<<call.query, call.w, call.sid>>} ELSE {}
        BY <2>1 DEF InProcessInv, DelegatingTrue
    <3> QED
        BY <3>1
  <2> QED
      BY <2>1 DEF AnswersMatchRuns
<1> QED
    BY <1>1, InProcessInvHolds, PTL

\* Of several workers with one id, perform_handshake verifies at most one.
THEOREM OneVerifiedWorkerHolds == Spec => []OneVerifiedWorker
<1>1. InProcessInv => OneVerifiedWorker
  <2>1. ASSUME InProcessInv, NEW v1 \in verified, NEW v2 \in verified,
               v1[1] = v2[1], IdOf[v1[2]] = IdOf[v2[2]]
        PROVE  v1 = v2
    <3>1. v1 = <<v1[1], v1[2]>> /\ v2 = <<v2[1], v2[2]>>
        BY <2>1 DEF InProcessInv, TypeOK
    <3>2. v1[2] = v2[2]
        BY <2>1 DEF InProcessInv, VerifiedRegistered
    <3> QED
        BY <2>1, <3>1, <3>2
  <2> QED
      BY <2>1 DEF OneVerifiedWorker
<1> QED
    BY <1>1, InProcessInvHolds, PTL

\* A session that has just been derived has a session id and a key that no
\* session before it had, for any length of run: ciphertexts do not repeat, and
\* the encoding of derive_session_key lets no field stand for another.
THEOREM SessionsDistinctHolds == Spec => []SessionsDistinct
<1>1. InProcessInv => SessionsDistinct
  <2>1. ASSUME InProcessInv, NEW s \in 1..(Len(dealt) - 1)
        PROVE  LET old == DeriveSessionKey(dealt[s].inputs)
                   new == DeriveSessionKey(dealt[Len(dealt)].inputs)
               IN old.key # new.key /\ old.transcript_hash # new.transcript_hash
    <3> DEFINE n == Len(dealt)
               a == dealt[s].inputs
               b == dealt[n].inputs
    <3>1. n \in 1..Len(dealt) /\ s \in 1..Len(dealt) /\ s # n
        BY <2>1, DealtTyped DEF InProcessInv
    <3>2. a \in Inputs /\ b \in Inputs /\ s \in Sessions /\ n \in Sessions
        BY <2>1, <3>1, DealtTyped DEF InProcessInv
    <3>3. a.pqc_ciphertext = Fresh[s] /\ b.pqc_ciphertext = Fresh[n]
        BY <2>1, <3>1 DEF InProcessInv, FreshSoFar
    <3>4. Fresh[s] # Fresh[n]
        BY <3>1, <3>2, FreshAssumption, InProcessAssumption DEF Sessions
    <3>5. Public(a) # Public(b)
        BY <3>3, <3>4 DEF Public
    <3> HIDE DEF a, b
    <3>6. Transcript(a) # Transcript(b)
        BY <3>2, <3>5, TranscriptCancels
    <3>7. /\ DeriveSessionKey(a).key # DeriveSessionKey(b).key
          /\ DeriveSessionKey(a).transcript_hash # DeriveSessionKey(b).transcript_hash
        BY <3>6 DEF DeriveSessionKey
    <3> QED
        BY <3>7 DEF a, b
  <2> QED
      BY <2>1 DEF SessionsDistinct
<1> QED
    BY <1>1, InProcessInvHolds, PTL
=============================================================================
