----------------------------- MODULE InProcess -----------------------------
(***************************************************************************)
(* orchestrator_agent.py driving SecureSearchAgent objects in one process. *)
(* No coroutine here ever suspends, so calls run one after another; what   *)
(* goes wrong goes wrong inside a call.  Every log_event may raise (the    *)
(* log is full or the disk fails), and so do a refused key, an empty       *)
(* context and a full replay cache; a step below is what runs between two  *)
(* places that can raise.  Sessions and pins are filed under agent ids,    *)
(* and several objects may carry one id (the default ids do).              *)
(*                                                                         *)
(* Sessions are numbered in the order of their encapsulations: ciphertext, *)
(* KEM secret and entropy of session s are fresh, and Fresh[s] stands for  *)
(* each of them.  A session's inputs stand for its key and s for its       *)
(* transcript hash: SessionEncoding shows that neither confuses two        *)
(* sessions.  An object is its own key pair.                               *)
(***************************************************************************)
EXTENDS AcceptOnce, SessionEncoding

CONSTANTS
    Orchestrators, Workers,   \* OrchestratorAgent and SecureSearchAgent objects
    Ids, IdOf,                \* agent ids, and the id of each object
    Epochs,                   \* QKD epochs that callers name, in bytes
    MaxEntries,               \* size of accepted_session_ids
    Fresh,                    \* byte strings that do not repeat
    MaxSessions, MaxCalls     \* bounds on encapsulations and calls

\* What an end of a session derives.
Derived == [inputs : Inputs, mode : Modes]

ASSUME InProcessAssumption ==
    /\ IdOf \in [Orchestrators \cup Workers -> Ids]
    /\ MaxEntries \in Nat \ {0} /\ MaxSessions \in Nat /\ MaxCalls \in Nat
    /\ Ids \subseteq Bytes /\ Epochs \subseteq Bytes
    /\ NONE \notin Orchestrators \cup Workers \cup Nat \cup Derived

ASSUME FreshAssumption ==
    /\ Fresh \in [1..(MaxSessions + MaxCalls) -> Bytes]
    /\ \A m, n \in DOMAIN Fresh : Fresh[m] = Fresh[n] => m = n

VARIABLES
    trusted,   \* trusted_orchestrators of each worker
    sessions,  \* sessions of each worker: what it derived, or NONE
    accepted,  \* accepted_session_ids of each worker
    kept,      \* sessions of each orchestrator: a session, or NONE, per worker id
    registry,  \* registry of each orchestrator
    links,     \* _shared_keys of their QKD simulators: Fresh[k] is for links[k]
    call,      \* the running call, or the last one
    calls,     \* calls made; the number of a delegation is its query id
    dealt,     \* history: the ends of each session and what the sender derived
    takenFor,  \* history: the worker for which a session was popped, or NONE
    ran,       \* history: <<query, worker, session>> for each execution
    verified   \* history: <<orchestrator, worker>> of verified handshakes

vars == <<trusted, sessions, accepted, kept, registry, links, call, calls, dealt,
          takenFor, ran, verified>>
workerSide == <<trusted, sessions, accepted>>
history == <<dealt, takenFor, ran, verified>>

Sessions == 1..MaxSessions
Ended == {"returned", "raised"}

Idle == [kind |-> "none", pc |-> "returned"]

Init ==
    /\ trusted = [w \in Workers |-> [i \in Ids |-> NONE]]
    /\ sessions = [w \in Workers |-> [s \in Sessions |-> NONE]]
    /\ accepted = [w \in Workers |-> {}]
    /\ kept = [o \in Orchestrators |-> [i \in Ids |-> NONE]]
    /\ registry = [o \in Orchestrators |-> [i \in Ids |-> NONE]]
    /\ links = <<>>
    /\ call = Idle
    /\ calls = 0
    /\ dealt = <<>>
    /\ takenFor = [s \in Sessions |-> NONE]
    /\ ran = {}
    /\ verified = {}

-----------------------------------------------------------------------------
\* The control of the running call c.

Goto(c, label) == [c EXCEPT !.pc = label]

\* c continues, unless log_event raises.
Logged(c) == call' \in {c, Goto(c, "raised")}

At(label) == call.pc = label

Begin(c) == /\ call.pc \in Ended
            /\ calls < MaxCalls
            /\ calls' = calls + 1
            /\ call' = c
            /\ UNCHANGED <<workerSide, kept, registry, links, history>>

-----------------------------------------------------------------------------
\* What the callers ask for.

BeginEstablish ==
    \E o \in Orchestrators, w \in Workers, qkd \in BOOLEAN, e \in Epochs \cup {NONE} :
        Begin([kind |-> "establish", o |-> o, w |-> w, pc |-> "pin",
               qkd |-> qkd, epoch |-> e, sid |-> NONE])

BeginTeardown ==
    \E o \in Orchestrators, w \in Workers :
        Begin([kind |-> "teardown", o |-> o, w |-> w, pc |-> "teardown",
               teardown |-> TRUE, answer |-> "none"])

\* delegate_search: a kept session is used, or one is established without QKD.
BeginDelegate ==
    \E o \in Orchestrators, w \in Workers, t \in BOOLEAN :
        LET s == kept[o][IdOf[w]] IN
        Begin([kind |-> "delegate", o |-> o, w |-> w,
               pc |-> IF s = NONE THEN "pin" ELSE "seal",
               qkd |-> FALSE, epoch |-> NONE, sid |-> s, query |-> calls + 1,
               teardown |-> t, reply |-> "none", answer |-> "none"])

BeginRegister ==
    \E o \in Orchestrators, w \in Workers :
        Begin([kind |-> "register", o |-> o, w |-> w, pc |-> "register"])

BeginHandshake ==
    \E o \in Orchestrators, w \in Workers :
        Begin([kind |-> "handshake", o |-> o, w |-> w, pc |-> "handshake"])

-----------------------------------------------------------------------------
\* establish_session.

\* register_orchestrator.
Pin ==
    /\ At("pin")
    /\ \/ /\ trusted[call.w][IdOf[call.o]] \notin {NONE, call.o}
          /\ call' = Goto(call, "raised")
          /\ UNCHANGED trusted
       \/ /\ trusted[call.w][IdOf[call.o]] \in {NONE, call.o}
          /\ trusted' = [trusted EXCEPT ![call.w][IdOf[call.o]] = call.o]
          /\ call' = Goto(call, "derive")
    /\ UNCHANGED <<sessions, accepted, kept, registry, links, calls, history>>

\* A missing epoch is generated, fresh like the session itself.
Epoch(c, s) == IF c.qkd /\ Text(c.epoch) = <<>> THEN Fresh[s] ELSE c.epoch

\* QKDSimulator.establish_key, for c and session s: one key per pair of ids and
\* epoch, from then on.
LinkOf(c, s) == [by |-> c.o, ends |-> {IdOf[c.o], IdOf[c.w]}, epoch |-> Epoch(c, s)]

LinkAfter(c, s) ==
    IF c.qkd /\ \A k \in DOMAIN links : links[k] # LinkOf(c, s)
    THEN Append(links, LinkOf(c, s)) ELSE links

InputsOf(c, s, context) ==
    [sender |-> IdOf[c.o], receiver |-> IdOf[c.w], context |-> context,
     pqc_ciphertext |-> Fresh[s], pqc_secret |-> Fresh[s], qrng_entropy |-> Fresh[s],
     qkd_secret |-> IF c.qkd THEN Fresh[CHOOSE k \in DOMAIN links' : links'[k] = LinkOf(c, s)]
                    ELSE NONE,
     qkd_epoch |-> Epoch(c, s)]

\* Only a delegation always has a context.
Contexts(c) == IF c.kind = "delegate" THEN {<<0>>} ELSE {<<0>>, <<>>}

Derive ==
    LET s == Len(dealt) + 1 IN
    /\ At("derive")
    /\ s <= MaxSessions
    /\ links' = LinkAfter(call, s)
    /\ \E context \in Contexts(call) :
          LET in == InputsOf(call, s, context) IN
          \/ /\ Derivable(in)
             /\ dealt' = Append(dealt, [o |-> call.o, w |-> call.w, inputs |-> in,
                                        mode |-> Mode(in)])
             /\ call' = [Goto(call, "accept") EXCEPT !.sid = s]
          \/ /\ ~Derivable(in)
             /\ call' = Goto(call, "raised")
             /\ UNCHANGED dealt
    /\ UNCHANGED <<workerSide, kept, registry, calls, takenFor, ran, verified>>

\* accept_session.  The worker derives from the arguments, with its own id and
\* the secret it decapsulates; the two keys are compared.
Received(in, w) == [in EXCEPT !.receiver = IdOf[w], !.pqc_secret = in.pqc_ciphertext]

Accept ==
    LET sent == dealt[call.sid].inputs
        in == Received(sent, call.w)
        fits == /\ trusted[call.w][IdOf[call.o]] = call.o
                /\ Derivable(in) /\ in = sent
                /\ Accepts(accepted[call.w], MaxEntries, call.sid)
    IN
    /\ At("accept")
    /\ \/ /\ fits
          /\ accepted' = [accepted EXCEPT ![call.w] = @ \cup {call.sid}]
          /\ sessions' = [sessions EXCEPT ![call.w][call.sid] =
                             [inputs |-> in, mode |-> Mode(in)]]
          /\ call' = Goto(call, "keep")
       \/ ~fits /\ call' = Goto(call, "raised") /\ UNCHANGED <<accepted, sessions>>
    /\ UNCHANGED <<trusted, kept, registry, links, calls, history>>

\* Seeded fault: the worker is filed under, and not its session.
KeepWorker ==
    /\ At("keep")
    /\ kept' = [kept EXCEPT ![call.o][IdOf[call.w]] = call.w]
    /\ Logged(Goto(call, IF call.kind = "delegate" THEN "seal" ELSE "returned"))
    /\ UNCHANGED <<workerSide, registry, links, calls, history>>

\* Seeded fault: the event is logged before the session is kept.
KeepLogged ==
    /\ At("keep")
    /\ \/ /\ kept' = [kept EXCEPT ![call.o][IdOf[call.w]] = call.sid]
          /\ call' = Goto(call, IF call.kind = "delegate" THEN "seal" ELSE "returned")
       \/ call' = Goto(call, "raised") /\ UNCHANGED kept
    /\ UNCHANGED <<workerSide, registry, links, calls, history>>

\* The session replaces whatever is kept under the worker's id, and stays when
\* the event is refused.
Keep ==
    /\ At("keep")
    /\ kept' = [kept EXCEPT ![call.o][IdOf[call.w]] = call.sid]
    /\ Logged(Goto(call, IF call.kind = "delegate" THEN "seal" ELSE "returned"))
    /\ UNCHANGED <<workerSide, registry, links, calls, history>>

-----------------------------------------------------------------------------
\* delegate_search, from the sealed envelope on.

\* Sealing cannot fail; a refused event leaves before the try block.
Seal ==
    /\ At("seal")
    /\ Logged(Goto(call, "execute"))
    /\ UNCHANGED <<workerSide, kept, registry, links, calls, history>>

\* The worker's record of session s opens what the sender sealed.
Agree(w, s) == sessions[w][s] = [inputs |-> dealt[s].inputs, mode |-> dealt[s].mode]

\* execute_search for a fresh nonce and query id: the worker at hand knows the
\* session, or answers in clear.
Execute ==
    /\ At("execute")
    /\ \/ /\ Agree(call.w, call.sid)
          /\ ran' = ran \cup {<<call.query, call.w, call.sid>>}
          /\ call' = [Goto(call, "open") EXCEPT !.reply = "sealed"]
       \/ /\ ~Agree(call.w, call.sid)
          /\ call' = [Goto(call, "open") EXCEPT !.reply = "clear"]
          /\ UNCHANGED ran
    /\ UNCHANGED <<workerSide, kept, registry, links, calls, dealt, takenFor, verified>>

\* Seeded fault: an answer in clear is taken for the result.
OpenUnchecked ==
    /\ At("open")
    /\ \E answer \in {"results", "raised"} :
          call' = [Goto(call, "teardown") EXCEPT !.answer = answer]
    /\ UNCHANGED <<workerSide, kept, registry, links, calls, history>>

\* Seeded fault: no finally clause, an event that is refused ends the call.
OpenWithoutFinally ==
    /\ At("open")
    /\ LET answer == IF call.reply = "sealed" THEN "results" ELSE "error" IN
       Logged([Goto(call, "teardown") EXCEPT !.answer = answer])
    /\ UNCHANGED <<workerSide, kept, registry, links, calls, history>>

Open ==
    /\ At("open")
    /\ \E answer \in {IF call.reply = "sealed" THEN "results" ELSE "error", "raised"} :
          call' = [Goto(call, "teardown") EXCEPT !.answer = answer]
    /\ UNCHANGED <<workerSide, kept, registry, links, calls, history>>

Close(c) == Goto(c, IF c.answer = "raised" THEN "raised" ELSE "returned")

\* Seeded fault: the session is popped after the event was logged.
TeardownPopsLast ==
    LET s == kept[call.o][IdOf[call.w]] IN
    /\ At("teardown")
    /\ \/ /\ ~call.teardown \/ s = NONE
          /\ call' = Close(call)
          /\ UNCHANGED <<sessions, kept, takenFor>>
       \/ /\ call.teardown /\ s # NONE
          /\ sessions' = [sessions EXCEPT ![call.w][s] = NONE]
          /\ takenFor' = [takenFor EXCEPT ![s] = call.w]
          /\ \/ /\ kept' = [kept EXCEPT ![call.o][IdOf[call.w]] = NONE]
                /\ call' = Close(call)
             \/ call' = Goto(call, "raised") /\ UNCHANGED kept
    /\ UNCHANGED <<trusted, accepted, registry, links, calls, dealt, ran, verified>>

\* teardown_session, and the finally clause that may call it: the session kept
\* under the id is popped and dropped at the worker at hand, then logged.
Teardown ==
    LET s == kept[call.o][IdOf[call.w]] IN
    /\ At("teardown")
    /\ \/ /\ ~call.teardown \/ s = NONE
          /\ call' = Close(call)
          /\ UNCHANGED <<sessions, kept, takenFor>>
       \/ /\ call.teardown /\ s # NONE
          /\ kept' = [kept EXCEPT ![call.o][IdOf[call.w]] = NONE]
          /\ sessions' = [sessions EXCEPT ![call.w][s] = NONE]
          /\ takenFor' = [takenFor EXCEPT ![s] = call.w]
          /\ Logged(Close(call))
    /\ UNCHANGED <<trusted, accepted, registry, links, calls, dealt, ran, verified>>

-----------------------------------------------------------------------------
\* register_worker and perform_handshake.

\* Seeded fault: the latest key is registered.
NoConflict(c) == FALSE

PinConflict(c) == registry[c.o][IdOf[c.w]] \notin {NONE, c.w}

Register ==
    /\ At("register")
    /\ \/ /\ PinConflict(call)
          /\ call' = Goto(call, "raised")
          /\ UNCHANGED registry
       \/ /\ ~PinConflict(call)
          /\ registry' = [registry EXCEPT ![call.o][IdOf[call.w]] = call.w]
          /\ Logged(Goto(call, "returned"))
    /\ UNCHANGED <<workerSide, kept, links, calls, history>>

\* Either of its two events may be refused; an unregistered worker is not
\* verified, nor is one whose key is not the registered one.
Handshake ==
    /\ At("handshake")
    /\ \/ call' = Goto(call, "raised") /\ UNCHANGED verified
       \/ /\ call' = Goto(call, "returned")
          /\ verified' = verified \cup {<<call.o, w>> : w \in
                             {call.w} \cap {registry[call.o][IdOf[call.w]]}}
    /\ UNCHANGED <<workerSide, kept, registry, links, calls, dealt, takenFor, ran>>

Next == \/ BeginEstablish \/ BeginTeardown \/ BeginDelegate
        \/ BeginRegister \/ BeginHandshake
        \/ Pin \/ Derive \/ Accept \/ Keep
        \/ Seal \/ Execute \/ Open \/ Teardown
        \/ Register \/ Handshake

Spec == Init /\ [][Next]_vars

-----------------------------------------------------------------------------
Establishment == [kind : {"establish"}, o : Orchestrators, w : Workers,
                  pc : {"pin", "derive", "accept", "keep"} \cup Ended,
                  qkd : BOOLEAN, epoch : Epochs \cup {NONE}, sid : Sessions \cup {NONE}]

Delegation == [kind : {"delegate"}, o : Orchestrators, w : Workers,
               pc : {"pin", "derive", "accept", "keep", "seal", "execute", "open",
                     "teardown"} \cup Ended,
               qkd : {FALSE}, epoch : {NONE}, sid : Sessions \cup {NONE},
               query : 1..MaxCalls, teardown : BOOLEAN,
               reply : {"none", "sealed", "clear"},
               answer : {"none", "results", "error", "raised"}]

Ending == [kind : {"teardown"}, o : Orchestrators, w : Workers,
           pc : {"teardown"} \cup Ended, teardown : {TRUE}, answer : {"none"}]

Registration == [kind : {"register"}, o : Orchestrators, w : Workers,
                 pc : {"register"} \cup Ended]

Verification == [kind : {"handshake"}, o : Orchestrators, w : Workers,
                 pc : {"handshake"} \cup Ended]

CallRecords == {Idle} \cup Establishment \cup Delegation \cup Ending \cup Registration
                   \cup Verification

TypeOK ==
    /\ trusted \in [Workers -> [Ids -> Orchestrators \cup {NONE}]]
    /\ sessions \in [Workers -> [Sessions -> Derived \cup {NONE}]]
    /\ accepted \in [Workers -> SUBSET Sessions]
    /\ kept \in [Orchestrators -> [Ids -> Sessions \cup {NONE}]]
    /\ registry \in [Orchestrators -> [Ids -> Workers \cup {NONE}]]
    /\ links \in Seq([by : Orchestrators, ends : SUBSET Ids, epoch : Bytes])
    /\ call \in CallRecords
    /\ calls \in 0..MaxCalls
    /\ dealt \in Seq([o : Orchestrators, w : Workers, inputs : Inputs, mode : Modes])
    /\ Len(dealt) <= MaxSessions
    /\ takenFor \in [Sessions -> Workers \cup {NONE}]
    /\ ran \subseteq (1..MaxCalls) \X Workers \X Sessions
    /\ verified \subseteq Orchestrators \X Workers

\* A session an orchestrator keeps is live at the worker that accepted it, with
\* the key and mode its sender derived, wherever an earlier call was cut off.
KeptSessionsAgree ==
    \A o \in Orchestrators, i \in Ids :
        LET s == kept[o][i] IN
        s # NONE => /\ dealt[s].o = o /\ IdOf[dealt[s].w] = i
                    /\ Agree(dealt[s].w, s)

\* A session that has just been derived has a session id and a key of its own:
\* under either, both ends can tell it from every session before it.
SessionsDistinct ==
    call.pc = "accept" =>
        \A s \in 1..(Len(dealt) - 1) :
            LET old == DeriveSessionKey(dealt[s].inputs)
                new == DeriveSessionKey(dealt[Len(dealt)].inputs)
            IN old.key # new.key /\ old.transcript_hash # new.transcript_hash

\* Between calls, a worker holds a session that its orchestrator does not keep
\* only if a later session was kept in its place, or it was popped by a call
\* that named another worker of the same id.
Replaced(s) ==
    \E later \in (s + 1)..Len(dealt) :
        /\ dealt[later].o = dealt[s].o
        /\ IdOf[dealt[later].w] = IdOf[dealt[s].w]
        /\ later \in accepted[dealt[later].w]

OnlyDisplacedLeak ==
    call.pc \in Ended =>
        \A w \in Workers, s \in Sessions :
            sessions[w][s] # NONE => \/ kept[dealt[s].o][IdOf[w]] = s
                                     \/ Replaced(s)
                                     \/ takenFor[s] \notin {NONE, w}

\* A delegation with teardown that got as far as the worker leaves no session
\* at either end, also when the result or the teardown could not be logged.
SentMeansTornDown ==
    (call.kind = "delegate" /\ call.pc \in Ended) =>
        (call.teardown /\ call.reply # "none" =>
            /\ kept[call.o][IdOf[call.w]] = NONE
            /\ sessions[call.w][call.sid] = NONE)

\* A delegation that is answered with an error used a session of another
\* worker object: what interrupted calls leave behind is usable.
OnlyStrangersFail ==
    (call.kind = "delegate" /\ call.pc = "returned") =>
        (call.answer = "error" => dealt[call.sid].w # call.w)

\* The caller is told results exactly when its query ran, once, and at the
\* worker it named; only an exception leaves it in doubt.
AnswersMatchRuns ==
    (call.kind = "delegate" /\ call.pc = "returned") =>
        {e \in ran : e[1] = call.query} =
            IF call.answer = "results" THEN {<<call.query, call.w, call.sid>>} ELSE {}

\* Of several workers with one id an orchestrator verifies at most one, ever.
OneVerifiedWorker ==
    \A v1, v2 \in verified :
        v1[1] = v2[1] /\ IdOf[v1[2]] = IdOf[v2[2]] => v1 = v2

-----------------------------------------------------------------------------
\* The inductive invariant behind these (proved in InProcessProofs).

\* A session lives only at the worker it was encapsulated for, with what its
\* sender derived.
LiveWhereDealt ==
    \A w \in Workers, s \in Sessions :
        sessions[w][s] # NONE => /\ s <= Len(dealt) /\ dealt[s].w = w
                                 /\ Agree(w, s) /\ s \in accepted[w]

\* Workers accept, and orchestrators keep, only sessions that were derived.
OnlyDealt ==
    /\ \A w \in Workers : accepted[w] \subseteq 1..Len(dealt)
    /\ \A o \in Orchestrators, i \in Ids : kept[o][i] # NONE => kept[o][i] <= Len(dealt)

\* What a sender derived is in the mode of its inputs.
ModesDerived == \A s \in 1..Len(dealt) : dealt[s].mode = Mode(dealt[s].inputs)

\* An establishment is about the latest session, which is not kept before its end.
EstablishingLatest ==
    call.pc \in {"accept", "keep"} =>
        LET s == Len(dealt) IN
        /\ call.sid = s /\ s # 0
        /\ dealt[s].o = call.o /\ dealt[s].w = call.w
        /\ \A o \in Orchestrators, i \in Ids : kept[o][i] # s
        /\ call.pc = "accept" => \A w \in Workers : s \notin accepted[w]
        /\ call.pc = "keep" => s \in accepted[call.w] /\ Agree(call.w, s)

\* A delegation seals, asks, opens and tears down with the session that is kept.
DelegatingKept ==
    call.kind = "delegate" /\ call.pc \in {"seal", "execute", "open", "teardown"} =>
        /\ call.sid # NONE
        /\ kept[call.o][IdOf[call.w]] = call.sid

\* What a delegation concludes, from the reply it got and the run behind it.
DelegatingTrue ==
    call.kind = "delegate" =>
        /\ call.query <= calls
        /\ call.reply # "none" => call.pc \in {"open", "teardown"} \cup Ended
        /\ call.pc = "open" => call.reply # "none"
        /\ call.reply = "clear" => dealt[call.sid].w # call.w
        /\ call.reply = "none" => call.answer = "none"
        /\ call.answer = "results" => call.reply = "sealed"
        /\ call.answer = "error" => call.reply = "clear"
        /\ call.pc = "returned" => call.answer \in {"results", "error"}
        /\ call.pc = "teardown" => call.answer # "none"
        /\ {e \in ran : e[1] = call.query} =
               IF call.reply = "sealed" THEN {<<call.query, call.w, call.sid>>} ELSE {}

\* OnlyDisplacedLeak, at every statement.
Displaced ==
    \A w \in Workers, s \in Sessions :
        sessions[w][s] # NONE => \/ kept[dealt[s].o][IdOf[w]] = s
                                 \/ Replaced(s)
                                 \/ takenFor[s] \notin {NONE, w}
                                 \/ call.pc = "keep" /\ call.sid = s

\* What is fresh has not been used: ciphertexts, query ids and QKD keys.
FreshSoFar ==
    /\ \A s \in 1..Len(dealt) : dealt[s].inputs.pqc_ciphertext = Fresh[s]
    /\ \A e \in ran : e[1] <= calls
    /\ Len(links) <= calls
    /\ call.pc \in {"pin", "derive"} => Len(links) < calls

VerifiedRegistered == \A v \in verified : registry[v[1]][IdOf[v[2]]] = v[2]

InProcessInv ==
    /\ TypeOK
    /\ LiveWhereDealt
    /\ OnlyDealt
    /\ ModesDerived
    /\ KeptSessionsAgree
    /\ EstablishingLatest
    /\ DelegatingKept
    /\ DelegatingTrue
    /\ Displaced
    /\ SentMeansTornDown
    /\ FreshSoFar
    /\ VerifiedRegistered
=============================================================================
