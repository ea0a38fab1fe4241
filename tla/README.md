# Verification of the secure delegation protocol

This directory models the agents of this repository in TLA+, checks the models
with TLC and proves their safety properties with TLAPS. It covers the code
that keeps protocol state: the two HTTP servers, the agents they serve, in
separate processes and in one, the replay cache and the audit log; and the byte
encodings that keys, signatures and proofs rest on.

- `PROJECT.json` lists the runs, the seeded faults that each property detects,
  the source lines each definition stands for, the hazards and the findings.
- Run a model with `tlc -workers 2 -config MCDelegation_serial.cfg MCDelegation`
  and check proofs with `tlapm WorkerServerProofs.tla`. `DelegationProofs` takes
  some minutes, the other proof modules less than one each.

## 1. The system

An *orchestrator* (`src/pqc_agents/orchestrator_server.py`) accepts client calls
`POST /delegate_search`. For each call it discovers a *worker*
(`src/pqc_agents/worker_server.py`), agrees on a session with it, sends one query
through the session, and tears the session down before it answers. Both are
Flask applications that serve every request in a thread of its own. Nothing but
the orchestrator's audit log is written to disk.

| Component | State | Operations | Interacts with |
|---|---|---|---|
| replay cache (`security/replay_cache.py`) | a locked dictionary of values, at most `max_entries`, no eviction | `accept`, `clear` | used by both servers for bootstrap and client nonces, and by the worker agent for session ids |
| worker server (`worker_server.py`) | `BOOTSTRAP_NONCES`, the agent below | routes `/handshake`, `/trust/orchestrator`, `/session`, `/execute_search`, `/session/teardown`, `/public_key`, `/health` | called by the orchestrator; calls the worker agent |
| worker agent (`secure_search_agent.py`) | pinned orchestrator keys, session records with their nonces and query ids, accepted session ids, processed artifact ids | `register_orchestrator`, `accept_session`, `teardown_session`, `execute_search` | shared by all handler threads, without a lock |
| orchestrator server (`orchestrator_server.py`) | `DELEGATION_NONCES`; per thread the local variables of `delegate_search` | `delegate_search`, `discover_workers`, `establish_remote_session`, `teardown_remote_session` | four kinds of HTTP request to the worker, each with a timeout |
| orchestrator agent (`orchestrator_agent.py`) | one session per worker id, the registry, the audit log | `register_worker`, and the in-process `establish_session`, `delegate_search`, `teardown_session` | shared by all threads of the server, without a lock |
| agent registry (`security/agent_registry.py`) | agent id to pinned key | `register_agent`, lookups | called by the orchestrator agent |
| audit log (`security/audit_log.py`) | the file, a cached chain head, a lock | `log_event`, opening, `verify_chain` | called at registration and teardown; raises when full |
| session key, bootstrap proofs, message handler (`security/`) | none of their own | derive, sign, seal, open | called by both agents |
| QKD and QRNG simulators | keys per peer pair; none | `establish_key`; random values | used by the in-process agent |
| classical baseline | keys and processed ids | sign, verify, search | compared with in the benchmarks |
| metrics, benchmarks, scripts, deployment | measurements, configuration | | |

What is hard about it, component by component, and what makes it correct:

- *Replay cache.* Threads race between the test and the insertion, for one value
  or for the last place. It is correct if a value is accepted at most once and
  the bound holds, as if the test were one step.
- *Worker.* Requests arrive late, repeated and reordered, and a restarted worker
  has new keys and empty caches. It is correct if no query runs twice in a
  session, a closed session never becomes usable again, and a live session
  belongs to the pinned key. Handler threads interleave between the tests of
  `execute_search` and its records, and between the comparison of
  `register_orchestrator` and its store, all without a lock. The first therefore
  holds only for copies handled one at a time, and the last only without racing
  registrations.
- *Orchestrator.* Overlapping calls share one session entry per worker: one can
  replace, use or tear down another's session. A reply can be lost after the
  worker has acted; teardown is retried with fresh nonces; any step can fail and
  cleanup has to run all the same. It is correct if no query runs twice or for a
  call that was turned away, a result means that the query ran, every call is
  answered, and sessions do not accumulate.
- *Audit log.* Writes can be cut, `fsync` can fail after the record reached the
  file, the process can die between any two statements. It is correct if what
  verifies is complete and an acknowledged event cannot be removed without
  everything after it.
- *Registry and pinned keys.* `register_agent` and `register_orchestrator` read,
  compare and store without a lock. They are correct if only registrations that
  raced for the first pin can replace it.
- *Session keys and proofs.* Fields of variable length, some of them optional,
  are joined and hashed. They are correct if no two tuples of values are encoded
  alike.
- *In-process agent.* One orchestrator object calls one worker object, and each
  logged event may raise between two updates. Sessions and pins are filed under
  agent ids, which objects share by default. It is correct if what one end keeps
  agrees with the other, nothing leaks but what was displaced, and the caller is
  told what happened.

`PROJECT.json` lists each hazard at its line, with the properties that cover it.

## 2. The modules

| Module | Models | Used by |
|---|---|---|
| `AcceptOnce` | what `accept()` decides, as operators | `ReplayCache`, `WorkerHandlers`, `Delegation` |
| `OneTimeValues` | abstract specification of a replay cache | `ReplayCache` (refinement) |
| `ReplayCache` | `accept` and `clear`, one action per statement and thread | `TrustRoute`, `ReplayCacheProofs` |
| `TrustRoute` | `POST /trust/orchestrator`: the threads of the route around `ReplayCache`, and the unlocked pin | `MCTrustRoute`, `ReplayCacheProofs` |
| `WorkerHandlers` | the worker's state; each request handler as an operator on a request and its reply | `WorkerMemory`, `Delegation` |
| `WorkerMemory` | what the worker guarantees for any peer, and the inductive invariant behind it | `WorkerServer`, `DelegationProperties`, `WorkerMemoryProofs` |
| `WorkerServer` | the handlers with an environment that sends anything at any time | `MCWorkerServer`, `WorkerServerProofs` |
| `SearchAdmission` | `execute_search`, one action per statement and thread | `MCSearchAdmission`, `SearchAdmissionProofs` |
| `SearchService` | abstract specification of `/delegate_search` | `DelegationProperties` (refinement) |
| `Delegation` | the threads of `delegate_search`, the network, the worker's handlers, restarts of both | `DelegationProperties` |
| `DelegationProperties` | the properties of `Delegation` and their inductive invariants | `MCDelegation`, `DelegationProofs` |
| `AuditLog` | `log_event` by statement and thread, crashes, opening, `verify_chain` | `MCAuditLog`, `AuditLogProofs` |
| `SessionEncoding` | the byte strings behind session keys, session ids, signatures and bootstrap proofs | `InProcess`, `SessionEncodingProofs` |
| `InProcess` | the in-process orchestrator agent, its workers and the QKD simulator, with events that may raise | `MCInProcess`, `InProcessProofs` |
| `ReplayCacheProofs`, `WorkerMemoryProofs`, `WorkerServerProofs`, `DelegationProofs`, `SearchAdmissionProofs`, `AuditLogProofs`, `SessionEncodingProofs`, `InProcessProofs` | theorems | |
| `MC*` | values of the constants | |

Definitions marked "Seeded fault" are variants of the definition that follows
them with one plausible bug. No specification uses them; they show that each
property detects something.

**Cryptography** is modelled by what it decides. A bootstrap proof is a boolean
of the request, a signature is the key that made it, an encapsulation names the
worker incarnation whose key it was made for, and an envelope opens if both ends
derived the same key. Secrets are not guessed and random identifiers and nonces
do not repeat.

**`ReplayCache`.** `entries` is the dictionary, `pc` the statement of each
thread, `lock` the holder. The other modules take `accept()` as one step, which
the refinement of `OneTimeValues` justifies: the dictionary is `retained` and
the answer given so far is `answer`.

**`TrustRoute`** wraps the cache into the registration route of the worker, so
that every step of the route is a step of the cache or leaves it alone. `at` is
the place of a thread in the route and `trusted` the pins; `Compare` and `Store`
are the two accesses of `register_orchestrator`, between which other threads
run. Requests have all fields and a valid proof; the others are answered before
anything changes.

**`WorkerHandlers`.** One operator per route, and two for a registration. `Trust`
uses its nonce up before the pin is compared, as the code does, and puts a
request that passes into `storing`; `StorePin` stores the key later, whatever was
pinned in between. Other handlers are one step: in particular `Execute` tests
and records at once. `AcceptSession` consumes the session id only
after the signature was verified. `Execute` records the envelope nonce even when
the query id is a replay. `Teardown` answers 200 for an absent session too and
keeps the session id in `accepted_session_ids`. History variables count
executions (`executions`) and remember which sessions were ever live and then
dropped (`closed`), and which senders had registrations of two keys between
comparison and store at once (`raced`).
`/handshake`, `/public_key` and `/health` only read; the handshake appears as a
step of the orchestrator that compares incarnations.

**`Delegation`.** `pc[c]` is the place of call `c` in `delegate_search` and
`establish_remote_session`; `osession` is `orchestrator.sessions.get(worker_id)`,
shared by all calls; `sess[c]`, `got[c]`, `try[c]` are locals. `requests.post` is
split in three: the request is put into `pending`, the worker serves it at some
later time, and the thread takes the reply, or times out at any moment if its
exchanges may fail. A registration has a fourth step, `Store`. A request that was
given up on stays in `pending` and can still be served, and its key stored. A
worker that restarts before the store resets the connection. With `Redelivery` a copy of any request sent so far may be
served at any time. A restart of the worker draws new keys; a restart of the
orchestrator also loses the calls in progress, and keeps only the audit log.
Steps between two accesses to shared state are one action, since nothing can be
observed between them. `ComparePin` and `Register` are the two accesses of
`register_agent`. A call's answers are abstracted to `ok`, `failed`,
`discarded` (teardown not acknowledged), `unavailable`, `400`, `401` and `error`:
an `OSError` of the audit log, which `delegate_search` does not catch, is
Flask's 500 without the cleanup (`LogBreaks`, for the calls in `LogFaults`; the
event is in the file or not). `lost` marks a call that died with its process.

**`AuditLog`.** A record is its number, its predecessor's number, its signer and
key. A write leaves the whole record, a cut one, one without its newline, or
nothing; what is appended to an unterminated line merges with it. A power loss
before `fsync` leaves one of the files that a crash in the write leaves. Records
have equal size, so `max_bytes` is a number of records.

**`SearchAdmission`.** `WorkerHandlers` takes `execute_search` as one step, which
Flask does not guarantee. This module keeps one session and opens it statement by
statement. Only AEAD envelopes are handled by several threads, since the route
refuses other modes; a signed artifact comes from an in-process caller, and is
handled while no other message is.

**`SessionEncoding`** builds the transcript, the key material, the signed session
request and the bootstrap message byte by byte from the fields of the code, in
the order of the code. A digest is the tuple of what was digested. Labels are
arbitrary byte strings of bounded length, of which only the domains, the modes
and the purposes have to be distinct.

**`InProcess`.** No coroutine of `orchestrator_agent.py` suspends, so calls run one
after another; what goes wrong goes wrong inside a call. `call` is the running
call with its place and its locals, and a step is what runs between two places
that can raise: every `log_event`, a refused key, an empty context, a full
`accepted_session_ids`. `kept` is `sessions` of the orchestrator objects,
`sessions` that of the workers, both filed as the code files them: under the
worker's agent id, and under the transcript hash. A session's inputs stand for
its key, and both ends derive with `SessionEncoding`. `ran`, `dealt`, `takenFor`
and `verified` are history.

## 3. The runs

| Run | Question | Result |
|---|---|---|
| `trust_route` | Is the locked `accept()` an atomic one-time test, and who can win the unlocked pin, when registrations run concurrently? | holds |
| `worker_server` | What does a worker guarantee when every request may arrive at any time and any number of times, one after another except for registrations? | holds |
| `delegation_restarts` | Do clients get the service of `SearchService`, and an answer, from calls that overlap, with lost, late and repeated requests, restarts of both processes and a full audit log, if the worker handles one copy of a request at a time? | holds, with fairness |
| `delegation_serial` | Are sessions cleaned up, and failures healed, when calls do not overlap, also when the audit log fills up or breaks? | holds |
| `in_process` | What do both ends keep, and what is the caller told, when any event of the in-process agent may raise and objects share ids? | holds |
| `search_threads` | What do the unlocked tests of `execute_search` still guarantee? | holds |
| `audit_log` | What do the chain and its verification guarantee under faults? | holds |
| `overlap_orphans_session` | Does an answered call always leave no session, also when calls overlap? | violated |
| `copies_run_twice` | Does a query run at most once when two threads handle copies of its envelope? | violated |
| `restart_splits_keys` | Do both ends of an accepted session have the same key? | violated |
| `registration_replaces_pin` | Is a registered key never replaced? | violated |
| `restart_changes_signer` | Can a log that survived a restart be verified? | violated |

### Properties

Replay cache: `AcceptedOnce` (no value is accepted twice between two clears),
`Bounded`, `LockInv` (the inductive invariant) and `ImplementsOneTime`.

Registration route: the same for the cache inside the route, and
`OnlyRacersReplace`: a pinned key was asked for while its sender had no pin. Two
threads that both find no pin may both answer success, and a late store may
replace a pin that was answered long ago; what the code does guarantee is that
a registration that arrives after the pin, with another key, is never stored.
The stronger "a pin is stable once all threads that compared before it are done"
is false: a thread that compared when the sender had its own key stores that key
again after a slower racer has replaced it.

Worker: `OncePerSession` (no query runs twice in a session), `ClosedForGood`,
`LiveSessionsPinned`, and `WorkerInv`, the inductive invariant that implies them.
They hold across restarts although the worker forgets everything: a session of
an earlier life cannot be decapsulated any more, so it can be recorded again but
not used. `OncePerSession` is about copies handled one after another (see
`copies_run_twice` for the others). `LiveSessionsPinned` says that the key which
signed a live session is still pinned for its sender, unless registrations of two
keys for that sender were between comparison and store at once: then the later
store replaces the pin under a session, and nothing else does.

Delegation, with anything happening:

- `ServesClients`: `Delegation` implements `SearchService`. The query of a call runs
  at most once, only for an admitted call, and has run when the answer is `ok`,
  whoever replaced or removed its session; answers are final. The number of
  executions is mapped, so that a second one is not a stutter.
- `ExecutedOnce`, `ClosedForGood`: as at the worker, now from the requests the
  orchestrator really sends. A query runs in one session only.

  What the two say of the number of executions supposes, like `OncePerSession`,
  that the worker does not handle two copies of an execute request at a time.
  With copies in two threads it is false: `copies_run_twice`.
- `DelegationInv`: the inductive invariant behind these, with the types.
- `EveryCallAnswered`: a call that was started ends.

That the session kept for later calls belongs to the pinned worker identity does
not hold: the pin can be replaced between the comparison and the session
(`registration_replaces_pin`).

Delegation, one call at a time (`MaxActive = 1`):

- `OkMeansGone`: after an `ok` answer the worker no longer has the session.
- `OnlyUnconfirmedLeak`: between calls, a session of the worker is the one the
  orchestrator keeps, or one whose establishment was never confirmed.
- `CleanCallsRecover`: while the audit log has room, a call without network trouble
  fails only if it reused a session left by a failed teardown, and then it
  removes it.
- `DiscardKeepsSession`: a result is discarded only if the session stays for
  another attempt, or because the audit log is full; then the entry is removed,
  but the session is gone at the worker too. The run reaches both.
- `ClientNonceOnce`: a client nonce authenticates one call.
- `SerialInv` and `RecoveryInv`: the inductive invariants behind all but the last.

`execute_search`: `LateCopiesRefused` (a copy received after the query was
recorded does not run it again) and `RefusedMeansRan` (a message is refused as a
replay only in favour of one that runs), both consequences of `AdmissionInv`.

In-process agent, between calls and wherever an earlier one was cut off:

- `KeptSessionsAgree`: a session an orchestrator keeps is live at the worker that
  accepted it, with the key and mode its sender derived.
- `SessionsDistinct`: a new session has a session id and a key of its own.
- `OnlyDisplacedLeak`: a worker holds a session its orchestrator does not keep only
  if a later session was kept in its place, or a call for another worker of the
  same id popped it.
- `SentMeansTornDown`: a delegation that reached the worker leaves no session at
  either end, also when an event was refused.
- `AnswersMatchRuns`: results are answered exactly when the query ran, once, at the
  worker that was named.
- `OnlyStrangersFail`: a delegation is answered with an error only if it used a
  session of another worker of the same id: what interrupted calls leave is
  usable.
- `OneVerifiedWorker`: of several workers with one id, an orchestrator verifies at
  most one.
- `InProcessInv`: the inductive invariant behind all of them.

Audit log: `ChainedUnlessFaulted` (threads, crashes and restarts never fork the
chain, as long as no write was cut and no fsync failed), `VerifiedIsComplete`
(a file that verifies has every acknowledged event, in order, whatever went
wrong) and `TamperEvident`: what is made of the records by deleting, repeating or
reordering them, and verifies, holds every acknowledged event up to the last
event it holds. Of a file that is one chain it is a prefix. Of a file that a
failed `fsync` has forked it need not be: with the records r1, r2 and r3 of which
r2 was not acknowledged and r3 continues r1, the file does not verify, and r1, r3
does. What can be removed in this way was never acknowledged. The last two say
that faults are detected, not that they are repaired: after a failed `fsync` or a
cut write the log does not verify again.
`LogInv` is the inductive invariant behind the three, with the types.

### Bounds, and why they are enough

- `trust_route`: three threads, two places, two senders. Two threads race for a
  nonce, for the last place or for a pin; the third clears, overtakes or stores
  late. One request has a malformed key.
- `worker_server`: two orchestrators, two keys, two sessions, two queries, two
  envelopes, four bootstrap nonces in a cache of three and two incarnations. Each
  replay needs one request and its copy on the two sides of a teardown or a
  restart, a race two registrations and a third request in between, and the cache
  fills.
- `delegation_restarts`: two calls, one of them with faults and repeated requests,
  one teardown attempt, an audit log of three events and one restart of each
  process. Calls interact only through `osession`, `registry`, the log and the
  worker, which two calls exercise in all orders; a third call adds no
  interaction and makes the graph too large for a run that also checks liveness.
  With one attempt the retry of a teardown is not taken here; `delegation_serial`
  takes it. In `EveryCallAnswered`, a call that is lost with its process has ended.
- `delegation_serial`: four calls, two of them with faults. Two are needed for a
  leftover of a failed teardown to be reused by a call that fails again, a third
  to recover from it, a fourth to repeat the client request of the third. Two
  teardown attempts, so that the retry occurs. The audit log has room for four
  events, the two of a call twice, so that a later call finds it full, and the
  events of the faulty calls may break (`LogFaults`; only in this run). The nonce
  cache is large enough not
  to fill: a full `BOOTSTRAP_NONCES` refuses every registration and teardown from
  then on, so that `CleanCallsRecover` presumes room in it. Repeated requests
  are those of the faulty calls.
- `in_process`: two orchestrators of one id, two workers of one id, four calls and
  three sessions, with a worker cache of two. Each leak takes up to three calls: one
  that leaves a session, one that displaces or pops it, one that runs into what
  is left; a fourth shows what follows. A third session at one worker is refused
  by its full cache. Contexts may
  be empty and epochs absent, chosen or generated. Sessions differ here in a fresh
  ciphertext, always of the same length; what tells apart equal bytes that are divided
  differently is not this run but the theorems of `SessionEncodingProofs`. The run
  also evaluates the
  claims of `SessionEncoding` on short strings that can be divided in several
  ways, with equal labels wherever distinct ones are not needed.
- `search_threads`: three threads, two envelopes of one query and one artifact with
  the same query id. `copies_run_twice` has two threads, no artifact, and two
  envelopes of different queries.
- `audit_log`: two threads, four records of room, five events, three starts. A fork
  takes two records after a common one, a lost line two writes, and detection of
  a reordering three. Edits of the file are up to one record longer than it; the
  theorem is about any length.
- `MaxIncarnations`, `MaxRestarts`, `MaxStarts`, `MaxEvents` bound counters that the
  program does not bound. All other sizes are limits of the code.

`CHECK_DEADLOCK FALSE` is set where calls are used up, since a served system then
stops. Symmetry is used only in runs without liveness properties.

### Fairness

`FairSpec` has weak fairness of the steps of each admitted call, because the
server's threads are scheduled and never wait for one another: there is no lock
around sessions. Each `requests.post` carries a timeout, so that a call whose
exchanges may fail can always take a reply or `TimeOut`. For the other call,
whose requests are neither lost nor late, the worker is fair in serving, and in
storing, what it waits for. Nothing is assumed about new calls, restarts, or requests nobody waits
for.

## 4. What is proved

Every safety property that a passing run checks is also a theorem, with the
inductive invariant it rests on, for every value of the constants that satisfies
the assumptions, and with the further hypotheses that are named here. TLC checks
the inductive invariants on the runs too, except the small one of the route.

**`ReplayCacheProofs`.** `LockInvHolds`, `AcceptedOnceHolds`, `BoundedHolds` and
`CacheImplementsOneTime`. `LockInv` says, beyond types, that a thread inside
`accept` holds the lock, that the room a thread saw is still there while it is
between test and insertion, and that what it is about to insert is absent. Mutual
exclusion alone is not inductive: the insertion preserves the bound only
because the earlier test still holds. Each step of a thread then maps to one
abstract step, or to a stutter. The second half is about the registration route:
`RouteImplementsCache` (`RouteSpec => Spec`), from which `RouteNonceOnce` follows
by the theorem on the cache, `RouteTypeCorrect` and `OnlyRacersReplaceHolds`. The
invariant behind the last adds that the key a thread is about to store was asked
for while the sender had no pin, or is the pin: that is what a comparison leaves
true after any later store.

**`WorkerMemoryProofs`, `WorkerServerProofs`.** The worker's guarantees are not
inductive. What makes them so is where the worker remembers: every closed or used
session is in `accepted_session_ids`, or its KEM key belongs to an earlier
incarnation (`ClosedRemembered`, `ExecutionRemembered`), and a live session that is
keyed has the current incarnation's key (`LiveAccepted`). A restart empties the
memory and at the same step makes all sessions stale. `MemoryInv(kem)` is that
invariant for any function `kem` from session ids to the incarnation they were
made for; the lemmas of `WorkerMemoryProofs` say that each handler, and a restart,
keeps it, whoever sends the request. They are used twice: with the
`kem` an arbitrary network has for `WorkerInvHolds`, `TypeCorrect`,
`OncePerSessionHolds`, `ClosedForGoodHolds` and `LiveSessionsPinnedHolds`, and with
what the orchestrator's calls discovered for `Delegation`. For the pins, the
invariant says of a sender without a race that the keys about to be stored agree
with each other and with the pin (`StoringAgrees`), so that no store changes it.
`OncePerSessionHolds` supposes that copies are handled one at a time: `Execute` is
one step.

**`DelegationProofs`, calls that overlap.** `DelegationInvHolds`, and from it
`TypeCorrect`, `ExecutedOnceHolds`, `ClosedForGoodHolds`, `ClientNonceOnceHolds` and
`ServesClientsHolds`, the refinement of `SearchService`, with any number of calls,
attempts and restarts and any delivery that gives the worker one copy of a request
at a time: `ExecutedOnceHolds` and `ServesClientsHolds` would be false for copies
that two threads handle together.

- A session id gets a new KEM incarnation whenever its call discovers the worker,
  so that `MemoryInv` is kept only because nothing the worker knows is of a call that
  has not posted: `KnownWereAsked` and `RunsWereAsked` trace the worker's memory to
  `sent`, which only grows, and `SendersAdmitted` and `OneExecuteEach` trace
  `sent` to the places of the threads. Repeated and late requests then need no
  argument of their own, since they are in `sent` too.
- All steps of a thread have one shape (`ThreadStep`): the worker is left alone, at
  most one request is posted, which is one of the constructors' and fits the
  place. Each action is shown to be such a step once, and each conjunct to be kept
  by any such step once.
- Refinement: a start maps to `Open` or a refusal, a served execute request to
  `Run` or a stutter, the end of a call to an answer. The abstract state counts
  executions, so that `Run` is legal only because the query has not run in any
  session (`OncePerSession`, `OneExecuteEach`). `RepliesAreTrue` is what makes an
  `ok` legal.
- `ClientNonceOnceHolds` is stated for one life of the orchestrator (`oinc = 1`): the
  cache of client nonces is lost with it.

**`DelegationProofs`, one call at a time.** For `MaxActive = 1`, with any calls,
faults and attempts:

- `SerialInvHolds` (`Spec => []SerialInv`). The entry for the worker follows the place
  of the one call (`EntryFollowsCall`), and what the worker acknowledged stays
  (`AcknowledgedStays`). That needs the worker's memory, since copies of session
  requests can still arrive after the teardown; so it is claimed while the
  worker has not restarted. Every session of the worker is the orchestrator's
  entry or was never confirmed (`SessionsAccounted`), while neither has.
- From it `OkMeansGoneHolds` (until the worker restarts), `OnlyUnconfirmedLeakHolds`
  (until either does) and `DiscardKeepsSessionHolds` (whose property itself says what
  holds only until the worker restarts). A restart of the orchestrator forgets its
  entry, and the session stays at the worker: the hypothesis is not for the proof's
  convenience.
- `RecoveryInvHolds` and `CleanCallsRecoverHolds`, for caches that have room for all
  nonces and calls (`RoomForAll`), before restarts; that the log has room is part of
  the property. A
  request of a call without network trouble is served once (`ServedOnce`), so that
  what the worker finds in its replay caches was not put there by a copy; the keys
  are those of the first start (`FirstKeys`); and an entry another call finds was left by
  a teardown that was not acknowledged (`EntryLeftOver`). Each reply of the
  worker can then be computed, and `Proceeds` follows the call through them. A full
  cache refuses every registration and teardown, so the theorem would be false
  without room.

**`InProcessProofs`.** `InProcessInvHolds`, and from it `TypeCorrect` and the seven
properties of the run. The properties speak of what is left when no call runs, or
of what an answer says, so that the invariant has to carry them through the calls: what
an establishment has done so far (`EstablishingLatest`), that a delegation's session
stays the kept one from `seal` to `teardown` (`DelegatingKept`), and what its
reply implies about the run behind it (`DelegatingTrue`). `OnlyDisplacedLeak` holds at every
statement with one exception, the session that was accepted and is not kept yet
(`Displaced`). `SessionsDistinctHolds` joins this module with the byte encodings: each
session has a ciphertext of its own, the transcript encodes the ciphertext in
such a way that it can be recovered, hence the transcripts, the ids and the keys differ.

**`SearchAdmissionProofs`.** `TypeCorrect`, `LateCopiesRefusedHolds` and
`RefusedMeansRanHolds`, from `AdmissionInvHolds`. A refusal looks at the replay sets,
while the properties speak of executions, so the invariant says what a recorded
value means at every statement in between: a recorded query has run or a thread is
at `run` with it (`WillRun`), and the query of a recorded nonce has run or is
still being handled (`Served`). Since a message that was received late has its
query in the replay set, `CheckQuery` refuses it.

**`AuditLogProofs`.** `LogInvHolds`, and from it `TypeCorrect`,
`ChainedUnlessFaultedHolds`, `VerifiedIsCompleteHolds` and `TamperEvidentHolds`.

- The chain head is cached, so the invariant relates it to the
  file statement by statement (`Intact`): before the write, the lock holder's
  record continues the file and the cached head is the file's; between the write
  and the update, the record is the last of the file and the cached head is one
  behind; with the lock free, or right after opening, both agree.
- With faults, `Records` says that the numbers of the whole records grow along the
  file and along the answers, that the record in hand has the last number drawn
  (`Latest`), and that a file that parses has lost nothing that was written
  (`Complete`). If the file verifies, completeness and order follow.
- `TamperEvident`, for edits of any length. No record passes over an acknowledged
  one: what a record continues was acknowledged or came later (`Unskipped`, with
  `EndOfFile` for what a restart reads as its head). In an edit that verifies, take
  the least position whose record is not older than a given acknowledged event: its
  predecessor is older, so that it is that event. If the file is one chain, no two
  of its records have the same predecessor, and an edit that verifies and is not a
  prefix would have a least position at which it differs from the file, where the
  record continues the same predecessor as the file's own.
- All assume one `AuditLog` object on the file (`Instances = {o}`): with two,
  each caches a head of its own and the chain forks.

**`SessionEncodingProofs`.** `KeysSeparateHolds`, `SessionIdsSeparateHolds`,
`SignaturesSeparateHolds` and `ProofsSeparateHolds`, together `UnambiguousHolds`,
for all byte strings whose lengths can be packed. The lemmas go field by field:
a packed length fixes the length (`U32Injective`), two strings that agree and
whose first parts have one length agree in both parts (`CatCancels`), so a
leading field of a known label can be cancelled (`WithCancels`). No two
purposes share a leading field value, and no signature starts like a
transcript, because the domains differ. The theorems need no assumption on the
labels of fields: position and lengths already tell them apart.

**Assumptions.** Cache sizes are positive and identifiers are distinct from `NONE`.
In `WorkerServer` each session transcript fixes its sender and the KEM key it was
made for (`TranscriptAssumption`, which `SessionIdsSeparateHolds` supports); in
`Delegation` the requests are built so that this is no assumption. In `InProcess`
fresh ciphertexts and epochs are distinct byte strings (`FreshAssumption`), which is what
the random generator and the KEM provide. A handler of the worker is one step in
`WorkerServer` and `Delegation`, except for a registration, which is two;
`SearchAdmission` and `TrustRoute` say what is left when threads interleave between
all statements.

**Only model-checked.** `EveryCallAnswered`, since the prover handles neither
fairness nor `ENABLED`; the five violations; and the properties of serial calls
where the hypotheses above do not hold, as far as the runs reach. No module that is
proved about uses a `RECURSIVE` operator.

## 5. Findings

Each is a run in which TLC finds a counterexample to what the repository says.

1. `overlap_orphans_session`: two calls that overlap without any fault both find
   no session, both establish one, and the second assignment replaces the first.
   The first session stays at the worker, with its key, although its call was
   answered.
2. `copies_run_twice`: two handler threads with copies of one envelope both pass
   the nonce and query tests before either records them. It is the limit of
   everything said above about the number of executions.
3. `restart_splits_keys`: the worker restarts after the handshake. The orchestrator
   compares transcript hashes before it keeps the session
   (`orchestrator_server.py:169`), but those do not depend on the decapsulated
   secret, so both ends keep a session whose keys differ. The query then fails, and
   cleanup removes the session. The equality of keys is asserted by a test of
   two objects in one process (`tests/test_hybrid_session.py:24`).
4. `restart_changes_signer`: keys are generated at each start, the audit log
   survives, and `verify_chain` takes one key per signer id.
5. `registration_replaces_pin`: `register_agent` is documented to reject silent
   key substitution, but reads and stores without a lock. A call that discovered
   the worker before its restart and one that discovered it after both find no
   pin; the later store replaces the key that the earlier call pinned.

Four more observations have no violated run. With a full audit log the teardown
event raises after the session was torn down and removed, and the answer says that
the teardown was not acknowledged although it was; `DiscardKeepsSession` says what
is left then. An `OSError` of that log passes the `except` clauses of
`delegate_search` and ends the call with a 500 and without its cleanup. A restart of
the orchestrator empties `DELEGATION_NONCES`, so `ClientNonceOnce` is a property of
one life of the process. And a record whose `fsync` failed is in the file while the
chain head stays behind: the next event forks the chain, and the file without the
record verifies.

## 6. Not modelled

- Contents of searches, results and HTTP bodies; malformed requests appear as
  refusals. The algorithms behind signatures, KEM and AES-GCM are a library.
- Discovery among several workers: calls to different workers share only the nonce
  cache and the audit log. Two replicas of a worker behind one address.
- The classical baseline. It runs in one process without sessions or threads, and
  its replay check is one test and one insertion in a set.
- The QRNG simulator appears as the freshness of identifiers, nonces and entropy.
  Its adapter of an external device runs a command and checks the length of
  its output.
- Threads in the QKD simulator: its callers, the in-process agent and the
  benchmarks, have one thread each.
- Metrics, benchmarks, scripts and deployment keep no protocol state.
- The constant labels of HKDF-Expand, and the JSON forms of envelopes and signed
  artifacts.

## 7. Plan

Done, in this order: replay cache, worker, delegation, `execute_search` threads,
audit log, registration route, session encoding, in-process agent, and the
theorems of section 4. To do:

1. Theorems about serial calls after restarts: what a restart can leave behind is
   bounded by the sessions that were live when it happened.
2. Nothing covers yet: two `AuditLog` objects on one file, two replicas of a worker
   behind one address, and the repetition of a client request across a restart
   of the orchestrator.
