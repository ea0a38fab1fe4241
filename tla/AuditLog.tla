------------------------------ MODULE AuditLog ------------------------------
(***************************************************************************)
(* security/audit_log.py: AuditLog objects appending signed, hash-chained  *)
(* records to one file.  Each object has a lock and a cached chain head of *)
(* its own; the file is shared.  A write can fail or be cut short, fsync   *)
(* can fail after the record reached the file, a process can die between   *)
(* any two statements, and a restarted one signs with a new key.           *)
(*                                                                         *)
(* A record's hash is its number, fresh for each record; a signature is    *)
(* the pair of signer and key.  A power loss before fsync leaves one of    *)
(* the files that a crash in the middle of the write leaves.               *)
(***************************************************************************)
EXTENDS Integers, Sequences, SequencesExt

CONSTANTS
    Instances,   \* AuditLog objects, each the signer id of its process
    Threads,     \* threads that log events
    InstanceOf,  \* the object each of them uses
    MaxRecords,  \* records that fit under max_bytes
    MaxEvents,   \* bound on records signed
    MaxStarts,   \* bound on starts of each process
    Faults,      \* may writes and fsync fail or be cut short in this instance?
    NONE

GENESIS == 0

\* What readers see in place of a line that json.loads refuses.
GARBAGE == [id |-> -1, prev |-> -1, signer |-> NONE, key |-> 0]

Record == [id : 1..MaxEvents, prev : 0..MaxEvents, signer : Instances,
           key : 1..MaxStarts]

ASSUME AuditAssumption ==
    /\ InstanceOf \in [Threads -> Instances] /\ NONE \notin Threads \cup Instances
    /\ MaxRecords \in Nat /\ MaxEvents \in Nat /\ MaxStarts \in Nat \ {0}
    /\ Faults \in BOOLEAN

VARIABLES
    lines,   \* the lines of the file
    ended,   \* the last of them ends in a newline
    size,    \* records written, cut ones included
    up,      \* is the process of an instance running?
    key,     \* its key: the number of its start
    head,    \* _previous_hash
    lock,    \* the thread that holds _lock, or NONE
    pc,      \* the statement each thread executes next
    rec,     \* its signed record, or NONE
    signed,  \* history: records signed so far
    acked,   \* history: records whose log_event returned, in that order
    faulted  \* history: a fault left the file and a chain head apart

fileVars == <<lines, ended, size>>
history == <<signed, acked, faulted>>
vars == <<fileVars, up, key, head, lock, pc, rec, history>>

TypeOK ==
    /\ lines \in Seq(Record \cup {GARBAGE})
    /\ ended \in BOOLEAN
    /\ size \in 0..MaxRecords
    /\ up \in [Instances -> BOOLEAN]
    /\ key \in [Instances -> 1..MaxStarts]
    /\ head \in [Instances -> 0..MaxEvents]
    /\ lock \in [Instances -> Threads \cup {NONE}]
    /\ pc \in [Threads -> {"idle", "measure", "write", "sync", "update"}]
    /\ rec \in [Threads -> Record \cup {NONE}]
    /\ signed \in 0..MaxEvents
    /\ acked \in Seq(1..MaxEvents)
    /\ faulted \in BOOLEAN

Init ==
    /\ lines = <<>> /\ ended = TRUE /\ size = 0
    /\ up = [i \in Instances |-> TRUE]
    /\ key = [i \in Instances |-> 1]
    /\ head = [i \in Instances |-> GENESIS]
    /\ lock = [i \in Instances |-> NONE]
    /\ pc = [t \in Threads |-> "idle"]
    /\ rec = [t \in Threads |-> NONE]
    /\ signed = 0 /\ acked = <<>> /\ faulted = FALSE

-----------------------------------------------------------------------------
\* The file.

\* What is left of a record when its write ends in the given way.
Leave(r, how) ==
    \/ how = "nothing" /\ UNCHANGED fileVars
    \/ /\ how # "nothing"
       /\ lines' = IF ended THEN Append(lines, IF how = "cut" THEN GARBAGE ELSE r)
                   ELSE Front(lines) \o <<GARBAGE>>
       /\ ended' = (how = "whole")
       /\ size' = size + 1

\* A partial record, which the next one is appended to.
Damages(how) == how \in {"cut", "unterminated"}

-----------------------------------------------------------------------------
\* log_event.

Goto(t, label) == pc' = [pc EXCEPT ![t] = label]

\* Seeded fault: log_event takes no lock.
NoLock(i) == TRUE

LockFree(i) == lock[i] = NONE

Return(t) == /\ Goto(t, "idle")
             /\ lock' = [lock EXCEPT ![InstanceOf[t]] = NONE]
             /\ rec' = [rec EXCEPT ![t] = NONE]

\* Taking the lock, chaining the event to the cached head and signing it.
Enter(t) ==
    LET i == InstanceOf[t] IN
    /\ pc[t] = "idle" /\ up[i] /\ LockFree(i)
    /\ signed < MaxEvents
    /\ lock' = [lock EXCEPT ![i] = t]
    /\ signed' = signed + 1
    /\ rec' = [rec EXCEPT ![t] = [id |-> signed', prev |-> head[i],
                                  signer |-> i, key |-> key[i]]]
    /\ Goto(t, "measure")
    /\ UNCHANGED <<fileVars, up, key, head, acked, faulted>>

\* The size is read before the file is opened for the write.
Measure(t) ==
    /\ pc[t] = "measure"
    /\ \/ size < MaxRecords /\ Goto(t, "write") /\ UNCHANGED <<lock, rec>>
       \/ size >= MaxRecords /\ Return(t)
    /\ UNCHANGED <<fileVars, up, key, head, history>>

Write(t) ==
    /\ pc[t] = "write"
    /\ Leave(rec[t], "whole")
    /\ Goto(t, "sync")
    /\ UNCHANGED <<up, key, head, lock, rec, history>>

\* write() or flush() raises, with any part of the record in the file.
WriteFails(t) ==
    /\ Faults
    /\ pc[t] = "write"
    /\ \E how \in {"nothing", "cut", "unterminated"} :
          Leave(rec[t], how) /\ faulted' = (faulted \/ Damages(how))
    /\ Return(t)
    /\ UNCHANGED <<up, key, head, signed, acked>>

Sync(t) ==
    /\ pc[t] = "sync"
    /\ \/ Goto(t, "update") /\ UNCHANGED <<lock, rec, faulted>>
       \/ Faults /\ Return(t) /\ faulted' = TRUE
    /\ UNCHANGED <<fileVars, up, key, head, signed, acked>>

Update(t) ==
    /\ pc[t] = "update"
    /\ head' = [head EXCEPT ![InstanceOf[t]] = rec[t].id]
    /\ acked' = Append(acked, rec[t].id)
    /\ Return(t)
    /\ UNCHANGED <<fileVars, up, key, signed, faulted>>

-----------------------------------------------------------------------------
\* Death and start of a process.

Users(i) == {t \in Threads : InstanceOf[t] = i}

Crash(i) ==
    /\ up[i]
    /\ key[i] < MaxStarts
    /\ up' = [up EXCEPT ![i] = FALSE]
    /\ \/ UNCHANGED <<fileVars, faulted>>
       \/ \E t \in Users(i), how \in {"cut", "unterminated", "whole"} :
             /\ Faults
             /\ pc[t] = "write"
             /\ Leave(rec[t], how)
             /\ faulted' = (faulted \/ Damages(how))
    /\ pc' = [t \in Threads |-> IF t \in Users(i) THEN "idle" ELSE pc[t]]
    /\ rec' = [t \in Threads |-> IF t \in Users(i) THEN NONE ELSE rec[t]]
    /\ lock' = [lock EXCEPT ![i] = NONE]
    /\ UNCHANGED <<key, head, signed, acked>>

\* Seeded fault: a new object starts a chain of its own.
HeadIsGenesis == GENESIS

\* _load_chain_head
LoadChainHead == IF lines = <<>> THEN GENESIS ELSE Last(lines).id

\* An invalid final record stops the constructor.
Open(i) ==
    /\ ~up[i]
    /\ lines # <<>> => Last(lines) # GARBAGE
    /\ up' = [up EXCEPT ![i] = TRUE]
    /\ key' = [key EXCEPT ![i] = @ + 1]
    /\ head' = [head EXCEPT ![i] = LoadChainHead]
    /\ UNCHANGED <<fileVars, lock, pc, rec, history>>

Next == \/ \E t \in Threads : \/ Enter(t) \/ Measure(t) \/ Write(t) \/ WriteFails(t)
                              \/ Sync(t) \/ Update(t)
        \/ \E i \in Instances : Crash(i) \/ Open(i)

Spec == Init /\ [][Next]_vars

-----------------------------------------------------------------------------
\* verify_chain(trusted), for a file with the given lines and a map from signer
\* ids to keys.

Parses(file) == \A n \in DOMAIN file : file[n] # GARBAGE

Chained(file) ==
    \A n \in DOMAIN file : file[n].prev = IF n = 1 THEN GENESIS ELSE file[n - 1].id

TrustedSignatures(trusted, file) ==
    \A n \in DOMAIN file : file[n].key = trusted[file[n].signer]

\* Seeded fault: lines that do not parse are skipped.
VerifyWhatParses(trusted, file) ==
    LET read == SelectSeq(file, LAMBDA r : r # GARBAGE) IN
    Chained(read) /\ TrustedSignatures(trusted, read)

\* Seeded fault: only hashes and signatures are verified.
VerifyUnchained(trusted, file) == Parses(file) /\ TrustedSignatures(trusted, file)

VerifyChain(trusted, file) ==
    Parses(file) /\ Chained(file) /\ TrustedSignatures(trusted, file)

KeyMaps == [Instances -> 1..MaxStarts]

-----------------------------------------------------------------------------
\* Whatever threads log, and wherever processes die and start again, the records
\* in the file form one chain, as long as no write was cut and no fsync failed.
ChainedUnlessFaulted == ~faulted => Parses(lines) /\ Chained(lines)

\* A file that verifies is complete, whatever faults there were: it holds every
\* record whose log_event returned, in the order in which they returned.
VerifiedIsComplete ==
    \A trusted \in KeyMaps :
        VerifyChain(trusted, lines) =>
            /\ \A k \in DOMAIN acked : \E n \in DOMAIN lines : lines[n].id = acked[k]
            /\ \A m, n \in DOMAIN lines, j, k \in DOMAIN acked :
                  lines[m].id = acked[j] /\ lines[n].id = acked[k] => (m < n <=> j < k)

\* What is made of the records of a file by deleting, repeating or reordering them,
\* whether or not the file itself is still one chain, verifies only if it holds
\* every event that was acknowledged up to the last one it holds: an acknowledged
\* event cannot be taken out without everything that was logged after it.  Other
\* records can: after a failed fsync the file has a fork, and the branch that was
\* not acknowledged can be cut off.  A file that is one chain has no such branch,
\* and what verifies is a prefix of it.
HoldsAcknowledged(edited) ==
    \A k \in DOMAIN acked, m \in DOMAIN edited :
        acked[k] <= edited[m].id => \E n \in 1..m : edited[n].id = acked[k]

CutsOnlyTheEnd(edited) ==
    \A trusted \in KeyMaps :
        VerifyChain(trusted, edited) =>
            /\ HoldsAcknowledged(edited)
            /\ Parses(lines) /\ Chained(lines) => IsPrefix(edited, lines)

TamperEvident ==
    \A edited \in SeqOf(ToSet(lines), Len(lines) + 1) : CutsOnlyTheEnd(edited)

\* The file can be verified with some assignment of keys to its signers.
PersistedLogVerifies == \E trusted \in KeyMaps : VerifyChain(trusted, lines)

-----------------------------------------------------------------------------
\* The inductive invariant behind ChainedUnlessFaulted, for a file that a single
\* object writes (proved in AuditLogProofs): the record a lock holder is about
\* to write continues the file, the one it has written ends it, and the head of
\* an unlocked object is the end of the file.
Busy(t) ==
    /\ pc[t] # "idle" <=> lock[InstanceOf[t]] = t
    /\ pc[t] # "idle" => up[InstanceOf[t]] /\ rec[t] \in Record
    /\ pc[t] = "write" => size < MaxRecords

Unwritten(t) == pc[t] \in {"measure", "write"}
Written(t) == pc[t] \in {"sync", "update"}

Intact ==
    /\ Parses(lines) /\ Chained(lines) /\ ended
    /\ \A t \in Threads :
          /\ Unwritten(t) => /\ rec[t].prev = LoadChainHead
                             /\ head[InstanceOf[t]] = LoadChainHead
          /\ Written(t) => rec[t].id = LoadChainHead
    /\ \A i \in Instances : up[i] /\ lock[i] = NONE => head[i] = LoadChainHead

ChainInv ==
    /\ TypeOK
    /\ \A t \in Threads : Busy(t)
    /\ \A i \in Instances : ~up[i] => key[i] < MaxStarts /\ lock[i] = NONE
    /\ ended \/ lines # <<>>
    /\ ~faulted => Intact

\* What VerifiedIsComplete and TamperEvident need besides: records are numbered in
\* the order of the file and of the answers, the number of the lock holder's
\* record is the last one drawn, and a file that parses has lost no record that
\* was written as a whole.
Numbered ==
    /\ \A n \in DOMAIN lines : lines[n].id <= signed
    /\ \A m, n \in DOMAIN lines : m < n /\ lines[n] # GARBAGE => lines[m].id < lines[n].id
    /\ \A k \in DOMAIN acked : acked[k] <= signed
    /\ \A j, k \in DOMAIN acked : j < k => acked[j] < acked[k]

Latest(t) ==
    pc[t] # "idle" =>
        /\ rec[t].id = signed
        /\ \A k \in DOMAIN acked : acked[k] < signed
        /\ Unwritten(t) => \A n \in DOMAIN lines : lines[n].id < signed

Complete ==
    Parses(lines) =>
        /\ \A k \in DOMAIN acked : \E n \in DOMAIN lines : lines[n].id = acked[k]
        /\ \A t \in Threads :
              Written(t) => \E n \in DOMAIN lines : lines[n].id = rec[t].id

\* No record passes over an acknowledged one: what a chain head is, or will be set
\* to when the file is opened, was acknowledged or came later.
Unskipped ==
    /\ \A n \in DOMAIN lines, k \in DOMAIN acked :
          lines[n] # GARBAGE => acked[k] <= lines[n].prev \/ lines[n].id <= acked[k]
    /\ \A t \in Threads : pc[t] # "idle" => \A k \in DOMAIN acked : acked[k] <= rec[t].prev
    /\ \A i \in Instances : up[i] => \A k \in DOMAIN acked : acked[k] <= head[i]

EndOfFile ==
    /\ \A t \in Threads : Written(t) => lines # <<>> /\ Last(lines) \in {rec[t], GARBAGE}
    /\ \A k \in DOMAIN acked :
          lines # <<>> /\ (Last(lines) # GARBAGE => acked[k] <= Last(lines).id)

Records == Numbered /\ (\A t \in Threads : Latest(t)) /\ Complete

LogInv == ChainInv /\ Records /\ Unskipped /\ EndOfFile
=============================================================================
