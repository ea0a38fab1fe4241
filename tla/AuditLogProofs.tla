--------------------------- MODULE AuditLogProofs ---------------------------
(***************************************************************************)
(* Proofs about AuditLog for one object on the file, any number of threads *)
(* and any bounds: crashes, restarts and threads never fork the chain, a   *)
(* file that verifies is complete, and an acknowledged event can only be   *)
(* removed with everything after it; of a file that is one chain, only a   *)
(* suffix can.                                                             *)
(***************************************************************************)
EXTENDS AuditLog, SequenceTheorems, WellFoundedInduction, TLAPS

\* An empty log satisfies the invariant.
LEMMA ChainInvInit == Init => ChainInv
<1> SUFFICES ASSUME Init PROVE ChainInv
    OBVIOUS
<1>1. TypeOK
  <2>1. lines \in Seq(Record \cup {GARBAGE}) /\ acked \in Seq(1..MaxEvents)
      BY EmptySeq DEF Init
  <2>2. 0 \in 0..MaxRecords /\ 0 \in 0..MaxEvents /\ 1 \in 1..MaxStarts
      BY AuditAssumption
  <2> QED
      BY <2>1, <2>2 DEF Init, TypeOK, GENESIS
<1>2. \A t \in Threads : Busy(t)
    BY AuditAssumption DEF Init, Busy
<1>3. Intact
    BY DEF Init, Intact, Parses, Chained, Unwritten, Written, LoadChainHead
<1> QED
    BY <1>1, <1>2, <1>3 DEF ChainInv, Init

\* A record is not the mark of a line that does not parse.
LEMMA RecordParses == GARBAGE \notin Record
    BY DEF GARBAGE, Record

\* Appending a record that continues a chain gives a chain that ends with it.
LEMMA ChainAppend ==
    ASSUME NEW file \in Seq(Record \cup {GARBAGE}), NEW r \in Record,
           Parses(file), Chained(file),
           r.prev = IF file = <<>> THEN GENESIS ELSE Last(file).id
    PROVE  /\ Append(file, r) \in Seq(Record \cup {GARBAGE})
           /\ Parses(Append(file, r)) /\ Chained(Append(file, r))
           /\ Append(file, r) # <<>> /\ Last(Append(file, r)) = r
<1> DEFINE new == Append(file, r)
<1>1. /\ new \in Seq(Record \cup {GARBAGE}) /\ new # <<>>
      /\ Len(file) \in Nat /\ Len(new) = Len(file) + 1 /\ new[Len(new)] = r
      /\ DOMAIN new = 1..(Len(file) + 1) /\ DOMAIN file = 1..Len(file)
      /\ \A n \in 1..Len(file) : new[n] = file[n]
    BY AppendProperties, LenProperties
<1>2. Last(new) = r
    BY <1>1 DEF Last
<1>3. Parses(new)
    BY <1>1, RecordParses DEF Parses
<1>4. Chained(new)
  <2> SUFFICES ASSUME NEW n \in 1..(Len(file) + 1)
               PROVE  new[n].prev = IF n = 1 THEN GENESIS ELSE new[n - 1].id
      BY <1>1 DEF Chained
  <2> HIDE DEF new
  <2>1. CASE n \in 1..Len(file)
      BY <1>1, <2>1 DEF Chained
  <2>2. CASE n = Len(file) + 1 /\ file = <<>>
      BY <1>1, <2>2
  <2>3. CASE n = Len(file) + 1 /\ file # <<>>
    <3>1. Len(file) # 0
        BY <2>3, EmptySeq
    <3> QED
        BY <1>1, <2>3, <3>1 DEF Last
  <2> QED
      BY <1>1, <2>1, <2>2, <2>3
<1> QED
    BY <1>1, <1>2, <1>3, <1>4

\* Whatever a write leaves is a file.
LEMMA LeaveType ==
    ASSUME TypeOK, ended \/ lines # <<>>, size < MaxRecords,
           NEW r \in Record, NEW how, Leave(r, how)
    PROVE  /\ lines' \in Seq(Record \cup {GARBAGE}) /\ ended' \in BOOLEAN
           /\ size' \in 0..MaxRecords /\ (ended' \/ lines' # <<>>)
<1> DEFINE S == Record \cup {GARBAGE}
<1>1. lines \in Seq(S) /\ Len(lines) \in Nat
    BY LenProperties DEF TypeOK
<1>2. \A x \in S : Append(lines, x) \in Seq(S) /\ Append(lines, x) # <<>>
    BY <1>1, AppendProperties
<1>3. lines # <<>> => Front(lines) \o <<GARBAGE>> \in Seq(S)
  <2> SUFFICES ASSUME lines # <<>> PROVE Front(lines) \o <<GARBAGE>> \in Seq(S)
      OBVIOUS
  <2>1. Front(lines) \in Seq(S)
      BY <1>1, SubSeqProperties DEF Front
  <2>2. <<GARBAGE>> \in Seq(S)
      OBVIOUS
  <2> QED
      BY <2>1, <2>2, ConcatProperties
<1>4. lines # <<>> => Front(lines) \o <<GARBAGE>> # <<>>
  <2> SUFFICES ASSUME lines # <<>> PROVE Front(lines) \o <<GARBAGE>> # <<>>
      OBVIOUS
  <2>1. Front(lines) \in Seq(S) /\ <<GARBAGE>> \in Seq(S) /\ <<GARBAGE>> # <<>>
      BY <1>1, SubSeqProperties DEF Front
  <2> QED
      BY <2>1, ConcatEqualIffEmpty
<1>5. size \in Nat /\ size + 1 \in 0..MaxRecords
    BY AuditAssumption DEF TypeOK
<1>6. CASE how = "nothing"
    BY <1>1, <1>6 DEF Leave, TypeOK, fileVars
<1>7. CASE how # "nothing"
    BY <1>2, <1>3, <1>4, <1>5, <1>7 DEF Leave, TypeOK, fileVars
<1> QED
    BY <1>6, <1>7

\* Every thread uses the one object, and those that are not idle hold its lock.
LEMMA OneHolder ==
    ASSUME NEW o, Instances = {o}, ChainInv
    PROVE  /\ \A t \in Threads : InstanceOf[t] = o
           /\ \A t, u \in Threads : pc[t] # "idle" /\ pc[u] # "idle" => t = u
    BY AuditAssumption DEF ChainInv, Busy

\* Entering log_event takes the head, which is the end of the file.
LEMMA EnterStep ==
    ASSUME NEW o, Instances = {o}, ChainInv, NEW t \in Threads, Enter(t)
    PROVE  ChainInv'
<1> DEFINE r == [id |-> signed + 1, prev |-> head[o], signer |-> o, key |-> key[o]]
<1>0. /\ TypeOK /\ \A u \in Threads : Busy(u) /\ InstanceOf[u] = o
      /\ pc[t] = "idle" /\ up[o] /\ lock[o] = NONE /\ o \in Instances
      /\ lock' = [lock EXCEPT ![o] = t] /\ pc' = [pc EXCEPT ![t] = "measure"]
      /\ rec' = [rec EXCEPT ![t] = r] /\ signed' = signed + 1
      /\ UNCHANGED <<fileVars, up, key, head, acked, faulted>>
    BY OneHolder DEF ChainInv, Enter, LockFree, Goto
<1>1. r \in Record /\ signed + 1 \in 0..MaxEvents
    BY <1>0, AuditAssumption DEF TypeOK, Record, Enter
<1>2. TypeOK'
    BY <1>0, <1>1 DEF TypeOK, fileVars
<1>3. ASSUME NEW u \in Threads PROVE Busy(u)'
    BY <1>0, <1>1, <1>3, AuditAssumption DEF Busy, TypeOK, fileVars
<1>4. ASSUME Intact PROVE Intact'
  <2>1. /\ head[o] = LoadChainHead /\ LoadChainHead' = LoadChainHead
        /\ Parses(lines)' /\ Chained(lines)' /\ ended'
      BY <1>0, <1>4 DEF Intact, LoadChainHead, fileVars, Parses, Chained
  <2>2. ASSUME NEW u \in Threads
        PROVE  /\ Unwritten(u)' => /\ rec'[u].prev = LoadChainHead
                                   /\ head'[o] = LoadChainHead
               /\ Written(u)' => rec'[u].id = LoadChainHead
      BY <1>0, <1>4, <2>1, <2>2 DEF Intact, TypeOK, Unwritten, Written
  <2> QED
      BY <1>0, <2>1, <2>2, AuditAssumption DEF Intact, TypeOK
<1> QED
    BY <1>0, <1>2, <1>3, <1>4, AuditAssumption DEF ChainInv, TypeOK, fileVars

\* Giving the lock back, with the head at the end of an undamaged file and all
\* else in its type, keeps the invariant.
LEMMA ReturnStep ==
    ASSUME NEW o, Instances = {o}, ChainInv, NEW t \in Threads, pc[t] # "idle",
           Return(t), TypeOK', UNCHANGED <<up, key>>, ended' \/ lines' # <<>>,
           ~faulted' => /\ Parses(lines)' /\ Chained(lines)' /\ ended'
                        /\ head'[o] = LoadChainHead'
    PROVE  ChainInv'
<1>0. /\ TypeOK /\ \A u \in Threads : Busy(u) /\ InstanceOf[u] = o
      /\ lock' = [lock EXCEPT ![o] = NONE] /\ pc' = [pc EXCEPT ![t] = "idle"]
      /\ rec' = [rec EXCEPT ![t] = NONE]
  <2>1. TypeOK /\ \A u \in Threads : Busy(u) /\ InstanceOf[u] = o
      BY OneHolder DEF ChainInv
  <2> QED
      BY <2>1 DEF Return, Goto
<1>1. \A u \in Threads : pc'[u] = "idle" /\ lock'[o] # u
  <2> SUFFICES ASSUME NEW u \in Threads PROVE pc'[u] = "idle" /\ lock'[o] # u
      OBVIOUS
  <2>1. u # t => pc[u] = "idle"
      BY OneHolder
  <2> QED
      BY <1>0, <2>1, AuditAssumption DEF TypeOK
<1>2. \A u \in Threads : Busy(u)'
    BY <1>0, <1>1 DEF Busy
<1>3. ~faulted' => Intact'
    BY <1>0, <1>1 DEF Intact, Unwritten, Written
<1> QED
    BY <1>0, <1>2, <1>3 DEF ChainInv, TypeOK

\* The size test lets only the lock holder write, and only below the limit.
LEMMA MeasureStep ==
    ASSUME NEW o, Instances = {o}, ChainInv, NEW t \in Threads, Measure(t)
    PROVE  ChainInv'
<1>0. /\ TypeOK /\ \A u \in Threads : Busy(u) /\ InstanceOf[u] = o
      /\ pc[t] = "measure" /\ UNCHANGED <<fileVars, up, key, head, history>>
      /\ ended \/ lines # <<>>
    BY OneHolder DEF ChainInv, Measure
<1>1. CASE size < MaxRecords /\ Goto(t, "write") /\ UNCHANGED <<lock, rec>>
  <2>1. /\ pc' = [pc EXCEPT ![t] = "write"]
        /\ UNCHANGED <<lines, ended, size, up, key, head, lock, rec, signed, acked, faulted>>
      BY <1>0, <1>1 DEF Goto, fileVars, history
  <2>2. TypeOK'
      BY <1>0, <2>1 DEF TypeOK
  <2>3. \A u \in Threads : Busy(u)'
      BY <1>0, <1>1, <2>1 DEF Busy, TypeOK
  <2>4. Intact => Intact'
      BY <1>0, <2>1 DEF Intact, TypeOK, Parses, Chained, LoadChainHead, Unwritten, Written
  <2> QED
      BY <2>1, <2>2, <2>3, <2>4 DEF ChainInv
<1>2. CASE Return(t)
  <2>1. TypeOK'
      BY <1>0, <1>2 DEF TypeOK, Return, Goto, fileVars, history
  <2>2. ~faulted' => /\ Parses(lines)' /\ Chained(lines)' /\ ended'
                     /\ head'[o] = LoadChainHead'
      BY <1>0 DEF ChainInv, Intact, Unwritten, Parses, Chained, LoadChainHead, fileVars,
                  history
  <2>3. UNCHANGED <<up, key>> /\ (ended' \/ lines' # <<>>) /\ pc[t] # "idle"
      BY <1>0 DEF fileVars
  <2> QED
      BY <1>2, <2>1, <2>2, <2>3, ReturnStep
<1> QED
    BY <1>1, <1>2 DEF Measure

\* The record that is written continues the file.
LEMMA WholeRecord ==
    ASSUME NEW o, Instances = {o}, ChainInv, ~faulted, NEW t \in Threads,
           pc[t] = "write", Leave(rec[t], "whole")
    PROVE  /\ Parses(lines)' /\ Chained(lines)' /\ ended' /\ lines' # <<>>
           /\ LoadChainHead' = rec[t].id
<1>1. /\ rec[t] \in Record /\ lines \in Seq(Record \cup {GARBAGE})
      /\ Parses(lines) /\ Chained(lines) /\ ended
      /\ rec[t].prev = IF lines = <<>> THEN GENESIS ELSE Last(lines).id
    BY DEF ChainInv, TypeOK, Busy, Intact, Unwritten, LoadChainHead
<1>2. lines' = Append(lines, rec[t]) /\ ended'
    BY <1>1 DEF Leave
<1>3. /\ Parses(Append(lines, rec[t])) /\ Chained(Append(lines, rec[t]))
      /\ Append(lines, rec[t]) # <<>> /\ Last(Append(lines, rec[t])) = rec[t]
    BY <1>1, ChainAppend
<1> QED
    BY <1>2, <1>3 DEF Parses, Chained, LoadChainHead

\* A written record ends the file.
LEMMA WriteStep ==
    ASSUME NEW o, Instances = {o}, ChainInv, NEW t \in Threads, Write(t)
    PROVE  ChainInv'
<1>0. TypeOK /\ \A u \in Threads : Busy(u) /\ InstanceOf[u] = o
    BY OneHolder DEF ChainInv
<1>1. /\ pc[t] = "write" /\ rec[t] \in Record /\ size < MaxRecords
      /\ pc' = [pc EXCEPT ![t] = "sync"] /\ Leave(rec[t], "whole")
      /\ UNCHANGED <<up, key, head, lock, rec, signed, acked, faulted>>
    BY <1>0 DEF Write, Goto, Busy, history
<1>2. /\ lines' \in Seq(Record \cup {GARBAGE}) /\ ended' \in BOOLEAN
      /\ size' \in 0..MaxRecords /\ (ended' \/ lines' # <<>>)
    BY <1>0, <1>1, LeaveType DEF ChainInv
<1>3. TypeOK'
    BY <1>0, <1>1, <1>2 DEF TypeOK
<1>4. \A u \in Threads : u # t => pc'[u] = "idle"
    BY <1>0, <1>1, OneHolder DEF TypeOK
<1>5. \A u \in Threads : Busy(u)'
    BY <1>0, <1>1, <1>4 DEF Busy, TypeOK
<1>6. ASSUME ~faulted' PROVE Intact'
  <2>1. /\ Parses(lines)' /\ Chained(lines)' /\ ended'
        /\ LoadChainHead' = rec[t].id
      BY <1>1, <1>6, WholeRecord
  <2>2. lock'[o] # NONE
      BY <1>0, <1>1, AuditAssumption DEF Busy
  <2> QED
      BY <1>0, <1>1, <1>4, <2>1, <2>2 DEF Intact, Unwritten, Written, TypeOK
<1> QED
    BY <1>1, <1>2, <1>3, <1>5, <1>6 DEF ChainInv

\* A write that raises leaves the file as it was, or is a fault.
LEMMA WriteFailsStep ==
    ASSUME NEW o, Instances = {o}, ChainInv, NEW t \in Threads, WriteFails(t)
    PROVE  ChainInv'
<1>0. TypeOK /\ \A u \in Threads : Busy(u) /\ InstanceOf[u] = o
    BY OneHolder DEF ChainInv
<1>1. /\ pc[t] = "write" /\ rec[t] \in Record /\ size < MaxRecords /\ Return(t)
      /\ UNCHANGED <<up, key, head, signed, acked>>
    BY <1>0 DEF WriteFails, Busy
<1>2. PICK how \in {"nothing", "cut", "unterminated"} :
         Leave(rec[t], how) /\ faulted' = (faulted \/ Damages(how))
    BY DEF WriteFails
<1>3. /\ lines' \in Seq(Record \cup {GARBAGE}) /\ ended' \in BOOLEAN
      /\ size' \in 0..MaxRecords /\ (ended' \/ lines' # <<>>)
    BY <1>0, <1>1, <1>2, LeaveType DEF ChainInv
<1>4. TypeOK'
    BY <1>0, <1>1, <1>2, <1>3 DEF TypeOK, Return, Goto, Damages
<1>5. ASSUME ~faulted'
      PROVE  Parses(lines)' /\ Chained(lines)' /\ ended' /\ head'[o] = LoadChainHead'
  <2>1. ~faulted /\ UNCHANGED fileVars
      BY <1>2, <1>5 DEF Damages, Leave
  <2> QED
      BY <1>0, <1>1, <2>1 DEF ChainInv, Intact, Unwritten, Parses, Chained,
                              LoadChainHead, fileVars
<1> QED
    BY <1>1, <1>3, <1>4, <1>5, ReturnStep

\* fsync either leaves everything as it was or is a fault.
LEMMA SyncStep ==
    ASSUME NEW o, Instances = {o}, ChainInv, NEW t \in Threads, Sync(t)
    PROVE  ChainInv'
<1>0. /\ TypeOK /\ \A u \in Threads : Busy(u) /\ InstanceOf[u] = o
      /\ ended \/ lines # <<>>
    BY OneHolder DEF ChainInv
<1>1. /\ pc[t] = "sync"
      /\ UNCHANGED <<lines, ended, size, up, key, head, signed, acked>>
    BY DEF Sync, fileVars
<1>2. CASE Goto(t, "update") /\ UNCHANGED <<lock, rec, faulted>>
  <2>1. TypeOK'
      BY <1>0, <1>1, <1>2 DEF TypeOK, Goto
  <2>2. \A u \in Threads : Busy(u)'
      BY <1>0, <1>1, <1>2 DEF Busy, TypeOK, Goto
  <2>3. Intact => Intact'
      BY <1>0, <1>1, <1>2 DEF Intact, TypeOK, Parses, Chained, LoadChainHead, Unwritten,
                              Written, Goto
  <2> QED
      BY <1>1, <1>2, <2>1, <2>2, <2>3 DEF ChainInv
<1>3. CASE Return(t) /\ faulted' = TRUE
  <2>1. TypeOK'
      BY <1>0, <1>1, <1>3 DEF TypeOK, Return, Goto
  <2> QED
      BY <1>0, <1>1, <1>3, <2>1, ReturnStep
<1> QED
    BY <1>2, <1>3 DEF Sync

\* Moving the head to the record that ends the file.
LEMMA UpdateStep ==
    ASSUME NEW o, Instances = {o}, ChainInv, NEW t \in Threads, Update(t)
    PROVE  ChainInv'
<1>0. /\ TypeOK /\ \A u \in Threads : Busy(u) /\ InstanceOf[u] = o
      /\ ended \/ lines # <<>>
    BY OneHolder DEF ChainInv
<1>1. /\ pc[t] = "update" /\ rec[t] \in Record /\ Return(t)
      /\ head' = [head EXCEPT ![o] = rec[t].id] /\ acked' = Append(acked, rec[t].id)
      /\ UNCHANGED <<lines, ended, size, up, key, signed, faulted>>
    BY <1>0 DEF Update, fileVars, Busy
<1>2. rec[t].id \in 1..MaxEvents /\ rec[t].id \in 0..MaxEvents
    BY <1>1, AuditAssumption DEF Record
<1>3. acked' \in Seq(1..MaxEvents)
    BY <1>0, <1>1, <1>2, AppendProperties DEF TypeOK
<1>4. TypeOK'
    BY <1>0, <1>1, <1>2, <1>3 DEF TypeOK, Return, Goto
<1>5. ASSUME ~faulted'
      PROVE  Parses(lines)' /\ Chained(lines)' /\ ended' /\ head'[o] = LoadChainHead'
    BY <1>0, <1>1, <1>5 DEF ChainInv, Intact, Written, TypeOK, Parses, Chained,
                            LoadChainHead
<1> QED
    BY <1>0, <1>1, <1>4, <1>5, ReturnStep

\* A process that dies leaves no thread behind; what it was writing is in the
\* file as a whole, or not at all, or it is a fault.
LEMMA CrashStep ==
    ASSUME NEW o, Instances = {o}, ChainInv, Crash(o)
    PROVE  ChainInv'
<1>0. /\ TypeOK /\ \A u \in Threads : Busy(u) /\ InstanceOf[u] = o
      /\ ended \/ lines # <<>>
    BY OneHolder DEF ChainInv
<1>1. /\ up' = [up EXCEPT ![o] = FALSE] /\ lock' = [lock EXCEPT ![o] = NONE]
      /\ pc' = [u \in Threads |-> "idle"] /\ rec' = [u \in Threads |-> NONE]
      /\ key[o] < MaxStarts /\ UNCHANGED <<key, head, signed, acked>>
    BY <1>0 DEF Crash, Users
<1>2. /\ lines' \in Seq(Record \cup {GARBAGE}) /\ ended' \in BOOLEAN
      /\ size' \in 0..MaxRecords /\ faulted' \in BOOLEAN /\ (ended' \/ lines' # <<>>)
      /\ ~faulted' => ~faulted /\ Parses(lines)' /\ Chained(lines)' /\ ended'
  <2>1. CASE UNCHANGED <<fileVars, faulted>>
      BY <1>0, <2>1 DEF ChainInv, TypeOK, Intact, Parses, Chained, fileVars
  <2>2. CASE \E t \in Users(o), how \in {"cut", "unterminated", "whole"} :
                /\ pc[t] = "write" /\ Leave(rec[t], how)
                /\ faulted' = (faulted \/ Damages(how))
    <3>1. PICK t \in Threads, how \in {"cut", "unterminated", "whole"} :
             /\ pc[t] = "write" /\ Leave(rec[t], how)
             /\ faulted' = (faulted \/ Damages(how))
        BY <2>2 DEF Users
    <3>2. rec[t] \in Record /\ size < MaxRecords
        BY <1>0, <3>1 DEF Busy
    <3>3. /\ lines' \in Seq(Record \cup {GARBAGE}) /\ ended' \in BOOLEAN
          /\ size' \in 0..MaxRecords /\ (ended' \/ lines' # <<>>)
        BY <1>0, <3>1, <3>2, LeaveType
    <3>4. faulted' \in BOOLEAN
        BY <1>0, <3>1 DEF TypeOK, Damages
    <3>5. ~faulted' => ~faulted /\ how = "whole"
        BY <3>1 DEF Damages
    <3> QED
        BY <3>1, <3>3, <3>4, <3>5, WholeRecord
  <2> QED
      BY <2>1, <2>2 DEF Crash
<1>3. TypeOK'
    BY <1>0, <1>1, <1>2 DEF TypeOK
<1>4. \A u \in Threads : Busy(u)'
    BY <1>0, <1>1, AuditAssumption DEF Busy, TypeOK
<1>5. ~faulted' => Intact'
    BY <1>0, <1>1, <1>2 DEF Intact, Unwritten, Written, TypeOK
<1> QED
    BY <1>0, <1>1, <1>2, <1>3, <1>4, <1>5 DEF ChainInv, TypeOK

\* A new process continues from the last record of the file.
LEMMA OpenStep ==
    ASSUME NEW o, Instances = {o}, ChainInv, Open(o)
    PROVE  ChainInv'
<1>0. /\ TypeOK /\ \A u \in Threads : Busy(u) /\ InstanceOf[u] = o
      /\ key[o] < MaxStarts /\ lock[o] = NONE /\ (ended \/ lines # <<>>)
    BY OneHolder DEF ChainInv, Open
<1>1. /\ up' = [up EXCEPT ![o] = TRUE] /\ key' = [key EXCEPT ![o] = @ + 1]
      /\ head' = [head EXCEPT ![o] = LoadChainHead]
      /\ UNCHANGED <<lines, ended, size, lock, pc, rec, signed, acked, faulted>>
    BY DEF Open, fileVars, history
<1>2. LoadChainHead \in 0..MaxEvents
  <2>1. CASE lines = <<>>
      BY <2>1, AuditAssumption DEF LoadChainHead, GENESIS
  <2>2. CASE lines # <<>>
    <3>1. Last(lines) \in Record
      <4>1. Len(lines) \in 1..Len(lines)
          BY <1>0, <2>2, EmptySeq DEF TypeOK
      <4>2. Last(lines) \in Record \cup {GARBAGE}
          BY <1>0, <4>1, ElementOfSeq DEF TypeOK, Last
      <4> QED
          BY <2>2, <4>2 DEF Open
    <3> QED
        BY <2>2, <3>1, AuditAssumption DEF LoadChainHead, Record
  <2> QED
      BY <2>1, <2>2
<1>3. TypeOK'
    BY <1>0, <1>1, <1>2, AuditAssumption DEF TypeOK
<1>4. \A u \in Threads : pc[u] = "idle"
    BY <1>0, AuditAssumption DEF Busy
<1>5. \A u \in Threads : Busy(u)'
    BY <1>0, <1>1, <1>4 DEF Busy
<1>6. Intact => Intact'
    BY <1>0, <1>1, <1>4 DEF Intact, TypeOK, Unwritten, Written, Parses, Chained,
                            LoadChainHead
<1> QED
    BY <1>0, <1>1, <1>3, <1>5, <1>6 DEF ChainInv, TypeOK

\* The invariant of a log that one object writes.
THEOREM ChainInvHolds == ASSUME NEW o, Instances = {o} PROVE Spec => []ChainInv
<1>1. ChainInv /\ [Next]_vars => ChainInv'
  <2> SUFFICES ASSUME ChainInv, [Next]_vars PROVE ChainInv'
      OBVIOUS
  <2>1. CASE UNCHANGED vars
      BY <2>1 DEF vars, fileVars, history, ChainInv, TypeOK, Busy, Intact, Parses, Chained,
                  LoadChainHead, Unwritten, Written
  <2>2. ASSUME NEW t \in Threads, \/ Enter(t) \/ Measure(t) \/ Write(t) \/ WriteFails(t)
                                  \/ Sync(t) \/ Update(t)
        PROVE  ChainInv'
      BY <2>2, EnterStep, MeasureStep, WriteStep, WriteFailsStep, SyncStep, UpdateStep
  <2>3. ASSUME NEW i \in Instances, Crash(i) \/ Open(i) PROVE ChainInv'
      BY <2>3, CrashStep, OpenStep
  <2> QED
      BY <2>1, <2>2, <2>3 DEF Next
<1> QED
    BY <1>1, ChainInvInit, PTL DEF Spec

\* Type correctness, the size limit included.
THEOREM TypeCorrect == ASSUME NEW o, Instances = {o} PROVE Spec => []TypeOK
<1>1. ChainInv => TypeOK
    BY DEF ChainInv
<1> QED
    BY <1>1, ChainInvHolds, PTL

\* Threads, crashes and restarts never fork the chain: as long as no write was
\* cut and no fsync failed, every record continues the one before it.
THEOREM ChainedUnlessFaultedHolds ==
    ASSUME NEW o, Instances = {o} PROVE Spec => []ChainedUnlessFaulted
<1>1. ChainInv => ChainedUnlessFaulted
    BY DEF ChainInv, Intact, ChainedUnlessFaulted
<1> QED
    BY <1>1, ChainInvHolds, PTL

-----------------------------------------------------------------------------
(* What a file that verifies holds. *)

\* Replacing the last element of a sequence.
LEMMA ReplacedLast ==
    ASSUME NEW S, NEW s \in Seq(S), s # <<>>, NEW g \in Seq(S), Len(g) = 1
    PROVE  /\ Len(s) \in Nat /\ Len(s) # 0 /\ Len(Front(s) \o g) = Len(s)
           /\ DOMAIN (Front(s) \o g) = 1..Len(Front(s) \o g)
           /\ \A n \in 1..(Len(s) - 1) : (Front(s) \o g)[n] = s[n]
           /\ (Front(s) \o g)[Len(s)] = g[1]
<1> DEFINE last == Len(s) - 1
           f == SubSeq(s, 1, last)
           new == f \o g
<1>1. Len(s) \in Nat /\ Len(s) # 0 /\ last \in Nat /\ Len(s) = last + 1
    BY EmptySeq, LenProperties
<1> HIDE DEF last
<1>2. \A n \in 1..last : s[n] \in S
    BY <1>1, ElementOfSeq
<1>3. /\ f \in Seq(S) /\ Len(f) = IF 1 <= last THEN last - 1 + 1 ELSE 0
      /\ \A n \in 1..(last - 1 + 1) : f[n] = s[1 + n - 1]
    BY <1>1, <1>2, SubSeqProperties
<1> HIDE DEF f
<1>4. Len(f) = last
    BY <1>1, <1>3
<1>5. ASSUME NEW n \in 1..last PROVE f[n] = s[n]
  <2>1. n \in 1..(last - 1 + 1) /\ 1 + n - 1 = n
      BY <1>1
  <2> QED
      BY <1>3, <2>1
<1>7. /\ new \in Seq(S) /\ Len(new) = Len(f) + Len(g)
      /\ \A n \in 1..(Len(f) + Len(g)) :
            new[n] = IF n <= Len(f) THEN f[n] ELSE g[n - Len(f)]
    BY <1>3, ConcatProperties
<1> HIDE DEF new
<1>8. DOMAIN new = 1..Len(new) /\ Len(new) = last + 1
    BY <1>4, <1>7, LenProperties
<1>9. ASSUME NEW n \in 1..last PROVE new[n] = s[n]
    BY <1>1, <1>4, <1>5, <1>7
<1>10. new[last + 1] = g[1]
  <2>1. last + 1 \in 1..(last + 1) /\ ~(last + 1 <= last) /\ last + 1 - last = 1
      BY <1>1
  <2> QED
      BY <1>4, <1>7, <2>1
<1>11. \A n \in 1..(Len(s) - 1) : new[n] = s[n]
    BY <1>9 DEF last
<1>12. Front(s) \o g = new
    BY DEF Front, f, last, new
<1> QED
    BY <1>1, <1>8, <1>10, <1>11, <1>12

\* The file after a write, line by line.
LEMMA LeaveShape ==
    ASSUME TypeOK, ended \/ lines # <<>>, NEW r \in Record, NEW how, Leave(r, how)
    PROVE  /\ DOMAIN lines = 1..Len(lines) /\ DOMAIN lines' = 1..Len(lines')
           /\ Len(lines) \in Nat
           /\ \/ lines' = lines /\ how = "nothing"
              \/ /\ Len(lines') = Len(lines) + 1
                 /\ \A n \in 1..Len(lines) : lines'[n] = lines[n]
                 /\ lines'[Len(lines')] = IF how = "cut" THEN GARBAGE ELSE r
              \/ /\ Len(lines') = Len(lines) /\ Len(lines) # 0
                 /\ \A n \in 1..(Len(lines) - 1) : lines'[n] = lines[n]
                 /\ lines'[Len(lines')] = GARBAGE
<1> DEFINE S == Record \cup {GARBAGE}
<1>1. lines \in Seq(S) /\ Len(lines) \in Nat /\ DOMAIN lines = 1..Len(lines)
    BY LenProperties DEF TypeOK
<1> HIDE DEF S
<1>2. CASE how = "nothing"
    BY <1>1, <1>2 DEF Leave, fileVars
<1>3. CASE how # "nothing" /\ ended
  <2> DEFINE x == IF how = "cut" THEN GARBAGE ELSE r
  <2>1. x \in S
      BY DEF S
  <2>2. lines' = Append(lines, x)
      BY <1>3 DEF Leave
  <2> HIDE DEF x
  <2>3. /\ Len(lines') = Len(lines) + 1 /\ DOMAIN lines' = 1..Len(lines')
        /\ \A n \in 1..Len(lines) : lines'[n] = lines[n]
        /\ lines'[Len(lines')] = x
      BY <1>1, <2>1, <2>2, AppendProperties
  <2> QED
      BY <1>1, <2>3 DEF x
<1>4. CASE how # "nothing" /\ ~ended
  <2> DEFINE g == <<GARBAGE>>
             new == Front(lines) \o g
  <2>1. lines' = new
      BY <1>4 DEF Leave
  <2>2. lines # <<>>
      BY <1>4
  <2>3. g \in Seq(S) /\ Len(g) = 1 /\ g[1] = GARBAGE
      BY DEF S
  <2> HIDE DEF g
  <2>4. /\ Len(new) = Len(lines) /\ Len(lines) # 0 /\ DOMAIN new = 1..Len(new)
        /\ \A n \in 1..(Len(lines) - 1) : new[n] = lines[n]
        /\ new[Len(lines)] = g[1]
    <3>1. \A s \in Seq(S), t \in Seq(S) :
             s # <<>> /\ Len(t) = 1 =>
                /\ Len(s) # 0 /\ Len(Front(s) \o t) = Len(s)
                /\ DOMAIN (Front(s) \o t) = 1..Len(Front(s) \o t)
                /\ \A n \in 1..(Len(s) - 1) : (Front(s) \o t)[n] = s[n]
                /\ (Front(s) \o t)[Len(s)] = t[1]
        BY ReplacedLast
    <3> QED
        BY <1>1, <2>2, <2>3, <3>1, Zenon
  <2> HIDE DEF new
  <2> QED
      BY <1>1, <2>1, <2>3, <2>4
<1> QED
    BY <1>2, <1>3, <1>4 DEF TypeOK

\* The lines of a file are records or marks of lines that do not parse.
LEMMA LineType ==
    ASSUME TypeOK
    PROVE  /\ DOMAIN lines = 1..Len(lines) /\ Len(lines) \in Nat
           /\ \A n \in DOMAIN lines : lines[n] \in Record \cup {GARBAGE}
           /\ \A n \in DOMAIN lines : lines[n].id \in Int
           /\ \A n \in DOMAIN lines : lines[n] # GARBAGE => 1 <= lines[n].id
<1>1. /\ DOMAIN lines = 1..Len(lines) /\ Len(lines) \in Nat
      /\ \A n \in DOMAIN lines : lines[n] \in Record \cup {GARBAGE}
    BY LenProperties, ElementOfSeq DEF TypeOK
<1>2. \A r \in Record : r.id \in Int /\ 1 <= r.id
    BY AuditAssumption DEF Record
<1>3. GARBAGE.id \in Int
    BY DEF GARBAGE
<1> QED
    BY <1>1, <1>2, <1>3

\* Acknowledged events are numbers.
LEMMA AckedType ==
    ASSUME TypeOK
    PROVE  /\ DOMAIN acked = 1..Len(acked) /\ Len(acked) \in Nat
           /\ \A k \in DOMAIN acked : acked[k] \in Nat
<1>1. DOMAIN acked = 1..Len(acked) /\ Len(acked) \in Nat
    BY LenProperties DEF TypeOK
<1>2. \A k \in 1..Len(acked) : acked[k] \in 1..MaxEvents
    BY ElementOfSeq DEF TypeOK
<1> QED
    BY <1>1, <1>2, AuditAssumption

\* A write of the latest record keeps the numbers in order, and loses no line of
\* a file that parses afterwards.
LEMMA LeaveNumbered ==
    ASSUME TypeOK, ended \/ lines # <<>>, Numbered, NEW r \in Record, r.id = signed,
           \A n \in DOMAIN lines : lines[n].id < signed,
           NEW how, Leave(r, how), UNCHANGED <<signed, acked>>
    PROVE  /\ Numbered'
           /\ Parses(lines)' => /\ Parses(lines)
                                /\ \A n \in DOMAIN lines : /\ n \in DOMAIN lines'
                                                           /\ lines'[n] = lines[n]
                                /\ how = "whole" => \E n \in DOMAIN lines' : lines'[n] = r
<1>0. /\ signed \in Int /\ signed >= 0 /\ GARBAGE.id = -1
    BY AuditAssumption DEF TypeOK, GARBAGE
<1>1. CASE lines' = lines /\ how = "nothing"
    BY <1>1 DEF Numbered, Parses
<1>2. CASE /\ Len(lines') = Len(lines) + 1
           /\ \A n \in 1..Len(lines) : lines'[n] = lines[n]
           /\ lines'[Len(lines')] = IF how = "cut" THEN GARBAGE ELSE r
  <2>1. /\ DOMAIN lines = 1..Len(lines) /\ DOMAIN lines' = 1..(Len(lines) + 1)
        /\ Len(lines) \in Nat
      BY <1>2, LeaveShape
  <2>2. Parses(lines)' => Parses(lines) /\ how # "cut"
      BY <1>2, <2>1 DEF Parses
  <2>3. lines'[Len(lines) + 1].id <= signed
      BY <1>0, <1>2
  <2>4. \A n \in DOMAIN lines' : lines'[n].id <= signed
      BY <1>2, <2>1, <2>3 DEF Numbered
  <2>5. ASSUME NEW m \in DOMAIN lines', NEW n \in DOMAIN lines', m < n,
               lines'[n] # GARBAGE
        PROVE  lines'[m].id < lines'[n].id
    <3>1. m \in DOMAIN lines /\ lines'[m] = lines[m]
        BY <1>2, <2>1, <2>5
    <3>2. CASE n \in DOMAIN lines
        BY <1>2, <2>1, <2>5, <3>1, <3>2 DEF Numbered
    <3>3. CASE n = Len(lines) + 1
        BY <1>2, <2>5, <3>1, <3>3
    <3> QED
        BY <2>1, <3>2, <3>3
  <2> QED
      BY <1>2, <2>1, <2>2, <2>4, <2>5 DEF Numbered
<1>3. CASE /\ Len(lines') = Len(lines) /\ Len(lines) # 0
           /\ \A n \in 1..(Len(lines) - 1) : lines'[n] = lines[n]
           /\ lines'[Len(lines')] = GARBAGE
  <2>1. /\ DOMAIN lines = 1..Len(lines) /\ DOMAIN lines' = 1..Len(lines)
        /\ Len(lines) \in Nat
      BY <1>3, LeaveShape
  <2>2. ~Parses(lines)'
      BY <1>3, <2>1 DEF Parses
  <2>3. \A n \in DOMAIN lines' : lines'[n].id <= signed
      BY <1>0, <1>3, <2>1 DEF Numbered
  <2>4. ASSUME NEW m \in DOMAIN lines', NEW n \in DOMAIN lines', m < n,
               lines'[n] # GARBAGE
        PROVE  lines'[m].id < lines'[n].id
    <3>1. n \in 1..(Len(lines) - 1) /\ m \in 1..(Len(lines) - 1)
        BY <1>3, <2>1, <2>4
    <3> QED
        BY <1>3, <2>1, <2>4, <3>1 DEF Numbered
  <2> QED
      BY <2>2, <2>3, <2>4 DEF Numbered
<1> QED
    BY <1>1, <1>2, <1>3, LeaveShape

\* A step that moves threads on without writing, or back to idle.
LEMMA QuietStep ==
    ASSUME LogInv, UNCHANGED <<lines, acked, signed>>,
           \A u \in Threads :
              \/ pc'[u] = "idle"
              \/ /\ pc[u] # "idle" /\ rec'[u] = rec[u]
                 /\ Unwritten(u)' => Unwritten(u)
                 /\ Written(u)' => Written(u)
    PROVE  Records'
<1>1. Numbered'
    BY DEF LogInv, Records, Numbered
<1>2. ASSUME NEW u \in Threads PROVE Latest(u)'
    BY <1>2 DEF LogInv, Records, Latest, Unwritten
<1>3. ASSUME NEW u \in Threads, Written(u)' PROVE Written(u) /\ rec'[u] = rec[u]
    BY <1>3 DEF Written
<1>4. Complete'
    BY <1>3 DEF LogInv, Records, Complete, Parses
<1> QED
    BY <1>1, <1>2, <1>4 DEF Records

\* A step that writes: the writer goes on if the record is whole, all else is idle.
LEMMA LeaveStep ==
    ASSUME NEW o, Instances = {o}, LogInv, NEW t \in Threads, pc[t] = "write",
           NEW how, Leave(rec[t], how), UNCHANGED <<signed, acked>>,
           \A u \in Threads :
              \/ pc'[u] = "idle"
              \/ u = t /\ how = "whole" /\ pc'[u] = "sync" /\ rec'[u] = rec[u]
    PROVE  Records'
<1>1. /\ TypeOK /\ (ended \/ lines # <<>>) /\ rec[t] \in Record /\ rec[t].id = signed
      /\ \A n \in DOMAIN lines : lines[n].id < signed
      /\ \A k \in DOMAIN acked : acked[k] < signed
      /\ Numbered /\ Complete
    BY DEF LogInv, ChainInv, Records, Latest, Unwritten, Busy
<1>2. /\ Numbered'
      /\ Parses(lines)' => /\ Parses(lines)
                           /\ \A n \in DOMAIN lines : /\ n \in DOMAIN lines'
                                                      /\ lines'[n] = lines[n]
                           /\ how = "whole" => \E n \in DOMAIN lines' : lines'[n] = rec[t]
    BY <1>1, LeaveNumbered
<1>3. ASSUME NEW u \in Threads PROVE Latest(u)'
    BY <1>1, <1>3 DEF Latest, Unwritten
<1>4. Complete'
  <2> SUFFICES ASSUME Parses(lines)'
               PROVE  /\ \A k \in DOMAIN acked : \E n \in DOMAIN lines' : lines'[n].id = acked[k]
                      /\ \A u \in Threads :
                            Written(u)' => \E n \in DOMAIN lines' : lines'[n].id = rec'[u].id
      BY DEF Complete
  <2>1. \A k \in DOMAIN acked : \E n \in DOMAIN lines' : lines'[n].id = acked[k]
      BY <1>1, <1>2 DEF Complete
  <2>2. ASSUME NEW u \in Threads, Written(u)'
        PROVE  \E n \in DOMAIN lines' : lines'[n].id = rec'[u].id
    <3>1. how = "whole" /\ rec'[u] = rec[t]
        BY <2>2 DEF Written
    <3> QED
        BY <1>2, <3>1
  <2> QED
      BY <2>1, <2>2
<1> QED
    BY <1>2, <1>3, <1>4 DEF Records

\* The next record gets the next number.
LEMMA EnterRecords ==
    ASSUME NEW o, Instances = {o}, LogInv, NEW t \in Threads, Enter(t)
    PROVE  Records'
<1>1. /\ TypeOK /\ \A u \in Threads : Busy(u) /\ InstanceOf[u] = o
      /\ lock[o] = NONE /\ pc' = [pc EXCEPT ![t] = "measure"] /\ signed' = signed + 1
      /\ UNCHANGED <<lines, acked>>
      /\ Numbered /\ Complete
    BY OneHolder DEF LogInv, ChainInv, Records, Enter, LockFree, Goto, fileVars
<1>2. /\ \A u \in Threads : pc[u] = "idle"
      /\ signed \in Nat /\ rec'[t].id = signed + 1
  <2>1. \A u \in Threads : pc[u] = "idle"
      BY <1>1, AuditAssumption DEF Busy
  <2>2. signed \in Nat
      BY <1>1, AuditAssumption DEF TypeOK
  <2>3. rec' = [rec EXCEPT ![t] = [id |-> signed + 1, prev |-> head[o], signer |-> o,
                                   key |-> key[o]]]
      BY <1>1 DEF Enter
  <2>4. rec'[t].id = signed + 1
      BY <1>1, <2>3 DEF TypeOK
  <2> QED
      BY <2>1, <2>2, <2>4
<1>3. /\ \A n \in DOMAIN lines : lines[n].id \in Int /\ lines[n].id < signed + 1
      /\ \A k \in DOMAIN acked : acked[k] \in Nat /\ acked[k] < signed + 1
  <2>1. ASSUME NEW n \in DOMAIN lines PROVE lines[n].id \in Int /\ lines[n].id < signed + 1
      BY <1>1, <1>2, LineType DEF Numbered
  <2>2. ASSUME NEW k \in DOMAIN acked PROVE acked[k] \in Nat /\ acked[k] < signed + 1
      BY <1>1, <1>2, AckedType DEF Numbered
  <2> QED
      BY <2>1, <2>2
<1>4. Numbered'
  <2>1. ASSUME NEW n \in DOMAIN lines PROVE lines[n].id <= signed + 1
      BY <1>2, <1>3
  <2>2. ASSUME NEW k \in DOMAIN acked PROVE acked[k] <= signed + 1
      BY <1>2, <1>3
  <2> QED
      BY <1>1, <2>1, <2>2 DEF Numbered
<1>5. \A u \in Threads : pc'[u] = "idle" \/ (u = t /\ pc'[u] = "measure")
    BY <1>1, <1>2 DEF TypeOK
<1>6. ASSUME NEW u \in Threads PROVE Latest(u)'
    BY <1>1, <1>2, <1>3, <1>5 DEF Latest
<1>7. Complete'
    BY <1>1, <1>5 DEF Complete, Parses, Written
<1> QED
    BY <1>4, <1>6, <1>7 DEF Records

\* The record whose event is acknowledged is the last one numbered, and in the file.
LEMMA UpdateRecords ==
    ASSUME NEW o, Instances = {o}, LogInv, NEW t \in Threads, Update(t)
    PROVE  Records'
<1> DEFINE id == rec[t].id
<1>1. /\ TypeOK /\ \A u \in Threads : Busy(u) /\ InstanceOf[u] = o
      /\ pc[t] = "update" /\ pc' = [pc EXCEPT ![t] = "idle"]
      /\ acked' = Append(acked, id) /\ UNCHANGED <<lines, signed>>
      /\ Numbered /\ Complete /\ Latest(t)
    BY OneHolder DEF LogInv, ChainInv, Records, Update, Return, Goto, fileVars
<1>2. /\ id = signed /\ (\A k \in DOMAIN acked : acked[k] < id)
      /\ id \in 1..MaxEvents /\ id \in Int
    BY <1>1, AuditAssumption DEF Latest, Busy, Record
<1>3. Parses(lines) => \E n \in DOMAIN lines : lines[n].id = id
    BY <1>1 DEF Complete, Written
<1>4. \A u \in Threads : pc'[u] = "idle"
    BY <1>1, OneHolder DEF LogInv, TypeOK
<1> HIDE DEF id
<1>5. /\ DOMAIN acked = 1..Len(acked) /\ Len(acked) \in Nat
      /\ DOMAIN acked' = 1..(Len(acked) + 1)
      /\ \A k \in 1..Len(acked) : acked'[k] = acked[k]
      /\ acked'[Len(acked) + 1] = id
    BY <1>1, <1>2, AppendProperties, LenProperties DEF TypeOK
<1>6. \A k \in DOMAIN acked' : k \in DOMAIN acked \/ k = Len(acked) + 1
    BY <1>5
<1>7. Numbered'
  <2>1. \A k \in DOMAIN acked' : acked'[k] <= signed
      BY <1>1, <1>2, <1>5, <1>6 DEF Numbered
  <2>2. ASSUME NEW j \in DOMAIN acked', NEW k \in DOMAIN acked', j < k
        PROVE  acked'[j] < acked'[k]
    <3>1. j \in DOMAIN acked /\ acked'[j] = acked[j]
        BY <1>5, <2>2
    <3>2. CASE k \in DOMAIN acked
        BY <1>1, <1>5, <2>2, <3>1, <3>2 DEF Numbered
    <3>3. CASE k = Len(acked) + 1
        BY <1>2, <1>5, <3>1, <3>3
    <3> QED
        BY <1>6, <3>2, <3>3
  <2> QED
      BY <1>1, <2>1, <2>2 DEF Numbered
<1>8. ASSUME NEW u \in Threads PROVE Latest(u)'
    BY <1>4 DEF Latest
<1>9. Complete'
  <2> SUFFICES ASSUME Parses(lines), NEW k \in DOMAIN acked'
               PROVE  \E n \in DOMAIN lines : lines[n].id = acked'[k]
      BY <1>1, <1>4 DEF Complete, Written, Parses
  <2> QED
      BY <1>1, <1>3, <1>5, <1>6 DEF Complete
<1> QED
    BY <1>7, <1>8, <1>9 DEF Records

\* What a write leaves passes over no acknowledged record either.
LEMMA LeaveHeads ==
    ASSUME LogInv, NEW t \in Threads, pc[t] = "write", NEW how, Leave(rec[t], how)
    PROVE  /\ \A n \in DOMAIN lines', k \in DOMAIN acked :
                 lines'[n] # GARBAGE => acked[k] <= lines'[n].prev \/ lines'[n].id <= acked[k]
           /\ \A k \in DOMAIN acked :
                 lines' # <<>> /\ (Last(lines') # GARBAGE => acked[k] <= Last(lines').id)
           /\ how = "whole" => lines' # <<>> /\ Last(lines') \in {rec[t], GARBAGE}
<1>1. /\ TypeOK /\ (ended \/ lines # <<>>) /\ rec[t] \in Record /\ rec[t].id = signed
      /\ \A k \in DOMAIN acked : acked[k] < signed /\ acked[k] <= rec[t].prev
      /\ \A k \in DOMAIN acked : acked[k] \in Nat
      /\ signed \in Nat
    BY AckedType, AuditAssumption
       DEF LogInv, ChainInv, Records, Latest, Unskipped, Unwritten, Busy, TypeOK
<1>2. /\ \A n \in DOMAIN lines, k \in DOMAIN acked :
            lines[n] # GARBAGE => acked[k] <= lines[n].prev \/ lines[n].id <= acked[k]
      /\ \A k \in DOMAIN acked :
            lines # <<>> /\ (Last(lines) # GARBAGE => acked[k] <= Last(lines).id)
    BY DEF LogInv, Unskipped, EndOfFile
<1>3. CASE lines' = lines /\ how = "nothing"
    BY <1>2, <1>3
<1>4. CASE /\ Len(lines') = Len(lines) + 1
           /\ \A n \in 1..Len(lines) : lines'[n] = lines[n]
           /\ lines'[Len(lines')] = IF how = "cut" THEN GARBAGE ELSE rec[t]
  <2>1. /\ DOMAIN lines = 1..Len(lines) /\ DOMAIN lines' = 1..(Len(lines) + 1)
        /\ Len(lines) \in Nat
      BY <1>1, <1>4, LeaveShape
  <2>2. lines' # <<>> /\ Last(lines') \in {rec[t], GARBAGE}
      BY <1>4, <2>1 DEF Last
  <2>3. ASSUME NEW n \in DOMAIN lines', NEW k \in DOMAIN acked, lines'[n] # GARBAGE
        PROVE  acked[k] <= lines'[n].prev \/ lines'[n].id <= acked[k]
    <3>1. CASE n \in DOMAIN lines
        BY <1>2, <1>4, <2>1, <2>3, <3>1
    <3>2. CASE n = Len(lines')
        BY <1>1, <1>4, <2>3, <3>2
    <3> QED
        BY <1>4, <2>1, <2>3, <3>1, <3>2
  <2> QED
      BY <1>1, <2>2, <2>3
<1>5. CASE /\ Len(lines') = Len(lines) /\ Len(lines) # 0
           /\ \A n \in 1..(Len(lines) - 1) : lines'[n] = lines[n]
           /\ lines'[Len(lines')] = GARBAGE
  <2>1. /\ DOMAIN lines = 1..Len(lines) /\ DOMAIN lines' = 1..Len(lines)
        /\ Len(lines) \in Nat
      BY <1>1, <1>5, LeaveShape
  <2>2. lines' # <<>> /\ Last(lines') = GARBAGE
      BY <1>5, <2>1 DEF Last
  <2>3. ASSUME NEW n \in DOMAIN lines', NEW k \in DOMAIN acked, lines'[n] # GARBAGE
        PROVE  acked[k] <= lines'[n].prev \/ lines'[n].id <= acked[k]
    <3>1. n \in 1..(Len(lines) - 1) /\ n \in DOMAIN lines
        BY <1>5, <2>1, <2>3
    <3> QED
        BY <1>2, <1>5, <2>3, <3>1
  <2> QED
      BY <2>2, <2>3
<1> QED
    BY <1>1, <1>3, <1>4, <1>5, LeaveShape

\* Every chain head stays at or after the last acknowledged record.
LEMMA HeadsStep ==
    ASSUME NEW o, Instances = {o}, LogInv, [Next]_vars
    PROVE  Unskipped' /\ EndOfFile'
<1>0. /\ TypeOK /\ \A u \in Threads : Busy(u) /\ InstanceOf[u] = o
      /\ ChainInv /\ Unskipped /\ EndOfFile /\ o \in Instances
      /\ \A i \in Instances : ~up[i] => lock[i] = NONE
    BY OneHolder DEF LogInv, ChainInv
<1>1. ASSUME UNCHANGED <<lines, acked, up, head>>,
             \A u \in Threads :
                \/ pc'[u] = "idle"
                \/ pc[u] # "idle" /\ rec'[u] = rec[u] /\ (Written(u)' => Written(u))
      PROVE  Unskipped' /\ EndOfFile'
  <2>1. Unskipped'
      BY <1>0, <1>1 DEF Unskipped
  <2>2. ASSUME NEW u \in Threads, Written(u)'
        PROVE  lines # <<>> /\ Last(lines) \in {rec'[u], GARBAGE}
    <3>1. Written(u) /\ rec'[u] = rec[u]
        BY <1>1, <2>2 DEF Written
    <3> QED
        BY <1>0, <3>1 DEF EndOfFile
  <2> QED
      BY <1>0, <1>1, <2>1, <2>2 DEF EndOfFile
<1>2. ASSUME NEW t \in Threads, NEW how, pc[t] = "write", Leave(rec[t], how),
             acked' = acked, \A i \in Instances : up'[i] => up[i] /\ head'[i] = head[i],
             \A u \in Threads :
                \/ pc'[u] = "idle"
                \/ u = t /\ how = "whole" /\ rec'[u] = rec[u]
      PROVE  Unskipped' /\ EndOfFile'
  <2>1. Unskipped'
      BY <1>0, <1>2, LeaveHeads DEF Unskipped
  <2>2. ASSUME NEW u \in Threads, Written(u)'
        PROVE  lines' # <<>> /\ Last(lines') \in {rec'[u], GARBAGE}
    <3>1. u = t /\ how = "whole" /\ rec'[u] = rec[t]
        BY <1>2, <2>2 DEF Written
    <3> QED
        BY <1>2, <3>1, LeaveHeads
  <2> QED
      BY <1>2, <2>1, <2>2, LeaveHeads DEF EndOfFile
<1>3. CASE UNCHANGED vars
  <2>1. UNCHANGED <<lines, acked, up, head, pc, rec>>
      BY <1>3 DEF vars, fileVars, history
  <2> QED
      BY <1>1, <2>1 DEF Written
<1>4. ASSUME NEW t \in Threads, Enter(t) PROVE Unskipped' /\ EndOfFile'
  <2>1. /\ UNCHANGED <<lines, acked, up, head>> /\ up[o] /\ lock[o] = NONE
        /\ pc' = [pc EXCEPT ![t] = "measure"] /\ rec'[t].prev = head[o]
    <3>1. rec' = [rec EXCEPT ![t] = [id |-> signed', prev |-> head[o], signer |-> o,
                                     key |-> key[o]]]
        BY <1>0, <1>4 DEF Enter
    <3> QED
        BY <1>0, <1>4, <3>1 DEF Enter, LockFree, Goto, fileVars, TypeOK
  <2>2. \A u \in Threads : pc[u] = "idle"
      BY <1>0, <2>1, AuditAssumption DEF Busy
  <2>3. \A u \in Threads : pc'[u] = "idle" \/ (u = t /\ pc'[u] = "measure")
      BY <1>0, <2>1, <2>2 DEF TypeOK
  <2>4. Unskipped'
      BY <1>0, <2>1, <2>3 DEF Unskipped
  <2> QED
      BY <1>0, <2>1, <2>3, <2>4 DEF EndOfFile, Written
<1>5. ASSUME NEW t \in Threads, Measure(t) \/ Sync(t) PROVE Unskipped' /\ EndOfFile'
  <2>1. /\ UNCHANGED <<lines, acked, up, head>> /\ pc[t] \in {"measure", "sync"}
        /\ \/ pc[t] = "measure" /\ pc' = [pc EXCEPT ![t] = "write"] /\ UNCHANGED rec
           \/ pc[t] = "sync" /\ pc' = [pc EXCEPT ![t] = "update"] /\ UNCHANGED rec
           \/ pc' = [pc EXCEPT ![t] = "idle"]
      BY <1>5 DEF Measure, Sync, Goto, Return, fileVars, history
  <2>2. \A u \in Threads : u # t => pc[u] = "idle"
      BY <1>0, <2>1, OneHolder
  <2>3. ASSUME NEW u \in Threads
        PROVE  \/ pc'[u] = "idle"
               \/ pc[u] # "idle" /\ rec'[u] = rec[u] /\ (Written(u)' => Written(u))
      BY <1>0, <2>1, <2>2 DEF TypeOK, Written
  <2> QED
      BY <1>1, <2>1, <2>3
<1>6. ASSUME NEW t \in Threads, Write(t) PROVE Unskipped' /\ EndOfFile'
  <2>1. /\ pc[t] = "write" /\ Leave(rec[t], "whole") /\ UNCHANGED <<rec, acked, up, head>>
        /\ pc' = [pc EXCEPT ![t] = "sync"]
      BY <1>6 DEF Write, Goto, history
  <2>2. \A u \in Threads : u = t \/ pc'[u] = "idle"
      BY <1>0, <2>1, OneHolder DEF TypeOK
  <2> QED
      BY <1>2, <2>1, <2>2
<1>7. ASSUME NEW t \in Threads, WriteFails(t) PROVE Unskipped' /\ EndOfFile'
  <2>1. /\ pc[t] = "write" /\ UNCHANGED <<acked, up, head>>
        /\ pc' = [pc EXCEPT ![t] = "idle"]
      BY <1>7 DEF WriteFails, Goto, Return
  <2>2. PICK how : Leave(rec[t], how)
      BY <1>7 DEF WriteFails
  <2>3. \A u \in Threads : pc'[u] = "idle"
      BY <1>0, <2>1, OneHolder DEF TypeOK
  <2> QED
      BY <1>2, <2>1, <2>2, <2>3
<1>8. ASSUME NEW t \in Threads, Update(t) PROVE Unskipped' /\ EndOfFile'
  <2> DEFINE id == rec[t].id
  <2>1. /\ pc[t] = "update" /\ pc' = [pc EXCEPT ![t] = "idle"]
        /\ head' = [head EXCEPT ![o] = id] /\ acked' = Append(acked, id)
        /\ UNCHANGED <<lines, up>>
      BY <1>0, <1>8 DEF Update, Return, Goto, fileVars
  <2>2. /\ id = signed /\ \A k \in DOMAIN acked : acked[k] < id /\ acked[k] \in Nat
        /\ id \in 1..MaxEvents /\ id \in Nat
        /\ \A n \in DOMAIN lines : lines[n].id <= id
      BY <1>0, <2>1, AckedType, AuditAssumption
         DEF LogInv, Records, Numbered, Latest, Busy, Record
  <2>3. lines # <<>> /\ Last(lines) \in {rec[t], GARBAGE}
      BY <1>0, <2>1 DEF EndOfFile, Written
  <2>4. \A u \in Threads : pc'[u] = "idle"
      BY <1>0, <2>1, OneHolder DEF TypeOK
  <2>5. head'[o] = id /\ (Last(lines) # GARBAGE => Last(lines).id = id)
      BY <1>0, <2>1, <2>3 DEF TypeOK
  <2> HIDE DEF id
  <2>6. \A k \in DOMAIN acked' :
            acked'[k] = id \/ (k \in DOMAIN acked /\ acked'[k] = acked[k])
    <3>1. /\ DOMAIN acked = 1..Len(acked) /\ Len(acked) \in Nat
          /\ DOMAIN acked' = 1..(Len(acked) + 1)
          /\ \A k \in 1..Len(acked) : acked'[k] = acked[k]
          /\ acked'[Len(acked) + 1] = id
        BY <1>0, <2>1, <2>2, AppendProperties, LenProperties DEF TypeOK
    <3> QED
        BY <3>1
  <2>7. \A k \in DOMAIN acked' : acked'[k] <= id
      BY <2>2, <2>6
  <2>8. Unskipped'
      BY <1>0, <2>1, <2>2, <2>4, <2>5, <2>6, <2>7 DEF Unskipped
  <2>9. EndOfFile'
      BY <2>1, <2>3, <2>4, <2>5, <2>7 DEF EndOfFile, Written
  <2> QED
      BY <2>8, <2>9
<1>9. ASSUME Crash(o) PROVE Unskipped' /\ EndOfFile'
  <2>1. /\ UNCHANGED <<acked, head>> /\ ~up'[o] /\ \A u \in Threads : pc'[u] = "idle"
      BY <1>0, <1>9 DEF Crash, Users, TypeOK
  <2>2. CASE UNCHANGED fileVars
    <3>1. lines' = lines
        BY <2>2 DEF fileVars
    <3> QED
        BY <1>0, <2>1, <3>1 DEF Unskipped, EndOfFile, Written
  <2>3. CASE \E t \in Users(o), how \in {"cut", "unterminated", "whole"} :
                pc[t] = "write" /\ Leave(rec[t], how)
      BY <1>2, <2>1, <2>3 DEF Users
  <2> QED
      BY <1>9, <2>2, <2>3 DEF Crash
<1>10. ASSUME Open(o) PROVE Unskipped' /\ EndOfFile'
  <2>1. /\ UNCHANGED <<lines, pc, rec, acked>> /\ ~up[o]
        /\ lines # <<>> => Last(lines) # GARBAGE
        /\ head'[o] = LoadChainHead
      BY <1>0, <1>10 DEF Open, fileVars, history, TypeOK
  <2>2. \A k \in DOMAIN acked : acked[k] <= head'[o]
      BY <1>0, <2>1 DEF EndOfFile, LoadChainHead
  <2>3. \A u \in Threads : pc'[u] = "idle"
      BY <1>0, <2>1, AuditAssumption DEF Busy
  <2> QED
      BY <1>0, <2>1, <2>2, <2>3 DEF Unskipped, EndOfFile, Written
<1> QED
    BY <1>3, <1>4, <1>5, <1>6, <1>7, <1>8, <1>9, <1>10 DEF Next

\* What the two properties of a file that verifies rest on.
THEOREM LogInvHolds == ASSUME NEW o, Instances = {o} PROVE Spec => []LogInv
<1>1. Init => Records /\ Unskipped /\ EndOfFile
  <2> SUFFICES ASSUME Init PROVE Records /\ Unskipped /\ EndOfFile
      OBVIOUS
  <2>1. DOMAIN lines = {} /\ DOMAIN acked = {} /\ \A t \in Threads : pc[t] = "idle"
    <3>1. lines = <<>> /\ acked = <<>> /\ \A t \in Threads : pc[t] = "idle"
        BY DEF Init
    <3> QED
        BY <3>1
  <2> QED
      BY <2>1 DEF Records, Numbered, Latest, Complete, Written, Unskipped, EndOfFile
<1>2. LogInv /\ ChainInv' /\ [Next]_vars => Records'
  <2> SUFFICES ASSUME LogInv, [Next]_vars PROVE Records'
      OBVIOUS
  <2>0. /\ TypeOK /\ \A u \in Threads : Busy(u) /\ InstanceOf[u] = o
        /\ \A i \in Instances : ~up[i] => lock[i] = NONE
      BY OneHolder DEF LogInv, ChainInv
  <2>1. CASE UNCHANGED vars
      BY <2>1, QuietStep DEF vars, fileVars, history, Unwritten, Written
  <2>2. ASSUME NEW t \in Threads, Measure(t) PROVE Records'
    <3>1. /\ UNCHANGED <<lines, acked, signed>> /\ pc[t] = "measure"
          /\ \/ pc' = [pc EXCEPT ![t] = "write"] /\ UNCHANGED rec
             \/ /\ pc' = [pc EXCEPT ![t] = "idle"]
        BY <2>2 DEF Measure, Goto, Return, fileVars, history
    <3>2. \A u \in Threads : u # t => pc[u] = "idle"
        BY <3>1, OneHolder DEF LogInv
    <3> QED
        BY <2>0, <3>1, <3>2, QuietStep DEF TypeOK, Unwritten, Written
  <2>3. ASSUME NEW t \in Threads, Write(t) PROVE Records'
    <3>1. /\ pc[t] = "write" /\ Leave(rec[t], "whole") /\ UNCHANGED <<rec, acked, signed>>
          /\ pc' = [pc EXCEPT ![t] = "sync"]
        BY <2>3 DEF Write, Goto, history
    <3>2. \A u \in Threads : u # t => pc[u] = "idle"
        BY <3>1, OneHolder DEF LogInv
    <3> QED
        BY <2>0, <3>1, <3>2, LeaveStep DEF TypeOK
  <2>4. ASSUME NEW t \in Threads, WriteFails(t) PROVE Records'
    <3>1. /\ pc[t] = "write" /\ UNCHANGED <<acked, signed>>
          /\ pc' = [pc EXCEPT ![t] = "idle"]
        BY <2>4 DEF WriteFails, Goto, Return
    <3>2. PICK how : Leave(rec[t], how)
        BY <2>4 DEF WriteFails
    <3>3. \A u \in Threads : pc'[u] = "idle"
        BY <2>0, <3>1, OneHolder DEF LogInv, TypeOK
    <3> QED
        BY <3>1, <3>2, <3>3, LeaveStep
  <2>5. ASSUME NEW t \in Threads, Sync(t) PROVE Records'
    <3>1. /\ UNCHANGED <<lines, acked, signed>> /\ pc[t] = "sync"
          /\ \/ pc' = [pc EXCEPT ![t] = "update"] /\ UNCHANGED rec
             \/ /\ pc' = [pc EXCEPT ![t] = "idle"]
        BY <2>5 DEF Sync, Goto, Return, fileVars
    <3>2. \A u \in Threads : u # t => pc[u] = "idle"
        BY <3>1, OneHolder DEF LogInv
    <3> QED
        BY <2>0, <3>1, <3>2, QuietStep DEF TypeOK, Unwritten, Written
  <2>6. ASSUME Crash(o) PROVE Records'
    <3>1. UNCHANGED <<signed, acked>> /\ \A u \in Threads : pc'[u] = "idle"
        BY <2>0, <2>6 DEF Crash, Users
    <3>2. CASE UNCHANGED fileVars
        BY <3>1, <3>2, QuietStep DEF fileVars
    <3>3. CASE \E t \in Users(o), how \in {"cut", "unterminated", "whole"} :
                  pc[t] = "write" /\ Leave(rec[t], how)
        BY <3>1, <3>3, LeaveStep DEF Users
    <3> QED
        BY <2>6, <3>2, <3>3 DEF Crash
  <2>7. ASSUME Open(o) PROVE Records'
    <3>1. UNCHANGED <<lines, pc, rec, signed, acked>> /\ ~up[o]
        BY <2>7 DEF Open, fileVars, history
    <3>2. \A u \in Threads : pc'[u] = "idle"
        BY <2>0, <3>1, AuditAssumption DEF Busy
    <3> QED
        BY <3>1, <3>2, QuietStep
  <2> QED
      BY <2>1, <2>2, <2>3, <2>4, <2>5, <2>6, <2>7, EnterRecords, UpdateRecords DEF Next
<1>3. LogInv /\ [Next]_vars => Unskipped' /\ EndOfFile'
    BY HeadsStep
<1> QED
    BY <1>1, <1>2, <1>3, ChainInvHolds, PTL DEF Spec, LogInv

\* A file that verifies holds every event whose log_event returned, once, in the
\* order in which they returned, whatever faults there were.
THEOREM VerifiedIsCompleteHolds ==
    ASSUME NEW o, Instances = {o} PROVE Spec => []VerifiedIsComplete
<1>1. LogInv => VerifiedIsComplete
  <2> SUFFICES ASSUME LogInv, Parses(lines)
               PROVE  /\ \A k \in DOMAIN acked : \E n \in DOMAIN lines : lines[n].id = acked[k]
                      /\ \A m, n \in DOMAIN lines, j, k \in DOMAIN acked :
                            lines[m].id = acked[j] /\ lines[n].id = acked[k]
                               => (m < n <=> j < k)
      BY DEF VerifiedIsComplete, VerifyChain
  <2>1. TypeOK /\ Numbered /\ Complete
      BY DEF LogInv, ChainInv, Records
  <2>2. /\ DOMAIN lines \subseteq Nat /\ DOMAIN acked \subseteq Nat
        /\ \A n \in DOMAIN lines : lines[n].id \in Int
      BY <2>1, LineType, AckedType
  <2>3. \A m, n \in DOMAIN lines : m < n => lines[m].id < lines[n].id
      BY <2>1 DEF Numbered, Parses
  <2>4. \A j, k \in DOMAIN acked : j < k => acked[j] < acked[k]
      BY <2>1 DEF Numbered
  <2>5. ASSUME NEW m \in DOMAIN lines, NEW n \in DOMAIN lines,
               NEW j \in DOMAIN acked, NEW k \in DOMAIN acked,
               lines[m].id = acked[j], lines[n].id = acked[k]
        PROVE  m < n <=> j < k
    <3>1. m \in Nat /\ n \in Nat /\ j \in Nat /\ k \in Nat
        BY <2>2
    <3>2. lines[m].id \in Int /\ lines[n].id \in Int
        BY <2>2
    <3>3. m < n <=> lines[m].id < lines[n].id
        BY <2>3, <3>1, <3>2
    <3>4. j < k <=> acked[j] < acked[k]
        BY <2>4, <2>5, <3>1, <3>2
    <3> QED
        BY <2>5, <3>3, <3>4
  <2> QED
      BY <2>1, <2>5 DEF Complete
<1> QED
    BY <1>1, LogInvHolds, PTL

-----------------------------------------------------------------------------
(* Rearrangements. *)

\* A set of numbers that is not empty has a least one.
LEMMA LeastNumber ==
    ASSUME NEW S, S \subseteq Nat, S # {}
    PROVE  \E n \in S : \A m \in S : n <= m
<1> DEFINE R == OpToRel(<, Nat)
<1>1. IsWellFoundedOn(R, Nat)
    BY NatLessThanWellFounded
<1>2. \A m, n \in Nat : m < n => <<m, n>> \in R
    BY DEF OpToRel
<1> HIDE DEF R
<1>3. PICK n \in S : \A m \in S : ~(<<m, n>> \in R)
    BY <1>1, WFMin
<1>4. ASSUME NEW m \in S PROVE n <= m
  <2>1. ~(m < n)
      BY <1>2, <1>3
  <2> QED
      BY <2>1
<1> QED
    BY <1>4

\* If every line of a file is a line of another, both are chained, and the other
\* numbers its lines upwards from one, then the file is the beginning of the other.
LEMMA RearrangedIsPrefix ==
    ASSUME NEW S, NEW file \in Seq(S), NEW edited \in Seq(S),
           \A n \in DOMAIN edited : \E k \in DOMAIN file : edited[n] = file[k],
           Chained(file), Chained(edited),
           \A n \in DOMAIN file : file[n].id \in Int /\ 1 <= file[n].id,
           \A m, n \in DOMAIN file : m < n => file[m].id < file[n].id
    PROVE  IsPrefix(edited, file)
<1>1. /\ Len(file) \in Nat /\ Len(edited) \in Nat
      /\ DOMAIN file = 1..Len(file) /\ DOMAIN edited = 1..Len(edited)
    BY LenProperties
<1> DEFINE Wrong == {n \in 1..Len(edited) : Len(file) < n \/ edited[n] # file[n]}
<1>2. Wrong = {}
  <2> SUFFICES ASSUME Wrong # {} PROVE FALSE
      OBVIOUS
  <2>1. PICK n \in Wrong : \A m \in Wrong : n <= m
    <3>1. Wrong \subseteq Nat
        BY <1>1
    <3> HIDE DEF Wrong
    <3> QED
        BY <3>1, LeastNumber
  <2>2. n \in 1..Len(edited) /\ (n \in 1..Len(file) => edited[n] # file[n])
      BY <1>1
  <2>3. PICK k \in 1..Len(file) : edited[n] = file[k]
      BY <1>1, <2>2
  <2>4. /\ edited[n].prev = IF n = 1 THEN GENESIS ELSE edited[n - 1].id
        /\ file[k].prev = IF k = 1 THEN GENESIS ELSE file[k - 1].id
      BY <1>1, <2>2 DEF Chained
  <2>5. \A m \in 1..Len(file) : file[m].id \in Int /\ file[m].id # GENESIS
    <3> SUFFICES ASSUME NEW m \in 1..Len(file)
                 PROVE  file[m].id \in Int /\ file[m].id # GENESIS
        OBVIOUS
    <3> DEFINE id == file[m].id
    <3>1. id \in Int /\ 1 <= id
        BY <1>1
    <3> HIDE DEF id
    <3>2. id # 0
        BY <3>1
    <3> QED
        BY <3>1, <3>2 DEF id, GENESIS
  <2>6. CASE n = 1
    <3>1. k = 1
      <4>1. k # 1 => k - 1 \in 1..Len(file)
          BY <1>1
      <4> QED
          BY <2>3, <2>4, <2>5, <2>6, <4>1
    <3> QED
        BY <2>2, <2>3, <2>6, <3>1
  <2>7. CASE n # 1
    <3>1. n - 1 \in 1..Len(edited) /\ n - 1 < n
        BY <1>1, <2>2, <2>7
    <3>2. n - 1 \notin Wrong
      <4>1. ~(n <= n - 1)
          BY <3>1
      <4> QED
          BY <2>1, <4>1
    <3>3. n - 1 \in 1..Len(file) /\ edited[n - 1] = file[n - 1]
        BY <1>1, <3>1, <3>2
    <3>4. k # 1
        BY <2>3, <2>4, <2>5, <2>7, <3>1, <3>3
    <3>5. k - 1 \in 1..Len(file) /\ file[k - 1].id = file[n - 1].id
        BY <1>1, <2>3, <2>4, <2>7, <3>3, <3>4
    <3>6. ~(k - 1 < n - 1) /\ ~(n - 1 < k - 1)
        BY <1>1, <2>5, <3>3, <3>5
    <3>7. k = n
        BY <1>1, <2>2, <3>6
    <3> QED
        BY <2>2, <2>3, <3>7
  <2> QED
      BY <2>6, <2>7
<1>3. \A n \in 1..Len(edited) : n <= Len(file) /\ edited[n] = file[n]
    BY <1>1, <1>2
<1>5. Len(edited) <= Len(file)
  <2>1. CASE Len(edited) = 0
      BY <1>1, <2>1
  <2>2. CASE Len(edited) # 0
      BY <1>1, <1>3, <2>2
  <2> QED
      BY <2>1, <2>2
<1>4. SubSeq(edited, 1, Len(edited)) = SubSeq(file, 1, Len(edited))
  <2> DEFINE a == SubSeq(edited, 1, Len(edited))
             b == SubSeq(file, 1, Len(edited))
             L == Len(edited)
  <2>0. L \in Nat /\ \A n \in 1..L : edited[n] \in S /\ file[n] \in S
      BY <1>1, <1>3, <1>5, ElementOfSeq
  <2> HIDE DEF L
  <2>1. /\ SubSeq(edited, 1, L) \in Seq(S)
        /\ Len(SubSeq(edited, 1, L)) = IF 1 <= L THEN L - 1 + 1 ELSE 0
        /\ \A n \in 1..(L - 1 + 1) : SubSeq(edited, 1, L)[n] = edited[1 + n - 1]
      BY <2>0, SubSeqProperties
  <2>2. /\ SubSeq(file, 1, L) \in Seq(S)
        /\ Len(SubSeq(file, 1, L)) = IF 1 <= L THEN L - 1 + 1 ELSE 0
        /\ \A n \in 1..(L - 1 + 1) : SubSeq(file, 1, L)[n] = file[1 + n - 1]
      BY <2>0, SubSeqProperties
  <2>3. SubSeq(edited, 1, L) = a /\ SubSeq(file, 1, L) = b
      BY DEF L
  <2>4. \A n \in 1..L : edited[n] = file[n]
      BY <1>3 DEF L
  <2> HIDE DEF a, b
  <2>5. a \in Seq(S) /\ b \in Seq(S) /\ Len(a) = L /\ Len(b) = L
      BY <2>0, <2>1, <2>2, <2>3
  <2>6. ASSUME NEW n \in 1..L PROVE a[n] = b[n]
    <3>1. n \in 1..(L - 1 + 1) /\ 1 + n - 1 = n
        BY <2>0
    <3> QED
        BY <2>1, <2>2, <2>3, <2>4, <3>1
  <2>7. a = b
      BY <2>5, <2>6, SeqEqual
  <2> QED
      BY <2>7 DEF a, b
<1> QED
    BY <1>4, <1>5 DEF IsPrefix

\* Whatever is made of the records of a file, at any length: if it verifies, it
\* holds every acknowledged event up to the last one it holds, and it is a prefix of
\* the file if that is one chain.  After a failed fsync the file may be none, and
\* records that were not acknowledged can then be taken out of its middle.
THEOREM TamperEvidentHolds ==
    ASSUME NEW o, Instances = {o}
    PROVE  Spec => [](TamperEvident /\ \A edited \in Seq(ToSet(lines)) : CutsOnlyTheEnd(edited))
<1>1. ASSUME LogInv, NEW edited \in Seq(ToSet(lines)) PROVE CutsOnlyTheEnd(edited)
  <2> SUFFICES ASSUME Parses(edited), Chained(edited)
               PROVE  /\ HoldsAcknowledged(edited)
                      /\ Parses(lines) /\ Chained(lines) => IsPrefix(edited, lines)
      BY DEF CutsOnlyTheEnd, VerifyChain
  <2>1. TypeOK /\ Numbered /\ Unskipped
      BY <1>1 DEF LogInv, ChainInv, Records
  <2>2. /\ DOMAIN edited = 1..Len(edited) /\ Len(edited) \in Nat
        /\ \A n \in 1..Len(edited) : \E k \in DOMAIN lines : edited[n] = lines[k]
    <3>1. DOMAIN edited = 1..Len(edited) /\ Len(edited) \in Nat
          /\ \A n \in 1..Len(edited) : edited[n] \in ToSet(lines)
        BY LenProperties, ElementOfSeq
    <3> QED
        BY <3>1 DEF ToSet
  <2>3. \A n \in 1..Len(edited) :
           /\ edited[n].id \in Int /\ 1 <= edited[n].id
           /\ \A k \in DOMAIN acked :
                 acked[k] <= edited[n].prev \/ edited[n].id <= acked[k]
    <3>1. \A n \in DOMAIN lines : lines[n] # GARBAGE =>
             /\ lines[n].id \in Int /\ 1 <= lines[n].id
             /\ \A k \in DOMAIN acked : acked[k] <= lines[n].prev \/ lines[n].id <= acked[k]
        BY <2>1, LineType DEF Unskipped
    <3> QED
        BY <2>2, <3>1 DEF Parses
  <2>4. \A n \in 1..Len(edited) :
           edited[n].prev = IF n = 1 THEN GENESIS ELSE edited[n - 1].id
      BY <2>2 DEF Chained
  <2>5. ASSUME NEW k \in DOMAIN acked, NEW m \in DOMAIN edited, acked[k] <= edited[m].id
        PROVE  \E n \in 1..m : edited[n].id = acked[k]
    <3> DEFINE a == acked[k]
               Above == {n \in 1..m : a <= edited[n].id}
    <3>1. a \in Int /\ 1 <= a
      <4>1. acked \in Seq(1..MaxEvents) /\ k \in 1..Len(acked)
          BY <2>1, AckedType DEF TypeOK
      <4>2. acked[k] \in 1..MaxEvents
          BY <4>1, ElementOfSeq
      <4> QED
          BY <4>2, AuditAssumption
    <3>2. m \in 1..Len(edited) /\ 1..m \subseteq 1..Len(edited) /\ m \in Above
        BY <2>2, <2>5
    <3>3. PICK n \in Above : \A j \in Above : n <= j
      <4>1. Above \subseteq Nat
          BY <2>2
      <4> HIDE DEF Above
      <4> QED
          BY <3>2, <4>1, LeastNumber
    <3>4. n \in 1..m /\ a <= edited[n].id /\ n \in 1..Len(edited)
        BY <3>2
    <3>5. edited[n].id <= a
      <4> SUFFICES ASSUME a <= edited[n].prev PROVE FALSE
          BY <2>3, <3>4
      <4>1. CASE n = 1
          BY <2>4, <3>1, <3>4, <4>1 DEF GENESIS
      <4>2. CASE n # 1
        <5>1. n - 1 \in 1..m /\ ~(n <= n - 1)
            BY <2>2, <3>4, <4>2
        <5>2. a <= edited[n - 1].id
            BY <2>4, <3>4, <4>2
        <5> QED
            BY <3>3, <5>1, <5>2
      <4> QED
          BY <4>1, <4>2
    <3>6. edited[n].id \in Int
        BY <2>3, <3>4
    <3>7. edited[n].id = a
        BY <3>1, <3>4, <3>5, <3>6
    <3> QED
        BY <3>4, <3>7
  <2>6. ASSUME Parses(lines), Chained(lines) PROVE IsPrefix(edited, lines)
    <3> DEFINE S == Record \cup {GARBAGE}
    <3>1. lines \in Seq(S) /\ edited \in Seq(S)
      <4>1. \A n \in 1..Len(edited) : edited[n] \in S
          BY <2>1, <2>2, LineType
      <4>2. lines \in Seq(S)
          BY <2>1 DEF TypeOK
      <4> HIDE DEF S
      <4>3. edited \in [1..Len(edited) -> S]
          BY <2>2, <4>1, LenProperties
      <4> QED
          BY <2>2, <4>2, <4>3, IsASeq
    <3>2. /\ \A n \in DOMAIN lines : lines[n].id \in Int /\ 1 <= lines[n].id
          /\ \A m, n \in DOMAIN lines : m < n => lines[m].id < lines[n].id
        BY <2>1, <2>6, LineType DEF Parses, Numbered
    <3> HIDE DEF S
    <3> QED
        BY <2>2, <2>6, <3>1, <3>2, RearrangedIsPrefix
  <2> QED
      BY <2>5, <2>6 DEF HoldsAcknowledged
<1>2. LogInv => \A edited \in Seq(ToSet(lines)) : CutsOnlyTheEnd(edited)
    BY <1>1
<1>3. LogInv => TamperEvident
  <2> SUFFICES ASSUME LogInv, NEW edited \in SeqOf(ToSet(lines), Len(lines) + 1)
               PROVE  CutsOnlyTheEnd(edited)
      BY DEF TamperEvident
  <2> DEFINE S == ToSet(lines)
  <2>1. Len(lines) \in Nat
      BY LineType DEF LogInv, ChainInv
  <2>2. PICK m \in 0..(Len(lines) + 1) : edited \in [1..m -> S]
      BY DEF SeqOf
  <2> HIDE DEF S
  <2>3. edited \in Seq(S)
      BY <2>1, <2>2, IsASeq
  <2> QED
      BY <1>1, <2>3 DEF S
<1> QED
    BY <1>2, <1>3, LogInvHolds, PTL
=============================================================================
