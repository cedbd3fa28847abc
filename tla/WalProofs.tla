------------------------------ MODULE WalProofs ------------------------------
(***************************************************************************)
(* Theorems about the write-ahead log for every number of events and every *)
(* set of callers, with and without fsync and power loss.                  *)
(***************************************************************************)
EXTENDS Wal, TLAPS

-----------------------------------------------------------------------------
(***************************************************************************)
(* Lines of the sequences the log is built from.                           *)
(***************************************************************************)

\* Appending one line adds that line and keeps the others where they were.
LEMMA LinesAppend ==
  ASSUME NEW S, NEW s \in Seq(S), NEW e \in S
  PROVE  /\ Append(s, e) \in Seq(S)
         /\ Len(Append(s, e)) = Len(s) + 1
         /\ \A i \in 1..Len(s) : Append(s, e)[i] = s[i]
         /\ Append(s, e)[Len(s) + 1] = e
         /\ Lines(Append(s, e)) = Lines(s) \cup {e}
<1>1. /\ Append(s, e) \in Seq(S)
      /\ Len(Append(s, e)) = Len(s) + 1
      /\ \A i \in 1..Len(s) : Append(s, e)[i] = s[i]
      /\ Append(s, e)[Len(s) + 1] = e
  OBVIOUS
<1>2. /\ DOMAIN s = 1..Len(s) /\ Len(s) \in Nat
      /\ DOMAIN Append(s, e) = 1..Len(s) + 1
  BY <1>1
<1>3. 1..Len(s) + 1 = 1..Len(s) \cup {Len(s) + 1}
  BY <1>2
<1>4. \A x : x \in Lines(Append(s, e)) <=> x \in Lines(s) \/ x = e
  BY <1>1, <1>2, <1>3, Zenon DEF Lines
<1> QED BY <1>1, <1>4

\* Taking the head off a queue leaves the rest, shifted by one.
LEMMA LinesTail ==
  ASSUME NEW S, NEW s \in Seq(S), s # << >>
  PROVE  /\ Len(s) \in Nat \ {0}
         /\ Head(s) = s[1] /\ Head(s) \in S
         /\ Tail(s) \in Seq(S)
         /\ Len(Tail(s)) = Len(s) - 1
         /\ \A i \in 1..Len(s) - 1 : Tail(s)[i] = s[i + 1]
         /\ Lines(s) = Lines(Tail(s)) \cup {Head(s)}
<1>1. /\ Len(s) \in Nat \ {0} /\ DOMAIN s = 1..Len(s)
      /\ Head(s) = s[1] /\ Head(s) \in S
      /\ Tail(s) \in Seq(S) /\ Len(Tail(s)) = Len(s) - 1
      /\ \A i \in 1..Len(s) - 1 : Tail(s)[i] = s[i + 1]
  OBVIOUS
<1>2. DOMAIN Tail(s) = 1..Len(s) - 1
  BY <1>1
<1>3. /\ 1 \in 1..Len(s)
      /\ \A i \in 1..Len(s) - 1 : i + 1 \in 1..Len(s)
      /\ \A i \in 1..Len(s) : i # 1 => i - 1 \in 1..Len(s) - 1 /\ (i - 1) + 1 = i
  BY <1>1
<1>4. Head(s) \in Lines(s) /\ \A x \in Lines(Tail(s)) : x \in Lines(s)
  BY <1>1, <1>2, <1>3 DEF Lines
<1>5. ASSUME NEW i \in 1..Len(s), i # 1 PROVE s[i] \in Lines(Tail(s))
  <2>1. i - 1 \in DOMAIN Tail(s) /\ Tail(s)[i - 1] = s[i]
    BY <1>1, <1>2, <1>3, <1>5
  <2> QED BY <2>1 DEF Lines
<1>6. \A i \in DOMAIN s : s[i] = Head(s) \/ s[i] \in Lines(Tail(s))
  BY <1>1, <1>5
<1>7. \A x \in Lines(s) : x = Head(s) \/ x \in Lines(Tail(s))
  BY <1>6, Zenon DEF Lines
<1> QED BY <1>1, <1>4, <1>7

\* A prefix keeps its lines where they were.
LEMMA LinesPrefix ==
  ASSUME NEW S, NEW s \in Seq(S), NEW k \in 0..Len(s)
  PROVE  /\ SubSeq(s, 1, k) \in Seq(S)
         /\ Len(SubSeq(s, 1, k)) = k
         /\ \A i \in 1..k : SubSeq(s, 1, k)[i] = s[i]
         /\ Lines(SubSeq(s, 1, k)) \subseteq Lines(s)
<1>1. /\ Len(s) \in Nat /\ DOMAIN s = 1..Len(s)
      /\ \A i \in 1..k : s[i] \in S
  OBVIOUS
<1>2. /\ SubSeq(s, 1, k) \in Seq(S)
      /\ Len(SubSeq(s, 1, k)) = IF 1 <= k THEN k - 1 + 1 ELSE 0
      /\ \A i \in 1..k - 1 + 1 : SubSeq(s, 1, k)[i] = s[1 + i - 1]
  BY <1>1
<1>3. /\ Len(SubSeq(s, 1, k)) = k
      /\ \A i \in 1..k : SubSeq(s, 1, k)[i] = s[i]
  BY <1>1, <1>2
<1>4. DOMAIN SubSeq(s, 1, k) = 1..k
  BY <1>2, <1>3
<1>5. 1..k \subseteq DOMAIN s
  BY <1>1
<1>6. QED
  BY <1>2, <1>3, <1>4, <1>5 DEF Lines

-----------------------------------------------------------------------------
(***************************************************************************)
(* Type correctness.                                                       *)
(***************************************************************************)

\* writeEventLocked, in its three outcomes, keeps events.jsonl a sequence of
\* lines of which a prefix is synced.
LEMMA RecordTypes ==
  ASSUME TypeOK, NEW e \in Seqs,
         RecordWritten(e) \/ RecordUnsynced(e) \/ RecordFailed
  PROVE  /\ file' \in Seq(Seqs \cup {Junk}) /\ torn' \in BOOLEAN
         /\ synced' \in 0..Len(file') /\ syncNeeded' \in BOOLEAN
<1>1. file \in Seq(Seqs \cup {Junk}) /\ synced \in 0..Len(file) /\ Len(file) \in Nat
  BY DEF TypeOK
<1>2. ASSUME AppendRecord(e)
      PROVE  /\ file' \in Seq(Seqs \cup {Junk})
             /\ Len(file') = Len(file) + 1
             /\ torn' = FALSE
  BY <1>1, <1>2, LinesAppend DEF AppendRecord
<1>3. CASE RecordWritten(e)
  BY <1>1, <1>2, <1>3, WalAssumption DEF RecordWritten, TypeOK
<1>4. CASE RecordUnsynced(e)
  BY <1>1, <1>2, <1>4 DEF RecordUnsynced, TypeOK
<1>5. CASE RecordFailed
  BY <1>1, <1>5, WalAssumption DEF RecordFailed, TypeOK
<1>6. QED
  BY <1>3, <1>4, <1>5

\* The Boolean variables and those of the callers apart from the others: the
\* parts of TypeOK are proved by different provers.
FlagTypes ==
  /\ torn \in BOOLEAN /\ stateDirty \in BOOLEAN
  /\ syncNeeded \in BOOLEAN /\ blocked \in BOOLEAN

DataTypes ==
  /\ disk \in {"ok", "full", "failing"}
  /\ file \in Seq(Seqs \cup {Junk}) /\ synced \in 0..Len(file)
  /\ stateFile \in 0..MaxSeq \cup {Junk} /\ stateSynced \in 0..MaxSeq \cup {Junk}
  /\ pending \in Seq(Seqs) /\ states \in 0..MaxSeq
  /\ pc \in {"idle", "flush", "flushFailed", "down"}
  /\ inflight \in 0..MaxSeq
  /\ err \in {"nil", "nospace", "error"}
  /\ next \in 1..MaxSeq + 1 /\ last \in 0..MaxSeq
  /\ acked \subseteq Seqs

CallerTypes ==
  /\ caller \in Callers \cup {"nobody"}
  /\ held \in [Callers -> SUBSET Seqs] /\ copy \in [Callers -> Due..MaxSeq]
  /\ by \in [Seqs -> Callers \cup {"nobody"}]

\* The three parts make up TypeOK, in this state and in the next.
LEMMA TypeParts ==
  /\ TypeOK <=> FlagTypes /\ DataTypes /\ CallerTypes
  /\ TypeOK' <=> FlagTypes' /\ DataTypes' /\ CallerTypes'
<1>1. TypeOK <=> FlagTypes /\ DataTypes /\ CallerTypes
  BY Zenon DEF TypeOK, FlagTypes, DataTypes, CallerTypes
<1>2. TypeOK' <=> FlagTypes' /\ DataTypes' /\ CallerTypes'
  BY Zenon DEF TypeOK, FlagTypes, DataTypes, CallerTypes
<1>3. QED
  BY <1>1, <1>2

\* A batch of numbers (Number) stays within the bound.
LEMMA BatchRange ==
  ASSUME NEW a \in Nat, NEW b \in Nat, NEW m \in Nat, 1 <= a, b <= m + 1
  PROVE  /\ a..b - 1 \in SUBSET (1..m)
         /\ \A e \in a..b - 1 : e \in 1..m /\ a <= e /\ e < b
OBVIOUS

\* An abandoned handling (an error of Append) leaves its caller at rest.
LEMMA AbandonedTypes ==
  ASSUME CallerTypes, Abandoned
  PROVE  held' \in [Callers -> SUBSET Seqs] /\ copy' \in [Callers -> Due..MaxSeq]
<1>1. NoCopy \in Due..MaxSeq
  BY WalAssumption DEF NoCopy, Due
<1>2. held' \in [Callers -> SUBSET Seqs]
  BY DEF Abandoned, CallerTypes
<1>3. copy' \in [Callers -> Due..MaxSeq]
  BY <1>1 DEF Abandoned, CallerTypes
<1>4. QED
  BY <1>2, <1>3

\* What the callers hold stays well typed: numbers within the bound, a state read
\* from the engine or one of the two marks.
LEMMA CallerTypesStep == TypeOK /\ [Next]_vars => CallerTypes'
<1> SUFFICES ASSUME TypeOK, CallerTypes, DataTypes, [Next]_vars PROVE CallerTypes'
  BY TypeParts
<1> USE DEF diskVars, memVars, callVars, callerVars, historyVars
<1>0. /\ NoCopy \in Due..MaxSeq /\ Due \in Due..MaxSeq
      /\ \A n \in 0..MaxSeq : n \in Due..MaxSeq
  BY WalAssumption DEF NoCopy, Due
<1>1. ASSUME NEW c \in Callers, Number(c) PROVE CallerTypes'
  <2>1. /\ caller' = caller /\ copy' = [copy EXCEPT ![c] = Due]
        /\ held' = [held EXCEPT ![c] = next..next' - 1]
        /\ by' = [e \in Seqs |-> IF next <= e /\ e < next' THEN c ELSE by[e]]
    BY <1>1 DEF Number
  <2>2. next..next' - 1 \in SUBSET Seqs
    <3>1. /\ next' \in Nat /\ next' <= MaxSeq + 1 /\ next \in Nat /\ 1 <= next
          /\ MaxSeq \in Nat
      BY <1>1, WalAssumption DEF Number, Batch, DataTypes
    <3>2. QED
      BY <3>1, BatchRange DEF Seqs
  <2>3. held' \in [Callers -> SUBSET Seqs]
    BY <2>1, <2>2 DEF CallerTypes
  <2>4. copy' \in [Callers -> Due..MaxSeq]
    BY <2>1, <1>0 DEF CallerTypes
  <2>5. by' \in [Seqs -> Callers \cup {"nobody"}]
    BY <2>1 DEF CallerTypes
  <2>6. QED
    BY <2>1, <2>3, <2>4, <2>5 DEF CallerTypes
<1>2. ASSUME NEW c \in Callers, AppendCall(c) PROVE CallerTypes'
  BY <1>2 DEF AppendCall, CallerTypes
<1>3. ASSUME NEW c \in Callers, ReadState(c) PROVE CallerTypes'
  <2>1. last \in Due..MaxSeq
    BY <1>0 DEF DataTypes
  <2>2. QED
    BY <1>3, <2>1 DEF ReadState, CallerTypes
<1>4. ASSUME NEW c \in Callers, SaveStateCall(c) PROVE CallerTypes'
  BY <1>4, <1>0 DEF SaveStateCall, CallerTypes
<1>5. CASE FlushError \/ AppendOwn
  <2>1. caller' = "nobody" /\ by' = by /\ (Abandoned \/ UNCHANGED <<held, copy>>)
    BY <1>5 DEF FlushError, AppendOwn, Return
  <2>2. QED
    BY <2>1, AbandonedTypes DEF CallerTypes
<1>6. CASE Crash \/ HostCrash
  <2>1. /\ caller' = "nobody" /\ by' = by
        /\ held' = [c \in Callers |-> {}] /\ copy' = [c \in Callers |-> NoCopy]
    BY <1>6 DEF Crash, HostCrash, MemoryLost
  <2>2. QED
    BY <2>1, <1>0 DEF CallerTypes
<1>7. CASE DiskChange \/ FlushSync \/ FlushPending \/ FlushState \/ SaveStateDone
           \/ Open \/ UNCHANGED vars
  <2>1. caller' \in {caller, "nobody"} /\ UNCHANGED <<held, copy, by>>
    BY <1>7 DEF DiskChange, FlushSync, FlushPending, FlushState, SaveStateDone, Return,
                Open, vars
  <2>2. QED
    BY <2>1 DEF CallerTypes
<1>8. QED
  BY <1>1, <1>2, <1>3, <1>4, <1>5, <1>6, <1>7 DEF Next

\* Every state of the log is well typed.
THEOREM TypeCorrect == Spec => []TypeOK
<1> USE WalAssumption DEF NoEvent
<1>1. Init => TypeOK
  <2>1. Init => FlagTypes
    BY DEF Init, FlagTypes
  <2>2. Init => DataTypes
    BY DEF Init, DataTypes
  <2>3. Init => CallerTypes
    <3> SUFFICES ASSUME Init PROVE CallerTypes
      OBVIOUS
    <3>1. by \in [Seqs -> Callers \cup {"nobody"}] /\ caller = "nobody"
      BY DEF Init
    <3>2. held \in [Callers -> SUBSET Seqs] /\ copy \in [Callers -> Due..MaxSeq]
      BY DEF Init, Due, NoCopy
    <3>3. QED
      BY <3>1, <3>2 DEF CallerTypes
  <2>4. QED
    BY <2>1, <2>2, <2>3, TypeParts
<1>2. TypeOK /\ [Next]_vars => TypeOK'
  <2> SUFFICES ASSUME FlagTypes, DataTypes, TypeOK, [Next]_vars
               PROVE  FlagTypes' /\ DataTypes'
    BY TypeParts, CallerTypesStep
  <2> USE DEF diskVars, memVars, callVars, callerVars, historyVars
  <2>0. Len(file) \in Nat /\ Len(pending) \in Nat
    BY DEF DataTypes
  <2>1. CASE DiskChange
    <3>1. FlagTypes'
      BY <2>1 DEF DiskChange, FlagTypes
    <3>2. DataTypes'
      BY <2>1 DEF DiskChange, DataTypes
    <3>3. QED
      BY <3>1, <3>2
  <2>2. ASSUME NEW c \in Callers, Number(c) \/ AppendCall(c) \/ ReadState(c)
        PROVE  FlagTypes' /\ DataTypes'
    <3>1. FlagTypes'
      BY <2>2 DEF Number, AppendCall, ReadState, FlagTypes
    <3>2. /\ UNCHANGED <<disk, file, synced, stateFile, stateSynced, pending, states,
                         err, acked>>
          /\ pc' \in {pc, "flush"}
      BY <2>2 DEF Number, AppendCall, ReadState
    <3>3. inflight' \in 0..MaxSeq
      <4>1. held[c] \subseteq Seqs
        BY DEF TypeOK
      <4>2. QED
        BY <2>2, <4>1 DEF Number, AppendCall, ReadState, DataTypes, Seqs
    <3>4. next' \in 1..MaxSeq + 1 /\ last' \in 0..MaxSeq
      BY <2>2 DEF Number, Batch, AppendCall, ReadState, DataTypes
    <3>5. QED
      BY <3>1, <3>2, <3>3, <3>4 DEF DataTypes
  <2>3. ASSUME NEW c \in Callers, SaveStateCall(c) PROVE FlagTypes' /\ DataTypes'
    <3>1. FlagTypes'
      BY <2>3 DEF SaveStateCall, FlagTypes
    <3>2. copy[c] \in 0..MaxSeq
      BY <2>3 DEF SaveStateCall, TypeOK, Due
    <3>3. DataTypes'
      BY <2>3, <3>2 DEF SaveStateCall, DataTypes
    <3>4. QED
      BY <3>1, <3>3
  <2>4. CASE FlushSync
    <3>1. FlagTypes'
      BY <2>4 DEF FlushSync, FlagTypes
    <3>2. synced' = synced \/ synced' = Len(file)
      BY <2>4 DEF FlushSync
    <3>3. /\ pc' \in {pc, "flushFailed"} /\ err' \in {err} \cup Errors
          /\ UNCHANGED <<disk, file, stateFile, stateSynced, pending, states,
                         inflight, next, last, acked>>
      BY <2>4 DEF FlushSync, FlushFailed
    <3>4. synced' \in 0..Len(file')
      BY <2>0, <3>2, <3>3 DEF DataTypes
    <3>5. DataTypes'
      BY <3>3, <3>4 DEF Errors, DataTypes
    <3>6. QED
      BY <3>1, <3>5
  <2>5. CASE FlushPending
    <3>1. Head(pending) \in Seqs /\ Tail(pending) \in Seq(Seqs)
      BY <2>5, LinesTail DEF FlushPending, DataTypes
    <3>2. /\ RecordWritten(Head(pending)) \/ RecordUnsynced(Head(pending)) \/ RecordFailed
          /\ pending' = pending \/ pending' = Tail(pending)
          /\ pc' \in {pc, "flushFailed"} /\ err' \in {err} \cup Errors
      BY <2>5 DEF FlushPending, FlushFailed
    <3>3. /\ file' \in Seq(Seqs \cup {Junk}) /\ torn' \in BOOLEAN
          /\ synced' \in 0..Len(file') /\ syncNeeded' \in BOOLEAN
      BY <3>1, <3>2, RecordTypes
    <3>4. UNCHANGED <<disk, stateFile, stateSynced, states, stateDirty, blocked,
                      inflight, next, last, acked>>
      BY <2>5 DEF FlushPending
    <3>5. FlagTypes'
      BY <3>3, <3>4 DEF FlagTypes
    <3>6. DataTypes'
      BY <3>1, <3>2, <3>3, <3>4 DEF Errors, DataTypes
    <3>7. QED
      BY <3>5, <3>6
  <2>6. CASE FlushState
    <3>1. FlagTypes'
      BY <2>6 DEF FlushState, FlagTypes
    <3>2. /\ stateFile' \in {stateFile, states, 0} /\ stateSynced' \in {stateSynced, states}
          /\ pc' \in {pc, "flushFailed"} /\ err' \in {err} \cup Errors
          /\ UNCHANGED <<disk, file, synced, pending, states, inflight, next, last, acked>>
      BY <2>6 DEF FlushState, FlushFailed
    <3>3. DataTypes'
      BY <3>2 DEF Errors, DataTypes
    <3>4. QED
      BY <3>1, <3>3
  <2>7. CASE FlushError
    <3>1. FlagTypes'
      BY <2>7 DEF FlushError, FlagTypes
    <3>2. inflight # NoEvent => inflight \in Seqs /\ Append(pending, inflight) \in Seq(Seqs)
      BY LinesAppend DEF DataTypes, Seqs
    <3>3. /\ pending' \in Seq(Seqs)
          /\ acked' \subseteq Seqs
      BY <2>7, <3>2 DEF FlushError, DataTypes
    <3>4. DataTypes'
      BY <2>7, <3>3 DEF FlushError, Return, DataTypes
    <3>5. QED
      BY <3>1, <3>4
  <2>8. CASE AppendOwn
    <3>1. inflight \in Seqs /\ Append(pending, inflight) \in Seq(Seqs)
      BY <2>8, LinesAppend DEF AppendOwn, DataTypes, Seqs
    <3>2. RecordWritten(inflight) \/ RecordUnsynced(inflight) \/ RecordFailed
      BY <2>8 DEF AppendOwn
    <3>3. /\ file' \in Seq(Seqs \cup {Junk}) /\ torn' \in BOOLEAN
          /\ synced' \in 0..Len(file') /\ syncNeeded' \in BOOLEAN
      BY <3>1, <3>2, RecordTypes
    <3>4. FlagTypes'
      BY <2>8, <3>3 DEF AppendOwn, FlagTypes
    <3>5. /\ pending' \in Seq(Seqs)
          /\ acked' \subseteq Seqs
      BY <2>8, <3>1 DEF AppendOwn, DataTypes
    <3>6. /\ UNCHANGED <<disk, stateFile, stateSynced, states, next, last>>
          /\ pc' = "idle" /\ inflight' = NoEvent /\ err' = "nil"
      BY <2>8 DEF AppendOwn, Return
    <3>7. DataTypes'
      BY <3>3, <3>5, <3>6 DEF DataTypes
    <3>8. QED
      BY <3>4, <3>7
  <2>9. CASE SaveStateDone
    <3>1. FlagTypes'
      BY <2>9 DEF SaveStateDone, FlagTypes
    <3>2. DataTypes'
      BY <2>9 DEF SaveStateDone, Return, DataTypes
    <3>3. QED
      BY <3>1, <3>2
  <2>10. CASE Crash
    <3>1. FlagTypes'
      BY <2>10 DEF Crash, MemoryLost, FlagTypes, Writing
    <3>2. DataTypes'
      BY <2>10 DEF Crash, MemoryLost, DataTypes
    <3>3. QED
      BY <3>1, <3>2
  <2>11. CASE HostCrash
    <3>1. FlagTypes'
      BY <2>11 DEF HostCrash, MemoryLost, FlagTypes, Writing
    <3>2. PICK k \in synced..Len(file) :
            file' = SubSeq(file, 1, k) /\ synced' = k
      BY <2>11 DEF HostCrash
    <3>3. k \in 0..Len(file)
      BY <2>0, <3>2 DEF DataTypes
    <3>4. file' \in Seq(Seqs \cup {Junk}) /\ Len(file') = k
      BY <3>2, <3>3, LinesPrefix DEF DataTypes
    <3>5. synced' \in 0..Len(file')
      BY <3>2, <3>3, <3>4
    <3>6. stateFile' \in 0..MaxSeq \cup {Junk} /\ stateSynced' \in 0..MaxSeq \cup {Junk}
      BY <2>11 DEF HostCrash, DataTypes
    <3>7. DataTypes'
      BY <2>11, <3>4, <3>5, <3>6 DEF HostCrash, MemoryLost, DataTypes
    <3>8. QED
      BY <3>1, <3>7
  <2>12. CASE Open
    <3>1. FlagTypes'
      BY <2>12 DEF Open, FlagTypes
    <3>2. \A x \in Lines(file) : x \in Seqs \cup {Junk}
      BY DEF DataTypes, Lines
    <3>3. states' \in 0..MaxSeq
      BY <2>12 DEF Open, DataTypes, Junk
    <3>4. last' \in 0..MaxSeq
      BY <2>12, <3>2, <3>3 DEF Open, Seqs, Junk
    <3>5. DataTypes'
      BY <2>12, <3>3, <3>4 DEF Open, DataTypes
    <3>6. QED
      BY <3>1, <3>5
  <2>13. CASE UNCHANGED vars
    BY <2>13 DEF vars, FlagTypes, DataTypes
  <2>14. QED
    BY <2>1, <2>2, <2>3, <2>4, <2>5, <2>6, <2>7, <2>8, <2>9, <2>10, <2>11,
       <2>12, <2>13 DEF Next
<1>3. QED
  BY <1>1, <1>2, PTL DEF Spec

-----------------------------------------------------------------------------
(***************************************************************************)
(* Whole records.  While the rollback of a short write works, the file has *)
(* a partial last line only between a crash and the next Open.             *)
(***************************************************************************)

WholeInv == (torn => pc = "down") /\ NoMergedLine

\* writeEventLocked of a whole log appends e itself or leaves the file alone,
\* and what was synced stays synced.
LEMMA RecordEffect ==
  ASSUME TypeOK, torn = FALSE, NEW e \in Seqs
  PROVE  /\ RecordWritten(e) \/ RecordUnsynced(e) =>
              /\ file' = Append(file, e) /\ torn' = FALSE
              /\ Lines(file') = Lines(file) \cup {e}
              /\ SyncedLines \subseteq SyncedLines'
         /\ RecordWritten(e) /\ Fsync => SyncedLines' = Lines(file')
         /\ RecordFailed =>
              /\ file' = file /\ synced' = synced
              /\ ~TruncateMayFail => torn' = FALSE
<1>1. /\ file \in Seq(Seqs \cup {Junk}) /\ Len(file) \in Nat
      /\ DOMAIN file = 1..Len(file) /\ synced \in 0..Len(file)
  BY DEF TypeOK
<1>2. ASSUME AppendRecord(e)
      PROVE  /\ file' = Append(file, e) /\ torn' = FALSE
             /\ file' \in Seq(Seqs \cup {Junk})
             /\ Len(file') = Len(file) + 1
             /\ DOMAIN file' = 1..Len(file')
             /\ \A i \in 1..Len(file) : file'[i] = file[i]
             /\ Lines(file') = Lines(file) \cup {e}
  <2>1. file' = Append(file, e) /\ torn' = FALSE
    BY <1>2 DEF AppendRecord
  <2>2. /\ file' \in Seq(Seqs \cup {Junk})
        /\ Len(file') = Len(file) + 1
        /\ \A i \in 1..Len(file) : file'[i] = file[i]
        /\ Lines(file') = Lines(file) \cup {e}
    BY <1>1, <2>1, LinesAppend
  <2>3. DOMAIN file' = 1..Len(file')
    BY <2>2
  <2>4. QED
    BY <2>1, <2>2, <2>3
<1>3. ASSUME AppendRecord(e), synced' = synced \/ synced' = Len(file')
      PROVE  SyncedLines \subseteq SyncedLines'
  <2>1. \A i \in 1..synced : i \in 1..synced' /\ file'[i] = file[i]
    BY <1>1, <1>2, <1>3
  <2>2. QED
    BY <2>1 DEF SyncedLines
<1>4. RecordWritten(e) \/ RecordUnsynced(e) =>
        AppendRecord(e) /\ (synced' = synced \/ synced' = Len(file'))
  BY DEF RecordWritten, RecordUnsynced
<1>5. RecordWritten(e) /\ Fsync => SyncedLines' = Lines(file')
  BY <1>2 DEF RecordWritten, SyncedLines, Lines
<1>6. RecordFailed =>
        /\ file' = file /\ synced' = synced
        /\ ~TruncateMayFail => torn' = FALSE
  BY WalAssumption DEF RecordFailed
<1>7. QED
  BY <1>2, <1>3, <1>4, <1>5, <1>6

\* With a rollback that works no record ever ends in a merged line, and Open
\* (Repair) hands every process a file that ends at a record boundary.
THEOREM RecordsWhole == ~TruncateMayFail /\ Spec => []WholeInv
<1> SUFFICES ASSUME ~TruncateMayFail PROVE Spec => []WholeInv
  OBVIOUS
<1> USE DEF diskVars, memVars, callVars, callerVars, historyVars
<1>1. Init => WholeInv
  BY DEF Init, WholeInv, NoMergedLine, Lines
<1>2. TypeOK /\ WholeInv /\ [Next]_vars => WholeInv'
  <2> SUFFICES ASSUME TypeOK, WholeInv, [Next]_vars PROVE WholeInv'
    OBVIOUS
  <2>0. \A e \in Seqs : e # Junk
    BY WalAssumption DEF Seqs, Junk
  <2>1. CASE FlushPending
    <3>1. torn = FALSE /\ Head(pending) \in Seqs
      BY <2>1, LinesTail DEF FlushPending, WholeInv, TypeOK
    <3>2. RecordWritten(Head(pending)) \/ RecordUnsynced(Head(pending)) \/ RecordFailed
      BY <2>1 DEF FlushPending
    <3>3. QED
      BY <3>1, <3>2, <2>0, RecordEffect DEF WholeInv, NoMergedLine
  <2>2. CASE AppendOwn
    <3>1. torn = FALSE /\ inflight \in Seqs
      BY <2>2, WalAssumption DEF AppendOwn, Flushed, WholeInv, TypeOK, NoEvent, Seqs
    <3>2. RecordWritten(inflight) \/ RecordUnsynced(inflight) \/ RecordFailed
      BY <2>2 DEF AppendOwn
    <3>3. QED
      BY <3>1, <3>2, <2>0, RecordEffect DEF WholeInv, NoMergedLine
  <2>3. CASE Crash
    BY <2>3 DEF Crash, MemoryLost, WholeInv, NoMergedLine
  <2>4. CASE HostCrash
    <3>1. PICK k \in synced..Len(file) : file' = SubSeq(file, 1, k)
      BY <2>4 DEF HostCrash
    <3>2. k \in 0..Len(file)
      BY <3>1 DEF TypeOK
    <3>3. Lines(file') \subseteq Lines(file)
      BY <3>1, <3>2, LinesPrefix DEF TypeOK
    <3>4. QED
      BY <2>4, <3>3 DEF HostCrash, MemoryLost, WholeInv, NoMergedLine
  <2>5. CASE Open
    BY <2>5 DEF Open, WholeInv, NoMergedLine
  <2>6. CASE DiskChange \/ FlushSync \/ FlushState \/ FlushError \/ SaveStateDone
             \/ UNCHANGED vars
    <3>1. file' = file /\ torn' = torn
      BY <2>6 DEF DiskChange, FlushSync, FlushState, FlushError, SaveStateDone, vars
    <3>2. pc' = "down" <=> pc = "down"
      BY <2>6 DEF DiskChange, FlushSync, FlushState, FlushError, SaveStateDone, Flushed,
                  FlushFailed, Return, vars
    <3>3. QED
      BY <3>1, <3>2 DEF WholeInv, NoMergedLine
  <2>7. CASE CallerStep
    <3>1. /\ file' = file /\ torn' = torn
          /\ pc' = "down" <=> pc = "down"
      BY <2>7 DEF CallerStep, Number, AppendCall, ReadState, SaveStateCall
    <3>2. QED
      BY <3>1 DEF WholeInv, NoMergedLine
  <2>8. QED
    BY <2>1, <2>2, <2>3, <2>4, <2>5, <2>6, <2>7 DEF Next, CallerStep
<1>3. QED
  BY <1>1, <1>2, TypeCorrect, PTL DEF Spec

\* What a run of Wal checks of a disk that can always undo a short write.
COROLLARY NoRecordMerged == ~TruncateMayFail /\ Spec => []NoMergedLine
<1>1. WholeInv => NoMergedLine
  BY DEF WholeInv
<1>2. QED
  BY <1>1, RecordsWhole, PTL

-----------------------------------------------------------------------------
(***************************************************************************)
(* Order.                                                                  *)
(***************************************************************************)

\* An event that may come after all others keeps the log in sequence at its end.
LEMMA InSequenceAppend ==
  ASSUME NEW S, NEW s \in Seq(S), NEW e \in S, NEW b,
         InSequence(s, b), \A x \in Lines(s) : After(x, e, b)
  PROVE  InSequence(Append(s, e), b)
<1>1. /\ Append(s, e) \in Seq(S)
      /\ Len(Append(s, e)) = Len(s) + 1
      /\ \A i \in 1..Len(s) : Append(s, e)[i] = s[i]
      /\ Append(s, e)[Len(s) + 1] = e
  BY LinesAppend
<1>2. /\ DOMAIN s = 1..Len(s) /\ Len(s) \in Nat
      /\ DOMAIN Append(s, e) = 1..Len(s) + 1
  BY <1>1
<1>3. ASSUME NEW i \in DOMAIN Append(s, e), NEW j \in DOMAIN Append(s, e), i < j
      PROVE  After(Append(s, e)[i], Append(s, e)[j], b)
  <2>1. i \in 1..Len(s)
    BY <1>2, <1>3
  <2>2. CASE j = Len(s) + 1
    <3>1. s[i] \in Lines(s)
      BY <2>1, <1>2 DEF Lines
    <3>2. QED
      BY <2>1, <2>2, <3>1, <1>1
  <2>3. CASE j # Len(s) + 1
    <3>1. j \in 1..Len(s)
      BY <1>2, <2>3
    <3>2. QED
      BY <2>1, <3>1, <1>1, <1>2, <1>3 DEF InSequence
  <2>4. QED
    BY <2>2, <2>3
<1>4. QED
  BY <1>3 DEF InSequence

\* Without its head the queue stays in sequence, behind that head.
LEMMA InSequenceTail ==
  ASSUME NEW S, NEW s \in Seq(S), s # << >>, NEW b, InSequence(s, b)
  PROVE  /\ InSequence(Tail(s), b)
         /\ \A x \in Lines(Tail(s)) : After(Head(s), x, b)
<1>1. /\ Len(s) \in Nat \ {0} /\ DOMAIN s = 1..Len(s)
      /\ Head(s) = s[1]
      /\ DOMAIN Tail(s) = 1..Len(s) - 1
      /\ \A i \in 1..Len(s) - 1 : Tail(s)[i] = s[i + 1]
  BY LinesTail
<1>2. \A i, j \in DOMAIN Tail(s) : i < j => After(Tail(s)[i], Tail(s)[j], b)
  <2> SUFFICES ASSUME NEW i \in DOMAIN Tail(s), NEW j \in DOMAIN Tail(s), i < j
               PROVE  After(Tail(s)[i], Tail(s)[j], b)
    OBVIOUS
  <2>1. i + 1 \in DOMAIN s /\ j + 1 \in DOMAIN s /\ i + 1 < j + 1
    BY <1>1
  <2>2. QED
    BY <2>1, <1>1 DEF InSequence
<1>3. ASSUME NEW i \in DOMAIN Tail(s) PROVE After(Head(s), Tail(s)[i], b)
  <2>1. 1 \in DOMAIN s /\ i + 1 \in DOMAIN s /\ 1 < i + 1
    BY <1>1
  <2>2. QED
    BY <2>1, <1>1 DEF InSequence
<1>4. QED
  BY <1>2, <1>3 DEF InSequence, Lines

\* What a power loss leaves of a log in sequence is in sequence.
LEMMA InSequencePrefix ==
  ASSUME NEW S, NEW s \in Seq(S), NEW k \in 0..Len(s), NEW b, InSequence(s, b)
  PROVE  InSequence(SubSeq(s, 1, k), b)
<1>1. /\ DOMAIN s = 1..Len(s) /\ Len(s) \in Nat
      /\ DOMAIN SubSeq(s, 1, k) = 1..k
      /\ \A i \in 1..k : SubSeq(s, 1, k)[i] = s[i]
  OBVIOUS
<1>2. QED
  BY <1>1 DEF InSequence

\* Events on disk, in the queue or in flight.
Logged == Lines(file) \cup Lines(pending) \cup ({inflight} \ {NoEvent})

\* InOrder is preserved by a step because the numbers still to come are larger
\* than every number in use, and because what a caller holds may come after all
\* that is logged: it is its own, and newer than its own events there.
HeldInv ==
  /\ pc # "down" => \A e \in Logged : e < next
  /\ \A c \in Callers : \A e \in held[c] :
       e < next /\ by[e] = c /\ \A f \in Logged : After(f, e, by)

OrderInv ==
  /\ InOrder
  /\ HeldInv
  /\ pc = "down" => pending = << >> /\ inflight = NoEvent /\ \A c \in Callers : held[c] = {}

\* A step that numbers nothing, calls no Append and restarts nothing adds no event
\* to the log or to what the callers hold.
LEMMA HeldKept ==
  ASSUME HeldInv, Logged' \subseteq Logged, by' = by, next' = next, pc' # "down" => pc # "down",
         \A c \in Callers : held'[c] \subseteq held[c]
  PROVE  HeldInv'
<1>1. pc' # "down" => \A e \in Logged' : e < next'
  BY DEF HeldInv
<1>2. ASSUME NEW c \in Callers, NEW e \in held'[c]
      PROVE  e < next' /\ by'[e] = c /\ \A f \in Logged' : After(f, e, by')
  BY <1>2 DEF HeldInv
<1>3. QED
  BY <1>1, <1>2 DEF HeldInv

\* Numbering (Apply, ApplyReboot, ApplyRecovery, ConfirmReady) keeps the order: the
\* new numbers are above all that is logged or held, and belong to their caller.
LEMMA NumberKeepsOrder ==
  ASSUME TypeOK, NoMergedLine, OrderInv, NEW c \in Callers, Number(c)
  PROVE  OrderInv'
<1> USE DEF diskVars, memVars, callVars
<1>1. /\ UNCHANGED <<file, pending, inflight, pc>> /\ pc # "down"
      /\ held' = [held EXCEPT ![c] = next..next' - 1]
      /\ by' = [e \in Seqs |-> IF next <= e /\ e < next' THEN c ELSE by[e]]
      /\ next \in Nat /\ next' \in Nat /\ 1 <= next /\ next <= next' /\ next' <= MaxSeq + 1
  BY WalAssumption DEF Number, Batch, TypeOK
<1>2. /\ \A e \in Logged : e \in Seqs /\ e < next
      /\ Logged' = Logged
  <2>1. \A e \in Lines(file) \cup Lines(pending) : e \in Seqs
    BY DEF TypeOK, Lines, NoMergedLine
  <2>2. inflight # NoEvent => inflight \in Seqs
    BY WalAssumption DEF TypeOK, Seqs, NoEvent
  <2>3. \A e \in Logged : e < next
    BY <1>1 DEF OrderInv, HeldInv
  <2>4. QED
    BY <1>1, <2>1, <2>2, <2>3 DEF Logged
<1>3. \A e \in Seqs : e < next => by'[e] = by[e]
  BY <1>1 DEF Seqs
<1>4. ASSUME NEW e \in Logged, NEW f \in Logged, After(e, f, by) PROVE After(e, f, by')
  <2>1. by'[e] = by[e] /\ by'[f] = by[f]
    BY <1>2, <1>3
  <2>2. QED
    BY <1>4, <2>1 DEF After
<1>5. ASSUME NEW s, Lines(s) \subseteq Logged, InSequence(s, by) PROVE InSequence(s, by')
  <2>1. \A i \in DOMAIN s : s[i] \in Logged
    BY <1>5 DEF Lines
  <2>2. QED
    BY <1>4, <1>5, <2>1 DEF InSequence
<1>6. InOrder'
  <2>1. Lines(file) \subseteq Logged /\ Lines(pending) \subseteq Logged
    BY DEF Logged
  <2>2. InSequence(file, by') /\ InSequence(pending, by')
    BY <1>5, <2>1 DEF OrderInv, InOrder
  <2>3. \A e \in Lines(file), f \in Lines(pending) : After(e, f, by')
    BY <1>4, <2>1 DEF OrderInv, InOrder
  <2>4. inflight # NoEvent =>
          \A e \in Lines(file) \cup Lines(pending) : After(e, inflight, by')
    <3>1. inflight # NoEvent => inflight \in Logged
      BY DEF Logged
    <3>2. QED
      BY <1>4, <2>1, <3>1 DEF OrderInv, InOrder
  <2>5. QED
    BY <1>1, <2>2, <2>3, <2>4 DEF InOrder
<1>7. ASSUME NEW d \in Callers, NEW e \in held'[d]
      PROVE  e < next' /\ by'[e] = d /\ \A f \in Logged : After(f, e, by')
  <2>1. CASE d = c
    <3>0. e \in next..next' - 1
      BY <1>1, <1>7, <2>1 DEF TypeOK
    <3>1. e \in Seqs /\ next <= e /\ e < next'
      <4>1. MaxSeq \in Nat /\ next \in Nat /\ next' \in Nat /\ 1 <= next /\ next' <= MaxSeq + 1
        BY <1>1, WalAssumption
      <4>2. QED
        BY <3>0, <4>1, BatchRange DEF Seqs
    <3>2. e < next' /\ by'[e] = d
      BY <1>1, <2>1, <3>1
    <3>3. \A f \in Logged : f < e
      BY <1>1, <1>2, <3>1 DEF Seqs
    <3>4. \A f \in Logged : f # e
      BY <1>2, <3>1, <3>3 DEF Seqs
    <3>5. QED
      BY <3>2, <3>3, <3>4 DEF After
  <2>2. CASE d # c
    <3>1. e \in held[d] /\ e \in Seqs
      BY <1>1, <1>7, <2>2 DEF TypeOK
    <3>2. e < next /\ by[e] = d /\ \A f \in Logged : After(f, e, by)
      BY <3>1 DEF OrderInv, HeldInv
    <3>3. by'[e] = by[e] /\ \A f \in Logged : by'[f] = by[f]
      BY <1>2, <1>3, <3>1, <3>2
    <3>4. e < next'
      BY <1>1, <3>1, <3>2 DEF Seqs
    <3>5. QED
      BY <3>2, <3>3, <3>4 DEF After
  <2>3. QED
    BY <2>1, <2>2
<1>8. \A e \in Logged : e < next'
  BY <1>1, <1>2 DEF Seqs
<1>9. HeldInv'
  BY <1>2, <1>7, <1>8 DEF HeldInv
<1>10. QED
  BY <1>1, <1>6, <1>9 DEF OrderInv

\* Append is called with the oldest event its caller holds, which may come after
\* all that is logged, and before all that is held.
LEMMA AppendKeepsOrder ==
  ASSUME TypeOK, OrderInv, NEW c \in Callers, AppendCall(c)
  PROVE  OrderInv'
<1> USE DEF diskVars, memVars, historyVars
<1>1. PICK e \in held[c] : /\ \A f \in held[c] : e <= f
                           /\ inflight' = e
                           /\ held' = [held EXCEPT ![c] = @ \ {e}]
  BY DEF AppendCall
<1>2. /\ UNCHANGED <<file, pending, next, by>> /\ pc # "down" /\ pc' # "down"
  BY DEF AppendCall
<1>3. e < next /\ by[e] = c /\ \A f \in Logged : After(f, e, by)
  BY <1>1 DEF OrderInv, HeldInv
<1>4. Logged' \subseteq Logged \cup {e}
  BY <1>1, <1>2 DEF Logged
<1>5. InOrder'
  <2>1. \A f \in Lines(file) \cup Lines(pending) : After(f, e, by)
    BY <1>3 DEF Logged
  <2>2. QED
    BY <1>1, <1>2, <2>1 DEF OrderInv, InOrder
<1>6. ASSUME NEW d \in Callers, NEW g \in held'[d]
      PROVE  g < next /\ by[g] = d /\ After(e, g, by) /\ \A f \in Logged : After(f, g, by)
  <2>1. g \in held[d] /\ (d = c => g # e)
    BY <1>1, <1>6 DEF TypeOK
  <2>2. g < next /\ by[g] = d /\ \A f \in Logged : After(f, g, by)
    BY <2>1 DEF OrderInv, HeldInv
  <2>3. CASE d = c
    <3>1. e \in Int /\ g \in Int /\ e <= g /\ g # e
      BY <1>1, <2>1, <2>3 DEF TypeOK, Seqs
    <3>2. QED
      BY <2>2, <3>1 DEF After
  <2>4. CASE d # c
    BY <1>3, <2>2, <2>4 DEF After
  <2>5. QED
    BY <2>2, <2>3, <2>4
<1>7. \A f \in Logged' : f < next
  BY <1>2, <1>3, <1>4 DEF OrderInv, HeldInv
<1>8. HeldInv'
  BY <1>2, <1>4, <1>6, <1>7 DEF HeldInv
<1>9. QED
  BY <1>2, <1>5, <1>8 DEF OrderInv

\* The log stays in order, without repetition, for every number of events and of
\* goroutines, every failure of the disk and every crash, if a short write can be
\* undone.
THEOREM OrderKept == ~TruncateMayFail /\ Spec => []InOrder
<1> SUFFICES ASSUME ~TruncateMayFail PROVE Spec => []InOrder
  OBVIOUS
<1> USE DEF diskVars, memVars, callVars, callerVars, historyVars
<1>1. Init => OrderInv
  <2> SUFFICES ASSUME Init PROVE OrderInv
    OBVIOUS
  <2>1. /\ file = << >> /\ pending = << >> /\ inflight = NoEvent /\ pc = "idle"
        /\ \A c \in Callers : held[c] = {}
    BY DEF Init
  <2>2. Lines(file) = {} /\ Lines(pending) = {} /\ Logged = {}
    BY <2>1 DEF Lines, Logged
  <2>3. InOrder
    BY <2>1, <2>2 DEF InOrder, InSequence
  <2>4. HeldInv
    BY <2>1, <2>2 DEF HeldInv
  <2>5. QED
    BY <2>1, <2>3, <2>4 DEF OrderInv
<1>2. TypeOK /\ WholeInv /\ OrderInv /\ [Next]_vars => OrderInv'
  <2> SUFFICES ASSUME TypeOK, WholeInv, OrderInv, [Next]_vars PROVE OrderInv'
    OBVIOUS
  <2>0. /\ file \in Seq(Seqs \cup {Junk}) /\ pending \in Seq(Seqs)
        /\ inflight # NoEvent => inflight \in Seqs
    BY WalAssumption DEF TypeOK, Seqs, NoEvent
  <2>1. ASSUME NEW c \in Callers, Number(c) \/ AppendCall(c) PROVE OrderInv'
    BY <2>1, NumberKeepsOrder, AppendKeepsOrder DEF WholeInv
  <2>2. CASE FlushPending
    <3>1. /\ pending # << >> /\ torn = FALSE /\ pc # "down" /\ pc' # "down"
          /\ UNCHANGED <<inflight, next, held, by>>
      BY <2>2 DEF FlushPending, FlushFailed, WholeInv, TypeOK
    <3>2. /\ Head(pending) \in Seqs
          /\ Lines(pending) = Lines(Tail(pending)) \cup {Head(pending)}
          /\ InSequence(Tail(pending), by)
          /\ \A x \in Lines(Tail(pending)) : After(Head(pending), x, by)
      BY <2>0, <3>1, LinesTail, InSequenceTail DEF OrderInv, InOrder
    <3>3. CASE /\ RecordWritten(Head(pending)) \/ RecordUnsynced(Head(pending))
               /\ pending' = Tail(pending)
      <4>1. /\ file' = Append(file, Head(pending))
            /\ Lines(file') = Lines(file) \cup {Head(pending)}
        BY <3>1, <3>2, <3>3, RecordEffect
      <4>2. \A x \in Lines(file) : After(x, Head(pending), by)
        BY <3>2 DEF OrderInv, InOrder
      <4>3. InSequence(file', by)
        BY <2>0, <3>2, <4>1, <4>2, InSequenceAppend DEF OrderInv, InOrder
      <4>4. InOrder'
        BY <3>1, <3>2, <3>3, <4>1, <4>3 DEF OrderInv, InOrder
      <4>5. Logged' = Logged
        BY <3>1, <3>2, <3>3, <4>1 DEF Logged
      <4>6. QED
        BY <3>1, <4>4, <4>5, HeldKept DEF OrderInv
    <3>4. CASE RecordFailed /\ UNCHANGED pending
      <4>1. file' = file
        BY <3>4 DEF RecordFailed
      <4>2. InOrder' /\ Logged' = Logged
        BY <3>1, <3>4, <4>1 DEF OrderInv, InOrder, Logged
      <4>3. QED
        BY <3>1, <4>2, HeldKept DEF OrderInv
    <3>5. QED
      BY <2>2, <3>3, <3>4 DEF FlushPending
  <2>3. CASE FlushError
    <3>1. /\ file' = file /\ next' = next /\ by' = by /\ inflight' = NoEvent
          /\ pc # "down" /\ pc' = "idle"
          /\ \A c \in Callers : held'[c] \subseteq held[c]
      BY <2>3 DEF FlushError, Return, Abandoned, TypeOK
    <3>2. CASE inflight # NoEvent /\ pending' = Append(pending, inflight)
      <4>1. Lines(pending') = Lines(pending) \cup {inflight}
        BY <2>0, <3>2, LinesAppend
      <4>2. InSequence(pending', by)
        BY <2>0, <3>2, InSequenceAppend DEF OrderInv, InOrder
      <4>3. InOrder' /\ Logged' \subseteq Logged
        BY <3>1, <3>2, <4>1, <4>2 DEF OrderInv, InOrder, Logged
      <4>4. QED
        BY <3>1, <4>3, HeldKept DEF OrderInv
    <3>3. CASE pending' = pending
      <4>1. InOrder' /\ Logged' \subseteq Logged
        BY <3>1, <3>3 DEF OrderInv, InOrder, Logged
      <4>2. QED
        BY <3>1, <4>1, HeldKept DEF OrderInv
    <3>4. QED
      BY <2>3, <3>2, <3>3 DEF FlushError
  <2>4. CASE AppendOwn
    <3>1. /\ torn = FALSE /\ inflight # NoEvent /\ inflight' = NoEvent
          /\ pending = << >> /\ pc # "down" /\ pc' = "idle" /\ next' = next /\ by' = by
      BY <2>4 DEF AppendOwn, Flushed, Return, WholeInv, TypeOK
    <3>2. \A c \in Callers : held'[c] \subseteq held[c]
      BY <2>4 DEF AppendOwn, Abandoned, TypeOK
    <3>3. Lines(pending) = {} /\ InSequence(pending, by) /\ inflight \in Seqs
      BY <2>0, <3>1 DEF Lines, InSequence
    <3>4. InOrder' /\ Logged' \subseteq Logged
      <4>1. CASE RecordWritten(inflight) \/ RecordUnsynced(inflight)
        <5>1. file' = Append(file, inflight) /\ Lines(file') = Lines(file) \cup {inflight}
          BY <3>1, <3>3, <4>1, RecordEffect
        <5>2. file' # file
          BY <2>0, <3>3, <5>1, LinesAppend
        <5>3. pending' = pending
          BY <2>4, <5>2 DEF AppendOwn, RecordFailed
        <5>4. InSequence(file', by)
          BY <2>0, <3>1, <3>3, <5>1, InSequenceAppend DEF OrderInv, InOrder
        <5>5. QED
          BY <3>1, <3>3, <5>1, <5>3, <5>4 DEF OrderInv, InOrder, Logged
      <4>2. CASE RecordFailed /\ pending' = Append(pending, inflight)
        <5>1. file' = file
          BY <4>2 DEF RecordFailed
        <5>2. Lines(pending') = Lines(pending) \cup {inflight}
          BY <2>0, <3>3, <4>2, LinesAppend
        <5>3. InSequence(pending', by)
          BY <2>0, <3>3, <4>2, InSequenceAppend
        <5>4. QED
          BY <3>1, <3>3, <5>1, <5>2, <5>3 DEF OrderInv, InOrder, Logged
      <4>3. CASE RecordFailed /\ pending' = pending
        BY <3>1, <3>3, <4>3 DEF RecordFailed, OrderInv, InOrder, Logged
      <4>4. QED
        BY <2>4, <4>1, <4>2, <4>3 DEF AppendOwn
    <3>5. QED
      BY <3>1, <3>2, <3>4, HeldKept DEF OrderInv
  <2>5. CASE Crash \/ HostCrash
    <3>1. /\ pending' = << >> /\ inflight' = NoEvent /\ pc' = "down" /\ by' = by
          /\ \A c \in Callers : held'[c] = {}
      BY <2>5 DEF Crash, HostCrash, MemoryLost
    <3>2. Lines(pending') = {} /\ InSequence(pending', by)
      BY <3>1 DEF Lines, InSequence
    <3>3. InSequence(file', by)
      <4>1. CASE Crash
        BY <4>1 DEF Crash, OrderInv, InOrder
      <4>2. CASE HostCrash
        <5>1. PICK k \in synced..Len(file) : file' = SubSeq(file, 1, k)
          BY <4>2 DEF HostCrash
        <5>2. k \in 0..Len(file)
          BY <5>1 DEF TypeOK
        <5>3. QED
          BY <2>0, <5>1, <5>2, InSequencePrefix DEF OrderInv, InOrder
      <4>3. QED
        BY <2>5, <4>1, <4>2
    <3>4. InOrder'
      BY <3>1, <3>2, <3>3 DEF InOrder
    <3>5. QED
      BY <3>1, <3>4 DEF OrderInv, HeldInv
  <2>6. CASE Open
    <3>1. PICK n \in {states'} \cup Lines(file) :
                 /\ \A m \in {states'} \cup Lines(file) : m <= n
                 /\ next' = n + 1
      BY <2>6 DEF Open
    <3>2. UNCHANGED <<file, pending, inflight, held, by>> /\ pc = "down" /\ pc' = "idle"
      BY <2>6 DEF Open
    <3>3. pending = << >> /\ inflight = NoEvent /\ \A c \in Callers : held[c] = {}
      BY <3>2 DEF OrderInv
    <3>4. states' \in Int
      BY <2>6, WalAssumption DEF Open, TypeOK, Junk
    <3>5. \A m \in {states'} \cup Lines(file) : m \in Int
      BY <2>0, <3>4, WalAssumption DEF Lines, Seqs, Junk
    <3>6. \A m \in Lines(file) : m < next'
      <4>1. n \in Int
        BY <3>1, <3>5
      <4>2. ASSUME NEW m \in Lines(file) PROVE m < next'
        <5>1. m \in Int /\ m <= n /\ next' = n + 1
          BY <3>1, <3>5
        <5>2. QED
          BY <4>1, <5>1
      <4>3. QED
        BY <4>2
    <3>7. Logged' = Lines(file)
      BY <3>2, <3>3 DEF Logged, Lines
    <3>8. HeldInv'
      BY <3>2, <3>3, <3>6, <3>7 DEF HeldInv
    <3>9. QED
      BY <3>2, <3>8 DEF OrderInv, InOrder
  <2>7. CASE DiskChange \/ FlushSync \/ FlushState \/ SaveStateDone \/ UNCHANGED vars
    <3>1. /\ UNCHANGED <<file, pending, inflight, next, held, by>>
          /\ pc' = "down" <=> pc = "down"
      BY <2>7 DEF DiskChange, FlushSync, FlushState, FlushFailed, SaveStateDone, Flushed,
                  Return, vars
    <3>2. InOrder' /\ Logged' = Logged
      BY <3>1 DEF OrderInv, InOrder, Logged
    <3>3. QED
      BY <3>1, <3>2, HeldKept DEF OrderInv
  <2>8. ASSUME NEW c \in Callers, ReadState(c) \/ SaveStateCall(c) PROVE OrderInv'
    <3>1. /\ UNCHANGED <<file, pending, inflight, next, held, by>>
          /\ pc' = "down" <=> pc = "down"
      BY <2>8 DEF ReadState, SaveStateCall
    <3>2. InOrder' /\ Logged' = Logged
      BY <3>1 DEF OrderInv, InOrder, Logged
    <3>3. QED
      BY <3>1, <3>2, HeldKept DEF OrderInv
  <2>9. QED
    BY <2>1, <2>2, <2>3, <2>4, <2>5, <2>6, <2>7, <2>8 DEF Next
<1>3. OrderInv => InOrder
  BY DEF OrderInv
<1>4. QED
  BY <1>1, <1>2, <1>3, TypeCorrect, RecordsWhole, PTL DEF Spec

-----------------------------------------------------------------------------
(***************************************************************************)
(* Durability.  The strengthening says what syncNeeded is for: while it is *)
(* not set, an acknowledged event that left the queue is already synced.   *)
(***************************************************************************)

DurableInv ==
  /\ AckedKept
  /\ DurableUnlessBlocked
  /\ Fsync /\ ~syncNeeded => acked \subseteq Lines(pending) \cup SyncedLines

\* What was synced is in the file.
LEMMA SyncedInFile == TypeOK => SyncedLines \subseteq Lines(file)
<1> SUFFICES ASSUME TypeOK PROVE SyncedLines \subseteq Lines(file)
  OBVIOUS
<1>1. 1..synced \subseteq DOMAIN file
  BY DEF TypeOK
<1>2. QED
  BY <1>1 DEF SyncedLines, Lines

\* Every step keeps acknowledged records on their way to the disk.
LEMMA DurableInvariance == ~TruncateMayFail /\ Spec => []DurableInv
<1> SUFFICES ASSUME ~TruncateMayFail PROVE Spec => []DurableInv
  OBVIOUS
<1> USE DEF diskVars, memVars, callVars, callerVars, historyVars
<1>1. Init => DurableInv
  BY DEF Init, DurableInv, AckedKept, DurableUnlessBlocked
<1>2. TypeOK /\ WholeInv /\ DurableInv /\ [Next]_vars => DurableInv'
  <2> SUFFICES ASSUME TypeOK, WholeInv, DurableInv, [Next]_vars
               PROVE  DurableInv'
    OBVIOUS
  <2>0. /\ file \in Seq(Seqs \cup {Junk}) /\ pending \in Seq(Seqs)
        /\ inflight # NoEvent => inflight \in Seqs
        /\ Fsync \in BOOLEAN /\ syncNeeded \in BOOLEAN /\ blocked \in BOOLEAN
    BY WalAssumption DEF TypeOK, Seqs, NoEvent
  <2>00. SyncedLines \subseteq Lines(file)
    BY SyncedInFile
  <2>1. CASE FlushPending
    <3>1. /\ pending # << >> /\ torn = FALSE /\ syncNeeded = FALSE
          /\ UNCHANGED <<acked, blocked>>
      BY <2>1 DEF FlushPending, WholeInv, TypeOK
    <3>2. /\ Head(pending) \in Seqs
          /\ Lines(pending) = Lines(Tail(pending)) \cup {Head(pending)}
      BY <2>0, <3>1, LinesTail
    <3>3. CASE RecordWritten(Head(pending)) /\ pending' = Tail(pending)
      <4>1. /\ Lines(file') = Lines(file) \cup {Head(pending)}
            /\ SyncedLines \subseteq SyncedLines'
            /\ Fsync => SyncedLines' = Lines(file')
        BY <3>1, <3>2, <3>3, RecordEffect
      <4>2. QED
        BY <3>1, <3>2, <3>3, <4>1 DEF DurableInv, AckedKept, DurableUnlessBlocked
    <3>4. CASE RecordUnsynced(Head(pending)) /\ pending' = Tail(pending)
      <4>1. /\ Lines(file') = Lines(file) \cup {Head(pending)}
            /\ SyncedLines \subseteq SyncedLines'
            /\ syncNeeded' = TRUE
        BY <3>1, <3>2, <3>4, RecordEffect DEF RecordUnsynced
      <4>2. QED
        BY <3>1, <3>2, <3>4, <4>1 DEF DurableInv, AckedKept, DurableUnlessBlocked
    <3>5. CASE RecordFailed /\ pending' = pending
      BY <3>1, <3>5 DEF RecordFailed, DurableInv, AckedKept, DurableUnlessBlocked,
                        SyncedLines
    <3>6. QED
      BY <2>1, <3>3, <3>4, <3>5 DEF FlushPending
  <2>2. CASE AppendOwn
    <3>1. /\ pending = << >> /\ torn = FALSE /\ syncNeeded = FALSE
          /\ inflight # NoEvent /\ inflight \in Seqs
      BY <2>0, <2>2 DEF AppendOwn, Flushed, WholeInv, TypeOK
    <3>2. Lines(pending) = {}
      BY <3>1 DEF Lines
    <3>3. CASE /\ RecordWritten(inflight) /\ acked' = acked \cup {inflight}
               /\ UNCHANGED pending
      <4>1. /\ Lines(file') = Lines(file) \cup {inflight}
            /\ SyncedLines \subseteq SyncedLines'
            /\ Fsync => SyncedLines' = Lines(file')
        BY <3>1, <3>3, RecordEffect
      <4>2. QED
        BY <3>2, <3>3, <4>1 DEF DurableInv, AckedKept, DurableUnlessBlocked
    <3>4. CASE /\ RecordUnsynced(inflight) /\ UNCHANGED pending
               /\ \/ acked' = acked \cup {inflight} /\ blocked' = TRUE
                  \/ UNCHANGED <<acked, blocked>>
      <4>1. /\ Lines(file') = Lines(file) \cup {inflight}
            /\ SyncedLines \subseteq SyncedLines'
            /\ syncNeeded' = TRUE
        BY <3>1, <3>4, RecordEffect DEF RecordUnsynced
      <4>2. QED
        BY <3>2, <3>4, <4>1 DEF DurableInv, AckedKept, DurableUnlessBlocked
    <3>5. CASE /\ RecordFailed
               /\ \/ /\ pending' = Append(pending, inflight) /\ blocked' = TRUE
                     /\ acked' = acked \cup {inflight}
                  \/ UNCHANGED <<pending, acked, blocked>>
      <4>1. UNCHANGED <<file, synced, syncNeeded>>
        BY <3>5 DEF RecordFailed
      <4>2. SyncedLines' = SyncedLines
        BY <4>1 DEF SyncedLines
      <4>3. Lines(Append(pending, inflight)) = Lines(pending) \cup {inflight}
        <5>1. pending \in Seq(Seqs) /\ inflight \in Seqs
          BY <2>0, <3>1
        <5>2. QED
          BY <5>1, LinesAppend
      <4>4. CASE /\ pending' = Append(pending, inflight) /\ blocked' = TRUE
                 /\ acked' = acked \cup {inflight}
        <5>1. Lines(pending') = Lines(pending) \cup {inflight}
          BY <4>3, <4>4
        <5>2. QED
          BY <4>1, <4>2, <4>4, <5>1 DEF DurableInv, AckedKept, DurableUnlessBlocked
      <4>5. CASE UNCHANGED <<pending, acked, blocked>>
        BY <4>1, <4>2, <4>5 DEF DurableInv, AckedKept, DurableUnlessBlocked
      <4>6. QED
        BY <3>5, <4>4, <4>5
    <3>6. QED
      BY <2>2, <3>3, <3>4, <3>5 DEF AppendOwn
  <2>3. CASE FlushError
    <3>1. UNCHANGED <<file, synced, syncNeeded>>
      BY <2>3 DEF FlushError
    <3>2. SyncedLines' = SyncedLines
      BY <3>1 DEF SyncedLines
    <3>3. CASE /\ inflight # NoEvent /\ pending' = Append(pending, inflight)
               /\ acked' = acked \cup {inflight} /\ blocked' = TRUE
      <4>1. Lines(pending') = Lines(pending) \cup {inflight}
        BY <2>0, <3>3, LinesAppend
      <4>2. QED
        BY <3>1, <3>2, <3>3, <4>1 DEF DurableInv, AckedKept, DurableUnlessBlocked
    <3>4. CASE UNCHANGED <<pending, acked>> /\ (blocked' = TRUE \/ UNCHANGED blocked)
      BY <3>1, <3>2, <3>4 DEF DurableInv, AckedKept, DurableUnlessBlocked
    <3>5. QED
      BY <2>3, <3>3, <3>4 DEF FlushError
  <2>4. CASE FlushSync
    <3>1. UNCHANGED <<file, pending, acked, blocked>> /\ syncNeeded = TRUE
      BY <2>4 DEF FlushSync, TypeOK
    <3>2. CASE synced' = Len(file)
      <4>1. SyncedLines' = Lines(file)
        BY <2>0, <3>1, <3>2 DEF SyncedLines, Lines
      <4>2. QED
        BY <2>00, <3>1, <4>1 DEF DurableInv, AckedKept, DurableUnlessBlocked
    <3>3. CASE UNCHANGED <<syncNeeded, synced>>
      BY <3>1, <3>3 DEF DurableInv, AckedKept, DurableUnlessBlocked, SyncedLines
    <3>4. QED
      BY <2>4, <3>2, <3>3 DEF FlushSync
  <2>5. CASE SaveStateDone
    <3>1. /\ UNCHANGED <<file, synced, pending, acked, syncNeeded>>
          /\ pending = << >> /\ ~syncNeeded
      BY <2>5 DEF SaveStateDone, Flushed
    <3>2. Lines(pending) = {} /\ SyncedLines' = SyncedLines
      BY <3>1 DEF Lines, SyncedLines
    <3>3. QED
      BY <3>1, <3>2 DEF DurableInv, AckedKept, DurableUnlessBlocked
  <2>6. CASE Crash \/ HostCrash
    <3>1. acked' = {}
      BY <2>6 DEF Crash, HostCrash, MemoryLost
    <3>2. QED
      BY <3>1 DEF DurableInv, AckedKept, DurableUnlessBlocked
  <2>7. CASE DiskChange \/ CallerStep \/ FlushState \/ Open \/ UNCHANGED vars
    <3>1. UNCHANGED <<file, synced, pending, acked, syncNeeded, blocked>>
      BY <2>7 DEF DiskChange, CallerStep, Number, AppendCall, ReadState, SaveStateCall,
                  FlushState, Open, vars
    <3>2. QED
      BY <3>1 DEF DurableInv, AckedKept, DurableUnlessBlocked, SyncedLines
  <2>8. QED
    BY <2>1, <2>2, <2>3, <2>4, <2>5, <2>6, <2>7 DEF Next, CallerStep
<1>3. QED
  BY <1>1, <1>2, TypeCorrect, RecordsWhole, PTL DEF Spec

\* No acknowledged event is lost while the process lives: an Append that
\* returned nil has its event in events.jsonl or in the queue.
THEOREM AcknowledgedKept == ~TruncateMayFail /\ Spec => []AckedKept
<1>1. DurableInv => AckedKept
  BY DEF DurableInv
<1>2. QED
  BY <1>1, DurableInvariance, PTL

\* No acknowledged event is at risk of a power loss while Writable says true.
THEOREM RiskAnnounced == ~TruncateMayFail /\ Spec => []DurableUnlessBlocked
<1>1. DurableInv => DurableUnlessBlocked
  BY DEF DurableInv
<1>2. QED
  BY <1>1, DurableInvariance, PTL

\* state.json is replaced only by the last part of flushLocked, when the queue has
\* been drained: every event acknowledged by then is in events.jsonl.
THEOREM StateBehindLog == ~TruncateMayFail /\ Spec => StateFollowsLog
<1> USE DEF diskVars, memVars, callVars, callerVars, historyVars
<1>1. ASSUME AckedKept, [Next]_vars, stateFile' \notin {stateFile, 0}, pc' # "down"
      PROVE  acked \subseteq Lines(file)
  <2>1. ~(DiskChange \/ FlushSync \/ FlushPending \/ FlushError \/ AppendOwn
            \/ SaveStateDone \/ Crash \/ HostCrash \/ Open \/ UNCHANGED vars)
    BY <1>1 DEF DiskChange, FlushSync, FlushPending, FlushError, AppendOwn, SaveStateDone,
                Crash, HostCrash, MemoryLost, Open, vars
  <2>2. ~CallerStep
    BY <1>1 DEF CallerStep, Number, AppendCall, ReadState, SaveStateCall
  <2>3. FlushState
    BY <1>1, <2>1, <2>2 DEF Next, CallerStep
  <2>4. Lines(pending) = {}
    BY <2>3 DEF FlushState, Lines
  <2>5. QED
    BY <1>1, <2>4 DEF AckedKept
<1>2. AckedKept /\ [Next]_vars =>
        [stateFile' \notin {stateFile, 0} /\ pc' # "down" => acked \subseteq Lines(file)]_vars
  BY <1>1
<1>3. QED
  BY <1>2, AcknowledgedKept, PTL DEF Spec, StateFollowsLog

-----------------------------------------------------------------------------
(***************************************************************************)
(* Refinement: every step of the write-ahead log is a step of the abstract *)
(* event log or leaves its two variables alone.                            *)
(***************************************************************************)

\* The WAL implements the abstract event log: whatever fails or crashes, an event
\* moves from memory to the file in order, and leaves neither by itself.
THEOREM ImplementsEventLog == ~TruncateMayFail /\ Spec => LogSpec
<1> SUFFICES ASSUME ~TruncateMayFail PROVE Spec => LogSpec
  OBVIOUS
<1> USE DEF diskVars, memVars, callVars, callerVars, historyVars
<1>1. Init => Log!Init
  BY DEF Init, Log!Init
<1>2. TypeOK /\ WholeInv /\ InOrder /\ [Next]_vars => [Log!Next]_(Log!vars)
  <2> SUFFICES ASSUME TypeOK, WholeInv, InOrder, [Next]_vars
               PROVE  [Log!Next]_(Log!vars)
    OBVIOUS
  <2>0. /\ file \in Seq(Seqs \cup {Junk}) /\ pending \in Seq(Seqs)
        /\ inflight # NoEvent => inflight \in Seqs
    BY WalAssumption DEF TypeOK, Seqs, NoEvent
  <2>00. inflight # NoEvent => Log!Fresh(inflight)
    BY DEF InOrder, After, Lines, Log!Fresh
  <2>1. CASE FlushPending
    <3>1. pending # << >> /\ torn = FALSE /\ Head(pending) \in Seqs
      BY <2>0, <2>1, LinesTail DEF FlushPending, WholeInv, TypeOK
    <3>2. CASE /\ RecordWritten(Head(pending)) \/ RecordUnsynced(Head(pending))
               /\ pending' = Tail(pending)
      <4>1. file' = Append(file, Head(pending))
        BY <3>1, <3>2, RecordEffect
      <4>2. QED
        BY <3>1, <3>2, <4>1 DEF Log!Next, Log!Persist
    <3>3. CASE RecordFailed /\ UNCHANGED pending
      BY <3>3 DEF RecordFailed, Log!vars
    <3>4. QED
      BY <2>1, <3>2, <3>3 DEF FlushPending
  <2>2. CASE AppendOwn
    <3>1. /\ pending = << >> /\ torn = FALSE
          /\ inflight # NoEvent /\ inflight \in Seqs
      BY <2>0, <2>2 DEF AppendOwn, Flushed, WholeInv, TypeOK
    <3>2. CASE /\ RecordWritten(inflight) \/ RecordUnsynced(inflight)
               /\ UNCHANGED pending
      <4>1. file' = Append(file, inflight)
        BY <3>1, <3>2, RecordEffect
      <4>2. Log!Store(inflight)
        BY <2>00, <3>1, <3>2, <4>1 DEF Log!Store
      <4>3. QED
        BY <3>1, <4>2 DEF Log!Next
    <3>3. CASE RecordFailed /\ pending' = Append(pending, inflight)
      <4>1. Log!Hold(inflight)
        BY <2>00, <3>1, <3>3 DEF Log!Hold, RecordFailed
      <4>2. QED
        BY <3>1, <4>1 DEF Log!Next
    <3>4. CASE RecordFailed /\ UNCHANGED pending
      BY <3>4 DEF RecordFailed, Log!vars
    <3>5. QED
      BY <2>2, <3>2, <3>3, <3>4 DEF AppendOwn
  <2>3. CASE FlushError
    <3>1. file' = file
      BY <2>3 DEF FlushError
    <3>2. CASE inflight # NoEvent /\ pending' = Append(pending, inflight)
      <4>1. Log!Hold(inflight)
        BY <2>00, <3>1, <3>2 DEF Log!Hold
      <4>2. QED
        BY <2>0, <3>2, <4>1 DEF Log!Next
    <3>3. CASE UNCHANGED pending
      BY <3>1, <3>3 DEF Log!vars
    <3>4. QED
      BY <2>3, <3>2, <3>3 DEF FlushError
  <2>4. CASE Crash
    <3>1. pending' = << >> /\ file' = file
      BY <2>4 DEF Crash, MemoryLost
    <3>2. Len(file) \in 0..Len(file) /\ file = SubSeq(file, 1, Len(file))
      BY <2>0
    <3>3. Log!Restart
      BY <3>1, <3>2 DEF Log!Restart
    <3>4. QED
      BY <3>3 DEF Log!Next
  <2>5. CASE HostCrash
    <3>1. PICK k \in synced..Len(file) : file' = SubSeq(file, 1, k)
      BY <2>5 DEF HostCrash
    <3>2. k \in 0..Len(file)
      BY <3>1 DEF TypeOK
    <3>3. Log!Restart
      BY <2>5, <3>1, <3>2 DEF HostCrash, MemoryLost, Log!Restart
    <3>4. QED
      BY <3>3 DEF Log!Next
  <2>6. CASE DiskChange \/ CallerStep \/ FlushSync \/ FlushState \/ SaveStateDone
             \/ Open \/ UNCHANGED vars
    BY <2>6 DEF DiskChange, CallerStep, Number, AppendCall, ReadState, SaveStateCall,
                FlushSync, FlushState, SaveStateDone, Open, vars, Log!vars
  <2>7. QED
    BY <2>1, <2>2, <2>3, <2>4, <2>5, <2>6 DEF Next, CallerStep
<1>3. QED
  BY <1>1, <1>2, TypeCorrect, RecordsWhole, OrderKept, PTL DEF Spec, LogSpec, Log!Spec
=============================================================================
