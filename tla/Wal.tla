-------------------------------- MODULE Wal --------------------------------
(***************************************************************************)
(* The write-ahead log of internal/wal/wal.go: events.jsonl, state.json    *)
(* and the memory of the process that writes them.                         *)
(*                                                                         *)
(* Append and SaveState run under one mutex, so at most one call is in     *)
(* progress; a call is cut into the steps between which a crash leaves a   *)
(* different disk: the deferred sync, each record, the state file.  Their  *)
(* callers are the goroutines of main.go, which number events and read the *)
(* state under the mutex of the engine and call the log afterwards, so     *)
(* that another caller may come in between.  An event is its sequence      *)
(* number; the states map, and a state read from the engine, is the        *)
(* sequence number of the newest event it reflects.                        *)
(***************************************************************************)
EXTENDS Integers, Sequences

CONSTANTS
  Callers,          \* goroutines: "monitor", and the probes of the services
  Fsync,            \* wal.fsync of the configuration
  MaxSeq,           \* bound: events appended in a behaviour
  HostCrashes,      \* BOOLEAN: power loss, which also drops unsynced data
  TruncateMayFail   \* BOOLEAN: the rollback of a short write may fail

ASSUME WalAssumption ==
  /\ "nobody" \notin Callers
  /\ Fsync \in BOOLEAN
  /\ MaxSeq \in Nat
  /\ HostCrashes \in BOOLEAN
  /\ TruncateMayFail \in BOOLEAN

VARIABLES
  \* the disk
  disk,         \* its condition: "ok", "full" (ENOSPC, EDQUOT) or "failing"
  file,         \* complete lines of events.jsonl
  torn,         \* events.jsonl ends in a line without its newline
  synced,       \* lines a successful Sync has covered
  stateFile,    \* content of state.json
  stateSynced,  \* content of state.json a power loss falls back to
  \* struct WAL
  pending, states, stateDirty, syncNeeded, blocked,
  \* the call in progress
  pc, caller, inflight, err,
  \* the engine and the callers
  next,         \* next sequence number
  last,         \* newest sequence number the engine of this process holds
  held,         \* per caller: events it has numbered and not yet appended
  copy,         \* per caller: the state it has read and not yet saved
  \* history
  acked,        \* events whose Append returned nil in this process
  by            \* the caller that numbered an event

diskVars == <<file, torn, synced, stateFile, stateSynced>>
memVars == <<pending, states, stateDirty, syncNeeded, blocked>>
callVars == <<pc, caller, inflight, err>>
callerVars == <<next, last, held, copy>>
historyVars == <<acked, by>>
vars == <<disk, diskVars, memVars, callVars, callerVars, historyVars>>

Junk == -1      \* a line, or a state file, that does not decode
NoEvent == 0    \* no event in flight: the call is a SaveState
NoCopy == -1    \* the caller is not about to save a state
Due == -2       \* it has still to read the state it will save
Seqs == 1..MaxSeq

Lines(s) == {s[i] : i \in DOMAIN s}
SyncedLines == {file[i] : i \in 1..synced}

\* f may come after e in the log, if b tells their callers: it is another event,
\* and not an earlier one of the same caller.
After(e, f, b) == e # f /\ (b[e] = b[f] => e < f)
InSequence(s, b) == \A i, j \in DOMAIN s : i < j => After(s[i], s[j], b)

Init ==
  /\ disk = "ok"
  /\ file = << >> /\ torn = FALSE /\ synced = 0
  /\ stateFile = 0 /\ stateSynced = 0
  /\ pending = << >> /\ states = 0
  /\ stateDirty = FALSE /\ syncNeeded = FALSE /\ blocked = FALSE
  /\ pc = "idle" /\ caller = "nobody" /\ inflight = NoEvent /\ err = "nil"
  /\ next = 1 /\ last = 0
  /\ held = [c \in Callers |-> {}] /\ copy = [c \in Callers |-> NoCopy]
  /\ acked = {} /\ by \in [Seqs -> {"nobody"}]

(***************************************************************************)
(* The disk.  A write or a sync on a disk that is not "ok" may still       *)
(* succeed.  Results are sorted by isNoSpace.                              *)
(***************************************************************************)
DiskChange ==
  /\ disk' \in {"ok", "full", "failing"} \ {disk}
  /\ UNCHANGED <<diskVars, memVars, callVars, callerVars, historyVars>>

Fails(e) ==
  \/ disk = "full" /\ e = "nospace"
  \/ disk = "failing" /\ e = "error"

Errors == {"nospace", "error"}

(***************************************************************************)
(* appendRecord and writeEventLocked.                                      *)
(***************************************************************************)

\* One complete line; behind a partial line it completes that one instead.
AppendRecord(e) ==
  /\ file' = Append(file, IF torn THEN Junk ELSE e)
  /\ torn' = FALSE

RecordWritten(e) ==
  /\ AppendRecord(e)
  /\ synced' = IF Fsync THEN Len(file') ELSE synced
  /\ UNCHANGED syncNeeded

\* The record is in the file and its Sync failed.
RecordUnsynced(e) ==
  /\ Fsync
  /\ AppendRecord(e)
  /\ syncNeeded' = TRUE
  /\ UNCHANGED synced

\* A failed or short write is truncated away; the result of Truncate is
\* ignored.
RecordFailed ==
  /\ torn' \in {torn, torn \/ TruncateMayFail}
  /\ UNCHANGED <<file, synced, syncNeeded>>

(***************************************************************************)
(* The callers.  One handling (onSnapshot, onRecovery, publishReady, the   *)
(* startup of main) numbers its events at once, appends them one by one,   *)
(* reads the state and saves it.                                           *)
(***************************************************************************)

\* A snapshot may show nothing new, and a reboot numbers an event per unit; a
\* probe that is answered numbers one event, or does nothing at all.
Batch(c) == IF c = "monitor" THEN 0..MaxSeq ELSE {1}

\* Apply, ApplyReboot, ApplyRecovery or ConfirmReady, under the mutex of the
\* engine: a call of another goroutine may be in progress.
Number(c) ==
  /\ pc # "down" /\ caller # c /\ held[c] = {} /\ copy[c] = NoCopy
  /\ \E n \in Batch(c) :
       /\ next + n <= MaxSeq + 1
       /\ next' = next + n
       /\ last' = IF n = 0 THEN last ELSE next' - 1
       /\ held' = [held EXCEPT ![c] = next..next' - 1]
       /\ by' = [e \in Seqs |-> IF next <= e /\ e < next' THEN c ELSE by[e]]
  /\ copy' = [copy EXCEPT ![c] = Due]
  /\ UNCHANGED <<disk, diskVars, memVars, callVars, acked>>

AppendCall(c) ==
  /\ pc = "idle"
  /\ \E e \in held[c] :
       /\ \A f \in held[c] : e <= f
       /\ inflight' = e
       /\ held' = [held EXCEPT ![c] = @ \ {e}]
  /\ pc' = "flush" /\ caller' = c
  /\ UNCHANGED <<disk, diskVars, memVars, err, next, last, copy, historyVars>>

\* State of the engine, under its mutex again.
ReadState(c) ==
  /\ pc # "down" /\ caller # c /\ held[c] = {} /\ copy[c] = Due
  /\ copy' = [copy EXCEPT ![c] = last]
  /\ UNCHANGED <<disk, diskVars, memVars, callVars, next, last, held, historyVars>>

SaveStateCall(c) ==
  /\ pc = "idle" /\ copy[c] >= 0
  /\ pc' = "flush" /\ caller' = c
  /\ states' = copy[c] /\ stateDirty' = TRUE
  /\ copy' = [copy EXCEPT ![c] = NoCopy]
  /\ UNCHANGED <<disk, diskVars, pending, syncNeeded, blocked, inflight, err,
                 next, last, held, historyVars>>

(***************************************************************************)
(* flushLocked: the deferred sync, the pending events in order, the state. *)
(***************************************************************************)

FlushFailed(e) == pc' = "flushFailed" /\ err' = e

\* Mutation of FlushSync: the deferred sync is forgotten instead of done.
FlushSyncForgotten ==
  /\ pc = "flush" /\ syncNeeded
  /\ syncNeeded' = FALSE
  /\ UNCHANGED <<disk, diskVars, pending, states, stateDirty, blocked, callVars,
                 callerVars, historyVars>>

FlushSync ==
  /\ pc = "flush" /\ syncNeeded
  /\ \/ /\ syncNeeded' = FALSE /\ synced' = Len(file)
        /\ UNCHANGED <<pc, err>>
     \/ \E e \in Errors :
          /\ Fails(e) /\ FlushFailed(e)
          /\ UNCHANGED <<syncNeeded, synced>>
  /\ UNCHANGED <<disk, file, torn, stateFile, stateSynced, pending, states,
                 stateDirty, blocked, caller, inflight, callerVars, historyVars>>

\* Mutation of FlushPending: a record whose Sync failed stays queued.
FlushPendingKeeps ==
  /\ pc = "flush" /\ ~syncNeeded /\ pending # << >>
  /\ \/ /\ RecordWritten(Head(pending))
        /\ pending' = Tail(pending)
        /\ UNCHANGED <<pc, err>>
     \/ \E e \in Errors :
          /\ Fails(e) /\ FlushFailed(e)
          /\ RecordUnsynced(Head(pending)) \/ RecordFailed
          /\ UNCHANGED pending
  /\ UNCHANGED <<disk, stateFile, stateSynced, states, stateDirty, blocked,
                 caller, inflight, callerVars, historyVars>>

\* The record leaves the queue once it is in the file, synced or not.
FlushPending ==
  /\ pc = "flush" /\ ~syncNeeded /\ pending # << >>
  /\ \/ /\ RecordWritten(Head(pending))
        /\ pending' = Tail(pending)
        /\ UNCHANGED <<pc, err>>
     \/ \E e \in Errors :
          /\ Fails(e) /\ FlushFailed(e)
          /\ \/ RecordUnsynced(Head(pending)) /\ pending' = Tail(pending)
             \/ RecordFailed /\ UNCHANGED pending
  /\ UNCHANGED <<disk, stateFile, stateSynced, states, stateDirty, blocked,
                 caller, inflight, callerVars, historyVars>>

\* Mutation of FlushState: state.json is written ahead of the pending events.
FlushStateEarly ==
  /\ pc = "flush" /\ ~syncNeeded /\ stateDirty
  /\ stateFile' = states /\ stateDirty' = FALSE
  /\ stateSynced' = IF Fsync THEN states ELSE stateSynced
  /\ UNCHANGED <<disk, file, torn, synced, pending, states, syncNeeded,
                 blocked, callVars, callerVars, historyVars>>

\* writeStateLocked: temporary file, rename, and under fsync the directory.  A
\* failure of that last sync leaves the new state.json in place; one of the
\* rename, after the removal of the old file, leaves none.
FlushState ==
  /\ pc = "flush" /\ ~syncNeeded /\ pending = << >> /\ stateDirty
  /\ \/ /\ stateFile' = states
        /\ stateSynced' = IF Fsync THEN states ELSE stateSynced
        /\ stateDirty' = FALSE
        /\ UNCHANGED <<pc, err>>
     \/ \E e \in Errors :
          /\ Fails(e) /\ FlushFailed(e)
          /\ \/ UNCHANGED stateFile
             \/ stateFile' = 0
             \/ Fsync /\ stateFile' = states
          /\ UNCHANGED <<stateSynced, stateDirty>>
  /\ UNCHANGED <<disk, file, torn, synced, pending, states, syncNeeded,
                 blocked, caller, inflight, callerVars, historyVars>>

\* Mutation of Flushed: the queue is not drained first.
FlushedUndrained == pc = "flush" /\ ~syncNeeded /\ ~stateDirty

Flushed == pc = "flush" /\ ~syncNeeded /\ pending = << >> /\ ~stateDirty

(***************************************************************************)
(* How Append and SaveState return.                                        *)
(***************************************************************************)

Return == pc' = "idle" /\ caller' = "nobody" /\ inflight' = NoEvent /\ err' = "nil"

\* The handling ends with the error: the other events of the batch are not
\* appended, the state is not saved.
Abandoned ==
  /\ held' = [held EXCEPT ![caller] = {}]
  /\ copy' = [copy EXCEPT ![caller] = NoCopy]

\* Mutation of FlushError: the event of the Append is not remembered.
FlushErrorForgets ==
  /\ pc = "flushFailed"
  /\ Return
  /\ \/ /\ err = "nospace"
        /\ blocked' = TRUE
        /\ acked' = acked \cup ({inflight} \ {NoEvent})
        /\ UNCHANGED <<held, copy>>
     \/ /\ err = "error"
        /\ Abandoned
        /\ UNCHANGED <<blocked, acked>>
  /\ UNCHANGED <<disk, diskVars, pending, states, stateDirty, syncNeeded, next, last, by>>

\* Mutation of FlushError: SaveState, too, queues an event.
FlushErrorQueuesAny ==
  /\ pc = "flushFailed"
  /\ Return
  /\ \/ /\ err = "nospace"
        /\ blocked' = TRUE
        /\ pending' = Append(pending, inflight)
        /\ acked' = acked \cup ({inflight} \ {NoEvent})
        /\ UNCHANGED <<held, copy>>
     \/ /\ err = "error"
        /\ Abandoned
        /\ UNCHANGED <<pending, blocked, acked>>
  /\ UNCHANGED <<disk, diskVars, states, stateDirty, syncNeeded, next, last, by>>

\* flushLocked failed: a full disk queues the event of an Append and blocks,
\* any other error goes to the caller.
FlushError ==
  /\ pc = "flushFailed"
  /\ Return
  /\ \/ /\ err = "nospace"
        /\ blocked' = TRUE
        /\ IF inflight # NoEvent
             THEN /\ pending' = Append(pending, inflight)
                  /\ acked' = acked \cup {inflight}
             ELSE UNCHANGED <<pending, acked>>
        /\ UNCHANGED <<held, copy>>
     \/ /\ err = "error"
        /\ Abandoned
        /\ UNCHANGED <<pending, blocked, acked>>
  /\ UNCHANGED <<disk, diskVars, states, stateDirty, syncNeeded, next, last, by>>

\* Append writes its own event last.
AppendOwn ==
  /\ Flushed /\ inflight # NoEvent
  /\ Return
  /\ \/ /\ RecordWritten(inflight)
        /\ blocked' = FALSE /\ acked' = acked \cup {inflight}
        /\ UNCHANGED <<pending, held, copy>>
     \/ /\ Fails("nospace")
        /\ \/ RecordUnsynced(inflight) /\ UNCHANGED pending
           \/ RecordFailed /\ pending' = Append(pending, inflight)
        /\ blocked' = TRUE /\ acked' = acked \cup {inflight}
        /\ UNCHANGED <<held, copy>>
     \/ /\ Fails("error")
        /\ RecordUnsynced(inflight) \/ RecordFailed
        /\ Abandoned
        /\ UNCHANGED <<pending, blocked, acked>>
  /\ UNCHANGED <<disk, stateFile, stateSynced, states, stateDirty, next, last, by>>

\* Mutation of SaveStateDone: a successful SaveState does not unblock.
SaveStateDoneBlocked ==
  /\ Flushed /\ inflight = NoEvent
  /\ Return
  /\ UNCHANGED <<disk, diskVars, memVars, callerVars, historyVars>>

SaveStateDone ==
  /\ Flushed /\ inflight = NoEvent
  /\ Return
  /\ blocked' = FALSE
  /\ UNCHANGED <<disk, diskVars, pending, states, stateDirty, syncNeeded,
                 callerVars, historyVars>>

(***************************************************************************)
(* Crashes, and Open with Repair and the restore of the engine.            *)
(***************************************************************************)

MemoryLost ==
  /\ pc' = "down" /\ caller' = "nobody" /\ inflight' = NoEvent /\ err' = "nil"
  /\ pending' = << >> /\ states' = 0
  /\ stateDirty' = FALSE /\ syncNeeded' = FALSE /\ blocked' = FALSE
  /\ last' = 0 /\ acked' = {}
  /\ held' = [c \in Callers |-> {}] /\ copy' = [c \in Callers |-> NoCopy]

\* The next thing the call in progress does is to write a record.
Writing ==
  /\ pc = "flush" /\ ~syncNeeded
  /\ pending # << >> \/ (~stateDirty /\ inflight # NoEvent)

Crash ==
  /\ pc # "down"
  /\ MemoryLost
  /\ torn' \in {torn, torn \/ Writing}
  /\ UNCHANGED <<disk, file, synced, stateFile, stateSynced, next, by>>

\* Power loss keeps what was synced and any part of the rest.
HostCrash ==
  /\ HostCrashes /\ pc # "down"
  /\ MemoryLost
  /\ \E k \in synced..Len(file) :
       /\ file' = SubSeq(file, 1, k)
       /\ synced' = k
       /\ torn' \in {FALSE, torn \/ Writing \/ k < Len(file)}
  /\ stateFile' \in {stateFile, stateSynced} \cup
       (IF Fsync \/ stateFile = stateSynced THEN {} ELSE {Junk})
  /\ stateSynced' = stateFile'
  /\ UNCHANGED <<disk, next, by>>

\* Mutation of Open: no Repair of the torn tail.
OpenUnrepaired ==
  /\ pc = "down"
  /\ pc' = "idle"
  /\ states' = IF stateFile = Junk THEN 0 ELSE stateFile
  /\ \E n \in {states'} \cup Lines(file) :
       /\ \A m \in {states'} \cup Lines(file) : m <= n
       /\ last' = n /\ next' = n + 1
  /\ UNCHANGED <<disk, diskVars, pending, stateDirty, syncNeeded, blocked,
                 caller, inflight, err, held, copy, historyVars>>

\* The engine resumes after the newest sequence number either file holds, so
\* the number of an event lost from memory is given out again.
Open ==
  /\ pc = "down"
  /\ pc' = "idle"
  /\ torn' = FALSE
  /\ states' = IF stateFile = Junk THEN 0 ELSE stateFile
  /\ \E n \in {states'} \cup Lines(file) :
       /\ \A m \in {states'} \cup Lines(file) : m <= n
       /\ last' = n /\ next' = n + 1
  /\ UNCHANGED <<disk, file, synced, stateFile, stateSynced, pending,
                 stateDirty, syncNeeded, blocked, caller, inflight, err, held,
                 copy, historyVars>>

CallStep ==
  FlushSync \/ FlushPending \/ FlushState \/ FlushError \/ AppendOwn
    \/ SaveStateDone

Next ==
  \/ DiskChange
  \/ \E c \in Callers : Number(c)
  \/ \E c \in Callers : AppendCall(c)
  \/ \E c \in Callers : ReadState(c)
  \/ \E c \in Callers : SaveStateCall(c)
  \/ FlushSync
  \/ FlushPending
  \/ FlushState
  \/ FlushError
  \/ AppendOwn
  \/ SaveStateDone
  \/ Crash
  \/ HostCrash
  \/ Open

Spec == Init /\ [][Next]_vars

CallerStep ==
  \E c \in Callers : Number(c) \/ AppendCall(c) \/ ReadState(c) \/ SaveStateCall(c)

\* A call in progress runs to its end, the reconciliation ticker keeps the
\* monitor handling snapshots, and systemd restarts the process.
Fairness == WF_vars(CallStep) /\ WF_vars(CallerStep) /\ WF_vars(Open)

FairSpec == Spec /\ Fairness

-----------------------------------------------------------------------------
(***************************************************************************)
(* Properties.                                                             *)
(***************************************************************************)

\* Every variable has its type, whatever the disk did to the two files: a
\* damaged state.json, in particular, never reaches the states map (Open).
TypeOK ==
  /\ disk \in {"ok", "full", "failing"}
  /\ file \in Seq(Seqs \cup {Junk}) /\ torn \in BOOLEAN
  /\ synced \in 0..Len(file)
  /\ stateFile \in 0..MaxSeq \cup {Junk} /\ stateSynced \in 0..MaxSeq \cup {Junk}
  /\ pending \in Seq(Seqs) /\ states \in 0..MaxSeq
  /\ stateDirty \in BOOLEAN /\ syncNeeded \in BOOLEAN /\ blocked \in BOOLEAN
  /\ pc \in {"idle", "flush", "flushFailed", "down"}
  /\ inflight \in 0..MaxSeq /\ caller \in Callers \cup {"nobody"}
  /\ err \in {"nil", "nospace", "error"}
  /\ next \in 1..MaxSeq + 1 /\ last \in 0..MaxSeq
  /\ held \in [Callers -> SUBSET Seqs] /\ copy \in [Callers -> Due..MaxSeq]
  /\ acked \subseteq Seqs /\ by \in [Seqs -> Callers \cup {"nobody"}]

\* The log never repeats a transition, and never reorders those of one caller:
\* in events.jsonl, then the queue of events waiting for space, then the event of
\* the Append in progress, no sequence number comes twice and the events of one
\* goroutine are in increasing order, whatever writes and syncs failed and
\* wherever the process was killed (flushLocked, Append).  Events of two
\* goroutines may be out of order: they are numbered under the mutex of the
\* engine and appended under that of the log.
InOrder ==
  /\ InSequence(file, by) /\ InSequence(pending, by)
  /\ \A e \in Lines(file), f \in Lines(pending) : After(e, f, by)
  /\ inflight # NoEvent =>
       \A e \in Lines(file) \cup Lines(pending) : After(e, inflight, by)

\* An event whose Append returned nil is in events.jsonl or still queued for
\* it, as long as the process lives: no failure on the way loses it.
AckedKept == acked \subseteq Lines(file) \cup Lines(pending)

\* While Writable reports true every acknowledged event is in events.jsonl,
\* and under fsync in the part a power loss cannot take: an event at risk is
\* always announced by wal_writable 0.
DurableUnlessBlocked ==
  ~blocked =>
    acked \subseteq IF Fsync THEN SyncedLines ELSE Lines(file)

\* state.json is replaced only when no acknowledged event is still waiting in
\* memory, whichever call writes it and however old the state it was given
\* (flushLocked): a process killed later never leaves a state.json newer than an
\* event it had accepted and kept back.
StateFollowsLog ==
  [][ stateFile' \notin {stateFile, 0} /\ pc' # "down" => acked \subseteq Lines(file) ]_vars

\* The newest event state.json reflects is in the log.
\* The code does not keep it: README.md, Known limits.
StateInLog == stateFile \in {0, Junk} \cup Lines(file)

\* appendRecord: "A short or failed write is rolled back to the previous end
\* of the file so the next attempt cannot merge into a partial line."  No
\* record is ever lost in an undecodable merged line.
NoMergedLine == Junk \notin Lines(file)

\* The write-ahead log implements the abstract event log: events.jsonl is
\* its durable part, the pending slice its buffer.
Log == INSTANCE EventLog
         WITH Event <- Seqs, LossyRestart <- HostCrashes,
              durable <- file, buffered <- pending

LogSpec == Log!Spec

\* Once the disk stays usable, the deferred events reach the file and
\* Writable reports true again: the next SaveState retries the writes.
Drains == <>[](disk = "ok") => []<>(pending = << >> /\ ~syncNeeded /\ ~blocked)
=============================================================================
