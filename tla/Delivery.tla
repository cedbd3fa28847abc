------------------------------ MODULE Delivery ------------------------------
(***************************************************************************)
(* The way of a transition event to one Remote Write receiver:             *)
(* cmd/systemd-transition-exporter/main.go (startup, persistEvent,         *)
(* onRecovery), internal/delivery/worker.go (queue, batch, pending         *)
(* recovery, startup) and internal/remote_write (chunks, checkpoint).      *)
(* Each target has its own worker, queue and checkpoint and shares only    *)
(* the log, so one target is modelled.                                     *)
(*                                                                         *)
(* An event is an identifier; num gives the sequence number the engine     *)
(* gave it, which a later process may give to another event.  The log is   *)
(* the abstract one of EventLog, with a durable part and a buffer.         *)
(***************************************************************************)
EXTENDS Integers, Sequences, FiniteSets, Functions

CONSTANTS
  Threads,      \* goroutines that publish events: "monitor" and, where a
                \* service has a probe, "prober"
  MaxEvents,    \* bound: events detected in a behaviour
  MaxCrashes,   \* bound: crashes in a behaviour
  BatchSize,    \* remote_write.batch_size
  QueueCap,     \* capacity of the queue of a worker
  Gaps,         \* BOOLEAN: the D-Bus connection is lost and recovered
  FillErrors,   \* BOOLEAN: BuildStateFill may fail in that recovery
  DiskFills,    \* BOOLEAN: the disk runs full
  FullStarts,   \* BOOLEAN: events of the startup may meet a full disk
  LossyStops,   \* BOOLEAN: a crash may find events that wait for disk space
  Rejects       \* BOOLEAN: the receiver may answer 4xx

ASSUME DeliveryAssumption ==
  /\ "monitor" \in Threads /\ Threads \subseteq {"monitor", "prober"}
  /\ MaxEvents \in Nat /\ MaxCrashes \in Nat
  /\ BatchSize \in Nat \ {0} /\ QueueCap \in Nat
  /\ Gaps \in BOOLEAN /\ FillErrors \in BOOLEAN /\ DiskFills \in BOOLEAN
  /\ FullStarts \in BOOLEAN /\ LossyStops \in BOOLEAN /\ Rejects \in BOOLEAN

VARIABLES
  \* the environment
  receiver,     \* "up" or "down"
  disk,         \* "ok" or "full"
  crashes,
  \* engine and main.go
  count,        \* events detected so far
  num,          \* sequence number of each event
  seq,          \* Engine.seq
  held,         \* per goroutine, numbered events still to be persisted
  stored,       \* per goroutine, whether Append of the first one returned
  gap,          \* onRecovery is running in the monitor
  recovered,    \* the events it has persisted
  \* EventLog
  durable, buffered,
  \* Worker
  queue, batch,
  hasJob, job,  \* pendingRecovery and its events
  fill,         \* StartupFill: "due", or "taken": sent, refused or kept for the loop
  pc, call,     \* control point, and the Send in progress
  todo,         \* events that Send has still to send
  sent,         \* the chunk accepted and not yet checkpointed
  \* Sender
  lastSent,
  checkpoint,   \* content of the checkpoint file
  \* history
  received,     \* events the receiver has accepted
  filled,       \* recovered transitions the receiver has accepted as samples
  refused,      \* events of a request answered 4xx
  dropped       \* events counted by OnDropped

envVars == <<receiver, disk, crashes>>
engineVars == <<count, num, seq, held, stored, gap, recovered>>
logVars == <<durable, buffered>>
runVars == <<batch, hasJob, job, fill, pc, call, todo, sent>>
senderVars == <<lastSent, checkpoint>>
historyVars == <<received, filled, refused, dropped>>
vars == <<envVars, engineVars, logVars, queue, runVars, senderVars, historyVars>>

Ids == 1..MaxEvents
Newest(S) == CHOOSE n \in S : \A m \in S : m <= n
Numbers(S) == {num[e] : e \in S}

\* Main is before the start of the workers, of the monitor and of the probes.
Booting == pc = "boot"
Running == pc # "down"

Init ==
  /\ receiver = "up" /\ disk = "ok" /\ crashes = 0
  /\ count = 0 /\ num = [e \in Ids |-> 0] /\ seq = 0
  /\ held = [t \in Threads |-> << >>] /\ stored = [t \in Threads |-> FALSE]
  /\ gap = FALSE /\ recovered = {}
  /\ durable = << >> /\ buffered = << >>
  /\ queue = << >> /\ batch = {} /\ hasJob = FALSE /\ job = {}
  /\ fill = "due" /\ pc = "boot" /\ call = "none" /\ todo = {} /\ sent = {}
  /\ lastSent = 0 /\ checkpoint = 0
  /\ received = {} /\ filled = {} /\ refused = {} /\ dropped = {}

EnvChange ==
  /\ \/ receiver' \in {"up", "down"} \ {receiver} /\ UNCHANGED disk
     \/ DiskFills /\ disk' \in {"ok", "full"} \ {disk} /\ UNCHANGED receiver
  /\ UNCHANGED <<crashes, engineVars, logVars, queue, runVars, senderVars,
                 historyVars>>

(***************************************************************************)
(* Publishing.  The engine numbers events under its mutex: both flips of   *)
(* one snapshot (Apply), a probe answer (ConfirmReady), one recovered      *)
(* transition (ApplyRecovery) or, at a startup, the units a reboot took    *)
(* down (ApplyReboot).  What follows runs outside that mutex.              *)
(***************************************************************************)

Detect(t) ==
  /\ Running /\ held[t] = << >> /\ (Booting => t = "monitor")
  /\ \E n \in IF t = "monitor" /\ ~gap THEN 1..2 ELSE {1} :
       LET new == count + 1 .. count + n IN
       /\ new \subseteq Ids
       /\ count' = count + n /\ seq' = seq + n
       /\ num' = [e \in Ids |-> IF e \in new THEN seq + e - count ELSE num[e]]
       /\ held' = [held EXCEPT ![t] = [i \in 1..n |-> count + i]]
  /\ UNCHANGED <<envVars, stored, gap, recovered, logVars, queue, runVars,
                 senderVars, historyVars>>

\* Append: to the file once nothing waits in front, to the buffer on a full
\* disk.
Store(t) ==
  /\ held[t] # << >> /\ ~stored[t]
  /\ stored' = [stored EXCEPT ![t] = TRUE]
  /\ \/ /\ buffered = << >>
        /\ durable' = Append(durable, Head(held[t])) /\ UNCHANGED buffered
     \/ /\ disk = "full" /\ (Booting => FullStarts)
        /\ buffered' = Append(buffered, Head(held[t])) /\ UNCHANGED durable
  /\ UNCHANGED <<envVars, count, num, seq, held, gap, recovered, queue, runVars,
                 senderVars, historyVars>>

\* A later Append or SaveState writes a buffered event.
Persist ==
  /\ Running /\ buffered # << >>
  /\ durable' = Append(durable, Head(buffered)) /\ buffered' = Tail(buffered)
  /\ UNCHANGED <<envVars, engineVars, queue, runVars, senderVars, historyVars>>

\* A command that does not fit the channel is not enqueued.
Offer(cmd) == queue' = IF Len(queue) < QueueCap THEN Append(queue, cmd) ELSE queue

\* persistEvent(event, true), or false when onRecovery collects the event.  An
\* event of the startup is only stored: the log is scanned after it.
Enqueue(t) ==
  /\ stored[t]
  /\ CASE Booting -> UNCHANGED <<queue, recovered>>
       [] ~Booting /\ gap /\ t = "monitor" ->
            recovered' = recovered \cup {Head(held[t])} /\ UNCHANGED queue
       [] OTHER ->
            /\ Offer([kind |-> "event", events |-> {Head(held[t])}])
            /\ UNCHANGED recovered
  /\ held' = [held EXCEPT ![t] = Tail(@)]
  /\ stored' = [stored EXCEPT ![t] = FALSE]
  /\ UNCHANGED <<envVars, count, num, seq, gap, logVars, runVars, senderVars,
                 historyVars>>

\* The monitor reconnected and recovers the gap before its next snapshot.
BeginRecovery ==
  /\ Running /\ ~Booting /\ Gaps /\ ~gap /\ held["monitor"] = << >>
  /\ gap' = TRUE /\ recovered' = {}
  /\ UNCHANGED <<envVars, count, num, seq, held, stored, logVars, queue, runVars,
                 senderVars, historyVars>>

\* EnqueueRecovery, or an error of BuildStateFill before it.
EndRecovery ==
  /\ Running /\ gap /\ held["monitor"] = << >>
  /\ \/ Offer([kind |-> "recovery", events |-> recovered])
     \/ FillErrors /\ UNCHANGED queue
  /\ gap' = FALSE /\ recovered' = {}
  /\ UNCHANGED <<envVars, count, num, seq, held, stored, logVars, runVars,
                 senderVars, historyVars>>

(***************************************************************************)
(* Sender.Send: filter by the checkpoint, sort by sequence number, then    *)
(* per chunk one request and one checkpoint.                               *)
(***************************************************************************)

BeginSend(c, S) ==
  /\ pc' = "send" /\ call' = c
  /\ todo' = {e \in S : num[e] > lastSent}

\* Mutation of Chunks: the events are not sorted.
ChunksUnsorted ==
  {C \in SUBSET todo :
     /\ C # {} /\ Cardinality(C) <= BatchSize
     /\ Cardinality(C) = BatchSize \/ C = todo}

\* The next chunk: the BatchSize events with the smallest numbers.
Chunks ==
  {C \in SUBSET todo :
     /\ C # {} /\ Cardinality(C) <= BatchSize
     /\ Cardinality(C) = BatchSize \/ C = todo
     /\ \A e \in C, f \in todo \ C : num[e] < num[f]}

\* Mutation of SendChunk: a request without an answer counts as accepted.
SendChunkOptimistic ==
  /\ pc = "send"
  /\ \E C \in Chunks :
       /\ pc' = "save" /\ sent' = C
       /\ received' \in {received, received \cup C}
  /\ UNCHANGED <<envVars, engineVars, logVars, queue, batch, hasJob, job, fill,
                 call, todo, senderVars, filled, refused, dropped>>

\* sendSeries with its attempts.  A request may be accepted and its answer
\* lost, whatever a later attempt returns.
SendChunk ==
  /\ pc = "send"
  /\ \E C \in Chunks :
       \/ /\ receiver = "up"
          /\ pc' = "save" /\ sent' = C /\ received' = received \cup C
          /\ UNCHANGED refused
       \/ /\ receiver = "down"
          /\ pc' = "failed" /\ received' \in {received, received \cup C}
          /\ UNCHANGED <<sent, refused>>
       \/ /\ Rejects /\ receiver = "up"
          /\ pc' = "refused" /\ received' \in {received, received \cup C}
          /\ refused' = refused \cup C /\ UNCHANGED sent
  /\ UNCHANGED <<envVars, engineVars, logVars, queue, batch, hasJob, job, fill,
                 call, todo, senderVars, filled, dropped>>

\* Mutation of SaveCheckpoint: the saved chunk is not forgotten.
SaveCheckpointKeeps ==
  /\ pc = "save"
  /\ LET n == Newest(Numbers(sent)) IN
     \/ /\ checkpoint' = n /\ lastSent' = n
        /\ pc' = "send" /\ todo' = todo \ sent
     \/ /\ disk = "full"
        /\ checkpoint' \in {checkpoint, n}
        /\ pc' = "failed" /\ UNCHANGED <<lastSent, todo>>
  /\ UNCHANGED <<envVars, engineVars, logVars, queue, batch, hasJob, job, fill,
                 call, sent, historyVars>>

\* saveCheckpoint: temporary file, rename, sync of the directory.  A failure
\* after the rename leaves the new file with the old lastSent.
SaveCheckpoint ==
  /\ pc = "save"
  /\ LET n == Newest(Numbers(sent)) IN
     \/ /\ checkpoint' = n /\ lastSent' = n
        /\ pc' = "send" /\ todo' = todo \ sent
     \/ /\ disk = "full"
        /\ checkpoint' \in {checkpoint, n}
        /\ pc' = "failed" /\ UNCHANGED <<lastSent, todo>>
  /\ sent' = {}
  /\ UNCHANGED <<envVars, engineVars, logVars, queue, batch, hasJob, job, fill,
                 call, historyVars>>

SendDone ==
  /\ pc = "send" /\ todo = {}
  /\ pc' = "ok"
  /\ UNCHANGED <<envVars, engineVars, logVars, queue, batch, hasJob, job, fill,
                 call, todo, sent, senderVars, historyVars>>

(***************************************************************************)
(* Worker.Run.                                                             *)
(***************************************************************************)

\* startup: what the log held when the process began and the checkpoint does
\* not cover, first the part before the recovery slot, then the fill, then
\* the rest.
Startup ==
  /\ pc = "start"
  /\ \E k \in 0..Len(durable) :
       BeginSend("old", batch \cap {durable[i] : i \in 1..k})
  /\ UNCHANGED <<envVars, engineVars, logVars, queue, batch, hasJob, job, fill,
                 sent, senderVars, historyVars>>

\* Mutation of OldReturns: an error keeps only the part not yet tried.
OldReturnsRest ==
  /\ call = "old"
  /\ \/ /\ pc = "ok"
        /\ batch' = {e \in batch : num[e] > lastSent}
        /\ fill' = "taken"
        /\ BeginSend("new", batch')
     \/ /\ pc \in {"failed", "refused"}
        /\ batch' = batch \ todo
        /\ pc' = "top" /\ call' = "none" /\ todo' = {}
        /\ UNCHANGED fill
  /\ UNCHANGED <<envVars, engineVars, logVars, queue, hasJob, job, sent,
                 senderVars, historyVars>>

\* An error keeps everything for the loop and leaves the fill where it is.
OldReturns ==
  /\ call = "old"
  /\ \/ /\ pc = "ok"
        /\ batch' = {e \in batch : num[e] > lastSent}
        /\ fill' = "taken"
        /\ BeginSend("new", batch')
     \/ /\ pc \in {"failed", "refused"}
        /\ pc' = "top" /\ call' = "none" /\ todo' = {}
        /\ UNCHANGED <<batch, fill>>
  /\ UNCHANGED <<envVars, engineVars, logVars, queue, hasJob, job, sent,
                 senderVars, historyVars>>

NewReturns ==
  /\ call = "new" /\ pc \in {"ok", "failed", "refused"}
  /\ batch' = IF pc = "ok" THEN {} ELSE batch
  /\ pc' = "top" /\ call' = "none" /\ todo' = {}
  /\ UNCHANGED <<envVars, engineVars, logVars, queue, hasJob, job, fill, sent,
                 senderVars, historyVars>>

\* The head of the loop: a pending recovery is tried before anything else.
Top ==
  /\ pc = "top"
  /\ \/ hasJob /\ BeginSend("flushFirst", batch)
     \/ ~hasJob /\ pc' = "select" /\ UNCHANGED <<call, todo>>
  /\ UNCHANGED <<envVars, engineVars, logVars, queue, batch, hasJob, job, fill,
                 sent, senderVars, historyVars>>

TakeEvent ==
  /\ pc = "select" /\ queue # << >> /\ Head(queue).kind = "event"
  /\ queue' = Tail(queue)
  /\ batch' = batch \cup Head(queue).events
  /\ IF Cardinality(batch') >= BatchSize
       THEN BeginSend("flush", batch')
       ELSE pc' = "top" /\ UNCHANGED <<call, todo>>
  /\ UNCHANGED <<envVars, engineVars, logVars, hasJob, job, fill, sent,
                 senderVars, historyVars>>

\* A recovery job that finds another one pending is appended to it.
TakeRecovery ==
  /\ pc = "select" /\ queue # << >> /\ Head(queue).kind = "recovery"
  /\ queue' = Tail(queue)
  /\ hasJob' = TRUE /\ job' = job \cup Head(queue).events
  /\ pc' = "top"
  /\ UNCHANGED <<envVars, engineVars, logVars, batch, fill, call, todo, sent,
                 senderVars, historyVars>>

\* flushTicker; the flush of a heartbeat or slot sample does the same.
FlushTick ==
  /\ pc = "select"
  /\ BeginSend("flush", batch)
  /\ UNCHANGED <<envVars, engineVars, logVars, queue, batch, hasJob, job, fill,
                 sent, senderVars, historyVars>>

\* Mutant: a batch is dropped on any error.
FlushReturnsDrops ==
  /\ call \in {"flush", "flushFirst"}
  /\ \/ pc = "ok" /\ batch' = {} /\ UNCHANGED dropped
     \/ pc \in {"failed", "refused"} /\ batch' = {} /\ dropped' = dropped \cup batch
  /\ pc' = IF call = "flush" THEN "top" ELSE "fill"
  /\ call' = "none" /\ todo' = {}
  /\ UNCHANGED <<envVars, engineVars, logVars, queue, hasJob, job, fill, sent,
                 senderVars, received, filled, refused>>

\* flush: a batch is kept on an error and dropped as a whole on a 4xx.
FlushReturns ==
  /\ call \in {"flush", "flushFirst"}
  /\ \/ pc = "ok" /\ batch' = {} /\ UNCHANGED dropped
     \/ pc = "refused" /\ batch' = {} /\ dropped' = dropped \cup batch
     \/ pc = "failed" /\ UNCHANGED <<batch, dropped>>
  /\ IF call = "flush" THEN pc' = "top" /\ call' = "none" /\ todo' = {}
     ELSE IF pc = "failed" THEN pc' = "select" /\ call' = "none" /\ todo' = {}
     ELSE pc' = "fill" /\ call' = "none" /\ todo' = {}
  /\ UNCHANGED <<envVars, engineVars, logVars, queue, hasJob, job, fill, sent,
                 senderVars, received, filled, refused>>

\* SendRecoveredStates: the fill has a sample of every recovered transition.
\* sendRecovery goes on from it, accepted or refused, unless the receiver is away.
SendFill ==
  /\ pc = "fill"
  /\ \/ receiver = "up" /\ filled' = filled \cup job /\ BeginSend("events", job)
     \/ Rejects /\ receiver = "up" /\ UNCHANGED filled /\ BeginSend("events", job)
     \/ receiver = "down" /\ pc' = "select" /\ UNCHANGED <<filled, call, todo>>
  /\ UNCHANGED <<envVars, engineVars, logVars, queue, batch, hasJob, job, fill,
                 sent, senderVars, received, refused, dropped>>

EventsReturn ==
  /\ call = "events"
  /\ \/ pc = "ok" /\ hasJob' = FALSE /\ job' = {} /\ UNCHANGED dropped
     \/ /\ pc = "refused" /\ hasJob' = FALSE /\ job' = {}
        /\ dropped' = dropped \cup job
     \/ pc = "failed" /\ UNCHANGED <<hasJob, job, dropped>>
  /\ pc' = "select" /\ call' = "none" /\ todo' = {}
  /\ UNCHANGED <<envVars, engineVars, logVars, queue, batch, fill, sent,
                 senderVars, received, filled, refused>>

(***************************************************************************)
(* Crash (or stop) of the process, and the next start.                     *)
(***************************************************************************)

Crash ==
  /\ Running /\ crashes < MaxCrashes
  /\ buffered = << >> \/ LossyStops
  /\ crashes' = crashes + 1
  /\ pc' = "down" /\ call' = "none" /\ todo' = {} /\ sent' = {}
  /\ batch' = {} /\ hasJob' = FALSE /\ job' = {} /\ queue' = << >>
  /\ buffered' = << >>
  /\ held' = [t \in Threads |-> << >>] /\ stored' = [t \in Threads |-> FALSE]
  /\ gap' = FALSE /\ recovered' = {}
  /\ fill' = "due" /\ lastSent' = 0 /\ seq' = 0
  /\ UNCHANGED <<receiver, disk, count, num, durable, checkpoint, historyVars>>

\* Replay of the log gives the engine its number back, and loadCheckpoint gives
\* the sender its position.  The newer number that state.json may hold (module
\* Wal, StateInLog) would only leave a gap in the sequence.
Restart ==
  /\ pc = "down"
  /\ pc' = "boot"
  /\ seq' = Newest({0} \cup Numbers(Range(durable)))
  /\ lastSent' = checkpoint
  /\ UNCHANGED <<envVars, count, num, held, stored, gap, recovered, logVars, queue,
                 batch, hasJob, job, fill, call, todo, sent, checkpoint, historyVars>>

\* Mutation of Scan: the worker starts with an empty batch.
ScanNothing ==
  /\ Booting /\ held["monitor"] = << >>
  /\ pc' = "start"
  /\ batch' = {}
  /\ UNCHANGED <<envVars, engineVars, logVars, queue, hasJob, job, fill, call, todo,
                 sent, senderVars, historyVars>>

\* Once the events of the startup are stored, ReadAll gives the worker the events
\* of the file; one that waits for disk space is not among them.
Scan ==
  /\ Booting /\ held["monitor"] = << >>
  /\ pc' = "start"
  /\ batch' = {e \in Range(durable) : num[e] > lastSent}
  /\ UNCHANGED <<envVars, engineVars, logVars, queue, hasJob, job, fill, call, todo,
                 sent, senderVars, historyVars>>

Publish(t) == Store(t) \/ Enqueue(t)

Select == TakeEvent \/ TakeRecovery

SendStep ==
  \/ SendChunk \/ SaveCheckpoint \/ SendDone
  \/ Scan \/ Startup \/ OldReturns \/ NewReturns
  \/ Top \/ FlushReturns \/ SendFill \/ EventsReturn

Next ==
  \/ EnvChange
  \/ \E t \in Threads : Detect(t)
  \/ \E t \in Threads : Store(t)
  \/ \E t \in Threads : Enqueue(t)
  \/ Persist
  \/ BeginRecovery
  \/ EndRecovery
  \/ SendChunk
  \/ SaveCheckpoint
  \/ SendDone
  \/ Startup
  \/ OldReturns
  \/ NewReturns
  \/ Top
  \/ TakeEvent
  \/ TakeRecovery
  \/ FlushTick
  \/ FlushReturns
  \/ SendFill
  \/ EventsReturn
  \/ Crash
  \/ Restart
  \/ Scan

Spec == Init /\ [][Next]_vars

\* Every goroutine runs on, the reconciliation ticker retries the log, and
\* systemd restarts the process.  The two ready cases of the select, the
\* queue and the ticker, are chosen at random, so neither starves.
Fairness ==
  /\ \A t \in Threads : WF_vars(Publish(t))
  /\ WF_vars(Persist) /\ WF_vars(EndRecovery)
  /\ WF_vars(SendStep)
  /\ SF_vars(Select) /\ SF_vars(FlushTick)
  /\ WF_vars(Restart)

FairSpec == Spec /\ Fairness

-----------------------------------------------------------------------------
(***************************************************************************)
(* Properties.                                                             *)
(***************************************************************************)

Command == [kind : {"event", "recovery"}, events : SUBSET Ids]

\* Every variable has its type; the numbers in use never exceed the number of
\* events detected.
TypeOK ==
  /\ receiver \in {"up", "down"} /\ disk \in {"ok", "full"}
  /\ crashes \in 0..MaxCrashes
  /\ count \in 0..MaxEvents /\ num \in [Ids -> 0..MaxEvents]
  /\ seq \in 0..count
  /\ held \in [Threads -> Seq(1..count)] /\ stored \in [Threads -> BOOLEAN]
  /\ gap \in BOOLEAN /\ recovered \subseteq 1..count
  /\ durable \in Seq(1..count) /\ buffered \in Seq(1..count)
  /\ queue \in Seq(Command) /\ batch \subseteq 1..count
  /\ hasJob \in BOOLEAN /\ job \subseteq 1..count
  /\ fill \in {"due", "taken"}
  /\ pc \in {"boot", "start", "top", "select", "send", "save", "fill", "ok", "failed",
             "refused", "down"}
  /\ call \in {"none", "old", "new", "flush", "flushFirst", "events"}
  /\ todo \subseteq 1..count /\ sent \subseteq todo
  /\ lastSent \in 0..MaxEvents /\ checkpoint \in 0..MaxEvents
  /\ received \subseteq 1..count /\ filled \subseteq 1..count
  /\ refused \subseteq 1..count
  /\ dropped \subseteq 1..count

Logged == Range(durable) \cup Range(buffered)
Settled == received \cup filled \cup dropped

\* Recovered transitions whose fill is still to come.
Recovering ==
  recovered \cup job \cup UNION {q.events : q \in {r \in Range(queue) : r.kind = "recovery"}}

\* The checkpoint never passes an event by: an event of the log whose number
\* the checkpoint covers was accepted by the receiver, as an event or as a sample
\* of a recovery fill, was counted as dropped, or has its fill ahead of it.  Send
\* filters it from now on, in this process and in the next (README: "every
\* detected transition is delivered", "at-least-once per target").
CheckpointCovers ==
  \A e \in Logged : num[e] <= checkpoint => e \in Settled \cup Recovering

\* README: "A target checkpoint advances only after that receiver returns
\* 2xx": the position in the checkpoint file is that of an accepted event,
\* whatever raced, failed or crashed on the way.
CheckpointEarned == checkpoint \in {0} \cup Numbers(received)

\* An event of the log that is still owed to the receiver is on its way to it:
\* held by its publisher, queued, in the batch, in the pending recovery, or,
\* until the workers start, in the file they will start from.
Owed ==
  Running /\ ~Booting =>
    Logged \ Settled \subseteq
      UNION {Range(held[t]) : t \in Threads} \cup recovered
        \cup UNION {queue[i].events : i \in DOMAIN queue}
        \cup batch \cup job

\* Nothing is dropped but what a 4xx holds up: an event that is counted as dropped
\* and that the receiver does not have is one of a refused request, or comes
\* after one.
DroppedBehindRefusal ==
  \A e \in dropped \ received : \E f \in refused : num[f] <= num[e]

\* Once the receiver and the disk stay available, every event of the log is
\* accepted or counted as dropped, across crashes, lost answers and retries.
\* With finitely many events this is the same as: each of them, some time
\* after it was logged.
Delivers ==
  <>[](receiver = "up" /\ disk = "ok") => []<>(Range(durable) \subseteq Settled)

\* README: "a request rejected with HTTP 4xx is dropped from the send queue":
\* only events of a rejected request are dropped.
\* The code does not keep it: README.md, Known limits.
OnlyRefusedDropped == dropped \subseteq refused \cup received

\* README: "The recovered slot is then republished as samples, not left to
\* interpolation": when the loop runs, the startup fill was sent, was refused
\* or waits in the state buffer.
\* The code does not keep it: README.md, Known limits.
FillRepublished == pc \in {"top", "select"} => fill # "due"
=============================================================================
