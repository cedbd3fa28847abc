# A TLA+ model of systemd-transition-exporter

The exporter watches systemd units over D-Bus, turns every change between *active* and *not active* into a
numbered, timestamped event, keeps the events in a write-ahead log (WAL), and sends them to Prometheus Remote Write
receivers. This directory models the parts of it that hold state, model-checks them with TLC and proves the central
facts about the WAL and the probe registry with TLAPS.

## The system

| Part | Source | Model | Extent |
|---|---|---|---|
| write-ahead log | `internal/wal` | `EventLog`, `Wal`, `WalProofs` | all of it |
| state engine | `internal/engine`, handlers in `main.go` | `Engine` | all of it, for one unit |
| publishing, startup | `main.go` | `Delivery`, `Engine`, `Fill`, `Targets` | the state-changing code |
| delivery worker | `internal/delivery` | `Delivery`, `Slots`, `Samples` | all of it |
| remote write sender | `internal/remote_write` | `Delivery`, `Targets` | all but encoding, labels and statistics |
| configuration | `internal/config` | `Targets` | the `remote_write` part of `Load` |
| systemd monitor | `internal/systemd` | `Monitor`, `Engine` | all of it |
| journal recovery | `internal/recovery` | `Fill`, `Slots`, `Engine` | all of it |
| probes | `internal/{sip,dns,agw}/probe.go` | `Prober`, `ProberProofs`, `Engine` | registry and loop |
| packets, metrics, identity, version, debug hook | | | not modelled |

A change of a unit takes this way. The monitor goroutine (`RunResilient`) reads a snapshot when a signal arrives or
the reconciliation ticker fires and calls `onSnapshot`; `Engine.Apply` derives events from it. Each event is appended
to the WAL and offered to the queue of every delivery worker; then the state is saved. A worker collects a batch,
sends it in chunks and writes a checkpoint after each accepted chunk. A unit with a probe is held DOWN until a prober
goroutine gets an answer and calls `ConfirmReady`. After a lost bus, and at startup, the journal fills in the
transitions nobody saw, and the current slot of the clock (15 minutes by default) is republished as samples. Besides
the transitions a worker publishes samples of the availability: a heartbeat on a ticker and one sample near each edge
of a slot. They wait in a buffer of their own while the receiver is away.

## Modules

**`EventLog`** is what the WAL promises: a durable sequence and a buffer in front of it. An event enters once, behind
those its caller numbered before it, leaves the buffer only towards the end of the durable part, and only a restart
loses anything.

**`Wal`** is `wal.go`. The variables are `events.jsonl` (`file`, `torn`, `synced`), `state.json`, the fields of
`struct WAL`, the call in progress, and the callers: the goroutines of `main.go`. A caller numbers a batch of events
under the mutex of the engine (`Number`, `held`), appends them one by one (`AppendCall`), reads the state
(`ReadState`, `copy`) and saves it (`SaveStateCall`); another caller may come in between any two of these. The mutex
of the log allows one call at a time; a call is cut where a crash leaves a different disk: the deferred sync
(`FlushSync`), each pending record (`FlushPending`), the state file (`FlushState`), the event of the call
(`AppendOwn`). The disk is *ok*, *full* (ENOSPC, EDQUOT) or *failing*, and may change between any two steps. `Crash`
loses the memory and may tear the line being written; `HostCrash` also drops unsynced data. `Open` repairs the tail,
resets a damaged state file, and resumes numbering after the newest number on the disk. `by` remembers which caller
numbered an event: the log keeps the order of each, and no order between them.

**`Delivery`** is the way of an event to one receiver. Targets share nothing but the log, so one is enough. `Detect`,
`Store` and `Enqueue` are the steps of a publishing goroutine (numbering under the engine mutex, then append, then
enqueue). A process begins in the phase `Booting`, in which the events of the startup are stored and not enqueued;
`Scan`, the second read of the log, then hands the worker what is on the disk. `BeginRecovery`/`EndRecovery` bracket
`onRecovery`; `filled` are the recovered events the receiver has as samples of a fill; `SendChunk` and
`SaveCheckpoint` are the two halves of a turn of `sendEventsLocked`, with the attempts of one request in one step; the
rest is `Worker.Run` and `startup`. The log is used as `EventLog` describes it.

**`Engine`** follows one unit. systemd takes it through *inactive*, *starting*, *active* and *stopping*, with the
journal records the exporter reads: "Starting" (its id is the one named `messageIDUnitFailed`), "Failed to start" and
"Stopped" are taken for DOWN, "Started" for UP, and a main process that dies leaves none. A stamp may lag (`Skew`). The
monitor reads a snapshot, applies it, persists events one by one, reads the state and saves it, in separate steps, so
that changes, crashes and probe answers fall between them; so does `publishReady` (`ConfirmReady`, `AppendReady`,
`StateReady`, `SaveReady`, `Finish`), which runs beside the monitor. Recovery, reboot,
restore and replay are those of `engine.go` and `main.go`. `Append` and `SaveState` may return an error, and the
handlers of `main.go` then do what they do: `PersistRefused` and `SaveRefused` end the connection, `RecoveryRefused`
gives the recovery up, `AppendReady` drops the event. `refused` remembers that an event got no further than the
memory, or that a state which reflects it has been saved. Sequence numbers are left to `Delivery`.

**`Monitor`** is the life cycle of the D-Bus connection in `resilient.go` with the loop of `Monitor.Run`: connect, set
up, read the boot id, recover, read a first snapshot and hand it on, register the signal channel, run. A change
between that snapshot and the channel raises no signal. **`Prober`** is the registry and the loop that the SIP, DNS
and AGW probers share, for one service, with any number of overlapping runs. **`Fill`** is the reconstruction of a
slot from the journal, whose records are those of `Engine`; `truth` records what the unit really did, `seen` when the
engine last looked at it.

**`Slots`** is the slot arithmetic of `backfill.go` and the timer of the worker for the edges of a slot. **`Samples`**
extends it with the loop of `Worker.Run` as it publishes samples of one service: `pc` is the place in the loop,
`caller` and `return` stand for the nesting of its closures (`flush` is called from three places, `deliverStates` from
two). `buffer` is `pendingStates`, `published` the entry of the service; transitions and recovery jobs are only
counted, as what the samples have to wait for. Time passes while a request is out or the loop is in its `select`.

**`Targets`** is how receivers come and go. An operator edits the configuration, `Load` accepts or refuses it, and the
start of the process migrates the checkpoint of the old single-receiver form (`MigrateCheckpoint`, cut at each write to
the disk) and opens one target after the other, while those already open deliver. A fatal error or a crash ends the
process at any of these steps. `received` remembers what each receiver has. The operator puts the existing receiver
first when moving to `urls`, as the repository's README asks, and gives `url` no other receiver (`Follows`).

An operator whose comment begins with *Mutant* or *Mutation* is a deliberately wrong variant of the definition after
it, used to confirm that a property can fail. `PROJECT.json` pairs them and maps definitions to source lines.

## Runs

`tlc -config X.cfg M` runs configuration `X` of module `M`. The constants of a configuration switch parts of the
environment on and off.

| Run | Shows |
|---|---|
| `Wal_all` | `TypeOK`, `InOrder`, `AckedKept`, `DurableUnlessBlocked`, `NoMergedLine`, `StateFollowsLog`, the refinement `LogSpec` and the liveness property `Drains`: two goroutines, process crashes, power loss with fsync and disk failures |
| `Delivery_crash` | `CheckpointCovers`, `Owed`, `DroppedBehindRefusal` and `Delivers`: one publisher, a crash, events of the startup, a disk that fills up later, lost answers, rejections |
| `Delivery_all` | `TypeOK`, `CheckpointEarned` with everything switched on |
| `Engine_crash` | `Agree`, `Captured`, `Forward` with crashes, reboots, failed writes, and recoveries from a journal that lags and holds records that are no flips |
| `Engine_live` | `TypeOK`, `Ready`: a probed unit that stays active is UP in the end |
| `Monitor_live` | `TypeOK`, `CaughtUp`, `Reconnects` with every failure switched on |
| `Prober_runs` | `TypeOK`, `OneLoop`, `RegisteredAlive`, `AsksUntilAnswered` |
| `Samples_loop` | `TypeOK`, `EdgesExact`, `OutageFilled`, `NotBehind`, `HistoryFirst`, `Drained` for slots of whole minutes, with outages and rejections of the receiver, a transition and a recovery |
| `Fill_window` | `TypeOK`, `FillTruthful`, `FillContinuous` after a start and after an outage. `FillTruthful` excepts the samples before a first record that is no flip: those are wrong (Known limits) |
| `Targets_config` | `TypeOK`, `NothingSkipped`, `MarkedWhenCopied`, `Starts` with edits of the configuration, crashes and a full disk |

Two runs end in a violation, each of a statement of the repository that the code does not keep:

| Run | What happens |
|---|---|
| `Delivery_recovery` | a live event overtakes recovered ones, whose numbers the checkpoint then covers; a crash loses the recovery job with its fill, and the next start filters the events from the log (worker.go:162): against "every detected transition is delivered" (README.md:272) |
| `Engine_reboot` | a reboot before the slot is republished, because `ApplyReboot` follows `AdoptBootID` without an else: against "it must not be republished" (main.go:203-204) |

### Known limits

Each line is a property that fails when the constants of the named run are changed as shown. They mark how far the
properties above reach, and cases the code does not handle the way its documents say.

| Property | Run, with | What happens |
|---|---|---|
| `NoMergedLine` | `Wal_all`, `TruncateMayFail = TRUE` | the error of the rollback of a short write is ignored (wal.go:234); the next record merges into the partial line |
| `StateInLog` | `Wal_all` | one goroutine saves a state that reflects an event another has numbered and not yet appended (main.go:418-421), or whose append is then refused; and `Open` does not sync records an earlier process left unsynced, so that `state.json` survives a power loss that takes them (wal.go:89) |
| `CheckpointCovers` | `Delivery_crash`, both `Threads` | two publishers enqueue in the other order than they were numbered (main.go:371); the earlier event is filtered |
| `CheckpointCovers` | `Delivery_crash`, `QueueCap = 1` | an event rejected by a full queue (main.go:373) is covered by a later checkpoint |
| `CheckpointCovers` | `Delivery_crash`, `LossyStops = TRUE` | a number that was delivered but lost from memory on a full disk is given to a new event, which is filtered |
| `CheckpointCovers`, `Owed` | `Delivery_crash`, `FullStarts = TRUE` | an event of the startup is deferred on a full disk: the scan of the log does not see it (main.go:287) and nothing enqueues it; a later checkpoint covers it |
| `OnlyRefusedDropped` | `Delivery_crash` | a 4xx for one chunk drops chunks of the batch that were never sent (worker.go:154) |
| `FillRepublished` | `Delivery_crash` | a failing first send at startup loses the startup fill (worker.go:360) |
| `RefusedRetried` | `Engine_crash` | the engine has moved past an event when the log refuses it; nothing offers the event again, and the next saved state hides it (main.go:386, 411) |
| `RebootMarked` | `Engine_crash` | a record of the previous boot, recovered after `ApplyReboot`, leaves an UP over the reboot (main.go:259) |
| `LateAnswerDiscarded` | `Engine_live` | a probe answer handled after the exit of the unit and before its snapshot becomes an UP (engine.go:144) |
| `RecoveredAreFlips` | `Engine_crash` | the id named `messageIDUnitFailed` is that of "Starting" (journal.go:23), and a recovered start is logged as a DOWN ahead of its UP: against "deliberately different from the "Starting"/"Stopping" progress messages" (journal.go:18-19) |
| `Agree` | `Engine_crash`, `JournalLags = TRUE` | a record stamped after the next change of the unit makes the engine take that change for known (engine.go:95, 174) |
| `Agree` | `Engine_crash`, `MsTicks = 2` | a second change in the same millisecond is not emitted (engine.go:95) |
| `Agree`, `Forward` | `Engine_live` | the UP of a probe is numbered before a DOWN and appended after it (main.go:382-386) |
| `GapsRecovered` | `Monitor_live`, `JournalFails = FALSE` | a gap after a recovery whose snapshot failed is not recovered (resilient.go:88) |
| `WriteErrorStops` | `Monitor_live` | a write error inside `Run` reconnects instead of stopping (resilient.go:128) |
| `SlotContains`, `Drained` | `Samples_loop`, `Minute = 4`, `Hour = 12`, `Size = 6`, `Starts = {4, 6}`, `MaxTime = 13` | a window that is not whole minutes is accepted; `SlotStart` leaves the slot and the catch-up loop of the worker stands still (worker.go:321) |
| `DescribesMoment` | `Samples_loop` | an edge that waited is sampled with the state at the time of sampling (worker.go:244): against "still describes the moment it belongs to" (README.md:384) |
| `ClosedSlotUntouched` | `Samples_loop` | a buffer, or a recovery job, whose request is retried after the slot has ended is sent as it is: against "never writes into a slot that has already closed" (worker.go:393) |
| `EdgesPublished` | `Samples_loop` | an edge that waited is discarded once a later heartbeat has been published (worker.go:418): against "at both edges of every slot" (README.md:358) |
| `Starts` | `Targets_config`, `TornCreate = TRUE` | a crash between the creation of the migrated checkpoint and its content leaves one that no later start can decode (remote_write.go:120) |
| `MarkedWhenCopied` | `Targets_config`, `TornMarker = TRUE` | a marker that could not be written may exist all the same, while its copy is removed; the receiver starts from nothing (remote_write.go:143) |
| `NothingSkipped` | `Targets_config`, `HastyReorder = TRUE` | the order of `urls` changes after a start that ended before the migration was marked; the new first receiver inherits the position (config.go:257) |
| `NothingSkipped` | `Targets_config`, `EditURL = TRUE` | a legacy `url` that is edited in place keeps the checkpoint of the receiver before it (config.go:219-260) |
| `SlotSizeValid` | `Targets_config` | the window is not checked without remote write: against "must be valid even when Remote Write delivery is disabled" (config.go:206) |
| `FillTruthful` | `Fill_window`, `StaleEngine = TRUE` | a flip in an outage before the slot fills the slot with the old state (main.go:467) |
| `SlotStartTruthful` | `Fill_window` | a first record "Starting" or "Failed to start", inverted, claims UP before it (backfill.go:190): against "systemd reports a start only for a unit that was not active, so the state preceding the first transition inside the slot is that transition inverted" (backfill.go:179-181) |
| `FillTruthful` | `Fill_window`, `Unrecorded = TRUE` | a unit that dies, or is stopping, stays UP in the fill until the next record (journal.go:175) |
| `FillTruthful`, `FillContinuous` | `Fill_window`, `SubSecond = TRUE` | a flip within the last second fills the slot with the later state (journal.go:147) |

`CheckpointCovers` therefore holds for a single publisher without gaps, a queue that is large enough, a startup that can
write, and deferred events that reach the disk before the process stops; `CheckpointEarned` holds throughout. `Agree`,
`Captured` and `Forward` hold for units without a probe. `Agree` and `Captured` moreover hold as long as no event was
refused, or the process was restarted before a state with the refused event was saved.

### Bounds

The bounds are constants named in the modules. Two events of two callers (`Wal_all`) give one that waits behind
another, in either order, and one in flight behind one that waits; the run was also made with three events (3 million
states). Three events in chunks of one (`Delivery_crash`) give a batch of several chunks that fails in the middle, and
both flips of one snapshot; the safety properties were also checked with four events in chunks of two and two crashes.
`Delivery_all` has two events, one from each publisher, because everything else is switched on. Five ticks and two
faults (`Engine_crash`; a fault is a crash, a reboot or a failed write) allow a change before, between and after them,
and a stop and a start between two snapshots; the run was also made with six ticks, with seven and one fault, and with
`Skew = 2`. Two lost connections and three flips (`Monitor_live`) allow a loss during the recovery from a loss. Three
runs of a probe overlap; the run was also made with four. `Samples_loop` runs over the end of one slot of two minutes
into the next, with room for two edges (four in the code) and two samples, so that both limits are passed; one
transition and one recovery are enough to hold samples back in the queue, in the batch and in the job. Three crashes
and two edits (`Targets_config`) allow a failed migration, another configuration and a way back; the run was also made
with three edits. Seven milliseconds with a fill interval of two give windows with several ticks and transitions on,
between and after them.

`CHECK_DEADLOCK FALSE` stands where time or the number of changes is bounded, so that a behaviour ends.

### Fairness

- A goroutine in the middle of its work goes on (WF of the steps of a call, a send, a run).
- Tickers fire: reconciliation saves the state of each unit (`Wal`, `Engine`, `Monitor`), the flush ticker flushes.
  The `select` of the worker chooses at random among ready cases, hence SF for the queue and the
  ticker; in `Samples` also for the heartbeat and the slot timer.
- systemd restarts the process (`Restart=` in the unit file of `deploy/`).
- A probed service that is asked and stays active answers (WF of `Reply`; in `Prober`, asked again and again, SF of
  `Packet`), and an attempt to set up a connection or to read its first snapshot that is possible again and again
  succeeds some time (SF of `Setup` and `InitialSnapshot`).
- Nothing is assumed of units, bus, disk, receiver and operator; `Delivers`, `Drains`, `Drained` and `Starts` have their
  return, or a good configuration, as a premise.

### Assumptions about the environment

`Engine`: a unit changes at most once per tick, which in the runs is a millisecond, and the journal has stamped a
change before the next; a unit is not reloaded (*reloading* would be a DOWN without an exit time); `--until`, cut to
whole seconds, lies after the loss, because `reconnect_interval` and `RestartSec` are a second or more. `Fill`: the
runs leave out deaths and slow stops (`Unrecorded`). `Wal`: records are shorter than what a power loss can damage
inside synced data. `Delivery`, `Targets`: a checkpoint may fail only on a full disk. `Samples`: the steps of the loop
take no time, only requests and the wait in the `select` do. `Targets`: no two URLs have the same hash.

## Proofs

`WalProofs`, for every number of events, every set of callers and every setting of the other constants:

- `TypeCorrect`: `Spec => []TypeOK`.
- `NoRecordMerged`: no record merges into a torn line. It rests on `RecordsWhole`, whose invariant adds that a file is
  torn only while the process is down.
- `OrderKept`: `InOrder`. The inductive invariant adds that an event a caller holds is its own and comes after everything
  in the file, in `pending` and in flight, and that numbers not yet given out are larger than all of these: whatever is
  appended is new, and newer than what its caller appended before.
- `AcknowledgedKept` and `RiskAnnounced`: `AckedKept` and `DurableUnlessBlocked`. The invariant relates what is not
  synced to `syncNeeded` and `blocked`.
- `StateBehindLog`: `StateFollowsLog`. Only `FlushState` puts a new state into `state.json`, when `pending` is empty; by
  `AckedKept` every acknowledged event is then in the file.
- `ImplementsEventLog`: each step is a step of `EventLog` or leaves the log and the buffer alone. That an appended event
  is fresh in the sense of `EventLog` is what the invariant of `OrderKept` gives.

All but the first assume `~TruncateMayFail`, which they need (Known limits). They hold with and without fsync, and with
power loss.

`ProberProofs`: `RegistryConsistent`, for any number of runs: at most one run is alive and not cancelled, it is the
registered one, and a registered run is alive. The invariant adds that numbers not yet given out are unused and that
every live run but the registered one is cancelled.

Only model-checked: the liveness properties (out of the reach of the prover), and everything in
`Delivery`, `Engine`, `Monitor`, `Slots`, `Samples`, `Fill` and `Targets`.

## Not modelled

- Packets of the probes, encoding and labels of requests, host identity and version: formatting without state.
- The rest of `Load`: services and probe targets are checked one by one, and defaults fill in values.
- The metrics registry, the statistics of a sender, the HTTP endpoints and the debug hook: they report, and nothing
  reads them back.
- Several units in `Engine` and several targets in `Delivery`: they share the sequence and the log, which `Wal` and
  `Delivery` cover with two callers and two publishers. Units also share the reboot check of the startup, where the boot
  id of one makes `ApplyReboot` visit them all (main.go:190-217), and the order in which one connection recovers and
  reads them.
- A graceful stop of the worker (`ctx.Done`) makes one more attempt to flush and returns; for the log and the
  checkpoint it is a `Crash`.
- Clock changes, and local time: the slots are those of a clock without daylight saving.

## Plan

1. Proofs: `CheckpointEarned`, and `CheckpointCovers` for one publisher; `NothingSkipped`;
   `Forward` and `Agree`; the slot arithmetic (`SlotContains` for windows of whole minutes, the order of the edges).
2. Composition of `Engine`, `Wal` and `Delivery` in one module, with the sequence numbers of several units.
3. The metrics registry, as the reader of the states the other parts report.
