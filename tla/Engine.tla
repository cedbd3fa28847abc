------------------------------- MODULE Engine -------------------------------
(***************************************************************************)
(* How the flips of one systemd unit become transition events: the state   *)
(* engine of internal/engine/engine.go and the code of main.go that drives *)
(* it, onSnapshot, publishReady, onRecovery and the restore at startup.    *)
(*                                                                         *)
(* Time is counted in ticks, MsTicks of them to a millisecond; systemd     *)
(* stamps in ticks (microseconds), events carry milliseconds.  The events  *)
(* are in the order of their sequence numbers, which are left out here     *)
(* (see Delivery), and the log stores what it is given or returns an error *)
(* (see Wal).                                                              *)
(***************************************************************************)
EXTENDS Integers, Sequences

CONSTANTS
  MsTicks,      \* ticks per millisecond
  MaxTime,      \* bound: ticks in a behaviour
  Skew,         \* most ticks by which the journal stamps a change later than systemd
  JournalLags,  \* BOOLEAN: a unit may change again before the journal has stamped
                \* the change before
  Delayed,      \* BOOLEAN: the unit has a probe (DelayUpUntilReady)
  MaxFaults,    \* bound: crashes, reboots and failed writes in a behaviour
  Reboots,      \* BOOLEAN: a restart may be one of the host
  WriteErrors   \* BOOLEAN: Append and SaveState of the log may return an error

ASSUME EngineAssumption ==
  /\ MsTicks \in Nat \ {0} /\ MaxTime \in Nat /\ Skew \in Nat
  /\ Delayed \in BOOLEAN /\ MaxFaults \in Nat /\ Reboots \in BOOLEAN
  /\ JournalLags \in BOOLEAN /\ WriteErrors \in BOOLEAN

VARIABLES
  now, faults,
  unit,       \* what systemd reports: phase, enter and exit times of active, boot
  bootTime,   \* start of the current boot
  journal,    \* the records of the unit that messageState takes for a transition;
              \* one whose stamp is still to come is on its way
  st,         \* Engine.states of the unit
  saved,      \* its entry in state.json
  log,        \* events.jsonl
  pc,         \* control point of the monitor goroutine
  snap,       \* the snapshot it has read
  emit,       \* events Apply returned and persist has not seen yet
  copy,       \* the state it has read from the engine to save it
  gap,        \* why the journal has to be read before the next snapshot
  rec,        \* journal records the recovery has read and not applied yet
  slot,       \* start of the recovery slot of a startup, until it is recovered
  lost,       \* when the connection or the process was lost
  probing,    \* Prober.running has an entry
  reply,      \* an answer is in the socket of that run
  answer,     \* time one was read whose ready callback has not run, or 0
  mine,       \* the run that got the answer is the one in Prober.running
  pub,        \* control point of publishReady, with the event or the state it holds
  base,       \* history: time of the first look, or of the first start
  refused     \* history: an event was refused; it is lost with the "memory" that
              \* has it, or also from the "disk", once a state with it is saved

unitVars == <<now, unit, bootTime, journal>>
engineVars == <<st, saved, log>>
monitorVars == <<pc, snap, emit, copy, gap, rec, slot, lost>>
proberVars == <<probing, reply, answer, mine, pub>>
vars == <<unitVars, faults, engineVars, monitorVars, proberVars, base, refused>>

Ms(t) == t \div MsTicks
Later(a, b) == IF a > b THEN a ELSE b
Availability(active) == IF active THEN "up" ELSE "down"
Active(u) == u.phase = "active"

NoState ==
  [known |-> FALSE, avail |-> "down", boot |-> 0, enter |-> 0, exit |-> 0,
   lastMs |-> 0, awaiting |-> FALSE]

NoUnit == [phase |-> "inactive", enter |-> 0, exit |-> 0, boot |-> 0]

Init ==
  /\ now = 1 /\ faults = 0
  /\ unit \in [phase : {"active"}, enter : {1}, exit : {0}, boot : {1}]
         \cup [phase : {"inactive"}, enter : {0}, exit : {0}, boot : {1}]
  /\ bootTime = 0 /\ journal = << >>
  /\ st = NoState /\ saved = NoState /\ log = << >>
  /\ pc = "idle" /\ snap = NoUnit /\ emit = << >> /\ copy = NoState
  /\ gap = "start" /\ rec = << >> /\ slot = 0 /\ lost = 0
  /\ probing = FALSE /\ reply = FALSE /\ answer = 0 /\ mine = FALSE
  /\ pub = [at |-> "no"] /\ base = now /\ refused = "no"

(***************************************************************************)
(* systemd.  The unit changes at most once per tick.  "Starting" (the id   *)
(* named messageIDUnitFailed), "Failed to start" and "Stopped" are taken   *)
(* for DOWN, "Started" for UP; a main process that dies leaves none of     *)
(* them.                                                                   *)
(***************************************************************************)

LastStamp == IF journal = << >> THEN 0 ELSE journal[Len(journal)].at

Change(phase) ==
  /\ now < MaxTime /\ now' = now + 1
  /\ now' > LastStamp \/ JournalLags
  /\ unit' = [unit EXCEPT !.phase = phase,
                          !.enter = IF phase = "active" THEN now' ELSE @,
                          !.exit = IF unit.phase = "active" THEN now' ELSE @]
  /\ UNCHANGED <<faults, bootTime, engineVars, monitorVars, proberVars, base, refused>>

\* The stamp is that of the arrival at the journal, and records arrive in order.
Recorded(state, flip) ==
  \E late \in 0..Skew :
    journal' = Append(journal, [state |-> state, at |-> Later(now' + late, LastStamp),
                                flip |-> flip, boot |-> unit.boot])

UnitStarting ==
  unit.phase = "inactive" /\ Change("starting") /\ Recorded("down", FALSE)

UnitStarted ==
  unit.phase = "starting" /\ Change("active") /\ Recorded("up", TRUE)

UnitStartFails ==
  unit.phase = "starting" /\ Change("inactive") /\ Recorded("down", FALSE)

UnitStopping ==
  unit.phase = "active" /\ Change("stopping") /\ UNCHANGED journal

UnitStopped ==
  unit.phase = "stopping" /\ Change("inactive") /\ Recorded("down", TRUE)

UnitDies ==
  unit.phase = "active" /\ Change("inactive") /\ UNCHANGED journal

Tick ==
  /\ now < MaxTime
  /\ now' = now + 1
  /\ UNCHANGED <<unit, bootTime, journal, faults, engineVars, monitorVars,
                 proberVars, base, refused>>

(***************************************************************************)
(* onSnapshot: read the unit, Apply, persist the events, save the state,   *)
(* start or stop the probe.                                                *)
(***************************************************************************)

ReadSnapshot ==
  /\ pc = "idle" /\ gap = "no"
  /\ snap' = unit /\ pc' = "apply"
  /\ UNCHANGED <<unitVars, faults, engineVars, emit, copy, gap, rec, slot, lost,
                 proberVars, base, refused>>

\* Mutant: the candidates are not sorted by time.
CandidatesUnsorted(s) ==
  LET down == [state |-> "down", at |-> s.exit]
      up == [state |-> "up", at |-> s.enter]
      isDown == s.exit > st.exit /\ Ms(s.exit) > st.lastMs
      isUp == s.enter > st.enter /\ Ms(s.enter) > st.lastMs
  IN (IF isDown THEN <<down>> ELSE << >>) \o (IF isUp THEN <<up>> ELSE << >>)

\* The flips a snapshot shows that are newer than the snapshot before it and
\* than the last event, in order of time.
Candidates(s) ==
  LET down == [state |-> "down", at |-> s.exit]
      up == [state |-> "up", at |-> s.enter]
      isDown == s.exit > st.exit /\ Ms(s.exit) > st.lastMs
      isUp == s.enter > st.enter /\ Ms(s.enter) > st.lastMs
  IN IF isDown /\ isUp
       THEN IF s.enter < s.exit THEN <<up, down>> ELSE <<down, up>>
       ELSE IF isDown THEN <<down>> ELSE IF isUp THEN <<up>> ELSE << >>

\* One pass of the loop over the candidates.
Consider(acc, c) ==
  IF c.state = "up" /\ Delayed
    THEN [acc EXCEPT !.pending = TRUE]
  ELSE IF c.state = "down" /\ acc.pending /\ acc.current = "down"
    THEN [acc EXCEPT !.pending = FALSE]
  ELSE [events |-> Append(acc.events, [state |-> c.state, ms |-> Ms(c.at),
                                       src |-> "systemd", boot |-> snap.boot]),
        current |-> c.state,
        pending |-> IF c.state = "down" THEN FALSE ELSE acc.pending]

Considered(cs) ==
  LET acc[i \in 0..Len(cs)] ==
        IF i = 0
          THEN [events |-> << >>, current |-> st.avail, pending |-> st.awaiting]
          ELSE Consider(acc[i - 1], cs[i])
  IN acc[Len(cs)]

\* The first look at a boot records what it sees and emits nothing.
FirstLook ==
  /\ pc = "apply" /\ (~st.known \/ st.boot # snap.boot)
  /\ st' = [known |-> TRUE, avail |-> Availability(Active(snap)),
            boot |-> snap.boot, enter |-> snap.enter, exit |-> snap.exit,
            lastMs |-> st.lastMs, awaiting |-> FALSE]
  /\ emit' = << >> /\ snap' = NoUnit /\ pc' = "persist" /\ base' = now
  /\ UNCHANGED <<unitVars, faults, saved, log, copy, gap, rec, slot, lost, proberVars,
                 refused>>

\* Mutant: the state is saved before the events are appended.
ApplySaves ==
  /\ pc = "apply" /\ st.known /\ st.boot = snap.boot
  /\ LET r == Considered(Candidates(snap)) IN
     /\ emit' = r.events
     /\ st' = [known |-> TRUE,
               avail |-> IF r.pending THEN "down" ELSE Availability(Active(snap)),
               boot |-> snap.boot, enter |-> snap.enter, exit |-> snap.exit,
               lastMs |-> IF r.events = << >> THEN st.lastMs
                          ELSE r.events[Len(r.events)].ms,
               awaiting |-> r.pending]
     /\ saved' = st'
  /\ snap' = NoUnit /\ pc' = "persist"
  /\ UNCHANGED <<unitVars, faults, log, copy, gap, rec, slot, lost,
                 proberVars, base, refused>>

Apply ==
  /\ pc = "apply" /\ st.known /\ st.boot = snap.boot
  /\ LET r == Considered(Candidates(snap)) IN
     /\ emit' = r.events
     /\ st' = [known |-> TRUE,
               avail |-> IF r.pending THEN "down" ELSE Availability(Active(snap)),
               boot |-> snap.boot, enter |-> snap.enter, exit |-> snap.exit,
               lastMs |-> IF r.events = << >> THEN st.lastMs
                          ELSE r.events[Len(r.events)].ms,
               awaiting |-> r.pending]
  /\ snap' = NoUnit /\ pc' = "persist"
  /\ UNCHANGED <<unitVars, faults, saved, log, copy, gap, rec, slot, lost,
                 proberVars, base, refused>>

WriteFails == WriteErrors /\ faults < MaxFaults /\ faults' = faults + 1

\* Append returns an error; the record may be in the file all the same.
Refuse(event) ==
  /\ WriteFails
  /\ refused' = IF refused = "no" THEN "memory" ELSE refused
  /\ log' \in {log, Append(log, event)}

StateSaved == refused' = IF refused = "memory" THEN "disk" ELSE refused

\* onSnapshot returns the error, Run returns it, and the monitor reconnects.  (At
\* the start, and in the first snapshot of a connection, the process ends: Crash.)
Reconnect == pc' = "idle" /\ gap = "no" /\ gap' = "lost" /\ lost' = now

PersistRefused ==
  /\ pc = "persist" /\ emit # << >>
  /\ Refuse(Head(emit)) /\ emit' = << >>
  /\ Reconnect
  /\ UNCHANGED <<unitVars, st, saved, snap, copy, rec, slot, proberVars, base>>

SaveRefused ==
  /\ pc = "save"
  /\ WriteFails /\ Reconnect /\ copy' = NoState
  /\ UNCHANGED <<unitVars, engineVars, snap, emit, rec, slot, proberVars, base,
                 refused>>

PersistEvent ==
  /\ pc = "persist" /\ emit # << >>
  /\ log' = Append(log, Head(emit)) /\ emit' = Tail(emit)
  /\ UNCHANGED <<unitVars, faults, st, saved, pc, snap, copy, gap, rec, slot, lost,
                 proberVars, base, refused>>

ReadState ==
  /\ pc = "persist" /\ emit = << >>
  /\ copy' = st /\ pc' = "save"
  /\ UNCHANGED <<unitVars, faults, engineVars, snap, emit, gap, rec, slot, lost,
                 proberVars, base, refused>>

\* Mutant: Stop does not close the socket.
SaveStateOpen ==
  /\ pc = "save"
  /\ saved' = copy /\ StateSaved
  /\ probing' = (copy.awaiting /\ gap = "no")
  /\ mine' = (mine /\ copy.awaiting)
  /\ copy' = NoState /\ pc' = "idle"
  /\ UNCHANGED <<unitVars, faults, st, log, snap, emit, gap, rec, slot, lost,
                 reply, answer, pub, base>>

\* Mutant: the probe is started only by the snapshot that withheld the UP.
SaveStateStartsOnce ==
  /\ pc = "save"
  /\ saved' = copy /\ StateSaved
  /\ probing' = (copy.awaiting /\ gap = "no" /\ (probing \/ ~saved.awaiting))
  /\ reply' = (reply /\ copy.awaiting) /\ mine' = (mine /\ copy.awaiting)
  /\ copy' = NoState /\ pc' = "idle"
  /\ UNCHANGED <<unitVars, faults, st, log, snap, emit, gap, rec, slot, lost,
                 answer, pub, base>>

\* saveState, then Start (which leaves a running probe alone) or Stop; main saves
\* the state after a reboot in the same way, before there is a prober.
SaveState ==
  /\ pc = "save"
  /\ saved' = copy /\ StateSaved
  /\ probing' = (copy.awaiting /\ gap = "no")
  /\ reply' = (reply /\ copy.awaiting) /\ mine' = (mine /\ copy.awaiting)
  /\ copy' = NoState /\ pc' = "idle"
  /\ UNCHANGED <<unitVars, faults, st, log, snap, emit, gap, rec, slot, lost,
                 answer, pub, base>>

(***************************************************************************)
(* The probe.  The service answers while it is active; the answer is read *)
(* from the socket in a later step, and handed to publishReady in yet     *)
(* another.  Stopping the probe closes the socket, and does not take back *)
(* an answer that has been read.                                          *)
(***************************************************************************)

Reply ==
  /\ probing /\ ~mine /\ Active(unit) /\ ~reply
  /\ reply' = TRUE
  /\ UNCHANGED <<unitVars, faults, engineVars, monitorVars, probing, answer, mine, pub,
                 base, refused>>

\* One callback at a time: the next run waits for it.
Answered ==
  /\ reply /\ answer = 0 /\ pub.at = "no"
  /\ reply' = FALSE /\ answer' = now /\ mine' = TRUE
  /\ UNCHANGED <<unitVars, faults, engineVars, monitorVars, probing, pub, base, refused>>

(***************************************************************************)
(* publishReady: ConfirmReady, the append, the read of the state and its   *)
(* save take the engine mutex and the lock of the log one after the other, *)
(* and the monitor goes on in between.                                     *)
(***************************************************************************)

ConfirmReady ==
  /\ answer # 0
  /\ answer' = 0
  /\ \/ /\ st.awaiting
        /\ LET ms == Later(Ms(answer), st.lastMs + 1) IN
           /\ st' = [st EXCEPT !.awaiting = FALSE, !.avail = "up", !.lastMs = ms]
           /\ pub' = [at |-> "append",
                      event |-> [state |-> "up", ms |-> ms, src |-> "probe", boot |-> st.boot]]
     \/ ~st.awaiting /\ UNCHANGED st /\ pub' = [at |-> "finish"]
  /\ UNCHANGED <<unitVars, faults, saved, log, monitorVars, probing, reply, mine, base,
                 refused>>

AppendReady ==
  /\ pub.at = "append"
  /\ \/ log' = Append(log, pub.event) /\ pub' = [at |-> "state"] /\ UNCHANGED <<faults, refused>>
     \/ Refuse(pub.event) /\ pub' = [at |-> "finish"]
  /\ UNCHANGED <<unitVars, st, saved, monitorVars, probing, reply, answer, mine, base>>

StateReady ==
  /\ pub.at = "state"
  /\ pub' = [at |-> "save", copy |-> st]
  /\ UNCHANGED <<unitVars, faults, engineVars, monitorVars, probing, reply, answer, mine,
                 base, refused>>

SaveReady ==
  /\ pub.at = "save"
  /\ pub' = [at |-> "finish"]
  /\ \/ saved' = pub.copy /\ StateSaved /\ UNCHANGED faults
     \/ WriteFails /\ UNCHANGED <<saved, refused>>
  /\ UNCHANGED <<unitVars, st, log, monitorVars, probing, reply, answer, mine, base>>

\* finish removes the run if it is still the registered one.
Finish ==
  /\ pub.at = "finish"
  /\ pub' = [at |-> "no"] /\ mine' = FALSE /\ probing' = (probing /\ ~mine)
  /\ UNCHANGED <<unitVars, faults, engineVars, monitorVars, reply, answer, base, refused>>

PublishReady == ConfirmReady \/ AppendReady \/ StateReady \/ SaveReady \/ Finish

(***************************************************************************)
(* Journal recovery, after a lost connection or at startup.                *)
(***************************************************************************)

Disconnect ==
  /\ pc = "idle" /\ gap = "no"
  /\ gap' = "lost" /\ lost' = now
  /\ UNCHANGED <<unitVars, faults, engineVars, pc, snap, emit, copy, rec, slot,
                 proberVars, base, refused>>

\* Recover reads [slot start, until), until being the time of the call cut to
\* whole seconds: it lies after the loss, as reconnect_interval and RestartSec
\* are a second or more.  A failing journalctl recovers nothing.
BeginRecovery ==
  /\ pc = "idle" /\ gap # "no"
  /\ \/ \E from \in IF gap = "start" THEN {slot} ELSE 0..now :
         \E until \in Later(from, lost + 1)..now :
           rec' = SelectSeq(journal, LAMBDA r : from <= r.at /\ r.at < until)
     \/ rec' = << >>
  /\ pc' = "recover"
  /\ UNCHANGED <<unitVars, faults, engineVars, snap, emit, copy, gap, slot, lost, proberVars,
                 base, refused>>

\* ApplyRecovery of the engine, for a record that is not newer than the last event
\* and for one that is.
Known(r) == st.known /\ Ms(r.at) <= st.lastMs

Take(r) ==
  st' = [st EXCEPT !.known = TRUE, !.avail = r.state, !.awaiting = FALSE,
                   !.boot = r.boot, !.lastMs = Ms(r.at)]

RecordEvent(r) == [state |-> r.state, ms |-> Ms(r.at), src |-> "journal", boot |-> r.boot]

\* One record of onRecovery.
ApplyRecovery ==
  /\ pc = "recover" /\ rec # << >>
  /\ rec' = Tail(rec)
  /\ \/ Known(Head(rec)) /\ UNCHANGED <<engineVars, refused>>
     \/ /\ ~Known(Head(rec)) /\ Take(Head(rec))
        /\ log' = Append(log, RecordEvent(Head(rec)))
        /\ saved' = st' /\ StateSaved
  /\ UNCHANGED <<unitVars, faults, pc, snap, emit, copy, gap, slot, lost,
                 proberVars, base>>

\* onRecovery gives up at the first error of Append or SaveState, and the monitor
\* goes on to the snapshots.  (At the start the process ends: Crash.)
RecoveryRefused ==
  /\ pc = "recover" /\ gap = "lost" /\ rec # << >> /\ ~Known(Head(rec))
  /\ Take(Head(rec)) /\ rec' = << >>
  /\ \/ Refuse(RecordEvent(Head(rec)))
     \/ WriteFails /\ log' = Append(log, RecordEvent(Head(rec))) /\ UNCHANGED refused
  /\ pc' = "idle" /\ gap' = "no" /\ lost' = 0
  /\ UNCHANGED <<unitVars, saved, snap, emit, copy, slot, proberVars, base>>

EndRecovery ==
  /\ pc = "recover" /\ rec = << >>
  /\ pc' = "idle" /\ gap' = "no" /\ slot' = 0 /\ lost' = 0
  /\ UNCHANGED <<unitVars, faults, engineVars, snap, emit, copy, rec, proberVars,
                 base, refused>>

(***************************************************************************)
(* Restart.  A crash takes the memory, a reboot also the state of the unit *)
(* (a power failure: nothing about it is in the journal, nor are records   *)
(* that were on their way).                                                *)
(***************************************************************************)

Stopped ==
  /\ faults < MaxFaults /\ faults' = faults + 1
  /\ pc' = "down" /\ st' = NoState /\ emit' = << >> /\ rec' = << >>
  /\ gap' = "no" /\ probing' = FALSE /\ reply' = FALSE /\ answer' = 0
  /\ mine' = FALSE /\ pub' = [at |-> "no"] /\ snap' = NoUnit /\ copy' = NoState
  /\ lost' = now'
  /\ refused' = IF refused = "memory" THEN "no" ELSE refused
  /\ UNCHANGED <<saved, log, slot, base>>

Crash ==
  /\ pc # "down"
  /\ UNCHANGED unitVars
  /\ Stopped

Reboot ==
  /\ Reboots /\ now < MaxTime
  /\ now' = now + 1 /\ bootTime' = now'
  /\ Stopped
  /\ unit' = [phase |-> "inactive", enter |-> 0, exit |-> 0, boot |-> unit.boot + 1]
  /\ journal' = SelectSeq(journal, LAMBDA r : r.at <= now)

\* Replay of one event of the log.
Replay(s, e) ==
  IF e.ms < s.lastMs THEN [s EXCEPT !.known = TRUE]
  ELSE [s EXCEPT !.known = TRUE, !.avail = e.state, !.awaiting = FALSE,
                 !.boot = e.boot, !.lastMs = e.ms]

\* Mutant: the log is not replayed.
RestoredUnreplayed == saved

\* RestoreState from state.json, then Replay of the whole log.
Restored ==
  LET after[i \in 0..Len(log)] ==
        IF i = 0 THEN saved ELSE Replay(after[i - 1], log[i])
  IN after[Len(log)]

ApplyReboot(s) ==
  IF s.avail # "up"
    THEN [state |-> [s EXCEPT !.boot = unit.boot], events |-> << >>]
    ELSE [state |-> [s EXCEPT !.boot = unit.boot, !.avail = "down",
                              !.lastMs = Ms(bootTime)],
          events |-> <<[state |-> "down", ms |-> Ms(bootTime), src |-> "reboot",
                        boot |-> unit.boot]>>]

\* main up to the startup recovery.  AdoptBootID, for a boot before the slot,
\* only sets the boot id, which ApplyReboot sets as well.
Start ==
  /\ pc = "down"
  /\ slot' \in 0..now
  /\ \/ /\ Restored.known /\ Restored.boot # unit.boot
        /\ LET r == ApplyReboot(Restored) IN st' = r.state /\ emit' = r.events
        /\ pc' = "persist"
     \/ /\ ~(Restored.known /\ Restored.boot # unit.boot)
        /\ st' = Restored /\ emit' = << >> /\ pc' = "idle"
  /\ gap' = "start"
  /\ UNCHANGED <<unitVars, faults, saved, log, snap, copy, rec, lost, proberVars, base,
                 refused>>

Systemd ==
  \/ UnitStarting \/ UnitStarted \/ UnitStartFails
  \/ UnitStopping \/ UnitStopped \/ UnitDies

Monitor ==
  \/ ReadSnapshot \/ FirstLook \/ Apply \/ PersistEvent \/ ReadState \/ SaveState
  \/ BeginRecovery \/ ApplyRecovery \/ EndRecovery

WriteError == PersistRefused \/ SaveRefused \/ RecoveryRefused

Next ==
  \/ Systemd \/ Tick \/ Disconnect \/ Crash \/ Reboot \/ Start
  \/ Reply \/ Answered \/ PublishReady \/ Monitor \/ WriteError

Spec == Init /\ [][Next]_vars

\* The monitor reconciles on a ticker, the prober asks until it is answered
\* and its goroutine runs, and systemd restarts the process.  The unit and the
\* bus owe nothing.
Fairness ==
  /\ WF_vars(Monitor) /\ WF_vars(Start)
  /\ WF_vars(Reply) /\ WF_vars(Answered) /\ WF_vars(PublishReady)

FairSpec == Spec /\ Fairness

-----------------------------------------------------------------------------
(***************************************************************************)
(* Properties.                                                             *)
(***************************************************************************)

States == {"up", "down"}
Events == [state : States, ms : Nat, src : {"systemd", "probe", "journal", "reboot"},
           boot : Nat]
Records == [state : States, at : Nat, flip : BOOLEAN, boot : Nat]
Units == [phase : {"inactive", "starting", "active", "stopping"}, enter : Nat, exit : Nat,
          boot : Nat]
ServiceStates ==
  [known : BOOLEAN, avail : States, boot : Nat, enter : Nat, exit : Nat, lastMs : Nat,
   awaiting : BOOLEAN]
Publications ==
  [at : {"no", "state", "finish"}] \cup [at : {"append"}, event : Events]
    \cup [at : {"save"}, copy : ServiceStates]

\* The shape of the state; a socket with an answer in it belongs to a probe that
\* Prober.running still holds.
TypeOK ==
  /\ now \in 1..MaxTime /\ faults \in 0..MaxFaults
  /\ unit \in Units /\ snap \in Units
  /\ st \in ServiceStates /\ saved \in ServiceStates /\ copy \in ServiceStates
  /\ log \in Seq(Events) /\ emit \in Seq(Events)
  /\ journal \in Seq(Records) /\ rec \in Seq(Records)
  /\ pc \in {"idle", "apply", "persist", "save", "recover", "down"}
  /\ gap \in {"no", "lost", "start"}
  /\ bootTime \in 0..now /\ slot \in 0..now /\ lost \in 0..now /\ base \in 0..now /\ answer \in 0..now
  /\ pub \in Publications
  /\ probing \in BOOLEAN /\ reply \in BOOLEAN /\ mine \in BOOLEAN
  /\ refused \in {"no", "memory", "disk"} /\ (reply => probing)

Idle == pc = "idle" /\ gap = "no" /\ st.known

LastEvent == log[Len(log)]

\* The newest flip the engine knows of is not history from before the first look.
Flipped == Later(st.enter, st.exit) > base

\* Once the unit has flipped, the availability the exporter reports is the
\* state of the last event it logged: heartbeats and transitions never
\* contradict each other.  A refused event is made up for by a restart, and only
\* by one that comes before the next saved state.
Agree ==
  Idle /\ Flipped /\ refused = "no" => log # << >> /\ LastEvent.state = st.avail

\* Once a snapshot has been applied and its events persisted, the newest flip
\* it showed is in the log, at its own time or, found in the journal, at the
\* later time of a record of it, across crashes between the steps, unless it was
\* history at the first look.
Captured ==
  Idle /\ Flipped /\ refused = "no" =>
    \E i \in DOMAIN log : /\ log[i].state = Availability(st.enter > st.exit)
                          /\ log[i].ms >= Ms(Later(st.enter, st.exit))

\* The engine does not move past a transition that the log has refused.
\* The code does not keep it: README.md, Known limits.
RefusedRetried == refused # "disk"

\* What is recovered from the journal is a flip of the unit (journal.go: "They are
\* deliberately different from the "Starting"/"Stopping" progress messages").
\* The code does not keep it: README.md, Known limits.
RecoveredAreFlips ==
  \A i \in DOMAIN log : log[i].src = "journal" =>
    \E j \in DOMAIN journal : /\ journal[j].flip /\ journal[j].state = log[i].state
                              /\ Ms(journal[j].at) = log[i].ms

\* Event times never go back, so the receiver never sees an old sample.
Forward == \A i \in 2..Len(log) : log[i - 1].ms < log[i].ms

ActiveAt(t) == unit.enter <= t /\ (Active(unit) \/ t <= unit.exit)

\* A probe releases the UP only with an answer read during the latest active
\* period ("A late answer, after the unit left active, is discarded").
\* The code does not keep it: README.md, Known limits.
LateAnswerDiscarded ==
  [][ answer # 0 /\ pub'.at = "append" => ActiveAt(answer) ]_vars

\* An UP that belongs to an earlier boot is followed by the DOWN of the reboot
\* ("Services that were UP receive a synthetic DOWN event at the current host
\* boot time").
\* The code does not keep it: README.md, Known limits.
RebootMarked ==
  Idle /\ st.boot = unit.boot /\ log # << >> /\ LastEvent.state = "up"
    => LastEvent.boot = unit.boot

\* A reboot before the recovery slot is not republished as downtime ("it must
\* not be republished").
OldRebootSilent ==
  \A i \in DOMAIN emit : emit[i].src = "reboot" => emit[i].ms >= Ms(slot)

\* A unit that stays active and whose probe keeps being answered is reported UP
\* in the end, whatever stops and starts, crashes and gaps came before.
Ready == <>[](Active(unit) /\ gap = "no") => <>[](st.avail = "up")

=============================================================================
