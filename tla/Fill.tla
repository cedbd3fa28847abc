-------------------------------- MODULE Fill --------------------------------
(***************************************************************************)
(* The recovery fill of one service: Recover, BuildStateFill and           *)
(* slotStartState of internal/recovery, fed by main.go once at startup     *)
(* (with the state systemd reports) and after an outage (with the state    *)
(* the engine holds).  Time is counted in milliseconds.                    *)
(***************************************************************************)
EXTENDS Integers, Sequences, SequencesExt

CONSTANTS
  Interval,       \* recovery_fill_interval
  MaxTime,        \* bound: length of a behaviour
  Unrecorded,     \* BOOLEAN: the unit may leave active with no record at that time:
                  \* its main process dies, or the stop takes a while
  SubSecond,      \* BOOLEAN: the unit may flip within a second of the recovery
  StaleEngine     \* BOOLEAN: the slot of the recovery of an outage may begin after
                  \* the last look of the engine at the unit

ASSUME FillAssumption ==
  /\ Interval \in Nat \ {0} /\ MaxTime \in Nat
  /\ Unrecorded \in BOOLEAN /\ SubSecond \in BOOLEAN /\ StaleEngine \in BOOLEAN

VARIABLES
  now,
  phase,     \* what the unit is doing
  truth,     \* truth[t]: availability of the unit at time t <= now
  journal,   \* the records of the unit that messageState takes for a transition
  engine,    \* availability the engine holds; "unknown" where a startup is
             \* recovered and the engine is not asked
  seen,      \* when the engine last looked at the unit
  pc,        \* "away": D-Bus or the process; "called": the window is fixed
  start, end,
  fill,      \* samples of the recovery
  guessed    \* history: nothing was known about the start of the slot

vars == <<now, phase, truth, journal, engine, seen, pc, start, end, fill, guessed>>

Inverted(state) == IF state = "up" THEN "down" ELSE "up"

Init ==
  /\ now = 0
  /\ \/ phase = "active" /\ truth = [t \in {0} |-> "up"]
     \/ phase = "inactive" /\ truth = [t \in {0} |-> "down"]
  /\ journal = << >> /\ seen = 0
  /\ \/ pc = "away" /\ engine = "unknown"
     \/ pc = "watching" /\ engine = truth[0]
  /\ start = 0 /\ end = 0 /\ fill = << >> /\ guessed = FALSE

(***************************************************************************)
(* The unit.                                                               *)
(***************************************************************************)

\* "Starting" (the id named messageIDUnitFailed), "Failed to start" and "Stopped"
\* are taken for DOWN, "Started" for UP.
Recorded ==
  { <<"inactive", "starting", "down">>, <<"starting", "inactive", "down">>,
    <<"starting", "active", "up">>, <<"active", "inactive", "down">>,
    <<"stopping", "inactive", "down">> }

Silent ==
  {<<p, p>> : p \in {"inactive", "starting", "active", "stopping"}}
    \cup (IF Unrecorded THEN {<<"active", "inactive">>, <<"active", "stopping">>} ELSE {})

\* Time passes; the unit takes a step of its life, with a record or without.
Tick ==
  /\ now < MaxTime
  /\ pc # "called" \/ SubSecond
  /\ now' = now + 1
  /\ phase' \in {"inactive", "starting", "active", "stopping"}
  /\ truth' = [t \in 0..now' |-> IF t < now' THEN truth[t]
                                 ELSE IF phase' = "active" THEN "up" ELSE "down"]
  /\ \/ \E state \in {"up", "down"} :
          /\ <<phase, phase', state>> \in Recorded
          /\ journal' = Append(journal, [state |-> state, at |-> now'])
     \/ <<phase, phase'>> \in Silent /\ UNCHANGED journal
  /\ UNCHANGED <<engine, seen, pc, start, end, fill, guessed>>

Observe ==
  /\ pc = "watching"
  /\ engine' = truth[now] /\ seen' = now
  /\ UNCHANGED <<now, phase, truth, journal, pc, start, end, fill, guessed>>

Disconnect ==
  /\ pc = "watching"
  /\ pc' = "away"
  /\ UNCHANGED <<now, phase, truth, journal, engine, seen, start, end, fill, guessed>>

\* Mutant: an empty window is not refused.
WindowEmpty ==
  /\ pc = "away"
  /\ end' = now + 1 /\ start' \in 0..now + 1
  /\ pc' = "called"
  /\ UNCHANGED <<now, phase, truth, journal, engine, seen, fill, guessed>>

\* An assumption on outages: the engine looked at the unit at t or later.
Fresh(t) == engine = "unknown" \/ StaleEngine \/ t <= seen

\* RecoveryWindow: from the start of the current slot to now, refused when empty.
Window ==
  /\ pc = "away"
  /\ end' = now + 1 /\ start' \in 0..now /\ Fresh(start')
  /\ pc' = "called"
  /\ UNCHANGED <<now, phase, truth, journal, engine, seen, fill, guessed>>

(***************************************************************************)
(* The fill.                                                               *)
(***************************************************************************)

\* journalctl gets the end of the window cut to whole seconds.
Untils == IF SubSecond THEN start..end ELSE {end}

Recover(until) == SelectSeq(journal, LAMBDA r : start <= r.at /\ r.at < until)

Before == SelectSeq(journal, LAMBDA r : r.at < start)

\* previousState: the last record before the slot, DOWN without one.
PreviousState == IF Before = << >> THEN "down" ELSE Last(Before).state

\* Mutant: the first transition is taken for the state before it.
SlotStartStateUninverted(events, current) ==
  IF events # << >> THEN events[1].state
  ELSE IF current # "unknown" THEN current
  ELSE PreviousState

SlotStartState(events, current) ==
  IF events # << >> THEN Inverted(events[1].state)
  ELSE IF current # "unknown" THEN current
  ELSE PreviousState

Sample(state, at) == [state |-> state, at |-> at]

\* One turn of the loop over the ticks: the transitions up to the tick, then the
\* tick itself.
Turn(acc, events, ts) ==
  LET n == Len(SelectSeq(events, LAMBDA r : r.at <= ts))
      passed == SubSeq(events, acc.taken + 1, n)
      state == IF passed = << >> THEN acc.state ELSE Last(passed).state
  IN [state |-> state, taken |-> n, out |-> acc.out \o passed \o <<Sample(state, ts)>>]

\* Mutant: transitions after the last tick are left out.
BuildStateFillCut(events, current) ==
  LET turns == (end - start + Interval - 1) \div Interval
      acc[i \in 0..turns] ==
        IF i = 0
          THEN [state |-> SlotStartState(events, current), taken |-> 0, out |-> << >>]
          ELSE Turn(acc[i - 1], events, start + (i - 1) * Interval)
      last == acc[turns]
  IN last.out

\* The samples of one service are already in order of time, so that the final
\* sort leaves them as they are.
BuildStateFill(events, current) ==
  LET turns == (end - start + Interval - 1) \div Interval
      acc[i \in 0..turns] ==
        IF i = 0
          THEN [state |-> SlotStartState(events, current), taken |-> 0, out |-> << >>]
          ELSE Turn(acc[i - 1], events, start + (i - 1) * Interval)
      last == acc[turns]
  IN last.out \o SubSeq(events, last.taken + 1, Len(events))

\* Recover and BuildStateFill.  An outage is filled from the engine, which the
\* recovered transitions have brought up to date; a startup from systemd, which
\* may fail to answer.
Build ==
  /\ pc = "called"
  /\ \E until \in Untils :
     LET events == Recover(until)
         applied == IF events = << >> THEN engine ELSE Last(events).state
     IN \E current \in IF engine # "unknown" THEN {applied} ELSE {truth[now], "unknown"} :
          /\ fill' = BuildStateFill(events, current)
          /\ guessed' = (current = "unknown" /\ events = << >> /\ Before = << >>)
  /\ pc' = "built"
  /\ UNCHANGED <<now, phase, truth, journal, engine, seen, start, end>>

Next == Tick \/ Observe \/ Disconnect \/ Window \/ Build

Spec == Init /\ [][Next]_vars

-----------------------------------------------------------------------------

States == {"up", "down"}
Samples == [state : States, at : Nat]

\* The shape of the state; a window is never empty.
TypeOK ==
  /\ phase \in {"inactive", "starting", "active", "stopping"}
  /\ now \in 0..MaxTime /\ truth \in [0..now -> States]
  /\ journal \in Seq(Samples) /\ fill \in Seq(Samples)
  /\ seen \in 0..now /\ engine \in States \cup {"unknown"} /\ guessed \in BOOLEAN
  /\ pc \in {"watching", "away", "called", "built"}
  /\ start \in 0..now /\ end \in 0..now + 1
  /\ pc \in {"called", "built"} => start < end

\* The first transition of the window found the unit in its state already: it is
\* no flip, and inverted it stands for a state the unit did not have.
MisreadUntil(t) ==
  LET records == Recover(end)
  IN records # << >> /\ t < records[1].at /\ truth[records[1].at - 1] = records[1].state

\* Every sample of the fill carries the state the unit had at its time, except
\* before a first record that is no flip, and where the fall back to DOWN is all
\* there is.
FillTruthful ==
  pc = "built" /\ ~guessed =>
    \A i \in DOMAIN fill :
      fill[i].state = truth[fill[i].at] \/ MisreadUntil(fill[i].at)

\* The state at the start of the slot is not guessed: "systemd reports a start only
\* for a unit that was not active, so the state preceding the first transition
\* inside the slot is that transition inverted" (backfill.go).
\* The code does not keep it: README.md, Known limits.
SlotStartTruthful ==
  pc = "built" /\ ~guessed => fill[1].state = truth[fill[1].at]

\* The fill is continuous and exact: in order of time, a sample at every tick of
\* the window, one at every transition in it, and no other.
FillContinuous ==
  pc = "built" =>
    /\ \A i \in 2..Len(fill) : fill[i - 1].at <= fill[i].at
    /\ {fill[i].at : i \in DOMAIN fill} =
         {t \in start..end - 1 : \/ (t - start) % Interval = 0
                                \/ \E j \in DOMAIN journal : journal[j].at = t}

=============================================================================
