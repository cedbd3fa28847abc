------------------------------ MODULE Monitor ------------------------------
(***************************************************************************)
(* The D-Bus connection lifecycle: RunResilient of internal/systemd/       *)
(* resilient.go and Monitor.Run of internal/systemd/systemd.go, for one    *)
(* unit.  What a snapshot shows is the number of flips so far; what the    *)
(* engine makes of it is the subject of module Engine.                     *)
(***************************************************************************)
EXTENDS Integers

CONSTANTS
  MaxFlips,       \* bound: flips of the unit
  MaxLosses,      \* bound: lost connections
  SetupErrors,    \* BOOLEAN: LoadUnit or Subscribe may fail on a live connection
  BootErrors,     \* BOOLEAN: the boot id may not be readable
  SnapshotFails,  \* BOOLEAN: a snapshot may fail on a live connection
  JournalFails,   \* BOOLEAN: journalctl may fail
  WriteErrors     \* BOOLEAN: onSnapshot may return an error of the WAL

ASSUME MonitorAssumption ==
  /\ MaxFlips \in Nat /\ MaxLosses \in Nat
  /\ SetupErrors \in BOOLEAN /\ BootErrors \in BOOLEAN
  /\ SnapshotFails \in BOOLEAN /\ JournalFails \in BOOLEAN /\ WriteErrors \in BOOLEAN

VARIABLES
  pc,              \* control point of RunResilient
  connectedOnce,
  disconnected,    \* disconnectedAt is set
  conn,            \* the connection is alive
  match,           \* AddMatch has been called on it
  signals,         \* PropertiesChanged signals in the channel of Run
  cancelled,       \* ctx is done
  flips, losses,
  read,            \* flips the snapshot showed that onSnapshot is to get
  seen,            \* flips the last snapshot that onSnapshot got showed
  owed,            \* history: a flip fell into an outage and has not been recovered
  failed           \* history: onSnapshot or the read of the boot id returned an error

vars == <<pc, connectedOnce, disconnected, conn, match, signals, cancelled, flips,
          losses, read, seen, owed, failed>>

Init ==
  /\ pc = "connect" /\ connectedOnce = FALSE /\ disconnected = FALSE
  /\ conn = FALSE /\ match = FALSE /\ signals = 0 /\ cancelled = FALSE
  /\ flips = 0 /\ losses = 0 /\ read = -1 /\ seen = -1
  /\ owed = FALSE /\ failed = FALSE

(***************************************************************************)
(* The environment.                                                        *)
(***************************************************************************)

\* A signal is delivered only to a channel: between Subscribe and Run there is
\* none.
Flip ==
  /\ flips < MaxFlips
  /\ flips' = flips + 1
  /\ signals' = IF conn /\ match /\ pc = "run" THEN signals + 1 ELSE signals
  /\ owed' = (owed \/ (pc = "wait" /\ connectedOnce))
  /\ UNCHANGED <<pc, connectedOnce, disconnected, conn, match, cancelled, losses, read, seen,
                 failed>>

BusLost ==
  /\ conn /\ losses < MaxLosses
  /\ conn' = FALSE /\ match' = FALSE /\ losses' = losses + 1
  /\ UNCHANGED <<pc, connectedOnce, disconnected, signals, cancelled, flips, read, seen, owed,
                 failed>>

Cancel ==
  /\ ~cancelled /\ cancelled' = TRUE
  /\ UNCHANGED <<pc, connectedOnce, disconnected, conn, match, signals, flips, losses,
                 read, seen, owed, failed>>

(***************************************************************************)
(* One attempt to connect.                                                 *)
(***************************************************************************)

\* continue: the next attempt waits reconnect_interval once there has been a
\* connection.
Again == pc' = IF connectedOnce THEN "wait" ELSE "connect"

Closed == conn' = FALSE /\ match' = FALSE

Wait ==
  /\ pc = "wait"
  /\ pc' = IF cancelled THEN "returned" ELSE "connect"
  /\ UNCHANGED <<connectedOnce, disconnected, conn, match, signals, cancelled, flips,
                 losses, read, seen, owed, failed>>

Connect ==
  /\ pc = "connect"
  /\ conn' = TRUE /\ pc' = "setup"
  /\ UNCHANGED <<connectedOnce, disconnected, match, signals, cancelled, flips, losses,
                 read, seen, owed, failed>>

ConnectFails ==
  /\ pc = "connect" /\ losses < MaxLosses
  /\ IF cancelled THEN pc' = "returned" ELSE Again
  /\ losses' = losses + 1
  /\ UNCHANGED <<connectedOnce, disconnected, conn, match, signals, cancelled, flips,
                 read, seen, owed, failed>>

\* LoadUnit of the services and Subscribe.
Setup ==
  /\ pc = "setup" /\ conn
  /\ match' = TRUE /\ pc' = "boot"
  /\ UNCHANGED <<connectedOnce, disconnected, conn, signals, cancelled, flips, losses,
                 read, seen, owed, failed>>

SetupFails ==
  /\ pc = "setup" /\ (SetupErrors \/ ~conn)
  /\ Again /\ Closed
  /\ UNCHANGED <<connectedOnce, disconnected, signals, cancelled, flips, losses, read,
                 seen, owed, failed>>

\* BootID; an error ends RunResilient.  With a gap to recover the journal comes
\* before the snapshots.
ReadBootID ==
  /\ pc = "boot"
  /\ \/ /\ pc' = IF disconnected THEN "recover" ELSE "snapshot"
        /\ UNCHANGED <<conn, match, failed>>
     \/ BootErrors /\ pc' = "returned" /\ failed' = TRUE /\ Closed
  /\ UNCHANGED <<connectedOnce, disconnected, signals, cancelled, flips, losses, read,
                 seen, owed>>

Recover ==
  /\ pc = "recover"
  /\ \/ owed' = FALSE
     \/ JournalFails /\ UNCHANGED owed
  /\ disconnected' = FALSE /\ pc' = "snapshot"
  /\ UNCHANGED <<connectedOnce, conn, match, signals, cancelled, flips, losses, read,
                 seen, failed>>

InitialSnapshot ==
  /\ pc = "snapshot" /\ conn
  /\ read' = flips /\ pc' = "handle"
  /\ UNCHANGED <<connectedOnce, disconnected, conn, match, signals, cancelled, flips,
                 losses, seen, owed, failed>>

InitialSnapshotFails ==
  /\ pc = "snapshot" /\ (SnapshotFails \/ ~conn)
  /\ Again /\ Closed
  /\ UNCHANGED <<connectedOnce, disconnected, signals, cancelled, flips, losses, read,
                 seen, owed, failed>>

\* onSnapshot of that snapshot; an error ends RunResilient.
OnSnapshot ==
  /\ pc = "handle"
  /\ seen' = read /\ read' = -1
  /\ \/ pc' = "register" /\ UNCHANGED <<conn, match, failed>>
     \/ WriteErrors /\ pc' = "returned" /\ failed' = TRUE /\ Closed
  /\ UNCHANGED <<connectedOnce, disconnected, signals, cancelled, flips, losses, owed>>

\* Run makes its channel; the signals of a flip since the snapshot are gone.
Register ==
  /\ pc = "register"
  /\ connectedOnce' = TRUE /\ signals' = 0 /\ pc' = "run"
  /\ UNCHANGED <<disconnected, conn, match, cancelled, flips, losses, read, seen, owed,
                 failed>>

(***************************************************************************)
(* Monitor.Run.  Whatever error ends it, RunResilient reconnects unless    *)
(* ctx is done.                                                            *)
(***************************************************************************)

\* Mutant: the channel outlives the run.
LostKeepsChannel ==
  /\ Closed /\ UNCHANGED signals
  /\ IF cancelled THEN pc' = "returned" /\ UNCHANGED disconnected
     ELSE pc' = "wait" /\ disconnected' = TRUE

Lost ==
  /\ Closed /\ signals' = 0
  /\ IF cancelled THEN pc' = "returned" /\ UNCHANGED disconnected
     ELSE pc' = "wait" /\ disconnected' = TRUE

\* handler: Snapshot, then onSnapshot.
Handle ==
  \/ /\ conn
     /\ seen' = flips
     /\ UNCHANGED <<pc, disconnected, conn, match, failed>>
  \/ /\ SnapshotFails \/ ~conn
     /\ Lost /\ UNCHANGED <<seen, failed>>
  \/ /\ conn /\ WriteErrors
     /\ seen' = flips /\ failed' = TRUE /\ Lost

Signal ==
  /\ pc = "run" /\ signals > 0
  /\ Handle
  /\ pc' = "run" => signals' = signals - 1
  /\ UNCHANGED <<connectedOnce, cancelled, flips, losses, read, owed>>

\* Mutant: the ticker fires and nothing is read.
ReconcileIdle ==
  /\ pc = "run"
  /\ UNCHANGED vars

Reconcile ==
  /\ pc = "run"
  /\ Handle
  /\ pc' = "run" => UNCHANGED signals
  /\ UNCHANGED <<connectedOnce, cancelled, flips, losses, read, owed>>

\* Mutant: a lost connection ends the monitor.
RunEndsReturns ==
  /\ pc = "run" /\ (~conn \/ cancelled)
  /\ Closed /\ signals' = 0 /\ pc' = "returned"
  /\ UNCHANGED <<connectedOnce, disconnected, cancelled, flips, losses, read, seen, owed,
                 failed>>

RunEnds ==
  /\ pc = "run" /\ (~conn \/ cancelled)
  /\ Lost
  /\ UNCHANGED <<connectedOnce, cancelled, flips, losses, read, seen, owed, failed>>

Next ==
  \/ Flip \/ BusLost \/ Cancel
  \/ Wait \/ Connect \/ ConnectFails \/ Setup \/ SetupFails \/ ReadBootID \/ Recover
  \/ InitialSnapshot \/ InitialSnapshotFails \/ OnSnapshot \/ Register
  \/ Signal \/ Reconcile \/ RunEnds

Spec == Init /\ [][Next]_vars

\* The goroutine runs; an attempt that can succeed does so now and then; the
\* ticker keeps firing.  Signals are delivered by the bus.
Fairness ==
  /\ WF_vars(Wait) /\ WF_vars(Connect) /\ SF_vars(Setup) /\ WF_vars(SetupFails)
  /\ WF_vars(ReadBootID) /\ WF_vars(Recover) /\ SF_vars(InitialSnapshot)
  /\ WF_vars(InitialSnapshotFails) /\ WF_vars(OnSnapshot) /\ WF_vars(Register)
  /\ WF_vars(Reconcile) /\ WF_vars(RunEnds)

FairSpec == Spec /\ Fairness

-----------------------------------------------------------------------------
(***************************************************************************)
(* Properties.                                                             *)
(***************************************************************************)

\* The shape of the state; a signal waits only in the channel of a running
\* monitor.
TypeOK ==
  /\ pc \in {"wait", "connect", "setup", "boot", "recover", "snapshot", "handle",
            "register", "run", "returned"}
  /\ connectedOnce \in BOOLEAN /\ disconnected \in BOOLEAN /\ conn \in BOOLEAN
  /\ match \in BOOLEAN /\ cancelled \in BOOLEAN /\ owed \in BOOLEAN /\ failed \in BOOLEAN
  /\ flips \in 0..MaxFlips /\ losses \in 0..MaxLosses /\ read \in -1..flips
  /\ seen \in -1..flips
  /\ signals \in 0..flips
  /\ signals > 0 => pc = "run"

\* Monitoring resumes only after the flips of the outage have been read from the
\* journal ("transitions during a D-Bus monitoring gap are recovered from
\* journald").
\* The code does not keep it: README.md, Known limits.
GapsRecovered == pc = "run" => ~owed

\* While the monitor runs on a live connection, the last state of the unit is
\* seen in the end, also when its signal fell between the first snapshot and Run.
CaughtUp == <>[](pc = "run" /\ conn) => <>[](seen = flips)

\* However often the bus goes away, the monitor is running again in the end,
\* until it is cancelled, or a write or the read of the boot id fails.
Reconnects == []<>(pc = "run" \/ (pc = "returned" /\ (cancelled \/ failed)))

\* An error of the WAL other than a full disk ends the monitor ("Other write
\* errors, such as a permission failure, still stop the monitor").
\* The code does not keep it: README.md, Known limits.
WriteErrorStops == failed => pc = "returned"

=============================================================================
