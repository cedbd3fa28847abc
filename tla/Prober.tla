------------------------------- MODULE Prober -------------------------------
(***************************************************************************)
(* The Prober of internal/sip/probe.go (internal/dns and internal/agw have *)
(* the same one around another packet), for one service.  Start and Stop   *)
(* are called by onSnapshot; every run is a goroutine that asks until it   *)
(* is answered or cancelled and then removes itself from running.          *)
(***************************************************************************)
EXTENDS Integers, FiniteSets

CONSTANT MaxRuns   \* bound: goroutines started in a behaviour

ASSUME ProberAssumption == MaxRuns \in Nat \ {0}

Runs == 1..MaxRuns

VARIABLES
  running,     \* id of the entry of running, 0 for none
  next,        \* Prober.next
  pc,          \* control point of each run
  cancelled,   \* runs whose context is done
  inbox        \* what the socket of a run holds: "none", "ok" or "other"

vars == <<running, next, pc, cancelled, inbox>>

Init ==
  /\ running = 0 /\ next = 0
  /\ pc = [r \in Runs |-> "new"]
  /\ cancelled = {} /\ inbox = [r \in Runs |-> "none"]

\* Mutant: the counter is not advanced.
StartSameId ==
  /\ running = 0 /\ next < MaxRuns
  /\ running' = next + 1
  /\ pc' = [pc EXCEPT ![next + 1] = "top"]
  /\ UNCHANGED <<next, cancelled, inbox>>

\* Start does nothing while a run is registered.
Start ==
  /\ \/ /\ running # 0
        /\ UNCHANGED <<running, next, pc>>
     \/ /\ running = 0 /\ next < MaxRuns
        /\ next' = next + 1 /\ running' = next'
        /\ pc' = [pc EXCEPT ![next'] = "top"]
  /\ UNCHANGED <<cancelled, inbox>>

Stop ==
  /\ running' = 0
  /\ cancelled' = IF running = 0 THEN cancelled ELSE cancelled \cup {running}
  /\ UNCHANGED <<next, pc, inbox>>

\* Mutant: finish does not look at the id.
FinishAny(r) ==
  /\ pc' = [pc EXCEPT ![r] = "done"]
  /\ running' = 0

\* Mutant: the entry stays.
FinishKeeps(r) ==
  /\ pc' = [pc EXCEPT ![r] = "done"]
  /\ UNCHANGED running

\* The deferred finish of a run that returns.
Finish(r) ==
  /\ pc' = [pc EXCEPT ![r] = "done"]
  /\ running' = IF running = r THEN 0 ELSE running

\* Head of the loop of runProbe: leave, or open a socket and send; a request that
\* cannot be sent waits for the interval and comes back here.
Top(r) ==
  /\ pc[r] = "top"
  /\ \/ /\ r \in cancelled
        /\ Finish(r) /\ UNCHANGED inbox
     \/ /\ r \notin cancelled
        /\ pc' = [pc EXCEPT ![r] = "sent"]
        /\ inbox' = [inbox EXCEPT ![r] = "none"]
        /\ UNCHANGED running
  /\ UNCHANGED <<next, cancelled>>

\* The service answers, or something else comes in.
Packet(r) ==
  /\ pc[r] = "sent" /\ inbox[r] = "none"
  /\ \E p \in {"ok", "other"} : inbox' = [inbox EXCEPT ![r] = p]
  /\ UNCHANGED <<running, next, pc, cancelled>>

\* Read returns what is there.  Cancelling closes the socket from another
\* goroutine, so that a packet may still be read after it.
ReadPacket(r) ==
  /\ pc[r] = "sent" /\ inbox[r] # "none"
  /\ inbox' = [inbox EXCEPT ![r] = "none"]
  /\ pc' = [pc EXCEPT ![r] = IF inbox[r] = "ok" THEN "ready" ELSE "sent"]
  /\ UNCHANGED <<running, next, cancelled>>

\* Mutant: one unanswered request ends the run.
ReadFailsGivesUp(r) ==
  /\ pc[r] = "sent"
  /\ Finish(r)
  /\ UNCHANGED <<next, cancelled, inbox>>

\* The deadline, a read error or the closed socket: the next turn of the loop,
\* or the end of the run when the context is done.
ReadFails(r) ==
  /\ pc[r] = "sent"
  /\ IF r \in cancelled THEN Finish(r)
     ELSE pc' = [pc EXCEPT ![r] = "top"] /\ UNCHANGED running
  /\ UNCHANGED <<next, cancelled, inbox>>

\* The ready callback returns, probeOnce reports the answer, the run ends.
ReadyReturns(r) ==
  /\ pc[r] = "ready"
  /\ Finish(r)
  /\ UNCHANGED <<next, cancelled, inbox>>

RunStep(r) == Top(r) \/ ReadPacket(r) \/ ReadFails(r) \/ ReadyReturns(r)

Next == Start \/ Stop \/ \E r \in Runs : Packet(r) \/ RunStep(r)

Spec == Init /\ [][Next]_vars

\* Every goroutine runs, its deadline passes, and a service that is asked again
\* and again answers within the interval some time.
Fairness ==
  \A r \in Runs :
    /\ WF_vars(Top(r)) /\ WF_vars(ReadFails(r)) /\ WF_vars(ReadyReturns(r))
    /\ SF_vars(Packet(r) /\ inbox'[r] = "ok")
    /\ SF_vars(ReadPacket(r) /\ inbox[r] = "ok")

FairSpec == Spec /\ Fairness

-----------------------------------------------------------------------------

Live(r) == pc[r] \in {"top", "sent", "ready"}

\* The shape of the state; ids are given out in order and used once.
TypeOK ==
  /\ running \in 0..next /\ next \in 0..MaxRuns
  /\ pc \in [Runs -> {"new", "top", "sent", "ready", "done"}]
  /\ cancelled \subseteq 1..next
  /\ inbox \in [Runs -> {"none", "ok", "other"}]
  /\ \A r \in Runs : pc[r] = "new" <=> r > next

\* At most one loop asks on behalf of the service ("Prober runs at most one
\* OPTIONS loop per service"), and it is the one Stop would cancel: a run that
\* ends late never takes the entry of its successor with it.
OneLoop == \A r \in Runs : Live(r) /\ r \notin cancelled => running = r

\* The registered run is alive and has not been cancelled, so that Start may
\* rely on it.
RegisteredAlive == running # 0 => Live(running) /\ running \notin cancelled

\* A loop that was started asks until it is answered or stopped, however many
\* requests or answers are lost on the way.
AsksUntilAnswered ==
  \A r \in Runs : (pc[r] = "top") ~> (pc[r] = "ready" \/ r \in cancelled)

=============================================================================
