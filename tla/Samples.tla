------------------------------ MODULE Samples ------------------------------
(***************************************************************************)
(* The loop of a delivery worker (internal/delivery/worker.go) as far as   *)
(* it publishes availability samples of one service: heartbeats and slot   *)
(* edges, the buffer that keeps them through an outage of the receiver,    *)
(* and the transitions and recoveries they wait for.  The slot timer is    *)
(* that of Slots.  What becomes of the transitions is the subject of       *)
(* Delivery; here they are only counted.                                   *)
(***************************************************************************)
EXTENDS Slots, FiniteSets

CONSTANTS
  BatchSize,    \* batch_size
  MaxPending,   \* maxPendingStates
  MaxFlips,     \* bound: transitions of the service
  MaxJobs       \* bound: recoveries

ASSUME SamplesAssumption ==
  /\ BatchSize \in Nat \ {0} /\ MaxPending \in Nat \ {0}
  /\ MaxFlips \in Nat /\ MaxJobs \in Nat

VARIABLES
  receiver,   \* "up" or "down"
  engine,     \* availability the engine holds, "none" before its first look
  flips,      \* history: when it changed
  ready,      \* transitions the engine has made and main has not enqueued yet
  offered,    \* history: transitions enqueued
  heard,      \* history: those enqueued when the last sample was recorded
  jobs,       \* recoveries enqueued
  queue,      \* commands: Event, or the slot of a recovery
  batch,      \* transitions taken from the queue and not settled
  job,        \* pendingRecovery: the slots of its fill
  buffer,     \* pendingStates
  published,  \* published of the service, Never before the first
  pc,         \* control point of Run
  caller,     \* who called flush: "job", "deliver" or "select"
  return,     \* where deliverStates returns to
  owed        \* history: samples recorded that the receiver has not got

unitVars == <<engine, flips, ready>>
queueVars == <<offered, jobs, queue>>
sampleVars == <<buffer, published, owed, heard>>
workVars == <<batch, job, pc, caller, return>>
vars == <<slotVars, receiver, unitVars, queueVars, sampleVars, workVars>>

Event == -1
Never == -1
Inverted(state) == IF state = "up" THEN "down" ELSE "up"
Max2(a, b) == IF a > b THEN a ELSE b

\* Transitions the receiver has accepted or refused; they are settled in the
\* order they were enqueued in.
Settled == offered - batch - Len(SelectSeq(queue, LAMBDA c : c = Event))

\* slotStateSamples.
Sample(at) == [at |-> at, state |-> engine]

\* The loop begins after startup, which leaves a startup fill that was not
\* delivered in the buffer.  Transitions it leaves in batch are like those taken
\* from the queue, and which of its two states the service is in makes no
\* difference.
Init ==
  /\ SlotInit
  /\ receiver = "up" /\ engine \in {"up", "none"} /\ flips = << >> /\ ready = 0
  /\ batch = 0 /\ job = {}
  /\ offered = batch /\ jobs = 0 /\ queue = << >>
  /\ buffer \in {<< >>} \cup IF engine = "none" THEN {} ELSE {<<Sample(SlotStart(now))>>}
  /\ published = Never /\ heard = offered
  /\ owed = {[at |-> s.at, edge |-> FALSE] : s \in Range(buffer)}
  /\ pc = "top" /\ caller = "select" /\ return = "top"

(***************************************************************************)
(* The receiver, the unit, and main, which enqueues.                       *)
(***************************************************************************)

\* The other steps of the worker take no time.
Requesting == pc \in {"flush", "job", "states"}
Waiting == Requesting \/ (pc = "select" /\ ~catching)

\* It makes a difference while a request is out.
ReceiverChange ==
  /\ Requesting
  /\ receiver' \in {"up", "down"} \ {receiver}
  /\ UNCHANGED <<slotVars, unitVars, queueVars, sampleVars, workVars>>

TimePasses ==
  /\ Waiting
  /\ Tick
  /\ UNCHANGED <<receiver, unitVars, queueVars, sampleVars, workVars>>

FirstLook ==
  /\ Waiting
  /\ engine = "none" /\ engine' = "up"
  /\ UNCHANGED <<slotVars, receiver, flips, ready, queueVars, sampleVars, workVars>>

\* At most one transition per tick.
Flip ==
  /\ Waiting /\ engine # "none" /\ Len(flips) < MaxFlips
  /\ Tick
  /\ engine' = Inverted(engine) /\ flips' = Append(flips, now') /\ ready' = ready + 1
  /\ UNCHANGED <<receiver, queueVars, sampleVars, workVars>>

\* The step from the top does not look at the queue.
EnqueueEvent ==
  /\ ready > 0 /\ pc # "top"
  /\ ready' = ready - 1 /\ offered' = offered + 1 /\ queue' = Append(queue, Event)
  /\ UNCHANGED <<slotVars, receiver, engine, flips, jobs, sampleVars, workVars>>

\* The fill of a recovery covers the slot of the time it is built at.
EnqueueRecovery ==
  /\ jobs < MaxJobs /\ pc # "top"
  /\ jobs' = jobs + 1 /\ queue' = Append(queue, SlotStart(now))
  /\ UNCHANGED <<slotVars, receiver, unitVars, offered, sampleVars, workVars>>

Environment ==
  ReceiverChange \/ TimePasses \/ FirstLook \/ Flip \/ EnqueueEvent \/ EnqueueRecovery

(***************************************************************************)
(* flush and sendRecovery.  Time may pass during a request.  A receiver    *)
(* that is up accepts a request or refuses it (4xx).                       *)
(***************************************************************************)

Top ==
  /\ pc = "top"
  /\ caller' = "job"
  /\ pc' = IF job = {} THEN "edges" ELSE IF batch = 0 THEN "job" ELSE "flush"
  /\ UNCHANGED <<slotVars, receiver, unitVars, queueVars, sampleVars, batch, job, return>>

AfterFlush ==
  CASE caller = "job" -> "job" [] caller = "deliver" -> "states" [] caller = "select" -> "top"

AfterFailedFlush ==
  CASE caller = "job" -> "edges" [] caller = "deliver" -> return [] caller = "select" -> "top"

\* A refused batch is dropped.
FlushReturns ==
  /\ pc = "flush"
  /\ \/ receiver = "up" /\ batch' = 0 /\ pc' = AfterFlush
     \/ receiver = "down" /\ UNCHANGED batch /\ pc' = AfterFailedFlush
  /\ UNCHANGED <<slotVars, receiver, unitVars, queueVars, sampleVars, job, caller, return>>

\* The fill and the events of the recovery; refused ones are given up.
JobReturns ==
  /\ pc = "job" /\ pc' = "edges"
  /\ job' = IF receiver = "up" THEN {} ELSE job
  /\ UNCHANGED <<slotVars, receiver, unitVars, queueVars, sampleVars, batch, caller, return>>

(***************************************************************************)
(* recordStates and deliverStates.                                         *)
(***************************************************************************)

\* Nothing the sample would have to wait for.
Recordable == job = {} /\ queue = << >>

\* bufferStates and pruneStates: the samples of the open slot, the newest of them.
BufferStates(s, edge) ==
  LET kept == SelectSeq(Append(buffer, s), LAMBDA x : x.at >= SlotStart(now))
      cut == Len(kept) - Len(Newest(kept, MaxPending))
  IN /\ buffer' = Newest(kept, MaxPending)
     /\ heard' = offered
     /\ owed' = {o \in owed \cup {[at |-> s.at, edge |-> edge]} :
                   o.at >= SlotStart(now) /\ \A i \in 1..cut : kept[i].at # o.at}

\* Mutant: the samples go ahead of the transitions.
DeliverAhead ==
  /\ pc = "deliver"
  /\ caller' = "deliver"
  /\ pc' = IF buffer = << >> \/ ~Recordable THEN return ELSE "states"
  /\ UNCHANGED <<slotVars, receiver, unitVars, queueVars, sampleVars, batch, job, return>>

Deliver ==
  /\ pc = "deliver"
  /\ caller' = "deliver"
  /\ pc' = IF buffer = << >> \/ ~Recordable THEN return
           ELSE IF batch = 0 THEN "states" ELSE "flush"
  /\ UNCHANGED <<slotVars, receiver, unitVars, queueVars, sampleVars, batch, job, return>>

\* dropStale.
Fresh == SelectSeq(buffer, LAMBDA s : s.at > published)

NoteSamples == Max({s.at : s \in Range(Fresh)})

\* Samples the receiver has got, or has a newer one instead of.
Got == {o \in owed : \/ \E i \in DOMAIN Fresh : Fresh[i].at = o.at
                     \/ o.edge /\ o.at < published
                     \/ o.at = published}

\* Mutant: the buffer is cleared whether or not the request succeeded.
StatesReturnForgets ==
  /\ pc = "states"
  /\ \/ /\ Fresh = << >> \/ receiver = "down"
        /\ UNCHANGED <<owed, published>>
     \/ /\ Fresh # << >> /\ receiver = "up"
        /\ owed' = owed \ Got /\ published' = NoteSamples
  /\ buffer' = << >>
  /\ pc' = return
  /\ UNCHANGED <<slotVars, receiver, unitVars, queueVars, heard, batch, job, caller, return>>

\* Stale samples are left out of the request.  A refused request is given up, an
\* unanswered one is kept.
StatesReturn ==
  /\ pc = "states"
  /\ \/ /\ Fresh = << >>
        /\ buffer' = << >> /\ owed' = owed \ Got /\ UNCHANGED published
     \/ /\ Fresh # << >> /\ receiver = "up"
        /\ buffer' = << >>
        /\ \/ owed' = owed \ Got /\ published' = NoteSamples
           \/ owed' = {} /\ UNCHANGED published
     \/ /\ Fresh # << >> /\ receiver = "down"
        /\ UNCHANGED <<buffer, owed, published>>
  /\ pc' = return
  /\ UNCHANGED <<slotVars, receiver, unitVars, queueVars, heard, batch, job, caller, return>>

(***************************************************************************)
(* trySlotSamples and select.                                              *)
(***************************************************************************)

\* Mutant: the state of an edge is that of the sample before it.
EdgeCached ==
  /\ pc = "edges" /\ SendSlotSample
  /\ engine # "none" /\ Recordable
  /\ BufferStates(IF buffer = << >> THEN Sample(Head(pending))
                  ELSE [Last(buffer) EXCEPT !.at = Head(pending)], TRUE)
  /\ pc' = "deliver" /\ return' = "edges"
  /\ UNCHANGED <<receiver, unitVars, queueVars, published, batch, job, caller>>

\* sendSlotSample: the state the engine holds now, at the time of the edge.
Edge ==
  /\ pc = "edges" /\ SendSlotSample
  /\ engine # "none" /\ Recordable
  /\ BufferStates(Sample(Head(pending)), TRUE)
  /\ pc' = "deliver" /\ return' = "edges"
  /\ UNCHANGED <<receiver, unitVars, queueVars, published, batch, job, caller>>

\* An edge for which the engine has no state is left out.
EdgeUnknown ==
  /\ pc = "edges" /\ SendSlotSample
  /\ engine = "none"
  /\ UNCHANGED <<receiver, unitVars, queueVars, sampleVars, workVars>>

EdgesDone ==
  /\ pc = "edges"
  /\ pending = << >> \/ (engine # "none" /\ ~Recordable)
  /\ pc' = "select" /\ caller' = "select" /\ return' = "top"
  /\ UNCHANGED <<slotVars, receiver, unitVars, queueVars, sampleVars, batch, job>>

Flush == pc' = IF batch' = 0 THEN "top" ELSE "flush"

TakeEvent ==
  /\ pc = "select" /\ ~catching
  /\ queue # << >> /\ Head(queue) = Event
  /\ queue' = Tail(queue) /\ batch' = batch + 1 /\ caller' = "select"
  /\ IF batch' >= BatchSize THEN Flush ELSE pc' = "top"
  /\ UNCHANGED <<slotVars, receiver, unitVars, offered, jobs, sampleVars, job, return>>

\* A second recovery is added to the one that waits.
TakeRecovery ==
  /\ pc = "select" /\ ~catching
  /\ queue # << >> /\ Head(queue) # Event
  /\ queue' = Tail(queue) /\ job' = job \cup {Head(queue)}
  /\ pc' = "top"
  /\ UNCHANGED <<slotVars, receiver, unitVars, offered, jobs, sampleVars, batch, caller,
                 return>>

FlushTick ==
  /\ pc = "select" /\ ~catching
  /\ caller' = "select" /\ UNCHANGED batch /\ Flush
  /\ UNCHANGED <<slotVars, receiver, unitVars, queueVars, sampleVars, job, return>>

\* Mutant: while samples wait, a heartbeat is only buffered.
HeartbeatBuffers ==
  /\ pc = "select" /\ ~catching
  /\ \/ /\ engine # "none" /\ Recordable
        /\ BufferStates(Sample(now), FALSE)
        /\ pc' = IF buffer = << >> THEN "deliver" ELSE "top"
        /\ return' = "top"
     \/ /\ ~(engine # "none" /\ Recordable)
        /\ pc' = "top" /\ UNCHANGED <<buffer, owed, heard, return>>
  /\ UNCHANGED <<slotVars, receiver, unitVars, queueVars, published, batch, job, caller>>

Heartbeat ==
  /\ pc = "select" /\ ~catching
  /\ \/ /\ engine # "none" /\ Recordable
        /\ BufferStates(Sample(now), FALSE)
        /\ pc' = "deliver" /\ return' = "top"
     \/ /\ ~(engine # "none" /\ Recordable)
        /\ pc' = "top" /\ UNCHANGED <<buffer, owed, heard, return>>
  /\ UNCHANGED <<slotVars, receiver, unitVars, queueVars, published, batch, job, caller>>

SlotEdges ==
  /\ pc = "select"
  /\ SlotTimer
  /\ pc' = IF catching' THEN "select" ELSE "top"
  /\ UNCHANGED <<receiver, unitVars, queueVars, sampleVars, batch, job, caller, return>>

Work ==
  \/ Top \/ FlushReturns \/ JobReturns \/ Deliver \/ StatesReturn
  \/ Edge \/ EdgeUnknown \/ EdgesDone

Next ==
  \/ Environment \/ Work
  \/ TakeEvent \/ TakeRecovery \/ FlushTick \/ Heartbeat \/ SlotEdges

Spec == Init /\ [][Next]_vars

\* The goroutine runs, and select, which chooses at random among the cases that
\* are ready, takes each of them some time.
FairSpec ==
  /\ Spec
  /\ WF_vars(Work)
  /\ SF_vars(TakeEvent \/ TakeRecovery) /\ SF_vars(Heartbeat) /\ SF_vars(SlotEdges)

-----------------------------------------------------------------------------
(***************************************************************************)
(* Properties.                                                             *)
(***************************************************************************)

SampleSet == [at : Nat, state : {"up", "down"}]

\* The shape of the state; nothing is published from the future.
TypeOK ==
  /\ SlotTypeOK
  /\ receiver \in {"up", "down"} /\ engine \in {"up", "down", "none"}
  /\ flips \in Seq(0..now) /\ ready \in 0..MaxFlips
  /\ offered \in Nat /\ heard \in 0..offered /\ jobs \in 0..MaxJobs
  /\ queue \in Seq(Nat \cup {Event}) /\ batch \in Nat /\ job \subseteq Nat
  /\ buffer \in Seq(SampleSet) /\ Len(buffer) <= MaxPending
  /\ published \in {Never} \cup 0..now /\ owed \subseteq [at : Nat, edge : BOOLEAN]
  /\ pc \in {"top", "flush", "job", "edges", "deliver", "states", "select"}
  /\ caller \in {"job", "deliver", "select"} /\ return \in {"edges", "top"}

\* A sample recorded in the open slot is kept until the receiver has it: an
\* outage leaves no hole.  What is given up is what was refused, what is beyond
\* the limit of the buffer, and an edge when a newer sample has overtaken it.
OutageFilled ==
  \A o \in owed : o.at >= SlotStart(now) => \E i \in DOMAIN buffer : buffer[i].at = o.at

\* "History is therefore always delivered first, and the present state only
\* afterwards": when samples are accepted, every transition that was enqueued
\* before they were recorded has been settled.
HistoryFirst ==
  [][ published' # published => heard <= Settled ]_vars

\* The availability the engine held at time t.
StateAt(t) ==
  IF Len(SelectSeq(flips, LAMBDA f : f > t)) % 2 = 1 THEN Inverted(engine) ELSE engine

\* A sample may be built late and run ahead of its time, but it never carries a
\* state that the engine had left behind before the time on it.
NotBehind ==
  \A i \in DOMAIN buffer : \E t \in buffer[i].at..now : StateAt(t) = buffer[i].state

\* "A sample carries the state observed when it was built, so replaying it later
\* still describes the moment it belongs to."
\* The code does not keep it: README.md, Known limits.
DescribesMoment == \A i \in DOMAIN buffer : buffer[i].state = StateAt(buffer[i].at)

\* "the exporter never writes into a slot that has already closed".
\* The code does not keep it: README.md, Known limits.
ClosedSlotUntouched ==
  /\ pc = "states" => \A i \in DOMAIN Fresh : Fresh[i].at >= SlotStart(now)
  /\ pc = "job" => \A slot \in job : slot >= SlotStart(now)

\* "publishes the current state at both edges of every slot".
\* The code does not keep it: README.md, Known limits.
EdgesPublished ==
  [][ pc = "states" /\ buffer' = << >> /\ receiver = "up"
        => \A i \in DOMAIN buffer : buffer[i] \in Range(Fresh) ]_vars

\* Once the receiver stays available, the worker catches up with edges and
\* samples again and again, however many passed while it was busy.
Drained ==
  <>[](receiver = "up") => []<>(buffer = << >> /\ pending = << >> /\ ~catching)

=============================================================================
