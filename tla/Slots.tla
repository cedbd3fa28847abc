------------------------------- MODULE Slots -------------------------------
(***************************************************************************)
(* The grid of slots of internal/recovery/backfill.go and the timer with   *)
(* which a delivery worker (internal/delivery/worker.go) publishes a sample *)
(* at both edges of every slot.  Time is counted in ticks from an hour.    *)
(* Samples puts the rest of the loop of the worker around these actions.   *)
(***************************************************************************)
EXTENDS Integers, Sequences, SequencesExt

CONSTANTS
  Minute, Hour,  \* ticks in a minute and in an hour
  Size,          \* recovery_window; it divides the hour
  Fraction,      \* SlotEndFraction
  Lead,          \* SlotEndLead
  MaxEdges,      \* edges that may wait (4 in the code)
  Starts,        \* bound: when the worker may start
  MaxTime        \* bound: ticks in a behaviour

ASSUME SlotsAssumption ==
  /\ Minute \in Nat \ {0} /\ Hour \in Nat \ {0} /\ Hour % Minute = 0
  /\ Size \in Nat \ {0} /\ Hour % Size = 0
  /\ Fraction \in Nat \ {0} /\ Lead \in Nat \ {0} /\ Fraction < Size - Lead
  /\ MaxEdges \in Nat \ {0} /\ MaxTime \in Nat /\ Starts \subseteq 0..MaxTime

VARIABLES
  now,
  catching,     \* in the loop that catches up on the edges that passed
  nextOpening, nextClosing,
  pending,      \* pendingSlotSamples
  first,        \* history: the slot in which the worker started
  due           \* history: every edge passed to enqueueSlotSample

slotVars == <<now, catching, nextOpening, nextClosing, pending, first, due>>

\* Only the whole minutes of t count.
SlotStart(t) ==
  LET minute == (t % Hour) \div Minute
  IN t - (t % Hour) + ((minute * Minute) \div Size) * Size

SlotOpeningTime(start) == start + Fraction
SlotClosingTime(start) == start + Size - Lead

DueSlotOpening(t) ==
  LET opening == SlotOpeningTime(SlotStart(t))
  IN IF opening <= t /\ t < SlotStart(t) + Size THEN <<opening>> ELSE << >>

DueSlotClosing(t) ==
  LET closing == SlotClosingTime(SlotStart(t))
  IN IF closing <= t /\ t < SlotStart(t) + Size THEN <<closing>> ELSE << >>

NextSlotOpening(t) ==
  LET opening == SlotOpeningTime(SlotStart(t))
  IN IF t < opening THEN opening ELSE SlotOpeningTime(SlotStart(t) + Size)

NextSlotClosing(t) ==
  LET closing == SlotClosingTime(SlotStart(t))
  IN IF t < closing THEN closing ELSE SlotClosingTime(SlotStart(t) + Size)

SlotInit ==
  /\ now \in Starts
  /\ catching = FALSE
  /\ nextOpening = NextSlotOpening(now) /\ nextClosing = NextSlotClosing(now)
  /\ pending = DueSlotOpening(now) \o DueSlotClosing(now)
  /\ first = SlotStart(now) /\ due = pending

\* The worker may be busy sending while time passes.
Tick ==
  /\ now < MaxTime
  /\ now' = now + 1
  /\ UNCHANGED <<catching, nextOpening, nextClosing, pending, first, due>>

Newest(s, n) == SubSeq(s, IF Len(s) > n THEN Len(s) - n + 1 ELSE 1, Len(s))

Earlier == IF nextOpening < nextClosing THEN nextOpening ELSE nextClosing

\* Mutant: the oldest edges wait.
EnqueueSlotSampleOldest(at) ==
  IF pending # << >> /\ Last(pending) = at THEN UNCHANGED <<pending, due>>
  ELSE /\ due' = Append(due, at)
       /\ pending' = LET all == Append(pending, at)
                     IN SubSeq(all, 1, Len(Newest(all, MaxEdges)))

\* The newest edges wait.
EnqueueSlotSample(at) ==
  IF pending # << >> /\ Last(pending) = at THEN UNCHANGED <<pending, due>>
  ELSE /\ due' = Append(due, at)
       /\ pending' = Newest(Append(pending, at), MaxEdges)

\* Mutant: both edges advance together.
AdvancePastBoth(fired) ==
  /\ nextOpening' = SlotOpeningTime(SlotStart(fired) + Size)
  /\ nextClosing' = SlotClosingTime(SlotStart(fired) + Size)

AdvancePast(fired) ==
  IF fired = nextOpening
    THEN nextOpening' = SlotOpeningTime(SlotStart(nextOpening) + Size) /\ UNCHANGED nextClosing
    ELSE nextClosing' = SlotClosingTime(SlotStart(nextClosing) + Size) /\ UNCHANGED nextOpening

\* The timer was set for Earlier; select takes its channel some time later.
Fire ==
  /\ ~catching /\ Earlier <= now
  /\ EnqueueSlotSample(Earlier) /\ AdvancePast(Earlier)
  /\ catching' = TRUE
  /\ UNCHANGED <<now, first>>

\* The edges that passed while the worker was busy.
CatchUp ==
  /\ catching /\ Earlier <= now
  /\ EnqueueSlotSample(Earlier) /\ AdvancePast(Earlier)
  /\ UNCHANGED <<now, catching, first>>

CaughtUp ==
  /\ catching /\ now < Earlier
  /\ catching' = FALSE
  /\ UNCHANGED <<now, nextOpening, nextClosing, pending, first, due>>

\* trySlotSamples: the oldest edge leaves.
SendSlotSample ==
  /\ ~catching /\ pending # << >>
  /\ pending' = Tail(pending)
  /\ UNCHANGED <<now, catching, nextOpening, nextClosing, first, due>>

SlotTimer == Fire \/ CatchUp \/ CaughtUp

-----------------------------------------------------------------------------

\* SlotStart is the beginning of the slot that contains the time ("SlotStart
\* returns the beginning of the local-time slot containing t").
SlotContains == SlotStart(now) <= now /\ now < SlotStart(now) + Size

\* The waiting edges are the newest that fell due, and the slot of the time
\* contains it.
SlotTypeOK ==
  /\ now \in 0..MaxTime /\ catching \in BOOLEAN
  /\ nextOpening \in Nat /\ nextClosing \in Nat
  /\ pending \in Seq(Nat) /\ Len(pending) <= MaxEdges /\ IsSuffix(pending, due)
  /\ SlotContains

IsEdge(t) == t % Size \in {Fraction, Size - Lead}

\* The edges that fall due are those of the grid, from the slot of the start to
\* the one the timer is set for: none is skipped, repeated or out of order,
\* however long the worker was busy.
EdgesExact == due = SelectSeq([i \in 1..(Earlier - first) |-> first + i - 1], IsEdge)

=============================================================================
