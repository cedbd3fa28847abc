------------------------------ MODULE EventLog ------------------------------
(***************************************************************************)
(* What the write-ahead log promises its callers, without saying how: a    *)
(* durable sequence of transition events and, while the disk cannot take   *)
(* them, a buffer in front of it.  An event enters once, stays behind      *)
(* those that entered before it, leaves the buffer only towards the end of *)
(* the durable log, and only a restart may lose anything.                  *)
(***************************************************************************)
EXTENDS Naturals, Sequences

CONSTANTS
  Event,          \* sequence numbers an event may carry
  LossyRestart    \* BOOLEAN: a restart may also cut off a durable suffix

VARIABLES durable, buffered

vars == <<durable, buffered>>

Init == durable = << >> /\ buffered = << >>

\* e has not been accepted before.
Fresh(e) ==
  /\ \A i \in DOMAIN durable : durable[i] # e
  /\ \A i \in DOMAIN buffered : buffered[i] # e

\* An event goes straight to the log only when nothing waits in front of it.
Store(e) ==
  /\ Fresh(e)
  /\ buffered = << >>
  /\ durable' = Append(durable, e)
  /\ UNCHANGED buffered

\* An event the disk cannot take waits behind the ones before it.
Hold(e) ==
  /\ Fresh(e)
  /\ buffered' = Append(buffered, e)
  /\ UNCHANGED durable

\* The oldest waiting event reaches the log.
Persist ==
  /\ buffered # << >>
  /\ durable' = Append(durable, Head(buffered))
  /\ buffered' = Tail(buffered)

Restart ==
  /\ buffered' = << >>
  /\ \E k \in 0..Len(durable) :
        /\ LossyRestart \/ k = Len(durable)
        /\ durable' = SubSeq(durable, 1, k)

Next ==
  \/ \E e \in Event : Store(e) \/ Hold(e)
  \/ Persist
  \/ Restart

Spec == Init /\ [][Next]_vars
=============================================================================
