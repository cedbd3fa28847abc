---------------------------- MODULE ProberProofs ----------------------------
(***************************************************************************)
(* Proofs about module Prober, for any number of runs.                     *)
(***************************************************************************)
EXTENDS Prober, TLAPS

\* The registry and the goroutines agree.
ProberInv == TypeOK /\ OneLoop /\ RegisteredAlive

\* Between any Start, Stop, late answer and late finish at most one loop is live
\* and not cancelled, it is the one running names, and running never names a run
\* that has ended.
THEOREM RegistryConsistent == Spec => [](OneLoop /\ RegisteredAlive)
<1>1. Init => ProberInv
  BY ProberAssumption DEF Init, ProberInv, TypeOK, OneLoop, RegisteredAlive, Live, Runs
<1>2. ProberInv /\ [Next]_vars => ProberInv'
  <2> SUFFICES ASSUME ProberInv, [Next]_vars PROVE ProberInv'
    OBVIOUS
  <2> USE ProberAssumption DEF ProberInv, TypeOK, OneLoop, RegisteredAlive, Live, Runs
  <2>1. CASE Start
    <3>1. CASE running # 0
      BY <2>1, <3>1 DEF Start
    <3>2. CASE running = 0
      BY <2>1, <3>2 DEF Start
    <3> QED BY <3>1, <3>2
  <2>2. CASE Stop
    BY <2>2 DEF Stop
  <2>3. ASSUME NEW r \in Runs, Packet(r) PROVE ProberInv'
    BY <2>3 DEF Packet
  <2>4. ASSUME NEW r \in Runs, Top(r) PROVE ProberInv'
    BY <2>4 DEF Top, Finish
  <2>5. ASSUME NEW r \in Runs, ReadPacket(r) PROVE ProberInv'
    BY <2>5 DEF ReadPacket
  <2>6. ASSUME NEW r \in Runs, ReadFails(r) PROVE ProberInv'
    BY <2>6 DEF ReadFails, Finish
  <2>7. ASSUME NEW r \in Runs, ReadyReturns(r) PROVE ProberInv'
    BY <2>7 DEF ReadyReturns, Finish
  <2>8. CASE UNCHANGED vars
    BY <2>8 DEF vars
  <2> QED BY <2>1, <2>2, <2>3, <2>4, <2>5, <2>6, <2>7, <2>8 DEF Next, RunStep
<1>3. ProberInv => OneLoop /\ RegisteredAlive
  BY DEF ProberInv
<1> QED BY <1>1, <1>2, <1>3, PTL DEF Spec

=============================================================================
