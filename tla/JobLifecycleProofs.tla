-------------------------- MODULE JobLifecycleProofs --------------------------
(***************************************************************************)
(* That JobLifecycle guarantees what single flight is for, whatever the    *)
(* jobs and flights are.                                                   *)
(***************************************************************************)
EXTENDS JobLifecycle, TLAPS

Busy(j) == phase[j] \in {"waiting", "working"}

\* Inductive where OneWorker is not: a job that waits will work.
OneBusy ==
  /\ phase \in [JobIds -> Phases]
  /\ \A i, j \in JobIds : Busy(i) /\ Busy(j) /\ Flight(i) = Flight(j) => i = j

LEMMA StepOneBusy == OneBusy /\ [Next]_phase => OneBusy'
  <1>. SUFFICES ASSUME OneBusy, [Next]_phase PROVE OneBusy'
    OBVIOUS
  <1>. USE DEF OneBusy, Busy, Phases
  <1>1. ASSUME NEW j \in JobIds, Submit(j) \/ Resume(j) PROVE OneBusy'
    BY <1>1 DEF Submit, Resume, Free, Move
  <1>2. ASSUME NEW j \in JobIds, Begin(j) \/ Withdraw(j) \/ End(j) PROVE OneBusy'
    BY <1>2 DEF Begin, Withdraw, End, Move
  <1>3. ASSUME NEW S \in SUBSET JobIds, Drop(S) PROVE OneBusy'
    BY <1>3 DEF Drop
  <1>4. CASE Reap
    BY <1>4 DEF Reap
  <1>5. CASE UNCHANGED phase
    BY <1>5
  <1>. QED BY <1>1, <1>2, <1>3, <1>4, <1>5 DEF Next

\* No two jobs of one flight work at once.
THEOREM LifecycleOneWorker == Spec => []OneWorker
  <1>1. Init => OneBusy
    BY DEF Init, OneBusy, Busy, Phases
  <1>2. OneBusy => OneWorker
    BY DEF OneBusy, Busy, OneWorker
  <1>. QED BY <1>1, <1>2, StepOneBusy, PTL DEF Spec
===============================================================================
