-------------------------- MODULE RefreshJobProofs --------------------------
(***************************************************************************)
(* Proofs about RefreshJob for any number of workers and any settings: if  *)
(* a live worker spends no more on one feed than the lease leaves after a  *)
(* heartbeat interval, cycles never overlap, no live cycle is reclaimed    *)
(* and recorded outcomes are final.  The hypothesis is explicit because    *)
(* settings.py checks only that the heartbeat interval is below the lease. *)
(***************************************************************************)
EXTENDS RefreshJob, TLAPS

(* Every reachable state is well typed.                                    *)
THEOREM TypeCorrect == Spec => []TypeOK
<1> USE SettingsAssumption DEF TypeOK
<1>1. Init => TypeOK
  BY DEF Init
<1>2. TypeOK /\ [Next]_vars => TypeOK'
  <2> SUFFICES ASSUME TypeOK, [Next]_vars
               PROVE  TypeOK'
    OBVIOUS
  <2>1. ASSUME NEW w \in Workers, Start(w)
        PROVE  TypeOK'
    BY <2>1 DEF Start
  <2>2. ASSUME NEW w \in Workers, Signal(w)
        PROVE  TypeOK'
    BY <2>2 DEF Signal
  <2>3. ASSUME NEW w \in Workers, Exit(w)
        PROVE  TypeOK'
    BY <2>3 DEF Exit
  <2>4. ASSUME NEW w \in Workers, Crash(w)
        PROVE  TypeOK'
    BY <2>4 DEF Crash
  <2>5. ASSUME NEW w \in Workers, Acquire(w)
        PROVE  TypeOK'
    BY <2>5 DEF Acquire, Running
  <2>6. ASSUME NEW w \in Workers, FeedDone(w)
        PROVE  TypeOK'
    BY <2>6 DEF FeedDone
  <2>7. ASSUME NEW w \in Workers, StopCycle(w)
        PROVE  TypeOK'
    BY <2>7 DEF StopCycle, Finish
  <2>8. ASSUME NEW w \in Workers, EndCycle(w)
        PROVE  TypeOK'
    BY <2>8 DEF EndCycle, Finish
  <2>9. ASSUME NEW w \in Workers, CycleRaises(w)
        PROVE  TypeOK'
    BY <2>9 DEF CycleRaises, Finish
  <2>10. CASE Tick
    BY <2>10 DEF Tick, Older, Running
  <2>11. CASE UNCHANGED vars
    BY <2>11 DEF vars
  <2>12. QED
    BY <2>1, <2>2, <2>3, <2>4, <2>5, <2>6, <2>7, <2>8, <2>9, <2>10, <2>11
       DEF Next, Cycle, SkipCycle
<1>3. QED
  BY <1>1, <1>2, PTL DEF Spec

(* The timing under which the lease is a lock.                             *)
FeedFitsLease == HeartbeatEvery + MaxFeedTime <= Lease

(* No worker inside a cycle is ever silent for a whole lease.              *)
LEMMA LiveIsNotExpired ==
  ASSUME TypeOK, LeaseInv, FeedFitsLease, NEW w \in Workers, pc[w] = "cycling"
  PROVE  Running(w) /\ ~Expired(w)
BY SettingsAssumption DEF TypeOK, LeaseInv, FeedFitsLease, Expired

LEMMA LeaseStep ==
  ASSUME TypeOK, LeaseInv, FeedFitsLease, [Next]_vars
  PROVE  LeaseInv'
<1> USE SettingsAssumption DEF LeaseInv, Running, TypeOK
<1>1. ASSUME NEW w \in Workers, Start(w) \/ Signal(w) \/ Exit(w) \/ Crash(w)
      PROVE  LeaseInv'
  BY <1>1 DEF Start, Signal, Exit, Crash
<1>2. ASSUME NEW w \in Workers, Acquire(w)
      PROVE  LeaseInv'
  <2>1. \A v \in Workers : pc[v] # "cycling"
    BY <1>2, LiveIsNotExpired DEF Acquire, NobodyAlive
  <2>2. QED
    BY <1>2, <2>1 DEF Acquire
<1>3. ASSUME NEW w \in Workers, FeedDone(w)
      PROVE  LeaseInv'
  BY <1>3 DEF FeedDone
<1>4. ASSUME NEW w \in Workers, StopCycle(w) \/ EndCycle(w) \/ CycleRaises(w)
      PROVE  LeaseInv'
  BY <1>4 DEF StopCycle, EndCycle, CycleRaises, Finish
<1>5. CASE Tick
  BY <1>5 DEF Tick, Older
<1>6. CASE UNCHANGED vars
  BY <1>6 DEF vars
<1>7. QED
  BY <1>1, <1>2, <1>3, <1>4, <1>5, <1>6 DEF Next, Cycle, SkipCycle

(* The invariant that makes the lease a lock.                              *)
THEOREM LeaseHolds == ASSUME FeedFitsLease PROVE Spec => []LeaseInv
<1>1. Init => LeaseInv
  BY DEF Init, LeaseInv, Running
<1>2. TypeOK /\ LeaseInv /\ [Next]_vars => LeaseInv'
  BY LeaseStep
<1>3. QED
  BY <1>1, <1>2, TypeCorrect, PTL DEF Spec

(* At most one live worker is inside a refresh cycle.                      *)
THEOREM CyclesExclude == ASSUME FeedFitsLease PROVE Spec => []OneCycleAtATime
<1>1. LeaseInv => OneCycleAtATime
  BY DEF LeaseInv, OneCycleAtATime
<1>2. QED
  BY <1>1, LeaseHolds, PTL

(* A cycle that is going on is never reported as stale, if a heartbeat     *)
(* interval and one feed fit into the age the health check allows.         *)
THEOREM LiveCyclesAreHealthy ==
  ASSUME FeedFitsLease, HeartbeatEvery + MaxFeedTime <= MaxHeartbeatAge + 1
  PROVE  Spec => []LiveCycleNotStale
<1>1. TypeOK /\ LeaseInv => LiveCycleNotStale
  BY SettingsAssumption DEF TypeOK, LeaseInv, LiveCycleNotStale, Stale, Running
<1>2. QED
  BY <1>1, LeaseHolds, TypeCorrect, PTL

(* A slow run is never stolen: the row of a worker inside its cycle is     *)
(* never reclaimed.                                                        *)
THEOREM NeverStolen == ASSUME FeedFitsLease PROVE Spec => SlowRunNeverStolen
<1> DEFINE A == \A w \in Workers :
                  (pc[w] = "cycling" /\ pc'[w] = "cycling" /\ Running(w))
                     => status'[w] = "running"
<1>1. TypeOK /\ LeaseInv /\ LeaseInv' => A
  BY DEF LeaseInv, Running
<1>2. QED
  BY <1>1, LeaseHolds, TypeCorrect, PTL DEF Spec, SlowRunNeverStolen

(* A recorded outcome is final.                                            *)
THEOREM OutcomesAreFinal == ASSUME FeedFitsLease PROVE Spec => OutcomeIsFinal
<1> DEFINE A == \A w \in Workers :
                  status[w] \in {"succeeded", "failed", "interrupted"} =>
                    status'[w] \in {status[w], "running"}
<1>1. TypeOK /\ LeaseInv /\ [Next]_vars => A
  <2> SUFFICES ASSUME TypeOK, LeaseInv, [Next]_vars
               PROVE  A
    OBVIOUS
  <2> USE DEF TypeOK
  <2>1. ASSUME NEW w \in Workers, Acquire(w)
        PROVE  A
    BY <2>1 DEF Acquire, Running
  <2>2. ASSUME NEW w \in Workers, StopCycle(w) \/ EndCycle(w) \/ CycleRaises(w)
        PROVE  A
    <3>1. status[w] = "running" /\ \E s : status' = [status EXCEPT ![w] = s]
      BY <2>2 DEF StopCycle, EndCycle, CycleRaises, Finish, LeaseInv, Running
    <3>2. QED
      BY <3>1
  <2>3. CASE UNCHANGED status
    BY <2>3
  <2>4. QED
    BY <2>1, <2>2, <2>3 DEF Next, Cycle, vars, Start, SkipCycle, FeedDone,
                            Signal, Exit, Crash, Tick
<1>2. QED
  BY <1>1, LeaseHolds, TypeCorrect, PTL DEF Spec, OutcomeIsFinal

(* What the mapping makes of the workers' places.                          *)
LEMMA CyclingWorkerFacts ==
  ASSUME OneCycleAtATime
  PROVE  /\ \A w \in Workers : pc[w] = "cycling" => CyclingWorker = w
         /\ (\A w \in Workers : pc[w] # "cycling") => CyclingWorker = NoWorker
BY DEF OneCycleAtATime, CyclingWorker

LEMMA LeaseStepImplements ==
  ASSUME TypeOK, LeaseInv, LeaseInv', FeedFitsLease, [Next]_vars
  PROVE  [Lock!Next]_(Lock!lease)
<1> USE DEF TypeOK
<1>1. OneCycleAtATime /\ OneCycleAtATime'
  BY DEF LeaseInv, OneCycleAtATime
<1>2. /\ \A w \in Workers : pc[w] = "cycling" => CyclingWorker = w
      /\ (\A w \in Workers : pc[w] # "cycling") => CyclingWorker = NoWorker
  BY <1>1, CyclingWorkerFacts
<1>3. /\ \A w \in Workers : pc'[w] = "cycling" => CyclingWorker' = w
      /\ (\A w \in Workers : pc'[w] # "cycling") => CyclingWorker' = NoWorker
  BY <1>1 DEF OneCycleAtATime, CyclingWorker
<1>4. ASSUME status' = status,
             \A w \in Workers : pc'[w] = "cycling" <=> pc[w] = "cycling"
      PROVE  UNCHANGED Lock!lease
  <2>1. CASE \E w \in Workers : pc[w] = "cycling"
    BY <1>2, <1>3, <1>4, <2>1 DEF Lock!lease
  <2>2. CASE \A w \in Workers : pc[w] # "cycling"
    BY <1>2, <1>3, <1>4, <2>2 DEF Lock!lease
  <2>3. QED
    BY <2>1, <2>2
<1>5. ASSUME NEW w \in Workers, Start(w) \/ Signal(w) \/ Exit(w) \/ FeedDone(w)
      PROVE  UNCHANGED Lock!lease
  BY <1>4, <1>5 DEF Start, Signal, Exit, FeedDone
<1>6. ASSUME NEW w \in Workers, Acquire(w)
      PROVE  Lock!Claim(w)
  <2>1. \A v \in Workers : pc[v] # "cycling"
    BY <1>6, LiveIsNotExpired DEF Acquire, NobodyAlive
  <2>2. pc'[w] = "cycling"
    BY <1>6 DEF Acquire
  <2>3. QED
    BY <1>2, <1>3, <1>6, <2>1, <2>2 DEF Acquire, Running, Lock!Claim
<1>7. ASSUME NEW w \in Workers, StopCycle(w) \/ EndCycle(w) \/ CycleRaises(w)
      PROVE  Lock!Complete(w)
  <2>1. /\ pc[w] = "cycling" /\ \A v \in Workers : pc'[v] # "cycling"
        /\ \E s \in {"succeeded", "failed", "interrupted"} : status' = [status EXCEPT ![w] = s]
    BY <1>1, <1>7 DEF StopCycle, EndCycle, CycleRaises, Finish, OneCycleAtATime
  <2>2. status[w] = "running"
    BY <2>1 DEF LeaseInv, Running
  <2>3. QED
    BY <1>2, <1>3, <2>1, <2>2 DEF Lock!Complete
<1>8. ASSUME NEW w \in Workers, Crash(w)
      PROVE  Lock!Abandon(w) \/ UNCHANGED Lock!lease
  <2>1. CASE pc[w] = "cycling"
    <3>1. \A v \in Workers : pc'[v] # "cycling"
      BY <1>1, <1>8, <2>1 DEF Crash, OneCycleAtATime
    <3>2. QED
      BY <1>2, <1>3, <1>8, <2>1, <3>1 DEF Crash, Lock!Abandon
  <2>2. CASE pc[w] # "cycling"
    BY <1>4, <1>8, <2>2 DEF Crash
  <2>3. QED
    BY <2>1, <2>2
<1>9. CASE Tick
  BY <1>4, <1>9 DEF Tick
<1>10. CASE UNCHANGED vars
  BY <1>4, <1>10 DEF vars
<1>11. QED
  BY <1>5, <1>6, <1>7, <1>8, <1>9, <1>10
     DEF Next, Cycle, SkipCycle, vars, Lock!Next, Lock!lease

(* The time-based lease implements the lock: no run is ever reclaimed from *)
(* a worker that is at work on it, and each gets one outcome.              *)
THEOREM LeaseIsALock == ASSUME FeedFitsLease PROVE Spec => ImplementsLease
<1>1. Init => Lock!Init
  BY DEF Init, Lock!Init, CyclingWorker
<1>2. TypeOK /\ LeaseInv /\ LeaseInv' /\ [Next]_vars => [Lock!Next]_(Lock!lease)
  BY LeaseStepImplements
<1>3. QED
  BY <1>1, <1>2, TypeCorrect, LeaseHolds, PTL DEF Spec, ImplementsLease, Lock!Spec
=============================================================================
