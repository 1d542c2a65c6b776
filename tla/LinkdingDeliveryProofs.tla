----------------------- MODULE LinkdingDeliveryProofs -----------------------
(***************************************************************************)
(* Proofs about LinkdingDelivery for any number of articles, savers and    *)
(* drainers, any budget and any backoff.                                   *)
(***************************************************************************)
EXTENDS LinkdingDelivery, TLAPS

LEMMA RetryDelayBounded ==
  ASSUME NEW n
  PROVE  RetryDelay(n) \in 0..BackoffCap
BY DeliveryAssumption DEF RetryDelay

LEMMA WaitBounded ==
  ASSUME NEW job \in Job
  PROVE  WaitAfter(job) \in Nat
<1>1. RetryDelay(job.tries) \in Nat /\ job.spent \in Nat
  BY RetryDelayBounded, DeliveryAssumption DEF Job
<1>2. QED
  BY <1>1 DEF WaitAfter

(* A row stays a row under each of the updates the statements make.        *)
LEMMA RowUpdates ==
  ASSUME NEW r \in DeliveryRow, NEW w \in Nat
  PROVE  /\ [r EXCEPT !.wait = w] \in DeliveryRow
         /\ [r EXCEPT !.state = "queued", !.attempts = 0, !.wait = 0,
                      !.error = "none"] \in DeliveryRow
BY DEF DeliveryRow, States, Errors

(* An attempt stays an attempt on its delivery under its updates.          *)
LEMMA JobUpdates ==
  ASSUME NEW j \in Job, NEW n \in Nat
  PROVE  /\ [j EXCEPT !.spent = n] \in Job
         /\ [j EXCEPT !.spent = n].item = j.item
         /\ [j EXCEPT !.spent = n].tries = j.tries
         /\ [j EXCEPT !.spent = n].result = j.result
         /\ [j EXCEPT !.alive = FALSE, !.undisturbed = FALSE] \in Job
         /\ [j EXCEPT !.alive = FALSE, !.undisturbed = FALSE].item = j.item
         /\ [j EXCEPT !.alive = FALSE, !.undisturbed = FALSE].tries = j.tries
         /\ [j EXCEPT !.alive = FALSE, !.undisturbed = FALSE].result = j.result
BY DEF Job

(* What an attempt that has ended writes.                                  *)
LEMMA OutcomeFacts ==
  ASSUME NEW job \in Job, job.result # "none"
  PROVE  /\ Outcome(job) \in DeliveryRow
         /\ Outcome(job).attempts = job.tries
         /\ Outcome(job).wait = NoTime <=> Outcome(job).state # "transient_failed"
         /\ Outcome(job).delivered <=> Outcome(job).state = "succeeded"
         /\ Outcome(job).state = "succeeded" <=> job.result = "ok"
         /\ Outcome(job).error = "none" <=> job.result = "ok"
         /\ Outcome(job).state \in
              {"succeeded", "transient_failed", "permanent_failed"}
         /\ Outcome(job).state = "transient_failed" => job.tries < MaxAttempts
<1>1. /\ job.tries \in Nat /\ job.result \in {"ok", "retryable", "final"}
      /\ WaitAfter(job) \in Nat /\ WaitAfter(job) # NoTime
  BY WaitBounded, DeliveryAssumption DEF Job
<1>2. QED
  BY <1>1 DEF Outcome, Written, DeliveryRow, States, Errors

(* Losing its solitude changes nothing else of an attempt.                 *)
LEMMA DisturbFacts ==
  ASSUME attempt \in [Processes -> Job], NEW p, NEW d
  PROVE  /\ Disturb(p, d) \in [Processes -> Job]
         /\ \A q \in Processes :
              /\ Disturb(p, d)[q].item = attempt[q].item
              /\ Disturb(p, d)[q].tries = attempt[q].tries
              /\ Disturb(p, d)[q].result = attempt[q].result
BY DEF Disturb, Job

----------------------------------------------------------------------------
(* The history of attempts stays typed.                                    *)
TallyTyped ==
  /\ made \in [Deliveries -> Nat] /\ strays \in [Deliveries -> Nat]
  /\ lone \in [Deliveries -> SUBSET Processes]

LEMMA TallyStep ==
  ASSUME TallyTyped, [Next]_vars
  PROVE  TallyTyped'
<1>1. ASSUME NEW D, NEW n \in Nat, NEW M \in SUBSET Processes, Restart(D, n, M)
      PROVE  TallyTyped'
  BY <1>1 DEF Restart, TallyTyped
<1>2. ASSUME NEW r \in Drainers, NEW d \in Deliveries, OneMore(r, d)
      PROVE  TallyTyped'
  BY <1>2 DEF OneMore, TallyTyped, Processes
<1>3. ASSUME NEW p \in Processes, Crash(p)
      PROVE  TallyTyped'
  BY <1>3 DEF Crash, TallyTyped
<1>4. ASSUME NEW p \in Processes, Record(p)
      PROVE  TallyTyped'
  BY <1>4 DEF Record, TallyTyped
<1>5. CASE UNCHANGED tally
  BY <1>5 DEF tally, TallyTyped
<1>6. ASSUME NEW p \in Savers, NEW d \in Deliveries, Save(p, d)
      PROVE  TallyTyped'
  BY <1>1, <1>6 DEF Save, Processes
<1>7. ASSUME NEW D, Restart(D, 0, {})
      PROVE  TallyTyped'
  BY <1>1, <1>7
<1>8. QED
  BY <1>2, <1>3, <1>4, <1>5, <1>6, <1>7
     DEF Next, Drain, Attempt, Unsave, Requeue, List, EndDrain, Claim, LoseClaim, Lookup, Post,
         Exchange, RecordFails, Project, Tick, vars

(* Every step keeps the types.                                             *)
LEMMA TypeStep == TypeOK /\ [Next]_vars => TypeOK'
<1> SUFFICES ASSUME TypeOK, [Next]_vars
             PROVE  TypeOK'
  OBVIOUS
<1>0. /\ made' \in [Deliveries -> Nat] /\ strays' \in [Deliveries -> Nat]
      /\ lone' \in [Deliveries -> SUBSET Processes]
  BY TallyStep DEF TypeOK, TallyTyped
<1> USE <1>0 DEF TypeOK, Busy, Exchanging, drains, counters
<1>1. ASSUME NEW p \in Savers, NEW d \in Deliveries, Save(p, d)
      PROVE  TypeOK'
  <2> DEFINE job == [item |-> d, tries |-> 1, result |-> "none",
                     alive |-> TRUE, spent |-> 0, undisturbed |-> FALSE]
  <2>1. p \in Processes /\ job \in Job /\ Queued \in DeliveryRow
    BY DEF Processes, Job, Queued, DeliveryRow, States, Errors
  <2>2. /\ row' \in [Deliveries -> DeliveryRow]
        /\ unchanged' \in [Drainers -> SUBSET Deliveries]
        /\ saves' \in Nat
    BY <1>1, <2>1 DEF Save, Rescheduled
  <2>3. /\ attempt' \in [Processes -> Job] /\ attempt'[p] = job
        /\ \A q \in Processes : q # p =>
             /\ attempt'[q].item = attempt[q].item
             /\ attempt'[q].result = attempt[q].result
    BY <1>1, <2>1, DisturbFacts DEF Save
  <2>4. pc' = [pc EXCEPT ![p] = "posting"]
    BY <1>1 DEF Save, Begin
  <2>5. pc[p] = "idle" /\ UNCHANGED <<shown, bookmarked, todo, listed, requeues, crashes>>
    BY <1>1 DEF Save
  <2> HIDE DEF job
  <2>6. \A q \in Processes : Busy(q)' <=> attempt'[q].item \in Deliveries
    <3>1. Busy(p)' /\ attempt'[p].item \in Deliveries
      BY <2>1, <2>3, <2>4 DEF job
    <3>2. \A q \in Processes : q # p => (Busy(q)' <=> Busy(q))
      BY <2>1, <2>4
    <3>3. QED
      BY <2>3, <3>1, <3>2
  <2>7. \A q \in Processes :
          pc'[q] \in {"recording", "projecting"} <=> attempt'[q].result # "none"
    BY <2>1, <2>3, <2>4, <2>5 DEF job
  <2>8. QED
    BY <2>1, <2>2, <2>3, <2>4, <2>5, <2>6, <2>7
<1>2. ASSUME NEW d \in Deliveries, Unsave(d)
      PROVE  TypeOK'
  <2>1. Absent \in DeliveryRow /\ Unconfirmed \in [saved: BOOLEAN, error: Errors]
    BY DEF Absent, Unconfirmed, DeliveryRow, States, Errors
  <2>2. /\ attempt' \in [Processes -> Job]
        /\ \A q \in Processes : /\ attempt'[q].item = attempt[q].item
                                /\ attempt'[q].result = attempt[q].result
    <3>1. \A q \in Processes : attempt[q] \in Job
      OBVIOUS
    <3>2. attempt' = [q \in Processes |->
                        IF attempt[q].item = d
                        THEN [attempt[q] EXCEPT !.alive = FALSE,
                                                !.undisturbed = FALSE]
                        ELSE attempt[q]]
      BY <1>2 DEF Unsave
    <3>3. QED
      BY <3>1, <3>2, JobUpdates
  <2>3. /\ row' = [row EXCEPT ![d] = Absent]
        /\ shown' = [shown EXCEPT ![d] = Unconfirmed]
        /\ unchanged' = [r \in Drainers |-> unchanged[r] \ {d}]
        /\ UNCHANGED <<bookmarked, pc, drains, counters>>
    BY <1>2 DEF Unsave, Rescheduled
  <2>4. /\ row' \in [Deliveries -> DeliveryRow]
        /\ shown' \in [Deliveries -> [saved: BOOLEAN, error: Errors]]
        /\ unchanged' \in [Drainers -> SUBSET Deliveries]
    BY <2>1, <2>3
  <2>5. QED
    BY <2>2, <2>3, <2>4
<1>3. CASE Requeue
  <2>1. row' \in [Deliveries -> DeliveryRow]
    <3>1. \A d \in Deliveries :
            [row[d] EXCEPT !.state = "queued", !.attempts = 0, !.wait = 0,
                           !.error = "none"] \in DeliveryRow
      <4>1. \A d \in Deliveries : row[d] \in DeliveryRow
        OBVIOUS
      <4>2. QED
        BY <4>1, RowUpdates
    <3>2. QED
      BY <1>3, <3>1 DEF Requeue
  <2>2. /\ UNCHANGED <<shown, bookmarked, pc, attempt, todo, unchanged, listed>>
        /\ requeues' = requeues + 1 /\ UNCHANGED <<saves, crashes>>
    BY <1>3, Zenon DEF Requeue
  <2>3. requeues' \in Nat
    BY <2>2
  <2>4. QED
    BY <2>1, <2>2, <2>3
<1>4. ASSUME NEW r \in Drainers, List(r)
      PROVE  TypeOK'
  <2>1. [d \in Deliveries |-> row[d].attempts] \in [Deliveries -> Nat]
    BY DEF DeliveryRow
  <2>2. QED
    BY <1>4, <2>1 DEF List, Processes
<1>5. ASSUME NEW r \in Drainers, NEW d \in Deliveries, Claim(r, d)
      PROVE  TypeOK'
  <2> DEFINE job == [item |-> d, tries |-> listed[r][d] + 1, result |-> "none",
                     alive |-> TRUE, spent |-> 0, undisturbed |-> TRUE]
  <2>1. r \in Processes /\ job \in Job
    BY DEF Processes, Job
  <2>2. row' \in [Deliveries -> DeliveryRow]
    <3>1. [row[d] EXCEPT !.wait = Lease] \in DeliveryRow
      <4>1. row[d] \in DeliveryRow
        OBVIOUS
      <4>2. QED
        BY <4>1, RowUpdates, DeliveryAssumption
    <3>2. row' = [row EXCEPT ![d] = [row[d] EXCEPT !.wait = Lease]]
      BY <1>5 DEF Claim
    <3>3. QED
      BY <3>1, <3>2
  <2>3. attempt' = [attempt EXCEPT ![r] = job]
    BY <1>5 DEF Claim
  <2>4. pc' = [pc EXCEPT ![r] = "looking"] \/ pc' = [pc EXCEPT ![r] = "posting"]
    BY <1>5 DEF Claim, Begin
  <2>5. job.item \in Deliveries /\ job.result = "none"
    OBVIOUS
  <2>6. /\ pc[r] = "draining"
        /\ todo' = [todo EXCEPT ![r] = todo[r] \ {d}]
        /\ unchanged' = [q \in Drainers |-> unchanged[q] \ {d}]
        /\ UNCHANGED <<shown, bookmarked, listed, counters>>
    BY <1>5 DEF Claim, Rescheduled
  <2> HIDE DEF job
  <2>7. /\ todo' \in [Drainers -> SUBSET Deliveries]
        /\ unchanged' \in [Drainers -> SUBSET Deliveries]
    BY <2>6
  <2>8. attempt' \in [Processes -> Job]
    BY <2>1, <2>3
  <2>9. \A p \in Processes : Busy(p)' <=> attempt'[p].item \in Deliveries
    BY <2>1, <2>3, <2>4, <2>5, <2>6
  <2>10. \A p \in Processes :
           pc'[p] \in {"recording", "projecting"} <=> attempt'[p].result # "none"
    BY <2>1, <2>3, <2>4, <2>5, <2>6
  <2>11. pc' \in [Processes -> {"idle", "draining", "looking", "posting",
                                "recording", "projecting"}]
    BY <2>1, <2>4
  <2>12. UNCHANGED <<shown, bookmarked, listed, saves, requeues, crashes>>
    BY <2>6
  <2>13. QED
    BY <2>2, <2>7, <2>8, <2>9, <2>10, <2>11, <2>12
<1>6. ASSUME NEW r \in Drainers, NEW d \in Deliveries, LoseClaim(r, d)
      PROVE  TypeOK'
  BY <1>6 DEF LoseClaim
<1>7. ASSUME NEW r \in Drainers, EndDrain(r)
      PROVE  TypeOK'
  BY <1>7 DEF EndDrain, Processes
<1>8. ASSUME NEW p \in Processes, Lookup(p) \/ Post(p)
      PROVE  TypeOK'
  <2>1. PICK result \in {"none", "ok", "retryable", "final"},
             next \in {"posting", "recording"} :
          /\ Exchange(p, result, next)
          /\ result # "none" <=> next = "recording"
    BY <1>8 DEF Lookup, Post
  <2>2. bookmarked' \in [Deliveries -> BOOLEAN]
    BY <1>8 DEF Lookup, Post
  <2>3. pc[p] \in {"looking", "posting"}
    BY <1>8 DEF Lookup, Post
  <2>4. /\ attempt' \in [Processes -> Job]
        /\ attempt'[p].result = result
        /\ \A q \in Processes : /\ attempt'[q].item = attempt[q].item
                                /\ q # p => attempt'[q] = attempt[q]
    <3>1. attempt' = [attempt EXCEPT ![p] = [attempt[p] EXCEPT !.result = result]]
      BY <2>1 DEF Exchange
    <3>2. /\ [attempt[p] EXCEPT !.result = result] \in Job
          /\ [attempt[p] EXCEPT !.result = result].item = attempt[p].item
          /\ [attempt[p] EXCEPT !.result = result].result = result
      BY DEF Job
    <3>3. QED
      BY <3>1, <3>2
  <2>5. QED
    BY <2>1, <2>2, <2>3, <2>4 DEF Exchange
<1>9. ASSUME NEW p \in Processes, Record(p)
      PROVE  TypeOK'
  <2>1. attempt[p].item \in Deliveries /\ Outcome(attempt[p]) \in DeliveryRow
    BY <1>9, OutcomeFacts DEF Record
  <2>2. /\ attempt' \in [Processes -> Job]
        /\ \A q \in Processes : /\ attempt'[q].item = attempt[q].item
                                /\ attempt'[q].result = attempt[q].result
    BY <1>9, DisturbFacts DEF Record
  <2>3. QED
    BY <1>9, <2>1, <2>2 DEF Record, Rescheduled
<1>10. ASSUME NEW p \in Processes, RecordFails(p) \/ Crash(p)
       PROVE  TypeOK'
  <2>1. NoAttempt \in Job /\ NoAttempt.item \notin Deliveries
        /\ NoAttempt.result = "none"
    BY DeliveryAssumption DEF NoAttempt, Job
  <2>2. /\ pc' = [pc EXCEPT ![p] = "idle"]
        /\ attempt' = [attempt EXCEPT ![p] = NoAttempt]
        /\ todo' = [r \in Drainers |-> IF r = p THEN {} ELSE todo[r]]
        /\ unchanged' = [r \in Drainers |-> IF r = p THEN {} ELSE unchanged[r]]
        /\ UNCHANGED <<row, shown, bookmarked, listed, saves, requeues>>
        /\ crashes' \in Nat
    BY <1>10 DEF RecordFails, Crash
  <2>3. /\ todo' \in [Drainers -> SUBSET Deliveries]
        /\ unchanged' \in [Drainers -> SUBSET Deliveries]
    BY <2>2
  <2>4. QED
    BY <2>1, <2>2, <2>3
<1>11. ASSUME NEW p \in Processes, Project(p)
       PROVE  TypeOK'
  <2>1. NoAttempt \in Job /\ NoAttempt.item \notin Deliveries
        /\ NoAttempt.result = "none"
    BY DeliveryAssumption DEF NoAttempt, Job
  <2>2. attempt[p].item \in Deliveries /\ Outcome(attempt[p]) \in DeliveryRow
    BY <1>11, OutcomeFacts DEF Project
  <2>3. shown' \in [Deliveries -> [saved: BOOLEAN, error: Errors]]
    BY <1>11, <2>2 DEF Project, DeliveryRow
  <2>4. QED
    BY <1>11, <2>1, <2>3 DEF Project
<1>12. CASE Tick
  <2>1. row' \in [Deliveries -> DeliveryRow]
    <3>1. \A d \in Deliveries :
            row[d].wait \notin {0, NoTime} =>
              [row[d] EXCEPT !.wait = row[d].wait - 1] \in DeliveryRow
      <4>1. \A d \in Deliveries :
              row[d] \in DeliveryRow /\ row[d].wait \in Nat \cup {NoTime}
        BY DEF DeliveryRow
      <4>2. \A d \in Deliveries :
              row[d].wait \notin {0, NoTime} => row[d].wait - 1 \in Nat
        BY <4>1
      <4>3. QED
        BY <4>1, <4>2, RowUpdates
    <3>2. row' = [d \in Deliveries |->
                    IF row[d].wait \in {0, NoTime} THEN row[d]
                    ELSE [row[d] EXCEPT !.wait = row[d].wait - 1]]
      BY <1>12 DEF Tick
    <3>3. QED
      BY <3>1, <3>2
  <2>2. /\ attempt' \in [Processes -> Job]
        /\ \A q \in Processes : /\ attempt'[q].item = attempt[q].item
                                /\ attempt'[q].result = attempt[q].result
    <3>1. \A q \in Processes : attempt[q] \in Job /\ attempt[q].spent + 1 \in Nat
      BY DEF Job
    <3>2. attempt' = [q \in Processes |->
                        IF Busy(q) THEN [attempt[q] EXCEPT !.spent = attempt[q].spent + 1]
                        ELSE attempt[q]]
      BY <1>12 DEF Tick
    <3>3. QED
      BY <3>1, <3>2, JobUpdates
  <2>3. QED
    BY <1>12, <2>1, <2>2 DEF Tick
<1>13. CASE UNCHANGED vars
  BY <1>13 DEF vars
<1>14. QED
  BY <1>1, <1>2, <1>3, <1>4, <1>5, <1>6, <1>7, <1>8, <1>9, <1>10, <1>11,
     <1>12, <1>13 DEF Next, Drain, Attempt

(* Every reachable state is well typed.                                    *)
THEOREM TypeCorrect == Spec => []TypeOK
<1>1. Init => TypeOK
  BY DeliveryAssumption
     DEF Init, TypeOK, Absent, Unconfirmed, NoAttempt, DeliveryRow, States,
         Errors, Job, Busy, Exchanging
<1>2. QED
  BY <1>1, TypeStep, PTL DEF Spec

----------------------------------------------------------------------------
(* The ways a step changes the row of a delivery.                          *)
LEMMA RowStep ==
  ASSUME TypeOK, [Next]_vars, NEW d \in Deliveries
  PROVE  \/ row'[d] = row[d]
         \/ row'[d] \in {Queued, Absent}
         \/ /\ row[d].state = "permanent_failed"
            /\ row'[d] = [row[d] EXCEPT !.state = "queued", !.attempts = 0,
                                        !.wait = 0, !.error = "none"]
         \/ Retryable(d) /\ row'[d] = [row[d] EXCEPT !.wait = Lease]
         \/ /\ row[d].wait \notin {0, NoTime}
            /\ row'[d] = [row[d] EXCEPT !.wait = row[d].wait - 1]
         \/ \E p \in Processes :
              /\ pc[p] = "recording" /\ attempt[p].item = d
              /\ row'[d] = Outcome(attempt[p])
<1> DEFINE Goal == \/ row'[d] = row[d]
                   \/ row'[d] \in {Queued, Absent}
                   \/ /\ row[d].state = "permanent_failed"
                      /\ row'[d] = [row[d] EXCEPT !.state = "queued", !.attempts = 0,
                                                  !.wait = 0, !.error = "none"]
                   \/ Retryable(d) /\ row'[d] = [row[d] EXCEPT !.wait = Lease]
                   \/ /\ row[d].wait \notin {0, NoTime}
                      /\ row'[d] = [row[d] EXCEPT !.wait = row[d].wait - 1]
                   \/ \E p \in Processes :
                        /\ pc[p] = "recording" /\ attempt[p].item = d
                        /\ row'[d] = Outcome(attempt[p])
<1>0. row \in [Deliveries -> DeliveryRow]
  BY DEF TypeOK
<1>1. ASSUME NEW p \in Savers, NEW e \in Deliveries, Save(p, e)
      PROVE  Goal
  BY <1>0, <1>1 DEF Save
<1>2. ASSUME NEW e \in Deliveries, Unsave(e)
      PROVE  Goal
  BY <1>0, <1>2 DEF Unsave
<1>3. CASE Requeue
  BY <1>0, <1>3 DEF Requeue
<1>4. ASSUME NEW r \in Drainers, NEW e \in Deliveries, Claim(r, e)
      PROVE  Goal
  BY <1>0, <1>4 DEF Claim
<1>5. ASSUME NEW p \in Processes, Record(p)
      PROVE  Goal
  BY <1>0, <1>5 DEF Record
<1>6. CASE Tick
  BY <1>0, <1>6 DEF Tick
<1>7. CASE UNCHANGED row
  BY <1>7
<1>8. QED
  BY <1>1, <1>2, <1>3, <1>4, <1>5, <1>6, <1>7
     DEF Next, Drain, Attempt, List, EndDrain, LoseClaim, Lookup, Post,
         Exchange, RecordFails, Project, Crash, vars

(* The ways a step changes an attempt, and what it makes of the result.    *)
LEMMA AttemptStep ==
  ASSUME TypeOK, [Next]_vars, NEW p \in Processes
  PROVE  \/ attempt'[p].tries = 0 /\ attempt'[p].result = "none"
         \/ attempt'[p].tries = 1 /\ attempt'[p].result = "none"
         \/ /\ attempt'[p].result = "none"
            /\ \E e \in Deliveries :
                 p \in Drainers /\ e \in todo[p] /\ attempt'[p].tries = listed[p][e] + 1
         \/ /\ attempt'[p].item = attempt[p].item
            /\ attempt'[p].tries = attempt[p].tries
            /\ \/ attempt'[p].result = attempt[p].result
               \/ attempt'[p].result # "ok"
               \/ bookmarked'[attempt[p].item]
<1> DEFINE Same == \A q \in Processes :
                     /\ attempt'[q].item = attempt[q].item
                     /\ attempt'[q].tries = attempt[q].tries
                     /\ attempt'[q].result = attempt[q].result
           Goal == \/ attempt'[p].tries = 0 /\ attempt'[p].result = "none"
                   \/ attempt'[p].tries = 1 /\ attempt'[p].result = "none"
                   \/ /\ attempt'[p].result = "none"
                      /\ \E e \in Deliveries :
                           /\ p \in Drainers /\ e \in todo[p]
                           /\ attempt'[p].tries = listed[p][e] + 1
                   \/ /\ attempt'[p].item = attempt[p].item
                      /\ attempt'[p].tries = attempt[p].tries
                      /\ \/ attempt'[p].result = attempt[p].result
                         \/ attempt'[p].result # "ok"
                         \/ bookmarked'[attempt[p].item]
<1>0. /\ attempt \in [Processes -> Job]
      /\ bookmarked \in [Deliveries -> BOOLEAN]
      /\ \A q \in Processes : Busy(q) => attempt[q].item \in Deliveries
      /\ Savers \subseteq Processes /\ Drainers \subseteq Processes
  BY DEF TypeOK, Processes
<1>1. Same => Goal
  OBVIOUS
<1>2. ASSUME NEW q \in Savers, NEW e \in Deliveries, Save(q, e)
      PROVE  Goal
  <2>1. \A o \in Processes : o # q => attempt'[o] = Disturb(q, e)[o]
    BY <1>2, <1>0, DisturbFacts DEF Save
  <2>2. attempt'[q].tries = 1 /\ attempt'[q].result = "none"
    BY <1>2, <1>0, DisturbFacts DEF Save
  <2>3. QED
    BY <1>0, <2>1, <2>2, DisturbFacts
<1>3. ASSUME NEW e \in Deliveries, Unsave(e)
      PROVE  Goal
  <2>1. Same
    BY <1>0, <1>3, JobUpdates DEF Unsave
  <2>2. QED
    BY <1>1, <2>1
<1>4. ASSUME NEW r \in Drainers, NEW e \in Deliveries, Claim(r, e)
      PROVE  Goal
  BY <1>0, <1>4 DEF Claim
<1>5. ASSUME NEW q \in Processes, Lookup(q) \/ Post(q)
      PROVE  Goal
  <2>1. PICK result, next :
          /\ Exchange(q, result, next)
          /\ result = "ok" => bookmarked'[attempt[q].item]
    <3>1. attempt[q].item \in Deliveries
      BY <1>0, <1>5 DEF Lookup, Post, Busy, Exchanging
    <3>2. QED
      BY <1>0, <1>5, <3>1 DEF Lookup, Post
  <2>2. \A o \in Processes :
          /\ attempt'[o].item = attempt[o].item
          /\ attempt'[o].tries = attempt[o].tries
          /\ attempt'[o].result = IF o = q THEN result ELSE attempt[o].result
    BY <1>0, <2>1 DEF Exchange, Job
  <2>3. QED
    BY <2>1, <2>2
<1>6. ASSUME NEW q \in Processes, Record(q)
      PROVE  Goal
  <2>1. Same
    BY <1>0, <1>6, DisturbFacts DEF Record
  <2>2. QED
    BY <1>1, <2>1
<1>7. ASSUME NEW q \in Processes, RecordFails(q) \/ Project(q) \/ Crash(q)
      PROVE  Goal
  <2>1. attempt' = [attempt EXCEPT ![q] = NoAttempt]
    BY <1>7 DEF RecordFails, Project, Crash
  <2>2. QED
    BY <1>0, <2>1 DEF NoAttempt
<1>8. CASE Tick
  <2>1. \A q \in Processes : attempt[q] \in Job /\ attempt[q].spent + 1 \in Nat
    BY <1>0 DEF Job
  <2>2. attempt' = [q \in Processes |->
                      IF Busy(q) THEN [attempt[q] EXCEPT !.spent = attempt[q].spent + 1]
                      ELSE attempt[q]]
    BY <1>8 DEF Tick
  <2>3. Same
    BY <2>1, <2>2, JobUpdates
  <2>4. QED
    BY <1>1, <2>3
<1>9. CASE UNCHANGED attempt
  BY <1>9
<1>10. QED
  BY <1>2, <1>3, <1>4, <1>5, <1>6, <1>7, <1>8, <1>9
     DEF Next, Drain, Attempt, Requeue, List, EndDrain, LoseClaim, vars

(* A drainer's list only shrinks, or is read afresh from due deliveries.   *)
LEMMA ListStep ==
  ASSUME TypeOK, [Next]_vars, NEW r \in Drainers, NEW d \in todo'[r]
  PROVE  \/ d \in todo[r] /\ listed'[r][d] = listed[r][d]
         \/ Retryable(d) /\ listed'[r][d] = row[d].attempts
<1> DEFINE Goal == \/ d \in todo[r] /\ listed'[r][d] = listed[r][d]
                   \/ Retryable(d) /\ listed'[r][d] = row[d].attempts
<1>0. /\ todo \in [Drainers -> SUBSET Deliveries]
      /\ listed \in [Drainers -> [Deliveries -> Nat]]
  BY DEF TypeOK
<1>1. ASSUME NEW q \in Drainers, List(q)
      PROVE  Goal
  BY <1>0, <1>1 DEF List, Due
<1>2. ASSUME NEW q \in Drainers, NEW e \in Deliveries, Claim(q, e) \/ LoseClaim(q, e)
      PROVE  Goal
  BY <1>0, <1>2 DEF Claim, LoseClaim
<1>3. ASSUME NEW q \in Processes, RecordFails(q) \/ Crash(q)
      PROVE  Goal
  BY <1>0, <1>3 DEF RecordFails, Crash
<1>4. CASE UNCHANGED <<todo, listed>>
  BY <1>4
<1>5. QED
  BY <1>1, <1>2, <1>3, <1>4
     DEF Next, Drain, Attempt, drains, Save, Unsave, Requeue, EndDrain, Lookup,
         Post, Exchange, Record, Project, Tick, vars

----------------------------------------------------------------------------
(* No interleaving of saves, requeues and attempts ever writes a row that  *)
(* the check constraints of LinkdingDelivery reject.                       *)
THEOREM ConstraintsHold == Spec => []FieldsAgree
<1>1. Init => FieldsAgree
  <2> SUFFICES ASSUME Init, NEW d \in Deliveries
               PROVE  /\ Retryable(d) <=> row[d].wait # NoTime
                      /\ row[d].delivered <=> row[d].state = "succeeded"
                      /\ row[d].state = "succeeded" => row[d].error = "none"
                      /\ row[d].state \in {"transient_failed", "permanent_failed"}
                           => row[d].error # "none"
    BY DEF FieldsAgree
  <2>1. row[d] = Absent
    BY DEF Init
  <2>2. QED
    BY <2>1 DEF Absent, Retryable
<1>2. TypeOK /\ FieldsAgree /\ [Next]_vars => FieldsAgree'
  <2> SUFFICES ASSUME TypeOK, FieldsAgree, [Next]_vars, NEW d \in Deliveries
               PROVE  /\ Retryable(d)' <=> row'[d].wait # NoTime
                      /\ row'[d].delivered <=> row'[d].state = "succeeded"
                      /\ row'[d].state = "succeeded" => row'[d].error = "none"
                      /\ row'[d].state \in {"transient_failed", "permanent_failed"}
                           => row'[d].error # "none"
    BY DEF FieldsAgree
  <2> USE DEF Retryable
  <2>0. row[d] \in DeliveryRow /\ NoTime \notin Nat /\ Lease \in Nat
    BY DeliveryAssumption DEF TypeOK
  <2>1. /\ Retryable(d) <=> row[d].wait # NoTime
        /\ row[d].delivered <=> row[d].state = "succeeded"
        /\ row[d].state = "succeeded" => row[d].error = "none"
        /\ row[d].state \in {"transient_failed", "permanent_failed"}
             => row[d].error # "none"
    BY DEF FieldsAgree
  <2>2. CASE row'[d] = row[d] \/ row'[d] \in {Queued, Absent}
    BY <2>0, <2>1, <2>2 DEF Queued, Absent
  <2>3. CASE /\ row[d].state = "permanent_failed"
             /\ row'[d] = [row[d] EXCEPT !.state = "queued", !.attempts = 0,
                                         !.wait = 0, !.error = "none"]
    BY <2>0, <2>1, <2>3 DEF DeliveryRow
  <2>4. ASSUME NEW w \in Nat, Retryable(d), row'[d] = [row[d] EXCEPT !.wait = w]
        PROVE  /\ row'[d].wait = w /\ row'[d].state = row[d].state
               /\ row'[d].delivered = row[d].delivered
               /\ row'[d].error = row[d].error
    BY <2>0, <2>4 DEF DeliveryRow
  <2>5. CASE Retryable(d) /\ row'[d] = [row[d] EXCEPT !.wait = Lease]
    BY <2>0, <2>1, <2>4, <2>5
  <2>6. CASE /\ row[d].wait \notin {0, NoTime}
             /\ row'[d] = [row[d] EXCEPT !.wait = row[d].wait - 1]
    <3>1. row[d].wait - 1 \in Nat /\ Retryable(d)
      BY <2>0, <2>1, <2>6 DEF DeliveryRow
    <3>2. QED
      BY <2>0, <2>1, <2>4, <2>6, <3>1
  <2>7. ASSUME NEW p \in Processes, pc[p] = "recording",
               row'[d] = Outcome(attempt[p])
        PROVE  /\ row'[d].wait = NoTime <=> row'[d].state # "transient_failed"
               /\ row'[d].delivered <=> row'[d].state = "succeeded"
               /\ row'[d].error = "none" <=> row'[d].state = "succeeded"
               /\ row'[d].state \in
                    {"succeeded", "transient_failed", "permanent_failed"}
    <3>1. attempt[p] \in Job /\ attempt[p].result # "none"
      BY <2>7 DEF TypeOK
    <3>2. QED
      BY <2>7, <3>1, OutcomeFacts
  <2>8. QED
    BY <2>2, <2>3, <2>5, <2>6, <2>7, RowStep
<1>3. QED
  BY <1>1, <1>2, TypeCorrect, PTL DEF Spec

(* The count stays within the budget: what is owed has attempts left, and  *)
(* no attempt, no listing and no row counts beyond it.                     *)
CountKept ==
  /\ \A d \in Deliveries :
       /\ Retryable(d) => row[d].attempts < MaxAttempts
       /\ row[d].attempts <= MaxAttempts
  /\ \A p \in Processes : attempt[p].tries <= MaxAttempts
  /\ \A r \in Drainers : \A d \in todo[r] : listed[r][d] < MaxAttempts

(* Whatever interleaves, the count stays within the budget.                *)
LEMMA CountIsKept == Spec => []CountKept
<1>1. Init => CountKept
  BY DeliveryAssumption DEF Init, CountKept, Absent, NoAttempt, Retryable
<1>2. TypeOK /\ CountKept /\ [Next]_vars => CountKept'
  <2> SUFFICES ASSUME TypeOK, CountKept, [Next]_vars
               PROVE  CountKept'
    OBVIOUS
  <2>1. ASSUME NEW d \in Deliveries
        PROVE  /\ Retryable(d)' => row'[d].attempts < MaxAttempts
               /\ row'[d].attempts <= MaxAttempts
    <3> DEFINE Goal == /\ Retryable(d)' => row'[d].attempts < MaxAttempts
                       /\ row'[d].attempts <= MaxAttempts
    <3> SUFFICES Goal
      OBVIOUS
    <3>1. /\ row[d] \in DeliveryRow /\ MaxAttempts \in Nat \ {0}
          /\ Retryable(d) => row[d].attempts < MaxAttempts
          /\ row[d].attempts <= MaxAttempts
      BY DeliveryAssumption DEF TypeOK, CountKept
    <3>2. CASE row'[d] = row[d] \/ row'[d] \in {Queued, Absent}
      BY <3>1, <3>2 DEF Queued, Absent, Retryable
    <3>3. CASE row'[d] = [row[d] EXCEPT !.state = "queued", !.attempts = 0,
                                        !.wait = 0, !.error = "none"]
      BY <3>1, <3>3 DEF DeliveryRow, Retryable
    <3>4. ASSUME NEW w, row'[d] = [row[d] EXCEPT !.wait = w]
          PROVE  Goal
      <4>1. row'[d].state = row[d].state /\ row'[d].attempts = row[d].attempts
        BY <3>1, <3>4 DEF DeliveryRow
      <4>2. QED
        BY <3>1, <4>1 DEF Retryable
    <3>5. ASSUME NEW p \in Processes, pc[p] = "recording",
                 row'[d] = Outcome(attempt[p])
          PROVE  Goal
      <4>1. /\ attempt[p] \in Job /\ attempt[p].result # "none"
            /\ attempt[p].tries <= MaxAttempts
        BY <3>5 DEF TypeOK, CountKept
      <4>2. QED
        BY <3>5, <4>1, OutcomeFacts DEF Retryable
    <3> HIDE DEF Goal
    <3>6. QED
      BY <3>1, <3>2, <3>3, <3>4, <3>5, RowStep
  <2>2. ASSUME NEW p \in Processes
        PROVE  attempt'[p].tries <= MaxAttempts
    <3>1. /\ attempt[p].tries <= MaxAttempts /\ MaxAttempts \in Nat \ {0}
          /\ \A e \in Deliveries :
               (p \in Drainers /\ e \in todo[p]) =>
                 listed[p][e] < MaxAttempts /\ listed[p][e] \in Nat
      BY DeliveryAssumption DEF TypeOK, CountKept
    <3>2. QED
      BY <3>1, AttemptStep
  <2>3. ASSUME NEW r \in Drainers, NEW d \in todo'[r]
        PROVE  listed'[r][d] < MaxAttempts
    <3>1. d \in Deliveries
      BY TypeStep DEF TypeOK
    <3>2. QED
      BY <2>3, <3>1, ListStep DEF CountKept
  <2>4. QED
    BY <2>1, <2>2, <2>3 DEF CountKept
<1>3. QED
  BY <1>1, <1>2, TypeCorrect, PTL DEF Spec

----------------------------------------------------------------------------
(* Why the attempts made stay within the budget.  Apart from the strays,    *)
(* the attempts begun on a delivery are no more than its row counts, or one *)
(* more while one that began alone is under way; and whoever is under way   *)
(* will write a count that covers them, because it was listed with the      *)
(* row's own count.                                                         *)
Listed ==
  \A r \in Drainers : \A d \in unchanged[r] :
    Retryable(d) /\ listed[r][d] = row[d].attempts

Excess(d) == made[d] - strays[d]

Counted(d) ==
  /\ Excess(d) <= row[d].attempts + 1
  /\ lone[d] # {} \/ Excess(d) <= row[d].attempts
  /\ \A p \in Processes :
       Attempting(p, d) => attempt[p].tries >= 1 /\ Excess(d) <= attempt[p].tries
  /\ \A p \in lone[d] : p \in Processes /\ Attempting(p, d)

LEMMA ListedStep == TypeOK /\ Listed /\ [Next]_vars => Listed'
<1> SUFFICES ASSUME TypeOK, Listed, [Next]_vars,
                    NEW r \in Drainers, NEW d \in unchanged'[r]
             PROVE  Retryable(d)' /\ listed'[r][d] = row'[d].attempts
  BY DEF Listed
<1> DEFINE Goal == Retryable(d)' /\ listed'[r][d] = row'[d].attempts
<1>0. /\ row \in [Deliveries -> DeliveryRow]
      /\ unchanged \in [Drainers -> SUBSET Deliveries]
      /\ listed \in [Drainers -> [Deliveries -> Nat]]
  BY DEF TypeOK
<1>1. ASSUME d \in unchanged[r], listed' = listed, NEW w,
             row'[d] = row[d] \/ row'[d] = [row[d] EXCEPT !.wait = w]
      PROVE  Goal
  <2>1. row[d] \in DeliveryRow
    BY <1>0, <1>1
  <2>2. row'[d].state = row[d].state /\ row'[d].attempts = row[d].attempts
    BY <1>1, <2>1 DEF DeliveryRow
  <2>3. QED
    BY <1>1, <2>2 DEF Listed, Retryable
<1>2. ASSUME NEW e \in Deliveries, unchanged' = Rescheduled(e), listed' = listed,
             \A c \in Deliveries : c # e => row'[c] = row[c]
      PROVE  Goal
  <2>1. d \in unchanged[r] /\ d # e /\ d \in Deliveries
    BY <1>0, <1>2 DEF Rescheduled
  <2>2. QED
    BY <1>1, <1>2, <2>1
<1>3. CASE Requeue
  <2>1. d \in unchanged[r] /\ listed' = listed /\ d \in Deliveries
    BY <1>0, <1>3 DEF Requeue, drains
  <2>2. row'[d] = row[d]
    BY <1>0, <1>3, <2>1 DEF Requeue, Listed, Retryable
  <2>3. QED
    BY <1>1, <2>1, <2>2
<1>4. ASSUME NEW q \in Drainers, List(q)
      PROVE  Goal
  <2>1. row' = row
    BY <1>4 DEF List
  <2>2. CASE r = q
    BY <1>0, <1>4, <2>1, <2>2 DEF List, Due, Retryable
  <2>3. CASE r # q
    BY <1>0, <1>4, <2>1, <2>3 DEF List, Listed, Retryable
  <2>4. QED
    BY <2>2, <2>3
<1>5. ASSUME NEW q \in Processes, RecordFails(q) \/ Crash(q)
      PROVE  Goal
  <2>1. d \in unchanged[r] /\ listed' = listed /\ row' = row
    BY <1>0, <1>5 DEF RecordFails, Crash
  <2>2. QED
    BY <1>1, <2>1
<1>6. CASE Tick
  <2>1. d \in unchanged[r] /\ listed' = listed /\ d \in Deliveries
    BY <1>0, <1>6 DEF Tick, drains
  <2>2. row'[d] = row[d] \/ row'[d] = [row[d] EXCEPT !.wait = row[d].wait - 1]
    BY <1>6, <2>1 DEF Tick
  <2>3. QED
    BY <1>1, <2>1, <2>2
<1>7. CASE UNCHANGED <<row, unchanged, listed>>
  BY <1>1, <1>7
<1>8. ASSUME NEW q \in Savers, NEW e \in Deliveries, Save(q, e)
      PROVE  Goal
  BY <1>0, <1>2, <1>8 DEF Save, drains
<1>9. ASSUME NEW e \in Deliveries, Unsave(e)
      PROVE  Goal
  BY <1>0, <1>2, <1>9 DEF Unsave, drains
<1>10. ASSUME NEW q \in Drainers, NEW e \in Deliveries, Claim(q, e)
       PROVE  Goal
  BY <1>0, <1>2, <1>10 DEF Claim
<1>11. ASSUME NEW q \in Processes, Record(q)
       PROVE  Goal
  <2>1. attempt[q].item \in Deliveries
    BY <1>11 DEF TypeOK, Record, Busy, Exchanging
  <2>2. QED
    BY <1>0, <1>2, <1>11, <2>1 DEF Record, drains
<1>12. QED
  BY <1>3, <1>4, <1>5, <1>6, <1>7, <1>8, <1>9, <1>10, <1>11
     DEF Next, Drain, Attempt, EndDrain, LoseClaim, Lookup, Post, Exchange,
         Project, drains, vars

(* A step that begins no attempt on the delivery and ends none, and counts  *)
(* none, keeps it counted.                                                  *)
LEMMA CountedKept ==
  ASSUME NEW d \in Deliveries, Counted(d),
         row'[d].attempts = row[d].attempts,
         made'[d] = made[d], strays'[d] = strays[d], lone'[d] = lone[d],
         \A p \in Processes :
           /\ Attempting(p, d)' <=> Attempting(p, d)
           /\ Attempting(p, d) => attempt'[p].tries = attempt[p].tries
  PROVE  Counted(d)'
BY DEF Counted, Excess

LEMMA CountedStep ==
  ASSUME TypeOK, TypeOK', Listed, [Next]_vars, NEW d \in Deliveries, Counted(d)
  PROVE  Counted(d)'
<1>0. /\ row \in [Deliveries -> DeliveryRow] /\ attempt \in [Processes -> Job]
      /\ made \in [Deliveries -> Nat] /\ strays \in [Deliveries -> Nat]
      /\ made' \in [Deliveries -> Nat] /\ strays' \in [Deliveries -> Nat]
      /\ lone \in [Deliveries -> SUBSET Processes]
      /\ unchanged \in [Drainers -> SUBSET Deliveries]
      /\ listed \in [Drainers -> [Deliveries -> Nat]]
      /\ DOMAIN pc = Processes /\ DOMAIN attempt = Processes
      /\ Savers \subseteq Processes /\ Drainers \subseteq Processes
      /\ NoAttempt.item \notin Deliveries
      /\ row[d].attempts \in Nat /\ made[d] \in Nat /\ strays[d] \in Nat
      /\ \A p \in Processes : attempt[p].tries \in Nat
      /\ \A p \in Processes : Exchanging(p) => attempt[p].item \in Deliveries
  BY DeliveryAssumption DEF TypeOK, Processes, NoAttempt, DeliveryRow, Job, Busy
<1>1. ASSUME NEW q \in Savers, NEW e \in Deliveries, Save(q, e)
      PROVE  Counted(d)'
  <2> DEFINE job == [item |-> e, tries |-> 1, result |-> "none",
                     alive |-> TRUE, spent |-> 0, undisturbed |-> FALSE]
  <2>1. /\ pc[q] = "idle" /\ row' = [row EXCEPT ![e] = Queued]
        /\ attempt' = [Disturb(q, e) EXCEPT ![q] = job]
        /\ pc' = [pc EXCEPT ![q] = "posting"]
        /\ made' = [c \in Deliveries |-> IF c \in {e} THEN 1 ELSE made[c]]
        /\ strays' = [c \in Deliveries |-> IF c \in {e} THEN 0 ELSE strays[c]]
        /\ lone' = [c \in Deliveries |-> IF c \in {e} THEN {q} ELSE lone[c]]
    BY <1>1 DEF Save, Begin, Restart
  <2>2. attempt'[q] = job
    BY <1>0, <2>1 DEF Disturb
  <2>3. \A p \in Processes : p # q =>
          /\ attempt'[p].item = attempt[p].item
          /\ attempt'[p].alive = attempt[p].alive
          /\ attempt'[p].tries = attempt[p].tries
          /\ pc'[p] = pc[p]
    BY <1>0, <2>1 DEF Disturb, Job
  <2>4. /\ ~Attempting(q, d) /\ Attempting(q, e)'
        /\ \A p \in Processes : p # q => (Attempting(p, d)' <=> Attempting(p, d))
    BY <1>0, <2>1, <2>2, <2>3 DEF Attempting, Exchanging
  <2>5. CASE e = d
    <3>1. Excess(d)' = 1 /\ row'[d].attempts = 0
      BY <1>0, <2>1, <2>5 DEF Excess, Queued
    <3>2. \A p \in Processes : Attempting(p, d)' => attempt'[p].tries >= 1
      BY <2>2, <2>3, <2>4 DEF Counted
    <3>3. lone'[d] = {q}
      BY <2>1, <2>5
    <3>4. QED
      BY <1>0, <2>4, <2>5, <3>1, <3>2, <3>3 DEF Counted
  <2>6. CASE e # d
    <3>1. ~Attempting(q, d)'
      BY <2>2, <2>6 DEF Attempting
    <3>2. /\ row'[d] = row[d] /\ made'[d] = made[d] /\ strays'[d] = strays[d]
          /\ lone'[d] = lone[d]
      BY <1>0, <2>1, <2>6
    <3>3. QED
      BY <2>3, <2>4, <3>1, <3>2, CountedKept
  <2>7. QED
    BY <2>5, <2>6
<1>2. ASSUME NEW e \in Deliveries, Unsave(e)
      PROVE  Counted(d)'
  <2>1. /\ row' = [row EXCEPT ![e] = Absent] /\ pc' = pc
        /\ made' = [c \in Deliveries |-> IF c \in {e} THEN 0 ELSE made[c]]
        /\ strays' = [c \in Deliveries |-> IF c \in {e} THEN 0 ELSE strays[c]]
        /\ lone' = [c \in Deliveries |-> IF c \in {e} THEN {} ELSE lone[c]]
    BY <1>2 DEF Unsave, Restart
  <2>2. \A p \in Processes :
          /\ attempt'[p].item = attempt[p].item
          /\ attempt'[p].tries = attempt[p].tries
          /\ attempt'[p].alive <=> attempt[p].alive /\ attempt[p].item # e
    <3> SUFFICES ASSUME NEW p \in Processes
                 PROVE  /\ attempt'[p].item = attempt[p].item
                        /\ attempt'[p].tries = attempt[p].tries
                        /\ attempt'[p].alive <=> attempt[p].alive /\ attempt[p].item # e
      OBVIOUS
    <3>1. attempt'[p] = IF attempt[p].item = e
                        THEN [attempt[p] EXCEPT !.alive = FALSE, !.undisturbed = FALSE]
                        ELSE attempt[p]
      BY <1>2 DEF Unsave
    <3>2. attempt[p] \in Job
      BY <1>0
    <3>3. CASE attempt[p].item = e
      BY <3>1, <3>2, <3>3 DEF Job
    <3>4. CASE attempt[p].item # e
      BY <3>1, <3>4
    <3>5. QED
      BY <3>3, <3>4
  <2>3. CASE e = d
    <3>1. Excess(d)' = 0 /\ row'[d].attempts = 0
      BY <1>0, <2>1, <2>3 DEF Excess, Absent
    <3>2. \A p \in Processes : ~Attempting(p, d)'
      BY <2>2, <2>3 DEF Attempting
    <3>3. lone'[d] = {}
      BY <2>1, <2>3
    <3>4. QED
      BY <3>1, <3>2, <3>3 DEF Counted
  <2>4. CASE e # d
    <3>1. \A p \in Processes : Attempting(p, d)' <=> Attempting(p, d)
      BY <2>1, <2>2, <2>4 DEF Attempting, Exchanging
    <3>2. /\ row'[d] = row[d] /\ made'[d] = made[d] /\ strays'[d] = strays[d]
          /\ lone'[d] = lone[d]
      BY <1>0, <2>1, <2>4
    <3>3. QED
      BY <2>2, <3>1, <3>2, CountedKept
  <2>5. QED
    BY <2>3, <2>4
<1>3. CASE Requeue
  <2>1. UNCHANGED <<pc, attempt>>
    BY <1>3 DEF Requeue
  <2>2. \A p \in Processes : Attempting(p, d)' <=> Attempting(p, d)
    BY <2>1 DEF Attempting, Exchanging
  <2>3. CASE row[d].state = "permanent_failed"
    <3>1. row'[d] = [row[d] EXCEPT !.state = "queued", !.attempts = 0,
                                   !.wait = 0, !.error = "none"]
      BY <1>3, <2>3 DEF Requeue
    <3>2. row'[d].attempts = 0
      BY <1>0, <3>1 DEF DeliveryRow
    <3>3. made'[d] = 0 /\ strays'[d] = 0 /\ lone'[d] = {} /\ Excess(d)' = 0
      <4> DEFINE failed == {b \in Deliveries : row[b].state = "permanent_failed"}
      <4>1. /\ made' = [c \in Deliveries |-> IF c \in failed THEN 0 ELSE made[c]]
            /\ strays' = [c \in Deliveries |-> IF c \in failed THEN 0 ELSE strays[c]]
            /\ lone' = [c \in Deliveries |-> IF c \in failed THEN {} ELSE lone[c]]
        BY <1>3 DEF Requeue, Restart
      <4>2. made'[d] = 0 /\ strays'[d] = 0 /\ lone'[d] = {}
        BY <2>3, <4>1
      <4>3. QED
        BY <4>2 DEF Excess
    <3>4. QED
      BY <1>0, <2>1, <2>2, <3>2, <3>3 DEF Counted
  <2>4. CASE row[d].state # "permanent_failed"
    <3>1. /\ row'[d] = row[d] /\ made'[d] = made[d] /\ strays'[d] = strays[d]
          /\ lone'[d] = lone[d]
      BY <1>3, <2>4 DEF Requeue, Restart
    <3>2. QED
      BY <2>1, <2>2, <3>1, CountedKept
  <2>5. QED
    BY <2>3, <2>4
<1>4. ASSUME NEW r \in Drainers, NEW e \in Deliveries, Claim(r, e)
      PROVE  Counted(d)'
  <2> DEFINE job == [item |-> e, tries |-> listed[r][e] + 1, result |-> "none",
                     alive |-> TRUE, spent |-> 0, undisturbed |-> TRUE]
  <2>1. /\ pc[r] = "draining" /\ e \in unchanged[r]
        /\ row' = [row EXCEPT ![e] = [row[e] EXCEPT !.wait = Lease]]
        /\ attempt' = [attempt EXCEPT ![r] = job]
        /\ made' = [made EXCEPT ![e] = made[e] + 1]
        /\ strays' = [strays EXCEPT ![e] = IF Underway(e) THEN strays[e] + 1
                                          ELSE strays[e]]
        /\ lone' = [lone EXCEPT ![e] = IF Underway(e) THEN lone[e] ELSE {r}]
        /\ pc' = [pc EXCEPT ![r] = "looking"] \/ pc' = [pc EXCEPT ![r] = "posting"]
    BY <1>4 DEF Claim, Begin, OneMore
  <2>2. listed[r][e] = row[e].attempts /\ r \in Processes
    BY <1>0, <2>1 DEF Listed
  <2>3. row'[d].attempts = row[d].attempts
    BY <1>0, <2>1 DEF DeliveryRow
  <2>4. attempt'[r] = job /\ \A p \in Processes : p # r =>
          attempt'[p] = attempt[p] /\ pc'[p] = pc[p]
    BY <1>0, <2>1, <2>2
  <2>5. /\ ~Attempting(r, d) /\ Attempting(r, e)'
        /\ \A p \in Processes : p # r => (Attempting(p, d)' <=> Attempting(p, d))
    BY <1>0, <2>1, <2>2, <2>4 DEF Attempting, Exchanging
  <2>6. CASE e = d
    <3>1. /\ made'[d] = made[d] + 1
          /\ strays'[d] = IF Underway(d) THEN strays[d] + 1 ELSE strays[d]
          /\ lone'[d] = IF Underway(d) THEN lone[d] ELSE {r}
      BY <1>0, <2>1, <2>6
    <3>2. Excess(d)' = IF Underway(d) THEN Excess(d) ELSE Excess(d) + 1
      <4>1. CASE Underway(d)
        BY <1>0, <3>1, <4>1 DEF Excess
      <4>2. CASE ~Underway(d)
        BY <1>0, <3>1, <4>2 DEF Excess
      <4>3. QED
        BY <4>1, <4>2
    <3>3. Excess(d) \in Int
      BY <1>0 DEF Excess
    <3>4. Excess(d)' <= row[d].attempts + 1
      <4>1. ~Underway(d) => lone[d] = {}
        BY DEF Counted, Underway
      <4>2. QED
        BY <1>0, <3>2, <3>3, <4>1 DEF Counted
    <3>5. ASSUME NEW p \in Processes, Attempting(p, d)'
          PROVE  attempt'[p].tries >= 1 /\ Excess(d)' <= attempt'[p].tries
      <4>1. CASE p = r
        BY <1>0, <2>2, <2>4, <2>6, <3>4, <4>1
      <4>2. CASE p # r
        <5>1. Attempting(p, d) /\ Underway(d) /\ attempt'[p] = attempt[p]
          BY <2>4, <2>5, <3>5, <4>2 DEF Underway
        <5>2. QED
          BY <3>2, <5>1 DEF Counted
      <4>3. QED
        BY <4>1, <4>2
    <3>6. \A p \in lone'[d] : p \in Processes /\ Attempting(p, d)'
      BY <2>2, <2>5, <2>6, <3>1 DEF Counted
    <3>7. lone'[d] # {} \/ Excess(d)' <= row[d].attempts
      BY <3>1, <3>2 DEF Counted
    <3>8. QED
      BY <2>3, <3>4, <3>5, <3>6, <3>7 DEF Counted
  <2>7. CASE e # d
    <3>1. ~Attempting(r, d)'
      BY <2>4, <2>7 DEF Attempting
    <3>2. made'[d] = made[d] /\ strays'[d] = strays[d] /\ lone'[d] = lone[d]
      BY <1>0, <2>1, <2>7
    <3>3. QED
      BY <2>3, <2>4, <2>5, <3>1, <3>2, CountedKept
  <2>8. QED
    BY <2>6, <2>7
<1>5. ASSUME NEW r \in Drainers,
             List(r) \/ EndDrain(r) \/ \E e \in Deliveries : LoseClaim(r, e)
      PROVE  Counted(d)'
  <2>1. /\ UNCHANGED <<row, attempt, made, strays, lone>>
        /\ \A p \in Processes : Exchanging(p)' <=> Exchanging(p)
    BY <1>0, <1>5 DEF List, EndDrain, LoseClaim, tally, Exchanging
  <2>2. QED
    BY <2>1, CountedKept DEF Attempting
<1>6. ASSUME NEW q \in Processes, Lookup(q) \/ Post(q)
      PROVE  Counted(d)'
  <2>1. PICK x \in {"none", "ok", "retryable", "final"}, next \in {"posting", "recording"} :
          Exchange(q, x, next)
    BY <1>6 DEF Lookup, Post
  <2>2. /\ attempt' = [attempt EXCEPT ![q] = [attempt[q] EXCEPT !.result = x]]
        /\ pc' = [pc EXCEPT ![q] = next] /\ pc[q] \in {"looking", "posting"}
        /\ UNCHANGED <<row, made, strays, lone>>
    BY <1>6, <2>1 DEF Exchange, Lookup, Post, tally
  <2>3. \A p \in Processes :
          /\ attempt'[p].item = attempt[p].item /\ attempt'[p].alive = attempt[p].alive
          /\ attempt'[p].tries = attempt[p].tries
    BY <1>0, <2>2 DEF Job
  <2>4. \A p \in Processes : Exchanging(p)' <=> Exchanging(p)
    BY <1>0, <2>2 DEF Exchanging
  <2>5. QED
    BY <2>2, <2>3, <2>4, CountedKept DEF Attempting
<1>7. ASSUME NEW q \in Processes, Record(q)
      PROVE  Counted(d)'
  <2> DEFINE e == attempt[q].item
  <2>1. /\ pc[q] = "recording" /\ attempt[q].alive /\ e \in Deliveries
        /\ row' = [row EXCEPT ![e] = Outcome(attempt[q])]
        /\ attempt' = Disturb(q, e) /\ pc' = [pc EXCEPT ![q] = "projecting"]
        /\ UNCHANGED <<made, strays>> /\ lone' = [lone EXCEPT ![e] = lone[e] \ {q}]
    BY <1>0, <1>7 DEF Record, Exchanging
  <2>2. \A p \in Processes :
          /\ attempt'[p].item = attempt[p].item /\ attempt'[p].alive = attempt[p].alive
          /\ attempt'[p].tries = attempt[p].tries
          /\ p # q => pc'[p] = pc[p]
    BY <1>0, <2>1 DEF Disturb, Job
  <2>3. /\ ~Attempting(q, d)'
        /\ \A p \in Processes : p # q => (Attempting(p, d)' <=> Attempting(p, d))
    BY <1>0, <2>1, <2>2 DEF Attempting, Exchanging
  <2>4. CASE e = d
    <3>1. row'[d].attempts = attempt[q].tries
      <4>1. attempt[q] \in Job /\ attempt[q].result # "none"
        BY <2>1 DEF TypeOK
      <4>2. QED
        BY <1>0, <2>1, <2>4, <4>1, OutcomeFacts
    <3>2. Attempting(q, d)
      BY <2>1, <2>4 DEF Attempting, Exchanging
    <3>3. Excess(d)' = Excess(d) /\ Excess(d) \in Int
      BY <1>0, <2>1 DEF Excess
    <3>4. lone'[d] = lone[d] \ {q}
      BY <1>0, <2>1, <2>4
    <3>5. \A p \in lone'[d] : p \in Processes /\ Attempting(p, d)'
      BY <2>3, <3>4 DEF Counted
    <3>6. /\ Excess(d)' <= row'[d].attempts + 1 /\ Excess(d)' <= row'[d].attempts
          /\ \A p \in Processes : Attempting(p, d)' =>
               attempt'[p].tries >= 1 /\ Excess(d)' <= attempt'[p].tries
      BY <1>0, <2>2, <2>3, <3>1, <3>2, <3>3 DEF Counted
    <3>7. QED
      BY <3>5, <3>6 DEF Counted
  <2>5. CASE e # d
    <3>1. ~Attempting(q, d)
      BY <2>5 DEF Attempting
    <3>2. row'[d] = row[d] /\ lone'[d] = lone[d]
      BY <1>0, <2>1, <2>5
    <3>3. QED
      BY <2>1, <2>2, <2>3, <3>1, <3>2, CountedKept
  <2>6. QED
    BY <2>4, <2>5
<1>8. ASSUME NEW q \in Processes, RecordFails(q) \/ Project(q)
      PROVE  Counted(d)'
  <2>1. /\ UNCHANGED <<row, made, strays, lone>> /\ attempt' = [attempt EXCEPT ![q] = NoAttempt]
        /\ \A p \in Processes : p # q => pc'[p] = pc[p]
        /\ ~Attempting(q, d)
    BY <1>0, <1>8 DEF RecordFails, Project, tally, Attempting, Exchanging
  <2>2. \A p \in Processes : Attempting(p, d)' <=> Attempting(p, d)
    BY <1>0, <2>1 DEF Attempting, Exchanging
  <2>3. \A p \in Processes : Attempting(p, d) => attempt'[p] = attempt[p]
    BY <1>0, <2>1
  <2>4. QED
    BY <2>1, <2>2, <2>3, CountedKept
<1>9. ASSUME NEW q \in Processes, Crash(q)
      PROVE  Counted(d)'
  <2>1. /\ UNCHANGED <<row, made>> /\ attempt' = [attempt EXCEPT ![q] = NoAttempt]
        /\ \A p \in Processes : p # q => pc'[p] = pc[p]
        /\ strays'[d] = IF q \in lone[d] THEN strays[d] + 1 ELSE strays[d]
        /\ lone'[d] = lone[d] \ {q}
    BY <1>0, <1>9 DEF Crash
  <2>2. /\ ~Attempting(q, d)'
        /\ \A p \in Processes : p # q =>
             /\ Attempting(p, d)' <=> Attempting(p, d)
             /\ attempt'[p] = attempt[p]
    BY <1>0, <2>1 DEF Attempting, Exchanging
  <2>3. \A p \in lone'[d] : p \in Processes /\ Attempting(p, d)'
    BY <2>1, <2>2 DEF Counted
  <2>4. CASE q \in lone[d]
    <3>0. strays'[d] = strays[d] + 1 /\ made'[d] = made[d]
      BY <2>1, <2>4
    <3>1. Excess(d)' = Excess(d) - 1 /\ Excess(d) \in Int
      BY <1>0, <3>0 DEF Excess
    <3>2. \A p \in Processes : Attempting(p, d)' =>
            attempt'[p].tries >= 1 /\ Excess(d) <= attempt'[p].tries
      BY <2>2 DEF Counted
    <3>3. row' = row /\ Excess(d)' <= row[d].attempts
      BY <1>0, <2>1, <3>1 DEF Counted
    <3>4. \A p \in Processes : Attempting(p, d)' =>
            attempt'[p].tries >= 1 /\ Excess(d)' <= attempt'[p].tries
      <4>1. \A p \in Processes : attempt'[p].tries \in Int
        BY DEF TypeOK, Job
      <4>2. QED
        BY <3>1, <3>2, <4>1
    <3>5. Excess(d)' <= row[d].attempts + 1
      BY <1>0, <3>1, <3>3
    <3>6. QED
      BY <2>3, <3>3, <3>4, <3>5 DEF Counted
  <2>5. CASE q \notin lone[d]
    <3>1. Excess(d)' = Excess(d) /\ lone'[d] = lone[d] /\ row' = row
      BY <1>0, <2>1, <2>5 DEF Excess
    <3>2. QED
      BY <2>2, <2>3, <3>1 DEF Counted
  <2>6. QED
    BY <2>4, <2>5
<1>10. CASE Tick
  <2>1. row'[d].attempts = row[d].attempts
    BY <1>0, <1>10 DEF Tick, DeliveryRow
  <2>2. \A p \in Processes :
          /\ attempt'[p].item = attempt[p].item /\ attempt'[p].alive = attempt[p].alive
          /\ attempt'[p].tries = attempt[p].tries
    <3> SUFFICES ASSUME NEW p \in Processes
                 PROVE  /\ attempt'[p].item = attempt[p].item
                        /\ attempt'[p].alive = attempt[p].alive
                        /\ attempt'[p].tries = attempt[p].tries
      OBVIOUS
    <3>1. attempt'[p] = attempt[p]
          \/ attempt'[p] = [attempt[p] EXCEPT !.spent = attempt[p].spent + 1]
      BY <1>10 DEF Tick
    <3>2. attempt[p] \in Job
      BY <1>0
    <3>3. QED
      BY <3>1, <3>2 DEF Job
  <2>3. UNCHANGED <<pc, made, strays, lone>>
    BY <1>10 DEF Tick, tally
  <2>4. QED
    BY <2>1, <2>2, <2>3, CountedKept DEF Attempting, Exchanging
<1>11. CASE UNCHANGED vars
  BY <1>11, CountedKept DEF vars, tally, Attempting, Exchanging
<1>12. QED
  BY <1>1, <1>2, <1>3, <1>4, <1>5, <1>6, <1>7, <1>8, <1>9, <1>10, <1>11
     DEF Next, Drain, Attempt

(* The attempts made for a save or a requeue exceed the budget by no more   *)
(* than those of them that begin while another is under way, or whose       *)
(* process dies before it records: no stale listing, late outcome, re-save  *)
(* or requeue adds one more.                                                *)
THEOREM AttemptsAreBudgeted == Spec => []AttemptsWithinBudget
<1>1. Init => Listed /\ \A d \in Deliveries : Counted(d)
  <2> SUFFICES ASSUME Init, NEW d \in Deliveries
               PROVE  Listed /\ Counted(d)
    BY DEF Init, Listed
  <2>1. /\ Excess(d) = 0 /\ row[d].attempts = 0 /\ lone[d] = {}
        /\ \A p \in Processes : ~Attempting(p, d)
    BY DEF Init, Excess, Absent, Attempting, Exchanging
  <2>2. QED
    BY <2>1 DEF Init, Listed, Counted
<1>2. TypeOK /\ TypeOK' /\ Listed /\ (\A d \in Deliveries : Counted(d)) /\ [Next]_vars
        => Listed' /\ (\A d \in Deliveries : Counted(d))'
  BY ListedStep, CountedStep
<1>3. TypeOK /\ CountKept /\ (\A d \in Deliveries : Counted(d)) => AttemptsWithinBudget
  <2> SUFFICES ASSUME TypeOK, CountKept, NEW d \in Deliveries, Counted(d)
               PROVE  made[d] <= MaxAttempts + strays[d]
    BY DEF AttemptsWithinBudget
  <2>1. /\ made[d] \in Nat /\ strays[d] \in Nat /\ MaxAttempts \in Nat
        /\ row[d].attempts \in Nat /\ row[d].attempts <= MaxAttempts
        /\ \A p \in Processes : attempt[p].tries \in Nat /\ attempt[p].tries <= MaxAttempts
    BY DeliveryAssumption DEF TypeOK, DeliveryRow, Job, CountKept
  <2>2. Excess(d) <= MaxAttempts
    BY <2>1 DEF Counted, Excess
  <2>3. QED
    BY <2>1, <2>2 DEF Excess
<1>4. QED
  BY <1>1, <1>2, <1>3, TypeCorrect, CountIsKept, PTL DEF Spec

----------------------------------------------------------------------------
(* What is recorded as delivered, or shown as saved to Linkding, is        *)
(* bookmarked there, whatever attempts, saves and crashes interleave.      *)
THEOREM SuccessIsTrue == Spec => []SuccessIsReal
<1>1. Init => SuccessIsReal
  BY DEF Init, SuccessIsReal, Absent, NoAttempt, Unconfirmed
<1>2. TypeOK /\ SuccessIsReal /\ [Next]_vars => SuccessIsReal'
  <2> SUFFICES ASSUME TypeOK, SuccessIsReal, [Next]_vars
               PROVE  SuccessIsReal'
    OBVIOUS
  <2>0. ASSUME NEW d \in Deliveries, bookmarked[d]
        PROVE  bookmarked'[d]
    BY <2>0 DEF TypeOK, Next, Save, Unsave, Requeue, Drain, List, EndDrain, Claim,
         LoseClaim, Attempt, Lookup, Post, Record, RecordFails, Project, Crash,
         Tick, vars
  <2>1. ASSUME NEW d \in Deliveries, row'[d].state = "succeeded"
        PROVE  bookmarked'[d]
    <3>1. row[d] \in DeliveryRow
      BY DEF TypeOK
    <3>2. CASE row[d].state = "succeeded"
      BY <2>0, <3>2 DEF SuccessIsReal
    <3>3. ASSUME NEW w, row'[d] = [row[d] EXCEPT !.wait = w]
          PROVE  row'[d].state = row[d].state
      BY <3>1, <3>3 DEF DeliveryRow
    <3>4. row'[d] # [row[d] EXCEPT !.state = "queued", !.attempts = 0,
                                   !.wait = 0, !.error = "none"]
      BY <2>1, <3>1 DEF DeliveryRow
    <3>5. ASSUME NEW p \in Processes, pc[p] = "recording", attempt[p].item = d,
                 row'[d] = Outcome(attempt[p])
          PROVE  bookmarked'[d]
      <4>1. attempt[p] \in Job /\ attempt[p].result # "none"
        BY <3>5 DEF TypeOK
      <4>2. attempt[p].result = "ok"
        BY <2>1, <3>5, <4>1, OutcomeFacts
      <4>3. QED
        BY <2>0, <3>5, <4>2 DEF SuccessIsReal
    <3>6. row'[d] \notin {Queued, Absent}
      BY <2>1 DEF Queued, Absent
    <3>7. QED
      BY <2>1, <3>2, <3>3, <3>4, <3>5, <3>6, RowStep
  <2>2. ASSUME NEW d \in Deliveries, shown'[d].saved
        PROVE  bookmarked'[d]
    <3>1. CASE shown'[d] = shown[d]
      BY <2>0, <2>2, <3>1 DEF SuccessIsReal
    <3>2. ASSUME NEW e \in Deliveries, Unsave(e)
          PROVE  bookmarked'[d]
      BY <2>2, <2>0, <3>1, <3>2 DEF Unsave, Unconfirmed, TypeOK
    <3>3. ASSUME NEW p \in Processes, Project(p)
          PROVE  bookmarked'[d]
      <4>1. /\ attempt[p] \in Job /\ attempt[p].result # "none"
            /\ attempt[p].item \in Deliveries
        BY <3>3 DEF TypeOK, Project, Busy
      <4>2. \/ shown'[d] = shown[d]
            \/ /\ attempt[p].item = d
               /\ shown'[d].saved = (Outcome(attempt[p]).state = "succeeded")
        BY <3>3 DEF Project, TypeOK
      <4>3. CASE /\ attempt[p].item = d
                 /\ shown'[d].saved = (Outcome(attempt[p]).state = "succeeded")
        <5>1. attempt[p].result = "ok"
          BY <2>2, <4>1, <4>3, OutcomeFacts
        <5>2. QED
          BY <2>0, <4>3, <5>1 DEF SuccessIsReal
      <4>4. QED
        BY <3>1, <4>2, <4>3
    <3>4. CASE UNCHANGED shown
      BY <3>1, <3>4
    <3>5. QED
      BY <3>2, <3>3, <3>4
         DEF Next, Save, Requeue, Drain, List, EndDrain, Claim, LoseClaim,
             Attempt, Lookup, Post, Exchange, Record, RecordFails, Crash, Tick, vars
  <2>3. ASSUME NEW p \in Processes, attempt'[p].result = "ok"
        PROVE  bookmarked'[attempt'[p].item]
    <3>1. attempt[p].result = "ok" => /\ attempt[p].item \in Deliveries
                                      /\ bookmarked[attempt[p].item]
      BY DEF TypeOK, SuccessIsReal, Busy, Exchanging
    <3>2. QED
      BY <2>0, <2>3, <3>1, AttemptStep
  <2>4. QED
    BY <2>1, <2>2, <2>3 DEF SuccessIsReal
<1>3. QED
  BY <1>1, <1>2, TypeCorrect, PTL DEF Spec

----------------------------------------------------------------------------
(* Why drainers exclude each other.  A drainer that holds an undisturbed    *)
(* claim has pushed the schedule out further than an attempt can last, so   *)
(* that the delivery is not due, nobody can list it, and the claims of those *)
(* who listed it before match no row.                                       *)
Alone(p) == Exchanging(p) /\ attempt[p].undisturbed

AloneInv ==
  \A p \in Processes : Alone(p) =>
    /\ Retryable(attempt[p].item)
    /\ attempt[p].spent <= MaxAttemptTime
    /\ row[attempt[p].item].wait = Lease - attempt[p].spent
    /\ \A r \in Drainers : attempt[p].item \notin unchanged[r]
    /\ \A q \in Processes :
         (q # p /\ attempt[q].item = attempt[p].item) => ~Alone(q)

(* What a step leaves alone of an undisturbed attempt and of its delivery.  *)
Held(p) ==
  /\ Alone(p)
  /\ attempt'[p].item = attempt[p].item
  /\ attempt'[p].spent = attempt[p].spent
  /\ row'[attempt[p].item] = row[attempt[p].item]
  /\ \A r \in Drainers :
       attempt[p].item \in unchanged'[r] =>
         attempt[p].item \in unchanged[r] \/ Due(attempt[p].item)

LEMMA FieldUpdates ==
  ASSUME NEW j \in Job, NEW n \in Nat, NEW x
  PROVE  /\ [j EXCEPT !.undisturbed = FALSE].undisturbed = FALSE
         /\ [j EXCEPT !.alive = FALSE, !.undisturbed = FALSE].undisturbed = FALSE
         /\ [j EXCEPT !.result = x].item = j.item
         /\ [j EXCEPT !.result = x].spent = j.spent
         /\ [j EXCEPT !.result = x].undisturbed = j.undisturbed
         /\ [j EXCEPT !.spent = n].item = j.item
         /\ [j EXCEPT !.spent = n].spent = n
         /\ [j EXCEPT !.spent = n].undisturbed = j.undisturbed
BY DEF Job

(* A step that is neither a claim nor the clock disturbs an attempt or      *)
(* leaves its delivery alone.                                               *)
LEMMA HeldStep ==
  ASSUME TypeOK, [Next]_vars, ~Tick,
         \A r \in Drainers, d \in Deliveries : ~Claim(r, d),
         AloneInv, NEW p \in Processes, Alone(p)'
  PROVE  Held(p)
<1> DEFINE e == attempt[p].item
<1>0. /\ row \in [Deliveries -> DeliveryRow] /\ attempt \in [Processes -> Job]
      /\ attempt[p] \in Job
      /\ unchanged \in [Drainers -> SUBSET Deliveries]
      /\ DOMAIN pc = Processes
      /\ Exchanging(p) => e \in Deliveries
  BY DEF TypeOK, Busy
<1> USE DEF Held, Alone, Exchanging
<1>1. ASSUME NEW q \in Savers, NEW d \in Deliveries, Save(q, d)
      PROVE  Held(p)
  <2>1. p # q
    BY <1>0, <1>1 DEF Save, Processes, Disturb
  <2>2. /\ attempt'[p] = IF e = d THEN [attempt[p] EXCEPT !.undisturbed = FALSE]
                         ELSE attempt[p]
        /\ pc'[p] = pc[p]
    BY <1>0, <1>1, <2>1 DEF Save, Disturb, Begin
  <2>3. e # d /\ attempt'[p] = attempt[p]
    BY <1>0, <2>2, FieldUpdates
  <2>4. QED
    BY <1>0, <1>1, <2>2, <2>3 DEF Save, Rescheduled
<1>2. ASSUME NEW d \in Deliveries, Unsave(d)
      PROVE  Held(p)
  <2>1. /\ attempt'[p] = IF e = d THEN [attempt[p] EXCEPT !.alive = FALSE,
                                                         !.undisturbed = FALSE]
                         ELSE attempt[p]
        /\ pc'[p] = pc[p]
    BY <1>0, <1>2 DEF Unsave
  <2>2. e # d /\ attempt'[p] = attempt[p]
    BY <1>0, <2>1, FieldUpdates
  <2>3. QED
    BY <1>0, <1>2, <2>1, <2>2 DEF Unsave, Rescheduled
<1>3. CASE Requeue
  <2>1. Alone(p) /\ UNCHANGED <<attempt, unchanged>>
    BY <1>3 DEF Requeue
  <2>2. Retryable(e) /\ e \in Deliveries
    BY <1>0, <2>1 DEF AloneInv
  <2>3. row'[e] = row[e]
    BY <1>3, <2>2 DEF Requeue, Retryable
  <2>4. QED
    BY <2>1, <2>3
<1>4. ASSUME NEW r \in Drainers, List(r)
      PROVE  Held(p)
  BY <1>0, <1>4 DEF List, Processes
<1>5. ASSUME NEW r \in Drainers, EndDrain(r) \/ \E d \in Deliveries : LoseClaim(r, d)
      PROVE  Held(p)
  BY <1>0, <1>5 DEF EndDrain, LoseClaim, Processes
<1>6. ASSUME NEW q \in Processes, Lookup(q) \/ Post(q)
      PROVE  Held(p)
  <2>1. PICK x : attempt' = [attempt EXCEPT ![q] = [attempt[q] EXCEPT !.result = x]]
    BY <1>6 DEF Lookup, Post, Exchange
  <2>2. attempt'[p] = [attempt[p] EXCEPT !.result = x] \/ attempt'[p] = attempt[p]
    BY <1>0, <2>1
  <2> DEFINE j == attempt[p]
  <2> HIDE DEF j
  <2>3. /\ [j EXCEPT !.result = x].item = j.item
        /\ [j EXCEPT !.result = x].spent = j.spent
        /\ [j EXCEPT !.result = x].undisturbed = j.undisturbed
    BY <1>0, FieldUpdates DEF j
  <2>4. Exchanging(p) /\ UNCHANGED <<row, unchanged>>
    BY <1>0, <1>6 DEF Lookup, Post, Exchange
  <2>5. QED
    BY <2>2, <2>3, <2>4 DEF j
<1>7. ASSUME NEW q \in Processes, Record(q)
      PROVE  Held(p)
  <2>1. p # q
    BY <1>0, <1>7 DEF Record
  <2>2. /\ attempt'[p] = IF e = attempt[q].item
                         THEN [attempt[p] EXCEPT !.undisturbed = FALSE]
                         ELSE attempt[p]
        /\ pc'[p] = pc[p]
    BY <1>0, <1>7, <2>1 DEF Record, Disturb
  <2>3. e # attempt[q].item /\ attempt'[p] = attempt[p]
    BY <1>0, <2>2, FieldUpdates
  <2>4. QED
    BY <1>0, <1>7, <2>2, <2>3 DEF Record, Rescheduled
<1>8. ASSUME NEW q \in Processes, RecordFails(q) \/ Crash(q)
      PROVE  Held(p)
  BY <1>0, <1>8 DEF RecordFails, Crash, NoAttempt
<1>9. ASSUME NEW q \in Processes, Project(q)
      PROVE  Held(p)
  BY <1>0, <1>9 DEF Project, NoAttempt
<1>10. CASE UNCHANGED vars
  BY <1>10 DEF vars
<1>11. QED
  BY <1>1, <1>2, <1>3, <1>4, <1>5, <1>6, <1>7, <1>8, <1>9, <1>10
     DEF Next, Drain, Attempt

LEMMA AloneStep == TypeOK /\ AloneInv /\ [Next]_vars => AloneInv'
<1> SUFFICES ASSUME TypeOK, AloneInv, [Next]_vars, NEW p \in Processes, Alone(p)'
             PROVE  /\ Retryable(attempt[p].item)'
                    /\ attempt'[p].spent <= MaxAttemptTime
                    /\ row'[attempt'[p].item].wait = Lease - attempt'[p].spent
                    /\ \A r \in Drainers : attempt'[p].item \notin unchanged'[r]
                    /\ \A q \in Processes :
                         (q # p /\ attempt'[q].item = attempt'[p].item) => ~Alone(q)'
  BY DEF AloneInv
<1> DEFINE e == attempt[p].item
<1>0. /\ row \in [Deliveries -> DeliveryRow] /\ attempt \in [Processes -> Job]
      /\ unchanged \in [Drainers -> SUBSET Deliveries]
      /\ DOMAIN pc = Processes
      /\ Drainers \subseteq Processes
      /\ Alone(p) => e \in Deliveries
      /\ MaxAttemptTime \in Nat /\ Lease \in Nat /\ MaxAttemptTime < Lease
      /\ NoTime \notin Nat
  BY DeliveryAssumption DEF TypeOK, Busy, Processes, Alone
<1>1. Alone(p) =>
        /\ Retryable(e)
        /\ attempt[p].spent <= MaxAttemptTime
        /\ row[e].wait = Lease - attempt[p].spent
        /\ ~Due(e)
        /\ \A r \in Drainers : e \notin unchanged[r]
        /\ \A q \in Processes : (q # p /\ attempt[q].item = e) => ~Alone(q)
  <2> SUFFICES ASSUME Alone(p)
               PROVE  ~Due(e)
    BY DEF AloneInv
  <2>1. attempt[p].spent \in Nat
    BY <1>0 DEF Job
  <2>2. QED
    BY <1>0, <2>1 DEF AloneInv, Due
<1>2. ASSUME NEW r \in Drainers, NEW d \in Deliveries, Claim(r, d)
      PROVE  /\ Retryable(attempt[p].item)'
             /\ attempt'[p].spent <= MaxAttemptTime
             /\ row'[attempt'[p].item].wait = Lease - attempt'[p].spent
             /\ \A s \in Drainers : attempt'[p].item \notin unchanged'[s]
             /\ \A q \in Processes :
                  (q # p /\ attempt'[q].item = attempt'[p].item) => ~Alone(q)'
  <2>1. /\ d \in unchanged[r] /\ Retryable(d)
        /\ row' = [row EXCEPT ![d] = [row[d] EXCEPT !.wait = Lease]]
        /\ unchanged' = [s \in Drainers |-> unchanged[s] \ {d}]
        /\ attempt'[r].item = d /\ attempt'[r].spent = 0
        /\ \A q \in Processes : q # r => attempt'[q] = attempt[q] /\ pc'[q] = pc[q]
    BY <1>0, <1>2 DEF Claim, Rescheduled, Begin
  <2>2. /\ row'[d].wait = Lease /\ row'[d].state = row[d].state
        /\ \A c \in Deliveries : c # d => row'[c] = row[c]
    BY <1>0, <2>1 DEF DeliveryRow
  <2>3. \A q \in Processes : (q # r /\ Alone(q)') => Alone(q) /\ attempt[q].item # d
    BY <2>1 DEF Alone, Exchanging, AloneInv
  <2>4. CASE p = r
    BY <1>0, <2>1, <2>2, <2>3, <2>4 DEF Retryable
  <2>5. CASE p # r
    <3>1. Alone(p) /\ e # d /\ attempt'[p] = attempt[p] /\ row'[e] = row[e]
      BY <1>0, <2>1, <2>2, <2>3, <2>5
    <3>2. \A q \in Processes :
            (q # p /\ attempt'[q].item = attempt'[p].item) => ~Alone(q)'
      BY <1>1, <2>1, <2>3, <3>1
    <3>3. QED
      BY <1>1, <2>1, <3>1, <3>2 DEF Retryable
  <2>6. QED
    BY <2>4, <2>5
<1>3. CASE Tick
  <2>1. \A q \in Processes :
          /\ attempt'[q].item = attempt[q].item
          /\ attempt'[q].undisturbed = attempt[q].undisturbed
          /\ Busy(q) => attempt'[q].spent = attempt[q].spent + 1
    <3> TAKE q \in Processes
    <3>1. attempt'[q] = IF Busy(q)
                        THEN [attempt[q] EXCEPT !.spent = attempt[q].spent + 1]
                        ELSE attempt[q]
      BY <1>3 DEF Tick
    <3>2. attempt[q] \in Job /\ attempt[q].spent + 1 \in Nat
      BY <1>0 DEF Job
    <3> DEFINE j == attempt[q]
    <3> HIDE DEF j
    <3>3. \A n \in Nat : /\ [j EXCEPT !.spent = n].item = j.item
                          /\ [j EXCEPT !.spent = n].spent = n
                          /\ [j EXCEPT !.spent = n].undisturbed = j.undisturbed
      BY <3>2, FieldUpdates DEF j
    <3>4. QED
      BY <3>1, <3>2, <3>3 DEF j
  <2>2. \A q \in Processes : Alone(q)' => Alone(q)
    BY <1>3, <2>1 DEF Alone, Exchanging, Tick
  <2>3. /\ e \in Deliveries /\ Busy(p) /\ attempt[p].spent < MaxAttemptTime
        /\ attempt[p].spent \in Nat
    BY <1>0, <1>3, <2>2 DEF Tick, Alone, Busy, Job
  <2>4. row[e].wait \notin {0, NoTime} /\ row[e].wait \in Nat
    BY <1>0, <1>1, <2>2, <2>3
  <2>5. row'[e] = [row[e] EXCEPT !.wait = row[e].wait - 1]
    BY <1>3, <2>3, <2>4 DEF Tick
  <2>6. row'[e].wait = row[e].wait - 1 /\ row'[e].state = row[e].state
    BY <1>0, <2>3, <2>5 DEF DeliveryRow
  <2>7. unchanged' = unchanged
    BY <1>3 DEF Tick
  <2>8. QED
    BY <1>0, <1>1, <2>1, <2>2, <2>3, <2>4, <2>6, <2>7 DEF Retryable
<1>4. CASE ~Tick /\ \A r \in Drainers, d \in Deliveries : ~Claim(r, d)
  <2>1. \A q \in Processes : Alone(q)' => Held(q)
    BY <1>4, HeldStep
  <2>2. QED
    BY <1>1, <2>1 DEF Held, Retryable
<1>5. QED
  BY <1>2, <1>3, <1>4

(* Two drainers never attempt one delivery at the same time, unless a save  *)
(* or the late outcome of another attempt rewrote its schedule meanwhile:   *)
(* the lease is longer than an attempt.                                     *)
THEOREM DrainersAlwaysExclude == Spec => []DrainersExclude
<1>1. Init => AloneInv
  BY DEF Init, AloneInv, Alone, Exchanging
<1>2. AloneInv => DrainersExclude
  BY DEF AloneInv, Alone, DrainersExclude, Processes
<1>3. QED
  BY <1>1, <1>2, AloneStep, TypeCorrect, PTL DEF Spec

----------------------------------------------------------------------------
(* The saved article mirrors its delivery (LinkdingDeliveryMirror.cfg shows *)
(* that it need not) as long as no two processes attempt one delivery, none *)
(* dies and nothing is requeued.                                            *)
Undisturbed ==
  /\ \A p, q \in Processes :
       p # q => attempt[p].item # attempt[q].item \/ attempt[p].item = NoDelivery
  /\ crashes = 0 /\ requeues = 0

MirrorInv ==
  /\ \A p \in Processes : attempt[p].item \in Deliveries /\ ~attempt[p].alive =>
       row[attempt[p].item].state = "absent"
  /\ \A p \in Processes : pc[p] = "projecting" /\ attempt[p].alive =>
       /\ row[attempt[p].item].state = Outcome(attempt[p]).state
       /\ row[attempt[p].item].error = Outcome(attempt[p]).error
  /\ MirrorAgrees

(* Neither the time an attempt took nor its solitude decides its outcome.   *)
LEMMA OutcomeDependsOn ==
  ASSUME NEW j \in Job, NEW k \in Job, j.result = k.result, j.tries = k.tries
  PROVE  Outcome(j).state = Outcome(k).state /\ Outcome(j).error = Outcome(k).error
BY DEF Outcome, Written

(* Steps that write no row's state, no mirror, and no attempt beyond its    *)
(* time or its exchange.                                                    *)
LEMMA MirrorKept ==
  ASSUME TypeOK, TypeOK', MirrorInv, shown' = shown,
         \A d \in Deliveries :
           row'[d].state = row[d].state /\ row'[d].error = row[d].error,
         \A p \in Processes :
           /\ attempt'[p].item = attempt[p].item
           /\ attempt'[p].alive = attempt[p].alive
           /\ pc'[p] = "projecting" =>
                /\ pc[p] = "projecting"
                /\ attempt'[p].result = attempt[p].result
                /\ attempt'[p].tries = attempt[p].tries
  PROVE  MirrorInv'
<1>1. \A p \in Processes : attempt'[p].item \in Deliveries /\ ~attempt'[p].alive =>
        row'[attempt'[p].item].state = "absent"
  BY DEF MirrorInv
<1>2. ASSUME NEW p \in Processes, pc'[p] = "projecting", attempt'[p].alive
      PROVE  /\ row'[attempt'[p].item].state = Outcome(attempt'[p]).state
             /\ row'[attempt'[p].item].error = Outcome(attempt'[p]).error
  <2>1. attempt[p] \in Job /\ attempt'[p] \in Job
    BY DEF TypeOK
  <2>2. attempt[p].item \in Deliveries
    BY <1>2 DEF TypeOK, Busy
  <2>3. /\ Outcome(attempt'[p]).state = Outcome(attempt[p]).state
        /\ Outcome(attempt'[p]).error = Outcome(attempt[p]).error
    BY <1>2, <2>1, OutcomeDependsOn
  <2>4. QED
    BY <1>2, <2>2, <2>3 DEF MirrorInv
<1>3. MirrorAgrees'
  BY DEF MirrorInv, MirrorAgrees
<1>4. QED
  BY <1>1, <1>2, <1>3 DEF MirrorInv

LEMMA MirrorStep ==
  ASSUME TypeOK, TypeOK', Undisturbed, Undisturbed', MirrorInv, [Next]_vars
  PROVE  MirrorInv'
<1>0. /\ row \in [Deliveries -> DeliveryRow] /\ attempt \in [Processes -> Job]
      /\ DOMAIN pc = Processes /\ Savers \subseteq Processes /\ Drainers \subseteq Processes
      /\ DOMAIN shown = Deliveries /\ NoDelivery \notin Deliveries
      /\ crashes \in Nat /\ requeues \in Nat
      /\ \A p \in Processes : Busy(p) <=> attempt[p].item \in Deliveries
  BY DeliveryAssumption DEF TypeOK, Processes
<1>1. \A p, q \in Processes :
        p # q => /\ attempt[p].item \in Deliveries => attempt[q].item # attempt[p].item
                 /\ attempt'[p].item \in Deliveries => attempt'[q].item # attempt'[p].item
  BY <1>0 DEF Undisturbed
<1>2. ASSUME NEW p \in Savers, NEW d \in Deliveries, Save(p, d)
      PROVE  MirrorInv'
  <2>1. /\ attempt'[p].item = d /\ attempt'[p].alive
        /\ row' = [row EXCEPT ![d] = Queued] /\ shown' = shown
        /\ pc' = [pc EXCEPT ![p] = "posting"] /\ pc[p] = "idle"
    <3> DEFINE job == [item |-> d, tries |-> 1, result |-> "none",
                       alive |-> TRUE, spent |-> 0, undisturbed |-> FALSE]
    <3>1. /\ attempt' = [Disturb(p, d) EXCEPT ![p] = job] /\ Begin(p, job)
          /\ row' = [row EXCEPT ![d] = Queued] /\ shown' = shown /\ pc[p] = "idle"
      BY <1>2 DEF Save
    <3>2. attempt'[p] = job
      BY <1>0, <3>1 DEF Disturb
    <3>3. QED
      BY <3>1, <3>2 DEF Begin
  <2>2. \A q \in Processes : q # p =>
          attempt'[q].item # d /\ attempt[q].item # d /\ attempt'[q] = attempt[q]
    <3> SUFFICES ASSUME NEW q \in Processes, q # p
                 PROVE  attempt'[q].item # d /\ attempt[q].item # d /\ attempt'[q] = attempt[q]
      OBVIOUS
    <3>1. attempt'[q].item # d
      BY <1>0, <1>1, <2>1
    <3>2. attempt'[q] = Disturb(p, d)[q]
      BY <1>0, <1>2 DEF Save, Disturb
    <3>3. attempt'[q].item = attempt[q].item
      BY <1>0, <3>2, DisturbFacts
    <3>4. QED
      BY <3>1, <3>2, <3>3 DEF Disturb
  <2>3. attempt[p].item \notin Deliveries
    BY <1>0, <2>1 DEF Busy, Exchanging
  <2>4. MirrorAgrees'
    BY <1>0, <2>1, <2>2, <2>3 DEF MirrorInv, MirrorAgrees
  <2>5. QED
    BY <1>0, <2>1, <2>2, <2>4 DEF MirrorInv
<1>3. ASSUME NEW d \in Deliveries, Unsave(d)
      PROVE  MirrorInv'
  <2>1. /\ row' = [row EXCEPT ![d] = Absent] /\ row'[d].state = "absent"
        /\ shown' = [shown EXCEPT ![d] = Unconfirmed] /\ pc' = pc
    BY <1>0, <1>3 DEF Unsave, Absent
  <2>2. \A q \in Processes :
          /\ attempt'[q].item = attempt[q].item
          /\ attempt[q].item = d => ~attempt'[q].alive
          /\ attempt[q].item # d => attempt'[q] = attempt[q]
    <3>1. \A j \in Job : /\ [j EXCEPT !.alive = FALSE, !.undisturbed = FALSE].item = j.item
                        /\ ~[j EXCEPT !.alive = FALSE, !.undisturbed = FALSE].alive
      BY DEF Job
    <3>2. QED
      BY <1>0, <1>3, <3>1 DEF Unsave
  <2>3. MirrorAgrees'
    BY <1>0, <2>1, <2>2 DEF MirrorInv, MirrorAgrees
  <2>4. \A q \in Processes : attempt'[q].item \in Deliveries /\ ~attempt'[q].alive =>
          row'[attempt'[q].item].state = "absent"
    BY <1>0, <2>1, <2>2 DEF MirrorInv
  <2>5. ASSUME NEW q \in Processes, pc'[q] = "projecting", attempt'[q].alive
        PROVE  /\ row'[attempt'[q].item].state = Outcome(attempt'[q]).state
               /\ row'[attempt'[q].item].error = Outcome(attempt'[q]).error
    <3>1. attempt[q].item # d /\ attempt'[q] = attempt[q] /\ pc[q] = "projecting"
      BY <2>1, <2>2, <2>5
    <3>2. row'[attempt[q].item] = row[attempt[q].item]
      BY <1>0, <2>1, <3>1 DEF Busy
    <3>3. QED
      BY <2>5, <3>1, <3>2 DEF MirrorInv
  <2>6. QED
    BY <2>3, <2>4, <2>5 DEF MirrorInv
<1>4. ~Requeue
  BY <1>0 DEF Requeue, Undisturbed
<1>5. \A p \in Processes : ~Crash(p)
  BY <1>0 DEF Crash, Undisturbed
<1>6. ASSUME NEW r \in Drainers,
             List(r) \/ EndDrain(r) \/ \E d \in Deliveries : LoseClaim(r, d)
      PROVE  MirrorInv'
  <2>1. /\ UNCHANGED <<row, shown, attempt>>
        /\ \A p \in Processes : pc'[p] = "projecting" => pc[p] = "projecting"
    BY <1>0, <1>6 DEF List, EndDrain, LoseClaim
  <2>2. QED
    BY <2>1, MirrorKept
<1>7. ASSUME NEW r \in Drainers, NEW d \in Deliveries, Claim(r, d)
      PROVE  MirrorInv'
  <2>1. /\ row' = [row EXCEPT ![d] = [row[d] EXCEPT !.wait = Lease]] /\ shown' = shown
        /\ attempt'[r].item = d /\ attempt'[r].alive /\ pc[r] = "draining"
        /\ pc'[r] # "projecting"
        /\ \A q \in Processes : q # r => attempt'[q] = attempt[q] /\ pc'[q] = pc[q]
    BY <1>0, <1>7 DEF Claim, Begin
  <2>2. \A e \in Deliveries : row'[e].state = row[e].state /\ row'[e].error = row[e].error
    BY <1>0, <2>1 DEF DeliveryRow
  <2>3. attempt[r].item \notin Deliveries
    BY <1>0, <2>1 DEF Busy, Exchanging
  <2>4. MirrorAgrees'
    BY <1>0, <2>1, <2>2, <2>3 DEF MirrorInv, MirrorAgrees
  <2>5. ASSUME NEW q \in Processes, attempt'[q].item \in Deliveries, ~attempt'[q].alive
        PROVE  row'[attempt'[q].item].state = "absent"
    BY <2>1, <2>2, <2>5 DEF MirrorInv
  <2>6. ASSUME NEW q \in Processes, pc'[q] = "projecting", attempt'[q].alive
        PROVE  /\ row'[attempt'[q].item].state = Outcome(attempt'[q]).state
               /\ row'[attempt'[q].item].error = Outcome(attempt'[q]).error
    <3>1. attempt'[q] = attempt[q] /\ pc[q] = "projecting"
      BY <2>1, <2>6
    <3>2. attempt[q].item \in Deliveries
      BY <1>0, <3>1 DEF Busy
    <3>3. QED
      BY <2>2, <2>6, <3>1, <3>2 DEF MirrorInv
  <2>7. QED
    BY <2>4, <2>5, <2>6 DEF MirrorInv
<1>8. ASSUME NEW p \in Processes, Lookup(p) \/ Post(p)
      PROVE  MirrorInv'
  <2>1. PICK x \in {"none", "ok", "retryable", "final"}, next \in {"posting", "recording"} :
          /\ attempt' = [attempt EXCEPT ![p] = [attempt[p] EXCEPT !.result = x]]
          /\ pc' = [pc EXCEPT ![p] = next]
    <3>1. PICK x \in {"none", "ok", "retryable", "final"}, next \in {"posting", "recording"} :
            Exchange(p, x, next)
      BY <1>8 DEF Lookup, Post
    <3>2. QED
      BY <3>1 DEF Exchange
  <2>2. UNCHANGED <<row, shown>>
    BY <1>8 DEF Lookup, Post, Exchange
  <2>3. \A j \in Job : /\ [j EXCEPT !.result = x].item = j.item
                      /\ [j EXCEPT !.result = x].alive = j.alive
    BY DEF Job
  <2>4. \A q \in Processes :
          /\ attempt'[q].item = attempt[q].item
          /\ attempt'[q].alive = attempt[q].alive
          /\ pc'[q] = "projecting" => pc[q] = "projecting" /\ attempt'[q] = attempt[q]
    BY <1>0, <2>1, <2>3
  <2>5. QED
    BY <2>2, <2>4, MirrorKept
<1>9. ASSUME NEW p \in Processes, Record(p)
      PROVE  MirrorInv'
  <2> DEFINE d == attempt[p].item
  <2>1. /\ d \in Deliveries /\ attempt[p].alive /\ attempt[p].result # "none"
        /\ row' = [row EXCEPT ![d] = Outcome(attempt[p])] /\ shown' = shown
        /\ pc' = [pc EXCEPT ![p] = "projecting"]
    BY <1>0, <1>9 DEF Record, Busy, Exchanging, TypeOK
  <2>2. attempt' = attempt
    <3>1. \A q \in Processes : Disturb(p, d)[q] = attempt[q]
      BY <1>0, <1>1, <2>1 DEF Disturb
    <3>2. attempt' = Disturb(p, d)
      BY <1>9 DEF Record
    <3>3. QED
      BY <1>0, <3>1, <3>2 DEF Disturb
  <2>3. MirrorAgrees'
    BY <1>0, <2>1, <2>2 DEF MirrorInv, MirrorAgrees
  <2>4. \A q \in Processes : q # p /\ attempt[q].item \in Deliveries =>
          row'[attempt[q].item] = row[attempt[q].item]
    BY <1>0, <1>1, <2>1
  <2>5. \A q \in Processes : attempt'[q].item \in Deliveries /\ ~attempt'[q].alive =>
          row'[attempt'[q].item].state = "absent"
    BY <2>1, <2>2, <2>4 DEF MirrorInv
  <2>6. ASSUME NEW q \in Processes, pc'[q] = "projecting", attempt'[q].alive
        PROVE  /\ row'[attempt'[q].item].state = Outcome(attempt'[q]).state
               /\ row'[attempt'[q].item].error = Outcome(attempt'[q]).error
    <3>1. CASE q = p
      BY <1>0, <2>1, <2>2, <3>1
    <3>2. CASE q # p
      <4>1. pc[q] = "projecting" /\ attempt[q].item \in Deliveries
        BY <1>0, <2>1, <2>6, <3>2 DEF Busy
      <4>2. QED
        BY <2>2, <2>4, <2>6, <3>2, <4>1 DEF MirrorInv
    <3>3. QED
      BY <3>1, <3>2
  <2>7. QED
    BY <2>3, <2>5, <2>6 DEF MirrorInv
<1>10. ASSUME NEW p \in Processes, RecordFails(p) \/ Project(p)
       PROVE  MirrorInv'
  <2> DEFINE d == attempt[p].item
  <2>1. /\ d \in Deliveries /\ row' = row /\ attempt' = [attempt EXCEPT ![p] = NoAttempt]
        /\ pc'[p] # "projecting" /\ \A q \in Processes : q # p => pc'[q] = pc[q]
    BY <1>0, <1>10 DEF RecordFails, Project, Busy, Exchanging
  <2>2. NoAttempt.item \notin Deliveries
    BY <1>0 DEF NoAttempt
  <2>3. \/ row[d].state = "absent" /\ shown' = shown
        \/ /\ shown' = [shown EXCEPT ![d] = [saved |-> Outcome(attempt[p]).state = "succeeded",
                                              error |-> Outcome(attempt[p]).error]]
           /\ row[d].state = Outcome(attempt[p]).state
           /\ row[d].error = Outcome(attempt[p]).error
    BY <1>10, <2>1 DEF RecordFails, Project, MirrorInv
  <2>4. MirrorAgrees'
    <3> SUFFICES ASSUME NEW e \in Deliveries, row[e].state # "absent",
                        \A q \in Processes : attempt'[q].item # e
                 PROVE  /\ shown'[e].saved <=> row[e].state = "succeeded"
                        /\ shown'[e].error = row[e].error
      BY <2>1 DEF MirrorAgrees
    <3>1. CASE e = d
      <4> DEFINE b == Outcome(attempt[p]).state = "succeeded"
                 c == Outcome(attempt[p]).error
      <4>1. /\ shown' = [shown EXCEPT ![d] = [saved |-> b, error |-> c]]
            /\ b <=> row[d].state = "succeeded"
            /\ row[d].error = c
        BY <2>3, <3>1
      <4> HIDE DEF b, c
      <4>2. shown'[d] = [saved |-> b, error |-> c]
        BY <1>0, <2>1, <4>1
      <4>3. QED
        BY <3>1, <4>1, <4>2
    <3>2. CASE e # d
      <4>1. shown'[e] = shown[e] /\ \A q \in Processes : attempt[q].item # e
        BY <1>0, <2>1, <2>3, <3>2
      <4>2. QED
        BY <4>1 DEF MirrorInv, MirrorAgrees
    <3>3. QED
      BY <3>1, <3>2
  <2>5. QED
    BY <1>0, <2>1, <2>2, <2>4 DEF MirrorInv
<1>11. CASE Tick
  <2>1. \A e \in Deliveries : row'[e].state = row[e].state /\ row'[e].error = row[e].error
    <3> SUFFICES ASSUME NEW e \in Deliveries
                 PROVE  row'[e].state = row[e].state /\ row'[e].error = row[e].error
      OBVIOUS
    <3>1. row'[e] = IF row[e].wait \in {0, NoTime} THEN row[e]
                    ELSE [row[e] EXCEPT !.wait = row[e].wait - 1]
      BY <1>11 DEF Tick
    <3>2. row[e] \in DeliveryRow
      BY <1>0
    <3>3. QED
      BY <3>1, <3>2 DEF DeliveryRow
  <2>2. \A q \in Processes :
          /\ attempt'[q].item = attempt[q].item /\ attempt'[q].alive = attempt[q].alive
          /\ attempt'[q].result = attempt[q].result /\ attempt'[q].tries = attempt[q].tries
    <3> SUFFICES ASSUME NEW q \in Processes
                 PROVE  /\ attempt'[q].item = attempt[q].item
                        /\ attempt'[q].alive = attempt[q].alive
                        /\ attempt'[q].result = attempt[q].result
                        /\ attempt'[q].tries = attempt[q].tries
      OBVIOUS
    <3>1. attempt'[q] = IF Busy(q)
                        THEN [attempt[q] EXCEPT !.spent = attempt[q].spent + 1]
                        ELSE attempt[q]
      BY <1>11 DEF Tick
    <3>2. attempt[q] \in Job
      BY <1>0
    <3>3. QED
      BY <3>1, <3>2 DEF Job
  <2>3. UNCHANGED <<shown, pc>>
    BY <1>11 DEF Tick
  <2>4. QED
    BY <2>1, <2>2, <2>3, MirrorKept
<1>12. CASE UNCHANGED vars
  BY <1>12, MirrorKept DEF vars
<1>13. QED
  BY <1>2, <1>3, <1>4, <1>5, <1>6, <1>7, <1>8, <1>9, <1>10, <1>11, <1>12
     DEF Next, Drain, Attempt

(* What the reader is shown of a delivery is what its row says whenever no  *)
(* attempt is under way: only overlap, a death and a requeue part the two.  *)
THEOREM MirrorHoldsUndisturbed ==
  Spec /\ []Undisturbed => []MirrorAgrees
<1>1. Init => MirrorInv
  BY DeliveryAssumption DEF Init, MirrorInv, MirrorAgrees, Absent, NoAttempt
<1>2. TypeOK /\ TypeOK' /\ Undisturbed /\ Undisturbed' /\ MirrorInv /\ [Next]_vars
        => MirrorInv'
  BY MirrorStep
<1>3. MirrorInv => MirrorAgrees
  BY DEF MirrorInv
<1>4. QED
  BY <1>1, <1>2, <1>3, TypeCorrect, PTL DEF Spec
=============================================================================
