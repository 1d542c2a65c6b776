-------------------------- MODULE LinkdingDelivery --------------------------
(***************************************************************************)
(* Saving articles and delivering their bookmarks to Linkding              *)
(* (feeds/services.py, save_article to deliver_pending_saved_articles).    *)
(* A save commits the SavedArticle and the LinkdingDelivery owed for it    *)
(* together, then attempts the delivery outside the transaction.  Drainers *)
(* - the refresh worker and the deliver_saved_articles command - list the  *)
(* deliveries that are owed and due, claim each by compare-and-set on the  *)
(* schedule it was listed with, and attempt it.  An attempt talks to       *)
(* Linkding, then writes the delivery, then mirrors it onto the saved      *)
(* article, in separate statements.                                        *)
(*                                                                         *)
(* Data abstracted: one delivery stands for one (user, article) pair; an   *)
(* error is kept as whether a retry can help; next_attempt_at is the time  *)
(* left until it.  Timestamps are never written twice with one value, so   *)
(* the compare-and-set succeeds when nobody rewrote the schedule since the *)
(* listing.  The drain's limit and order are left out: a drain lists all   *)
(* that is due and takes it in any order.                                  *)
(*                                                                         *)
(* made, strays and lone are history variables: the program keeps none.    *)
(* LinkdingDelivery.attempts is what the program counts, made is what it   *)
(* does.                                                                   *)
(***************************************************************************)
EXTENDS Integers

CONSTANTS
  Deliveries,      \* saveable articles of a user
  Savers,          \* requests that save an article
  Drainers,        \* processes that drain owed deliveries
  NoDelivery,
  NoTime,          \* a null timestamp
  MaxAttempts,     \* LINKDING_MAX_DELIVERY_ATTEMPTS
  BackoffBase,     \* _DELIVERY_BACKOFF_BASE, in clock units
  BackoffCap,      \* _DELIVERY_BACKOFF_CAP
  MaxShift,        \* largest exponent of the backoff multiplier (16 in the code)
  Lease,           \* _DELIVERY_ATTEMPT_LEASE
  MaxAttemptTime,  \* the longest a live process spends on one attempt
  MaxSaves,        \* bound: saves and re-saves
  MaxRequeues,     \* bound: operator requeues
  MaxCrashes       \* bound: processes that die

ASSUME DeliveryAssumption ==
  /\ NoDelivery \notin Deliveries
  /\ NoTime \notin Nat
  /\ MaxAttempts \in Nat \ {0}
  /\ BackoffBase \in Nat \ {0}
  /\ BackoffCap \in Nat /\ BackoffBase <= BackoffCap
  /\ MaxShift \in Nat
  /\ MaxAttemptTime \in Nat
  /\ Lease \in Nat /\ MaxAttemptTime < Lease
  /\ MaxSaves \in Nat /\ MaxRequeues \in Nat /\ MaxCrashes \in Nat
  /\ Savers \cap Drainers = {}

Processes == Savers \cup Drainers

VARIABLES
  row,         \* the LinkdingDelivery rows
  shown,       \* linkding_saved and linkding_error of the SavedArticle rows
  bookmarked,  \* whether Linkding holds a bookmark for the article
  pc,          \* where each process is
  attempt,     \* the attempt each process is making
  todo,        \* listed deliveries each drainer has not reached
  unchanged,   \* those of them whose schedule is still the listed one
  listed,      \* the attempts count of each delivery when it was listed
  made,        \* attempts begun since the last save or requeue of a delivery
  strays,      \* those of them the program's own count may miss
  lone,        \* who is making the attempt that nothing else was under way with
  saves, requeues, crashes

counters == <<saves, requeues, crashes>>
drains   == <<todo, listed>>
tally    == <<made, strays, lone>>
vars     == <<row, shown, bookmarked, pc, attempt, drains, unchanged, tally,
              counters>>

----------------------------------------------------------------------------
Absent == [state |-> "absent", attempts |-> 0, wait |-> NoTime,
           delivered |-> FALSE, error |-> "none"]

Queued == [state |-> "queued", attempts |-> 0, wait |-> 0,
           delivered |-> FALSE, error |-> "none"]

Unconfirmed == [saved |-> FALSE, error |-> "none"]

NoAttempt == [item |-> NoDelivery, tries |-> 0, result |-> "none",
              alive |-> FALSE, spent |-> 0, undisturbed |-> FALSE]

(* RETRYABLE_STATES                                                        *)
Retryable(d) == row[d].state \in {"queued", "transient_failed"}

(* Defect: a drain takes only deliveries that have failed before.          *)
DueAfterFailure(d) == row[d].state = "transient_failed" /\ row[d].wait = 0

Due(d) == Retryable(d) /\ row[d].wait = 0

Exchanging(p) == pc[p] \in {"looking", "posting", "recording"}

Busy(p) == Exchanging(p) \/ pc[p] = "projecting"

(* An attempt on the delivery has begun and will record its outcome.       *)
Attempting(p, d) ==
  Exchanging(p) /\ attempt[p].item = d /\ attempt[p].alive

Underway(d) == \E p \in Processes : Attempting(p, d)

(* 5 minutes, doubled for every attempt after the first, at most 6 hours.  *)
RetryDelay(attempts) ==
  LET exponent == IF attempts - 1 > MaxShift THEN MaxShift
                  ELSE IF attempts - 1 < 0 THEN 0 ELSE attempts - 1
      doubled  == BackoffBase * 2 ^ exponent
  IN  IF doubled \in 0..BackoffCap THEN doubled ELSE BackoffCap

(* The delay counts from the beginning of the attempt.                     *)
WaitAfter(job) ==
  IF RetryDelay(job.tries) > job.spent THEN RetryDelay(job.tries) - job.spent
  ELSE 0

(* The columns an attempt writes.                                          *)
Written(state, job, wait) ==
  [state |-> state, attempts |-> job.tries, wait |-> wait,
   delivered |-> state = "succeeded",
   error |-> IF job.result = "ok" THEN "none" ELSE job.result]

(* Defect: a success keeps the schedule of the attempt.                    *)
OutcomeStillScheduled(job) ==
  IF job.result = "ok" THEN Written("succeeded", job, WaitAfter(job))
  ELSE Written("permanent_failed", job, NoTime)

(* Defect: an attempt that reaches the budget is retried all the same.     *)
OutcomeWithoutBudget(job) ==
  IF job.result = "ok" THEN Written("succeeded", job, NoTime)
  ELSE Written("transient_failed", job, WaitAfter(job))

(* What an attempt writes, decided by its own count and by the exchange.   *)
Outcome(job) ==
  IF job.result = "ok" THEN Written("succeeded", job, NoTime)
  ELSE IF job.result = "retryable" /\ job.tries < MaxAttempts
  THEN Written("transient_failed", job, WaitAfter(job))
  ELSE Written("permanent_failed", job, NoTime)

(* Attempts other than p's on the delivery are no longer alone with it.    *)
Disturb(p, d) ==
  [q \in Processes |->
     IF q # p /\ attempt[q].item = d
     THEN [attempt[q] EXCEPT !.undisturbed = FALSE] ELSE attempt[q]]

(* The schedule of the delivery is no longer the one any drainer listed.   *)
Rescheduled(d) == [r \in Drainers |-> unchanged[r] \ {d}]

(* An attempt looks the bookmark up first only when it is not the first.   *)
Begin(p, job) ==
  pc' = [pc EXCEPT ![p] = IF job.tries > 1 THEN "looking" ELSE "posting"]

(* A save or a requeue opens a new budget, and the save makes its first    *)
(* attempt; nothing else does.                                             *)
Restart(renewed, begun, maker) ==
  /\ made' = [d \in Deliveries |-> IF d \in renewed THEN begun ELSE made[d]]
  /\ strays' = [d \in Deliveries |-> IF d \in renewed THEN 0 ELSE strays[d]]
  /\ lone' = [d \in Deliveries |-> IF d \in renewed THEN maker ELSE lone[d]]

(* A claimed attempt begins: a stray when another is under way.            *)
OneMore(r, d) ==
  /\ made' = [made EXCEPT ![d] = @ + 1]
  /\ strays' = [strays EXCEPT ![d] = IF Underway(d) THEN @ + 1 ELSE @]
  /\ lone' = [lone EXCEPT ![d] = IF Underway(d) THEN @ ELSE {r}]

----------------------------------------------------------------------------
(* save_article: the save and its owed delivery commit together, whatever  *)
(* the delivery's row was before; the request then attempts the delivery   *)
(* without claiming it.                                                    *)
Save(p, d) ==
  LET job == [item |-> d, tries |-> 1, result |-> "none",
              alive |-> TRUE, spent |-> 0, undisturbed |-> FALSE] IN
  /\ pc[p] = "idle"
  /\ saves < MaxSaves
  /\ saves' = saves + 1
  /\ row' = [row EXCEPT ![d] = Queued]
  /\ attempt' = [Disturb(p, d) EXCEPT ![p] = job]
  /\ unchanged' = Rescheduled(d)
  /\ Begin(p, job)
  /\ Restart({d}, 1, {p})
  /\ UNCHANGED <<shown, bookmarked, drains, requeues, crashes>>

(* Deleting the SavedArticle deletes its delivery; the bookmark stays.     *)
Unsave(d) ==
  /\ row[d].state # "absent"
  /\ row' = [row EXCEPT ![d] = Absent]
  /\ shown' = [shown EXCEPT ![d] = Unconfirmed]
  /\ attempt' = [p \in Processes |->
                   IF attempt[p].item = d
                   THEN [attempt[p] EXCEPT !.alive = FALSE, !.undisturbed = FALSE]
                   ELSE attempt[p]]
  /\ unchanged' = Rescheduled(d)
  /\ Restart({d}, 0, {})
  /\ UNCHANGED <<bookmarked, pc, drains, counters>>

(* deliver_saved_articles --requeue-failed: one UPDATE of every failed row.*)
Requeue ==
  /\ requeues < MaxRequeues
  /\ requeues' = requeues + 1
  /\ row' = [d \in Deliveries |->
               IF row[d].state = "permanent_failed"
               THEN [row[d] EXCEPT !.state = "queued", !.attempts = 0,
                                   !.wait = 0, !.error = "none"]
               ELSE row[d]]
  /\ Restart({d \in Deliveries : row[d].state = "permanent_failed"}, 0, {})
  /\ UNCHANGED <<shown, bookmarked, pc, attempt, drains, unchanged, saves, crashes>>

(* The due deliveries are read once, when the drain begins.                *)
List(r) ==
  /\ pc[r] = "idle"
  /\ \E d \in Deliveries : Due(d)
  /\ pc' = [pc EXCEPT ![r] = "draining"]
  /\ todo' = [todo EXCEPT ![r] = {d \in Deliveries : Due(d)}]
  /\ unchanged' = [unchanged EXCEPT ![r] = {d \in Deliveries : Due(d)}]
  /\ listed' = [listed EXCEPT ![r] = [d \in Deliveries |-> row[d].attempts]]
  /\ UNCHANGED <<row, shown, bookmarked, attempt, tally, counters>>

(* Defect: the claim does not compare the schedule.                        *)
ClaimUnchecked(r, d) ==
  LET job == [item |-> d, tries |-> listed[r][d] + 1, result |-> "none",
              alive |-> TRUE, spent |-> 0, undisturbed |-> TRUE] IN
  /\ pc[r] = "draining"
  /\ d \in todo[r]
  /\ Retryable(d)
  /\ row' = [row EXCEPT ![d].wait = Lease]
  /\ attempt' = [attempt EXCEPT ![r] = job]
  /\ todo' = [todo EXCEPT ![r] = @ \ {d}]
  /\ unchanged' = Rescheduled(d)
  /\ Begin(r, job)
  /\ OneMore(r, d)
  /\ UNCHANGED <<shown, bookmarked, listed, counters>>

(* _claim_delivery matches its row and pushes the schedule out to a lease; *)
(* the attempt counts on from the listed row.                              *)
Claim(r, d) ==
  LET job == [item |-> d, tries |-> listed[r][d] + 1, result |-> "none",
              alive |-> TRUE, spent |-> 0, undisturbed |-> TRUE] IN
  /\ pc[r] = "draining"
  /\ d \in todo[r]
  /\ d \in unchanged[r] /\ Retryable(d)
  /\ row' = [row EXCEPT ![d].wait = Lease]
  /\ attempt' = [attempt EXCEPT ![r] = job]
  /\ todo' = [todo EXCEPT ![r] = @ \ {d}]
  /\ unchanged' = Rescheduled(d)
  /\ Begin(r, job)
  /\ OneMore(r, d)
  /\ UNCHANGED <<shown, bookmarked, listed, counters>>

(* The claim matches no row: another process was faster.                   *)
LoseClaim(r, d) ==
  /\ pc[r] = "draining"
  /\ d \in todo[r]
  /\ ~(d \in unchanged[r] /\ Retryable(d))
  /\ todo' = [todo EXCEPT ![r] = @ \ {d}]
  /\ UNCHANGED <<row, shown, bookmarked, pc, attempt, unchanged, listed, tally,
                 counters>>

EndDrain(r) ==
  /\ pc[r] = "draining"
  /\ todo[r] = {}
  /\ pc' = [pc EXCEPT ![r] = "idle"]
  /\ UNCHANGED <<row, shown, bookmarked, attempt, drains, unchanged, tally,
                 counters>>

Exchange(p, result, next) ==
  /\ attempt' = [attempt EXCEPT ![p].result = result]
  /\ pc' = [pc EXCEPT ![p] = next]
  /\ UNCHANGED <<row, shown, drains, unchanged, tally, counters>>

(* Defect: any answer of the lookup is adopted.                            *)
LookupAdoptsAnything(p) ==
  /\ pc[p] = "looking"
  /\ \/ Exchange(p, "ok", "recording")
     \/ Exchange(p, "none", "posting")
  /\ UNCHANGED bookmarked

(* The lookup adopts a bookmark it finds; it never fails, so that a lookup *)
(* without an answer falls back to creating.                               *)
Lookup(p) ==
  /\ pc[p] = "looking"
  /\ \/ bookmarked[attempt[p].item] /\ Exchange(p, "ok", "recording")
     \/ Exchange(p, "none", "posting")
  /\ UNCHANGED bookmarked

(* The request is confirmed, refused, or its answer is lost after Linkding *)
(* did or did not create the bookmark (it updates the one it has).         *)
Post(p) ==
  /\ pc[p] = "posting"
  /\ \E created \in BOOLEAN, result \in {"ok", "retryable", "final"} :
       /\ result = "ok" => created
       /\ bookmarked' =
            [bookmarked EXCEPT ![attempt[p].item] = @ \/ created]
       /\ Exchange(p, result, "recording")

(* The attempt writes its outcome whatever the row has become since.       *)
Record(p) ==
  /\ pc[p] = "recording"
  /\ attempt[p].alive
  /\ row' = [row EXCEPT ![attempt[p].item] = Outcome(attempt[p])]
  /\ attempt' = Disturb(p, attempt[p].item)
  /\ unchanged' = Rescheduled(attempt[p].item)
  /\ pc' = [pc EXCEPT ![p] = "projecting"]
  /\ lone' = [lone EXCEPT ![attempt[p].item] = @ \ {p}]
  /\ UNCHANGED <<shown, bookmarked, drains, made, strays, counters>>

(* The row is gone: save(update_fields) raises, which fails the request or *)
(* ends the whole drain.                                                   *)
RecordFails(p) ==
  /\ pc[p] = "recording"
  /\ ~attempt[p].alive
  /\ pc' = [pc EXCEPT ![p] = "idle"]
  /\ attempt' = [attempt EXCEPT ![p] = NoAttempt]
  /\ todo' = [r \in Drainers |-> IF r = p THEN {} ELSE todo[r]]
  /\ unchanged' = [r \in Drainers |-> IF r = p THEN {} ELSE unchanged[r]]
  /\ UNCHANGED <<row, shown, bookmarked, listed, tally, counters>>

(* _project_delivery updates the SavedArticle, if it is still there, from  *)
(* the attempt's own copy of the delivery.                                 *)
Project(p) ==
  /\ pc[p] = "projecting"
  /\ shown' = IF attempt[p].alive
              THEN [shown EXCEPT ![attempt[p].item] =
                      [saved |-> Outcome(attempt[p]).state = "succeeded",
                       error |-> Outcome(attempt[p]).error]]
              ELSE shown
  /\ attempt' = [attempt EXCEPT ![p] = NoAttempt]
  /\ pc' = [pc EXCEPT ![p] = IF p \in Drainers THEN "draining" ELSE "idle"]
  /\ UNCHANGED <<row, bookmarked, drains, unchanged, tally, counters>>

Crash(p) ==
  /\ pc[p] # "idle"
  /\ crashes < MaxCrashes
  /\ crashes' = crashes + 1
  /\ pc' = [pc EXCEPT ![p] = "idle"]
  /\ attempt' = [attempt EXCEPT ![p] = NoAttempt]
  /\ todo' = [r \in Drainers |-> IF r = p THEN {} ELSE todo[r]]
  /\ unchanged' = [r \in Drainers |-> IF r = p THEN {} ELSE unchanged[r]]
  /\ strays' = [d \in Deliveries |->
                  IF p \in lone[d] THEN strays[d] + 1 ELSE strays[d]]
  /\ lone' = [d \in Deliveries |-> lone[d] \ {p}]
  /\ UNCHANGED <<row, shown, bookmarked, listed, made, saves, requeues>>

(* A live process spends at most MaxAttemptTime on an attempt.  That is an *)
(* assumption: the requests' timeouts bound each wait, not their number.   *)
Tick ==
  /\ \A p \in Processes : Busy(p) => attempt[p].spent < MaxAttemptTime
  /\ \/ \E p \in Processes : Busy(p)
     \/ \E d \in Deliveries : row[d].wait \notin {0, NoTime}
  /\ attempt' = [p \in Processes |->
                   IF Busy(p) THEN [attempt[p] EXCEPT !.spent = @ + 1]
                   ELSE attempt[p]]
  /\ row' = [d \in Deliveries |->
               IF row[d].wait \in {0, NoTime} THEN row[d]
               ELSE [row[d] EXCEPT !.wait = @ - 1]]
  /\ UNCHANGED <<shown, bookmarked, pc, drains, unchanged, tally, counters>>

----------------------------------------------------------------------------
Init ==
  /\ row = [d \in Deliveries |-> Absent]
  /\ shown = [d \in Deliveries |-> Unconfirmed]
  /\ bookmarked = [d \in Deliveries |-> FALSE]
  /\ pc = [p \in Processes |-> "idle"]
  /\ attempt = [p \in Processes |-> NoAttempt]
  /\ todo = [r \in Drainers |-> {}]
  /\ unchanged = [r \in Drainers |-> {}]
  /\ listed = [r \in Drainers |-> [d \in Deliveries |-> 0]]
  /\ made = [d \in Deliveries |-> 0]
  /\ strays = [d \in Deliveries |-> 0]
  /\ lone = [d \in Deliveries |-> {}]
  /\ saves = 0
  /\ requeues = 0
  /\ crashes = 0

Attempt(p) ==
  Lookup(p) \/ Post(p) \/ Record(p) \/ RecordFails(p) \/ Project(p)

Drain(r) ==
  \/ List(r) \/ EndDrain(r)
  \/ \E d \in Deliveries : Claim(r, d) \/ LoseClaim(r, d)

Next ==
  \/ \E p \in Savers, d \in Deliveries : Save(p, d)
  \/ \E d \in Deliveries : Unsave(d)
  \/ Requeue
  \/ \E r \in Drainers : Drain(r)
  \/ \E p \in Processes : Attempt(p) \/ Crash(p)
  \/ Tick

Spec == Init /\ [][Next]_vars

(* Attempts end, the worker drains again every cycle, and time passes.     *)
FairSpec ==
  /\ Spec
  /\ WF_vars(Tick)
  /\ \A p \in Processes : WF_vars(Attempt(p))
  /\ \A r \in Drainers : WF_vars(Drain(r))

----------------------------------------------------------------------------
States == {"absent", "queued", "succeeded", "transient_failed", "permanent_failed"}

Errors == {"none", "retryable", "final"}

DeliveryRow == [state: States, attempts: Nat, wait: Nat \cup {NoTime},
                delivered: BOOLEAN, error: Errors]

Job == [item: Deliveries \cup {NoDelivery}, tries: Nat,
        result: {"none", "ok", "retryable", "final"},
        alive: BOOLEAN, spent: Nat, undisturbed: BOOLEAN]

TypeOK ==
  /\ row \in [Deliveries -> DeliveryRow]
  /\ shown \in [Deliveries -> [saved: BOOLEAN, error: Errors]]
  /\ bookmarked \in [Deliveries -> BOOLEAN]
  /\ pc \in [Processes -> {"idle", "draining", "looking", "posting",
                           "recording", "projecting"}]
  /\ attempt \in [Processes -> Job]
  /\ \A p \in Processes : Busy(p) <=> attempt[p].item \in Deliveries
  /\ \A p \in Processes :
       pc[p] \in {"recording", "projecting"} <=> attempt[p].result # "none"
  /\ todo \in [Drainers -> SUBSET Deliveries]
  /\ unchanged \in [Drainers -> SUBSET Deliveries]
  /\ listed \in [Drainers -> [Deliveries -> Nat]]
  /\ made \in [Deliveries -> Nat] /\ strays \in [Deliveries -> Nat]
  /\ lone \in [Deliveries -> SUBSET Processes]
  /\ saves \in Nat /\ requeues \in Nat /\ crashes \in Nat

(* However saves, requeues and attempts overwrite one another, a row never *)
(* breaks the two check constraints of LinkdingDelivery: state, schedule,  *)
(* delivery time and error class agree.                                    *)
FieldsAgree ==
  \A d \in Deliveries :
    /\ Retryable(d) <=> row[d].wait # NoTime
    /\ row[d].delivered <=> row[d].state = "succeeded"
    /\ row[d].state = "succeeded" => row[d].error = "none"
    /\ row[d].state \in {"transient_failed", "permanent_failed"}
         => row[d].error # "none"

(* The retry budget bounds the attempts made for one save or requeue:      *)
(* stale listings, late outcomes, re-saves and requeues included, no more  *)
(* attempts are begun than the budget and the strays among them, which are *)
(* those that begin while another attempt on the delivery is under way,    *)
(* and those whose process dies before it records the outcome.             *)
AttemptsWithinBudget ==
  \A d \in Deliveries : made[d] <= MaxAttempts + strays[d]

(* What the reader is shown as saved to Linkding, and what is recorded as  *)
(* delivered, is bookmarked there.                                         *)
SuccessIsReal ==
  /\ \A d \in Deliveries :
       (row[d].state = "succeeded" \/ shown[d].saved) => bookmarked[d]
  /\ \A p \in Processes : attempt[p].result = "ok" => bookmarked[attempt[p].item]

(* Two drainers never attempt one delivery at the same time, unless a save *)
(* or the late outcome of another attempt rewrote its schedule meanwhile.  *)
DrainersExclude ==
  \A p, q \in Drainers :
    (p # q /\ Exchanging(p) /\ Exchanging(q) /\ attempt[p].item = attempt[q].item)
      => ~(attempt[p].undisturbed /\ attempt[q].undisturbed)

(* What is owed does not stay owed: it is delivered, fails for good or is  *)
(* unsaved.                                                                *)
OwedIsSettled == \A d \in Deliveries : Retryable(d) ~> ~Retryable(d)

(* An attempt counted as the first posts without looking, because no       *)
(* earlier attempt could have created anything (contracts.md,              *)
(* SAVE-INV-006).                                                          *)
FirstAttemptIsFirst ==
  \A p \in Processes :
    (pc[p] = "posting" /\ attempt[p].tries = 1) => ~bookmarked[attempt[p].item]

(* The saved article mirrors its delivery when no attempt is under way.    *)
MirrorAgrees ==
  \A d \in Deliveries :
    (row[d].state # "absent" /\ \A p \in Processes : attempt[p].item # d)
      => /\ shown[d].saved <=> row[d].state = "succeeded"
         /\ shown[d].error = row[d].error
=============================================================================
