----------------------------- MODULE RefreshJob -----------------------------
(***************************************************************************)
(* The refresh worker and its JobRun lease (feeds/jobs.py,                 *)
(* feeds/management/commands/run_refresh_worker.py).  Worker processes     *)
(* loop over refresh cycles.  A cycle owns the one JobRun row whose status *)
(* is running; it heartbeats between feeds, never inside one, and another  *)
(* worker reclaims the row once it has been silent for the lease.  The     *)
(* health check reads the newest row and the newest success.               *)
(*                                                                         *)
(* Time is kept as ages that saturate at AgeCap, so that the clock never   *)
(* stops.  A worker's newest row is enough of its history: a worker        *)
(* creates a row only when no row is running, and every older row is       *)
(* terminal.                                                               *)
(***************************************************************************)
EXTENDS Integers

CONSTANTS
  Workers,          \* processes running the worker command
  NoWorker,
  Lease,            \* JOB_LEASE_SECONDS, in clock units
  HeartbeatEvery,   \* JOB_HEARTBEAT_SECONDS
  MaxHeartbeatAge,  \* JOB_MAX_HEARTBEAT_AGE_SECONDS
  MaxSuccessAge,    \* JOB_MAX_SUCCESS_AGE_SECONDS
  MaxFeedTime,      \* the longest a live worker spends on one feed
  MaxFeeds,         \* bound: feeds in a cycle
  AgeCap            \* bound: ages saturate here

(* The first line is the check settings.py makes at start-up.              *)
ASSUME SettingsAssumption ==
  /\ HeartbeatEvery \in Nat /\ Lease \in Nat
  /\ 0 < HeartbeatEvery /\ HeartbeatEvery < Lease
  /\ MaxHeartbeatAge \in Nat /\ MaxSuccessAge \in Nat
  /\ MaxFeedTime \in Nat \ {0} /\ MaxFeeds \in Nat
  /\ AgeCap \in Nat
  /\ Lease <= AgeCap /\ MaxHeartbeatAge < AgeCap /\ MaxSuccessAge < AgeCap
  /\ NoWorker \notin Workers

VARIABLES
  pc,          \* "down", "waiting" between cycles, "cycling"
  status,      \* status of each worker's newest row; "none" before the first
  silent,      \* age of that row's last heartbeat, while it is running
  busy,        \* how long each worker has been at its current feed
  left,        \* feeds each worker's cycle has still to evaluate
  stop,        \* whether each worker's stop event is set
  latest,      \* the worker whose row is the newest of all
  successAge   \* age of the newest success; AgeCap also when there is none

vars == <<pc, status, silent, busy, left, stop, latest, successAge>>

Running(w) == status[w] = "running"

(* heartbeat_at <= now - lease                                             *)
Expired(w) == silent[w] >= Lease

(* Defect: a worker reclaims the row of its colleague without looking at   *)
(* the lease.                                                              *)
NobodyAliveUnchecked == TRUE

NobodyAlive == \A w \in Workers : Running(w) => Expired(w)

Older(age) == IF age < AgeCap THEN age + 1 ELSE AgeCap

----------------------------------------------------------------------------
(* The supervisor starts, or restarts, the process.                        *)
Start(w) ==
  /\ pc[w] = "down"
  /\ pc' = [pc EXCEPT ![w] = "waiting"]
  /\ UNCHANGED <<status, silent, busy, left, stop, latest, successAge>>

(* Defect: an expired owner blocks the job for ever.                       *)
AcquireWhenFree(w) ==
  /\ pc[w] = "waiting"
  /\ \A v \in Workers : ~Running(v)
  /\ status' = [status EXCEPT ![w] = "running"]
  /\ silent' = [silent EXCEPT ![w] = 0]
  /\ busy' = [busy EXCEPT ![w] = 0]
  /\ \E n \in 0..MaxFeeds : left' = [left EXCEPT ![w] = n]
  /\ latest' = w
  /\ pc' = [pc EXCEPT ![w] = "cycling"]
  /\ UNCHANGED <<stop, successAge>>

(* acquire_job in one transaction: every expired running row becomes       *)
(* interrupted, then a running row is created.  The unique constraint on   *)
(* running rows makes the loser of a race fail as JobAlreadyRunning, which *)
(* is SkipCycle.                                                           *)
Acquire(w) ==
  /\ pc[w] = "waiting"
  /\ NobodyAlive
  /\ status' = [v \in Workers |->
                  IF v = w THEN "running"
                  ELSE IF Running(v) THEN "interrupted" ELSE status[v]]
  /\ silent' = [v \in Workers |-> 0]
  /\ busy' = [busy EXCEPT ![w] = 0]
  /\ \E n \in 0..MaxFeeds : left' = [left EXCEPT ![w] = n]
  /\ latest' = w
  /\ pc' = [pc EXCEPT ![w] = "cycling"]
  /\ UNCHANGED <<stop, successAge>>

(* A live owner holds the job: the cycle is skipped, the worker drains     *)
(* bookmark deliveries and waits again.                                    *)
SkipCycle(w) ==
  /\ pc[w] = "waiting"
  /\ ~NobodyAlive
  /\ UNCHANGED vars

(* finish_job writes the row whatever its status has become.               *)
Finish(w, outcome) ==
  /\ status' = [status EXCEPT ![w] = outcome]
  /\ silent' = [silent EXCEPT ![w] = 0]
  /\ successAge' = IF outcome = "succeeded" THEN 0 ELSE successAge

(* Defect: the row is never renewed while the cycle goes on.               *)
FeedDoneWithoutBeat(w) ==
  /\ pc[w] = "cycling"
  /\ left[w] > 0
  /\ ~stop[w]
  /\ left' = [left EXCEPT ![w] = @ - 1]
  /\ busy' = [busy EXCEPT ![w] = 0]
  /\ UNCHANGED <<pc, status, silent, stop, latest, successAge>>

(* One feed's result: the worker heartbeats if the last one is old enough, *)
(* then goes on with the next feed.  A heartbeat updates the row only      *)
(* while it is running, and the worker is not told when it is not.         *)
FeedDone(w) ==
  /\ pc[w] = "cycling"
  /\ left[w] > 0
  /\ ~stop[w]
  /\ left' = [left EXCEPT ![w] = @ - 1]
  /\ busy' = [busy EXCEPT ![w] = 0]
  /\ silent' = IF silent[w] >= HeartbeatEvery
               THEN [silent EXCEPT ![w] = 0] ELSE silent
  /\ UNCHANGED <<pc, status, stop, latest, successAge>>

(* The stop event is seen after the feed in flight: the cycle is recorded  *)
(* as interrupted and the process exits.                                   *)
StopCycle(w) ==
  /\ pc[w] = "cycling"
  /\ left[w] > 0
  /\ stop[w]
  /\ Finish(w, "interrupted")
  /\ pc' = [pc EXCEPT ![w] = "waiting"]
  /\ left' = [left EXCEPT ![w] = 0]
  /\ busy' = [busy EXCEPT ![w] = 0]
  /\ UNCHANGED <<stop, latest>>

EndCycle(w) ==
  /\ pc[w] = "cycling"
  /\ left[w] = 0
  /\ Finish(w, "succeeded")
  /\ pc' = [pc EXCEPT ![w] = "waiting"]
  /\ busy' = [busy EXCEPT ![w] = 0]
  /\ UNCHANGED <<left, stop, latest>>

(* An unexpected exception: the row is failed, the exception re-raised and *)
(* the process ends.                                                       *)
CycleRaises(w) ==
  /\ pc[w] = "cycling"
  /\ Finish(w, "failed")
  /\ pc' = [pc EXCEPT ![w] = "down"]
  /\ left' = [left EXCEPT ![w] = 0]
  /\ busy' = [busy EXCEPT ![w] = 0]
  /\ stop' = [stop EXCEPT ![w] = FALSE]
  /\ UNCHANGED latest

Signal(w) ==
  /\ pc[w] # "down"
  /\ ~stop[w]
  /\ stop' = [stop EXCEPT ![w] = TRUE]
  /\ UNCHANGED <<pc, status, silent, busy, left, latest, successAge>>

(* The loop leaves when the event is set, after a cycle or while waiting.  *)
Exit(w) ==
  /\ pc[w] = "waiting"
  /\ stop[w]
  /\ pc' = [pc EXCEPT ![w] = "down"]
  /\ stop' = [stop EXCEPT ![w] = FALSE]
  /\ UNCHANGED <<status, silent, busy, left, latest, successAge>>

(* Killed: nothing is recorded, and the row stays running.                 *)
Crash(w) ==
  /\ pc[w] # "down"
  /\ pc' = [pc EXCEPT ![w] = "down"]
  /\ left' = [left EXCEPT ![w] = 0]
  /\ busy' = [busy EXCEPT ![w] = 0]
  /\ stop' = [stop EXCEPT ![w] = FALSE]
  /\ UNCHANGED <<status, silent, latest, successAge>>

(* A live worker spends at most MaxFeedTime on a feed.  That is an         *)
(* assumption: the fetch's timeouts bound each wait, not their number.     *)
Tick ==
  /\ \A w \in Workers : pc[w] = "cycling" => busy[w] < MaxFeedTime
  /\ silent' = [w \in Workers |-> IF Running(w) THEN Older(silent[w]) ELSE 0]
  /\ busy' = [w \in Workers |-> IF pc[w] = "cycling" THEN busy[w] + 1 ELSE 0]
  /\ successAge' = Older(successAge)
  /\ UNCHANGED <<pc, status, left, stop, latest>>

----------------------------------------------------------------------------
Init ==
  /\ pc = [w \in Workers |-> "down"]
  /\ status = [w \in Workers |-> "none"]
  /\ silent = [w \in Workers |-> 0]
  /\ busy = [w \in Workers |-> 0]
  /\ left = [w \in Workers |-> 0]
  /\ stop = [w \in Workers |-> FALSE]
  /\ latest = NoWorker
  /\ successAge = AgeCap

Cycle(w) == FeedDone(w) \/ StopCycle(w) \/ EndCycle(w)

Next ==
  \/ \E w \in Workers :
       \/ Start(w) \/ Acquire(w) \/ SkipCycle(w)
       \/ Cycle(w) \/ CycleRaises(w)
       \/ Signal(w) \/ Exit(w) \/ Crash(w)
  \/ Tick

Spec == Init /\ [][Next]_vars

(* The clock runs and a live worker gets on with its cycle; nobody needs   *)
(* to restart a process that has died.                                     *)
ClockSpec == Spec /\ WF_vars(Tick) /\ \A w \in Workers : WF_vars(Cycle(w))

----------------------------------------------------------------------------
(* Defect: health looks at the heartbeat of no running cycle.              *)
StaleIgnoringHeartbeats ==
  \/ latest = NoWorker
  \/ latest # NoWorker /\ ~Running(latest) /\ successAge > MaxSuccessAge

(* job_health: without a row the worker is stale; a running row is stale   *)
(* when its heartbeat is old; otherwise the newest success must be recent. *)
Stale ==
  \/ latest = NoWorker
  \/ latest # NoWorker /\ Running(latest) /\ silent[latest] > MaxHeartbeatAge
  \/ latest # NoWorker /\ ~Running(latest) /\ successAge > MaxSuccessAge

TypeOK ==
  /\ pc \in [Workers -> {"down", "waiting", "cycling"}]
  /\ status \in [Workers ->
                   {"none", "running", "succeeded", "failed", "interrupted"}]
  /\ silent \in [Workers -> 0..AgeCap]
  /\ busy \in [Workers -> 0..MaxFeedTime]
  /\ left \in [Workers -> 0..MaxFeeds]
  /\ stop \in [Workers -> BOOLEAN]
  /\ latest \in Workers \cup {NoWorker}
  /\ successAge \in 0..AgeCap

(* No two live workers are inside a refresh cycle at once.  The unique     *)
(* running row does not say so by itself: a worker whose row was reclaimed *)
(* is not told, and goes on.                                               *)
OneCycleAtATime ==
  \A v, w \in Workers : pc[v] = "cycling" /\ pc[w] = "cycling" => v = w

(* Why the lease excludes: a worker inside a cycle still has its running   *)
(* row, and its last heartbeat is at most one heartbeat interval older     *)
(* than the feed it is at; the running row is unique and is the newest.    *)
LeaseInv ==
  /\ \A w \in Workers : pc[w] = "cycling" =>
       Running(w) /\ silent[w] < HeartbeatEvery + busy[w]
  /\ \A w \in Workers : Running(w) => latest = w

(* A cycle that is going on, however many feeds it has, is not reported as *)
(* stale: its heartbeats come in time for the health check.                *)
LiveCycleNotStale ==
  \A w \in Workers : pc[w] = "cycling" => ~Stale

(* The recorded outcome of a cycle is final: finish_job never overwrites   *)
(* one, and in particular no cycle reclaimed as interrupted turns into a   *)
(* success afterwards.                                                     *)
OutcomeIsFinal ==
  [][\A w \in Workers :
       status[w] \in {"succeeded", "failed", "interrupted"} =>
         status'[w] \in {status[w], "running"}]_vars

(* The lease as a lock, with nothing but ages to tell who is alive: cycles *)
(* and the rows they leave are those of JobLease, so no run is reclaimed   *)
(* from a worker that is at work, and each gets one outcome, once.         *)
CyclingWorker ==
  IF \E w \in Workers : pc[w] = "cycling"
  THEN CHOOSE w \in Workers : pc[w] = "cycling" ELSE NoWorker

Lock == INSTANCE JobLease WITH run <- status, atWork <- CyclingWorker

ImplementsLease == Lock!Spec

(* "A slow run is never stolen" (README.md): the row of a worker that is   *)
(* inside its cycle is never reclaimed by another.  The heartbeat comes    *)
(* only between feeds, so this needs a feed to fit into the lease with the *)
(* heartbeat interval before it, which the settings do not check.          *)
SlowRunNeverStolen ==
  [][\A w \in Workers :
       (pc[w] = "cycling" /\ pc'[w] = "cycling" /\ Running(w))
          => status'[w] = "running"]_vars

(* The supervisor restarts processes ("restart: unless-stopped" in         *)
(* docker-compose.yml), and a worker that comes back to the beginning of   *)
(* its loop again and again does not die before its claim every time.      *)
Supervised == \A w \in Workers : WF_vars(Start(w)) /\ SF_vars(Acquire(w))

(* Under that supervision, the run of a worker that died is not left       *)
(* running for ever.                                                       *)
CrashedRunReclaimed ==
  Supervised =>
    \A w \in Workers :
      (Running(w) /\ pc[w] = "down") ~> (~Running(w) \/ pc[w] = "cycling")

(* Silence is reported: if cycles stop being started, renewed or completed *)
(* - the process died or hangs and nobody restarts it - the health check   *)
(* turns stale.                                                            *)
SilenceIsReported ==
  []<>(Stale \/ successAge = 0 \/ \E w \in Workers : Running(w) /\ silent[w] = 0)
=============================================================================
