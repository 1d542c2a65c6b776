---------------------------- MODULE FeedRefresh ----------------------------
(***************************************************************************)
(* Refreshing subscribed feeds (feeds/services.py, refresh_feed and        *)
(* iter_refresh_active_feeds).  Several refreshers - the worker process,   *)
(* the browser's and the API's "refresh now", the refresh_feeds command -  *)
(* walk the active feeds at the same time.  An attempt on a feed claims a  *)
(* generation of the feed's row, fetches the document without any lock,    *)
(* and then persists its outcome in one transaction, but only while its    *)
(* generation is still the one stored in the row: a newer claim supersedes *)
(* it.                                                                     *)
(*                                                                         *)
(* Data abstracted: a feed document is a version number of what its server *)
(* publishes; the articles reconciled from it are represented by that      *)
(* version (module ArticleReconciliation models the reconciliation         *)
(* itself); the timestamps that no decision reads (last_attempt_at,        *)
(* last_fetched_at, updated_at) and the titles are left out.               *)
(***************************************************************************)
EXTENDS Integers

CONSTANTS
  Feeds,         \* rows of feeds_feed
  Refreshers,    \* processes and request threads that run refresh cycles
  BackoffBase,   \* _REFRESH_BACKOFF_BASE, in clock units
  BackoffCap,    \* _REFRESH_BACKOFF_CAP, in clock units
  MaxShift,      \* largest exponent of the backoff multiplier (16 in the code)
  NoFeed,        \* target of a refresher that is not attempting a feed
  NoTime,        \* a null timestamp
  MaxCycles,     \* bound: cycles each refresher starts
  MaxTime,       \* bound: clock
  MaxVersion,    \* bound: document versions a server publishes
  MaxCrashes     \* bound: processes that die in the middle of a cycle

FetchErrors     == {"timeout", "parse_error"}
ReconcileErrors == {"integrity_error"}
ErrorCodes      == FetchErrors \cup ReconcileErrors

ASSUME ConstantsAssumption ==
  /\ BackoffBase \in Nat \ {0}
  /\ BackoffCap \in Nat /\ BackoffBase <= BackoffCap
  /\ MaxShift \in Nat
  /\ NoFeed \notin Feeds
  /\ NoTime \notin Nat
  /\ MaxCycles \in Nat /\ MaxTime \in Nat
  /\ MaxVersion \in Nat /\ MaxCrashes \in Nat

VARIABLES
  feed,       \* the feeds_feed rows
  articles,   \* per feed, the document version its stored articles come from
  settled,    \* per feed, the generation whose outcome its row shows (history)
  published,  \* per feed, the document version its server serves
  pc,         \* where each refresher is
  todo,       \* feeds of its snapshot each refresher has not reached
  seen,       \* next_retry_at of every feed in each refresher's snapshot
  target,     \* the feed each refresher is attempting
  ticket,     \* the generation each refresher claimed for it
  fetched,    \* the document version each refresher fetched
  failure,    \* the error each refresher is about to record
  now,
  cycles,
  crashes

rows       == <<feed, articles, settled>>
attempt    == <<target, ticket, fetched, failure>>
refreshers == <<pc, todo, seen, attempt, cycles>>
world      == <<published, now, crashes>>
vars       == <<rows, refreshers, world>>

----------------------------------------------------------------------------
(* 5 minutes, doubled for every consecutive failure after the first, at    *)
(* most 24 hours.                                                          *)
RetryDelay(failures) ==
  LET exponent == IF failures - 1 > MaxShift THEN MaxShift
                  ELSE IF failures - 1 < 0 THEN 0 ELSE failures - 1
      doubled  == BackoffBase * 2 ^ exponent
  IN  IF doubled \in 0..BackoffCap THEN doubled ELSE BackoffCap

FeedRow == [active: BOOLEAN,
            generation: Nat,
            failures: Nat,
            error: ErrorCodes \cup {"none"},
            retryAt: Nat \cup {NoTime}]

NoFailure == [code |-> "none", at |-> 0]

Attempting(r) == pc[r] \in {"fetching", "reconciling", "failing"}

(* Defect: the fence is compared with a generation not yet claimed.        *)
OwnsNextGeneration(r) == feed[target[r]].generation = ticket[r] + 1

Owns(r) == feed[target[r]].generation = ticket[r]

(* The refresher is done with its target and goes on with the next feed.   *)
NextFeed(r) ==
  /\ pc' = [pc EXCEPT ![r] = "looping"]
  /\ target' = [target EXCEPT ![r] = NoFeed]
  /\ ticket' = [ticket EXCEPT ![r] = 0]
  /\ fetched' = [fetched EXCEPT ![r] = 0]
  /\ failure' = [failure EXCEPT ![r] = NoFailure]

(* The attempt raised: its error is dated now, and is recorded by a later  *)
(* transaction.                                                            *)
Raise(r, codes) ==
  /\ \E code \in codes :
       failure' = [failure EXCEPT ![r] = [code |-> code, at |-> now]]
  /\ pc' = [pc EXCEPT ![r] = "failing"]

----------------------------------------------------------------------------
(* The active feeds are read once, when the cycle begins.                  *)
StartCycle(r) ==
  /\ pc[r] = "idle"
  /\ cycles[r] < MaxCycles
  /\ cycles' = [cycles EXCEPT ![r] = @ + 1]
  /\ pc' = [pc EXCEPT ![r] = "looping"]
  /\ todo' = [todo EXCEPT ![r] = {f \in Feeds : feed[f].active}]
  /\ seen' = [seen EXCEPT ![r] = [f \in Feeds |-> feed[f].retryAt]]
  /\ UNCHANGED <<rows, attempt, world>>

BackedOff(r, f) == seen[r][f] # NoTime /\ seen[r][f] > now

(* Defect: the loop does not advance past a skipped feed.                  *)
SkipFeedForever(r, f) ==
  /\ pc[r] = "looping"
  /\ f \in todo[r]
  /\ BackedOff(r, f)
  /\ UNCHANGED vars

(* A feed whose snapshot backs off is reported as skipped, untouched.      *)
SkipFeed(r, f) ==
  /\ pc[r] = "looping"
  /\ f \in todo[r]
  /\ BackedOff(r, f)
  /\ todo' = [todo EXCEPT ![r] = @ \ {f}]
  /\ UNCHANGED <<rows, pc, seen, attempt, cycles, world>>

(* Defect: the claim reads the generation without advancing it.            *)
ClaimWithoutBump(r, f) ==
  /\ pc[r] = "looping"
  /\ f \in todo[r]
  /\ ~BackedOff(r, f)
  /\ ticket' = [ticket EXCEPT ![r] = feed[f].generation + 1]
  /\ target' = [target EXCEPT ![r] = f]
  /\ todo' = [todo EXCEPT ![r] = @ \ {f}]
  /\ pc' = [pc EXCEPT ![r] = "fetching"]
  /\ UNCHANGED <<feed, articles, settled, seen, fetched, failure, cycles, world>>

(* The eligibility test reads only the snapshot and the clock, and can     *)
(* only become true as time passes, so it is part of the claim's step.     *)
(* The claim locks the row and does not look at is_active or next_retry_at *)
(* again.                                                                  *)
Claim(r, f) ==
  /\ pc[r] = "looping"
  /\ f \in todo[r]
  /\ ~BackedOff(r, f)
  /\ feed' = [feed EXCEPT ![f].generation = @ + 1]
  /\ ticket' = [ticket EXCEPT ![r] = feed[f].generation + 1]
  /\ target' = [target EXCEPT ![r] = f]
  /\ todo' = [todo EXCEPT ![r] = @ \ {f}]
  /\ pc' = [pc EXCEPT ![r] = "fetching"]
  /\ UNCHANGED <<articles, settled, seen, fetched, failure, cycles, world>>

(* The HTTP exchange and the parse, outside any transaction.               *)
Fetch(r) ==
  /\ pc[r] = "fetching"
  /\ fetched' = [fetched EXCEPT ![r] = published[target[r]]]
  /\ pc' = [pc EXCEPT ![r] = "reconciling"]
  /\ UNCHANGED <<rows, todo, seen, target, ticket, failure, cycles, world>>

FetchFails(r) ==
  /\ pc[r] = "fetching"
  /\ Raise(r, FetchErrors)
  /\ UNCHANGED <<rows, todo, seen, target, ticket, fetched, cycles, world>>

(* The reconciling transaction holds the row lock from its first statement *)
(* to its commit, so each of its three outcomes is one step.               *)
Superseded(r) ==
  /\ pc[r] = "reconciling"
  /\ ~Owns(r)
  /\ NextFeed(r)
  /\ UNCHANGED <<rows, todo, seen, cycles, world>>

(* Defect: the outcome is written without checking the fence.              *)
ReconcileUnfenced(r) ==
  LET f == target[r] IN
  /\ pc[r] = "reconciling"
  /\ articles' = [articles EXCEPT ![f] = fetched[r]]
  /\ feed' = [feed EXCEPT ![f] = [@ EXCEPT !.failures = 0,
                                           !.error = "none",
                                           !.retryAt = NoTime]]
  /\ settled' = [settled EXCEPT ![f] = ticket[r]]
  /\ NextFeed(r)
  /\ UNCHANGED <<todo, seen, cycles, world>>

Reconcile(r) ==
  LET f == target[r] IN
  /\ pc[r] = "reconciling"
  /\ Owns(r)
  /\ articles' = [articles EXCEPT ![f] = fetched[r]]
  /\ feed' = [feed EXCEPT ![f] = [@ EXCEPT !.failures = 0,
                                           !.error = "none",
                                           !.retryAt = NoTime]]
  /\ settled' = [settled EXCEPT ![f] = ticket[r]]
  /\ NextFeed(r)
  /\ UNCHANGED <<todo, seen, cycles, world>>

(* An identity conflict or a constraint rolls the transaction back.        *)
ReconcileFails(r) ==
  /\ pc[r] = "reconciling"
  /\ Owns(r)
  /\ Raise(r, ReconcileErrors)
  /\ UNCHANGED <<rows, todo, seen, target, ticket, fetched, cycles, world>>

(* Defect: a superseded attempt records its failure all the same.          *)
RecordFailureUnfenced(r) ==
  LET f == target[r]
      n == feed[f].failures + 1
  IN
  /\ pc[r] = "failing"
  /\ feed' = [feed EXCEPT ![f] = [@ EXCEPT
                 !.failures = n,
                 !.error = failure[r].code,
                 !.retryAt = failure[r].at + RetryDelay(n)]]
  /\ settled' = [settled EXCEPT ![f] = ticket[r]]
  /\ NextFeed(r)
  /\ UNCHANGED <<articles, todo, seen, cycles, world>>

RecordFailure(r) ==
  LET f == target[r]
      n == feed[f].failures + 1
  IN
  /\ pc[r] = "failing"
  /\ Owns(r)
  /\ feed' = [feed EXCEPT ![f] = [@ EXCEPT
                 !.failures = n,
                 !.error = failure[r].code,
                 !.retryAt = failure[r].at + RetryDelay(n)]]
  /\ settled' = [settled EXCEPT ![f] = ticket[r]]
  /\ NextFeed(r)
  /\ UNCHANGED <<articles, todo, seen, cycles, world>>

DiscardFailure(r) ==
  /\ pc[r] = "failing"
  /\ ~Owns(r)
  /\ NextFeed(r)
  /\ UNCHANGED <<rows, todo, seen, cycles, world>>

EndCycle(r) ==
  /\ pc[r] = "looping"
  /\ todo[r] = {}
  /\ pc' = [pc EXCEPT ![r] = "idle"]
  /\ seen' = [seen EXCEPT ![r] = [f \in Feeds |-> NoTime]]
  /\ UNCHANGED <<rows, todo, attempt, cycles, world>>

(* The process dies, or the worker is told to stop, between two            *)
(* transactions.                                                           *)
Crash(r) ==
  /\ pc[r] # "idle"
  /\ crashes < MaxCrashes
  /\ crashes' = crashes + 1
  /\ pc' = [pc EXCEPT ![r] = "idle"]
  /\ todo' = [todo EXCEPT ![r] = {}]
  /\ seen' = [seen EXCEPT ![r] = [f \in Feeds |-> NoTime]]
  /\ target' = [target EXCEPT ![r] = NoFeed]
  /\ ticket' = [ticket EXCEPT ![r] = 0]
  /\ fetched' = [fetched EXCEPT ![r] = 0]
  /\ failure' = [failure EXCEPT ![r] = NoFailure]
  /\ UNCHANGED <<rows, cycles, published, now>>

----------------------------------------------------------------------------
(* DELETE of a feed writes is_active only; an OPML import of its URL       *)
(* writes is_active = True and columns no refresh decision reads.          *)
Deactivate(f) ==
  /\ feed' = [feed EXCEPT ![f].active = FALSE]
  /\ UNCHANGED <<articles, settled, refreshers, world>>

Activate(f) ==
  /\ feed' = [feed EXCEPT ![f].active = TRUE]
  /\ UNCHANGED <<articles, settled, refreshers, world>>

Publish(f) ==
  /\ published[f] < MaxVersion
  /\ published' = [published EXCEPT ![f] = @ + 1]
  /\ UNCHANGED <<rows, refreshers, now, crashes>>

Tick ==
  /\ now < MaxTime
  /\ now' = now + 1
  /\ UNCHANGED <<rows, refreshers, published, crashes>>

----------------------------------------------------------------------------
Init ==
  /\ feed = [f \in Feeds |-> [active |-> TRUE, generation |-> 0, failures |-> 0,
                              error |-> "none", retryAt |-> NoTime]]
  /\ articles = [f \in Feeds |-> 0]
  /\ settled = [f \in Feeds |-> 0]
  /\ published = [f \in Feeds |-> 0]
  /\ pc = [r \in Refreshers |-> "idle"]
  /\ todo = [r \in Refreshers |-> {}]
  /\ seen = [r \in Refreshers |-> [f \in Feeds |-> NoTime]]
  /\ target = [r \in Refreshers |-> NoFeed]
  /\ ticket = [r \in Refreshers |-> 0]
  /\ fetched = [r \in Refreshers |-> 0]
  /\ failure = [r \in Refreshers |-> NoFailure]
  /\ now = 0
  /\ cycles = [r \in Refreshers |-> 0]
  /\ crashes = 0

(* The steps of a running refresher.                                       *)
Work(r) ==
  \/ \E f \in Feeds : SkipFeed(r, f) \/ Claim(r, f)
  \/ Fetch(r) \/ FetchFails(r)
  \/ Superseded(r) \/ Reconcile(r) \/ ReconcileFails(r)
  \/ RecordFailure(r) \/ DiscardFailure(r)
  \/ EndCycle(r)

Next ==
  \/ \E r \in Refreshers : StartCycle(r) \/ Work(r) \/ Crash(r)
  \/ \E f \in Feeds : Deactivate(f) \/ Activate(f) \/ Publish(f)
  \/ Tick

Spec == Init /\ [][Next]_vars

(* A refresher that has begun a cycle keeps running: every transaction     *)
(* ends, and so does every fetch of a server that does not drip for ever.  *)
(* Nobody is obliged to begin one, a server to publish, or an editor to    *)
(* edit.                                                                   *)
FairSpec == Spec /\ \A r \in Refreshers : WF_vars(Work(r))

----------------------------------------------------------------------------
TypeOK ==
  /\ feed \in [Feeds -> FeedRow]
  /\ articles \in [Feeds -> Nat]
  /\ settled \in [Feeds -> Nat]
  /\ published \in [Feeds -> Nat]
  /\ pc \in [Refreshers ->
               {"idle", "looping", "fetching", "reconciling", "failing"}]
  /\ todo \in [Refreshers -> SUBSET Feeds]
  /\ seen \in [Refreshers -> [Feeds -> Nat \cup {NoTime}]]
  /\ target \in [Refreshers -> Feeds \cup {NoFeed}]
  /\ \A r \in Refreshers : Attempting(r) => target[r] \in Feeds
  /\ ticket \in [Refreshers -> Nat]
  /\ fetched \in [Refreshers -> Nat]
  /\ failure \in [Refreshers -> [code: ErrorCodes \cup {"none"}, at: Nat]]
  /\ \A r \in Refreshers : pc[r] = "failing" => failure[r].code \in ErrorCodes
  /\ now \in Nat
  /\ cycles \in [Refreshers -> Nat]
  /\ crashes \in Nat

(* A row shows an error exactly when it counts consecutive failures and    *)
(* exactly when it is backing off: no interleaving of a success, a failure *)
(* and a rollback leaves half of an older outcome behind.                  *)
StatusCoherent ==
  \A f \in Feeds :
    /\ feed[f].error = "none" <=> feed[f].failures = 0
    /\ feed[f].error = "none" <=> feed[f].retryAt = NoTime

(* Two attempts under way on one feed never hold the same generation, and  *)
(* the outcome of the newest one has not been persisted yet: this is what  *)
(* makes the generation a fence.                                           *)
OneOwner ==
  \A r, s \in Refreshers :
    Attempting(r) =>
      /\ Owns(r) => settled[target[r]] < ticket[r]
      /\ (r # s /\ Attempting(s) /\ target[s] = target[r]) => ticket[r] # ticket[s]

(* Why the fence works.  A generation in use was claimed, an outcome shown *)
(* belongs to a claimed generation, and the attempt that still owns its    *)
(* feed has fetched a document no older than the stored articles: it was   *)
(* fetched after the claim, hence after every earlier commit.              *)
FenceInv ==
  /\ \A f \in Feeds :
       /\ settled[f] <= feed[f].generation
       /\ articles[f] <= published[f]
  /\ \A r \in Refreshers :
       /\ Attempting(r) => ticket[r] <= feed[target[r]].generation
       /\ pc[r] = "reconciling" =>
            /\ fetched[r] <= published[target[r]]
            /\ Owns(r) => articles[target[r]] <= fetched[r]

(* The generation of a feed never decreases, as the docstring of           *)
(* _claim_refresh_attempt says.                                            *)
GenerationNeverDecreases ==
  [][\A f \in Feeds : feed'[f].generation >= feed[f].generation]_vars

(* However fetches overlap, the articles stored for a feed are never       *)
(* replaced by those of a document older than the one they came from.      *)
ArticlesNeverRegress ==
  [][\A f \in Feeds : articles'[f] >= articles[f]]_vars

(* Refresh leaves a backed-off feed alone: no attempt is claimed on a feed *)
(* whose stored next_retry_at is in the future.                            *)
BackoffRespected ==
  [][\A f \in Feeds :
       feed'[f].generation # feed[f].generation =>
         feed[f].retryAt = NoTime \/ feed[f].retryAt <= now]_vars

(* Every cycle that is begun ends, whatever the other refreshers do.       *)
CyclesEnd == \A r \in Refreshers : pc[r] # "idle" ~> pc[r] = "idle"

(* Once refreshers stop claiming (MaxCycles), every feed's row comes to    *)
(* show the outcome of the newest attempt on it, and stays so, unless a    *)
(* process died: the attempt it was making has no outcome.                 *)
NewestOutcomeShown ==
  <>[](crashes = 0 => \A f \in Feeds : settled[f] = feed[f].generation)

Status == INSTANCE FeedStatus WITH
  issued   <- [f \in Feeds |-> feed[f].generation],
  streak   <- [f \in Feeds |-> feed[f].failures],
  document <- articles

(* The rows implement the abstract status of module FeedStatus: only the   *)
(* newest attempt settles a feed, once, and the failure count is the       *)
(* length of the streak of failures since the last success.                *)
ImplementsStatus == Status!Spec
=============================================================================
