# Verification of Daily Firehose

Daily Firehose is a Django application that collects feeds, shows their articles by day,
week and month, and saves articles to a Linkding server. This directory holds TLA+ models of
its concurrent and crash-prone parts, TLC configurations that check them on small instances,
and theorems that TLAPS proves for every value of the constants. `PROJECT.json` lists the
components, runs, mutants, theorems and hazards, and the source lines each definition
translates. Paths below are relative to the repository; `services.py` and the like are under
`feeds/`.

## The system

| Component | State | Operations | What is hard |
| --- | --- | --- | --- |
| Feed refresh (`services.py:319-663`) | `Feed` rows: `is_active`, `refresh_generation`, `consecutive_failures`, `last_error_code`, `next_retry_at` | claim a generation, fetch, reconcile or record a failure; called by the worker, the browser, the API and `refresh_feeds` | cycles overlap; the fetch is outside any transaction; outcomes arrive late; the snapshot is stale |
| Article reconciliation (`services.py:403-492`) | `Article` rows, unique by (feed, guid) and (feed, url) | plan and apply one document | duplicate, reordered and re-labelled entries; a constraint in the middle of a plan |
| Feed editing (`api.py:894-974`, pages, discovery) | the same `Feed` rows | POST, PATCH, DELETE, OPML import | full-row saves of rows read earlier |
| Refresh worker and job lease (`jobs.py`, `run_refresh_worker.py`) | `JobRun` rows, the stop event | acquire with reclaim, heartbeat, finish, signal, health | a worker that outlives its lease; crashes; health that must notice silence |
| Saving and Linkding delivery (`services.py:1272-1598`, `deliver_saved_articles.py`) | `SavedArticle`, `LinkdingDelivery`, the remote bookmarks | save, unsave, requeue, drain | lost answers, retries, claims by compare-and-set, attempts without a claim |
| Read state and bulk markers (`commands.py`, `queries.py`) | `ArticleReadState`, `BulkReadMarker` | mark an article, a period or a feed | markers against articles committed later |
| Newsletters (`services.py:666-785`) | `NewsletterIssue`, a synthetic `Feed` | ingest a webhook call | retried calls, partial failure |
| OPML import and export, categories (`services.py:1024-1269`) | `Feed`, `Category` rows | import, export | the lock order of two importers |
| Signed single-use actions (`api.py:561-739`) | `SignedActionNonce` | spend a nonce, act | replay against purge and deadline |
| API tokens (`models.py:395-468`) | `ApiToken` | create, check, revoke | a command that fails between two writes |
| Recommendations (`recommendations.py`) | the cache | rank, look up | the key against the rows it stands for |
| Feed fetch (`feed_fetch.py`) | none | one HTTP exchange with redirect, size and address rules | sequential |
| Browser actions (`static/js/article-actions.js`) | cards, selection, status region | submit, fold, undo | answers in any order |
| Backups (`scripts/postgres_*.py`) | dumps, metadata, receipts, monitor state | upload, receive, retain, monitor, verify a restore | a crash between any two file operations |
| Settings, middleware, logging, health endpoints, pages, admin | - | - | reads and rendering |

Components meet in the database. The worker runs refresh cycles under its job lease and
drains deliveries between cycles; browser and API requests refresh, edit, save and unsave
beside it, in their own threads and transactions (no `ATOMIC_REQUESTS`), at PostgreSQL's
READ COMMITTED level with explicit row locks.

## Modules

| Module | Models | Extends / uses |
| --- | --- | --- |
| `FeedRefresh`, `FeedRefreshProofs` | refresh cycles of several refreshers on several feeds; theorems | - |
| `FeedStatus` | abstract specification of what a feed's row shows | implemented by `FeedRefresh` |
| `FeedEditing` | full-row saves composed with refreshing | extends `FeedRefresh`, proved in `FeedRefreshProofs` |
| `ArticleReconciliation`, `ArticleReconciliationProofs` | the identity plan of one feed, over a history of documents; theorems | - |
| `RefreshJob`, `RefreshJobProofs` | workers, job rows, leases and health; theorems | - |
| `JobLease` | abstract specification of the lease as a lock | implemented by `RefreshJob` |
| `LinkdingDelivery`, `LinkdingDeliveryProofs` | saves, deliveries, drains and the remote bookmark; theorems | - |
| `ReadState`, `MCReadState`, `ReadStateProofs` | read marks, bulk markers and a page resolved beside them; theorems | - |
| `NewsletterImport` | overlapping and retried webhook calls | proved in `RequestProofs` |
| `SignedAction` | nonces, purge and deadline of signed links | proved in `RequestProofs` |
| `OpmlImport` | locks, categories and rows of concurrent imports | proved in `RequestProofs` |
| `FeedFetch` | one download: targets, redirects, deadline, size | proved in `OperationsProofs` |
| `Recommendations` | the ranking, its cache and key, and the last filter | proved in `PageProofs` |
| `ArticleActions` | the cards of a page in the browser | proved in `PageProofs` |
| `BackupStore` | the backup receiver: uploads, receipts, retention and the sweep, with failures | proved in `OperationsProofs` |
| `BackupMonitor` | the hourly check of the receiver and its mails | proved in `OperationsProofs` |
| `RestoreVerification` | the restore drill | proved in `OperationsProofs` |
| `RetentionCapacity` | years of retention against the capacity plan | proved in `OperationsProofs` |
| `RequestProofs`, `PageProofs`, `OperationsProofs` | theorems about three, two and five small components | extend them |
| `MCComponents` | one instance of each of twelve components, for one run | extends them |

Operators named after a defect (`ClaimWithoutBump`, `ReconcileUnfenced`, ...) stand next to
the definition they would replace. They are the plausible bugs that show a property can
fail; no specification uses them.

### FeedRefresh

A refresher is a process or request thread inside `iter_refresh_active_feeds`. Its `todo`
and `seen` are the snapshot (`services.py:647`), `target` and `ticket` the feed and
generation of the attempt, `fetched` the document, `failure` the exception about to be
recorded. Steps are the code's transactions: the claim; the HTTP exchange and parse; the
reconciling transaction, which holds the row lock from its first statement and so is one
step with three outcomes (superseded, committed, rolled back); the record of a failure,
fenced again. Evaluating eligibility (`SkipFeed`, or the guard of `Claim`) reads only the
snapshot and the clock. A feed's iteration order is left open. `"none"` stands for the blank
error code; the other codes are represented by two that a fetch raises and one that
reconciliation raises. A document is the number of a published version and the stored
articles are represented by the version they came from; `settled` is a history variable: the
generation whose outcome the row shows.

### FeedEditing

`feed_detail_api` (PATCH) and `feed_collection` (POST of a known URL) read the row, possibly
make HTTP requests, and `feed.save()` every column. An editor is that pair of steps; the
refreshers of `FeedRefresh` go on in between. Only `is_active` is changed, the other fields
an editor may name are read by no refresh decision.

### ArticleReconciliation

Names are small numbers and 0 is a missing one. The loop over the entries is a step per
entry: `SkipEntry` (no URL), `RefuseEntry` (a contradictory match, or a guid, URL or article
that an earlier entry reserved), `PlanEntry` (match and reserve), in the order of the
document; `planned` holds the writes and with them what they reserve. `SortPlan` puts every
write at the place its key has among the others, and the plan is executed write by write.
`ExecuteNext` is enabled only while no uniqueness constraint fires, so that a clash would
also show as a deadlock. `Competing` and `IdentityConflict` are no part of the code: they
say at once, for the whole document and without its order, what the scan ought to decide,
and `ScanIsOrderFree` compares the two. Entries' texts and dates are left out.

### RefreshJob

Each worker is `down`, `waiting` or `cycling`; `status` is its newest `JobRun` row. Older
rows are final and only their newest success matters (`successAge`). Times are ages, capped
at `AgeCap`, which exceeds every threshold compared with them. `left` is the number of feeds
still to do and `busy` the time spent on the current one, bounded by `MaxFeedTime`, which is
an assumption: the fetch's timeouts bound its single waits, and `FeedFetch` says what that
leaves to resolver and server. The worker's own clock of the last beat and the row's
`heartbeat_at` are one variable, since the code sets them together. The `--once` flag ends
the process after a cycle: to the others that is a worker that dies while it waits
(`Crash`).

`JobLease` is the same without clocks: who is at work and what is recorded of each run. A
claim needs that nobody is at work and writes "interrupted" into the runs left "running";
the owner completes its own run or goes without a word. In the code nobody knows who is at
work, there are only ages to judge by; `Lock` maps `atWork` to the worker that is inside its
cycle, and `ImplementsLease` says that the judgement is right.

### LinkdingDelivery

One delivery per (user, article). `row` is the `LinkdingDelivery`, with `next_attempt_at` as
the time left; `shown` the two fields projected on the `SavedArticle`; `bookmarked` what
Linkding holds, modelled from how the code uses it (posting a URL it has updates that
bookmark). `Save` commits intent and owed delivery and goes on to attempt it without a
claim; drainers list, claim by compare-and-set and attempt. `unchanged[r]` are the listed
deliveries whose schedule nobody rewrote, which is what the compare-and-set tests. An
attempt is lookup (from the second on), post, record, projection, each a step; `alive` says
whether its row still exists. Every error class is either retryable or final. The order and
limit of a drain, notes, interest scores and the refusal to save newsletters are left out.
`undisturbed` is history read by `DrainersExclude` only; `made`, `strays` and `lone` are
history for `AttemptsWithinBudget`. `made` counts the attempts begun since the last save or
requeue of a delivery, whatever the program counts, and `strays` those of them that the
program's count can miss: begun while another attempt was under way, or dead before they
recorded. `lone` says whose attempt began with no other under way, so that its death makes
it a stray, once. `MaxAttemptTime` is an assumption: a request's timeout bounds a wait, not
the answer.

### BackupStore

The receiver's directory, at the level of its file operations. `dumps`, `metadatas` and
`receipts` are the ids whose file has its final name, `dumpAt` and `metadataAt` their
modification times, `parts` the temporary files, `counter` the sequence file (0 when a crash
left it empty). `step` is where the holder of the receiver lock stands: a put goes
`receiving`, `linked`, and for metadata on to `stamped`, `counting`, `counted`,
`receipt_written`, `receipt_linked`; a maintenance pass deletes the pairs of `doomed` one
file at a time and then sweeps stale temporary files and unreceipted pairs. The holder can
die between any two steps, and an upload or an fsync can fail. A dump can go bad while
nobody works on it, which makes its pair invalid. `client` is how far the uploading run has
come; it never retries, and its metadata may come at any time or not at all. `received`,
`receivedAt` and `sequenceOf` keep the receipts' contents after deletion, as history. ZFS
orders operations, so a power failure is a death at an earlier step. `Expired` is
`retention_partition` as a set: taking the newest pair out of the buckets changes nothing
for the others, since it displaces none of them. Days, weeks and months are stretches of
`DayLength`, `WeekLength` and `MonthLength` ticks; time passes between operations and during
uploads, the only steps long enough to matter. `read` and `health` change nothing and are
left out, as are the checks of path, mount, file type and command line.

### ReadState

One reader. `fetched` is the time of an article's insert, `committed` says whether its
transaction has committed; the two differ, because `fetched_at` is taken at the insert.
`explicit` and `markedAt` are the two tables. A bulk mark takes its cutoff (`BeginMark`),
lists the articles up to it in a transaction (`SelectArticles`) and commits their states and
its marker (`CommitMark`) or rolls back. `MarkerTime` is what `update_or_create` stores: the
cutoff in an existing row, the time of the insert in a new one, whose column is
`auto_now_add`. `IsRead` is the effective read state. A page is three statements: the bounds
of its articles, the markers that can apply between them (`Candidates`), the rows. `said`,
`reported`, `answered` and the three `...All` sets are history. The archived and the saved
list, single queries, are left out.

### NewsletterImport

Each call of the webhook is an attempt that goes through the statements of
`import_postmark_newsletter`. The rows of its transaction become visible at `Commit`; until
then an insert of the same key by another attempt waits, as in PostgreSQL, and then fails or
goes on. After an `IntegrityError` the committed winner is read again. An attempt can break
at every step. How a payload becomes fields is left out.

### SignedAction

A use checks signature and deadline with the time it reads once (`Check`), purges the nonces
expired by that time, inserts its nonce and acts. Links are unforgeable names.

### OpmlImport

`Names` and `FeedUrls` are numbers in the order the code sorts them; `KeyOf` gives the
advisory lock of a name, `SlugOf` its slug, not injective, `suffix` the `-2`, `-3` the code
appends. What an import has made or written is its own until `CommitImport`; others wait for
it. The detector's victim is one of the failures (`FailImport`). `PostCategory` is the API
beside the imports: no lock, an arbitrary slug, refused when name or slug exist. The XML
rules beyond conflicting outlines are left out.

### FeedFetch

`Form` is what can be said of a URL without DNS. The deadline is looked at where the code
looks at it, between blocking calls; it interrupts none. A call takes longer than one
timeout: `session.send` resolves the name again, which has no timeout, gives each of the
addresses the whole connect timeout, does the TLS handshake and reads the answer (of a
redirect, its body too) in pieces, each with the read timeout; a chunk of the body comes in
pieces as well. `SendTime` and `ReadTime` add that up. What the code leaves to resolver and
server, the time of a resolution, the addresses of a name and the pieces of an answer, are
the bounds `ResolveTime`, `MaxAddresses` and `MaxReads`. A kept-alive connection makes a
send shorter, which the model allows. Exceptions and refusals end in their `FeedFetchError`
code.

### Recommendations

The rows' times are numbers of writes, so that a later write has a later stamp, except for a
bulk mark, which is stamped before it commits. A request reads the fingerprint, looks the
ranking up or reads saves, reads and documents in three statements, ranks and stores, and
leaves out what was saved or read since in two more. Scores, and therefore the order of a
ranking and the articles that diversity selects, are left open; so are the words that may
fail to exist. The statements that make the fingerprint are one step. Its feed, category and
bulk-marker columns are left out. `dismissed` is history: the articles saved, and those
read, in every state of the request. They are two sets because the last filter is two
statements (`recommendations.py:527-539`): an article that is saved when the one looks at
the reads, and read, no longer saved, when the other looks at the saves, is shown, although
it was never open. TLC finds that on a longer clock; the property claims no more than the
code.

### ArticleActions

`slots` is the DOM: a card, or the comment the removed card left. The index of the selected
card and the class that shows it are two variables (`selected`, `highlighted`), because the
script keeps them apart. `Submit` is the handler up to its await; `Handle` is the server;
`Show`, `ShowError` and `RemoveCard` are what follows the answer. `pending` is the guard of
a form. The status region, its timer and its Undo button are shared by all cards. Time is
order only. Focus, copying, the other pages and the feed list are left out.

### BackupMonitor, RestoreVerification, RetentionCapacity

A check of the monitor is `Inspect`, `Notify`, `Store`, each of which it may not reach: the
mail goes out before the state is stored. Receipts may be dated ahead of the clock.
`RestoreVerification` is the body of `main`: twelve steps of which four create something,
any of which can fail before or after its effect or be interrupted, then removal in the
order of `RemovalOrder` and the evidence. `RetentionCapacity` runs the receiver's retention
on the calendar, event by event: the backups of the timer unit's hours, a pass a day,
starting from each weekday; after the first state it is deterministic. A point is the hour
of its receipt, and `pinned` holds the deleted points with the pass that deleted them, until
the snapshots of that day have expired. Years have 365 days: a leap year makes one February
a day longer, and of the months the proof below uses only that none is longer than 31 days
and that 275 days touch at most eleven.

## Runs

| Run | Instance | Result |
| --- | --- | --- |
| `FeedRefresh` | 1 feed, 2 refreshers, 2 cycles each, 1 clock step, 1 new document, 1 crash | holds (257 000 states) |
| `RefreshJob` | 2 workers, 3 feeds, lease 5, heartbeat 2, feed time 2 | holds (7 400 states) |
| `LinkdingDelivery` | 1 delivery, 1 saver with 1 save, 2 drainers, 1 requeue, 1 crash, budget 2, under fairness | holds (265 000 states) |
| `ReadState` | 2 articles of 2 feeds, 2 periods, 2 marks, 2 instants, 3 requests, page limit 1 | holds (1 878 000 states) |
| `BackupStoreFaults` | 3 backups, 2 days, 1 fault, 1 rotten dump, under fairness | holds (559 000 states) |
| `Components` | twelve components in thirteen instances, below | holds (1 247 000 states) |
| `FeedRefreshStaleBackoff` | 2 refreshers, 1 cycle each | `BackoffRespected` is violated |
| `FeedEditingFence` | 1 feed, 2 refreshers, 1 editor, 2 edits | `GenerationNeverDecreases` is violated |
| `LinkdingDeliveryFirstAttempt` | 1 saver, 1 drainer, 1 save | `FirstAttemptIsFirst` is violated |
| `LinkdingDeliveryMirror` | the same, without crashes | `MirrorAgrees` is violated |
| `ReadStateLateArrivals` | as `ReadState`, 1 request | `LaterArrivalsUnread` is violated |
| `RetentionCapacityRange` | the real calendar, up to 800 days | `RetainedRange` is violated |

`Components` checks the components that are best looked at alone. `focus` chooses one; its
actions are the only ones, the variables of the others do not move. The states of the
components add up, they do not multiply, and every behaviour of a component in its own
instance is a behaviour of the run. Deadlock is not checked in it: a download or a drill
ends. The instances:

| Component | Instance | Properties |
| --- | --- | --- |
| `ArticleReconciliation` | 3 names; documents of up to 2 entries with or without id, link and alternate link, and of 3 complete entries under 2 links | `PlanNeverClashes`, `Idempotent`, `ScanIsOrderFree`, `IdentityKept` |
| `FeedEditing` | 1 feed, 2 refreshers with 1 cycle, 1 editor, 2 edits | `StatusCoherentUnderEdits` |
| `FeedFetch` | a URL of every form, 2 redirects, timeouts of 1 against a deadline of 4, resolutions up to 2, 2 addresses, 2 reads a call, 3 bytes | `FetchBounded` |
| `OpmlImport` | 2 importers, 2 URLs, 3 names of which 2 share a slug, all documents of 1 or 2 outlines; the API takes that slug first, for 1 of 2 names; the importers are interchangeable, so the second has the greater document | `DeadlockOnlyAtOdds`, `SerialOutcome` |
| `NewsletterImport` | 3 calls, 2 messages | `StoredOnce` |
| `SignedAction` | 3 uses, 2 links with deadlines 1 and 2, lifetime 2, time to 3 | `SpentOnce` |
| `Recommendations` | 3 articles, 2 of them copies, 1 write; 2 copies, 2 writes; 1 cache entry | `DismissedNeverShown`, `KeyStandsForCorpus` |
| `ArticleActions` | 3 cards, 2 submitted forms, any number of moves and undos | `KeysActOnHighlighted`, `PageAgrees` |
| `BackupMonitor` | severities one hour apart, reminder after 2, time to 4 | `AdministratorsKnow` |
| `RestoreVerification` | 2 failed removals besides any failed or interrupted step | `DrillCleansUp` |
| `BackupStore` | 3 backups, week 2 days, month 3, tiers end at 0, 1, 3 and 5 days, 5 days, 1 rotten dump, no faults | `TierPointsKept`, `NewestSurvives` |
| `RetentionCapacity` | 760 days from every weekday, the code's numbers | `PlanIsEnough` |

Why the bounds are enough. Feeds do not interact (a claim touches one row), so one feed
shows every race; two refreshers with two cycles each give up to four generations and a late
outcome on either side of a newer one. Three names are the fewest with which an entry can
match one row by guid and another by URL while a third is free. Two workers are the fewest
that can exclude each other, three feeds the fewest with a heartbeat that is neither first
nor last. A budget of two has a first attempt, a retry and an exhausted one; two drainers
and one saver are the parties that can meet on a delivery. The delivery run has one save,
because a second one with liveness exceeds what a run may take; its safety properties are
proved for any number of saves. Two articles of two feeds and two overlapping periods give
every pair of scopes that covers none, one or both of the articles; two marks are the fewest
that commit out of the order of their cutoffs; a page limit of one makes a page that has
more. Two importers and two feeds are the fewest that can wait for each other; three names
have two with a common slug and one without. Three calls are a winner, a loser that waited
and a retry after both. Three cards have one before and one after the card that goes. Three
backups are the newest, a first of its bucket and one it displaces; five days take a point
through every tier. With three backups one fault can empty the sequence file between two
receipts. The two instances of `BackupStore` divide it: the one has the calendar and no
faults, the other the faults and a short calendar. 760 days are a year in which the tiers
fill and a whole year in the steady state.

Every counter in a guard (`MaxCycles`, `MaxTime`, `MaxVersion`, `MaxCrashes`, `MaxEdits`,
`MaxSaves`, `MaxRequeues`, `MaxRequests`, `MaxWrites`, `MaxSubmits`, `MaxBackups`,
`MaxFaults`, `MaxRotten`, `Horizon`, `MaxDay`) is a bound of the instance, not of the code.
Deadlock is checked in `RefreshJob`, `BackupStoreFaults` and `FeedRefresh`, whose systems
never stop. It is switched off for deliveries and reads: users may simply stop.

### Fairness

- `FeedRefresh`: a refresher that began a cycle goes on: every transaction ends, and so does
  every fetch, as long as the resolver answers and a server that drips stops some day
  (`FeedFetch`). Nobody has to begin a cycle, publish or edit.
- `RefreshJob`: time passes, and a live worker gets on with its cycle (`ClockSpec`).
  `CrashedRunReclaimed` also assumes `Supervised`: the supervisor restarts processes
  (`restart: unless-stopped` in `docker-compose.yml`), and a worker that reaches its claim
  again and again does not die before every one. `SilenceIsReported` does not need it: it is
  about the case where nobody restarts anything.
- `LinkdingDelivery`: attempts end (both requests time out when Linkding is silent), the
  worker drains after every cycle, time passes. Users need not save.
- `BackupStore`: cron starts maintenance daily, an operation that runs ends, time passes.
  That an upload ends is a property of the ssh session: the receiver reads it without a
  timeout, under the lock. Clients need not upload or come back.
- The other specifications state safety only and assume none.

### Disagreements between code and documentation

1. `BackoffRespected`: a cycle decides on the `next_retry_at` it read when it began, so an
   overlapping cycle attempts a feed that is backing off
   (`docs/features/contracts.md:393-395`). `BackoffHoldsWithoutOverlap` proves that overlap
   is the only cause.
2. `GenerationNeverDecreases`: a PATCH or POST that saves the whole row rolls the generation
   back (`services.py:341`). While that is so, the fence theorems hold only between such
   edits; `StatusCoherentUnderEdits` shows what survives them.
3. `FirstAttemptIsFirst`: an attempt counted as the first may follow one that created the
   bookmark (`docs/features/contracts.md:288-289`). With Linkding's upsert by URL this
   overwrites the bookmark instead of adopting it.
4. `MirrorAgrees`: two attempts on one delivery leave the saved article showing the outcome
   the delivery does not have (`services.py:1530`). So does a death between record and
   projection, and so does a requeue, which writes the delivery only.
   `MirrorHoldsUndisturbed` proves that there is no fourth cause.
5. `LaterArrivalsUnread`: the first mark of a scope stores the time of the marker's insert
   instead of its cutoff, because `marked_read_at` is `auto_now_add` (`models.py:320`). An
   article fetched between the two, which the mark did not select and its answer does not
   count, is hidden (`docs/features/contracts.md:164-165`). `NewArrivalsUnread` shows that
   nothing fetched after the mark's commit is.
6. `RetainedRange`: in the steady state of two backups a day retention keeps 53 to 57
   points, not the 56 to 60 of `docs/operations/postgresql-backups.md:75-76`. The plan's
   upper bound is nevertheless safe (`PlanIsEnough`): up to 29 points deleted in the last 14
   passes stay pinned by snapshots, one more than the 28 planned for, but together with the
   points on disk they stay below the plan's total. `PlanIsAlwaysEnough` and
   `PointsAreBounded` prove that bound and the 60 for histories of any length.

The retry budget is promised in attempts made: "retried ... until this many attempts have
been made" (`daily_firehose/settings.py:419-421`, SAVE-INV-005 in
`docs/features/contracts.md:256-261`). The code keeps it in the attempts it counts, and it
counts from the row an attempt read. With a budget of 2 and nobody dying, a save posts
(counted 1), a drainer that listed the delivery meanwhile claims it and posts (counted 1
too), both fail and record, and the next claim posts a third time (counted 2). An attempt
whose process dies is not counted at all. `AttemptsWithinBudget` is what is true: every
attempt beyond the budget is made up for by one that began while another was under way or by
one that died. TLC refutes the bound without `strays`, with crashes and without.

"A slow run is never stolen" (`README.md:328-329`) is true under a condition: the heartbeat
comes only after a feed's result, so a heartbeat interval and the slowest feed must fit into
the lease. The settings check only that the heartbeat is shorter than the lease. With the
defaults (60 s, 900 s) a feed may take 14 minutes.

A message whose insert lost its race and whose winner was then never committed would be
answered with a conflict; `StoredOnce` shows that this cannot happen, since the loser waits
for the winner. Two imports can still deadlock when they disagree on the category of a feed,
which orders its row differently, or when two names share a slug; the comment of
`_lock_category_names` claims no more than `DeadlockOnlyAtOdds`. A signed link whose request
stalls past its deadline between check and insert can act a second time after another
request's purge; `SpentOnce` is therefore about the time up to the deadline.

A worker that dies and is restarted faster than the heartbeat age keeps the health check
green with fresh running rows and no finished cycle; no document says otherwise.

`docs/operations/postgresql-backups.md:292-294` promises the earliest point of every day,
week and month bucket. For days and weeks that is `TierPointsKept`. The first point of a
month is kept only if it is also the first of its ISO week: when the week began in the month
before and has an earlier point there, the weekly tier deletes it.

## Proofs

TLAPS checks the eight modules `...Proofs`, from the named assumptions on the constants, one
per module (`ConstantsAssumption`, `SettingsAssumption`, `DeliveryAssumption`,
`ReconcileAssumption`, `ReadAssumption`, `NewsAssumption`, `LinkAssumption`,
`OpmlAssumption`, `FetchAssumption`, `RankAssumption`, `CardAssumption`, `PolicyAssumption`,
`MonitorAssumption`, `DrillAssumption`, `CapacityAssumption`), for any number of feeds,
refreshers, workers, deliveries, articles, documents, requests, importers, cards and backups
and any values of the bounds. The assumptions say what the constants are (numbers, finite
sets, which name has which key). Where they compare numbers, the code's values satisfy them:
a backoff base is at most its cap, a heartbeat comes more often than a lease ends, an
attempt is shorter than a claim's lease, a tier ends no later than the next.

- **The fence.** `OneOwner` is not inductive: that an owner's outcome may be written says
  nothing about other attempts. The invariant `Fence` adds `FenceInv`: generations shown and
  held are at most the row's, tickets on one feed differ, and the owner's document is at
  least as new as the stored articles, because it was fetched after the claim and therefore
  after every earlier commit. From it follow `AttemptsOwnTheirFeed` (`OneOwner`),
  `NoRegress` and `Refinement` (every step is a step of `FeedStatus` or stutters).
  `StatusIsCoherent` and `GenerationIsMonotonic` need only the type invariant.
  `BackoffHoldsWithoutOverlap` is about behaviours in which no two cycles overlap:
  `SnapshotInv` says that a cycle's snapshot is then current for every feed it has yet to
  reach, since only its own attempts write schedules and each comes after the feed is done.
- **Edits.** `EditsKeepStatusCoherent`: a draft is a copy of a coherent row, so writing it
  back, however late, leaves a coherent row. Generations may go back meanwhile, so the proof
  uses no fence; it takes the type of what editors hold besides `StatusCoherentUnderEdits`
  itself.
- **Reconciliation.** `ScanInv` says what holds when some of the entries are read: no two of
  them compete, none contradicts a row, and each usable one has its write. The plan is then
  sorted, and the proof needs to know that sorting loses and repeats nothing: no two writes
  that keep apart have one key, so the places of n writes are the numbers from 1 to n
  (`SortedOrders`, `SortedPlan`). `ScanDecidesAsOne` follows: the scan, which compares an
  entry with the earlier ones only, decides what a comparison of all of them does. `PlanInv`
  says of the writes still to come what every one of them needs, independent of the others:
  its target stands where the plan found it (`Targets`), none meets a constraint as the rows
  are now, and any two keep apart (`Apart`). Executing one disturbs none of the rest, hence
  `PlansNeverClash`. The entry of every executed write is stored (`Names`), so the same
  document plans nothing new: `RepeatingIsNoOp` by `WriteInv`.
- **The lease.** Under `FeedFitsLease` (heartbeat interval + time of a feed <= lease)
  `LeaseInv` is inductive: a worker inside its cycle holds the newest running row and its
  silence is below the heartbeat interval plus the time at its feed. Exclusion,
  `NeverStolen` and `OutcomesAreFinal` follow; `LiveCyclesAreHealthy` also assumes that the
  same sum fits into the heartbeat age plus one. `LeaseIsALock` is the refinement of
  `JobLease` under the same condition: acquiring is `Claim`, finishing is `Complete`, a
  death inside a cycle is `Abandon`, and every other step stutters.
- **Deliveries.** `RowStep`, `AttemptStep` and `ListStep` say how a step can change a row,
  an attempt and a listing; `ConstraintsHold`, `AttemptsAreBudgeted` and `SuccessIsTrue` are
  inductions over them and do not assume that drainers exclude each other. For
  `AttemptsAreBudgeted`, `CountIsKept` bounds what the program counts, and `Counted` relates
  it to what is made: less the strays, the attempts made are at most the row's count, or one
  more while a lone attempt is under way, and never more than the count any attempt under
  way carries. `DrainersAlwaysExclude` rests on `AloneInv`: an undisturbed claim has pushed
  the schedule out by the lease, less the time the attempt has taken; the delivery is
  therefore not due, nobody can list it, and the claims of those who listed it before match
  no row. `DeliveryAssumption` says that an attempt is shorter than the lease.
  `MirrorHoldsUndisturbed` is about behaviours without overlap, death and requeue
  (`Undisturbed`; TLC refutes it when any one of the three is dropped). `MirrorInv` adds to
  `MirrorAgrees` that a projection under way carries what the row says, and that an attempt
  whose row is gone is on an absent delivery.
- **Read state.** `ReadInv` says that a command on an article always ends in an explicit row
  (`said = explicit`), that a marker is no later than the commit of the last mark of its
  scope, and that an open mark has its cutoff behind it and lists what was in view when it
  began. `CommandsAlwaysHold` and `NewArrivalsStayUnread` follow. `PageInv` carries a page
  through its three statements: a bounded page has the time of every article that was read
  all the while, and the markers of a narrowed page decide those articles, and the open
  ones, as all markers would (`CandidatesSuffice`). `PagesAreHonest` follows; that a page of
  at most the limit is complete uses that the articles are finitely many.
- **Newsletters.** `ImportInv`: an attempt that holds the article of a message is alone with
  it and has found no committed row, and a re-read happens only after a committed winner.
  `NewslettersStoredOnce` follows.
- **Signed links.** `NonceInv`: a request's time is never ahead of the clock, so a purge
  removes only nonces whose deadline has passed. `LinksAreSingleUse` follows.
- **OPML imports.** `OpmlInv` says how far an active import has come through its sorted
  keys, names and rows (`Progress`) and that no key, slug or row is held by two
  (`Disjoint`). `SerialOutcome` is a conjunct; the step that needs the others is the commit.
  For `DeadlocksAreAtOdds` take a circle of waiting imports, no two of them at odds. None
  waits for a slug: its holder would have the lock of the same name, or a name with the same
  slug (`FilersDoNotWait`). A writer waits for a writer that is at a later feed
  (`WritersAscend`), a locker for one that is at a greater key (`LockersAscend`). Importers
  are finitely many (`FirstExists`), so the circle has no writer, and then no locker.
- **Downloads.** `FetchInv`: the time is looked at between any two blocking calls, so that
  it passes the deadline by less than one of them, of which a send is the longest
  (`SendIsLongest`); only the end of a body makes a document, and a body is read only before
  the deadline. From it `DownloadsAreBounded`, for any number of redirects, any limits and
  any time that resolver and server take.
- **Pages.** `PageInv` is `KeysActOnHighlighted`, the types, and per article `CardAgrees`,
  which is stronger than `PageAgrees`: a mark is under way only while its form is locked and
  no Undo is offered or under way, an Undo knows what is in the card's place, and a fold
  under way means that the server has answered. Every step of a form touches one article, so
  `CardsKept` looks at one card at a time.
- **Recommendations.** `RankInv` says that a request that no write has raced holds the
  present key and rows (`PageFaithful`), that what was saved or read all the while is so now
  and gone from what the filters left (`DismissedStill`), and that nothing kept or shown has
  two copies (`CopiesDropped`). `EntryFaithful` is what survives of a cached entry when rows
  change: later rows have later stamps, no save is lost unless the saves are fewer, and a
  row with an old stamp is as it was. When the key is the present one again, that leaves
  only the present rows (`EntryStands`), hence `KeysStandForTheirRows`.
- **The monitor.** `StateTellsMail` ties the stored state to the last mail and holds until a
  check that mailed fails to store, or the state is lost; `MonitorInv` carries a check over
  the two steps between which it can die. `AdministratorsAreInformed` follows.
- **The drill.** `DrillInv`: while it works, the drill knows all it has created and has made
  exactly the checks of the steps behind it; from then on what is left is on its list,
  unless a command failed after creating something or a removal failed on its own. No
  removal is refused because of the order (`NothingInUse`). `DrillsCleanUp` follows.
- **Retention capacity.** `CapacityInv` says that the history decides: the points on disk
  are the receipts that survive the last pass by themselves (`Survives`: a week old at most,
  or the first of their day, of their week, or of the firsts of weeks of their month in
  their tier), whatever earlier passes deleted. A first of its bucket stays until its tier
  ends, so a pass that sees only what is left picks the same ones. A pinned point survived
  the pass before the one that deleted it. `PlanFromInvariant` counts: all points since a
  week before the last pass, and at most 23 firsts of a day, 10 of a week and 11 of a month,
  each by an injection into an interval of day, week or month numbers. With B backups a day
  and snapshots of P days that is 8B + 44 points on disk, and B points for each of the P
  days pinned besides them. The two backups of the timer make it 60, which is
  `RETAINED_POINTS_MAX`.

Only model-checked: everything temporal under fairness (`CyclesEnd`, `NewestOutcomeShown`,
`CrashedRunReclaimed`, `SilenceIsReported`, `OwedIsSettled`, `LeftoversSwept`), which is out
of the prover's reach. Every invariant and every other action property of the passing runs
is a theorem. The type invariants state the types for the reader; the runs do not list them.
`TypeCorrect` in four modules and `YearsTyped` prove five of them, and the invariants above
contain the others they need.

## Not modelled

- Metadata discovery of a new feed and the feed list page, the order and limit of a drain,
  notes and interest scores, the OPML export (a read).
- API tokens: a check is one lookup; the creating command is sequential.
- Scores and diversity of recommendations: floating point, any result is allowed here.
- Rendering, sanitising, preferences, admin and redirects: reads and single-row writes.
- Deletion of feeds, which only the admin offers: the feeds of a model are constants.
- Logging, middleware and settings, which are constants here; taking and validating a dump;
  path, mount and command-line checks; migrations, tests and documentation tooling.

## Plan

1. Abstract specifications for deliveries (what a reader is promised of a saved article) and
   for reconciliation (the articles a document stands for), with refinements proved.
2. The remaining type invariants as theorems of their own.
3. A run of `BackupStore` for the first points of months; metadata discovery composed with
   `FeedEditing`; the oldest-first order of a drain.
