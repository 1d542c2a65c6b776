------------------------------ MODULE ReadState ------------------------------
(***************************************************************************)
(* Which articles one reader still sees (feeds/commands.py and             *)
(* feeds/queries.py): explicit states of single articles, bulk markers of   *)
(* feeds and periods, the effective read state, and a page that resolves    *)
(* it in several statements while marks, saves and refreshes go on.  Rows   *)
(* belong to a user and users do not meet, so there is one.                 *)
(***************************************************************************)
EXTENDS Naturals, FiniteSets

CONSTANTS
  Articles,
  Feeds,
  FeedOf,        \* [Articles -> Feeds]
  Periods,       \* the [first, last] days a period may be marked or shown for
  Marks,         \* requests that mark a feed or a period read
  DayLength,     \* ticks of a day
  PageLimit,     \* DIGEST_ARTICLE_LIMIT, FEED_ARTICLE_LIMIT
  MaxTime,       \* bound of the clock
  MaxRequests,   \* bound of the reader's requests
  NoTime         \* a NULL time

ASSUME ReadAssumption ==
  /\ FeedOf \in [Articles -> Feeds]
  /\ Periods \subseteq [first: Nat, last: Nat]
  /\ DayLength \in Nat \ {0} /\ PageLimit \in Nat \ {0} /\ MaxTime \in Nat
  /\ MaxRequests \in Nat
  /\ NoTime \notin Nat
  /\ IsFiniteSet(Articles)

VARIABLES
  clock,
  requests,      \* requests the reader has begun
  fetched,       \* Article.fetched_at, NoTime before its insert
  committed,     \* articles whose refresh has committed
  explicit,      \* ArticleReadState.is_read of each article, if it has a row
  saved,         \* articles with a SavedArticle row
  markedAt,      \* BulkReadMarker.marked_read_at by scope, NoTime without a row
  mark,          \* the marking requests
  page,          \* a request for a page
  said,          \* history: what the last committed command said of an article
  reported,      \* history: the latest cutoff a mark of a scope reported
  answered,      \* history: when a mark of a scope last committed
  openAll,       \* history: open articles since the page request began
  readAll,       \* history: read ones since then
  savedAll       \* history: saved ones since then

vars == <<clock, requests, fetched, committed, explicit, saved, markedAt, mark, page,
          said, reported, answered, openAll, readAll, savedAll>>

Times == 0..MaxTime
States == {"none", "read", "unread"}

(* The logical markers: unique_bulk_feed_marker, unique_bulk_period_marker. *)
Scopes == [feed: Feeds] \cup Periods
IsFeed(k) == k \in [feed: Feeds]

Day(t) == t \div DayLength

(* articles_between, and the Feed filter of mark_feed_read and feed_detail. *)
InScope(k, a) ==
  IF IsFeed(k) THEN FeedOf[a] = k.feed
               ELSE Day(fetched[a]) \in k.first..k.last

Shelf(k) == {a \in committed : InScope(k, a)}

Latest(t, u) == IF t = NoTime \/ t < u THEN u ELSE t

Within(a, times) ==
  \E k \in Scopes : InScope(k, a) /\ times[k] # NoTime /\ fetched[a] <= times[k]

-----------------------------------------------------------------------------
(* Effective read state.  A marker is a scope and its time. *)

Markers == {<<k, markedAt[k]>> : k \in {j \in Scopes : markedAt[j] # NoTime}}

(* Plausible bug: a marker reaches forward in time. *)
CoveredForward(a, ms) == \E m \in ms : InScope(m[1], a)

Covered(a, ms) == \E m \in ms : InScope(m[1], a) /\ fetched[a] <= m[2]

IsRead(a, ms) ==
  /\ explicit[a] = "read" \/ Covered(a, ms)
  /\ explicit[a] # "unread"

Open == {a \in committed : ~IsRead(a, Markers) /\ a \notin saved}
Read == {a \in committed : IsRead(a, Markers)}

(* Plausible bug: a marker has to be newer than every article shown. *)
CandidatesOfNewest(shelf, earliest, latest) == {m \in Markers : m[2] >= latest}

(* The markers that could apply to some article of a page, chosen by the    *)
(* oldest and the newest of them, and by the feeds there are now.           *)
Candidates(shelf, earliest, latest) ==
  {m \in Markers :
     /\ m[2] >= earliest
     /\ IF IsFeed(m[1]) THEN m[1].feed \in {FeedOf[a] : a \in shelf}
                        ELSE m[1].first <= Day(latest) /\ m[1].last >= Day(earliest)}

-----------------------------------------------------------------------------
IdleMark == [step |-> "idle"]
IdlePage == [step |-> "idle"]

Init ==
  /\ clock = 0 /\ requests = 0
  /\ fetched = [a \in Articles |-> NoTime]
  /\ committed = {}
  /\ explicit = [a \in Articles |-> "none"]
  /\ saved = {}
  /\ markedAt = [k \in Scopes |-> NoTime]
  /\ mark = [p \in Marks |-> IdleMark]
  /\ page = IdlePage
  /\ said = [a \in Articles |-> "none"]
  /\ reported = [k \in Scopes |-> NoTime]
  /\ answered = [k \in Scopes |-> NoTime]
  /\ openAll = {} /\ readAll = {} /\ savedAll = {}

history == <<said, reported, answered>>
states == <<explicit, saved, markedAt>>

Request == requests < MaxRequests /\ requests' = requests + 1

Tick ==
  /\ clock < MaxTime
  /\ clock' = clock + 1
  /\ UNCHANGED <<requests, fetched, committed, states, mark, page, history>>

(* A refresh or a newsletter inserts the article: auto_now_add. *)
Insert(a) ==
  /\ fetched[a] = NoTime
  /\ fetched' = [fetched EXCEPT ![a] = clock]
  /\ UNCHANGED <<clock, requests, committed, states, mark, page, history>>

(* Its transaction commits, and the article can be seen. *)
Publish(a) ==
  /\ fetched[a] # NoTime /\ a \notin committed
  /\ committed' = committed \cup {a}
  /\ UNCHANGED <<clock, requests, fetched, states, mark, page, history>>

Save(a) ==
  /\ Request
  /\ a \in committed \ saved
  /\ saved' = saved \cup {a}
  /\ UNCHANGED <<clock, fetched, committed, explicit, markedAt, mark, page, history>>

Unsave(a) ==
  /\ Request
  /\ a \in saved
  /\ saved' = saved \ {a}
  /\ UNCHANGED <<clock, fetched, committed, explicit, markedAt, mark, page, history>>

MarkArticle(a, state) ==
  /\ Request
  /\ a \in committed
  /\ explicit' = [explicit EXCEPT ![a] = state]
  /\ said' = [said EXCEPT ![a] = state]
  /\ UNCHANGED <<clock, fetched, committed, saved, markedAt, mark, page,
                 reported, answered>>

(* mark_period_read, mark_feed_read: the cutoff is taken ... *)
BeginMark(p, k) ==
  /\ Request
  /\ mark[p].step = "idle"
  /\ mark' = [mark EXCEPT ![p] = [step |-> "begun", scope |-> k, cutoff |-> clock,
                                  promised |-> Shelf(k)]]
  /\ UNCHANGED <<clock, fetched, committed, states, page, history>>

(* ... a transaction lists the articles up to it ... *)
SelectArticles(p) ==
  /\ mark[p].step = "begun"
  /\ mark' = [mark EXCEPT ![p] =
                [step |-> "selected", scope |-> mark[p].scope, cutoff |-> mark[p].cutoff,
                 promised |-> mark[p].promised,
                 ids |-> {a \in Shelf(mark[p].scope) : fetched[a] <= mark[p].cutoff}]]
  /\ UNCHANGED <<clock, requests, fetched, committed, states, page, history>>

(* What update_or_create stores: the cutoff in a row that exists; a new row *)
(* gets the time of its insert, since the column is auto_now_add.           *)
MarkerTime(k, cutoff) == IF markedAt[k] = NoTime THEN clock ELSE cutoff

(* Plausible bug: bulk_create skips the rows that exist. *)
MaterializedWhereNew(ids) ==
  [a \in Articles |-> IF a \in ids /\ explicit[a] = "none" THEN "read" ELSE explicit[a]]

Materialized(ids) == [a \in Articles |-> IF a \in ids THEN "read" ELSE explicit[a]]

(* ... upserts their states, then the marker, and commits. *)
CommitMark(p) ==
  LET m == mark[p] IN
  /\ m.step = "selected"
  /\ explicit' = Materialized(m.ids)
  /\ markedAt' = [markedAt EXCEPT ![m.scope] = MarkerTime(m.scope, m.cutoff)]
  /\ said' = [a \in Articles |-> IF a \in m.promised \cup m.ids THEN "read" ELSE said[a]]
  /\ reported' = [reported EXCEPT ![m.scope] = Latest(@, m.cutoff)]
  /\ answered' = [answered EXCEPT ![m.scope] = clock]
  /\ mark' = [mark EXCEPT ![p] = IdleMark]
  /\ UNCHANGED <<clock, requests, fetched, committed, saved, page>>

(* Any error rolls the transaction back. *)
RollBack(p) ==
  /\ mark[p].step = "selected"
  /\ mark' = [mark EXCEPT ![p] = IdleMark]
  /\ UNCHANGED <<clock, requests, fetched, committed, states, page, history>>

-----------------------------------------------------------------------------
(* A page of a scope: article_card_page, article_list.  Three statements,   *)
(* each with its own snapshot.                                              *)

OpenPage(k) ==
  /\ Request
  /\ page.step = "idle"
  /\ page' = [step |-> "bounded", scope |-> k,
              times |-> {fetched[a] : a \in Shelf(k)}]
  /\ UNCHANGED <<clock, fetched, committed, states, mark, history>>

Oldest(times) == CHOOSE t \in times : \A u \in times : t <= u
Newest(times) == CHOOSE t \in times : \A u \in times : t >= u

ReadMarkers ==
  /\ page.step = "bounded"
  /\ page' = [step |-> "narrowed", scope |-> page.scope,
              markers |-> IF page.times = {} THEN {}
                          ELSE Candidates(Shelf(page.scope), Oldest(page.times),
                                          Newest(page.times))]
  /\ UNCHANGED <<clock, requests, fetched, committed, states, mark, history>>

(* The rows neither read nor saved, one more than the limit at most.  Their  *)
(* order is left open, so any of them may be the ones within the limit.      *)
ReadRows ==
  /\ page.step = "narrowed"
  /\ LET rows == {a \in Shelf(page.scope) : ~IsRead(a, page.markers) /\ a \notin saved} IN
     \E cards \in SUBSET rows :
       /\ Cardinality(cards) <= PageLimit
       /\ cards # rows => Cardinality(cards) = PageLimit
       /\ page' = [step |-> "shown", scope |-> page.scope, cards |-> cards,
                   more |-> Cardinality(rows) > PageLimit]
  /\ UNCHANGED <<clock, requests, fetched, committed, states, mark, history>>

ClosePage ==
  /\ page.step = "shown"
  /\ page' = IdlePage
  /\ UNCHANGED <<clock, requests, fetched, committed, states, mark, history>>

(* History of the page request: what was open, read and saved in every       *)
(* state from its first statement to its last.                              *)
Watch ==
  LET Since(all, now) == IF page.step = "idle" THEN now ELSE all \cap now IN
  CASE page'.step = "idle" -> openAll' = {} /\ readAll' = {} /\ savedAll' = {}
    [] page'.step = "shown" -> UNCHANGED <<openAll, readAll, savedAll>>
    [] OTHER -> /\ openAll' = Since(openAll, Open')
                /\ readAll' = Since(readAll, Read')
                /\ savedAll' = Since(savedAll, saved')

Step ==
  \/ Tick
  \/ \E a \in Articles : Insert(a) \/ Publish(a) \/ Save(a) \/ Unsave(a)
  \/ \E a \in Articles, state \in {"read", "unread"} : MarkArticle(a, state)
  \/ \E p \in Marks, k \in Scopes : BeginMark(p, k)
  \/ \E p \in Marks : SelectArticles(p) \/ CommitMark(p) \/ RollBack(p)
  \/ \E k \in Scopes : OpenPage(k)
  \/ ReadMarkers \/ ReadRows \/ ClosePage

Next == Step /\ Watch

Spec == Init /\ [][Next]_vars

-----------------------------------------------------------------------------
(* Every variable keeps its type, and only inserted articles are visible. *)
TypeOK ==
  /\ clock \in Times /\ requests \in 0..MaxRequests
  /\ fetched \in [Articles -> Times \cup {NoTime}]
  /\ committed \subseteq {a \in Articles : fetched[a] # NoTime}
  /\ explicit \in [Articles -> States]
  /\ saved \subseteq Articles
  /\ markedAt \in [Scopes -> Times \cup {NoTime}]
  /\ said \in [Articles -> States]
  /\ reported \in [Scopes -> Times \cup {NoTime}]
  /\ answered \in [Scopes -> Times \cup {NoTime}]
  /\ mark \in [Marks ->
       [step: {"idle"}]
       \cup [step: {"begun"}, scope: Scopes, cutoff: Times, promised: SUBSET Articles]
       \cup [step: {"selected"}, scope: Scopes, cutoff: Times, promised: SUBSET Articles,
             ids: SUBSET Articles]]
  /\ openAll \subseteq Articles /\ readAll \subseteq Articles /\ savedAll \subseteq Articles

(* The last committed command decides: an article that was in view when a   *)
(* mark began is read once it commits, whatever markers of the same scope   *)
(* commit in which order, until it is marked unread, and then it is unread. *)
CommandsHold ==
  \A a \in committed :
    /\ said[a] = "read" => IsRead(a, Markers)
    /\ said[a] = "unread" => ~IsRead(a, Markers)

(* "A marker never reaches forward": an article that no command was about   *)
(* can be hidden only by a mark that committed no earlier than it was       *)
(* fetched; what arrives after the answer to a mark stays unread.           *)
NewArrivalsUnread ==
  \A a \in committed :
    said[a] = "none" /\ IsRead(a, Markers) => Within(a, answered)

(* A page resolved in three statements beside other requests leaves out no  *)
(* article that was open all the while without saying that there is more,   *)
(* and shows none that was read or saved all the while.                     *)
PageHonest ==
  page.step = "shown" =>
    /\ page.cards \cap (readAll \cup savedAll) = {}
    /\ ~page.more => {a \in openAll : InScope(page.scope, a)} \subseteq page.cards

(* docs/features/contracts.md, READ-INV-004: an article first seen after    *)
(* the cutoff a mark reports remains unread until another action.           *)
LaterArrivalsUnread ==
  \A a \in committed :
    said[a] = "none" /\ IsRead(a, Markers) => Within(a, reported)
=============================================================================
