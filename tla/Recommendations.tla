--------------------------- MODULE Recommendations ---------------------------
(***************************************************************************)
(* The Recommended page (feeds/recommendations.py): a ranking computed from *)
(* separately read rows, cached under a fingerprint that was read before    *)
(* them, and filtered once more before it is shown, while the reader saves, *)
(* unsaves and marks articles.  The scores are left open: any order of the  *)
(* candidates may be the order of their scores.  The statements that make   *)
(* the fingerprint are one step; its columns of feeds, categories and bulk  *)
(* markers are left out.                                                    *)
(***************************************************************************)
EXTENDS Naturals, FiniteSets

CONSTANTS
  Articles,
  UrlOf,         \* canonical URL of each article
  TitleOf,       \* canonical title of each
  LongTitles,    \* titles of at least 20 characters
  PoolSize,      \* RERANK_POOL_SIZE
  Limit,         \* RECOMMENDATION_ARTICLE_LIMIT
  CacheSize,     \* entries a process keeps
  MaxWrites      \* bound of the clock, which is 1 and goes on with every write

ASSUME RankAssumption ==
  /\ IsFiniteSet(Articles) /\ Articles # {}
  /\ MaxWrites \in Nat

VARIABLES
  writes,        \* the time: every write is stamped with a later one
  added,         \* Article.updated_at, 0 without a row
  savedAt,       \* SavedArticle.updated_at, 0 without a row
  readRow,       \* ArticleReadState: its updated_at, 0 without a row, and is_read
  bulk,          \* a bulk mark that is stamped and not yet committed
  cache,         \* entries: key, ranking and, as history, what it was ranked from
  page,          \* a request for the page
  dismissed,     \* history: articles saved, and those read, ever since it began
  reordered      \* history: a write was committed after a later stamp

rankVars == <<writes, added, savedAt, readRow, bulk, cache, page, dismissed, reordered>>

Rows(times) == {a \in Articles : times[a] # 0}
Newest(times) == CHOOSE t \in {times[a] : a \in Articles} : \A a \in Articles : times[a] <= t

Listed == Rows(added)
Saved == Rows(savedAt)
Read == {a \in Articles : readRow[a].read}
Corpus == [documents |-> Listed, saved |-> Saved, read |-> Read]
NoCorpus == [documents |-> {}, saved |-> {}, read |-> {}]

-----------------------------------------------------------------------------
(* _corpus_fingerprint: counts and newest times of the rows.                 *)
ReadTimes == [a \in Articles |-> readRow[a].at]

(* Plausible bug: a key without the counts.                                  *)
FingerprintByTime == <<Newest(added), Newest(savedAt), Newest(ReadTimes)>>

Fingerprint ==
  <<Cardinality(Listed), Newest(added), Cardinality(Saved), Newest(savedAt),
    Cardinality(Rows(ReadTimes)), Newest(ReadTimes)>>

(* rank_recommendations: who may be recommended.                             *)
Candidates(documents, saved, read) ==
  IF saved \cap documents = {} THEN {}
  ELSE {a \in documents \ (saved \cup read) :
          \A s \in saved \cap documents : TitleOf[a] # TitleOf[s]}

Copies(a, b) ==
  \/ UrlOf[a] = UrlOf[b]
  \/ TitleOf[a] = TitleOf[b] /\ TitleOf[a] \in LongTitles

(* _diversified_indices goes through the candidates by score and passes over *)
(* copies of what it has taken, until it has taken PoolSize.  Any order may  *)
(* be the scores': a pool is any set without copies that is full, or has a   *)
(* copy of every other candidate.                                            *)
Pools(candidates) ==
  {pool \in SUBSET candidates :
     /\ \A a, b \in pool : a # b => ~Copies(a, b)
     /\ Cardinality(pool) <= PoolSize
     /\ \/ Cardinality(pool) = PoolSize
        \/ \A a \in candidates \ pool : \E b \in pool : Copies(a, b)}

(* Limit of them are selected, in an order that depends on the scores.       *)
Selections(pool) ==
  {S \in SUBSET pool :
     Cardinality(S) = IF Cardinality(pool) < Limit THEN Cardinality(pool) ELSE Limit}

(* A corpus without words has no ranking.                                    *)
Rankings(documents, saved, read) ==
  {{}} \cup UNION {Selections(pool) : pool \in Pools(Candidates(documents, saved, read))}

-----------------------------------------------------------------------------
NoPage == [step |-> "idle"]
NoBulk == [at |-> 0, articles |-> {}]
NoneDismissed == [saved |-> {}, read |-> {}]

(* Whatever earlier requests left: some articles, some saved, some unread.   *)
RankInit ==
  /\ writes = 1
  /\ added \in [Articles -> {0, 1}]
  /\ savedAt \in [Articles -> {0, 1}] /\ Saved \subseteq Listed
  /\ readRow \in [Articles -> [at: {0, 1}, read: {FALSE}]]
  /\ Rows(ReadTimes) \subseteq Listed
  /\ bulk = NoBulk
  /\ cache = {}
  /\ page = NoPage
  /\ dismissed = NoneDismissed /\ reordered = FALSE

Stamp == writes < MaxWrites /\ writes' = writes + 1

(* After a commit fewer articles may have been dismissed all along, and a    *)
(* ranking under way may differ from its key.                                *)
Watch ==
  /\ dismissed' = [saved |-> dismissed.saved \cap Rows(savedAt'),
                   read |-> {a \in dismissed.read : readRow'[a].read}]
  /\ page' = IF page.step \in {"keyed", "profiled", "excluded"}
             THEN [page EXCEPT !.raced = TRUE] ELSE page
  /\ UNCHANGED cache

Add(a) ==
  /\ added[a] = 0
  /\ Stamp
  /\ added' = [added EXCEPT ![a] = writes']
  /\ UNCHANGED <<savedAt, readRow, bulk, reordered>>
  /\ Watch

Save(a) ==
  /\ added[a] # 0
  /\ Stamp
  /\ savedAt' = [savedAt EXCEPT ![a] = writes']
  /\ UNCHANGED <<added, readRow, bulk, reordered>>
  /\ Watch

Unsave(a) ==
  /\ savedAt[a] # 0
  /\ Stamp
  /\ savedAt' = [savedAt EXCEPT ![a] = 0]
  /\ UNCHANGED <<added, readRow, bulk, reordered>>
  /\ Watch

Mark(a, read) ==
  /\ added[a] # 0
  /\ Stamp
  /\ readRow' = [readRow EXCEPT ![a] = [at |-> writes', read |-> read]]
  /\ UNCHANGED <<added, savedAt, bulk, reordered>>
  /\ Watch

(* mark_articles_read stamps its rows, and its transaction commits later.    *)
StampBulk ==
  /\ bulk = NoBulk
  /\ Stamp
  /\ \E marked \in SUBSET Listed \ {{}} : bulk' = [at |-> writes', articles |-> marked]
  /\ UNCHANGED <<added, savedAt, readRow, cache, page, dismissed, reordered>>

CommitBulk ==
  /\ bulk # NoBulk
  /\ readRow' = [a \in Articles |->
       IF a \in bulk.articles THEN [at |-> bulk.at, read |-> TRUE] ELSE readRow[a]]
  /\ reordered' = (reordered \/ writes > bulk.at)
  /\ bulk' = NoBulk
  /\ UNCHANGED <<writes, added, savedAt>>
  /\ Watch

(* The entry's timeout.                                                      *)
Expire ==
  /\ \E entry \in cache : cache' = cache \ {entry}
  /\ UNCHANGED <<writes, added, savedAt, readRow, bulk, page, dismissed, reordered>>

rowState == <<writes, added, savedAt, readRow, bulk, reordered>>

(* recommendation_cards: the key, then the cached ranking or a new one.      *)
OpenRecommended ==
  /\ page.step = "idle"
  /\ page' = [step |-> "keyed", key |-> Fingerprint, raced |-> FALSE]
  /\ dismissed' = [saved |-> Saved, read |-> Read]
  /\ UNCHANGED <<rowState, cache>>

Hit ==
  /\ page.step = "keyed"
  /\ \E entry \in cache :
       /\ entry.key = page.key
       /\ page' = [step |-> "ranked", ranked |-> entry.ranked]
  /\ UNCHANGED <<rowState, cache, dismissed>>

(* _rank_for_user: the saved signals, then the read articles, then the       *)
(* documents; each is a statement of its own.                                *)
LoadProfile ==
  /\ page.step = "keyed"
  /\ ~\E entry \in cache : entry.key = page.key
  /\ page' = [step |-> "profiled", key |-> page.key, raced |-> page.raced, saved |-> Saved]
  /\ UNCHANGED <<rowState, cache, dismissed>>

LoadRead ==
  /\ page.step = "profiled"
  /\ page' = [step |-> "excluded", key |-> page.key, raced |-> page.raced,
              saved |-> page.saved, read |-> Read]
  /\ UNCHANGED <<rowState, cache, dismissed>>

Rank ==
  /\ page.step = "excluded"
  /\ \E ranked \in Rankings(Listed, page.saved, page.read) :
       /\ page' = [step |-> "ranked", ranked |-> ranked]
       /\ LET entry == [key |-> page.key, ranked |-> ranked,
                        corpus |-> IF page.raced THEN NoCorpus
                                   ELSE [documents |-> Listed, saved |-> page.saved,
                                         read |-> page.read]]
          IN \E kept \in SUBSET cache :
               /\ Cardinality(kept) < CacheSize
               /\ cache' = kept \cup {entry}
  /\ UNCHANGED <<rowState, dismissed>>

(* What has been saved and, by another statement, read since is left out.    *)
LeaveOutSaved ==
  /\ page.step = "ranked"
  /\ page' = [step |-> "unsaved", cards |-> page.ranked \ Saved]
  /\ UNCHANGED <<rowState, cache, dismissed>>

(* Plausible bug: the key is trusted to have changed.                        *)
ShowRead ==
  /\ page.step = "unsaved"
  /\ page' = [step |-> "shown", cards |-> page.cards]
  /\ UNCHANGED <<rowState, cache, dismissed>>

LeaveOutRead ==
  /\ page.step = "unsaved"
  /\ page' = [step |-> "shown", cards |-> page.cards \ Read]
  /\ UNCHANGED <<rowState, cache, dismissed>>

Close ==
  /\ page.step = "shown"
  /\ page' = NoPage /\ dismissed' = NoneDismissed
  /\ UNCHANGED <<rowState, cache>>

RankNext ==
  \/ \E a \in Articles : Add(a) \/ Save(a) \/ Unsave(a) \/ Mark(a, TRUE) \/ Mark(a, FALSE)
  \/ StampBulk \/ CommitBulk \/ Expire \/ OpenRecommended \/ Hit \/ LoadProfile \/ LoadRead \/ Rank
  \/ LeaveOutSaved \/ LeaveOutRead \/ Close

RankSpec == RankInit /\ [][RankNext]_rankVars

-----------------------------------------------------------------------------
(* "A newly saved or dismissed article must never still appear": no card of  *)
(* an article that was saved all through the request, or read all through    *)
(* it, however old the ranking, and no two cards of one article.  One that   *)
(* was saved and read by turns may be shown: the last filter is two          *)
(* statements.                                                               *)
DismissedNeverShown ==
  page.step = "shown" =>
    /\ page.cards \cap (dismissed.saved \cup dismissed.read) = {}
    /\ \A a, b \in page.cards : a # b => UrlOf[a] # UrlOf[b]

(* A fingerprint of counts and newest times stands for the rows themselves:  *)
(* while writes commit in the order of their stamps, an entry that was       *)
(* ranked without a write in between is never found under the present key    *)
(* when documents, saves or read states are different now.                   *)
KeyStandsForCorpus ==
  \A entry \in cache :
    entry.key = Fingerprint /\ ~reordered => entry.corpus \in {Corpus, NoCorpus}
=============================================================================
