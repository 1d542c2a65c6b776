----------------------------- MODULE OpmlImport -----------------------------
(***************************************************************************)
(* Importing OPML files (feeds/services.py, _parse_opml to import_opml):    *)
(* one transaction that takes advisory locks on category names, creates the *)
(* categories and upserts the feeds, beside another import doing the same   *)
(* and beside the API, which creates single categories without a lock       *)
(* (feeds/api.py, category_collection).                                     *)
(* A lock lasts to the end of its transaction; a statement that needs a key *)
(* or a row of an open transaction waits.                                   *)
(***************************************************************************)
EXTENDS Integers, FiniteSets, Sequences, Functions

CONSTANTS
  Importers,
  FeedUrls,      \* feed URLs, numbered in the order they sort
  Names,         \* category names, numbered likewise from 1
  KeyOf,         \* hashtextextended, of a name
  SlugOf,        \* slugify, of a name: not injective
  Files,         \* the documents: sequences of outlines
  Posts          \* <<name, slug>>: the categories the API is asked for

NoName == 0      \* the empty category name, which sorts first
NoSlug == <<>>
NoFeedRow == [category |-> NoName, present |-> FALSE]

Outline == [url: FeedUrls, category: Names \cup {NoName}]
FiledRow == [category: Names \cup {NoName}, present: BOOLEAN]
Slugs == (Range(SlugOf) \X (Nat \ {0})) \cup {post[2] : post \in Posts}

ASSUME OpmlAssumption ==
  /\ IsFiniteSet(Importers)
  /\ FeedUrls \subseteq Nat
  /\ Names \subseteq Nat \ {NoName}
  /\ KeyOf \in [Names -> Int]
  /\ SlugOf \in [Names -> Range(SlugOf)]
  /\ Files \subseteq Seq(Outline)
  /\ \A post \in Posts : post[1] \in Names /\ post[2] # NoSlug

VARIABLES
  categories,    \* committed: the slug of each name, or NoSlug
  feeds,         \* committed: the feed of each URL, or NoFeedRow
  imports,       \* the importers
  committed      \* history: the documents imported, in the order of their commits

opmlVars == <<categories, feeds, imports, committed>>

Active(p) == imports[p].step \in {"locking", "filing", "writing"}

-----------------------------------------------------------------------------
(* Parsing: a repeated outline is skipped, a conflicting one rejects all.    *)

Planned(doc) == Range(doc)

Conflicting(doc) ==
  \E x, y \in Planned(doc) : x.url = y.url /\ x # y

PlannedNames(doc) == {x.category : x \in Planned(doc)} \ {NoName}

(* Locks and rows are taken in the order of keys, names and (name, URL).     *)
FeedBefore(x, y) ==
  x.category < y.category \/ (x.category = y.category /\ x.url < y.url)

(* Plausible bug: in the order of the outlines.                              *)
NextKeyByOutline(p) ==
  LET doc == imports[p].doc
      first == CHOOSE i \in DOMAIN doc :
                 /\ doc[i].category # NoName /\ KeyOf[doc[i].category] \in imports[p].keys
                 /\ \A j \in 1..(i - 1) : doc[j].category = NoName
                                        \/ KeyOf[doc[j].category] \notin imports[p].keys
  IN KeyOf[doc[first].category]

NextKey(p) == CHOOSE k \in imports[p].keys : \A l \in imports[p].keys \ {k} : k < l

NextName(p) == CHOOSE n \in imports[p].names : \A m \in imports[p].names \ {n} : n < m

NextFiling(p) ==
  CHOOSE x \in imports[p].feeds : \A y \in imports[p].feeds \ {x} : FeedBefore(x, y)

-----------------------------------------------------------------------------
NoneMade == [n \in Names |-> NoSlug]

FreshImport(step, doc) ==
  [step |-> step, doc |-> doc, keys |-> {}, names |-> {}, feeds |-> {}, suffix |-> 1,
   locked |-> {}, made |-> NoneMade, written |-> {}]

OpmlInit ==
  /\ categories = NoneMade
  /\ feeds = [u \in FeedUrls |-> NoFeedRow]
  /\ imports = [p \in Importers |-> FreshImport("idle", <<>>)]
  /\ committed = <<>>

(* keys, names and feeds are what is left to lock, to file and to write;     *)
(* locked, made and written what this transaction holds.                     *)
BeginImport(p, doc) ==
  /\ imports[p].step = "idle"
  /\ imports' = [imports EXCEPT ![p] =
       IF Conflicting(doc) THEN FreshImport("rejected", <<>>)
       ELSE [FreshImport("locking", doc) EXCEPT
               !.keys = {KeyOf[n] : n \in PlannedNames(doc)},
               !.names = PlannedNames(doc), !.feeds = Planned(doc)]]
  /\ UNCHANGED <<categories, feeds, committed>>

KeyHolder(k, p) == Active(p) /\ k \in imports[p].locked
SlugHolder(s, p) == Active(p) /\ \E n \in Names : imports[p].made[n] = s
RowHolder(u, p) == Active(p) /\ \E x \in imports[p].written : x.url = u

(* _lock_category_names *)
LockKey(p) ==
  /\ imports[p].step = "locking" /\ imports[p].keys # {}
  /\ LET k == NextKey(p) IN
     /\ ~\E q \in Importers \ {p} : KeyHolder(k, q)
     /\ imports' = [imports EXCEPT ![p].keys = @ \ {k}, ![p].locked = @ \cup {k}]
  /\ UNCHANGED <<categories, feeds, committed>>

AllLocked(p) ==
  /\ imports[p].step = "locking" /\ imports[p].keys = {}
  /\ imports' = [imports EXCEPT ![p].step = "filing"]
  /\ UNCHANGED <<categories, feeds, committed>>

(* The slug _category_from_name tries next, and the names known by a slug.   *)
Slug(p) == <<SlugOf[NextName(p)], imports[p].suffix>>
Filed(p) == [n \in Names |-> IF imports[p].made[n] # NoSlug THEN imports[p].made[n]
                             ELSE categories[n]]

ReuseCategory(p) ==
  /\ imports[p].step = "filing" /\ imports[p].names # {}
  /\ Filed(p)[NextName(p)] # NoSlug
  /\ imports' = [imports EXCEPT ![p].names = @ \ {NextName(p)}, ![p].suffix = 1]
  /\ UNCHANGED <<categories, feeds, committed>>

SlugTaken(p) ==
  /\ imports[p].step = "filing" /\ imports[p].names # {}
  /\ Filed(p)[NextName(p)] = NoSlug
  /\ Slug(p) \in Range(Filed(p))
  /\ imports' = [imports EXCEPT ![p].suffix = @ + 1]
  /\ UNCHANGED <<categories, feeds, committed>>

CreateCategory(p) ==
  /\ imports[p].step = "filing" /\ imports[p].names # {}
  /\ Filed(p)[NextName(p)] = NoSlug
  /\ Slug(p) \notin Range(Filed(p))
  /\ ~\E q \in Importers \ {p} : SlugHolder(Slug(p), q)
  /\ LET n == NextName(p) IN
     imports' = [imports EXCEPT
       ![p].names = @ \ {n}, ![p].suffix = 1, ![p].made[n] = Slug(p)]
  /\ UNCHANGED <<categories, feeds, committed>>

AllFiled(p) ==
  /\ imports[p].step = "filing" /\ imports[p].names = {}
  /\ imports' = [imports EXCEPT ![p].step = "writing"]
  /\ UNCHANGED <<categories, feeds, committed>>

(* Plausible bug: the upserts run outside a transaction.                     *)
WriteFeedAtOnce(p) ==
  /\ imports[p].step = "writing" /\ imports[p].feeds # {}
  /\ LET x == NextFiling(p) IN
     /\ imports' = [imports EXCEPT ![p].feeds = @ \ {x}]
     /\ feeds' = [feeds EXCEPT ![x.url] = [category |-> x.category, present |-> TRUE]]
  /\ UNCHANGED <<categories, committed>>

(* update_or_create of a feed: it inserts or locks its row.                  *)
WriteFeed(p) ==
  /\ imports[p].step = "writing" /\ imports[p].feeds # {}
  /\ LET x == NextFiling(p) IN
     /\ ~\E q \in Importers \ {p} : RowHolder(x.url, q)
     /\ imports' = [imports EXCEPT ![p].feeds = @ \ {x}, ![p].written = @ \cup {x}]
  /\ UNCHANGED <<categories, feeds, committed>>

(* The row an outline gives its feed.                                        *)
RowOf(x) == [category |-> x.category, present |-> TRUE]

CommitImport(p) ==
  /\ imports[p].step = "writing" /\ imports[p].feeds = {}
  /\ categories' = Filed(p)
  /\ feeds' = [u \in FeedUrls |->
       IF \E x \in imports[p].written : x.url = u
       THEN RowOf(CHOOSE x \in imports[p].written : x.url = u)
       ELSE feeds[u]]
  /\ imports' = [imports EXCEPT ![p] = FreshImport("done", imports[p].doc)]
  /\ committed' = Append(committed, imports[p].doc)

(* POST of a category: two reads, then an insert that waits for an open      *)
(* transaction with the same name or slug and is refused if it commits.      *)
PostCategory(n, slug) ==
  /\ categories[n] = NoSlug /\ slug \notin Range(categories)
  /\ ~\E p \in Importers :
        (Active(p) /\ imports[p].made[n] # NoSlug) \/ SlugHolder(slug, p)
  /\ categories' = [categories EXCEPT ![n] = slug]
  /\ UNCHANGED <<feeds, imports, committed>>

(* An error, a lost connection or the deadlock detector rolls it all back.   *)
FailImport(p) ==
  /\ Active(p)
  /\ imports' = [imports EXCEPT ![p] = FreshImport("failed", <<>>)]
  /\ UNCHANGED <<categories, feeds, committed>>

OpmlNext ==
  \/ \E p \in Importers, doc \in Files : BeginImport(p, doc)
  \/ \E p \in Importers :
       LockKey(p) \/ AllLocked(p) \/ ReuseCategory(p) \/ SlugTaken(p)
       \/ CreateCategory(p) \/ AllFiled(p) \/ WriteFeed(p) \/ CommitImport(p)
       \/ FailImport(p)
  \/ \E post \in Posts : PostCategory(post[1], post[2])

OpmlSpec == OpmlInit /\ [][OpmlNext]_opmlVars

-----------------------------------------------------------------------------
OpmlSteps ==
  {"idle", "rejected", "locking", "filing", "writing", "done", "failed"}

ImportRecord ==
  [step: OpmlSteps, doc: Files \cup {<<>>}, keys: SUBSET Int,
   names: SUBSET Names, feeds: SUBSET Outline, suffix: Nat \ {0},
   locked: SUBSET Int, made: [Names -> Slugs \cup {NoSlug}],
   written: SUBSET Outline]

OpmlTypeOK ==
  /\ categories \in [Names -> Slugs \cup {NoSlug}]
  /\ feeds \in [FeedUrls -> FiledRow]
  /\ imports \in [Importers -> ImportRecord]
  /\ committed \in Seq(Files)

(* p's next statement needs something q's open transaction holds.            *)
Waits(p, q) ==
  \/ /\ imports[p].step = "locking" /\ imports[p].keys # {}
     /\ KeyHolder(NextKey(p), q)
  \/ /\ imports[p].step = "filing" /\ imports[p].names # {}
     /\ Filed(p)[NextName(p)] = NoSlug /\ Slug(p) \notin Range(Filed(p))
     /\ SlugHolder(Slug(p), q)
  \/ /\ imports[p].step = "writing" /\ imports[p].feeds # {}
     /\ RowHolder(NextFiling(p).url, q)

(* Two documents that disagree on the category of a feed, or name two        *)
(* categories with one slug.                                                 *)
AtOdds(doc, other) ==
  \/ \E x \in Planned(doc), y \in Planned(other) : x.url = y.url /\ x.category # y.category
  \/ \E n \in PlannedNames(doc), m \in PlannedNames(other) :
       n # m /\ SlugOf[n] = SlugOf[m]

(* Importers of the same feeds in opposite outline order cannot deadlock     *)
(* (the comment of _lock_category_names): whenever some imports all wait for *)
(* each other, in a circle of any length, two of their documents are at odds.*)
DeadlockOnlyAtOdds ==
  \A S \in (SUBSET Importers) \ {{}} :
    (\A p \in S : \E q \in S \ {p} : Waits(p, q)) =>
      \E p, q \in S : p # q /\ AtOdds(imports[p].doc, imports[q].doc)

FiledBy(doc, u) == {x \in Planned(doc) : x.url = u}

(* Concurrent imports leave what they would one after the other, in the      *)
(* order of their commits: a feed is what the last document that lists it    *)
(* says, never a mixture of two, and nothing of an import that failed        *)
(* (FEED-INV-004); its category is there, and no two categories have one     *)
(* slug.                                                                     *)
SerialOutcome ==
  /\ \A u \in FeedUrls :
       \/ /\ feeds[u] = NoFeedRow
          /\ \A i \in DOMAIN committed : FiledBy(committed[i], u) = {}
       \/ \E i \in DOMAIN committed :
            /\ \E x \in FiledBy(committed[i], u) : feeds[u] = RowOf(x)
            /\ \A j \in DOMAIN committed : j > i => FiledBy(committed[j], u) = {}
  /\ \A u \in FeedUrls :
       feeds[u].category # NoName => categories[feeds[u].category] # NoSlug
  /\ \A n, m \in Names :
       n # m /\ categories[n] # NoSlug => categories[n] # categories[m]
=============================================================================
