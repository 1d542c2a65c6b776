----------------------- MODULE ArticleReconciliation -----------------------
(***************************************************************************)
(* How one refresh turns a feed document into article rows                 *)
(* (feeds/services.py, _plan_article_reconciliation and                    *)
(* _apply_article_reconciliation).  The plan is computed from one snapshot *)
(* of the feed's articles, under the feed's row lock: the entries are read *)
(* in the order of the document, and each is skipped, refused with the     *)
(* whole document, or given a write that reserves its guid, its URL and    *)
(* the article it updates.  The writes are sorted when all entries are     *)
(* read, and then executed one statement at a time,                        *)
(* each checked by the database against the two uniqueness constraints of  *)
(* the article table (feeds/models.py, Article.Meta.constraints); a write  *)
(* that clashes aborts the transaction.                                    *)
(*                                                                         *)
(* Data abstracted: ids and URLs are positive numbers drawn from one       *)
(* namespace, because an entry without an id takes its URL as its guid and *)
(* an entry without a link takes its id as its URL; numbers order like the *)
(* strings they stand for.  Titles, summaries and dates are left out.      *)
(***************************************************************************)
EXTENDS Integers, Sequences, FiniteSets

CONSTANT Documents   \* the documents a server may publish: sequences of
                     \* entries with an id, a link and an alternate link

Blank == 0           \* a missing id, link or alternate link
Entry == [id: Nat, link: Nat, alternate: Nat]

ASSUME ReconcileAssumption == Documents \subseteq Seq(Entry)

VARIABLES
  stored,     \* the feed's articles; an article's primary key is its position
  planPhase,  \* "idle", "planning", "writing"
  document,   \* the document being reconciled
  scanned,    \* how many of its entries have been read
  planned     \* the planned writes not yet executed

reconcileVars == <<stored, planPhase, document, scanned, planned>>

----------------------------------------------------------------------------
(* The explicit HTML alternate link, else the link, else the id.           *)
EntryUrl(entry) ==
  IF entry.alternate # Blank THEN entry.alternate
  ELSE IF entry.link # Blank THEN entry.link ELSE entry.id

EntryGuid(entry) == IF entry.id # Blank THEN entry.id ELSE EntryUrl(entry)

UsableEntries(doc) == {i \in DOMAIN doc : EntryUrl(doc[i]) # Blank}

GuidMatches(rows, entry) ==
  {a \in DOMAIN rows : rows[a].guid = EntryGuid(entry)}

UrlMatches(rows, entry) == {a \in DOMAIN rows : rows[a].url = EntryUrl(entry)}

(* The article an entry updates: the one with its guid, else the one with  *)
(* its URL; the empty set when the entry creates an article.               *)
Matched(rows, entry) ==
  IF GuidMatches(rows, entry) # {} THEN GuidMatches(rows, entry)
  ELSE UrlMatches(rows, entry)

(* Defect: the plan trusts the guid and ignores what the URL names.        *)
NeverContradictory(rows, entry) == FALSE

(* The guid names one article and the URL another.                         *)
Contradictory(rows, entry) ==
  /\ GuidMatches(rows, entry) # {}
  /\ UrlMatches(rows, entry) # {}
  /\ GuidMatches(rows, entry) # UrlMatches(rows, entry)

Write(rows, entry) ==
  [article |-> Matched(rows, entry), guid |-> EntryGuid(entry), url |-> EntryUrl(entry)]

PrimaryKey(write) == CHOOSE a \in write.article : TRUE

(* Updates in primary-key order, then creations in guid order.  Two writes *)
(* of one plan never update one article.                                   *)
Precedes(w1, w2) ==
  \/ w1.article # {} /\ w2.article = {}
  \/ w1.article # {} /\ w2.article # {} /\ PrimaryKey(w1) < PrimaryKey(w2)
  \/ w1.article = w2.article /\ w1.guid < w2.guid

(* Defect: only guids and URLs are reserved, not the articles matched.     *)
ReservedByName(writes, write) ==
  \E k \in DOMAIN writes :
    writes[k].guid = write.guid \/ writes[k].url = write.url

(* An earlier entry of the document reserved the guid, URL or article.     *)
Reserved(writes, write) ==
  \E k \in DOMAIN writes :
    \/ writes[k].guid = write.guid
    \/ writes[k].url = write.url
    \/ write.article # {} /\ writes[k].article = write.article

(* Defect: the writes stay in the order of the document.                   *)
Unsorted(writes) == writes

Place(writes, i) ==
  Cardinality({j \in DOMAIN writes : Precedes(writes[j], writes[i])}) + 1

Sorted(writes) ==
  [k \in DOMAIN writes |->
     writes[CHOOSE i \in DOMAIN writes : Place(writes, i) = k]]

Execute(rows, write) ==
  LET row == [guid |-> write.guid, url |-> write.url] IN
  IF write.article = {} THEN Append(rows, row)
  ELSE [rows EXCEPT ![PrimaryKey(write)] = row]

(* The write would break unique_article_guid_per_feed or                   *)
(* unique_article_url_per_feed.                                            *)
Clashes(rows, write) ==
  \E a \in DOMAIN rows \ write.article :
    rows[a].guid = write.guid \/ rows[a].url = write.url

----------------------------------------------------------------------------
ReconcileInit ==
  /\ stored = <<>>
  /\ planPhase = "idle"
  /\ document = <<>>
  /\ scanned = 0
  /\ planned = <<>>

BeginPlan(doc) ==
  /\ planPhase = "idle"
  /\ planPhase' = "planning"
  /\ document' = doc
  /\ UNCHANGED <<stored, scanned, planned>>

NextEntry == document[scanned + 1]

Reading == planPhase = "planning" /\ scanned < Len(document)

SkipEntry ==
  /\ Reading
  /\ EntryUrl(NextEntry) = Blank
  /\ scanned' = scanned + 1
  /\ UNCHANGED <<stored, planPhase, document, planned>>

(* The document is refused whole: the transaction rolls back.              *)
RefuseEntry ==
  /\ Reading
  /\ EntryUrl(NextEntry) # Blank
  /\ \/ Contradictory(stored, NextEntry)
     \/ Reserved(planned, Write(stored, NextEntry))
  /\ planPhase' = "idle"
  /\ document' = <<>>
  /\ scanned' = 0
  /\ planned' = <<>>
  /\ UNCHANGED stored

PlanEntry ==
  /\ Reading
  /\ EntryUrl(NextEntry) # Blank
  /\ ~Contradictory(stored, NextEntry)
  /\ ~Reserved(planned, Write(stored, NextEntry))
  /\ planned' = Append(planned, Write(stored, NextEntry))
  /\ scanned' = scanned + 1
  /\ UNCHANGED <<stored, planPhase, document>>

SortPlan ==
  /\ planPhase = "planning"
  /\ scanned = Len(document)
  /\ planPhase' = "writing"
  /\ planned' = Sorted(planned)
  /\ UNCHANGED <<stored, document, scanned>>

ExecuteNext ==
  /\ planPhase = "writing"
  /\ planned # <<>>
  /\ ~Clashes(stored, Head(planned))
  /\ stored' = Execute(stored, Head(planned))
  /\ planned' = Tail(planned)
  /\ UNCHANGED <<planPhase, document, scanned>>

CommitPlan ==
  /\ planPhase = "writing"
  /\ planned = <<>>
  /\ planPhase' = "idle"
  /\ document' = <<>>
  /\ scanned' = 0
  /\ UNCHANGED <<stored, planned>>

ReconcileNext ==
  \/ \E doc \in Documents : BeginPlan(doc)
  \/ SkipEntry
  \/ RefuseEntry
  \/ PlanEntry
  \/ SortPlan
  \/ ExecuteNext
  \/ CommitPlan

ReconcileSpec == ReconcileInit /\ [][ReconcileNext]_reconcileVars

----------------------------------------------------------------------------
Article == [guid: Nat \ {Blank}, url: Nat \ {Blank}]

ReconcileTypeOK ==
  /\ stored \in Seq(Article)
  /\ planPhase \in {"idle", "planning", "writing"}
  /\ document \in Documents \cup {<<>>}
  /\ scanned \in 0..Len(document)
  /\ \A i \in DOMAIN planned :
       /\ planned[i].article \subseteq DOMAIN stored
       /\ planned[i].guid # Blank /\ planned[i].url # Blank

(* A plan that is not refused never runs into a uniqueness constraint, not *)
(* even between two of its writes: the IntegrityError path of refresh_feed *)
(* is never taken because of reconciliation itself.                        *)
PlanNeverClashes ==
  planPhase = "writing" /\ planned # <<>> => ~Clashes(stored, Head(planned))

(* What a document says of the feed's articles, whatever the order of its  *)
(* entries: two of them compete for a guid, a URL or an article, ...       *)
Competing(rows, e1, e2) ==
  \/ EntryGuid(e1) = EntryGuid(e2)
  \/ EntryUrl(e1) = EntryUrl(e2)
  \/ Matched(rows, e1) # {} /\ Matched(rows, e1) = Matched(rows, e2)

(* ... and it is in conflict when two compete or one contradicts the rows. *)
IdentityConflict(rows, doc) ==
  \/ \E i \in UsableEntries(doc) : Contradictory(rows, doc[i])
  \/ \E i, j \in UsableEntries(doc) : i # j /\ Competing(rows, doc[i], doc[j])

(* Reconciling the same document again, right after it was reconciled,     *)
(* is accepted, creates no article and changes none.                       *)
Idempotent ==
  (planPhase = "writing" /\ planned = <<>>) =>
    /\ ~IdentityConflict(stored, document)
    /\ \A i \in UsableEntries(document) :
         /\ Write(stored, document[i]).article # {}
         /\ Execute(stored, Write(stored, document[i])) = stored

(* The scan reads the entries one after the other and checks each against  *)
(* the earlier ones only; it still decides as if it saw the document at    *)
(* once.  It refuses a document exactly when any two entries, in whichever *)
(* order, compete or one contradicts the rows, and otherwise ends with one *)
(* write for each usable entry, in the order of their keys: the order in   *)
(* which a server lists the entries decides nothing.                       *)
ScanDecides ==
  planPhase = "planning" =>
    /\ planPhase' = "idle" => IdentityConflict(stored, document)
    /\ planPhase' = "writing" =>
         /\ ~IdentityConflict(stored, document)
         /\ {planned'[k] : k \in DOMAIN planned'}
              = {Write(stored, document[i]) : i \in UsableEntries(document)}
         /\ \A k, l \in DOMAIN planned' :
              k < l => Precedes(planned'[k], planned'[l])

ScanIsOrderFree == [][ScanDecides]_planPhase

(* An article row never turns into another item: a refresh removes none,   *)
(* and a row that changes keeps its guid or its URL.                       *)
KeepsIdentity ==
  /\ DOMAIN stored \subseteq DOMAIN stored'
  /\ \A a \in DOMAIN stored :
       stored'[a].guid = stored[a].guid \/ stored'[a].url = stored[a].url

IdentityKept == [][KeepsIdentity]_stored
=============================================================================
