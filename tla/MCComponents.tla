---------------------------- MODULE MCComponents ----------------------------
(***************************************************************************)
(* Components that share no state, side by side in one run: `focus` is the  *)
(* component that lives in a behaviour, and the others stay as they begin.  *)
(* The states add up and do not multiply.                                   *)
(***************************************************************************)
EXTENDS ArticleReconciliation, FeedEditing, FeedFetch, OpmlImport,
        NewsletterImport, SignedAction, Recommendations, ArticleActions,
        BackupMonitor, RestoreVerification, BackupStore, RetentionCapacity, TLC

-----------------------------------------------------------------------------
(* Every document of up to two entries whose id and link are missing or one  *)
(* of three names, some with an alternate link, and every document of three  *)
(* entries with both, under two links (ArticleReconciliation).               *)
Entries ==
  [id: 0..3, link: 0..3, alternate: {0}]
  \cup {[id |-> 1, link |-> 1, alternate |-> 2], [id |-> 0, link |-> 2, alternate |-> 3]}
FullEntries == [id: 1..3, link: 1..2, alternate: {0}]
AllDocuments == UNION {[1..n -> Entries] : n \in 0..2} \cup [1..3 -> FullEntries]

(* A URL of every form; redirects may go round in circles (FeedFetch).       *)
AllForms == [feed |-> "ok", moved |-> "ok", junk |-> "unpreparable",
             relative |-> "invalid_url", port |-> "blocked_port"]

(* Two importers of documents of two outlines, which may be the same; the    *)
(* keys sort the names in another order than the names, and two names share  *)
(* a slug, which the API may take first, for one of them or for the third    *)
(* (OpmlImport).                                                             *)
Outlines == [url: 1..2, category: 0..3]
AllFiles == {<<o, p>> : o \in Outlines, p \in Outlines}
CrossedKeys == <<2, 1, 3>>
SharedSlug == <<"a", "b", "a">>
FirstSlugTaken == {<<n, <<"a", 1>>>> : n \in 1..2}

(* The importers are interchangeable: the second has the greater document.   *)
CodeOf(doc) ==
  IF doc = <<>> THEN 0
  ELSE 100 * (4 * doc[1].url + doc[1].category) + 4 * doc[2].url + doc[2].category
Ranked == imports[2].doc # <<>> => CodeOf(imports[1].doc) <= CodeOf(imports[2].doc)

(* Two links that expire one after the other (SignedAction).                 *)
OneThenTwo == <<1, 2>>

(* Two of three articles are copies under one canonical URL                  *)
(* (Recommendations).  One life has one write beside the requests; the other *)
(* has two, and no third article.                                            *)
TwoCopies == <<"u", "u", "v">>
OwnTitles == <<"r", "s", "t">>
OneWrite == writes = 2
NoThirdArticle == added[3] = 0

-----------------------------------------------------------------------------
VARIABLE focus

Lives(component) == focus = component

ComponentsInit ==
  /\ focus \in {"rows", "edits", "fetching", "opml", "news", "links", "recs",
                "longRecs", "cards", "monitor", "drill", "store", "years"}
  /\ ReconcileInit /\ EditInit /\ OpmlInit /\ NewsInit /\ LinkInit
  /\ CardInit /\ MonitorInit /\ DrillInit /\ StoreInit
  /\ FetchInit /\ (Lives("fetching") \/ url = "feed")
  /\ RankInit
  /\ IF Lives("recs") THEN TRUE ELSE IF Lives("longRecs") THEN NoThirdArticle
     ELSE \A a \in Articles : added[a] = 1 /\ savedAt[a] = 0 /\ readRow[a].at = 0
  /\ YearsInit /\ (Lives("years") \/ firstWeekday = 0)

ComponentsNext ==
  /\ UNCHANGED focus
  /\ IF Lives("rows") THEN ReconcileNext ELSE UNCHANGED reconcileVars
  /\ IF Lives("edits") THEN EditNext ELSE UNCHANGED <<vars, editVars>>
  /\ IF Lives("fetching") THEN FetchNext ELSE UNCHANGED fetchVars
  /\ IF Lives("opml") THEN OpmlNext /\ Ranked' ELSE UNCHANGED opmlVars
  /\ IF Lives("news") THEN NewsNext ELSE UNCHANGED newsVars
  /\ IF Lives("links") THEN LinkNext ELSE UNCHANGED linkVars
  /\ IF Lives("recs") THEN RankNext /\ (writes' = writes \/ OneWrite')
     ELSE IF Lives("longRecs") THEN RankNext /\ NoThirdArticle'
     ELSE UNCHANGED rankVars
  /\ IF Lives("cards") THEN CardNext ELSE UNCHANGED cardVars
  /\ IF Lives("monitor") THEN MonitorNext ELSE UNCHANGED monitorVars
  /\ IF Lives("drill") THEN DrillNext ELSE UNCHANGED drillVars
  /\ IF Lives("store") THEN StoreNext ELSE UNCHANGED storeVars
  /\ IF Lives("years") THEN YearsNext ELSE UNCHANGED yearsVars

ComponentsSpec ==
  ComponentsInit /\ [][ComponentsNext]_<<focus, reconcileVars, vars, editVars,
    fetchVars, opmlVars, newsVars, linkVars, rankVars, cardVars, monitorVars,
    drillVars, storeVars, yearsVars>>
=============================================================================
