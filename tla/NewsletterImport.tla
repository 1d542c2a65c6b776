-------------------------- MODULE NewsletterImport --------------------------
(***************************************************************************)
(* Newsletters from Postmark's webhook (import_postmark_newsletter in       *)
(* feeds/services.py and its routes in feeds/api.py).  Postmark calls again *)
(* until it gets a success, and may call twice at once; feed, article and   *)
(* issue of a message are created in one transaction.  An insert waits for  *)
(* an open transaction that inserts the same key, and fails if it commits.  *)
(***************************************************************************)
EXTENDS Naturals, FiniteSets

CONSTANTS
  Attempts,      \* calls of the webhook; each draws its own public id
  Messages,
  NoAttempt

ASSUME NewsAssumption == Messages # {} /\ NoAttempt \notin Attempts

VARIABLES
  newsFeed,      \* committed: whether the synthetic feed exists
  newsArticles,  \* committed: the attempt that created the article of a message
  issues,        \* committed: the attempt that created its issue
  attempts       \* the calls

newsVars == <<newsFeed, newsArticles, issues, attempts>>

NewsSteps == {"idle", "look", "feed", "article", "issue", "commit", "reread",
          "created", "found", "conflict", "refused", "lost"}

Open(r) == attempts[r].step \in {"article", "issue", "commit"}

(* What the open transaction of another attempt has inserted.                *)
HoldsFeed(r) == Open(r) /\ attempts[r].ownFeed
HoldsArticle(r, m) == attempts[r].step \in {"issue", "commit"} /\ attempts[r].message = m
HoldsIssue(r, m) == attempts[r].step = "commit" /\ attempts[r].message = m

NewsGoto(r, step) == attempts' = [attempts EXCEPT ![r].step = step]

NewsInit ==
  /\ newsFeed = FALSE
  /\ newsArticles = [m \in Messages |-> NoAttempt]
  /\ issues = [m \in Messages |-> NoAttempt]
  /\ attempts = [r \in Attempts |->
                   [step |-> "idle", message |-> CHOOSE m \in Messages : TRUE,
                    ownFeed |-> FALSE]]

Receive(r, m) ==
  /\ attempts[r].step = "idle"
  /\ attempts' = [attempts EXCEPT ![r] = [@ EXCEPT !.step = "look", !.message = m]]
  /\ UNCHANGED <<newsFeed, newsArticles, issues>>

(* Wrong credentials, query fields, size, JSON or MessageID.                 *)
Refuse(r) ==
  /\ attempts[r].step = "look"
  /\ NewsGoto(r, "refused")
  /\ UNCHANGED <<newsFeed, newsArticles, issues>>

Look(r) ==
  /\ attempts[r].step = "look"
  /\ NewsGoto(r, IF issues[attempts[r].message] # NoAttempt THEN "found" ELSE "feed")
  /\ UNCHANGED <<newsFeed, newsArticles, issues>>

(* newsletter_feed: get_or_create                                            *)
GetFeed(r) ==
  /\ attempts[r].step = "feed"
  /\ newsFeed \/ ~\E q \in Attempts \ {r} : HoldsFeed(q)
  /\ attempts' = [attempts EXCEPT ![r] = [@ EXCEPT !.step = "article", !.ownFeed = ~newsFeed]]
  /\ UNCHANGED <<newsFeed, newsArticles, issues>>

(* Plausible bug: the article is committed by itself.                        *)
CreateArticleAtOnce(r) ==
  LET m == attempts[r].message IN
  /\ attempts[r].step = "article"
  /\ ~\E q \in Attempts \ {r} : HoldsArticle(q, m)
  /\ newsArticles' = [newsArticles EXCEPT ![m] = IF @ = NoAttempt THEN r ELSE @]
  /\ NewsGoto(r, IF newsArticles[m] = NoAttempt THEN "issue" ELSE "reread")
  /\ UNCHANGED <<newsFeed, issues>>

(* unique_article_guid_per_feed: the guid is the message's id.               *)
CreateArticle(r) ==
  LET m == attempts[r].message IN
  /\ attempts[r].step = "article"
  /\ ~\E q \in Attempts \ {r} : HoldsArticle(q, m)
  /\ NewsGoto(r, IF newsArticles[m] = NoAttempt THEN "issue" ELSE "reread")
  /\ UNCHANGED <<newsFeed, newsArticles, issues>>

CreateIssue(r) ==
  LET m == attempts[r].message IN
  /\ attempts[r].step = "issue"
  /\ ~\E q \in Attempts \ {r} : HoldsIssue(q, m)
  /\ NewsGoto(r, IF issues[m] = NoAttempt THEN "commit" ELSE "reread")
  /\ UNCHANGED <<newsFeed, newsArticles, issues>>

Commit(r) ==
  LET m == attempts[r].message IN
  /\ attempts[r].step = "commit"
  /\ newsFeed' = (newsFeed \/ attempts[r].ownFeed)
  /\ newsArticles' = [newsArticles EXCEPT ![m] = r]
  /\ issues' = [issues EXCEPT ![m] = r]
  /\ NewsGoto(r, "created")

(* After an IntegrityError: the committed winner, or the error itself.       *)
Reread(r) ==
  /\ attempts[r].step = "reread"
  /\ NewsGoto(r, IF issues[attempts[r].message] # NoAttempt THEN "found" ELSE "conflict")
  /\ UNCHANGED <<newsFeed, newsArticles, issues>>

(* The process dies or the database fails: an open transaction rolls back.   *)
Break(r) ==
  /\ attempts[r].step \in {"look", "feed", "article", "issue", "commit", "reread"}
  /\ NewsGoto(r, "lost")
  /\ UNCHANGED <<newsFeed, newsArticles, issues>>

NewsNext ==
  \/ \E r \in Attempts, m \in Messages : Receive(r, m)
  \/ \E r \in Attempts :
       Refuse(r) \/ Look(r) \/ GetFeed(r) \/ CreateArticle(r) \/ CreateIssue(r)
       \/ Commit(r) \/ Reread(r) \/ Break(r)

NewsSpec == NewsInit /\ [][NewsNext]_newsVars

-----------------------------------------------------------------------------
NewsTypeOK ==
  /\ newsFeed \in BOOLEAN
  /\ newsArticles \in [Messages -> Attempts \cup {NoAttempt}]
  /\ issues \in [Messages -> Attempts \cup {NoAttempt}]
  /\ attempts \in [Attempts -> [step: NewsSteps, message: Messages, ownFeed: BOOLEAN]]

(* However often and at once Postmark calls and whatever dies: a message has *)
(* its article and its issue from one and the same attempt or neither (the   *)
(* article's URL names the issue's public id), exactly that attempt answered *)
(* "created", every "found" answer has something to find, and no retry is    *)
(* answered with a conflict, which it would then be for ever.                *)
StoredOnce ==
  /\ newsArticles = issues
  /\ \A m \in Messages : issues[m] # NoAttempt => newsFeed
  /\ \A r \in Attempts :
       /\ attempts[r].step = "created" <=> issues[attempts[r].message] = r
       /\ attempts[r].step = "found" => issues[attempts[r].message] # NoAttempt
       /\ attempts[r].step # "conflict"
=============================================================================
