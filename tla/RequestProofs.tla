---------------------------- MODULE RequestProofs ----------------------------
(***************************************************************************)
(* Proofs about what requests of the web application do at once: webhooks   *)
(* that deliver newsletters, signed links, imports of subscriptions.  For   *)
(* any number of requests, a newsletter is stored once, a link is spent     *)
(* once, and imports deadlock only when their documents are at odds, and    *)
(* otherwise leave what they would leave one after the other.               *)
(***************************************************************************)
EXTENDS NewsletterImport, SignedAction, OpmlImport,
        FiniteSetTheorems, NaturalsInduction, WellFoundedInduction, TLAPS

-----------------------------------------------------------------------------
(* Newsletters                                                              *)

(* An attempt that holds the article of a message is alone with it and has  *)
(* found no committed row; one that lost the race lost it to a committed    *)
(* winner; and a committed row names the attempt that answered "created".   *)
ImportInv ==
  /\ newsArticles = issues
  /\ \A m \in Messages : issues[m] # NoAttempt => newsFeed
  /\ \A r \in Attempts, m \in Messages :
       issues[m] = r <=> attempts[r].step = "created" /\ attempts[r].message = m
  /\ \A r \in Attempts :
       /\ attempts[r].step \in {"found", "reread"} => issues[attempts[r].message] # NoAttempt
       /\ attempts[r].step # "conflict"
       /\ Open(r) => newsFeed \/ attempts[r].ownFeed
       /\ attempts[r].step \in {"issue", "commit"} =>
            /\ issues[attempts[r].message] = NoAttempt
            /\ ~\E q \in Attempts \ {r} : HoldsArticle(q, attempts[r].message)

LEMMA InitiallyTyped ==
  ASSUME NewsInit
  PROVE  NewsTypeOK
BY NewsAssumption DEF NewsInit, NewsTypeOK, NewsSteps

LEMMA NewsGotoFacts ==
  ASSUME NewsTypeOK, NEW r \in Attempts, NEW s \in NewsSteps, NewsGoto(r, s)
  PROVE  /\ attempts' \in [Attempts -> [step: NewsSteps, message: Messages, ownFeed: BOOLEAN]]
         /\ attempts'[r].step = s
         /\ attempts'[r].message = attempts[r].message
         /\ attempts'[r].ownFeed = attempts[r].ownFeed
         /\ \A q \in Attempts : q # r => attempts'[q] = attempts[q]
<1> DEFINE a == attempts[r]
<1>1. a \in [step: NewsSteps, message: Messages, ownFeed: BOOLEAN]
  BY DEF NewsTypeOK
<1>2. attempts' = [attempts EXCEPT ![r] = [a EXCEPT !.step = s]]
  BY DEF NewsGoto
<1> HIDE DEF a
<1>3. /\ [a EXCEPT !.step = s] \in [step: NewsSteps, message: Messages, ownFeed: BOOLEAN]
      /\ [a EXCEPT !.step = s].step = s
      /\ [a EXCEPT !.step = s].message = a.message
      /\ [a EXCEPT !.step = s].ownFeed = a.ownFeed
  BY <1>1
<1>4. QED
  BY <1>2, <1>3 DEF NewsTypeOK, a

LEMMA ImportStep ==
  ASSUME NewsTypeOK, ImportInv, [NewsNext]_newsVars
  PROVE  NewsTypeOK' /\ ImportInv'
<1> USE DEF ImportInv, Open, HoldsArticle
<1>0. /\ issues \in [Messages -> Attempts \cup {NoAttempt}]
      /\ newsArticles \in [Messages -> Attempts \cup {NoAttempt}]
      /\ attempts \in [Attempts -> [step: NewsSteps, message: Messages, ownFeed: BOOLEAN]]
      /\ newsFeed \in BOOLEAN
      /\ NoAttempt \notin Attempts
  BY NewsAssumption DEF NewsTypeOK
<1>1. ASSUME NEW r \in Attempts, NEW m \in Messages, Receive(r, m)
      PROVE  NewsTypeOK' /\ ImportInv'
  <2> DEFINE a == attempts[r]
             b == [a EXCEPT !.step = "look", !.message = m]
  <2>1. attempts' = [attempts EXCEPT ![r] = b] /\ UNCHANGED <<newsFeed, newsArticles, issues>>
    BY <1>1 DEF Receive
  <2>2. a \in [step: NewsSteps, message: Messages, ownFeed: BOOLEAN] /\ a.step = "idle"
    BY <1>0, <1>1 DEF Receive
  <2> HIDE DEF a
  <2>3. b \in [step: NewsSteps, message: Messages, ownFeed: BOOLEAN] /\ b.step = "look"
    BY <2>2 DEF NewsSteps
  <2> HIDE DEF b
  <2>4. /\ attempts'[r].step = "look"
        /\ \A q \in Attempts : q # r => attempts'[q] = attempts[q]
        /\ attempts' \in [Attempts -> [step: NewsSteps, message: Messages, ownFeed: BOOLEAN]]
    BY <1>0, <2>1, <2>3
  <2>5. NewsTypeOK'
    BY <2>1, <2>4 DEF NewsTypeOK
  <2>6. QED
    BY <1>0, <2>1, <2>2, <2>4, <2>5 DEF a
<1>2. ASSUME NEW r \in Attempts, Refuse(r) \/ Look(r) \/ CreateIssue(r) \/ Reread(r) \/ Break(r)
      PROVE  NewsTypeOK' /\ ImportInv'
  <2>1. PICK s \in {"refused", "found", "feed", "commit", "lost"} :
          /\ NewsGoto(r, s)
          /\ UNCHANGED <<newsFeed, newsArticles, issues>>
          /\ attempts[r].step # "created"
          /\ s = "found" => issues[attempts[r].message] # NoAttempt
          /\ s = "commit" => attempts[r].step = "issue"
    BY <1>0, <1>2 DEF Refuse, Look, CreateIssue, Reread, Break
  <2>2. s \in NewsSteps
    BY <2>1 DEF NewsSteps
  <2>3. NewsTypeOK'
    BY <1>0, <2>1, <2>2, NewsGotoFacts DEF NewsTypeOK
  <2>4. /\ attempts'[r].step = s
        /\ \A q \in Attempts : /\ attempts'[q].message = attempts[q].message
                               /\ attempts'[q].ownFeed = attempts[q].ownFeed
                               /\ q # r => attempts'[q].step = attempts[q].step
    BY <1>0, <2>1, <2>2, NewsGotoFacts
  <2>5. /\ newsFeed' = newsFeed /\ newsArticles' = newsArticles /\ issues' = issues
        /\ s # "created" /\ s # "conflict" /\ s # "article" /\ s # "issue" /\ s # "reread"
        /\ attempts[r].step # "created"
        /\ s = "found" => issues[attempts[r].message] # NoAttempt
        /\ s = "commit" => attempts[r].step = "issue"
    BY <2>1
  <2>6. ASSUME NEW q \in Attempts, q # r
        PROVE  /\ attempts'[q].message = attempts[q].message
               /\ attempts'[q].ownFeed = attempts[q].ownFeed
               /\ attempts'[q].step = attempts[q].step
    BY <2>4, <2>6
  <2>7. \A q \in Attempts, m \in Messages :
          issues'[m] = q <=> attempts'[q].step = "created" /\ attempts'[q].message = m
    <3>1. TAKE q \in Attempts, m \in Messages
    <3>2. issues[m] = q <=> attempts[q].step = "created" /\ attempts[q].message = m
      OBVIOUS
    <3>3. CASE q = r
      BY <2>4, <2>5, <3>2, <3>3
    <3>4. CASE q # r
      BY <2>5, <2>6, <3>2, <3>4
    <3>5. QED
      BY <3>3, <3>4
  <2>8. ASSUME NEW q \in Attempts
        PROVE  /\ attempts'[q].step \in {"found", "reread"} =>
                    issues'[attempts'[q].message] # NoAttempt
               /\ attempts'[q].step # "conflict"
               /\ Open(q)' => newsFeed' \/ attempts'[q].ownFeed
               /\ attempts'[q].step \in {"issue", "commit"} =>
                    attempts[q].step \in {"issue", "commit"}
    <3>1. CASE q = r
      BY <2>4, <2>5, <3>1
    <3>2. CASE q # r
      BY <2>5, <2>6, <3>2
    <3>3. QED
      BY <3>1, <3>2
  <2>9. ASSUME NEW q \in Attempts, attempts'[q].step \in {"issue", "commit"}
        PROVE  /\ issues'[attempts'[q].message] = NoAttempt
               /\ ~\E p \in Attempts \ {q} : HoldsArticle(p, attempts[q].message)'
    <3>1. attempts[q].step \in {"issue", "commit"}
      BY <2>8, <2>9
    <3>2. \A p \in Attempts : HoldsArticle(p, attempts[q].message)' =>
                               HoldsArticle(p, attempts[q].message)
      BY <2>4, <2>8
    <3>3. QED
      BY <2>4, <2>5, <3>1, <3>2
  <2>10. QED
    BY <2>3, <2>4, <2>5, <2>7, <2>8, <2>9
<1>3. ASSUME NEW r \in Attempts, GetFeed(r)
      PROVE  NewsTypeOK' /\ ImportInv'
  <2> DEFINE a == attempts[r]
             b == [a EXCEPT !.step = "article", !.ownFeed = ~newsFeed]
  <2>1. attempts' = [attempts EXCEPT ![r] = b] /\ UNCHANGED <<newsFeed, newsArticles, issues>>
    BY <1>3 DEF GetFeed
  <2>2. a \in [step: NewsSteps, message: Messages, ownFeed: BOOLEAN] /\ a.step = "feed"
    BY <1>0, <1>3 DEF GetFeed
  <2> HIDE DEF a
  <2>3. /\ b \in [step: NewsSteps, message: Messages, ownFeed: BOOLEAN]
        /\ b.step = "article" /\ b.message = a.message /\ b.ownFeed = ~newsFeed
    BY <1>0, <2>2 DEF NewsSteps
  <2> HIDE DEF b
  <2>4. /\ attempts'[r] = b
        /\ \A q \in Attempts : q # r => attempts'[q] = attempts[q]
        /\ attempts' \in [Attempts -> [step: NewsSteps, message: Messages, ownFeed: BOOLEAN]]
    BY <1>0, <2>1, <2>3
  <2>5. NewsTypeOK'
    BY <1>0, <2>1, <2>4 DEF NewsTypeOK
  <2>6. QED
    BY <1>0, <2>1, <2>2, <2>3, <2>4, <2>5 DEF a
<1>4. ASSUME NEW r \in Attempts, CreateArticle(r)
      PROVE  NewsTypeOK' /\ ImportInv'
  <2> DEFINE m == attempts[r].message
             s == IF newsArticles[m] = NoAttempt THEN "issue" ELSE "reread"
  <2>1. /\ attempts[r].step = "article" /\ NewsGoto(r, s)
        /\ UNCHANGED <<newsFeed, newsArticles, issues>>
        /\ \A q \in Attempts \ {r} : ~HoldsArticle(q, m)
        /\ s \in NewsSteps /\ m \in Messages
    BY <1>0, <1>4 DEF CreateArticle, NewsSteps
  <2>2. NewsTypeOK'
    BY <1>0, <2>1, NewsGotoFacts DEF NewsTypeOK
  <2>3. QED
    BY <1>0, <2>1, <2>2, NewsGotoFacts
<1>5. ASSUME NEW r \in Attempts, Commit(r)
      PROVE  NewsTypeOK' /\ ImportInv'
  <2> DEFINE m == attempts[r].message
  <2>1. /\ attempts[r].step = "commit" /\ NewsGoto(r, "created") /\ "created" \in NewsSteps
        /\ newsFeed' = (newsFeed \/ attempts[r].ownFeed)
        /\ newsArticles' = [newsArticles EXCEPT ![m] = r]
        /\ issues' = [issues EXCEPT ![m] = r]
        /\ m \in Messages
    BY <1>0, <1>5 DEF Commit, NewsSteps
  <2>2. NewsTypeOK'
    BY <1>0, <2>1, NewsGotoFacts DEF NewsTypeOK
  <2>3. newsFeed' = TRUE /\ newsArticles' = issues'
    BY <1>0, <2>1
  <2>4. \A n \in Messages : issues'[n] = IF n = m THEN r ELSE issues[n]
    BY <1>0, <2>1
  <2>5. issues[m] = NoAttempt /\ \A q \in Attempts \ {r} : ~HoldsArticle(q, m)
    BY <2>1
  <2> HIDE DEF m
  <2>6. ASSUME NEW q \in Attempts, NEW n \in Messages
        PROVE  issues'[n] = q <=> attempts'[q].step = "created" /\ attempts'[q].message = n
    BY <1>0, <2>1, <2>4, <2>5, NewsGotoFacts DEF m
  <2>7. QED
    BY <1>0, <2>1, <2>2, <2>3, <2>4, <2>5, <2>6, NewsGotoFacts DEF m
<1>6. CASE UNCHANGED newsVars
  BY <1>0, <1>6 DEF newsVars, NewsTypeOK
<1>7. QED
  BY <1>1, <1>2, <1>3, <1>4, <1>5, <1>6 DEF NewsNext

(* However often and at once Postmark calls and whatever dies, a message is *)
(* stored once, as a whole, and every answer is true.                       *)
THEOREM NewslettersStoredOnce == NewsSpec => []StoredOnce
<1>1. NewsInit => NewsTypeOK /\ ImportInv
  <2> SUFFICES ASSUME NewsInit
               PROVE  NewsTypeOK /\ ImportInv
    OBVIOUS
  <2>1. /\ newsArticles = issues
        /\ \A m \in Messages : issues[m] = NoAttempt
        /\ \A r \in Attempts : attempts[r].step = "idle"
    BY DEF NewsInit
  <2>2. QED
    BY <2>1, InitiallyTyped, NewsAssumption DEF ImportInv, Open
<1>2. NewsTypeOK /\ ImportInv /\ [NewsNext]_newsVars => NewsTypeOK' /\ ImportInv'
  BY ImportStep
<1>3. NewsTypeOK /\ ImportInv => StoredOnce
  BY NewsAssumption DEF NewsTypeOK, ImportInv, StoredOnce
<1>4. QED
  BY <1>1, <1>2, <1>3, PTL DEF NewsSpec

-----------------------------------------------------------------------------
(* Signed links                                                             *)

(* A request never knows a later time than the clock's, and the nonce of a  *)
(* link that acts stays until its deadline has passed.                      *)
NonceInv ==
  /\ clock \in Nat
  /\ nonces \subseteq Links
  /\ uses \in [Uses -> [step: LinkSteps, link: Links, now: Nat]]
  /\ \A u \in Uses :
       /\ uses[u].now <= clock
       /\ uses[u].step \in Begun =>
            uses[u].link \in nonces \/ clock > Deadline[uses[u].link]

(* What a request's step leaves alone.                                      *)
LEMMA LinkGotoFacts ==
  ASSUME NonceInv, NEW u \in Uses, NEW s \in LinkSteps, LinkGoto(u, s)
  PROVE  /\ uses' \in [Uses -> [step: LinkSteps, link: Links, now: Nat]]
         /\ uses'[u].step = s
         /\ uses'[u].link = uses[u].link
         /\ uses'[u].now = uses[u].now
         /\ \A v \in Uses : v # u => uses'[v] = uses[v]
<1> DEFINE a == uses[u]
<1>1. a \in [step: LinkSteps, link: Links, now: Nat]
  BY DEF NonceInv
<1>2. uses' = [uses EXCEPT ![u] = [a EXCEPT !.step = s]]
  BY DEF LinkGoto
<1> HIDE DEF a
<1>3. /\ [a EXCEPT !.step = s] \in [step: LinkSteps, link: Links, now: Nat]
      /\ [a EXCEPT !.step = s].step = s
      /\ [a EXCEPT !.step = s].link = a.link
      /\ [a EXCEPT !.step = s].now = a.now
  BY <1>1
<1>4. QED
  BY <1>2, <1>3 DEF NonceInv, a

LEMMA SpendStep ==
  ASSUME NonceInv, SpentOnce, [LinkNext]_linkVars
  PROVE  NonceInv' /\ SpentOnce'
<1> USE DEF Begun
<1>0. /\ clock \in Nat /\ nonces \subseteq Links
      /\ uses \in [Uses -> [step: LinkSteps, link: Links, now: Nat]]
      /\ \A u \in Uses : uses[u].now \in Nat /\ uses[u].now <= clock /\ uses[u].link \in Links
      /\ \A l \in Links : Deadline[l] \in Nat
      /\ {"idle", "checked", "purged", "spent", "acted", "failed", "rejected"} \subseteq LinkSteps
  BY LinkAssumption DEF NonceInv, LinkSteps
<1>1. CASE LinkTick
  BY <1>0, <1>1 DEF LinkTick, NonceInv, SpentOnce
<1>2. ASSUME NEW u \in Uses, NEW l \in Links, Check(u, l) \/ Reject(u, l)
      PROVE  NonceInv' /\ SpentOnce'
  <2>1. PICK s \in {"checked", "rejected"} :
          uses' = [uses EXCEPT ![u] = [step |-> s, link |-> l, now |-> clock]]
    BY <1>2 DEF Check, Reject
  <2>2. UNCHANGED <<clock, nonces>>
    BY <1>2 DEF Check, Reject
  <2>3. QED
    BY <1>0, <2>1, <2>2 DEF NonceInv, SpentOnce
<1>3. ASSUME NEW u \in Uses, Purge(u)
      PROVE  NonceInv' /\ SpentOnce'
  <2>1. /\ LinkGoto(u, "purged") /\ clock' = clock
        /\ nonces' = {l \in nonces : Deadline[l] >= uses[u].now}
        /\ uses[u].step = "checked"
    BY <1>3 DEF Purge, Kept
  <2>2. /\ uses' \in [Uses -> [step: LinkSteps, link: Links, now: Nat]]
        /\ \A v \in Uses : /\ uses'[v].link = uses[v].link
                           /\ uses'[v].now = uses[v].now
                           /\ uses'[v].step \in {"spent", "acted", "failed"}
                                => uses[v].step \in {"spent", "acted", "failed"}
    BY <1>0, <2>1, LinkGotoFacts
  <2>3. ASSUME NEW v \in Uses, uses'[v].step \in Begun
        PROVE  uses'[v].link \in nonces' \/ clock' > Deadline[uses'[v].link]
    <3>1. uses[v].link \in nonces \/ clock > Deadline[uses[v].link]
      BY <2>2, <2>3 DEF NonceInv
    <3>2. uses[v].link \in Links /\ Deadline[uses[v].link] \in Nat
          /\ uses[u].now \in Nat /\ uses[u].now <= clock
      BY <1>0
    <3>3. QED
      BY <1>0, <2>1, <2>2, <3>1, <3>2
  <2>4. NonceInv'
    BY <1>0, <2>1, <2>2, <2>3 DEF NonceInv
  <2>5. SpentOnce'
    BY <2>1, <2>2 DEF SpentOnce
  <2>6. QED
    BY <2>4, <2>5
<1>4. ASSUME NEW u \in Uses, Spend(u)
      PROVE  NonceInv' /\ SpentOnce'
  <2> DEFINE s == IF uses[u].link \in nonces THEN "rejected" ELSE "spent"
  <2>1. /\ LinkGoto(u, s) /\ clock' = clock /\ s \in LinkSteps
        /\ nonces' = nonces \cup {uses[u].link}
        /\ uses[u].step = "purged"
    BY <1>0, <1>4 DEF Spend
  <2>2. /\ uses' \in [Uses -> [step: LinkSteps, link: Links, now: Nat]]
        /\ uses'[u].step = s
        /\ \A v \in Uses : /\ uses'[v].link = uses[v].link
                           /\ uses'[v].now = uses[v].now
                           /\ v # u => uses'[v].step = uses[v].step
    BY <1>0, <2>1, LinkGotoFacts
  <2>3. ASSUME NEW v \in Uses, uses'[v].step \in Begun
        PROVE  /\ uses'[v].link \in nonces' \/ clock' > Deadline[uses'[v].link]
               /\ v = u => uses[u].link \notin nonces
    <3>1. CASE v = u
      BY <2>1, <2>2, <2>3, <3>1
    <3>2. CASE v # u
      BY <2>1, <2>2, <2>3, <3>2 DEF NonceInv
    <3>3. QED
      BY <3>1, <3>2
  <2>4. NonceInv'
    BY <1>0, <2>1, <2>2, <2>3 DEF NonceInv
  <2>5. ASSUME NEW v \in Uses, NEW w \in Uses, v # w, uses'[v].link = uses'[w].link,
               uses'[v].step \in Begun, uses'[w].step \in Begun
        PROVE  clock' > Deadline[uses'[v].link]
    <3>1. CASE v # u /\ w # u
      BY <2>1, <2>2, <2>5, <3>1 DEF SpentOnce
    <3>2. CASE v = u
      <4>1. uses[w].step \in Begun /\ uses[w].link \notin nonces
        BY <2>2, <2>3, <2>5, <3>2
      <4>2. QED
        BY <2>1, <2>2, <2>5, <4>1 DEF NonceInv
    <3>3. CASE w = u
      <4>1. uses[v].step \in Begun /\ uses[v].link \notin nonces
        BY <2>2, <2>3, <2>5, <3>3
      <4>2. QED
        BY <2>1, <2>2, <2>5, <4>1 DEF NonceInv
    <3>4. QED
      BY <3>1, <3>2, <3>3
  <2>6. SpentOnce'
    BY <2>5 DEF SpentOnce
  <2>7. QED
    BY <2>4, <2>6
<1>5. ASSUME NEW u \in Uses, Act(u)
      PROVE  NonceInv' /\ SpentOnce'
  <2>1. PICK s \in {"acted", "failed"} : LinkGoto(u, s)
    BY <1>5 DEF Act
  <2>2. uses[u].step = "spent" /\ UNCHANGED <<clock, nonces>>
    BY <1>5 DEF Act
  <2>3. /\ uses' \in [Uses -> [step: LinkSteps, link: Links, now: Nat]]
        /\ \A v \in Uses : /\ uses'[v].link = uses[v].link
                           /\ uses'[v].now = uses[v].now
                           /\ uses'[v].step \in {"spent", "acted", "failed"}
                                => uses[v].step \in {"spent", "acted", "failed"}
    BY <1>0, <2>1, <2>2, LinkGotoFacts
  <2>4. QED
    BY <1>0, <2>2, <2>3 DEF NonceInv, SpentOnce
<1>6. CASE UNCHANGED linkVars
  BY <1>6 DEF linkVars, NonceInv, SpentOnce
<1>7. QED
  BY <1>1, <1>2, <1>3, <1>4, <1>5, <1>6 DEF LinkNext

(* Until its deadline a link acts at most once, however requests overlap,   *)
(* purge and fail.                                                          *)
THEOREM LinksAreSingleUse == LinkSpec => []SpentOnce
<1>1. LinkInit => NonceInv /\ SpentOnce
  <2> SUFFICES ASSUME LinkInit
               PROVE  NonceInv /\ SpentOnce
    OBVIOUS
  <2>1. /\ uses \in [Uses -> [step: LinkSteps, link: Links, now: Nat]]
        /\ \A u \in Uses : uses[u].step = "idle" /\ uses[u].now = 0
        /\ clock = 0 /\ nonces = {}
    BY LinkAssumption DEF LinkInit, LinkSteps
  <2>2. QED
    BY <2>1 DEF NonceInv, SpentOnce, Begun
<1>2. NonceInv /\ SpentOnce /\ [LinkNext]_linkVars => NonceInv' /\ SpentOnce'
  BY SpendStep
<1>3. QED
  BY <1>1, <1>2, PTL DEF LinkSpec

-----------------------------------------------------------------------------
(* Imports of subscriptions                                                 *)

(* A finite set has a first element under a strict order.                   *)
LEMMA FirstExists ==
  ASSUME NEW S, IsFiniteSet(S), S # {}, NEW R,
         \A x \in S : <<x, x>> \notin R,
         \A x, y, z \in S : <<x, y>> \in R /\ <<y, z>> \in R => <<x, z>> \in R
  PROVE  \E x \in S : \A y \in S : <<y, x>> \notin R
<1> DEFINE Below(x) == {y \in S : <<y, x>> \in R}
           rank == [x \in S |-> Cardinality(Below(x))]
<1>1. \A x \in S : IsFiniteSet(Below(x)) /\ rank[x] \in Nat
  <2>1. \A x \in S : Below(x) \in SUBSET S
    OBVIOUS
  <2>2. \A x \in S : IsFiniteSet(Below(x))
    BY <2>1, FS_Subset
  <2>3. QED
    BY <2>2, FS_CardinalityType
<1>2. ASSUME NEW x \in S, NEW y \in S, <<y, x>> \in R
      PROVE  rank[y] < rank[x]
  <2>1. Below(y) \in SUBSET Below(x) /\ y \in Below(x) /\ y \notin Below(y)
    BY <1>2
  <2>2. /\ Cardinality(Below(y)) <= Cardinality(Below(x))
        /\ Cardinality(Below(x)) = Cardinality(Below(y)) => Below(x) = Below(y)
    BY <1>1, <2>1, FS_Subset
  <2>3. Cardinality(Below(x)) # Cardinality(Below(y))
    BY <2>1, <2>2
  <2>4. Cardinality(Below(x)) \in Nat /\ Cardinality(Below(y)) \in Nat
    BY <1>1
  <2>5. QED
    BY <2>2, <2>3, <2>4
<1> HIDE DEF rank
<1> DEFINE T == {rank[x] : x \in S}
<1>3. T \subseteq Nat /\ T # {}
  <2>1. \A x \in S : rank[x] \in Nat
    BY <1>1
  <2>2. QED
    BY <2>1
<1>4. PICK t \in T : \A u \in T : ~(<<u, t>> \in OpToRel(<, Nat))
  BY <1>3, NatLessThanWellFounded, WFMin
<1>5. PICK x \in S : t = rank[x]
  OBVIOUS
<1>6. ASSUME NEW y \in S
      PROVE  <<y, x>> \notin R
  <2>1. rank[y] \in T /\ rank[y] \in Nat /\ rank[x] \in Nat
    BY <1>1
  <2>2. ~(rank[y] < rank[x])
    BY <1>4, <1>5, <2>1 DEF OpToRel
  <2>3. QED
    BY <1>2, <2>2
<1>7. QED
  BY <1>6

KeysOf(doc) == {KeyOf[n] : n \in PlannedNames(doc)}

(* What an open import i has done and has left to do, beside the committed  *)
(* categories: keys are locked in ascending order and before a category is  *)
(* made, a name is filed before a feed is written, feeds are written in     *)
(* ascending order, and no slug it has made is made or committed twice.     *)
Progress(i, committedSlugs) ==
  /\ i.doc \in Files /\ ~Conflicting(i.doc)
  /\ i.keys \cup i.locked = KeysOf(i.doc)
  /\ \A k \in i.locked, l \in i.keys : k < l
  /\ i.step # "locking" => i.keys = {}
  /\ i.names \subseteq PlannedNames(i.doc)
  /\ i.step = "writing" => i.names = {}
  /\ \A n \in PlannedNames(i.doc) \ i.names :
       i.made[n] # NoSlug \/ committedSlugs[n] # NoSlug
  /\ \A n \in Names : i.made[n] # NoSlug =>
       /\ n \in PlannedNames(i.doc) /\ i.step # "locking"
       /\ \E k \in Nat \ {0} : i.made[n] = <<SlugOf[n], k>>
       /\ committedSlugs[n] = NoSlug
       /\ \A m \in Names :
            i.made[n] # committedSlugs[m] /\ (n # m => i.made[n] # i.made[m])
  /\ i.feeds \cup i.written = Planned(i.doc)
  /\ \A x \in i.written, y \in i.feeds : FeedBefore(x, y)
  /\ i.step # "writing" => i.written = {}

(* No key, slug or row is held by two open imports.                         *)
Disjoint(i, j) ==
  /\ i.locked \cap j.locked = {}
  /\ \A x \in i.written, y \in j.written : x.url # y.url
  /\ \A n, m \in Names : i.made[n] # NoSlug => i.made[n] # j.made[m]

OpmlInv ==
  /\ OpmlTypeOK
  /\ \A p \in Importers : Active(p) => Progress(imports[p], categories)
  /\ \A p, q \in Importers :
       p # q /\ Active(p) /\ Active(q) => Disjoint(imports[p], imports[q])
  /\ SerialOutcome

-----------------------------------------------------------------------------
LEMMA OutlineFacts ==
  ASSUME NEW x \in Outline
  PROVE  /\ x.url \in FeedUrls /\ x.url \in Nat
         /\ x.category \in Names \cup {NoName} /\ x.category \in Nat
<1>1. x.url \in FeedUrls /\ x.category \in Names \cup {NoName}
  BY DEF Outline
<1>2. FeedUrls \subseteq Nat /\ Names \subseteq Nat
  BY OpmlAssumption
<1>3. x.url \in Nat
  BY <1>1, <1>2
<1>4. Names \cup {NoName} \subseteq Nat
  BY <1>2 DEF NoName
<1>5. QED
  BY <1>1, <1>3, <1>4

LEMMA DocFacts ==
  ASSUME NEW doc \in Files
  PROVE  /\ Planned(doc) \subseteq Outline /\ IsFiniteSet(Planned(doc))
         /\ PlannedNames(doc) \subseteq Names /\ IsFiniteSet(PlannedNames(doc))
         /\ KeysOf(doc) \subseteq Int /\ IsFiniteSet(KeysOf(doc))
<1>1. doc \in Seq(Outline)
  BY OpmlAssumption
<1>2. Planned(doc) \subseteq Outline
  BY <1>1 DEF Planned, Range
<1>3. IsFiniteSet(Planned(doc))
  <2>1. doc \in Surjection(1..Len(doc), Planned(doc))
    BY <1>1 DEF Surjection, Planned, Range
  <2>2. IsFiniteSet(1..Len(doc))
    BY <1>1, FS_Interval
  <2>3. QED
    BY <2>1, <2>2, FS_Surjection
<1>4. PlannedNames(doc) \subseteq Names
  BY <1>2 DEF PlannedNames, Outline
<1>5. IsFiniteSet(PlannedNames(doc))
  <2> DEFINE f == [x \in Planned(doc) |-> x.category]
             T == {x.category : x \in Planned(doc)}
  <2>1. f \in Surjection(Planned(doc), T)
    BY DEF Surjection
  <2>2. IsFiniteSet(T)
    BY <1>3, <2>1, FS_Surjection
  <2>3. PlannedNames(doc) \in SUBSET T
    BY DEF PlannedNames
  <2>4. QED
    BY <2>2, <2>3, FS_Subset
<1>6. IsFiniteSet(KeysOf(doc))
  <2> DEFINE f == [n \in PlannedNames(doc) |-> KeyOf[n]]
  <2>1. f \in Surjection(PlannedNames(doc), KeysOf(doc))
    BY DEF Surjection, KeysOf
  <2>2. QED
    BY <1>5, <2>1, FS_Surjection
<1>7. KeysOf(doc) \subseteq Int
  BY <1>4, OpmlAssumption DEF KeysOf
<1>8. QED
  BY <1>2, <1>3, <1>4, <1>5, <1>6, <1>7

(* The next key, name and feed are what they are called.                    *)
LEMMA NextFacts ==
  ASSUME NEW p \in Importers, Progress(imports[p], categories)
  PROVE  /\ imports[p].keys # {} =>
              /\ NextKey(p) \in imports[p].keys
              /\ \A k \in imports[p].keys \ {NextKey(p)} : NextKey(p) < k
         /\ imports[p].names # {} => NextName(p) \in imports[p].names
         /\ imports[p].feeds # {} =>
              /\ NextFiling(p) \in imports[p].feeds
              /\ \A x \in imports[p].feeds \ {NextFiling(p)} : FeedBefore(NextFiling(p), x)
<1> DEFINE i == imports[p]
<1>1. /\ i.doc \in Files /\ ~Conflicting(i.doc)
      /\ i.keys \in SUBSET KeysOf(i.doc)
      /\ i.names \in SUBSET PlannedNames(i.doc)
      /\ i.feeds \in SUBSET Planned(i.doc)
  BY DEF Progress
<1>2. /\ IsFiniteSet(i.keys) /\ i.keys \subseteq Int
      /\ IsFiniteSet(i.names) /\ i.names \subseteq Names /\ i.names \subseteq Int
      /\ IsFiniteSet(i.feeds) /\ i.feeds \subseteq Outline
  <2>1. IsFiniteSet(i.keys) /\ IsFiniteSet(i.names) /\ IsFiniteSet(i.feeds)
    BY <1>1, DocFacts, FS_Subset
  <2>2. Names \subseteq Int
    BY OpmlAssumption
  <2>3. /\ KeysOf(i.doc) \subseteq Int /\ PlannedNames(i.doc) \subseteq Names
        /\ Planned(i.doc) \subseteq Outline
    BY <1>1, DocFacts
  <2>4. QED
    BY <1>1, <2>1, <2>2, <2>3
<1> HIDE DEF i
<1>3. ASSUME NEW S, IsFiniteSet(S), S \subseteq Int, S # {}
      PROVE  \E x \in S : \A y \in S \ {x} : x < y
  <2> DEFINE R == {r \in S \X S : r[1] < r[2]}
  <2>1. PICK x \in S : \A y \in S : <<y, x>> \notin R
    <3>1. /\ \A x \in S : <<x, x>> \notin R
          /\ \A x, y, z \in S : <<x, y>> \in R /\ <<y, z>> \in R => <<x, z>> \in R
      BY <1>3
    <3> HIDE DEF R
    <3>2. QED
      BY <1>3, <3>1, FirstExists
  <2>2. \A y \in S : ~(y < x)
    BY <2>1
  <2>3. QED
    BY <1>3, <2>2
<1>4. i.keys # {} => /\ NextKey(p) \in i.keys
                     /\ \A k \in i.keys \ {NextKey(p)} : NextKey(p) < k
  BY <1>2, <1>3 DEF NextKey, i
<1>5. i.names # {} => NextName(p) \in i.names
  BY <1>2, <1>3 DEF NextName, i
<1>6. ASSUME i.feeds # {}
      PROVE  \E x \in i.feeds : \A y \in i.feeds \ {x} : FeedBefore(x, y)
  <2> DEFINE R == {r \in i.feeds \X i.feeds : FeedBefore(r[1], r[2])}
  <2>1. \A x \in i.feeds : x.url \in Nat /\ x.category \in Nat
    BY <1>2, OutlineFacts
  <2>2. PICK x \in i.feeds : \A y \in i.feeds : <<y, x>> \notin R
    <3>1. /\ \A x \in i.feeds : <<x, x>> \notin R
          /\ \A x, y, z \in i.feeds : <<x, y>> \in R /\ <<y, z>> \in R => <<x, z>> \in R
      BY <2>1 DEF FeedBefore
    <3> HIDE DEF R
    <3>2. QED
      BY <1>2, <1>6, <3>1, FirstExists
  <2>3. \A y \in i.feeds \ {x} : y.url # x.url
    BY <1>1 DEF Conflicting
  <2>4. ASSUME NEW y \in i.feeds \ {x}
        PROVE  FeedBefore(x, y)
    <3>1. ~FeedBefore(y, x)
      BY <2>2
    <3>2. y.url # x.url /\ y.url \in Nat /\ x.url \in Nat /\ y.category \in Nat /\ x.category \in Nat
      BY <2>1, <2>3
    <3>3. QED
      BY <3>1, <3>2 DEF FeedBefore
  <2>5. QED
    BY <2>4
<1>7. i.feeds # {} => /\ NextFiling(p) \in i.feeds
                      /\ \A x \in i.feeds \ {NextFiling(p)} : FeedBefore(NextFiling(p), x)
  BY <1>6 DEF NextFiling, i
<1>8. QED
  BY <1>4, <1>5, <1>7 DEF i

LEMMA OpmlTyped ==
  ASSUME OpmlTypeOK, NEW p \in Importers
  PROVE  /\ imports[p] \in ImportRecord
         /\ imports[p].suffix \in Nat \ {0}
         /\ imports[p].locked \subseteq Int /\ imports[p].keys \subseteq Int
         /\ imports[p].feeds \subseteq Outline /\ imports[p].written \subseteq Outline
         /\ imports[p].names \subseteq Names
         /\ imports[p].made \in [Names -> Slugs \cup {NoSlug}]
         /\ imports[p].doc \in Files \cup {<<>>}
<1>1. imports[p] \in ImportRecord
  BY DEF OpmlTypeOK
<1>2. QED
  BY <1>1 DEF ImportRecord

(* A step of one import that commits nothing keeps the invariant if it      *)
(* keeps the import's own part and takes nothing another holds.             *)
LEMMA LocalStep ==
  ASSUME OpmlInv, UNCHANGED <<categories, feeds, committed>>,
         NEW p \in Importers, NEW j \in ImportRecord,
         imports' = [imports EXCEPT ![p] = j],
         j.step \in {"locking", "filing", "writing"} =>
           /\ Progress(j, categories)
           /\ \A q \in Importers \ {p} : Active(q) => Disjoint(j, imports[q])
  PROVE  OpmlInv'
<1>1. imports \in [Importers -> ImportRecord]
  BY DEF OpmlInv, OpmlTypeOK
<1>2. /\ imports' \in [Importers -> ImportRecord]
      /\ imports'[p] = j
      /\ \A q \in Importers \ {p} : imports'[q] = imports[q]
  BY <1>1
<1>3. OpmlTypeOK'
  BY <1>2 DEF OpmlInv, OpmlTypeOK
<1>4. Active(p)' <=> j.step \in {"locking", "filing", "writing"}
  BY <1>2 DEF Active
<1>5. \A q \in Importers \ {p} : Active(q)' <=> Active(q)
  BY <1>2 DEF Active
<1>6. ASSUME NEW q \in Importers, Active(q)'
      PROVE  Progress(imports'[q], categories')
  BY <1>2, <1>4, <1>5, <1>6 DEF OpmlInv
<1>7. ASSUME NEW q \in Importers, NEW r \in Importers, q # r, Active(q)', Active(r)'
      PROVE  Disjoint(imports'[q], imports'[r])
  <2>1. CASE q = p
    BY <1>2, <1>4, <1>5, <1>7, <2>1
  <2>2. CASE r = p
    <3>1. Disjoint(j, imports[q])
      BY <1>4, <1>5, <1>7, <2>2
    <3>2. Disjoint(imports[q], j)
      BY <3>1 DEF Disjoint
    <3>3. QED
      BY <1>2, <1>7, <2>2, <3>2
  <2>3. CASE q # p /\ r # p
    BY <1>2, <1>5, <1>7, <2>3 DEF OpmlInv
  <2>4. QED
    BY <2>1, <2>2, <2>3
<1>8. SerialOutcome'
  BY DEF OpmlInv, SerialOutcome
<1>9. QED
  BY <1>3, <1>6, <1>7, <1>8 DEF OpmlInv

LEMMA FreshFacts ==
  ASSUME NEW step \in OpmlSteps, NEW doc \in Files \cup {<<>>}
  PROVE  /\ FreshImport(step, doc) \in ImportRecord
         /\ FreshImport(step, doc).step = step /\ FreshImport(step, doc).doc = doc
BY DEF FreshImport, ImportRecord, NoneMade

LEMMA OpmlInvInitially == OpmlInit => OpmlInv
<1> SUFFICES ASSUME OpmlInit
             PROVE  OpmlInv
  OBVIOUS
<1>1. /\ categories = NoneMade /\ committed = <<>>
      /\ feeds = [u \in FeedUrls |-> NoFeedRow]
      /\ imports = [p \in Importers |-> FreshImport("idle", <<>>)]
  BY DEF OpmlInit
<1>2. FreshImport("idle", <<>>) \in ImportRecord /\ FreshImport("idle", <<>>).step = "idle"
  BY FreshFacts DEF OpmlSteps
<1>3. NoneMade \in [Names -> Slugs \cup {NoSlug}] /\ NoFeedRow \in FiledRow
  BY DEF NoneMade, NoFeedRow, FiledRow
<1>4. OpmlTypeOK
  BY <1>1, <1>2, <1>3 DEF OpmlTypeOK
<1>5. \A p \in Importers : ~Active(p)
  BY <1>1, <1>2 DEF Active
<1>6. SerialOutcome
  BY <1>1 DEF SerialOutcome, NoneMade, NoFeedRow
<1>7. QED
  BY <1>4, <1>5, <1>6 DEF OpmlInv

LEMMA BeginKeeps ==
  ASSUME OpmlInv, NEW p \in Importers, NEW doc \in Files, BeginImport(p, doc)
  PROVE  OpmlInv'
<1>1. UNCHANGED <<categories, feeds, committed>>
  BY DEF BeginImport
<1>2. CASE Conflicting(doc)
  <2>1. imports' = [imports EXCEPT ![p] = FreshImport("rejected", <<>>)]
    BY <1>2 DEF BeginImport
  <2>2. FreshImport("rejected", <<>>) \in ImportRecord /\ FreshImport("rejected", <<>>).step = "rejected"
    BY FreshFacts DEF OpmlSteps
  <2>3. QED
    BY <1>1, <2>1, <2>2, LocalStep
<1>3. CASE ~Conflicting(doc)
  <2> DEFINE j == [FreshImport("locking", doc) EXCEPT
                     !.keys = {KeyOf[n] : n \in PlannedNames(doc)},
                     !.names = PlannedNames(doc), !.feeds = Planned(doc)]
  <2>1. imports' = [imports EXCEPT ![p] = j]
    BY <1>3 DEF BeginImport
  <2>2. /\ j.doc = doc /\ j.keys = KeysOf(doc) /\ j.names = PlannedNames(doc)
        /\ j.feeds = Planned(doc) /\ j.locked = {} /\ j.written = {}
        /\ j.made = NoneMade /\ j.step = "locking"
    BY DEF FreshImport, KeysOf
  <2>3. j \in ImportRecord
    <3> DEFINE a == FreshImport("locking", doc)
    <3>1. a \in ImportRecord
      BY FreshFacts DEF OpmlSteps
    <3>2. /\ KeysOf(doc) \subseteq Int /\ PlannedNames(doc) \subseteq Names
          /\ Planned(doc) \subseteq Outline
      BY DocFacts
    <3>3. j = [a EXCEPT !.keys = KeysOf(doc), !.names = PlannedNames(doc), !.feeds = Planned(doc)]
      BY DEF KeysOf
    <3> HIDE DEF a, j
    <3>4. QED
      BY <3>1, <3>2, <3>3 DEF ImportRecord
  <2> HIDE DEF j
  <2>4. Progress(j, categories)
    BY <1>3, <2>2 DEF Progress, NoneMade
  <2>5. \A q \in Importers : Disjoint(j, imports[q])
    BY <2>2 DEF Disjoint, NoneMade
  <2>6. QED
    BY <1>1, <2>1, <2>3, <2>4, <2>5, LocalStep
<1>4. QED
  BY <1>2, <1>3

(* What an open import holds and how its record may change.                 *)
LEMMA OpenFacts ==
  ASSUME OpmlInv, NEW p \in Importers, Active(p)
  PROVE  /\ imports[p] \in ImportRecord /\ Progress(imports[p], categories)
         /\ \A q \in Importers \ {p} : Active(q) => Disjoint(imports[p], imports[q])
BY OpmlTyped DEF OpmlInv

LEMMA LockKeyKeeps ==
  ASSUME OpmlInv, NEW p \in Importers, LockKey(p)
  PROVE  OpmlInv'
<1> DEFINE i == imports[p]
           k == NextKey(p)
           j == [i EXCEPT !.keys = @ \ {k}, !.locked = @ \cup {k}]
<1>1. /\ i.step = "locking" /\ i.keys # {}
      /\ \A q \in Importers \ {p} : Active(q) => k \notin imports[q].locked
      /\ imports' = [imports EXCEPT ![p] = j]
      /\ UNCHANGED <<categories, feeds, committed>>
  BY DEF LockKey, KeyHolder
<1>2. /\ i \in ImportRecord /\ Progress(i, categories)
      /\ \A q \in Importers \ {p} : Active(q) => Disjoint(i, imports[q])
  BY <1>1, OpenFacts DEF Active
<1>3. k \in i.keys /\ \A l \in i.keys \ {k} : k < l
  BY <1>1, <1>2, NextFacts
<1> HIDE DEF i, k
<1>4. /\ j \in ImportRecord
      /\ j.keys = i.keys \ {k} /\ j.locked = i.locked \cup {k}
      /\ j.step = i.step /\ j.doc = i.doc /\ j.names = i.names /\ j.feeds = i.feeds
      /\ j.made = i.made /\ j.written = i.written
  BY <1>2, <1>3 DEF ImportRecord
<1> HIDE DEF j
<1>5. Progress(j, categories)
  BY <1>1, <1>2, <1>3, <1>4 DEF Progress
<1>6. \A q \in Importers \ {p} : Active(q) => Disjoint(j, imports[q])
  BY <1>1, <1>2, <1>4 DEF Disjoint
<1>7. QED
  BY <1>1, <1>4, <1>5, <1>6, LocalStep

LEMMA AllLockedKeeps ==
  ASSUME OpmlInv, NEW p \in Importers, AllLocked(p)
  PROVE  OpmlInv'
<1> DEFINE i == imports[p]
           j == [i EXCEPT !.step = "filing"]
<1>1. /\ i.step = "locking" /\ i.keys = {}
      /\ imports' = [imports EXCEPT ![p] = j]
      /\ UNCHANGED <<categories, feeds, committed>>
  BY DEF AllLocked
<1>2. /\ i \in ImportRecord /\ Progress(i, categories)
      /\ \A q \in Importers \ {p} : Active(q) => Disjoint(i, imports[q])
  BY <1>1, OpenFacts DEF Active
<1> HIDE DEF i
<1>3. /\ j \in ImportRecord /\ j.step = "filing"
      /\ j.keys = i.keys /\ j.locked = i.locked
      /\ j.doc = i.doc /\ j.names = i.names /\ j.feeds = i.feeds
      /\ j.made = i.made /\ j.written = i.written
  BY <1>2 DEF ImportRecord, OpmlSteps
<1> HIDE DEF j
<1>4. Progress(j, categories)
  BY <1>1, <1>2, <1>3 DEF Progress
<1>5. \A q \in Importers \ {p} : Active(q) => Disjoint(j, imports[q])
  BY <1>2, <1>3 DEF Disjoint
<1>6. QED
  BY <1>1, <1>3, <1>4, <1>5, LocalStep

LEMMA AllFiledKeeps ==
  ASSUME OpmlInv, NEW p \in Importers, AllFiled(p)
  PROVE  OpmlInv'
<1> DEFINE i == imports[p]
           j == [i EXCEPT !.step = "writing"]
<1>1. /\ i.step = "filing" /\ i.names = {}
      /\ imports' = [imports EXCEPT ![p] = j]
      /\ UNCHANGED <<categories, feeds, committed>>
  BY DEF AllFiled
<1>2. /\ i \in ImportRecord /\ Progress(i, categories)
      /\ \A q \in Importers \ {p} : Active(q) => Disjoint(i, imports[q])
  BY <1>1, OpenFacts DEF Active
<1> HIDE DEF i
<1>3. /\ j \in ImportRecord /\ j.step = "writing"
      /\ j.keys = i.keys /\ j.locked = i.locked
      /\ j.doc = i.doc /\ j.names = i.names /\ j.feeds = i.feeds
      /\ j.made = i.made /\ j.written = i.written
  BY <1>2 DEF ImportRecord, OpmlSteps
<1> HIDE DEF j
<1>4. Progress(j, categories)
  BY <1>1, <1>2, <1>3 DEF Progress
<1>5. \A q \in Importers \ {p} : Active(q) => Disjoint(j, imports[q])
  BY <1>2, <1>3 DEF Disjoint
<1>6. QED
  BY <1>1, <1>3, <1>4, <1>5, LocalStep

LEMMA SlugTakenKeeps ==
  ASSUME OpmlInv, NEW p \in Importers, SlugTaken(p)
  PROVE  OpmlInv'
<1> DEFINE i == imports[p]
           j == [i EXCEPT !.suffix = @ + 1]
<1>1. /\ i.step = "filing"
      /\ imports' = [imports EXCEPT ![p] = j]
      /\ UNCHANGED <<categories, feeds, committed>>
  BY DEF SlugTaken
<1>2. /\ i \in ImportRecord /\ Progress(i, categories)
      /\ \A q \in Importers \ {p} : Active(q) => Disjoint(i, imports[q])
  BY <1>1, OpenFacts DEF Active
<1> HIDE DEF i
<1>3. i.suffix \in Nat \ {0}
  BY <1>2 DEF ImportRecord
<1>4. /\ j \in ImportRecord /\ j.step = i.step
      /\ j.keys = i.keys /\ j.locked = i.locked
      /\ j.doc = i.doc /\ j.names = i.names /\ j.feeds = i.feeds
      /\ j.made = i.made /\ j.written = i.written
  BY <1>2, <1>3 DEF ImportRecord
<1> HIDE DEF j
<1>5. Progress(j, categories)
  BY <1>1, <1>2, <1>4 DEF Progress
<1>6. \A q \in Importers \ {p} : Active(q) => Disjoint(j, imports[q])
  BY <1>2, <1>4 DEF Disjoint
<1>7. QED
  BY <1>1, <1>4, <1>5, <1>6, LocalStep

LEMMA ReuseCategoryKeeps ==
  ASSUME OpmlInv, NEW p \in Importers, ReuseCategory(p)
  PROVE  OpmlInv'
<1> DEFINE i == imports[p]
           n == NextName(p)
           j == [i EXCEPT !.names = @ \ {n}, !.suffix = 1]
<1>1. /\ i.step = "filing" /\ i.names # {}
      /\ Filed(p)[n] # NoSlug
      /\ imports' = [imports EXCEPT ![p] = j]
      /\ UNCHANGED <<categories, feeds, committed>>
  BY DEF ReuseCategory
<1>2. /\ i \in ImportRecord /\ Progress(i, categories)
      /\ \A q \in Importers \ {p} : Active(q) => Disjoint(i, imports[q])
  BY <1>1, OpenFacts DEF Active
<1>3. n \in i.names /\ n \in Names
  BY <1>1, <1>2, NextFacts, OpmlTyped DEF OpmlInv
<1>4. i.made[n] # NoSlug \/ categories[n] # NoSlug
  BY <1>1, <1>3 DEF Filed
<1> HIDE DEF i, n
<1>5. /\ j \in ImportRecord /\ j.step = i.step
      /\ j.keys = i.keys /\ j.locked = i.locked
      /\ j.doc = i.doc /\ j.names = i.names \ {n} /\ j.feeds = i.feeds
      /\ j.made = i.made /\ j.written = i.written
  <2>1. i.names \ {n} \in SUBSET Names
    BY <1>2 DEF ImportRecord
  <2>2. 1 \in Nat \ {0}
    OBVIOUS
  <2>3. j \in ImportRecord
    BY <1>2, <2>1, <2>2 DEF ImportRecord
  <2>4. QED
    BY <1>2, <2>3 DEF ImportRecord
<1> HIDE DEF j
<1>6. Progress(j, categories)
  BY <1>1, <1>2, <1>4, <1>5 DEF Progress
<1>7. \A q \in Importers \ {p} : Active(q) => Disjoint(j, imports[q])
  BY <1>2, <1>5 DEF Disjoint
<1>8. QED
  BY <1>1, <1>5, <1>6, <1>7, LocalStep

LEMMA CreateCategoryKeeps ==
  ASSUME OpmlInv, NEW p \in Importers, CreateCategory(p)
  PROVE  OpmlInv'
<1> DEFINE i == imports[p]
           n == NextName(p)
           slug == Slug(p)
           j == [i EXCEPT !.names = @ \ {n}, !.suffix = 1, !.made[n] = slug]
<1>1. /\ i.step = "filing" /\ i.names # {}
      /\ Filed(p)[n] = NoSlug
      /\ slug \notin Range(Filed(p))
      /\ \A q \in Importers \ {p} : Active(q) => \A m \in Names : imports[q].made[m] # slug
      /\ imports' = [imports EXCEPT ![p] = j]
      /\ UNCHANGED <<categories, feeds, committed>>
  BY DEF CreateCategory, SlugHolder
<1>2. /\ i \in ImportRecord /\ Progress(i, categories)
      /\ \A q \in Importers \ {p} : Active(q) => Disjoint(i, imports[q])
  BY <1>1, OpenFacts DEF Active
<1>3. n \in i.names /\ n \in Names
  BY <1>1, <1>2, NextFacts, OpmlTyped DEF OpmlInv
<1>4. /\ i.made[n] = NoSlug /\ categories[n] = NoSlug
      /\ \A m \in Names : slug # (IF i.made[m] # NoSlug THEN i.made[m] ELSE categories[m])
  BY <1>1, <1>3 DEF Filed, Range
<1>5. /\ slug = <<SlugOf[n], i.suffix>> /\ slug \in Slugs /\ slug # NoSlug
      /\ i.suffix \in Nat \ {0}
  <2>1. slug = <<SlugOf[n], i.suffix>>
    BY DEF Slug
  <2>2. i.suffix \in Nat \ {0}
    BY <1>2 DEF ImportRecord
  <2>3. SlugOf[n] \in Range(SlugOf)
    BY <1>3, OpmlAssumption
  <2>4. QED
    BY <2>1, <2>2, <2>3 DEF Slugs, NoSlug
<1> HIDE DEF i, n, slug
<1>6. /\ i.made \in [Names -> Slugs \cup {NoSlug}]
      /\ i.names \ {n} \in SUBSET Names
  BY <1>2 DEF ImportRecord
<1>7. /\ j \in ImportRecord /\ j.step = i.step
      /\ j.keys = i.keys /\ j.locked = i.locked
      /\ j.doc = i.doc /\ j.names = i.names \ {n} /\ j.feeds = i.feeds
      /\ j.made = [i.made EXCEPT ![n] = slug] /\ j.written = i.written
  <2>1. [i.made EXCEPT ![n] = slug] \in [Names -> Slugs \cup {NoSlug}]
    BY <1>3, <1>5, <1>6
  <2>2. 1 \in Nat \ {0}
    OBVIOUS
  <2>3. j \in ImportRecord
    BY <1>2, <1>6, <2>1, <2>2 DEF ImportRecord
  <2>4. QED
    BY <1>2, <2>3 DEF ImportRecord
<1>8. /\ j.made[n] = slug
      /\ \A m \in Names \ {n} : j.made[m] = i.made[m]
  BY <1>3, <1>6, <1>7
<1> HIDE DEF j
(* What the transaction sees covers what is committed and what it made.     *)
<1>9. \A m \in Names : slug # categories[m] /\ slug # i.made[m]
  BY <1>2, <1>4, <1>5 DEF Progress
<1>10. Progress(j, categories)
  <2>1. ASSUME NEW m \in Names, j.made[m] # NoSlug
        PROVE  /\ m \in PlannedNames(j.doc) /\ j.step # "locking"
               /\ \E k \in Nat \ {0} : j.made[m] = <<SlugOf[m], k>>
               /\ categories[m] = NoSlug
               /\ \A l \in Names :
                    j.made[m] # categories[l] /\ (m # l => j.made[m] # j.made[l])
    <3>1. CASE m = n
      BY <1>1, <1>2, <1>3, <1>4, <1>5, <1>7, <1>8, <1>9, <3>1 DEF Progress
    <3>2. CASE m # n
      BY <1>1, <1>2, <1>3, <1>4, <1>5, <1>7, <1>8, <1>9, <2>1, <3>2 DEF Progress
    <3>3. QED
      BY <3>1, <3>2
  <2>2. \A m \in PlannedNames(j.doc) \ j.names :
          j.made[m] # NoSlug \/ categories[m] # NoSlug
    <3>1. PlannedNames(i.doc) \subseteq Names
      BY <1>2, DocFacts DEF Progress
    <3>2. QED
      BY <1>2, <1>5, <1>7, <1>8, <3>1 DEF Progress
  <2>3. QED
    BY <1>2, <1>7, <2>1, <2>2 DEF Progress
<1>11. \A q \in Importers \ {p} : Active(q) => Disjoint(j, imports[q])
  BY <1>1, <1>2, <1>7, <1>8 DEF Disjoint
<1>12. QED
  BY <1>1, <1>7, <1>10, <1>11, LocalStep

LEMMA WriteFeedKeeps ==
  ASSUME OpmlInv, NEW p \in Importers, WriteFeed(p)
  PROVE  OpmlInv'
<1> DEFINE i == imports[p]
           x == NextFiling(p)
           j == [i EXCEPT !.feeds = @ \ {x}, !.written = @ \cup {x}]
<1>1. /\ i.step = "writing" /\ i.feeds # {}
      /\ \A q \in Importers \ {p} : Active(q) => \A y \in imports[q].written : y.url # x.url
      /\ imports' = [imports EXCEPT ![p] = j]
      /\ UNCHANGED <<categories, feeds, committed>>
  BY DEF WriteFeed, RowHolder
<1>2. /\ i \in ImportRecord /\ Progress(i, categories)
      /\ \A q \in Importers \ {p} : Active(q) => Disjoint(i, imports[q])
  BY <1>1, OpenFacts DEF Active
<1>3. x \in i.feeds /\ \A y \in i.feeds \ {x} : FeedBefore(x, y)
  BY <1>1, <1>2, NextFacts
<1> HIDE DEF i, x
<1>4. /\ j \in ImportRecord
      /\ j.feeds = i.feeds \ {x} /\ j.written = i.written \cup {x}
      /\ j.step = i.step /\ j.doc = i.doc /\ j.names = i.names
      /\ j.keys = i.keys /\ j.locked = i.locked /\ j.made = i.made
  <2>1. i.feeds \ {x} \in SUBSET Outline /\ i.written \cup {x} \in SUBSET Outline
    BY <1>2, <1>3 DEF ImportRecord
  <2>2. QED
    BY <1>2, <2>1 DEF ImportRecord
<1> HIDE DEF j
<1>5. Progress(j, categories)
  <2>1. \A y \in j.written, z \in j.feeds : FeedBefore(y, z)
    BY <1>2, <1>3, <1>4 DEF Progress
  <2>2. QED
    BY <1>1, <1>2, <1>3, <1>4, <2>1 DEF Progress
<1>6. \A q \in Importers \ {p} : Active(q) => Disjoint(j, imports[q])
  BY <1>1, <1>2, <1>4 DEF Disjoint
<1>7. QED
  BY <1>1, <1>4, <1>5, <1>6, LocalStep

LEMMA FailImportKeeps ==
  ASSUME OpmlInv, NEW p \in Importers, FailImport(p)
  PROVE  OpmlInv'
<1>1. FreshImport("failed", <<>>) \in ImportRecord /\ FreshImport("failed", <<>>).step = "failed"
  BY FreshFacts DEF OpmlSteps
<1>2. /\ imports' = [imports EXCEPT ![p] = FreshImport("failed", <<>>)]
      /\ UNCHANGED <<categories, feeds, committed>>
  BY DEF FailImport
<1>3. QED
  BY <1>1, <1>2, LocalStep

(* The API cannot take a name or a slug an open import has made.            *)
LEMMA PostCategoryKeeps ==
  ASSUME OpmlInv, NEW post \in Posts, PostCategory(post[1], post[2])
  PROVE  OpmlInv'
<1> DEFINE n == post[1]
           slug == post[2]
<1>1. n \in Names /\ slug \in Slugs /\ slug # NoSlug
  BY OpmlAssumption DEF Slugs
<1>2. categories \in [Names -> Slugs \cup {NoSlug}]
  BY DEF OpmlInv, OpmlTypeOK
<1>3. /\ categories[n] = NoSlug /\ \A m \in Names : categories[m] # slug
      /\ \A p \in Importers : Active(p) =>
           /\ imports[p].made[n] = NoSlug
           /\ \A m \in Names : imports[p].made[m] # slug
      /\ categories' = [categories EXCEPT ![n] = slug]
      /\ UNCHANGED <<feeds, imports, committed>>
  BY <1>2 DEF PostCategory, SlugHolder, Range
<1> HIDE DEF n, slug
<1>4. /\ categories' \in [Names -> Slugs \cup {NoSlug}]
      /\ categories'[n] = slug
      /\ \A m \in Names \ {n} : categories'[m] = categories[m]
  BY <1>1, <1>2, <1>3
<1>5. OpmlTypeOK'
  BY <1>3, <1>4 DEF OpmlInv, OpmlTypeOK
<1>6. \A p \in Importers : Active(p)' <=> Active(p)
  BY <1>3 DEF Active
<1>7. ASSUME NEW p \in Importers, Active(p)'
      PROVE  Progress(imports'[p], categories')
  <2> DEFINE i == imports[p]
  <2>1. Progress(i, categories) /\ imports'[p] = i
    BY <1>3, <1>6, <1>7 DEF OpmlInv
  <2>2. i.made[n] = NoSlug /\ \A m \in Names : i.made[m] # slug
    BY <1>3, <1>6, <1>7
  <2> HIDE DEF i
  <2>3. PlannedNames(i.doc) \subseteq Names
    BY <2>1, DocFacts DEF Progress
  <2>4. QED
    BY <1>1, <1>3, <1>4, <2>1, <2>2, <2>3 DEF Progress
<1>8. \A p, q \in Importers :
        p # q /\ Active(p)' /\ Active(q)' => Disjoint(imports'[p], imports'[q])
  BY <1>3, <1>6 DEF OpmlInv
<1>9. SerialOutcome'
  <2>1. \A u \in FeedUrls : feeds[u].category \in Names \cup {NoName}
    BY DEF OpmlInv, OpmlTypeOK, FiledRow
  <2>2. \A u \in FeedUrls :
          feeds'[u].category # NoName => categories'[feeds'[u].category] # NoSlug
    BY <1>1, <1>3, <1>4, <2>1 DEF OpmlInv, SerialOutcome
  <2>3. \A m, l \in Names :
          m # l /\ categories'[m] # NoSlug => categories'[m] # categories'[l]
    BY <1>1, <1>3, <1>4 DEF OpmlInv, SerialOutcome
  <2>4. QED
    BY <1>3, <2>2, <2>3 DEF OpmlInv, SerialOutcome
<1>10. QED
  BY <1>5, <1>7, <1>8, <1>9 DEF OpmlInv

LEMMA CommitImportKeeps ==
  ASSUME OpmlInv, NEW p \in Importers, CommitImport(p)
  PROVE  OpmlInv'
<1> DEFINE i == imports[p]
           doc == i.doc
           j == FreshImport("done", doc)
           end == Len(committed) + 1
<1>1. /\ i.step = "writing" /\ i.feeds = {}
      /\ categories' = Filed(p)
      /\ feeds' = [u \in FeedUrls |->
           IF \E x \in i.written : x.url = u
           THEN RowOf(CHOOSE x \in i.written : x.url = u) ELSE feeds[u]]
      /\ imports' = [imports EXCEPT ![p] = j]
      /\ committed' = Append(committed, doc)
  BY DEF CommitImport
<1>2. /\ i \in ImportRecord /\ Progress(i, categories)
      /\ \A q \in Importers \ {p} : Active(q) => Disjoint(i, imports[q])
  BY <1>1, OpenFacts DEF Active
<1>3. /\ doc \in Files /\ ~Conflicting(doc) /\ i.written = Planned(doc)
      /\ i.locked = KeysOf(doc)
      /\ PlannedNames(doc) \subseteq Names /\ Planned(doc) \subseteq Outline
      /\ i.made \in [Names -> Slugs \cup {NoSlug}]
  BY <1>1, <1>2, DocFacts DEF Progress, ImportRecord
<1>4. /\ categories \in [Names -> Slugs \cup {NoSlug}]
      /\ feeds \in [FeedUrls -> FiledRow]
      /\ imports \in [Importers -> ImportRecord]
      /\ committed \in Seq(Files)
  BY DEF OpmlInv, OpmlTypeOK
<1>5. /\ categories' \in [Names -> Slugs \cup {NoSlug}]
      /\ \A n \in Names : categories'[n] = IF i.made[n] # NoSlug THEN i.made[n] ELSE categories[n]
  BY <1>1, <1>3, <1>4 DEF Filed
<1>6. j \in ImportRecord /\ j.step = "done"
  BY <1>3, FreshFacts DEF OpmlSteps
<1> HIDE DEF i, doc, j
<1>7. /\ imports' \in [Importers -> ImportRecord] /\ imports'[p] = j
      /\ \A q \in Importers \ {p} : imports'[q] = imports[q]
  BY <1>1, <1>4, <1>6
<1>8. \A q \in Importers : Active(q)' => q # p /\ Active(q) /\ imports'[q] = imports[q]
  BY <1>6, <1>7 DEF Active
<1>9. ASSUME NEW q \in Importers, Active(q)'
      PROVE  Progress(imports'[q], categories')
  <2> DEFINE o == imports[q]
  <2>1. imports'[q] = o /\ Progress(o, categories) /\ Disjoint(i, o)
    BY <1>2, <1>8, <1>9 DEF OpmlInv
  <2> HIDE DEF o
  <2>2. PlannedNames(o.doc) \subseteq Names
    BY <2>1, DocFacts DEF Progress
  (* Two transactions that make one name would both hold its key.           *)
  <2>3. ASSUME NEW n \in Names, o.made[n] # NoSlug
        PROVE  i.made[n] = NoSlug
    <3>1. n \in PlannedNames(o.doc) /\ o.keys = {} /\ o.locked = KeysOf(o.doc)
      BY <2>1, <2>3 DEF Progress
    <3>2. i.made[n] # NoSlug => n \in PlannedNames(doc)
      BY <1>2 DEF Progress, doc
    <3>3. i.made[n] # NoSlug => KeyOf[n] \in o.locked \cap i.locked
      BY <1>3, <3>1, <3>2 DEF KeysOf
    <3>4. QED
      BY <2>1, <3>3 DEF Disjoint
  <2>4. ASSUME NEW n \in Names, o.made[n] # NoSlug
        PROVE  /\ categories'[n] = NoSlug
               /\ \A m \in Names : o.made[n] # categories'[m]
    <3>1. categories[n] = NoSlug /\ \A m \in Names : o.made[n] # categories[m]
      BY <2>1, <2>4 DEF Progress
    <3>2. \A m \in Names : i.made[m] # NoSlug => o.made[n] # i.made[m]
      BY <2>1 DEF Disjoint
    <3>3. QED
      BY <1>5, <2>3, <2>4, <3>1, <3>2
  <2>5. \A n \in PlannedNames(o.doc) \ o.names :
          o.made[n] # NoSlug \/ categories'[n] # NoSlug
    BY <1>5, <2>1, <2>2 DEF Progress
  <2>6. QED
    BY <2>1, <2>4, <2>5 DEF Progress
<1>10. \A q, r \in Importers :
         q # r /\ Active(q)' /\ Active(r)' => Disjoint(imports'[q], imports'[r])
  BY <1>8 DEF OpmlInv
<1>11. ASSUME NEW u \in FeedUrls
       PROVE  \/ /\ FiledBy(doc, u) = {} /\ feeds'[u] = feeds[u]
              \/ \E x \in FiledBy(doc, u) : feeds'[u] = RowOf(x)
  <2>1. CASE FiledBy(doc, u) = {}
    BY <1>1, <1>3, <2>1 DEF FiledBy
  <2>2. CASE FiledBy(doc, u) # {}
    BY <1>1, <1>3, <2>2 DEF FiledBy
  <2>3. QED
    BY <2>1, <2>2
<1>12. \A x \in Planned(doc) : RowOf(x) \in FiledRow /\ RowOf(x).category = x.category
  BY <1>3 DEF RowOf, FiledRow, Outline
<1>13. feeds' \in [FeedUrls -> FiledRow]
  <2>1. \A u \in FeedUrls : feeds'[u] \in FiledRow
    BY <1>4, <1>11, <1>12 DEF FiledBy
  <2>2. QED
    BY <1>1, <2>1
<1>14. /\ committed' \in Seq(Files) /\ end \in Nat
       /\ DOMAIN committed' = DOMAIN committed \cup {end}
       /\ committed'[end] = doc
       /\ \A k \in DOMAIN committed : k \in Nat /\ k < end /\ committed'[k] = committed[k]
  BY <1>1, <1>3, <1>4
<1> HIDE DEF end
<1>15. ASSUME NEW u \in FeedUrls
       PROVE  \/ /\ feeds'[u] = NoFeedRow
                 /\ \A k \in DOMAIN committed' : FiledBy(committed'[k], u) = {}
              \/ \E k \in DOMAIN committed' :
                   /\ \E x \in FiledBy(committed'[k], u) : feeds'[u] = RowOf(x)
                   /\ \A l \in DOMAIN committed' : l > k => FiledBy(committed'[l], u) = {}
  <2>1. CASE FiledBy(doc, u) # {}
    <3>1. \E x \in FiledBy(committed'[end], u) : feeds'[u] = RowOf(x)
      BY <1>11, <1>14, <2>1
    <3>2. \A l \in DOMAIN committed' : ~(l > end)
      BY <1>14
    <3>3. QED
      BY <1>14, <3>1, <3>2
  <2>2. CASE FiledBy(doc, u) = {}
    <3>1. feeds'[u] = feeds[u]
      BY <1>11, <2>2
    <3>2. CASE /\ feeds[u] = NoFeedRow
               /\ \A k \in DOMAIN committed : FiledBy(committed[k], u) = {}
      BY <1>14, <2>2, <3>1, <3>2
    <3>3. ASSUME NEW k \in DOMAIN committed,
                 \E x \in FiledBy(committed[k], u) : feeds[u] = RowOf(x),
                 \A l \in DOMAIN committed : l > k => FiledBy(committed[l], u) = {}
          PROVE  /\ k \in DOMAIN committed'
                 /\ \E x \in FiledBy(committed'[k], u) : feeds'[u] = RowOf(x)
                 /\ \A l \in DOMAIN committed' : l > k => FiledBy(committed'[l], u) = {}
      BY <1>14, <2>2, <3>1, <3>3
    <3>4. QED
      BY <3>2, <3>3 DEF OpmlInv, SerialOutcome
  <2>3. QED
    BY <2>1, <2>2
(* Every name of the document is filed before its feeds are written.        *)
<1>16. ASSUME NEW u \in FeedUrls, feeds'[u].category # NoName
       PROVE  categories'[feeds'[u].category] # NoSlug
  <2>1. CASE FiledBy(doc, u) = {}
    <3>1. feeds'[u] = feeds[u]
      BY <1>11, <2>1
    <3>2. feeds[u].category \in Names
      BY <1>4, <1>16, <3>1 DEF FiledRow
    <3>3. categories[feeds[u].category] # NoSlug
      BY <1>16, <3>1 DEF OpmlInv, SerialOutcome
    <3>4. QED
      BY <1>5, <3>1, <3>2, <3>3
  <2>2. CASE FiledBy(doc, u) # {}
    <3>1. PICK x \in Planned(doc) : feeds'[u].category = x.category
      BY <1>11, <1>12, <2>2 DEF FiledBy
    <3>2. x.category \in PlannedNames(doc)
      BY <1>16, <3>1 DEF PlannedNames
    <3>3. i.made[x.category] # NoSlug \/ categories[x.category] # NoSlug
      BY <1>1, <1>2, <3>2 DEF Progress, doc
    <3>4. QED
      BY <1>3, <1>5, <3>1, <3>2, <3>3
  <2>3. QED
    BY <2>1, <2>2
<1>17. ASSUME NEW n \in Names, NEW m \in Names, n # m, categories'[n] # NoSlug
       PROVE  categories'[n] # categories'[m]
  <2>1. categories[n] # NoSlug => categories[n] # categories[m]
    BY <1>17 DEF OpmlInv, SerialOutcome
  <2>2. i.made[n] # NoSlug => i.made[n] # categories[m] /\ i.made[n] # i.made[m]
    BY <1>2, <1>17 DEF Progress
  <2>3. i.made[m] # NoSlug => i.made[m] # categories[n]
    BY <1>2 DEF Progress
  <2>4. QED
    BY <1>5, <1>17, <2>1, <2>2, <2>3
<1>18. SerialOutcome'
  BY <1>15, <1>16, <1>17 DEF SerialOutcome
<1>19. OpmlTypeOK'
  BY <1>5, <1>7, <1>13, <1>14 DEF OpmlTypeOK
<1>20. QED
  BY <1>9, <1>10, <1>18, <1>19 DEF OpmlInv

LEMMA OpmlInvStep ==
  ASSUME OpmlInv, [OpmlNext]_opmlVars
  PROVE  OpmlInv'
<1>1. CASE UNCHANGED opmlVars
  BY <1>1 DEF opmlVars, OpmlInv, OpmlTypeOK, Active, SerialOutcome
<1>2. QED
  BY <1>1, BeginKeeps, LockKeyKeeps, AllLockedKeeps, ReuseCategoryKeeps, SlugTakenKeeps,
     CreateCategoryKeeps, AllFiledKeeps, WriteFeedKeeps, CommitImportKeeps,
     FailImportKeeps, PostCategoryKeeps DEF OpmlNext

LEMMA OpmlInvHolds == OpmlSpec => []OpmlInv
<1>1. OpmlInv /\ [OpmlNext]_opmlVars => OpmlInv'
  BY OpmlInvStep
<1>2. QED
  BY <1>1, OpmlInvInitially, PTL DEF OpmlSpec

-----------------------------------------------------------------------------
(* An open import holds the key of every name it files or has locked all of. *)
LEMMA KeysHeld ==
  ASSUME NEW i, Progress(i, categories), i.step # "locking",
         NEW n \in PlannedNames(i.doc)
  PROVE  KeyOf[n] \in i.locked
BY DEF Progress, KeysOf

(* Imports not at odds never wait for each other's slugs.                   *)
LEMMA FilersDoNotWait ==
  ASSUME OpmlInv, NEW p \in Importers, NEW q \in Importers, p # q,
         imports[p].step = "filing", Waits(p, q)
  PROVE  AtOdds(imports[p].doc, imports[q].doc)
<1> DEFINE i == imports[p]
           o == imports[q]
           n == NextName(p)
<1>1. /\ i.names # {} /\ Active(q)
      /\ \E m \in Names : o.made[m] = Slug(p)
  BY DEF Waits, SlugHolder
<1>2. /\ Progress(i, categories) /\ Progress(o, categories) /\ Disjoint(i, o)
      /\ i \in ImportRecord /\ i.step = "filing"
  BY <1>1, OpenFacts DEF Active
<1>3. n \in PlannedNames(i.doc)
  BY <1>1, <1>2, NextFacts DEF Progress
<1>4. Slug(p) = <<SlugOf[n], i.suffix>>
  BY DEF Slug
<1> HIDE DEF i, o, n
<1>5. PICK m \in Names : o.made[m] = Slug(p)
  BY <1>1
<1>6. o.made[m] # NoSlug
  BY <1>4, <1>5 DEF NoSlug
<1>7. /\ m \in PlannedNames(o.doc) /\ o.step # "locking"
      /\ \E k \in Nat \ {0} : o.made[m] = <<SlugOf[m], k>>
  BY <1>2, <1>6 DEF Progress
<1>8. SlugOf[m] = SlugOf[n]
  BY <1>4, <1>5, <1>7
<1>9. n # m
  <2>1. SUFFICES ASSUME n = m PROVE FALSE
    OBVIOUS
  <2>2. KeyOf[n] \in i.locked /\ KeyOf[m] \in o.locked
    BY <1>2, <1>3, <1>7, KeysHeld
  <2>3. QED
    BY <1>2, <2>1, <2>2 DEF Disjoint
<1>10. QED
  BY <1>3, <1>7, <1>8, <1>9 DEF AtOdds, i, o

(* A writer waits for another one only at odds with it, or for a feed       *)
(* without a category, and the other is then past that feed.                *)
LEMMA WritersAscend ==
  ASSUME OpmlInv, NEW p \in Importers, NEW q \in Importers, p # q,
         imports[p].step = "writing", Waits(p, q),
         ~AtOdds(imports[p].doc, imports[q].doc)
  PROVE  /\ imports[q].step = "writing"
         /\ NextFiling(p).category = NoName
         /\ NextFiling(p) \in Outline
         /\ imports[q].feeds # {} =>
              /\ FeedBefore(NextFiling(p), NextFiling(q))
              /\ NextFiling(q) \in Outline
<1> DEFINE i == imports[p]
           o == imports[q]
           x == NextFiling(p)
<1>1. /\ i.step = "writing" /\ i.feeds # {} /\ Active(q)
      /\ \E y \in o.written : y.url = x.url
  BY DEF Waits, RowHolder
<1>2. /\ Progress(i, categories) /\ Progress(o, categories) /\ Disjoint(i, o)
      /\ i \in ImportRecord /\ o \in ImportRecord
  BY <1>1, OpenFacts DEF Active
<1>3. x \in i.feeds /\ x \in Planned(i.doc) /\ x \in Outline
  BY <1>1, <1>2, NextFacts, DocFacts DEF Progress
<1>4. PICK y \in o.written : y.url = x.url
  BY <1>1
<1>5. /\ o.step = "writing" /\ y \in Planned(o.doc) /\ y \in Outline
  BY <1>2, <1>4, DocFacts DEF Progress
<1>6. y.category = x.category
  BY <1>3, <1>4, <1>5 DEF AtOdds
<1>7. x.category = NoName
  <2> SUFFICES ASSUME x.category # NoName PROVE FALSE
    OBVIOUS
  <2>1. x.category \in PlannedNames(i.doc) /\ x.category \in PlannedNames(o.doc)
    BY <1>3, <1>5, <1>6 DEF PlannedNames
  <2>2. KeyOf[x.category] \in i.locked /\ KeyOf[x.category] \in o.locked
    BY <1>1, <1>2, <1>5, <2>1, KeysHeld
  <2>3. QED
    BY <1>2, <2>2 DEF Disjoint
<1>8. ASSUME o.feeds # {}
      PROVE  FeedBefore(x, NextFiling(q)) /\ NextFiling(q) \in Outline
  <2>1. NextFiling(q) \in o.feeds
    BY <1>2, <1>8, NextFacts
  <2>2. FeedBefore(y, NextFiling(q))
    BY <1>2, <1>4, <2>1 DEF Progress
  <2>3. NextFiling(q) \in Outline
    BY <1>2, <2>1 DEF ImportRecord
  <2>4. QED
    BY <1>4, <1>6, <2>2, <2>3 DEF FeedBefore
<1>9. QED
  BY <1>3, <1>5, <1>7, <1>8

(* A locker waits for a key; whoever holds it and locks on is past it.      *)
LEMMA LockersAscend ==
  ASSUME OpmlInv, NEW p \in Importers, NEW q \in Importers, p # q,
         imports[p].step = "locking", Waits(p, q)
  PROVE  /\ Active(q) /\ imports[p].keys # {} /\ NextKey(p) \in Int
         /\ imports[q].keys # {} => NextKey(p) < NextKey(q)
<1>1. /\ imports[p].keys # {} /\ Active(q) /\ NextKey(p) \in imports[q].locked
  BY DEF Waits, KeyHolder
<1>2. Progress(imports[p], categories) /\ Progress(imports[q], categories)
  BY <1>1, OpenFacts DEF Active
<1>3. NextKey(p) \in imports[p].keys /\ imports[p].keys \subseteq Int
  BY <1>1, <1>2, NextFacts, OpmlTyped DEF OpmlInv
<1>4. imports[q].keys # {} => NextKey(q) \in imports[q].keys
  BY <1>2, NextFacts
<1>5. QED
  BY <1>1, <1>2, <1>3, <1>4 DEF Progress

LEMMA NoDeadlock == OpmlInv => DeadlockOnlyAtOdds
<1> SUFFICES ASSUME OpmlInv, NEW S \in SUBSET Importers, S # {},
                    \A p \in S : \E q \in S \ {p} : Waits(p, q),
                    \A p, q \in S : p # q => ~AtOdds(imports[p].doc, imports[q].doc)
             PROVE  FALSE
  BY DEF DeadlockOnlyAtOdds
<1>1. IsFiniteSet(S)
  BY OpmlAssumption, FS_Subset
<1>2. \A p \in S : imports[p].step \in {"locking", "filing", "writing"}
  BY DEF Waits
<1>3. \A p \in S : imports[p].step # "filing"
  BY FilersDoNotWait
<1>4. \A p \in S :
        /\ imports[p].step = "writing" => imports[p].feeds # {}
        /\ imports[p].step = "locking" => imports[p].keys # {}
  BY DEF Waits
(* Among waiting writers the feed they wait for would increase for ever.    *)
<1>5. \A p \in S : imports[p].step # "writing"
  <2> DEFINE W == {p \in S : imports[p].step = "writing"}
             R == {r \in W \X W : NextFiling(r[1]).url > NextFiling(r[2]).url}
  <2>1. ASSUME NEW p \in W
        PROVE  /\ NextFiling(p).category = NoName /\ NextFiling(p).url \in Nat
               /\ \E q \in W : NextFiling(q).url > NextFiling(p).url
    <3>1. PICK q \in S \ {p} : Waits(p, q)
      OBVIOUS
    <3>2. /\ q \in W /\ NextFiling(p).category = NoName /\ NextFiling(p) \in Outline
          /\ FeedBefore(NextFiling(p), NextFiling(q)) /\ NextFiling(q) \in Outline
      <4>1. ~AtOdds(imports[p].doc, imports[q].doc)
        BY <3>1
      <4>2. /\ imports[q].step = "writing" /\ NextFiling(p).category = NoName
            /\ NextFiling(p) \in Outline
            /\ imports[q].feeds # {} =>
                 FeedBefore(NextFiling(p), NextFiling(q)) /\ NextFiling(q) \in Outline
        BY <3>1, <4>1, WritersAscend
      <4>3. q \in S /\ imports[q].step = "writing"
        BY <4>2
      <4>4. q \in W
        BY <4>3
      <4>5. imports[q].feeds # {}
        BY <1>4, <4>3
      <4>6. QED
        BY <4>2, <4>4, <4>5
    <3>3. PICK r \in S \ {q} : Waits(q, r)
      OBVIOUS
    <3>4. NextFiling(q).category = NoName
      BY <3>2, <3>3, WritersAscend
    <3>5. NextFiling(p).url \in Nat /\ NextFiling(q).url \in Nat
      BY <3>2, OutlineFacts
    <3>6. NextFiling(p).url < NextFiling(q).url
      BY <3>2, <3>4 DEF FeedBefore, NoName
    <3>7. QED
      BY <3>2, <3>5, <3>6
  <2> SUFFICES ASSUME W # {} PROVE FALSE
    OBVIOUS
  <2>2. IsFiniteSet(W)
    <3>1. W \in SUBSET S
      OBVIOUS
    <3>2. QED
      BY <1>1, <3>1, FS_Subset
  <2> HIDE DEF W
  <2>3. /\ \A p \in W : <<p, p>> \notin R
        /\ \A p, q, r \in W : <<p, q>> \in R /\ <<q, r>> \in R => <<p, r>> \in R
    BY <2>1
  <2>4. PICK p \in W : \A q \in W : <<q, p>> \notin R
    <3> HIDE DEF R
    <3>1. QED
      BY <2>2, <2>3, FirstExists
  <2>5. QED
    BY <2>1, <2>4
(* And among waiting lockers the key.                                       *)
<1>6. \A p \in S : imports[p].step = "locking"
  BY <1>2, <1>3, <1>5
<1>7. \A p \in S : NextKey(p) \in Int /\ \E q \in S : NextKey(p) < NextKey(q)
  BY <1>4, <1>6, LockersAscend
<1>8. QED
  <2> DEFINE R == {r \in S \X S : NextKey(r[1]) > NextKey(r[2])}
  <2>1. /\ \A p \in S : <<p, p>> \notin R
        /\ \A p, q, r \in S : <<p, q>> \in R /\ <<q, r>> \in R => <<p, r>> \in R
    <3>1. \A p \in S : NextKey(p) \in Int
      BY <1>7
    <3>2. QED
      BY <3>1
  <2>2. PICK p \in S : \A q \in S : <<q, p>> \notin R
    <3> HIDE DEF R
    <3>1. QED
      BY <1>1, <2>1, FirstExists
  <2>3. QED
    BY <1>7, <2>2

(* Imports wait for each other in a circle only where two of their          *)
(* documents are at odds, however many there are.                           *)
THEOREM DeadlocksAreAtOdds == OpmlSpec => []DeadlockOnlyAtOdds
BY OpmlInvHolds, NoDeadlock, PTL

(* Whatever imports run at once, fail or commit, and whatever the API       *)
(* creates meanwhile, the rows are those of the committed documents in the  *)
(* order of their commits.                                                  *)
THEOREM ImportsAreSerial == OpmlSpec => []SerialOutcome
<1>1. OpmlInv => SerialOutcome
  BY DEF OpmlInv
<1>2. QED
  BY <1>1, OpmlInvHolds, PTL
=============================================================================
