--------------------------- MODULE ReadStateProofs ---------------------------
(***************************************************************************)
(* Proofs about ReadState, for any articles, feeds, periods and requests:   *)
(* the last command on an article decides, a marker reaches no article that *)
(* was fetched after the mark committed, and a page resolved in three       *)
(* statements is honest.                                                    *)
(***************************************************************************)
EXTENDS ReadState, FiniteSetTheorems, WellFoundedInduction, TLAPS

MarkRequest ==
  [step: {"idle"}]
  \cup [step: {"begun"}, scope: Scopes, cutoff: Nat, promised: SUBSET Articles]
  \cup [step: {"selected"}, scope: Scopes, cutoff: Nat, promised: SUBSET Articles,
        ids: SUBSET Articles]

ReadTyped ==
  /\ clock \in Nat
  /\ fetched \in [Articles -> Nat \cup {NoTime}]
  /\ committed \subseteq {a \in Articles : fetched[a] # NoTime}
  /\ explicit \in [Articles -> States]
  /\ markedAt \in [Scopes -> Nat \cup {NoTime}]
  /\ answered \in [Scopes -> Nat \cup {NoTime}]
  /\ mark \in [Marks -> MarkRequest]

(* What an open mark has promised it will mark: its cutoff is past, and the *)
(* articles that were in view are among those it selects.                   *)
MarkSound(m) ==
  /\ m.step \in {"begun", "selected"} =>
       /\ m.cutoff <= clock
       /\ \A a \in m.promised : a \in Shelf(m.scope) /\ fetched[a] <= m.cutoff
  /\ m.step = "selected" => m.promised \subseteq m.ids

(* A command on an article is always an explicit state, bulk marks          *)
(* included; a marker is no later than the commit of the last mark of its   *)
(* scope.                                                                   *)
ReadInv ==
  /\ ReadTyped
  /\ said = explicit
  /\ \A a \in Articles : fetched[a] # NoTime => fetched[a] <= clock
  /\ \A k \in Scopes : markedAt[k] # NoTime =>
       answered[k] # NoTime /\ markedAt[k] <= answered[k]
  /\ \A p \in Marks : MarkSound(mark[p])

(* While time passes and articles arrive, an open mark stays sound.         *)
LEMMA MarkStaysSound ==
  ASSUME ReadInv, NEW p \in Marks,
         clock' \in Nat, clock <= clock',
         committed \subseteq committed',
         \A a \in committed : fetched'[a] = fetched[a],
         mark'[p] = mark[p]
  PROVE  MarkSound(mark[p])'
<1> DEFINE m == mark[p]
<1>0. m \in MarkRequest /\ clock \in Nat /\ MarkSound(m) /\ m' = m
  BY DEF ReadInv, ReadTyped
<1> HIDE DEF m
<1>1. m.step \in {"begun", "selected"} => m.cutoff \in Nat
  BY <1>0 DEF MarkRequest
<1>2. ASSUME m.step \in {"begun", "selected"}
      PROVE  m.cutoff <= clock'
  BY <1>0, <1>1, <1>2 DEF MarkSound
<1>3. ASSUME m.step \in {"begun", "selected"}, NEW a \in m.promised
      PROVE  a \in Shelf(m.scope)' /\ fetched'[a] <= m.cutoff
  <2>1. a \in committed /\ InScope(m.scope, a) /\ fetched[a] <= m.cutoff
    BY <1>0, <1>3 DEF MarkSound, Shelf
  <2>2. fetched'[a] = fetched[a] /\ a \in committed'
    BY <2>1
  <2>3. InScope(m.scope, a)'
    BY <1>0, <2>1, <2>2 DEF InScope, IsFeed, Day
  <2>4. QED
    BY <1>0, <2>1, <2>2, <2>3 DEF Shelf
<1>4. m.step = "selected" => m.promised \subseteq m.ids
  BY <1>0 DEF MarkSound
<1>5. MarkSound(m)'
  BY <1>0, <1>2, <1>3, <1>4 DEF MarkSound
<1>6. QED
  BY <1>5 DEF m

LEMMA ReadInit == Init => ReadInv
<1> SUFFICES ASSUME Init
             PROVE  ReadInv
  OBVIOUS
<1>1. ReadTyped
  BY DEF Init, ReadTyped, MarkRequest, IdleMark, States
<1>2. \A p \in Marks : MarkSound(mark[p])
  BY DEF Init, IdleMark, MarkSound
<1>3. QED
  BY <1>1, <1>2 DEF Init, ReadInv

LEMMA ReadStep == ReadInv /\ [Next]_vars => ReadInv'
<1> SUFFICES ASSUME ReadInv, [Next]_vars
             PROVE  ReadInv'
  OBVIOUS
<1>0. ReadTyped /\ NoTime \notin Nat
  BY ReadAssumption DEF ReadInv
<1> DEFINE Rest == UNCHANGED <<explicit, said, markedAt, answered>>
<1>1. CASE Tick
  <2>1. clock' = clock + 1 /\ Rest /\ UNCHANGED <<fetched, committed, mark>>
    BY <1>1 DEF Tick, states, history
  <2>2. clock' \in Nat /\ clock <= clock' /\ ReadTyped'
    BY <1>0, <2>1 DEF ReadTyped, MarkRequest, Scopes
  <2>3. \A p \in Marks : MarkSound(mark[p])'
    BY <2>1, <2>2, MarkStaysSound
  <2>4. \A a \in Articles : fetched'[a] # NoTime => fetched'[a] <= clock'
    BY <1>0, <2>1 DEF ReadInv, ReadTyped
  <2>5. QED
    BY <2>1, <2>2, <2>3, <2>4 DEF ReadInv, Scopes
<1>2. ASSUME NEW a \in Articles, Insert(a) \/ Publish(a)
      PROVE  ReadInv'
  <2>1. /\ Rest /\ UNCHANGED <<clock, mark>>
        /\ committed \subseteq committed'
        /\ \A b \in Articles : fetched'[b] = fetched[b] \/ (fetched[b] = NoTime /\ fetched'[b] = clock)
        /\ fetched' \in [Articles -> Nat \cup {NoTime}]
        /\ committed' \subseteq {b \in Articles : fetched'[b] # NoTime}
    <3>1. CASE Insert(a)
      <4>1. /\ fetched[a] = NoTime /\ fetched' = [fetched EXCEPT ![a] = clock]
            /\ Rest /\ UNCHANGED <<clock, mark, committed>>
        BY <3>1 DEF Insert, states, history
      <4>2. \A b \in Articles : fetched'[b] = IF b = a THEN clock ELSE fetched[b]
        BY <1>0, <4>1 DEF ReadTyped
      <4>3. fetched' \in [Articles -> Nat \cup {NoTime}]
        BY <1>0, <4>1 DEF ReadTyped
      <4>4. \A b \in committed : b \in Articles /\ fetched[b] # NoTime /\ b # a
        BY <1>0, <4>1 DEF ReadTyped
      <4>5. committed' \subseteq {b \in Articles : fetched'[b] # NoTime}
        BY <1>0, <4>1, <4>2, <4>4 DEF ReadTyped
      <4>6. \A b \in Articles : fetched'[b] = fetched[b] \/ (fetched[b] = NoTime /\ fetched'[b] = clock)
        BY <4>1, <4>2
      <4>7. QED
        BY <4>1, <4>3, <4>5, <4>6
    <3>2. CASE Publish(a)
      BY <1>0, <3>2 DEF Publish, states, history, ReadTyped
    <3>3. QED
      BY <1>2, <3>1, <3>2
  <2>2. ReadTyped'
    BY <1>0, <2>1 DEF ReadTyped, MarkRequest, Scopes
  <2>3. \A b \in committed : fetched'[b] = fetched[b]
    BY <1>0, <2>1 DEF ReadTyped
  <2>4. \A p \in Marks : MarkSound(mark[p])'
    BY <1>0, <2>1, <2>2, <2>3, MarkStaysSound DEF ReadTyped
  <2>5. \A b \in Articles : fetched'[b] # NoTime => fetched'[b] <= clock'
    BY <1>0, <2>1 DEF ReadInv, ReadTyped
  <2>6. QED
    BY <2>1, <2>2, <2>4, <2>5 DEF ReadInv, Scopes
<1>3. ASSUME NEW a \in Articles, NEW s \in {"read", "unread"}, MarkArticle(a, s)
      PROVE  ReadInv'
  <2>1. /\ explicit' = [explicit EXCEPT ![a] = s] /\ said' = [said EXCEPT ![a] = s]
        /\ UNCHANGED <<clock, fetched, committed, markedAt, answered, mark>>
    BY <1>3 DEF MarkArticle
  <2>2. ReadTyped' /\ said' = explicit'
    BY <1>0, <2>1 DEF ReadTyped, ReadInv, MarkRequest, Scopes, States
  <2>3. \A p \in Marks : MarkSound(mark[p])'
    BY <1>0, <2>1, MarkStaysSound DEF ReadTyped
  <2>4. QED
    BY <2>1, <2>2, <2>3 DEF ReadInv, Scopes
<1>4. ASSUME NEW p \in Marks, NEW k \in Scopes, BeginMark(p, k)
      PROVE  ReadInv'
  <2> DEFINE m == [step |-> "begun", scope |-> k, cutoff |-> clock,
                   promised |-> Shelf(k)]
  <2>1. /\ mark' = [mark EXCEPT ![p] = m]
        /\ Rest /\ UNCHANGED <<clock, fetched, committed>>
    BY <1>4 DEF BeginMark, states, history
  <2>2. Shelf(k) \subseteq committed /\ committed \subseteq Articles
    BY <1>0 DEF Shelf, ReadTyped
  <2>3. m \in MarkRequest
    BY <1>0, <2>2 DEF MarkRequest, ReadTyped
  <2>4. ReadTyped'
    BY <1>0, <2>1, <2>3 DEF ReadTyped, MarkRequest, Scopes
  <2>5. \A b \in Shelf(k) : fetched[b] <= clock
    BY <1>0, <2>2 DEF ReadInv, ReadTyped
  <2>6. MarkSound(m)
    BY <1>0, <2>5 DEF MarkSound, ReadTyped
  <2>7. m' = m
    BY <2>1 DEF Shelf, InScope, IsFeed
  <2> HIDE DEF m
  <2>8. MarkSound(mark[p])'
    <3>1. mark'[p] = m
      BY <1>0, <2>1 DEF ReadTyped
    <3>2. QED
      BY <2>1, <2>6, <3>1 DEF MarkSound, Shelf, InScope, IsFeed
  <2>9. \A q \in Marks : MarkSound(mark[q])'
    BY <1>0, <2>1, <2>8, MarkStaysSound DEF ReadTyped
  <2>10. QED
    BY <2>1, <2>4, <2>9 DEF ReadInv, Scopes
<1>5. ASSUME NEW p \in Marks, SelectArticles(p)
      PROVE  ReadInv'
  <2> DEFINE m == mark[p]
             ids == {a \in Shelf(m.scope) : fetched[a] <= m.cutoff}
             n == [step |-> "selected", scope |-> m.scope, cutoff |-> m.cutoff,
                   promised |-> m.promised, ids |-> ids]
  <2>1. /\ m.step = "begun" /\ mark' = [mark EXCEPT ![p] = n]
        /\ Rest /\ UNCHANGED <<clock, fetched, committed>>
    BY <1>5 DEF SelectArticles, states, history
  <2>2. m \in MarkRequest /\ MarkSound(m)
    BY <1>0 DEF ReadInv, ReadTyped
  <2>3. ids \subseteq Articles
    BY <1>0 DEF Shelf, ReadTyped
  <2>4. n \in MarkRequest
    BY <2>1, <2>2, <2>3 DEF MarkRequest
  <2>5. MarkSound(n)
    BY <2>1, <2>2 DEF MarkSound
  <2>6. mark'[p] = n
    BY <1>0, <2>1 DEF ReadTyped
  <2> HIDE DEF n
  <2>7. ReadTyped'
    BY <1>0, <2>1, <2>4 DEF ReadTyped, MarkRequest, Scopes
  <2>8. MarkSound(mark[p])'
    BY <2>1, <2>5, <2>6 DEF MarkSound, Shelf, InScope, IsFeed
  <2>9. \A q \in Marks : MarkSound(mark[q])'
    BY <1>0, <2>1, <2>8, MarkStaysSound DEF ReadTyped
  <2>10. QED
    BY <2>1, <2>7, <2>9 DEF ReadInv, Scopes
<1>6. ASSUME NEW p \in Marks, CommitMark(p)
      PROVE  ReadInv'
  <2> DEFINE m == mark[p]
             t == MarkerTime(m.scope, m.cutoff)
  <2>1. /\ m.step = "selected" /\ mark' = [mark EXCEPT ![p] = IdleMark]
        /\ explicit' = [a \in Articles |-> IF a \in m.ids THEN "read" ELSE explicit[a]]
        /\ said' = [a \in Articles |-> IF a \in m.promised \cup m.ids THEN "read"
                                       ELSE said[a]]
        /\ markedAt' = [markedAt EXCEPT ![m.scope] = t]
        /\ answered' = [answered EXCEPT ![m.scope] = clock]
        /\ UNCHANGED <<clock, fetched, committed>>
    BY <1>6 DEF CommitMark, Materialized
  <2>2. m \in MarkRequest /\ MarkSound(m)
    BY <1>0 DEF ReadInv, ReadTyped
  <2>3. /\ m.scope \in Scopes /\ m.cutoff \in Nat /\ m.cutoff <= clock
        /\ m.promised \subseteq m.ids
    BY <2>1, <2>2 DEF MarkRequest, MarkSound
  <2>4. t \in Nat /\ t <= clock
    BY <1>0, <2>3 DEF MarkerTime, ReadTyped
  <2> HIDE DEF t, m
  <2>5. said' = explicit'
    BY <2>1, <2>3 DEF ReadInv
  <2>6. ReadTyped'
    <3>1. explicit' \in [Articles -> States]
      BY <1>0, <2>1 DEF ReadTyped, States
    <3>2. IdleMark \in MarkRequest
      BY DEF IdleMark, MarkRequest
    <3>3. QED
      BY <1>0, <2>1, <2>3, <2>4, <3>1, <3>2 DEF ReadTyped, MarkRequest, Scopes
  <2>7. \A k \in Scopes : markedAt'[k] # NoTime =>
          answered'[k] # NoTime /\ markedAt'[k] <= answered'[k]
    BY <1>0, <2>1, <2>3, <2>4 DEF ReadInv, ReadTyped
  <2>8. MarkSound(mark[p])'
    BY <1>0, <2>1 DEF MarkSound, IdleMark, ReadTyped
  <2>9. \A q \in Marks : MarkSound(mark[q])'
    BY <1>0, <2>1, <2>8, MarkStaysSound DEF ReadTyped
  <2>10. QED
    BY <2>1, <2>5, <2>6, <2>7, <2>9 DEF ReadInv, Scopes
<1>7. ASSUME NEW p \in Marks, RollBack(p)
      PROVE  ReadInv'
  <2>1. /\ mark' = [mark EXCEPT ![p] = IdleMark]
        /\ Rest /\ UNCHANGED <<clock, fetched, committed>>
    BY <1>7 DEF RollBack, states, history
  <2>2. IdleMark \in MarkRequest
    BY DEF IdleMark, MarkRequest
  <2>3. ReadTyped'
    BY <1>0, <2>1, <2>2 DEF ReadTyped, MarkRequest, Scopes
  <2>4. MarkSound(mark[p])'
    BY <1>0, <2>1 DEF MarkSound, IdleMark, ReadTyped
  <2>5. \A q \in Marks : MarkSound(mark[q])'
    BY <1>0, <2>1, <2>4, MarkStaysSound DEF ReadTyped
  <2>6. QED
    BY <2>1, <2>3, <2>5 DEF ReadInv, Scopes
<1>8. CASE Rest /\ UNCHANGED <<clock, fetched, committed, mark>>
  <2>1. ReadTyped'
    BY <1>0, <1>8 DEF ReadTyped, MarkRequest, Scopes
  <2>2. \A q \in Marks : MarkSound(mark[q])'
    BY <1>0, <1>8, MarkStaysSound DEF ReadTyped
  <2>3. QED
    BY <1>8, <2>1, <2>2 DEF ReadInv, Scopes
<1>9. QED
  <2>1. CASE \/ \E a \in Articles : Save(a) \/ Unsave(a)
             \/ \E k \in Scopes : OpenPage(k)
             \/ ReadMarkers \/ ReadRows \/ ClosePage
             \/ UNCHANGED vars
    BY <1>8, <2>1 DEF Save, Unsave, OpenPage, ReadMarkers, ReadRows, ClosePage,
       vars, states, history
  <2>2. QED
    BY <1>1, <1>2, <1>3, <1>4, <1>5, <1>6, <1>7, <2>1 DEF Next, Step

(* The inductive invariant, and what follows from it.                       *)
LEMMA ReadInvariant == Spec => []ReadInv
BY ReadInit, ReadStep, PTL DEF Spec

(* However marks, single commands and refreshes interleave, the last        *)
(* committed command decides what the reader sees of an article.            *)
THEOREM CommandsAlwaysHold == Spec => []CommandsHold
<1>1. ReadInv => CommandsHold
  BY DEF ReadInv, CommandsHold, IsRead
<1>2. QED
  BY <1>1, ReadInvariant, PTL

(* An article no command was about is hidden only by a mark that committed  *)
(* when it was fetched or later.                                            *)
THEOREM NewArrivalsStayUnread == Spec => []NewArrivalsUnread
<1>1. ReadInv => NewArrivalsUnread
  <2> SUFFICES ASSUME ReadInv, NEW a \in committed, said[a] = "none", IsRead(a, Markers)
               PROVE  Within(a, answered)
    BY DEF NewArrivalsUnread
  <2>1. PICK k \in Scopes : /\ markedAt[k] # NoTime /\ InScope(k, a)
                            /\ fetched[a] <= markedAt[k]
    BY DEF ReadInv, IsRead, Covered, Markers
  <2>2. /\ answered[k] # NoTime /\ markedAt[k] <= answered[k]
        /\ markedAt[k] \in Nat /\ answered[k] \in Nat /\ fetched[a] \in Nat
    BY <2>1 DEF ReadInv, ReadTyped
  <2>3. fetched[a] <= answered[k]
    BY <2>1, <2>2
  <2>4. QED
    BY <2>1, <2>2, <2>3 DEF Within
<1>2. QED
  BY <1>1, ReadInvariant, PTL

-----------------------------------------------------------------------------
(* Pages.  The histories are within what they watch; a bounded page has the *)
(* time of every article of its scope that was read all the while; the      *)
(* markers of a narrowed page decide these articles, and the open ones, as  *)
(* all markers would.                                                       *)
PageInv ==
  /\ page.step \in {"idle", "bounded", "narrowed", "shown"}
  /\ openAll \cup readAll \subseteq committed
  /\ page.step \in {"bounded", "narrowed"} =>
       openAll \subseteq Open /\ readAll \subseteq Read /\ savedAll \subseteq saved
  /\ page.step = "bounded" =>
       /\ page.times \subseteq 0..clock
       /\ \A a \in readAll : InScope(page.scope, a) => fetched[a] \in page.times
  /\ page.step = "narrowed" =>
       /\ \A a \in openAll : explicit[a] = "unread" \/ ~Covered(a, page.markers)
       /\ \A a \in readAll : InScope(page.scope, a) =>
                              explicit[a] = "read" \/ Covered(a, page.markers)
  /\ PageHonest

(* Days follow times.                                                       *)
LEMMA DaysAscend ==
  ASSUME NEW t \in Nat, NEW u \in Nat, t <= u
  PROVE  Day(t) <= Day(u)
<1>1. DayLength \in Nat \ {0}
  BY ReadAssumption
<1>2. QED
  BY <1>1 DEF Day

LEMMA OldestIsLeast ==
  ASSUME NEW S, S \subseteq Nat, S # {}
  PROVE  Oldest(S) \in S /\ \A t \in S : Oldest(S) <= t
<1>1. PICK t \in S : \A u \in S : <<u, t>> \notin OpToRel(<, Nat)
  BY NatLessThanWellFounded, WFMin
<1>2. \A u \in S : ~(u < t)
  BY <1>1 DEF OpToRel
<1>3. \A u \in S : t <= u
  BY <1>2
<1>4. QED
  BY <1>3 DEF Oldest

LEMMA NewestIsGreatest ==
  ASSUME NEW c \in Nat, NEW S, S \subseteq 0..c, S # {}
  PROVE  Newest(S) \in S /\ \A t \in S : t <= Newest(S)
<1> DEFINE D == {c - t : t \in S}
<1>1. D \subseteq Nat /\ D # {}
  <2>1. \A t \in S : t \in Nat /\ c - t \in Nat
    OBVIOUS
  <2>2. PICK t \in S : TRUE
    OBVIOUS
  <2>3. c - t \in D
    BY <2>2
  <2>4. QED
    BY <2>1, <2>3
<1> HIDE DEF D
<1>2. Oldest(D) \in D /\ \A d \in D : Oldest(D) <= d
  BY <1>1, OldestIsLeast
<1>3. PICK n \in S : Oldest(D) = c - n
  BY <1>2 DEF D
<1>4. \A t \in S : c - n <= c - t
  BY <1>2, <1>3 DEF D
<1>5. \A t \in S : t <= n
  BY <1>4
<1>6. QED
  BY <1>5 DEF Newest

(* No request touches what a page has seen: arrival times stay, and a row   *)
(* that says something keeps saying something.                              *)
LEMMA RowsStay ==
  ASSUME ReadInv, Next \/ UNCHANGED vars
  PROVE  /\ clock \in Nat /\ clock' \in Nat /\ clock <= clock'
         /\ committed \subseteq Articles /\ committed \subseteq committed'
         /\ explicit \in [Articles -> States]
         /\ fetched \in [Articles -> Nat \cup {NoTime}]
         /\ \A a \in committed : fetched[a] \in 0..clock /\ fetched'[a] = fetched[a]
         /\ \A a \in Articles : explicit'[a] = "none" => explicit[a] = "none"
<1>0. ReadTyped /\ NoTime \notin Nat
  BY ReadAssumption DEF ReadInv
<1>1. /\ clock \in Nat /\ committed \subseteq Articles /\ explicit \in [Articles -> States]
      /\ fetched \in [Articles -> Nat \cup {NoTime}]
      /\ \A a \in committed : fetched[a] \in 0..clock
  BY <1>0 DEF ReadInv, ReadTyped
<1> DEFINE Kept == UNCHANGED <<clock, committed, fetched>>
<1>2. CASE Tick
  BY <1>1, <1>2 DEF Tick, states
<1>3. CASE \E a \in Articles : Insert(a)
  <2>1. PICK a \in Articles : Insert(a)
    BY <1>3
  <2>2. a \notin committed
    BY <1>0, <2>1 DEF Insert, ReadTyped
  <2>3. QED
    BY <1>1, <2>1, <2>2 DEF Insert, states
<1>4. CASE \E a \in Articles : Publish(a)
  BY <1>1, <1>4 DEF Publish, states
<1>5. CASE \E a \in Articles, s \in {"read", "unread"} : MarkArticle(a, s)
  <2>1. PICK a \in Articles, s \in {"read", "unread"} :
          Kept /\ explicit' = [explicit EXCEPT ![a] = s]
    BY <1>5 DEF MarkArticle
  <2>2. QED
    BY <1>1, <2>1
<1>6. CASE \E p \in Marks : CommitMark(p)
  <2>1. PICK p \in Marks : Kept /\ explicit' = Materialized(mark[p].ids)
    BY <1>6 DEF CommitMark
  <2>2. QED
    BY <1>1, <2>1 DEF Materialized
<1>7. CASE Kept /\ explicit' = explicit
  BY <1>1, <1>7
<1>8. QED
  BY <1>2, <1>3, <1>4, <1>5, <1>6, <1>7 DEF Next, Step, Save, Unsave, BeginMark,
     SelectArticles, RollBack, OpenPage, ReadMarkers, ReadRows, ClosePage, states, vars

(* Scope and coverage of an article that is visible do not change.          *)
LEMMA ViewStays ==
  ASSUME ReadInv, Next \/ UNCHANGED vars, NEW a \in committed
  PROVE  /\ \A k : InScope(k, a)' <=> InScope(k, a)
         /\ \A ms : Covered(a, ms)' <=> Covered(a, ms)
<1>1. fetched'[a] = fetched[a]
  BY RowsStay
<1>2. QED
  BY <1>1 DEF InScope, IsFeed, Day, Covered

(* What it means to be in one of the histories.                             *)
LEMMA ViewMeans ==
  /\ Open \subseteq committed /\ Read \subseteq committed
  /\ \A a \in Open : explicit[a] # "read" /\ a \notin saved
                     /\ (explicit[a] = "unread" \/ ~Covered(a, Markers))
  /\ \A a \in Read : explicit[a] # "unread"
                     /\ (explicit[a] = "read" \/ Covered(a, Markers))
BY DEF Open, Read, IsRead

(* A page that is not touched stays sound while the others go on.           *)
LEMMA PageWaits ==
  ASSUME ReadInv, PageInv, Next, page' = page
  PROVE  PageInv'
<1> USE RowsStay, ViewMeans
<1>0. /\ page.step \in {"idle", "bounded", "narrowed", "shown"}
      /\ openAll \cup readAll \subseteq committed /\ Watch
  BY DEF PageInv, Next
<1>1. explicit' \in [Articles -> States]
  BY ReadStep DEF ReadInv, ReadTyped
<1>2. CASE page.step = "idle"
  BY <1>0, <1>2 DEF Watch, PageInv, PageHonest
<1>3. CASE page.step = "shown"
  <2>1. UNCHANGED <<openAll, readAll, savedAll>>
    BY <1>3 DEF Next, Watch
  <2>2. \A a \in openAll : InScope(page.scope, a)' <=> InScope(page.scope, a)
    BY <1>0, ViewStays
  <2>3. PageHonest'
    BY <1>3, <2>1, <2>2 DEF PageInv, PageHonest
  <2>5. QED
    BY <1>0, <1>3, <2>1, <2>3 DEF PageInv
<1>4. CASE page.step \in {"bounded", "narrowed"}
  <2>1. /\ openAll' = openAll \cap Open' /\ readAll' = readAll \cap Read'
        /\ savedAll' = savedAll \cap saved'
    BY <1>4 DEF Next, Watch
  <2>2. PageHonest'
    BY <1>4 DEF PageHonest
  <2>3. page.step = "bounded" =>
          /\ page.times \subseteq 0..clock'
          /\ \A a \in readAll' : InScope(page.scope, a)' => fetched'[a] \in page.times
    BY <1>0, <2>1, ViewStays DEF PageInv
  <2>4. \A a \in committed :
          /\ explicit[a] \in States /\ explicit'[a] \in States
          /\ explicit'[a] = "none" => explicit[a] = "none"
          /\ Covered(a, page.markers)' <=> Covered(a, page.markers)
          /\ InScope(page.scope, a)' <=> InScope(page.scope, a)
    BY <1>1, ViewStays
  <2>5. ASSUME page.step = "narrowed", NEW a \in openAll'
        PROVE  explicit'[a] = "unread" \/ ~Covered(a, page.markers)'
    <3>1. a \in committed /\ a \in openAll /\ a \in Open'
      BY <1>0, <2>1
    <3>2. explicit'[a] # "read"
      BY <3>1 DEF Open, IsRead
    <3>3. QED
      BY <2>5, <2>4, <3>1, <3>2 DEF PageInv, States
  <2>6. ASSUME page.step = "narrowed", NEW a \in readAll', InScope(page.scope, a)'
        PROVE  explicit'[a] = "read" \/ Covered(a, page.markers)'
    <3>1. a \in committed /\ a \in readAll /\ a \in Read'
      BY <1>0, <2>1
    <3>2. explicit'[a] # "unread"
      BY <3>1 DEF Read, IsRead
    <3>3. QED
      BY <2>6, <2>4, <3>1, <3>2 DEF PageInv, States
  <2>7. QED
    BY <1>0, <2>1, <2>2, <2>3, <2>5, <2>6 DEF PageInv
<1>5. QED
  BY <1>0, <1>2, <1>3, <1>4

LEMMA PageBegins ==
  ASSUME ReadInv, PageInv, Next, NEW k \in Scopes, OpenPage(k)
  PROVE  PageInv'
<1> USE RowsStay
<1>1. /\ page.step = "idle"
      /\ page' = [step |-> "bounded", scope |-> k, times |-> {fetched[a] : a \in Shelf(k)}]
      /\ UNCHANGED <<clock, fetched, committed>>
  BY DEF OpenPage
<1>2. openAll' = Open' /\ readAll' = Read' /\ savedAll' = saved'
  BY <1>1 DEF Next, Watch
<1>3. Open' \subseteq committed' /\ Read' \subseteq committed'
  BY DEF Open, Read
<1>4. page'.times \subseteq 0..clock'
  BY <1>1 DEF Shelf
<1>5. ASSUME NEW a \in readAll', InScope(k, a)'
      PROVE  fetched'[a] \in page'.times
  <2>1. a \in committed /\ InScope(k, a)
    BY <1>1, <1>2, <1>3, <1>5, ViewStays
  <2>2. a \in Shelf(k)
    BY <2>1 DEF Shelf
  <2>3. QED
    BY <1>1, <2>2
<1>6. QED
  BY <1>1, <1>2, <1>3, <1>4, <1>5 DEF PageInv, PageHonest

(* The markers between the oldest and the newest time of a page are all     *)
(* that can cover an article of the page.                                   *)
LEMMA CandidatesSuffice ==
  ASSUME ReadInv, NEW k, NEW times, times \subseteq 0..clock,
         NEW a \in Shelf(k), fetched[a] \in times, Covered(a, Markers)
  PROVE  Covered(a, Candidates(Shelf(k), Oldest(times), Newest(times)))
<1> DEFINE t == fetched[a]
           old == Oldest(times)
           new == Newest(times)
<1>1. clock \in Nat /\ NoTime \notin Nat /\ markedAt \in [Scopes -> Nat \cup {NoTime}]
  BY ReadAssumption DEF ReadInv, ReadTyped
<1>2. PICK m \in Markers : InScope(m[1], a) /\ t <= m[2]
  BY DEF Covered
<1>3. m[1] \in Scopes /\ m[2] \in Nat
  BY <1>1 DEF Markers
<1>4. times \subseteq Nat /\ times # {} /\ t \in Nat
  <2>1. \A u \in times : u \in Nat
    BY <1>1
  <2>2. t \in times
    OBVIOUS
  <2>3. QED
    BY <2>1, <2>2
<1>5. old \in Nat /\ old <= t
  BY <1>4, OldestIsLeast
<1>6. new \in Nat /\ t <= new
  BY <1>1, <1>4, NewestIsGreatest
<1> HIDE DEF old, new
<1>7. m[2] >= old
  BY <1>2, <1>3, <1>4, <1>5
<1>8. CASE IsFeed(m[1])
  BY <1>2, <1>7, <1>8 DEF Candidates, Covered, InScope, old, new
<1>9. CASE ~IsFeed(m[1])
  <2>1. m[1].first \in Nat /\ m[1].last \in Nat
    BY <1>3, <1>9, ReadAssumption DEF Scopes, IsFeed
  <2>2. Day(t) \in m[1].first..m[1].last
    BY <1>2, <1>9 DEF InScope
  <2>3. Day(old) <= Day(t) /\ Day(t) <= Day(new)
    BY <1>4, <1>5, <1>6, DaysAscend
  <2>4. Day(old) \in Int /\ Day(t) \in Int /\ Day(new) \in Int
    BY <1>4, <1>5, <1>6, ReadAssumption DEF Day
  <2>5. m[1].first <= Day(new) /\ m[1].last >= Day(old)
    BY <2>1, <2>2, <2>3, <2>4
  <2>6. m \in Candidates(Shelf(k), old, new)
    BY <1>7, <1>9, <2>5 DEF Candidates
  <2>7. QED
    BY <1>2, <2>6 DEF Covered, old, new
<1>10. QED
  BY <1>8, <1>9

LEMMA PageNarrows ==
  ASSUME ReadInv, PageInv, Next, ReadMarkers
  PROVE  PageInv'
<1> USE RowsStay
<1> DEFINE k == page.scope
           ms == IF page.times = {} THEN {}
                 ELSE Candidates(Shelf(k), Oldest(page.times), Newest(page.times))
<1>1. /\ page.step = "bounded"
      /\ page' = [step |-> "narrowed", scope |-> k, markers |-> ms]
      /\ UNCHANGED <<clock, fetched, committed, explicit, saved, markedAt>>
  BY DEF ReadMarkers, states
<1>2. Open' = Open /\ Read' = Read
  BY <1>1 DEF Open, Read, IsRead, Covered, Markers, InScope, IsFeed, Day
<1>3. openAll' = openAll /\ readAll' = readAll /\ savedAll' = savedAll
  <2>1. /\ openAll' = openAll \cap Open' /\ readAll' = readAll \cap Read'
        /\ savedAll' = savedAll \cap saved'
    BY <1>1 DEF Next, Watch
  <2>2. QED
    BY <1>1, <1>2, <2>1 DEF PageInv
<1>4. openAll \subseteq Open /\ readAll \subseteq Read /\ savedAll \subseteq saved
  BY <1>1 DEF PageInv
<1>5. ms \subseteq Markers
  BY DEF Candidates
<1>6. \A a \in openAll : explicit[a] = "unread" \/ ~Covered(a, ms)
  BY <1>4, <1>5, ViewMeans DEF Covered
<1>7. ASSUME NEW a \in readAll, InScope(k, a)
      PROVE  explicit[a] = "read" \/ Covered(a, ms)
  <2>1. a \in Read /\ a \in Shelf(k)
    BY <1>4, <1>7, ViewMeans DEF Shelf
  <2>2. page.times \subseteq 0..clock /\ fetched[a] \in page.times
    BY <1>1, <1>7 DEF PageInv
  <2>3. CASE explicit[a] = "read"
    BY <2>3
  <2>4. CASE Covered(a, Markers)
    BY <2>1, <2>2, <2>4, CandidatesSuffice
  <2>5. QED
    BY <2>1, <2>3, <2>4, ViewMeans
<1>8. QED
  BY <1>1, <1>2, <1>3, <1>4, <1>6, <1>7, ViewStays DEF PageInv, PageHonest

LEMMA PageShows ==
  ASSUME ReadInv, PageInv, Next, ReadRows
  PROVE  PageInv'
<1> DEFINE rows == {a \in Shelf(page.scope) : ~IsRead(a, page.markers) /\ a \notin saved}
<1>1. PICK cards \in SUBSET rows :
        /\ cards # rows => Cardinality(cards) = PageLimit
        /\ page' = [step |-> "shown", scope |-> page.scope, cards |-> cards,
                    more |-> Cardinality(rows) > PageLimit]
  BY DEF ReadRows
<1>2. /\ page.step = "narrowed"
      /\ UNCHANGED <<clock, fetched, committed, openAll, readAll, savedAll>>
  BY <1>1 DEF ReadRows, Next, Watch
<1>3. /\ openAll \subseteq Open /\ readAll \subseteq Read /\ savedAll \subseteq saved
      /\ Open \subseteq committed
  BY <1>2, ViewMeans DEF PageInv
<1>4. cards \cap (readAll \cup savedAll) = {}
  <2>1. \A a \in cards : InScope(page.scope, a) /\ ~IsRead(a, page.markers) /\ a \notin saved
    BY DEF Shelf
  <2>2. \A a \in readAll : InScope(page.scope, a) => IsRead(a, page.markers)
    BY <1>2, <1>3, ViewMeans DEF PageInv, IsRead
  <2>3. QED
    BY <1>3, <2>1, <2>2
<1>5. {a \in openAll : InScope(page.scope, a)} \subseteq rows
  BY <1>2, <1>3, ViewMeans DEF PageInv, IsRead, Shelf
<1>6. ASSUME ~page'.more
      PROVE  cards = rows
  <2>1. IsFiniteSet(rows)
    <3>1. rows \subseteq Articles
      BY RowsStay DEF Shelf
    <3>2. QED
      BY <3>1, ReadAssumption, FS_Subset
  <2>2. ~(Cardinality(rows) > PageLimit)
    <3>1. page'.more = (Cardinality(rows) > PageLimit)
      BY <1>1
    <3>2. QED
      BY <1>6, <3>1
  <2> HIDE DEF rows
  <2>3. Cardinality(rows) \in Nat /\ Cardinality(rows) <= PageLimit
    <3>1. Cardinality(rows) \in Nat
      BY <2>1, FS_CardinalityType
    <3>2. QED
      BY <2>2, <3>1, ReadAssumption
  <2>4. cards # rows => Cardinality(cards) < Cardinality(rows)
    <3>1. cards \in SUBSET rows
      OBVIOUS
    <3>2. QED
      BY <2>1, <3>1, FS_Subset, FS_CardinalityType
  <2>5. QED
    BY <1>1, <2>3, <2>4, ReadAssumption
<1>7. \A a : InScope(page.scope, a)' <=> InScope(page.scope, a)
  BY <1>1, <1>2 DEF InScope, IsFeed, Day
<1>8. PageHonest'
  BY <1>1, <1>2, <1>4, <1>5, <1>6, <1>7 DEF PageHonest
<1>9. QED
  BY <1>1, <1>2, <1>8 DEF PageInv

LEMMA PageStep == ReadInv /\ PageInv /\ [Next]_vars => PageInv'
<1> SUFFICES ASSUME ReadInv, PageInv, [Next]_vars
             PROVE  PageInv'
  OBVIOUS
<1>1. CASE UNCHANGED vars
  <2>1. Open' = Open /\ Read' = Read
    BY <1>1 DEF vars, Open, Read, IsRead, Covered, Markers, InScope, IsFeed, Day
  <2>2. QED
    BY <1>1, <2>1 DEF vars, PageInv, PageHonest, Covered, InScope, IsFeed, Day
<1>2. CASE Next /\ page' = page
  BY <1>2, PageWaits
<1>3. CASE Next /\ \E k \in Scopes : OpenPage(k)
  BY <1>3, PageBegins
<1>4. CASE Next /\ ReadMarkers
  BY <1>4, PageNarrows
<1>5. CASE Next /\ ReadRows
  BY <1>5, PageShows
<1>6. CASE Next /\ ClosePage
  <2>1. page' = IdlePage /\ openAll' = {} /\ readAll' = {} /\ savedAll' = {}
    BY <1>6 DEF ClosePage, IdlePage, Next, Watch
  <2>2. QED
    BY <2>1 DEF PageInv, PageHonest, IdlePage
<1>7. QED
  BY <1>1, <1>2, <1>3, <1>4, <1>5, <1>6 DEF Next, Step, Tick, Insert, Publish, Save, Unsave,
     MarkArticle, BeginMark, SelectArticles, CommitMark, RollBack

(* A page resolved in three statements beside other requests hides nothing  *)
(* that was open throughout and shows nothing that was read or saved        *)
(* throughout.                                                              *)
THEOREM PagesAreHonest == Spec => []PageHonest
<1>1. Init => PageInv
  BY DEF Init, PageInv, PageHonest, IdlePage
<1>2. PageInv => PageHonest
  BY DEF PageInv
<1>3. QED
  BY <1>1, <1>2, ReadInvariant, PageStep, PTL DEF Spec
=============================================================================
