----------------------------- MODULE PageProofs -----------------------------
(***************************************************************************)
(* What a reader's pages show, for every number of articles, of writes and  *)
(* of clicks: the digest page's cards agree with the server and its keys    *)
(* with what is highlighted (ArticleActions), and the Recommended page never *)
(* shows what was dismissed, nor serves a ranking of other rows under a key *)
(* (Recommendations).                                                       *)
(***************************************************************************)
EXTENDS ArticleActions, Recommendations, FiniteSetTheorems, WellFoundedInduction, TLAPS

-----------------------------------------------------------------------------
(* The cards of a digest page                                                *)

LEMMA NestedUpdate ==
  ASSUME NEW A, NEW B, NEW C, NEW g \in [A -> [B -> C]], NEW a \in A, NEW b \in B, NEW c \in C
  PROVE  /\ [g EXCEPT ![a][b] = c] \in [A -> [B -> C]]
         /\ \A x \in A, y \in B :
              [g EXCEPT ![a][b] = c][x][y] = IF x = a /\ y = b THEN c ELSE g[x][y]
OBVIOUS

(* A card has a place among those in the page, and one of them is first.     *)
LEMMA PlaceFacts ==
  ASSUME NEW places
  PROVE  /\ IsFiniteSet(OnPage(places)) /\ Cardinality(OnPage(places)) \in 0..Size
         /\ OnPage(places) # {} => Cardinality(OnPage(places)) >= 1
         /\ \A a \in PageArticles : Position(a, places) \in 0..Size
         /\ \A a \in OnPage(places) : Position(a, places) \in 1..Cardinality(OnPage(places))
<1>1. IsFiniteSet(PageArticles) /\ Cardinality(PageArticles) = Size
  BY FS_Interval, CardAssumption DEF PageArticles
<1>2. ASSUME NEW S \in SUBSET PageArticles
      PROVE  IsFiniteSet(S) /\ Cardinality(S) \in 0..Size
  BY <1>1, FS_Subset, FS_CardinalityType, CardAssumption
<1>3. OnPage(places) \in SUBSET PageArticles
  BY DEF OnPage
<1>4. OnPage(places) # {} => Cardinality(OnPage(places)) >= 1
  BY <1>2, <1>3, FS_EmptySet
<1>5. ASSUME NEW a \in PageArticles
      PROVE  /\ Position(a, places) \in 0..Size
             /\ a \in OnPage(places) => Position(a, places) \in 1..Cardinality(OnPage(places))
  <2> DEFINE P == {b \in OnPage(places) : b <= a}
  <2>1. P \in SUBSET PageArticles /\ P \subseteq OnPage(places)
    BY <1>3
  <2>2. IsFiniteSet(P) /\ Cardinality(P) \in 0..Size /\ Position(a, places) = Cardinality(P)
    BY <1>2, <2>1 DEF Position
  <2>3. Cardinality(P) <= Cardinality(OnPage(places))
    BY <1>2, <1>3, <2>1, FS_Subset
  <2>4. a \in OnPage(places) => P # {}
    BY DEF PageArticles
  <2>5. P # {} => Cardinality(P) >= 1
    BY <2>2, FS_EmptySet
  <2>6. QED
    BY <1>2, <1>3, <2>2, <2>3, <2>4, <2>5
<1>6. QED
  BY <1>2, <1>3, <1>4, <1>5

(* A request keeps its type when its step changes.                           *)
LEMMA StepTyped ==
  ASSUME CardTypeOK, NEW a \in PageArticles, NEW f \in Forms,
         NEW to \in {"idle", "sent", "kept", "folding", "failed"}
  PROVE  [requests EXCEPT ![a][f].step = to] \in [PageArticles -> [Forms ->
           [step: {"idle", "sent", "kept", "folding", "failed"}, index: 0..Size]]]
<1> DEFINE R == [step: {"idle", "sent", "kept", "folding", "failed"}, index: 0..Size]
           r == [requests[a][f] EXCEPT !.step = to]
<1>1. requests \in [PageArticles -> [Forms -> R]] /\ requests[a][f] \in R
  BY DEF CardTypeOK
<1>2. r \in R
  BY <1>1
<1> HIDE DEF r, R
<1>3. [requests EXCEPT ![a][f] = r] \in [PageArticles -> [Forms -> R]]
  BY <1>1, <1>2, NestedUpdate
<1>4. QED
  BY <1>3 DEF r, R

(* One step of a request changes its step and nothing of the others.         *)
LEMMA StepFacts ==
  ASSUME CardTypeOK, NEW a \in PageArticles, NEW f \in Forms,
         NEW from, NEW to \in {"idle", "sent", "kept", "folding", "failed"},
         Step(a, f, from, to)
  PROVE  /\ requests[a][f].step = from
         /\ \A b \in PageArticles, g \in Forms :
              requests'[b][g].step = IF b = a /\ g = f THEN to ELSE requests[b][g].step
<1> DEFINE R == [step: {"idle", "sent", "kept", "folding", "failed"}, index: 0..Size]
           r == [requests[a][f] EXCEPT !.step = to]
           G == [requests EXCEPT ![a][f] = r]
<1>1. requests \in [PageArticles -> [Forms -> R]] /\ requests[a][f] \in R
  BY DEF CardTypeOK
<1>2. r \in R /\ r.step = to
  BY <1>1
<1>3. requests' = G /\ requests[a][f].step = from
  BY DEF Step
<1> HIDE DEF r, R
<1>4. \A b \in PageArticles, g \in Forms :
        G[b][g] = IF b = a /\ g = f THEN r ELSE requests[b][g]
  BY <1>1, <1>2, NestedUpdate
<1> HIDE DEF G
<1>5. QED
  BY <1>2, <1>3, <1>4

LEMMA SelectFacts ==
  ASSUME NEW places, NEW index \in Int, Select(index, places),
         selected \in 0..Size, highlighted \subseteq PageArticles
  PROVE  /\ selected' \in 0..Size /\ highlighted' \subseteq PageArticles
         /\ OnPage(places) # {} =>
              /\ selected' \in 1..Cardinality(OnPage(places))
              /\ highlighted' \cap OnPage(places)
                   = {a \in OnPage(places) : Position(a, places) = selected'}
<1>1. OnPage(places) \subseteq PageArticles
  BY DEF OnPage
<1>2. CASE OnPage(places) = {}
  BY <1>2, CardAssumption DEF Select, None
<1>3. CASE OnPage(places) # {}
  <2> DEFINE here == OnPage(places)
             n == Cardinality(here)
             chosen == IF index < 1 THEN 1 ELSE IF index > n THEN n ELSE index
  <2>1. /\ selected' = chosen
        /\ highlighted' = (highlighted \ here)
                          \cup {a \in here : Position(a, places) = chosen}
    BY <1>3 DEF Select
  <2>2. n \in 1..Size /\ n \in Int
    BY <1>3, PlaceFacts
  <2> HIDE DEF n
  <2>3. chosen \in 1..n /\ chosen \in 0..Size
    <3>1. n >= 1 /\ n <= Size /\ Size \in Int
      BY <2>2, CardAssumption
    <3>2. CASE index < 1
      BY <2>2, <3>1, <3>2
    <3>3. CASE ~(index < 1) /\ index > n
      BY <2>2, <3>1, <3>3
    <3>4. CASE ~(index < 1) /\ ~(index > n)
      BY <2>2, <3>1, <3>4
    <3>5. QED
      BY <3>2, <3>3, <3>4
  <2> HIDE DEF chosen
  <2>4. highlighted' \subseteq PageArticles
        /\ highlighted' \cap here = {a \in here : Position(a, places) = chosen}
    BY <1>1, <2>1
  <2>5. QED
    BY <2>1, <2>3, <2>4 DEF n
<1>4. QED
  BY <1>2, <1>3

(* Only the steps that select cards change what is selected, highlighted or  *)
(* in the page.                                                              *)
LEMMA CardTyped ==
  ASSUME CardTypeOK, [CardNext]_cardVars
  PROVE  CardTypeOK'
<1> DEFINE R == [step: {"idle", "sent", "kept", "folding", "failed"}, index: 0..Size]
<1>0. /\ slots \in [PageArticles -> {"card", "mark", "save"}]
      /\ selected \in 0..Size /\ highlighted \subseteq PageArticles
      /\ pending \in [PageArticles -> [Forms -> BOOLEAN]]
      /\ requests \in [PageArticles -> [Forms -> R]]
      /\ undoing \in [PageArticles -> {"idle", "sent", "sentOwn", "done", "doneOwn"}]
      /\ status \in [article: 0..Size, own: BOOLEAN]
      /\ read \subseteq PageArticles /\ saved \subseteq PageArticles
      /\ unsure \subseteq PageArticles /\ submits \in 0..MaxSubmits
      /\ NoStatus \in [article: 0..Size, own: BOOLEAN]
      /\ PageArticles \subseteq 0..Size /\ 0 \in 0..Size /\ Size \in Nat /\ MaxSubmits \in Nat
  BY CardAssumption DEF CardTypeOK, PageArticles, NoStatus, None
<1> HIDE DEF R
<1>1. SelectedPosition \in Int /\ (SelectedPosition \in 0..Size \/ OnPage(slots) = {})
  BY <1>0, PlaceFacts DEF SelectedPosition
<1>2. ASSUME NEW a \in PageArticles, NEW f \in Forms, Submit(a, f), a \in OnPage(slots)
      PROVE  /\ pending' \in [PageArticles -> [Forms -> BOOLEAN]]
             /\ requests' \in [PageArticles -> [Forms -> R]]
             /\ submits' \in 0..MaxSubmits
             /\ UNCHANGED <<slots, undoing, status, read, saved, unsure>>
  <2>1. [step |-> "sent", index |-> Position(a, slots)] \in R
    BY PlaceFacts DEF R
  <2>2. QED
    BY <1>0, <1>2, <2>1, NestedUpdate DEF Submit
<1>3. CASE \E offset \in {-1, 1} : Move(offset)
  <2>1. PICK offset \in {-1, 1} : Move(offset)
    BY <1>3
  <2>2. SelectedPosition + offset \in Int
    BY <1>1, <2>1 DEF Move
  <2>3. QED
    BY <1>0, <2>1, <2>2, SelectFacts DEF Move, CardTypeOK, R
<1>4. ASSUME NEW a \in PageArticles, NEW f \in Forms, PressKey(a, f)
      PROVE  CardTypeOK'
  <2>1. selected' \in 0..Size /\ UNCHANGED highlighted
    BY <1>1, <1>4 DEF PressKey
  <2>2. QED
    BY <1>0, <1>2, <1>4, <2>1 DEF PressKey, CardTypeOK, R
<1>5. ASSUME NEW a \in PageArticles, NEW f \in Forms, Click(a, f)
      PROVE  CardTypeOK'
  <2>1. Position(a, slots) \in Int
    BY PlaceFacts
  <2>2. selected' \in 0..Size /\ highlighted' \subseteq PageArticles
    BY <1>0, <1>5, <2>1, SelectFacts DEF Click
  <2>3. QED
    BY <1>0, <1>2, <1>5, <2>2 DEF Click, CardTypeOK, R
<1>6. ASSUME NEW a \in PageArticles, NEW f \in Forms,
             Handle(a, f) \/ Lose(a, f) \/ Show(a, f) \/ ShowError(a, f)
      PROVE  CardTypeOK'
  <2>1. requests' \in [PageArticles -> [Forms -> R]]
    <3>1. PICK to \in {"idle", "sent", "kept", "folding", "failed"} :
            requests' = [requests EXCEPT ![a][f].step = to]
      BY <1>6 DEF Handle, Lose, Show, ShowError, Step
    <3>2. QED
      BY <3>1, StepTyped DEF R
  <2>2. pending' \in [PageArticles -> [Forms -> BOOLEAN]]
    <3>1. pending' = pending \/ pending' = [pending EXCEPT ![a][f] = FALSE]
      BY <1>6, Zenon DEF Handle, Lose, Show, ShowError
    <3>2. [pending EXCEPT ![a][f] = FALSE] \in [PageArticles -> [Forms -> BOOLEAN]]
      BY <1>0
    <3>3. QED
      BY <1>0, <3>1, <3>2, Zenon
  <2>3. /\ read' \subseteq PageArticles /\ saved' \subseteq PageArticles
        /\ unsure' \subseteq PageArticles
        /\ UNCHANGED <<slots, selected, highlighted, undoing, status, submits>>
    BY <1>0, <1>6 DEF Handle, Lose, Show, ShowError
  <2>4. QED
    BY <1>0, <2>1, <2>2, <2>3 DEF CardTypeOK, R
<1>7. ASSUME NEW a \in PageArticles, NEW f \in Forms, RemoveCard(a, f)
      PROVE  CardTypeOK'
  <2>1. requests' \in [PageArticles -> [Forms -> R]]
    <3>1. requests' = [requests EXCEPT ![a][f].step = "idle"]
      BY <1>7 DEF RemoveCard, Step
    <3>2. QED
      BY <3>1, StepTyped DEF R
  <2>2. slots' \in [PageArticles -> {"card", "mark", "save"}]
    BY <1>0, <1>7 DEF RemoveCard, Forms
  <2>3. requests[a][f].index \in Int
    BY <1>0 DEF R
  <2>4. selected' \in 0..Size /\ highlighted' \subseteq PageArticles
    BY <1>0, <1>7, <2>3, SelectFacts DEF RemoveCard
  <2>5. status' \in [article: 0..Size, own: BOOLEAN]
    BY <1>0, <1>7 DEF RemoveCard
  <2>6. unsure' \subseteq PageArticles /\ UNCHANGED <<pending, undoing, read, saved, submits>>
    BY <1>0, <1>7 DEF RemoveCard
  <2>7. QED
    BY <1>0, <2>1, <2>2, <2>4, <2>5, <2>6 DEF CardTypeOK, R
<1>8. CASE ClearStatus
  BY <1>0, <1>8 DEF ClearStatus, CardTypeOK, R
<1>9. CASE ClickUndo
  BY <1>0, <1>9 DEF ClickUndo, CardTypeOK, R
<1>10. ASSUME NEW a \in PageArticles, HandleUndo(a)
       PROVE  CardTypeOK'
  BY <1>0, <1>10 DEF HandleUndo, CardTypeOK, R
<1>11. ASSUME NEW a \in PageArticles, Restore(a)
       PROVE  CardTypeOK'
  <2>1. pending' \in [PageArticles -> [Forms -> BOOLEAN]]
    BY <1>0, <1>11, NestedUpdate DEF Restore, Forms
  <2>2. slots' \in [PageArticles -> {"card", "mark", "save"}]
    BY <1>0, <1>11 DEF Restore
  <2>3. Position(a, slots') \in Int
    BY PlaceFacts
  <2>4. selected' \in 0..Size /\ highlighted' \subseteq PageArticles
    BY <1>0, <1>11, <2>3, SelectFacts DEF Restore
  <2>5. /\ undoing' \in [PageArticles -> {"idle", "sent", "sentOwn", "done", "doneOwn"}]
        /\ status' \in [article: 0..Size, own: BOOLEAN] /\ unsure' \subseteq PageArticles
        /\ UNCHANGED <<requests, read, saved, submits>>
    BY <1>0, <1>11 DEF Restore
  <2>6. QED
    BY <1>0, <2>1, <2>2, <2>4, <2>5 DEF CardTypeOK, R
<1>12. ASSUME NEW a \in PageArticles, UndoFails(a)
       PROVE  CardTypeOK'
  <2>1. status' \in [article: 0..Size, own: BOOLEAN]
    BY <1>0, <1>12 DEF UndoFails
  <2>2. QED
    BY <1>0, <1>12, <2>1 DEF UndoFails, CardTypeOK, R
<1>13. CASE UNCHANGED cardVars
  BY <1>13 DEF cardVars, CardTypeOK
<1>14. QED
  BY <1>3, <1>4, <1>5, <1>6, <1>7, <1>8, <1>9, <1>10, <1>11, <1>12, <1>13 DEF CardNext

(* Every step keeps the card a key acts on the one shown as selected.         *)
LEMMA KeysKept ==
  ASSUME CardTypeOK, KeysActOnHighlighted, [CardNext]_cardVars
  PROVE  KeysActOnHighlighted'
<1> DEFINE Shown(places, at, marked) ==
             OnPage(places) # {} =>
               marked \cap OnPage(places)
                 = {a \in OnPage(places) :
                      Position(a, places)
                        = IF at \in 1..Cardinality(OnPage(places)) THEN at ELSE 1}
<1>0. selected \in 0..Size /\ highlighted \subseteq PageArticles
  BY DEF CardTypeOK
<1>1. KeysActOnHighlighted <=> Shown(slots, selected, highlighted)
  BY DEF KeysActOnHighlighted, SelectedPosition
<1>2. KeysActOnHighlighted' <=> Shown(slots', selected', highlighted')
  BY DEF KeysActOnHighlighted, SelectedPosition, OnPage, Position
<1>3. ASSUME NEW places, NEW index \in Int, Select(index, places)
      PROVE  Shown(places, selected', highlighted')
  BY <1>0, <1>3, SelectFacts
<1> HIDE DEF Shown
<1>4. ASSUME UNCHANGED <<slots, selected, highlighted>>
      PROVE  KeysActOnHighlighted'
  BY <1>1, <1>2, <1>4
<1>5. SelectedPosition \in Int
  BY <1>0 DEF SelectedPosition
<1>6. CASE \E offset \in {-1, 1} : Move(offset)
  <2>1. PICK offset \in {-1, 1} : Move(offset)
    BY <1>6
  <2>2. SelectedPosition + offset \in Int
    BY <1>5, <2>1
  <2>3. Shown(slots, selected', highlighted') /\ slots' = slots
    BY <1>3, <2>1, <2>2 DEF Move
  <2>4. QED
    BY <1>2, <2>3
<1>7. ASSUME NEW a \in PageArticles, NEW f \in Forms, PressKey(a, f)
      PROVE  KeysActOnHighlighted'
  <2>1. a \in OnPage(slots)
    BY <1>7 DEF PressKey
  <2>2. selected' = SelectedPosition /\ UNCHANGED <<slots, highlighted>>
    BY <1>7 DEF PressKey, Submit
  <2>3. Cardinality(OnPage(slots)) >= 1 /\ Cardinality(OnPage(slots)) \in Int
    BY <2>1, PlaceFacts
  <2>4. SelectedPosition \in 1..Cardinality(OnPage(slots))
    BY <2>3 DEF SelectedPosition
  <2>5. Shown(slots, SelectedPosition, highlighted)
    BY <2>4 DEF KeysActOnHighlighted, Shown
  <2>6. QED
    BY <1>2, <2>2, <2>5
<1>8. ASSUME NEW a \in PageArticles, NEW f \in Forms, Click(a, f)
      PROVE  KeysActOnHighlighted'
  <2>1. Position(a, slots) \in Int
    BY PlaceFacts
  <2>2. Shown(slots, selected', highlighted') /\ slots' = slots
    BY <1>3, <1>8, <2>1 DEF Click, Submit
  <2>3. QED
    BY <1>2, <2>2
<1>9. ASSUME NEW a \in PageArticles, NEW f \in Forms, RemoveCard(a, f)
      PROVE  KeysActOnHighlighted'
  <2>1. requests[a][f].index \in Int
    BY DEF CardTypeOK
  <2>2. Shown(slots', selected', highlighted')
    BY <1>3, <1>9, <2>1 DEF RemoveCard
  <2>3. QED
    BY <1>2, <2>2
<1>10. ASSUME NEW a \in PageArticles, Restore(a)
       PROVE  KeysActOnHighlighted'
  <2>1. CASE undoing[a] = "doneOwn"
    <3>1. Position(a, slots') \in Int
      BY PlaceFacts
    <3>2. Shown(slots', selected', highlighted')
      BY <1>3, <1>10, <2>1, <3>1 DEF Restore
    <3>3. QED
      BY <1>2, <3>2
  <2>2. CASE undoing[a] # "doneOwn"
    BY <1>4, <1>10, <2>2 DEF Restore
  <2>3. QED
    BY <2>1, <2>2
<1>11. ASSUME NEW a \in PageArticles, NEW f \in Forms,
              Handle(a, f) \/ Lose(a, f) \/ Show(a, f) \/ ShowError(a, f)
       PROVE  KeysActOnHighlighted'
  BY <1>4, <1>11 DEF Handle, Lose, Show, ShowError
<1>12. ASSUME NEW a \in PageArticles, HandleUndo(a) \/ UndoFails(a)
       PROVE  KeysActOnHighlighted'
  BY <1>4, <1>12 DEF HandleUndo, UndoFails
<1>13. CASE ClearStatus \/ ClickUndo \/ UNCHANGED cardVars
  BY <1>4, <1>13 DEF ClearStatus, ClickUndo, cardVars
<1>14. QED
  BY <1>6, <1>7, <1>8, <1>9, <1>10, <1>11, <1>12, <1>13 DEF CardNext

(* What an article's card, forms and Undo say of each other and of the       *)
(* server.  A mark is under way only while its form is locked and no Undo is *)
(* offered or under way; an Undo knows what is in the card's place; a fold   *)
(* under way means the server has answered.                                  *)
CardAgrees(a) ==
  LET mark == requests[a]["mark"].step
      locked == pending[a]["mark"]
      offered == status.article = a
  IN
  /\ mark # "kept"
  /\ mark # "idle" => locked /\ undoing[a] = "idle" /\ ~offered
  /\ undoing[a] # "idle" \/ offered => locked
  /\ undoing[a] \in {"sentOwn", "doneOwn"} \/ (offered /\ status.own) => slots[a] = "mark"
  /\ undoing[a] \in {"sent", "done"} \/ (offered /\ ~status.own) => slots[a] = "save"
  /\ slots[a] = "mark" => locked /\ mark = "idle"
  /\ slots[a] = "card" /\ mark = "idle" => ~locked
  /\ mark = "folding" => a \in read
  /\ undoing[a] \in {"done", "doneOwn"} => a \notin read
  /\ requests[a]["save"].step = "folding" \/ slots[a] = "save" => a \in saved
  /\ slots[a] = "mark" /\ Settled(a) => a \in read
  /\ slots[a] = "card" /\ Settled(a) => a \notin read

PageInv == CardTypeOK /\ KeysActOnHighlighted /\ \A a \in PageArticles : CardAgrees(a)

(* Every step keeps the page, the requests and the server in agreement.      *)
LEMMA CardsKept ==
  ASSUME CardTypeOK, \A a \in PageArticles : CardAgrees(a), [CardNext]_cardVars,
         NEW b \in PageArticles
  PROVE  CardAgrees(b)'
<1>0. /\ CardAgrees(b) /\ "mark" \in Forms /\ "save" \in Forms /\ None \notin PageArticles
      /\ slots \in [PageArticles -> {"card", "mark", "save"}]
      /\ pending \in [PageArticles -> [Forms -> BOOLEAN]]
      /\ undoing \in [PageArticles -> {"idle", "sent", "sentOwn", "done", "doneOwn"}]
      /\ status.own \in BOOLEAN
  BY CardAssumption DEF CardTypeOK, Forms, None, PageArticles
<1>1. ASSUME NEW a \in PageArticles, NEW f \in Forms, Submit(a, f), a \in OnPage(slots)
      PROVE  CardAgrees(b)'
  <2>1. /\ ~pending[a][f] /\ UNCHANGED <<slots, undoing, status, read, saved, unsure>>
        /\ pending' = [pending EXCEPT ![a][f] = TRUE]
    BY <1>1 DEF Submit
  <2>2. \A g \in Forms :
          requests'[b][g].step = IF b = a /\ g = f THEN "sent" ELSE requests[b][g].step
    BY <1>1 DEF Submit, CardTypeOK
  <2>3. pending'[b]["mark"] = IF b = a /\ f = "mark" THEN TRUE ELSE pending[b]["mark"]
    BY <1>0, <2>1
  <2>4. slots[a] = "card"
    BY <1>1 DEF OnPage
  <2>5. QED
    BY <1>0, <2>1, <2>2, <2>3, <2>4 DEF CardAgrees, Settled
<1>2. ASSUME NEW a \in PageArticles, NEW f \in Forms, Handle(a, f)
      PROVE  CardAgrees(b)'
  <2>1. CASE f = "mark"
    <3>1. Step(a, f, "sent", "folding") /\ read' = read \cup {a}
      BY <1>2, <2>1 DEF Handle
    <3>2. UNCHANGED <<slots, pending, undoing, status, saved, unsure>>
      BY <1>2, <2>1 DEF Handle
    <3>3. QED
      BY <1>0, <2>1, <3>1, <3>2, StepFacts DEF CardAgrees, Settled
  <2>2. CASE f = "save"
    <3>1. (Step(a, f, "sent", "folding") /\ saved' = saved \cup {a}) \/ Step(a, f, "sent", "kept")
      BY <1>2, <2>2 DEF Handle
    <3>2. saved \subseteq saved' /\ UNCHANGED <<slots, pending, undoing, status, read, unsure>>
      BY <1>2, <2>2 DEF Handle
    <3>3. QED
      BY <1>0, <2>2, <3>1, <3>2, StepFacts DEF CardAgrees, Settled
  <2>3. QED
    BY <2>1, <2>2 DEF Forms
<1>3. ASSUME NEW a \in PageArticles, NEW f \in Forms, Lose(a, f)
      PROVE  CardAgrees(b)'
  <2>1. UNCHANGED <<slots, pending, undoing, status, read, saved, unsure>>
    BY <1>3 DEF Lose
  <2>2. CASE Step(a, f, "sent", "failed")
    BY <1>0, <2>1, <2>2, StepFacts DEF CardAgrees, Settled
  <2>3. CASE Step(a, f, "folding", "failed")
    BY <1>0, <2>1, <2>3, StepFacts DEF CardAgrees, Settled
  <2>4. QED
    BY <1>3, <2>2, <2>3 DEF Lose
<1>4. ASSUME NEW a \in PageArticles, NEW f \in Forms, Show(a, f)
      PROVE  CardAgrees(b)'
  <2>1. Step(a, f, "kept", "idle") /\ pending' = [pending EXCEPT ![a][f] = FALSE]
        /\ UNCHANGED <<slots, undoing, status, read, saved, unsure>>
    BY <1>4 DEF Show
  <2>2. f = "save"
    BY <2>1, StepFacts DEF CardAgrees, Forms
  <2>3. pending'[b]["mark"] = pending[b]["mark"]
    BY <1>0, <2>1, <2>2
  <2>4. QED
    BY <1>0, <2>1, <2>2, <2>3, StepFacts DEF CardAgrees, Settled
<1>5. ASSUME NEW a \in PageArticles, NEW f \in Forms, ShowError(a, f)
      PROVE  CardAgrees(b)'
  <2>1. Step(a, f, "failed", "idle") /\ pending' = [pending EXCEPT ![a][f] = FALSE]
        /\ UNCHANGED <<slots, undoing, status, read, saved>>
    BY <1>5 DEF ShowError
  <2>2. unsure' = IF f = "mark" THEN unsure \cup {a} ELSE unsure
    BY <1>5 DEF ShowError
  <2>3. pending'[b]["mark"] = IF b = a /\ f = "mark" THEN FALSE ELSE pending[b]["mark"]
    BY <1>0, <2>1
  <2>4. CASE b = a /\ f = "mark"
    BY <1>0, <2>1, <2>2, <2>3, <2>4, StepFacts DEF CardAgrees, Settled
  <2>5. CASE ~(b = a /\ f = "mark")
    BY <1>0, <2>1, <2>2, <2>3, <2>5, StepFacts DEF CardAgrees, Settled
  <2>6. QED
    BY <2>4, <2>5
<1>6. ASSUME NEW a \in PageArticles, NEW f \in Forms, RemoveCard(a, f)
      PROVE  CardAgrees(b)'
  <2>1. Step(a, f, "folding", "idle") /\ UNCHANGED <<pending, undoing, read, saved>>
    BY <1>6 DEF RemoveCard
  <2>2. slots'[b] = IF b = a /\ slots[b] = "card" THEN f ELSE slots[b]
    BY <1>0, <1>6 DEF RemoveCard
  <2>3. /\ unsure' = IF f = "mark" THEN unsure \ {a} ELSE unsure
        /\ status' = IF f = "mark" THEN [article |-> a, own |-> slots[a] = "card"] ELSE NoStatus
    BY <1>6 DEF RemoveCard
  <2>4. /\ status'.article = IF f = "mark" THEN a ELSE None
        /\ f = "mark" => status'.own = (slots[a] = "card")
    BY <2>3 DEF NoStatus
  <2>5. CASE b = a /\ f = "mark"
    <3>1. requests[b]["mark"].step = "folding" /\ requests'[b]["mark"].step = "idle"
          /\ requests'[b]["save"].step = requests[b]["save"].step
      BY <1>0, <2>1, <2>5, StepFacts
    <3>2. /\ slots[b] # "mark" /\ undoing[b] = "idle" /\ pending[b]["mark"] /\ b \in read
          /\ slots[b] = "save" => b \in saved
      BY <1>0, <3>1 DEF CardAgrees
    <3>3. slots'[b] = IF slots[b] = "card" THEN "mark" ELSE slots[b]
      BY <2>2, <2>5
    <3>4. status'.article = b /\ status'.own = (slots[b] = "card") /\ b \notin unsure'
      BY <2>3, <2>4, <2>5
    <3>5. QED
      BY <1>0, <2>1, <3>1, <3>2, <3>3, <3>4 DEF CardAgrees, Settled
  <2>6. CASE b = a /\ f = "save"
    BY <1>0, <2>1, <2>2, <2>3, <2>4, <2>6, StepFacts DEF CardAgrees, Settled
  <2>7. CASE b # a
    BY <1>0, <2>1, <2>2, <2>3, <2>4, <2>7, StepFacts DEF CardAgrees, Settled
  <2>8. QED
    BY <2>5, <2>6, <2>7 DEF Forms
<1>7. CASE ClearStatus
  <2>1. status'.article = None
        /\ UNCHANGED <<slots, pending, requests, undoing, read, saved, unsure>>
    BY <1>7 DEF ClearStatus, NoStatus
  <2>2. QED
    BY <1>0, <2>1 DEF CardAgrees, Settled
<1>8. CASE ClickUndo
  <2>1. UNCHANGED <<slots, pending, requests, status, read, saved, unsure>>
    BY <1>8 DEF ClickUndo
  <2>2. IF b = status.article
        THEN undoing[b] = "idle" /\ undoing'[b] = IF status.own THEN "sentOwn" ELSE "sent"
        ELSE undoing'[b] = undoing[b]
    BY <1>0, <1>8 DEF ClickUndo
  <2>3. QED
    BY <1>0, <2>1, <2>2 DEF CardAgrees, Settled
<1>9. ASSUME NEW a \in PageArticles, HandleUndo(a)
      PROVE  CardAgrees(b)'
  <2>1. /\ undoing[a] \in {"sent", "sentOwn"} /\ read' = read \ {a}
        /\ UNCHANGED <<slots, pending, requests, status, saved, unsure>>
    BY <1>9 DEF HandleUndo
  <2>2. undoing'[b] = IF b = a THEN IF undoing[b] = "sentOwn" THEN "doneOwn" ELSE "done"
                      ELSE undoing[b]
    BY <1>0, <1>9 DEF HandleUndo
  <2>3. QED
    BY <1>0, <2>1, <2>2 DEF CardAgrees, Settled
<1>10. ASSUME NEW a \in PageArticles, Restore(a)
       PROVE  CardAgrees(b)'
  <2>1. /\ undoing[a] \in {"done", "doneOwn"} /\ status' = NoStatus
        /\ unsure' = unsure \ {a} /\ UNCHANGED <<requests, read, saved>>
        /\ pending' = [pending EXCEPT ![a]["mark"] = FALSE]
        /\ undoing' = [undoing EXCEPT ![a] = "idle"]
    BY <1>10 DEF Restore
  <2>2. status'.article = None /\ undoing'[b] = IF b = a THEN "idle" ELSE undoing[b]
    BY <1>0, <2>1 DEF NoStatus
  <2>3. pending'[b]["mark"] = IF b = a THEN FALSE ELSE pending[b]["mark"]
    BY <1>0, <2>1
  <2>4. slots'[b] = IF b = a /\ undoing[b] = "doneOwn" THEN "card" ELSE slots[b]
    BY <1>0, <1>10 DEF Restore
  <2>5. QED
    BY <1>0, <2>1, <2>2, <2>3, <2>4 DEF CardAgrees, Settled
<1>11. ASSUME NEW a \in PageArticles, UndoFails(a)
       PROVE  CardAgrees(b)'
  <2>1. /\ undoing[a] # "idle" /\ unsure' = unsure \cup {a}
        /\ status' = [article |-> a, own |-> undoing[a] \in {"sentOwn", "doneOwn"}]
        /\ UNCHANGED <<slots, pending, requests, read, saved>>
    BY <1>11 DEF UndoFails
  <2>2. /\ status'.article = a /\ status'.own = (undoing[a] \in {"sentOwn", "doneOwn"})
        /\ undoing'[b] = IF b = a THEN "idle" ELSE undoing[b]
    BY <1>0, <1>11, <2>1 DEF UndoFails
  <2>3. QED
    BY <1>0, <2>1, <2>2 DEF CardAgrees, Settled
<1>12. CASE Move(-1) \/ Move(1) \/ UNCHANGED cardVars
  <2>1. UNCHANGED <<slots, pending, requests, undoing, status, read, saved, unsure>>
    BY <1>12 DEF Move, cardVars
  <2>2. QED
    BY <1>0, <2>1 DEF CardAgrees, Settled
<1>13. ASSUME NEW a \in PageArticles, NEW f \in Forms, PressKey(a, f) \/ Click(a, f)
       PROVE  CardAgrees(b)'
  BY <1>1, <1>13 DEF PressKey, Click
<1>14. QED
  BY <1>2, <1>3, <1>4, <1>5, <1>6, <1>7, <1>8, <1>9, <1>10, <1>11, <1>12, <1>13 DEF CardNext

(* At first every card is in the page, the first of them selected, and       *)
(* nothing is under way.                                                     *)
LEMMA PageStarts ==
  ASSUME CardInit
  PROVE  PageInv
<1>1. OnPage(slots) = PageArticles /\ Cardinality(PageArticles) = Size
  BY FS_Interval, CardAssumption DEF CardInit, OnPage, PageArticles
<1>2. ASSUME NEW a \in PageArticles
      PROVE  Position(a, slots) = a
  <2>1. {b \in OnPage(slots) : b <= a} = 1..a /\ a \in Nat
    BY <1>1, CardAssumption DEF PageArticles
  <2>2. Cardinality(1..a) = a
    BY <2>1, FS_Interval
  <2>3. QED
    BY <2>1, <2>2 DEF Position
<1>3. SelectedPosition = 1 /\ highlighted = {1} /\ 1 \in PageArticles
  BY <1>1, CardAssumption DEF SelectedPosition, CardInit, PageArticles
<1>4. KeysActOnHighlighted
  BY <1>1, <1>2, <1>3 DEF KeysActOnHighlighted
<1>5. CardTypeOK
  BY <1>3, CardAssumption
     DEF CardInit, CardTypeOK, NoRequest, NoStatus, None, PageArticles
<1>6. ASSUME NEW a \in PageArticles
      PROVE  CardAgrees(a)
  <2>1. a # None /\ "mark" \in Forms /\ "save" \in Forms
    BY DEF PageArticles, None, Forms
  <2>2. QED
    BY <2>1 DEF CardInit, CardAgrees, Settled, NoRequest, NoStatus
<1>7. QED
  BY <1>4, <1>5, <1>6 DEF PageInv

LEMMA PageInvHolds == CardSpec => []PageInv
<1>1. CardInit => PageInv
  BY PageStarts
<1>2. PageInv /\ [CardNext]_cardVars => PageInv'
  BY CardTyped, KeysKept, CardsKept DEF PageInv, PageArticles
<1>3. QED
  BY <1>1, <1>2, PTL DEF CardSpec

(* The keys act on the card that is shown as selected, whatever was folded   *)
(* away or put back since its index was taken.                               *)
THEOREM KeysFollowTheHighlight == CardSpec => []KeysActOnHighlighted
<1>1. PageInv => KeysActOnHighlighted
  BY DEF PageInv
<1>2. QED
  BY <1>1, PageInvHolds, PTL

(* Where nothing is under way and nothing was reported as failed, what the   *)
(* page shows of an article is what the server has of it.                    *)
THEOREM PagesAgree == CardSpec => []PageAgrees
<1>1. PageInv => PageAgrees
  BY DEF PageInv, PageAgrees, CardAgrees, Settled
<1>2. QED
  BY <1>1, PageInvHolds, PTL

-----------------------------------------------------------------------------
(* The Recommended page                                                      *)

(* Neither a URL nor a long title twice among the articles of a ranking.     *)
Distinct(ranked) ==
  ranked \subseteq Articles /\ \A a, b \in ranked : a # b => UrlOf[a] # UrlOf[b]

(* The rows and their stamps: none is later than the clock, and none has the *)
(* stamp of the bulk mark that is not committed yet.                         *)
RowsTyped ==
  /\ writes \in Nat \ {0}
  /\ added \in [Articles -> 0..writes]
  /\ savedAt \in [Articles -> 0..writes]
  /\ readRow \in [Articles -> [at: 0..writes, read: BOOLEAN]]
  /\ bulk \in [at: 0..writes, articles: SUBSET Articles]
  /\ bulk # NoBulk => bulk.at # 0 /\ \A a \in Articles : readRow[a].at # bulk.at

(* The fields a request has at each step.                                    *)
PageTyped ==
  /\ page.step = "keyed" => page = [step |-> "keyed", key |-> page.key, raced |-> page.raced]
  /\ page.step = "profiled" =>
       page = [step |-> "profiled", key |-> page.key, raced |-> page.raced, saved |-> page.saved]
  /\ page.step = "excluded" =>
       page = [step |-> "excluded", key |-> page.key, raced |-> page.raced,
               saved |-> page.saved, read |-> page.read]
  /\ page.step \in {"keyed", "profiled", "excluded"} => page.raced \in BOOLEAN

(* A request that no write has raced holds the present key and rows.         *)
PageFaithful ==
  /\ page.step \in {"keyed", "profiled", "excluded"} /\ ~page.raced => page.key = Fingerprint
  /\ page.step \in {"profiled", "excluded"} /\ ~page.raced => page.saved = Saved
  /\ page.step = "excluded" /\ ~page.raced => page.read = Read

(* What the key of an entry says of the rows it was ranked from, whatever    *)
(* was written since: every later row has a later stamp, no row is lost      *)
(* unless the saves are fewer, and a row of the old stamps is as it was.     *)
EntryFaithful(key, corpus) ==
  /\ corpus = [documents |-> corpus.documents, saved |-> corpus.saved, read |-> corpus.read]
  /\ \A i \in {2, 4, 6} : key[i] \in 0..writes
  /\ corpus.documents \subseteq Listed
  /\ \A a \in Listed \ corpus.documents : added[a] > key[2]
  /\ corpus.saved \subseteq Articles /\ key[3] = Cardinality(corpus.saved)
  /\ \A a \in Saved : savedAt[a] <= key[4] => a \in corpus.saved
  /\ corpus.read \subseteq Articles
  /\ bulk # NoBulk => key[6] # bulk.at
  /\ ~reordered =>
       \A a \in Articles : readRow[a].at <= key[6] => (readRow[a].read <=> a \in corpus.read)

(* An article saved, or read, all through the request is one still.          *)
DismissedStill ==
  /\ dismissed.saved \subseteq Saved
  /\ dismissed.read \subseteq Read
  /\ page.step \in {"unsaved", "shown"} => page.cards \cap dismissed.saved = {}
  /\ page.step = "shown" => page.cards \cap dismissed.read = {}

(* No ranking that is kept or shown has two copies of an article.            *)
CopiesDropped ==
  /\ \A entry \in cache : Distinct(entry.ranked)
  /\ page.step = "ranked" => Distinct(page.ranked)
  /\ page.step \in {"unsaved", "shown"} => Distinct(page.cards)

RankInv ==
  /\ RowsTyped /\ reordered \in BOOLEAN /\ PageTyped /\ PageFaithful
  /\ \A entry \in cache : entry.corpus # NoCorpus => EntryFaithful(entry.key, entry.corpus)
  /\ DismissedStill /\ CopiesDropped

(* The newest of some times is one of them, and none is newer.               *)
LEMMA NewestFacts ==
  ASSUME NEW n \in Nat, NEW times \in [Articles -> 0..n]
  PROVE  /\ Newest(times) \in 0..n
         /\ \E a \in Articles : Newest(times) = times[a]
         /\ \A a \in Articles : times[a] <= Newest(times)
<1> DEFINE T == {n - times[a] : a \in Articles}
<1>1. T \subseteq Nat /\ T # {}
  BY RankAssumption
<1>2. PICK t \in T : \A u \in T : ~(<<u, t>> \in OpToRel(<, Nat))
  BY <1>1, NatLessThanWellFounded, WFMin
<1>3. PICK a \in Articles : t = n - times[a]
  OBVIOUS
<1>4. \A b \in Articles : times[b] <= times[a]
  <2>1. ASSUME NEW b \in Articles
        PROVE  times[b] <= times[a]
    <3>1. n - times[b] \in T /\ n - times[b] \in Nat /\ n - times[a] \in Nat
      BY <1>1
    <3>2. ~(n - times[b] < n - times[a])
      BY <1>1, <1>2, <1>3, <3>1 DEF OpToRel
    <3>3. times[a] \in 0..n /\ times[b] \in 0..n
      OBVIOUS
    <3>4. QED
      BY <3>2, <3>3
  <2>2. QED
    BY <2>1
<1>5. \E t1 \in {times[b] : b \in Articles} : \A b \in Articles : times[b] <= t1
  BY <1>4
<1>6. /\ Newest(times) \in {times[b] : b \in Articles}
      /\ \A b \in Articles : times[b] <= Newest(times)
  BY <1>5 DEF Newest
<1>7. QED
  BY <1>6

(* The rows there are and how many, and the newest of their times.           *)
LEMMA RowFacts ==
  ASSUME RowsTyped
  PROVE  /\ Listed \subseteq Articles /\ Saved \subseteq Articles /\ Read \subseteq Articles
         /\ ReadTimes \in [Articles -> 0..writes]
         /\ \A S \in SUBSET Articles : IsFiniteSet(S) /\ Cardinality(S) \in Nat
         /\ \A i \in {2, 4, 6} : Fingerprint[i] \in 0..writes
         /\ Fingerprint[2] = Newest(added) /\ Fingerprint[4] = Newest(savedAt)
         /\ Fingerprint[6] = Newest(ReadTimes) /\ Fingerprint[3] = Cardinality(Saved)
<1>1. Listed \subseteq Articles /\ Saved \subseteq Articles /\ Read \subseteq Articles
  BY DEF Listed, Saved, Read, Rows
<1>2. ReadTimes \in [Articles -> 0..writes]
  BY DEF RowsTyped, ReadTimes
<1>3. ASSUME NEW S \in SUBSET Articles
      PROVE  IsFiniteSet(S) /\ Cardinality(S) \in Nat
  BY RankAssumption, FS_Subset, FS_CardinalityType
<1>4. /\ Newest(added) \in 0..writes /\ Newest(savedAt) \in 0..writes
      /\ Newest(ReadTimes) \in 0..writes
  BY <1>2, NewestFacts DEF RowsTyped
<1>5. /\ Fingerprint[2] = Newest(added) /\ Fingerprint[4] = Newest(savedAt)
      /\ Fingerprint[6] = Newest(ReadTimes) /\ Fingerprint[3] = Cardinality(Saved)
  BY DEF Fingerprint
<1>6. QED
  BY <1>1, <1>2, <1>3, <1>4, <1>5

LEMMA RankingsDistinct ==
  ASSUME NEW documents \in SUBSET Articles, NEW excluded, NEW seen,
         NEW ranked \in Rankings(documents, excluded, seen)
  PROVE  Distinct(ranked)
<1>1. CASE ranked = {}
  BY <1>1 DEF Distinct
<1>2. CASE \E pool \in Pools(Candidates(documents, excluded, seen)) : ranked \in Selections(pool)
  <2>1. PICK pool \in Pools(Candidates(documents, excluded, seen)) : ranked \in Selections(pool)
    BY <1>2
  <2>2. ranked \subseteq pool
    BY <2>1 DEF Selections
  <2>3. pool \subseteq Articles
    BY DEF Pools, Candidates
  <2>4. \A a, b \in pool : a # b => UrlOf[a] # UrlOf[b]
    BY DEF Pools, Copies
  <2>5. QED
    BY <2>2, <2>3, <2>4 DEF Distinct
<1>3. QED
  BY <1>1, <1>2 DEF Rankings

(* A write is stamped later than every row and than a pending bulk mark.     *)
LEMMA RowsKept ==
  ASSUME RowsTyped, [RankNext]_rankVars
  PROVE  RowsTyped' /\ writes <= writes'
<1> USE DEF RowsTyped
<1>1. ASSUME NEW a \in Articles, Add(a)
      PROVE  RowsTyped' /\ writes <= writes'
  BY <1>1 DEF Add, Stamp
<1>2. ASSUME NEW a \in Articles, Save(a)
      PROVE  RowsTyped' /\ writes <= writes'
  BY <1>2 DEF Save, Stamp
<1>3. ASSUME NEW a \in Articles, Unsave(a)
      PROVE  RowsTyped' /\ writes <= writes'
  BY <1>3 DEF Unsave, Stamp
<1>4. ASSUME NEW a \in Articles, NEW isRead \in BOOLEAN, Mark(a, isRead)
      PROVE  RowsTyped' /\ writes <= writes'
  BY <1>4 DEF Mark, Stamp
<1>5. CASE StampBulk
  BY <1>5 DEF StampBulk, Stamp, Listed, Rows
<1>6. CASE CommitBulk
  BY <1>6 DEF CommitBulk, NoBulk
<1>7. CASE UNCHANGED rowState
  BY <1>7 DEF rowState
<1>8. QED
  BY <1>1, <1>2, <1>3, <1>4, <1>5, <1>6, <1>7
     DEF RankNext, rankVars, rowState, Expire, OpenRecommended, Hit, LoadProfile, LoadRead, Rank,
         LeaveOutSaved, LeaveOutRead, Close

(* After a write the ranking under way is raced, and fewer articles are      *)
(* dismissed all along; a last filter that has begun goes on.                *)
LEMMA WatchFacts ==
  ASSUME PageTyped, DismissedStill, CopiesDropped, Watch
  PROVE  PageTyped' /\ PageFaithful' /\ DismissedStill' /\ CopiesDropped'
<1>1. /\ cache' = cache
      /\ dismissed'.saved = dismissed.saved \cap Rows(savedAt')
      /\ dismissed'.read = {a \in dismissed.read : readRow'[a].read}
      /\ page' = IF page.step \in {"keyed", "profiled", "excluded"}
                 THEN [page EXCEPT !.raced = TRUE] ELSE page
  BY DEF Watch
<1>2. page'.step = page.step
      /\ (page.step \in {"keyed", "profiled", "excluded"} => page'.raced = TRUE)
  BY <1>1 DEF PageTyped
<1>3. PageTyped'
  BY <1>1 DEF PageTyped
<1>4. PageFaithful'
  BY <1>2 DEF PageFaithful
<1>5. page.step \in {"ranked", "unsaved", "shown"} => page' = page
  BY <1>1
<1>6. DismissedStill'
  <2>1. dismissed'.saved \subseteq Saved' /\ dismissed'.read \subseteq Read'
    BY <1>1 DEF DismissedStill, Saved, Read
  <2>2. QED
    BY <1>1, <1>2, <1>5, <2>1 DEF DismissedStill
<1>7. CopiesDropped'
  BY <1>1, <1>2, <1>5 DEF CopiesDropped, Distinct
<1>8. QED
  BY <1>3, <1>4, <1>6, <1>7

LEMMA PageKept ==
  ASSUME RowsTyped, PageTyped, PageFaithful, DismissedStill, CopiesDropped, [RankNext]_rankVars
  PROVE  PageTyped' /\ PageFaithful' /\ DismissedStill' /\ CopiesDropped'
<1> DEFINE Goal == PageTyped' /\ PageFaithful' /\ DismissedStill' /\ CopiesDropped'
<1>1. CASE Watch
  BY <1>1, WatchFacts
<1>2. ASSUME UNCHANGED <<added, savedAt, readRow>>
      PROVE  /\ Fingerprint' = Fingerprint
             /\ Listed' = Listed /\ Saved' = Saved /\ Read' = Read
  BY <1>2 DEF Fingerprint, Listed, Saved, Read, ReadTimes, Rows, Newest
<1>3. CASE StampBulk \/ UNCHANGED rankVars
  <2>1. UNCHANGED <<added, savedAt, readRow, cache, page, dismissed>>
    BY <1>3 DEF StampBulk, rankVars
  <2>2. QED
    BY <1>2, <2>1 DEF PageTyped, PageFaithful, DismissedStill, CopiesDropped, Distinct
<1>4. CASE Expire
  <2>1. UNCHANGED <<added, savedAt, readRow, page, dismissed>> /\ cache' \subseteq cache
    BY <1>4 DEF Expire
  <2>2. QED
    BY <1>2, <2>1 DEF PageTyped, PageFaithful, DismissedStill, CopiesDropped, Distinct
<1>5. CASE OpenRecommended
  <2>1. UNCHANGED <<added, savedAt, readRow, cache>>
        /\ page' = [step |-> "keyed", key |-> Fingerprint, raced |-> FALSE]
        /\ dismissed'.saved = Saved /\ dismissed'.read = Read
    BY <1>5 DEF OpenRecommended, rowState
  <2>2. QED
    BY <1>2, <2>1 DEF PageTyped, PageFaithful, DismissedStill, CopiesDropped, Distinct
<1>6. CASE Hit
  <2>1. PICK entry \in cache : page' = [step |-> "ranked", ranked |-> entry.ranked]
    BY <1>6 DEF Hit
  <2>2. UNCHANGED <<added, savedAt, readRow, cache, dismissed>>
    BY <1>6 DEF Hit, rowState
  <2>3. QED
    BY <1>2, <2>1, <2>2 DEF PageTyped, PageFaithful, DismissedStill, CopiesDropped, Distinct
<1>7. CASE LoadProfile
  <2>1. /\ UNCHANGED <<added, savedAt, readRow, cache, dismissed>> /\ page.step = "keyed"
        /\ page' = [step |-> "profiled", key |-> page.key, raced |-> page.raced, saved |-> Saved]
    BY <1>7 DEF LoadProfile, rowState
  <2>2. QED
    BY <1>2, <2>1 DEF PageTyped, PageFaithful, DismissedStill, CopiesDropped, Distinct
<1>8. CASE LoadRead
  <2>1. /\ UNCHANGED <<added, savedAt, readRow, cache, dismissed>> /\ page.step = "profiled"
        /\ page' = [step |-> "excluded", key |-> page.key, raced |-> page.raced,
                    saved |-> page.saved, read |-> Read]
    BY <1>8 DEF LoadRead, rowState
  <2>2. QED
    BY <1>2, <2>1 DEF PageTyped, PageFaithful, DismissedStill, CopiesDropped, Distinct
<1>9. CASE Rank
  <2>1. PICK ranked \in Rankings(Listed, page.saved, page.read) :
          /\ page' = [step |-> "ranked", ranked |-> ranked]
          /\ \A entry \in cache' : entry \in cache \/ entry.ranked = ranked
    BY <1>9 DEF Rank
  <2>2. Distinct(ranked)
    BY <2>1, RowFacts, RankingsDistinct
  <2>3. UNCHANGED <<added, savedAt, readRow, dismissed>>
    BY <1>9 DEF Rank, rowState
  <2>4. CopiesDropped'
    BY <2>1, <2>2 DEF CopiesDropped, Distinct
  <2>5. QED
    BY <1>2, <2>1, <2>3, <2>4 DEF PageTyped, PageFaithful, DismissedStill
<1>10. CASE LeaveOutSaved
  <2>1. /\ UNCHANGED <<added, savedAt, readRow, cache, dismissed>> /\ page.step = "ranked"
        /\ page' = [step |-> "unsaved", cards |-> page.ranked \ Saved]
    BY <1>10 DEF LeaveOutSaved, rowState
  <2>2. QED
    BY <1>2, <2>1 DEF PageTyped, PageFaithful, DismissedStill, CopiesDropped, Distinct
<1>11. CASE LeaveOutRead
  <2>1. /\ UNCHANGED <<added, savedAt, readRow, cache, dismissed>> /\ page.step = "unsaved"
        /\ page' = [step |-> "shown", cards |-> page.cards \ Read]
    BY <1>11 DEF LeaveOutRead, rowState
  <2>2. QED
    BY <1>2, <2>1 DEF PageTyped, PageFaithful, DismissedStill, CopiesDropped, Distinct
<1>12. CASE Close
  <2>1. /\ UNCHANGED <<added, savedAt, readRow, cache>> /\ page' = NoPage
        /\ dismissed' = NoneDismissed
    BY <1>12 DEF Close, rowState
  <2>2. QED
    BY <1>2, <2>1
       DEF PageTyped, PageFaithful, DismissedStill, CopiesDropped, Distinct, NoPage, NoneDismissed
<1>13. QED
  BY <1>1, <1>3, <1>4, <1>5, <1>6, <1>7, <1>8, <1>9, <1>10, <1>11, <1>12
     DEF RankNext, Add, Save, Unsave, Mark, CommitBulk

(* An entry goes on saying what it says of the rows it was ranked from.      *)
LEMMA EntryKept ==
  ASSUME RowsTyped, reordered \in BOOLEAN, NEW key, NEW corpus, EntryFaithful(key, corpus),
         [RankNext]_rankVars
  PROVE  EntryFaithful(key, corpus)'
<1>0. /\ writes \in Nat /\ \A i \in {2, 4, 6} : key[i] \in 0..writes
      /\ added \in [Articles -> 0..writes] /\ savedAt \in [Articles -> 0..writes]
      /\ readRow \in [Articles -> [at: 0..writes, read: BOOLEAN]]
      /\ bulk.at \in 0..writes
  BY DEF RowsTyped, EntryFaithful
<1>1. ASSUME NEW a \in Articles, Add(a)
      PROVE  EntryFaithful(key, corpus)'
  <2>1. /\ writes' = writes + 1 /\ UNCHANGED <<savedAt, readRow, bulk, reordered>>
        /\ added' = [added EXCEPT ![a] = writes']
    BY <1>1 DEF Add, Stamp
  <2>2. \A b \in Articles : added'[b] = IF b = a THEN writes' ELSE added[b]
    BY <1>0, <2>1
  <2>3. Listed' = Listed \cup {a}
    BY <1>0, <2>1, <2>2 DEF Listed, Rows
  <2>4. Saved' = Saved
    BY <2>1 DEF Saved, Rows
  <2>5. \A b \in Listed' \ corpus.documents : added'[b] > key[2]
    BY <1>0, <2>1, <2>2, <2>3 DEF EntryFaithful, Listed, Rows
  <2>6. QED
    BY <1>0, <2>1, <2>3, <2>4, <2>5 DEF EntryFaithful
<1>2. ASSUME NEW a \in Articles, Save(a) \/ Unsave(a)
      PROVE  EntryFaithful(key, corpus)'
  <2>1. /\ writes' = writes + 1 /\ UNCHANGED <<added, readRow, bulk, reordered>>
        /\ savedAt' = [savedAt EXCEPT ![a] = writes'] \/ savedAt' = [savedAt EXCEPT ![a] = 0]
    BY <1>2 DEF Save, Unsave, Stamp
  <2>2. \A b \in Articles : savedAt'[b] = savedAt[b] \/ savedAt'[b] \in {writes', 0}
    BY <1>0, <2>1
  <2>3. Listed' = Listed
    BY <2>1 DEF Listed, Rows
  <2>4. \A b \in Saved' : savedAt'[b] <= key[4] => b \in corpus.saved
    BY <1>0, <2>1, <2>2 DEF EntryFaithful, Saved, Rows
  <2>5. QED
    BY <1>0, <2>1, <2>3, <2>4 DEF EntryFaithful
<1>3. ASSUME NEW a \in Articles, NEW isRead \in BOOLEAN, Mark(a, isRead)
      PROVE  EntryFaithful(key, corpus)'
  <2>1. /\ writes' = writes + 1 /\ UNCHANGED <<added, savedAt, bulk, reordered>>
        /\ readRow' = [readRow EXCEPT ![a] = [at |-> writes', read |-> isRead]]
    BY <1>3 DEF Mark, Stamp
  <2>2. \A b \in Articles : readRow'[b] = readRow[b] \/ readRow'[b].at = writes'
    BY <1>0, <2>1
  <2>3. Listed' = Listed /\ Saved' = Saved
    BY <2>1 DEF Listed, Saved, Rows
  <2>4. \A b \in Articles : readRow'[b].at <= key[6] => readRow'[b] = readRow[b]
    BY <1>0, <2>1, <2>2
  <2>5. QED
    BY <1>0, <2>1, <2>3, <2>4 DEF EntryFaithful
<1>4. CASE StampBulk
  <2>1. /\ writes' = writes + 1 /\ UNCHANGED <<added, savedAt, readRow, reordered>>
        /\ bulk'.at = writes'
    BY <1>4 DEF StampBulk, Stamp
  <2>2. Listed' = Listed /\ Saved' = Saved
    BY <2>1 DEF Listed, Saved, Rows
  <2>3. QED
    BY <1>0, <2>1, <2>2 DEF EntryFaithful
<1>5. CASE CommitBulk
  <2>1. /\ UNCHANGED <<writes, added, savedAt>> /\ bulk # NoBulk /\ bulk' = NoBulk
        /\ reordered' = (reordered \/ writes > bulk.at)
        /\ \A b \in Articles : readRow'[b] = readRow[b] \/ readRow'[b].at = bulk.at
    BY <1>5 DEF CommitBulk
  <2>2. Listed' = Listed /\ Saved' = Saved
    BY <2>1 DEF Listed, Saved, Rows
  <2>3. ~reordered' => ~reordered /\ bulk.at = writes
    <3>1. ~reordered' => ~reordered /\ ~(writes > bulk.at)
      BY <2>1, Zenon
    <3>2. ~(writes > bulk.at) => bulk.at = writes
      BY <1>0
    <3>3. QED
      BY <3>1, <3>2, Zenon
  <2>4. key[6] # bulk.at
    BY <2>1 DEF EntryFaithful
  <2>5. ~reordered' =>
          \A b \in Articles : readRow'[b].at <= key[6] => readRow'[b] = readRow[b]
    <3>1. key[6] \in 0..writes
      BY <1>0
    <3>2. bulk.at = writes => ~(bulk.at <= key[6])
      <4>1. writes \in Nat /\ key[6] \in Nat /\ key[6] <= writes
        BY <1>0, <3>1
      <4>2. QED
        BY <2>4, <4>1
    <3>3. ASSUME NEW b \in Articles, bulk.at = writes, readRow'[b].at <= key[6]
          PROVE  readRow'[b] = readRow[b]
      BY <2>1, <3>2, <3>3
    <3>4. QED
      BY <2>3, <3>3
  <2>6. QED
    BY <1>0, <2>1, <2>2, <2>3, <2>5 DEF EntryFaithful
<1>6. CASE UNCHANGED rowState
  <2>1. UNCHANGED <<writes, added, savedAt, readRow, bulk, reordered>>
    BY <1>6 DEF rowState
  <2>2. Listed' = Listed /\ Saved' = Saved
    BY <2>1 DEF Listed, Saved, Rows
  <2>3. QED
    BY <2>1, <2>2 DEF EntryFaithful
<1>7. QED
  BY <1>1, <1>2, <1>3, <1>4, <1>5, <1>6
     DEF RankNext, rankVars, rowState, Expire, OpenRecommended, Hit, LoadProfile, LoadRead, Rank,
         LeaveOutSaved, LeaveOutRead, Close

(* A ranking that no write has raced says it of the rows it was made from.   *)
LEMMA EntryStarts ==
  ASSUME RowsTyped
  PROVE  EntryFaithful(Fingerprint, Corpus)
<1>1. /\ Corpus.documents = Listed /\ Corpus.saved = Saved /\ Corpus.read = Read
      /\ Saved \subseteq Articles /\ Read \subseteq Articles
      /\ \A i \in {2, 4, 6} : Fingerprint[i] \in 0..writes
      /\ Fingerprint[3] = Cardinality(Saved)
  BY RowFacts DEF Corpus
<1>2. bulk # NoBulk => Fingerprint[6] # bulk.at
  <2>1. PICK a \in Articles : Fingerprint[6] = ReadTimes[a]
    BY RowFacts, NewestFacts DEF RowsTyped
  <2>2. QED
    BY <2>1 DEF RowsTyped, ReadTimes
<1>3. \A a \in Articles : readRow[a].read <=> a \in Read
  BY DEF Read
<1>4. Corpus = [documents |-> Corpus.documents, saved |-> Corpus.saved, read |-> Corpus.read]
  BY DEF Corpus
<1>5. QED
  BY <1>1, <1>2, <1>3, <1>4 DEF EntryFaithful

(* Under its key an entry stands for the rows there are.                     *)
LEMMA EntryStands ==
  ASSUME RowsTyped, reordered = FALSE, NEW corpus,
         EntryFaithful(Fingerprint, corpus)
  PROVE  corpus = Corpus
<1>1. /\ \A a \in Articles : added[a] <= Fingerprint[2]
      /\ \A a \in Articles : savedAt[a] <= Fingerprint[4]
      /\ \A a \in Articles : ReadTimes[a] <= Fingerprint[6]
  BY RowFacts, NewestFacts DEF RowsTyped
<1>2. corpus.documents = Listed
  <2>1. ASSUME NEW a \in Listed \ corpus.documents
        PROVE  FALSE
    <3>1. added[a] > Fingerprint[2] /\ added[a] <= Fingerprint[2]
      BY <1>1 DEF EntryFaithful, Listed, Rows
    <3>2. added[a] \in Int /\ Fingerprint[2] \in Int
      BY RowFacts DEF RowsTyped, Listed, Rows
    <3>3. QED
      BY <3>1, <3>2
  <2>2. QED
    BY <2>1 DEF EntryFaithful
<1>3. corpus.saved = Saved
  <2>1. Saved \in SUBSET corpus.saved
    BY <1>1 DEF EntryFaithful, Saved, Rows
  <2>2. IsFiniteSet(corpus.saved) /\ Cardinality(corpus.saved) = Cardinality(Saved)
    BY RowFacts DEF EntryFaithful
  <2>3. QED
    BY <2>1, <2>2, FS_Subset
<1>4. corpus.read = Read
  <2>1. \A a \in Articles : readRow[a].read <=> a \in corpus.read
    BY <1>1 DEF EntryFaithful, ReadTimes
  <2>2. corpus.read \subseteq Articles
    BY DEF EntryFaithful
  <2>3. QED
    BY <2>1, <2>2 DEF Read
<1>5. corpus = [documents |-> corpus.documents, saved |-> corpus.saved, read |-> corpus.read]
  BY DEF EntryFaithful
<1>6. QED
  BY <1>2, <1>3, <1>4, <1>5 DEF Corpus

LEMMA RankInvStarts ==
  ASSUME RankInit
  PROVE  RankInv
<1>1. RowsTyped /\ reordered \in BOOLEAN
  <2>1. writes = 1 /\ bulk = NoBulk /\ reordered = FALSE
    BY DEF RankInit
  <2>2. bulk \in [at: 0..writes, articles: SUBSET Articles]
    BY <2>1 DEF NoBulk
  <2>3. /\ added \in [Articles -> 0..writes] /\ savedAt \in [Articles -> 0..writes]
        /\ readRow \in [Articles -> [at: 0..writes, read: BOOLEAN]]
    <3>1. {0, 1} = 0..writes
      BY <2>1
    <3>2. readRow \in [Articles -> [at: 0..writes, read: {FALSE}]]
      BY <3>1 DEF RankInit
    <3>3. QED
      BY <3>1, <3>2 DEF RankInit
  <2>4. writes \in Nat \ {0} /\ (bulk # NoBulk => bulk.at # 0)
    BY <2>1
  <2>5. QED
    BY <2>1, <2>2, <2>3, <2>4, Zenon DEF RowsTyped
<1>2. page.step = "idle" /\ cache = {} /\ dismissed.saved = {} /\ dismissed.read = {}
  BY DEF RankInit, NoPage, NoneDismissed
<1>3. QED
  BY <1>1, <1>2 DEF RankInv, PageTyped, PageFaithful, DismissedStill, CopiesDropped

LEMMA RankInvKept ==
  ASSUME RankInv, [RankNext]_rankVars
  PROVE  RankInv'
<1>1. RowsTyped /\ RowsTyped' /\ reordered \in BOOLEAN
  BY RowsKept DEF RankInv
<1>2. PageTyped' /\ PageFaithful' /\ DismissedStill' /\ CopiesDropped'
  BY PageKept DEF RankInv
<1>3. reordered' \in BOOLEAN
  BY <1>1 DEF RankNext, rankVars, rowState, Add, Save, Unsave, Mark, StampBulk, CommitBulk, Expire,
     OpenRecommended, Hit, LoadProfile, LoadRead, Rank, LeaveOutSaved, LeaveOutRead, Close
<1>4. ASSUME NEW entry \in cache, entry.corpus # NoCorpus
      PROVE  EntryFaithful(entry.key, entry.corpus)'
  BY <1>1, <1>4, EntryKept DEF RankInv
<1>5. CASE ~Rank
  <2>1. cache' \subseteq cache
    BY <1>5 DEF RankNext, rankVars, Add, Save, Unsave, Mark, Watch, StampBulk, CommitBulk, Expire,
       OpenRecommended, Hit, LoadProfile, LoadRead, LeaveOutSaved, LeaveOutRead, Close
  <2>2. QED
    BY <1>1, <1>2, <1>3, <1>4, <2>1 DEF RankInv
<1>6. CASE Rank
  <2>1. ASSUME NEW entry \in cache', entry \notin cache, entry.corpus # NoCorpus
        PROVE  entry.key = Fingerprint /\ entry.corpus = Corpus
    <3>1. /\ page.step = "excluded" /\ ~page.raced /\ entry.key = page.key
          /\ entry.corpus = [documents |-> Listed, saved |-> page.saved, read |-> page.read]
      BY <1>6, <2>1 DEF Rank
    <3>2. QED
      BY <3>1 DEF RankInv, PageFaithful, Corpus
  <2>2. ASSUME NEW entry \in cache', entry \notin cache, entry.corpus # NoCorpus
        PROVE  EntryFaithful(entry.key, entry.corpus)'
    BY <1>1, <2>1, <2>2, EntryStarts, EntryKept
  <2>3. QED
    BY <1>1, <1>2, <1>3, <1>4, <2>2 DEF RankInv
<1>7. QED
  BY <1>5, <1>6

LEMMA RankInvHolds == RankSpec => []RankInv
  BY RankInvStarts, RankInvKept, PTL DEF RankSpec

(* A card of an article saved, or read, all through the request is never     *)
(* shown, whatever ranking the page found, nor are two copies.               *)
THEOREM DismissedStayHidden == RankSpec => []DismissedNeverShown
<1>1. RankInv => DismissedNeverShown
  BY DEF RankInv, DismissedStill, CopiesDropped, Distinct, DismissedNeverShown
<1>2. QED
  BY <1>1, RankInvHolds, PTL

(* The counts and newest times of the rows tell the rows themselves, while   *)
(* writes commit in the order of their stamps.                               *)
THEOREM KeysStandForTheirRows == RankSpec => []KeyStandsForCorpus
<1>1. ASSUME RankInv
      PROVE  KeyStandsForCorpus
  <2>1. ASSUME NEW entry \in cache, entry.key = Fingerprint, ~reordered, entry.corpus # NoCorpus
        PROVE  entry.corpus = Corpus
    <3>1. EntryFaithful(Fingerprint, entry.corpus) /\ reordered = FALSE
      BY <1>1, <2>1 DEF RankInv
    <3>2. QED
      BY <1>1, <3>1, EntryStands DEF RankInv
  <2>2. QED
    BY <2>1 DEF KeyStandsForCorpus
<1>2. QED
  BY <1>1, RankInvHolds, PTL
=============================================================================
