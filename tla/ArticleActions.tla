--------------------------- MODULE ArticleActions ---------------------------
(***************************************************************************)
(* The cards of a digest page in the browser (static/js/article-actions.js): *)
(* keyboard selection, a save and a mark-read form on each card, requests   *)
(* answered in any order, a card folded away and put back by Undo, and one  *)
(* status region shared by all.  The views are mark_article and             *)
(* save_article_view of feeds/views.py.                                     *)
(***************************************************************************)
EXTENDS Integers, FiniteSets

CONSTANTS
  Size,          \* articles on the page, in order
  MaxSubmits     \* bound of the forms submitted

ASSUME CardAssumption == Size \in Nat \ {0} /\ MaxSubmits \in Nat

PageArticles == 1..Size
Forms == {"mark", "save"}
None == 0        \* no card selected; no article to undo

VARIABLES
  slots,         \* what the DOM has in an article's place: its card, or the
                 \* comment its mark or its save left there
  selected,      \* selectedArticleIndex, counted from 1
  highlighted,   \* articles whose card has the class is-selected
  pending,       \* form.dataset.actionPending
  requests,      \* the submit handler of each form: its step and card index
  undoing,       \* the undo handler of each article
  status,        \* the article the status region's Undo is for, and whether
                 \* its own placeholder is in the page
  read, saved,   \* the server's state
  unsure,        \* history: articles whose last mark or undo reported an error
  submits        \* forms submitted so far

cardVars == <<slots, selected, highlighted, pending, requests, undoing, status, read, saved,
  unsure, submits>>

NoStatus == [article |-> None, own |-> FALSE]
NoRequest == [step |-> "idle", index |-> 0]

(* articleCards(): the articles whose card is in the page, in order.         *)
OnPage(places) == {a \in PageArticles : places[a] = "card"}
Position(a, places) == Cardinality({b \in OnPage(places) : b <= a})

CardInit ==
  /\ slots = [a \in PageArticles |-> "card"]
  /\ selected = 1 /\ highlighted = {1}
  /\ pending = [a \in PageArticles |-> [f \in Forms |-> FALSE]]
  /\ requests = [a \in PageArticles |-> [f \in Forms |-> NoRequest]]
  /\ undoing = [a \in PageArticles |-> "idle"]
  /\ status = NoStatus
  /\ read = {} /\ saved = {} /\ unsure = {}
  /\ submits = 0

-----------------------------------------------------------------------------
(* selectArticle(index): clamps, and toggles the class of the cards there    *)
(* are; a card out of the page keeps its class.                              *)
Select(index, places) ==
  LET here == OnPage(places)
      chosen == IF index < 1 THEN 1
                ELSE IF index > Cardinality(here) THEN Cardinality(here) ELSE index
  IN IF here = {} THEN selected' = None /\ UNCHANGED highlighted
     ELSE /\ selected' = chosen
          /\ highlighted' = (highlighted \ here)
                            \cup {a \in here : Position(a, places) = chosen}

(* selectedArticle(): an index out of range falls back to the first card.    *)
SelectedPosition ==
  IF selected \in 1..Cardinality(OnPage(slots)) THEN selected ELSE 1

(* j and k.                                                                  *)
Move(offset) ==
  /\ OnPage(slots) # {}
  /\ Select(SelectedPosition + offset, slots)
  /\ UNCHANGED <<slots, pending, requests, undoing, status, read, saved, unsure, submits>>

(* The submit handler up to its await: it keeps the card's index.            *)
Submit(a, f) ==
  /\ submits < MaxSubmits /\ submits' = submits + 1
  /\ ~pending[a][f]
  /\ pending' = [pending EXCEPT ![a][f] = TRUE]
  /\ requests' = [requests EXCEPT ![a][f] = [step |-> "sent", index |-> Position(a, slots)]]
  /\ UNCHANGED <<slots, undoing, status, read, saved, unsure>>

(* s and m act on the selected card; a held key's repeats are dropped.       *)
PressKey(a, f) ==
  /\ a \in OnPage(slots) /\ Position(a, slots) = SelectedPosition
  /\ Submit(a, f)
  /\ selected' = SelectedPosition
  /\ UNCHANGED highlighted

(* A click on a card's button selects the card first.                        *)
Click(a, f) ==
  /\ a \in OnPage(slots)
  /\ Submit(a, f)
  /\ Select(Position(a, slots), slots)

Step(a, f, from, to) ==
  /\ requests[a][f].step = from
  /\ requests' = [requests EXCEPT ![a][f].step = to]

(* The server marks it read, and the page removes it; it saves it, and the   *)
(* page removes it if Linkding has it too; a newsletter it does not save.    *)
Handle(a, f) ==
  /\ \/ f = "mark" /\ Step(a, f, "sent", "folding")
        /\ read' = read \cup {a} /\ UNCHANGED saved
     \/ f = "save" /\ Step(a, f, "sent", "folding")
        /\ saved' = saved \cup {a} /\ UNCHANGED read
     \/ f = "save" /\ Step(a, f, "sent", "kept")
        /\ saved' \in {saved, saved \cup {a}} /\ UNCHANGED read
  /\ UNCHANGED <<slots, selected, highlighted, pending, undoing, status, unsure, submits>>

(* The request or its answer is lost, or is an error.                        *)
Lose(a, f) ==
  /\ Step(a, f, "sent", "failed") \/ Step(a, f, "folding", "failed")
  /\ UNCHANGED <<slots, selected, highlighted, pending, undoing, status, read, saved,
                 unsure, submits>>

Show(a, f) ==
  /\ Step(a, f, "kept", "idle")
  /\ pending' = [pending EXCEPT ![a][f] = FALSE]
  /\ UNCHANGED <<slots, selected, highlighted, undoing, status, read, saved, unsure, submits>>

ShowError(a, f) ==
  /\ Step(a, f, "failed", "idle")
  /\ pending' = [pending EXCEPT ![a][f] = FALSE]
  /\ unsure' = IF f = "mark" THEN unsure \cup {a} ELSE unsure
  /\ UNCHANGED <<slots, selected, highlighted, undoing, status, read, saved, submits>>

(* Plausible bug: the next card is highlighted only when there was focus.    *)
RemoveCardOnly(a, f) ==
  /\ Step(a, f, "folding", "idle")
  /\ slots' = [slots EXCEPT ![a] = IF @ = "card" THEN f ELSE @]
  /\ status' = IF f = "mark" THEN [article |-> a, own |-> slots[a] = "card"] ELSE NoStatus
  /\ unsure' = IF f = "mark" THEN unsure \ {a} ELSE unsure
  /\ UNCHANGED <<selected, highlighted, pending, undoing, read, saved, submits>>

(* After the fold the card gives way to a comment (which a card out of the   *)
(* page cannot), the card now at its index is selected, and the status       *)
(* offers Undo for a mark.                                                   *)
RemoveCard(a, f) ==
  /\ Step(a, f, "folding", "idle")
  /\ slots' = [slots EXCEPT ![a] = IF @ = "card" THEN f ELSE @]
  /\ Select(requests[a][f].index, slots')
  /\ status' = IF f = "mark" THEN [article |-> a, own |-> slots[a] = "card"] ELSE NoStatus
  /\ unsure' = IF f = "mark" THEN unsure \ {a} ELSE unsure
  /\ UNCHANGED <<pending, undoing, read, saved, submits>>

-----------------------------------------------------------------------------
(* The status clears itself after ACTION_STATUS_DURATION_MS.                 *)
ClearStatus ==
  /\ status # NoStatus
  /\ status' = NoStatus
  /\ UNCHANGED <<slots, selected, highlighted, pending, requests, undoing, read, saved,
                 unsure, submits>>

(* A second click finds the button disabled.                                 *)
ClickUndo ==
  LET a == status.article IN
  /\ a # None /\ undoing[a] = "idle"
  /\ undoing' = [undoing EXCEPT ![a] = IF status.own THEN "sentOwn" ELSE "sent"]
  /\ UNCHANGED <<slots, selected, highlighted, pending, requests, status, read, saved,
                 unsure, submits>>

(* Plausible bug: Undo posts the state of its form.                          *)
HandleUndoAsIs(a) ==
  /\ undoing[a] \in {"sent", "sentOwn"}
  /\ undoing' = [undoing EXCEPT ![a] = IF @ = "sentOwn" THEN "doneOwn" ELSE "done"]
  /\ read' = read \cup {a}
  /\ UNCHANGED <<slots, selected, highlighted, pending, requests, status, saved, unsure,
                 submits>>

HandleUndo(a) ==
  /\ undoing[a] \in {"sent", "sentOwn"}
  /\ undoing' = [undoing EXCEPT ![a] = IF @ = "sentOwn" THEN "doneOwn" ELSE "done"]
  /\ read' = read \ {a}
  /\ UNCHANGED <<slots, selected, highlighted, pending, requests, status, saved, unsure,
                 submits>>

Restore(a) ==
  /\ undoing[a] \in {"done", "doneOwn"}
  /\ undoing' = [undoing EXCEPT ![a] = "idle"]
  /\ pending' = [pending EXCEPT ![a]["mark"] = FALSE]
  /\ IF undoing[a] = "doneOwn"
     THEN /\ slots' = [slots EXCEPT ![a] = "card"]
          /\ Select(Position(a, slots'), slots')
     ELSE UNCHANGED <<slots, selected, highlighted>>
  /\ status' = NoStatus
  /\ unsure' = unsure \ {a}
  /\ UNCHANGED <<requests, read, saved, submits>>

(* Lost before or after the server handled it: Undo is offered again.        *)
UndoFails(a) ==
  /\ undoing[a] # "idle"
  /\ undoing' = [undoing EXCEPT ![a] = "idle"]
  /\ status' = [article |-> a, own |-> undoing[a] \in {"sentOwn", "doneOwn"}]
  /\ unsure' = unsure \cup {a}
  /\ UNCHANGED <<slots, selected, highlighted, pending, requests, read, saved, submits>>

CardNext ==
  \/ Move(-1) \/ Move(1)
  \/ \E a \in PageArticles, f \in Forms :
       \/ PressKey(a, f) \/ Click(a, f) \/ Handle(a, f) \/ Lose(a, f)
       \/ Show(a, f) \/ ShowError(a, f) \/ RemoveCard(a, f)
  \/ ClearStatus \/ ClickUndo
  \/ \E a \in PageArticles : HandleUndo(a) \/ Restore(a) \/ UndoFails(a)

CardSpec == CardInit /\ [][CardNext]_cardVars

-----------------------------------------------------------------------------
CardTypeOK ==
  /\ slots \in [PageArticles -> {"card", "mark", "save"}]
  /\ selected \in 0..Size
  /\ highlighted \subseteq PageArticles
  /\ pending \in [PageArticles -> [Forms -> BOOLEAN]]
  /\ requests \in [PageArticles -> [Forms ->
       [step: {"idle", "sent", "kept", "folding", "failed"}, index: 0..Size]]]
  /\ undoing \in [PageArticles -> {"idle", "sent", "sentOwn", "done", "doneOwn"}]
  /\ status \in [article: 0..Size, own: BOOLEAN]
  /\ read \subseteq PageArticles /\ saved \subseteq PageArticles /\ unsure \subseteq PageArticles
  /\ submits \in 0..MaxSubmits

(* The card a key acts on is the one card shown as selected, whatever cards  *)
(* were folded away or restored since its index was taken.                   *)
KeysActOnHighlighted ==
  OnPage(slots) # {} =>
    highlighted \cap OnPage(slots)
      = {a \in OnPage(slots) : Position(a, slots) = SelectedPosition}

Settled(a) == requests[a]["mark"].step = "idle" /\ undoing[a] = "idle" /\ a \notin unsure

(* With no mark or undo under way and none reported as failed, the page and  *)
(* the server agree: a card that is shown is unread and can be marked, one   *)
(* its mark removed is read, one its save removed is saved, whatever was     *)
(* answered in between.                                                      *)
PageAgrees ==
  \A a \in PageArticles : Settled(a) =>
    /\ slots[a] = "card" => a \notin read /\ ~pending[a]["mark"]
    /\ slots[a] = "mark" => a \in read
    /\ slots[a] = "save" => a \in saved
=============================================================================
