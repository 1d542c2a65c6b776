---------------------------- MODULE FeedStatus ----------------------------
(***************************************************************************)
(* What refreshing promises about the status a feed shows, whatever the    *)
(* number of concurrent refreshers: attempts are numbered; only the newest *)
(* attempt may settle the status and it does so at most once; a success    *)
(* shows a document at least as new as the one shown before and ends the   *)
(* streak of failures; a failure leaves the document alone and lengthens   *)
(* the streak by one.                                                      *)
(***************************************************************************)
EXTENDS Integers

CONSTANT Feeds

VARIABLES
  issued,   \* attempts begun on each feed
  settled,  \* the attempt whose outcome each feed shows
  streak,   \* failed outcomes shown since the last success
  document  \* the document version each feed shows

status == <<issued, settled, streak, document>>

Init ==
  /\ issued = [f \in Feeds |-> 0]
  /\ settled = [f \in Feeds |-> 0]
  /\ streak = [f \in Feeds |-> 0]
  /\ document = [f \in Feeds |-> 0]

Issue(f) ==
  /\ issued' = [issued EXCEPT ![f] = @ + 1]
  /\ UNCHANGED <<settled, streak, document>>

Settle(f) ==
  /\ settled[f] < issued[f]
  /\ settled' = [settled EXCEPT ![f] = issued[f]]
  /\ UNCHANGED issued

Succeed(f) ==
  /\ Settle(f)
  /\ streak' = [streak EXCEPT ![f] = 0]
  /\ document' = [document EXCEPT ![f] = document'[f]]
  /\ document'[f] >= document[f]

Fail(f) ==
  /\ Settle(f)
  /\ streak' = [streak EXCEPT ![f] = @ + 1]
  /\ UNCHANGED document

Next == \E f \in Feeds : Issue(f) \/ Succeed(f) \/ Fail(f)

Spec == Init /\ [][Next]_status
=============================================================================
