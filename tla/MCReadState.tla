----------------------------- MODULE MCReadState -----------------------------
(* Instance of ReadState: an article of each of two feeds, and two periods,   *)
(* the first day and the first two.                                           *)
EXTENDS ReadState, TLC

CONSTANTS a1, a2, f1, f2, m1, m2

TwoArticles == {a1, a2}
TwoFeeds == {f1, f2}
OneEach == a1 :> f1 @@ a2 :> f2
TwoMarks == {m1, m2}
MarkSymmetry == Permutations(TwoMarks)
DayAndWeek == {[first |-> 0, last |-> 0], [first |-> 0, last |-> 1]}
=============================================================================
