------------------------------ MODULE JobLease ------------------------------
(***************************************************************************)
(* What the JobRun row promises about refresh cycles, with no clock in it: *)
(* one worker at a time is at work; each of its runs gets one outcome, its *)
(* own word for it when it completes, and "interrupted" only from the next *)
(* worker and only when its owner has gone without a word.                 *)
(***************************************************************************)
CONSTANTS Workers, NoWorker

VARIABLES
  run,      \* what is recorded of each worker's newest run
  atWork    \* the worker inside a cycle, or NoWorker

lease == <<run, atWork>>

Init ==
  /\ run = [w \in Workers |-> "none"]
  /\ atWork = NoWorker

(* A run that is still running now has no one at work on it.               *)
Claim(w) ==
  /\ atWork = NoWorker
  /\ run' = [v \in Workers |->
               IF v = w THEN "running"
               ELSE IF run[v] = "running" THEN "interrupted" ELSE run[v]]
  /\ atWork' = w

Complete(w) ==
  /\ atWork = w
  /\ run[w] = "running"
  /\ \E outcome \in {"succeeded", "failed", "interrupted"} :
       run' = [run EXCEPT ![w] = outcome]
  /\ atWork' = NoWorker

Abandon(w) ==
  /\ atWork = w
  /\ atWork' = NoWorker
  /\ UNCHANGED run

Next == \E w \in Workers : Claim(w) \/ Complete(w) \/ Abandon(w)

Spec == Init /\ [][Next]_lease
=============================================================================
