------------------------- MODULE FeedRefreshProofs -------------------------
(***************************************************************************)
(* Proofs about FeedRefresh and FeedEditing, for any sets of feeds,        *)
(* refreshers and editors and any bounds: type correctness, the fence, the *)
(* coherence of a feed's status, and that the rows implement the abstract  *)
(* status of FeedStatus.                                                   *)
(***************************************************************************)
EXTENDS FeedEditing, TLAPS

(* The backoff is a number of clock units, at most the cap, whatever the   *)
(* number of failures.                                                     *)
LEMMA RetryDelayBounded ==
  ASSUME NEW n
  PROVE  RetryDelay(n) \in 0..BackoffCap
BY ConstantsAssumption DEF RetryDelay

(* A row stays a row under each of the updates the transactions make.      *)
LEMMA RowUpdates ==
  ASSUME NEW row \in FeedRow, NEW b \in BOOLEAN, NEW g \in Nat, NEW n \in Nat,
         NEW e \in ErrorCodes \cup {"none"}, NEW t \in Nat \cup {NoTime}
  PROVE  /\ [row EXCEPT !.active = b] \in FeedRow
         /\ [row EXCEPT !.generation = g] \in FeedRow
         /\ [row EXCEPT !.failures = n, !.error = e, !.retryAt = t] \in FeedRow
BY DEF FeedRow

(* No error code is the blank one of a row that shows no failure.          *)
LEMMA CodesAreNotBlank == "none" \notin ErrorCodes
BY DEF ErrorCodes, FetchErrors, ReconcileErrors

----------------------------------------------------------------------------
(* Every step preserves the types, whoever else writes rows of the right   *)
(* shape in between.                                                       *)
LEMMA TypeStep == TypeOK /\ [Next]_vars => TypeOK'
<1> SUFFICES ASSUME TypeOK, [Next]_vars
             PROVE  TypeOK'
  OBVIOUS
<1> USE DEF TypeOK, Attempting
<1>1. ASSUME NEW r \in Refreshers, StartCycle(r)
      PROVE  TypeOK'
  BY <1>1 DEF StartCycle, FeedRow, rows, attempt, world
<1>2. ASSUME NEW r \in Refreshers, NEW f \in Feeds, SkipFeed(r, f)
      PROVE  TypeOK'
  BY <1>2 DEF SkipFeed, rows, attempt, world
<1>3. ASSUME NEW r \in Refreshers, NEW f \in Feeds, Claim(r, f)
      PROVE  TypeOK'
  <2>1. feed[f].generation + 1 \in Nat
    BY DEF FeedRow
  <2>2. [feed[f] EXCEPT !.generation = @ + 1] \in FeedRow
    BY <2>1, RowUpdates
  <2>3. feed' \in [Feeds -> FeedRow]
    BY <1>3, <2>2 DEF Claim
  <2>4. QED
    BY <1>3, <2>1, <2>3 DEF Claim, world
<1>4. ASSUME NEW r \in Refreshers, Fetch(r)
      PROVE  TypeOK'
  BY <1>4 DEF Fetch, rows, world
<1>5. ASSUME NEW r \in Refreshers, FetchFails(r)
      PROVE  TypeOK'
  BY <1>5 DEF FetchFails, Raise, ErrorCodes, rows, world
<1>6. ASSUME NEW r \in Refreshers, Superseded(r)
      PROVE  TypeOK'
  BY <1>6 DEF Superseded, NextFeed, NoFailure, rows, world
<1>7. ASSUME NEW r \in Refreshers, Reconcile(r)
      PROVE  TypeOK'
  <2> DEFINE f == target[r]
  <2>1. f \in Feeds
    BY <1>7 DEF Reconcile
  <2>2. [feed[f] EXCEPT !.failures = 0, !.error = "none", !.retryAt = NoTime]
          \in FeedRow
    BY <2>1, RowUpdates
  <2>3. feed' \in [Feeds -> FeedRow]
    BY <1>7, <2>1, <2>2 DEF Reconcile
  <2>4. QED
    BY <1>7, <2>3 DEF Reconcile, NextFeed, NoFailure, world
<1>8. ASSUME NEW r \in Refreshers, ReconcileFails(r)
      PROVE  TypeOK'
  BY <1>8 DEF ReconcileFails, Raise, ErrorCodes, rows, world
<1>9. ASSUME NEW r \in Refreshers, RecordFailure(r)
      PROVE  TypeOK'
  <2> DEFINE f == target[r]
             n == feed[f].failures + 1
  <2>1. f \in Feeds /\ n \in Nat
    BY <1>9 DEF RecordFailure, FeedRow
  <2>2. failure[r].at + RetryDelay(n) \in Nat
    BY <2>1, RetryDelayBounded, ConstantsAssumption
  <2>3. failure[r].code \in ErrorCodes
    BY <1>9 DEF RecordFailure
  <2>4. [feed[f] EXCEPT !.failures = n,
                        !.error = failure[r].code,
                        !.retryAt = failure[r].at + RetryDelay(n)] \in FeedRow
    BY <2>1, <2>2, <2>3, RowUpdates
  <2>5. feed' \in [Feeds -> FeedRow]
    BY <1>9, <2>1, <2>4 DEF RecordFailure
  <2>6. QED
    BY <1>9, <2>5 DEF RecordFailure, NextFeed, NoFailure, world
<1>10. ASSUME NEW r \in Refreshers, DiscardFailure(r)
       PROVE  TypeOK'
  BY <1>10 DEF DiscardFailure, NextFeed, NoFailure, rows, world
<1>11. ASSUME NEW r \in Refreshers, EndCycle(r)
       PROVE  TypeOK'
  BY <1>11 DEF EndCycle, rows, attempt, world
<1>12. ASSUME NEW r \in Refreshers, Crash(r)
       PROVE  TypeOK'
  BY <1>12 DEF Crash, NoFailure, rows
<1>13. ASSUME NEW f \in Feeds, Deactivate(f) \/ Activate(f)
       PROVE  TypeOK'
  <2>1. \A b \in BOOLEAN : [feed[f] EXCEPT !.active = b] \in FeedRow
    BY RowUpdates
  <2>2. feed' \in [Feeds -> FeedRow]
    BY <1>13, <2>1 DEF Deactivate, Activate
  <2>3. QED
    BY <1>13, <2>2 DEF Deactivate, Activate, refreshers, attempt, world
<1>14. ASSUME NEW f \in Feeds, Publish(f)
       PROVE  TypeOK'
  BY <1>14 DEF Publish, rows, refreshers, attempt
<1>15. CASE Tick
  BY <1>15 DEF Tick, rows, refreshers, attempt
<1>16. CASE UNCHANGED vars
  BY <1>16 DEF vars, rows, refreshers, attempt, world
<1>17. QED
  BY <1>1, <1>2, <1>3, <1>4, <1>5, <1>6, <1>7, <1>8, <1>9, <1>10, <1>11,
     <1>12, <1>13, <1>14, <1>15, <1>16 DEF Next, Work

(* Every reachable state is well typed.                                    *)
THEOREM TypeCorrect == Spec => []TypeOK
<1>1. Init => TypeOK
  BY ConstantsAssumption DEF Init, TypeOK, FeedRow, NoFailure, Attempting
<1>2. QED
  BY <1>1, TypeStep, PTL DEF Spec

----------------------------------------------------------------------------
(* No step mixes two outcomes in a row.                                    *)
LEMMA CoherentStep ==
  TypeOK /\ StatusCoherent /\ [Next]_vars => StatusCoherent'
<1> SUFFICES ASSUME TypeOK, StatusCoherent, [Next]_vars
             PROVE  StatusCoherent'
  OBVIOUS
<1> USE DEF StatusCoherent
<1>0. feed \in [Feeds -> FeedRow]
  BY DEF TypeOK
<1>1. CASE UNCHANGED feed
  BY <1>1
<1>2. ASSUME NEW r \in Refreshers, NEW f \in Feeds, Claim(r, f)
      PROVE  StatusCoherent'
  BY <1>0, <1>2 DEF Claim, FeedRow
<1>3. ASSUME NEW r \in Refreshers, Reconcile(r)
      PROVE  StatusCoherent'
  BY <1>0, <1>3 DEF Reconcile, FeedRow
<1>4. ASSUME NEW r \in Refreshers, RecordFailure(r)
      PROVE  StatusCoherent'
  <2> DEFINE f == target[r]
             n == feed[f].failures + 1
             t == failure[r].at + RetryDelay(n)
  <2>1. f \in Feeds /\ failure[r].code \in ErrorCodes /\ failure[r].at \in Nat
    BY <1>4 DEF RecordFailure, TypeOK, Attempting
  <2>2. n \in Nat /\ n # 0
    BY <1>0, <2>1 DEF FeedRow
  <2>3. t # NoTime
    BY <2>1, RetryDelayBounded, ConstantsAssumption
  <2>4. feed' = [feed EXCEPT ![f] = [feed[f] EXCEPT
                   !.failures = n, !.error = failure[r].code, !.retryAt = t]]
    BY <1>4 DEF RecordFailure
  <2> HIDE DEF f, n, t
  <2>5. /\ feed'[f].failures = n
        /\ feed'[f].error = failure[r].code
        /\ feed'[f].retryAt = t
        /\ \A g \in Feeds : g # f => feed'[g] = feed[g]
    BY <1>0, <2>1, <2>4 DEF FeedRow
  <2>6. QED
    BY <2>1, <2>2, <2>3, <2>5, CodesAreNotBlank
<1>5. ASSUME NEW f \in Feeds, Deactivate(f) \/ Activate(f)
      PROVE  StatusCoherent'
  BY <1>0, <1>5 DEF Deactivate, Activate, FeedRow
<1>6. [Next]_vars => \/ UNCHANGED feed
                     \/ \E r \in Refreshers, f \in Feeds : Claim(r, f)
                     \/ \E r \in Refreshers : Reconcile(r) \/ RecordFailure(r)
                     \/ \E f \in Feeds : Deactivate(f) \/ Activate(f)
  BY DEF Next, Work, vars, rows, StartCycle, SkipFeed, Fetch, FetchFails,
         Superseded, ReconcileFails, DiscardFailure, EndCycle, Crash, Publish,
         Tick
<1>7. QED
  BY <1>1, <1>2, <1>3, <1>4, <1>5, <1>6

(* A feed's row never mixes two outcomes: it shows an error exactly when   *)
(* it counts failures and backs off.                                       *)
THEOREM StatusIsCoherent == Spec => []StatusCoherent
<1>1. Init => StatusCoherent
  <2> SUFFICES ASSUME Init, NEW f \in Feeds
               PROVE  /\ feed[f].error = "none" /\ feed[f].failures = 0
                      /\ feed[f].retryAt = NoTime
    BY DEF StatusCoherent
  <2>1. QED
    BY DEF Init
<1>2. QED
  BY <1>1, CoherentStep, TypeCorrect, PTL DEF Spec

----------------------------------------------------------------------------
(* The fence: the inductive invariant is TypeOK, FenceInv and OneOwner     *)
(* together.                                                               *)
Fence == FenceInv /\ OneOwner

LEMMA FenceInit == Init => Fence
<1> SUFFICES ASSUME Init
             PROVE  Fence
  OBVIOUS
<1>1. \A r \in Refreshers : pc[r] = "idle"
  BY DEF Init
<1>2. \A f \in Feeds : settled[f] = 0 /\ feed[f].generation = 0
                       /\ articles[f] = 0 /\ published[f] = 0
  BY DEF Init
<1>3. QED
  BY <1>1, <1>2 DEF Fence, FenceInv, OneOwner, Attempting

(* Steps that begin no attempt, write no outcome and let no server publish *)
(* keep the fence: attempts may only end, or move to "failing".            *)
LEMMA FenceKept ==
  ASSUME TypeOK, Fence,
         \A f \in Feeds : feed'[f].generation = feed[f].generation,
         UNCHANGED <<articles, settled, published>>,
         \A r \in Refreshers :
           Attempting(r)' => /\ Attempting(r)
                             /\ target'[r] = target[r] /\ ticket'[r] = ticket[r],
         \A r \in Refreshers :
           pc'[r] = "reconciling" => /\ pc[r] = "reconciling"
                                     /\ fetched'[r] = fetched[r]
  PROVE  Fence'
<1>1. \A r \in Refreshers : Attempting(r) => target[r] \in Feeds
  BY DEF TypeOK
<1>2. \A r \in Refreshers : pc[r] = "reconciling" => Attempting(r)
  BY DEF Attempting
<1>3. \A r \in Refreshers : pc'[r] = "reconciling" => Attempting(r)'
  BY DEF Attempting
<1>4. \A r \in Refreshers : Attempting(r)' => (Owns(r)' <=> Owns(r))
  BY <1>1 DEF Owns
<1>5. FenceInv'
  BY <1>1, <1>2, <1>3, <1>4 DEF Fence, FenceInv
<1>6. OneOwner'
  BY <1>1, <1>4 DEF Fence, OneOwner
<1>7. QED
  BY <1>5, <1>6 DEF Fence

(* A claim takes a generation above every one in use on the feed, which    *)
(* takes the ownership away from every older attempt.                      *)
LEMMA FenceClaim ==
  ASSUME TypeOK, Fence, NEW r \in Refreshers, NEW f \in Feeds, Claim(r, f)
  PROVE  Fence'
<1>1. /\ feed \in [Feeds -> FeedRow] /\ settled \in [Feeds -> Nat]
      /\ ticket \in [Refreshers -> Nat] /\ pc[r] = "looping"
      /\ \A s \in Refreshers : Attempting(s) => target[s] \in Feeds
  BY DEF TypeOK, Claim
<1>2. /\ feed'[f].generation = feed[f].generation + 1
      /\ \A g \in Feeds : g # f => feed'[g] = feed[g]
      /\ \A g \in Feeds : feed[g].generation \in Nat
  BY <1>1 DEF Claim, FeedRow
<1>3. /\ target'[r] = f /\ ticket'[r] = feed[f].generation + 1
      /\ pc'[r] = "fetching"
      /\ \A s \in Refreshers : s # r => /\ pc'[s] = pc[s]
                                        /\ target'[s] = target[s]
                                        /\ ticket'[s] = ticket[s]
      /\ UNCHANGED <<articles, settled, published, fetched>>
  BY DEF Claim, TypeOK, world
<1>4. \A s \in Refreshers : (Attempting(s)' /\ s # r) =>
        /\ Attempting(s)
        /\ ticket[s] <= feed[target[s]].generation
        /\ Owns(s)' => target[s] # f /\ Owns(s)
  <2> SUFFICES ASSUME NEW s \in Refreshers, Attempting(s)', s # r
               PROVE  /\ Attempting(s)
                      /\ ticket[s] <= feed[target[s]].generation
                      /\ Owns(s)' => target[s] # f /\ Owns(s)
    OBVIOUS
  <2>1. Attempting(s) /\ ticket[s] <= feed[target[s]].generation
    BY <1>3 DEF Attempting, Fence, FenceInv
  <2>2. QED
    BY <1>1, <1>2, <1>3, <2>1 DEF Owns
<1>5. FenceInv'
  BY <1>1, <1>2, <1>3, <1>4 DEF Fence, FenceInv, Attempting, Owns
<1>6. OneOwner'
  BY <1>1, <1>2, <1>3, <1>4 DEF Fence, FenceInv, OneOwner, Owns
<1>7. QED
  BY <1>5, <1>6 DEF Fence

(* The document fetched after the claim is as new as anything stored.      *)
LEMMA FenceFetch ==
  ASSUME TypeOK, Fence, NEW r \in Refreshers, Fetch(r)
  PROVE  Fence'
<1>1. /\ fetched \in [Refreshers -> Nat]
      /\ pc \in [Refreshers ->
                   {"idle", "looping", "fetching", "reconciling", "failing"}]
      /\ articles \in [Feeds -> Nat] /\ published \in [Feeds -> Nat]
      /\ Attempting(r) /\ \A s \in Refreshers : Attempting(s) => target[s] \in Feeds
  BY DEF TypeOK, Fetch, Attempting
<1>2. /\ UNCHANGED <<feed, articles, settled, published, target, ticket>>
      /\ fetched' = [fetched EXCEPT ![r] = published[target[r]]]
      /\ pc' = [pc EXCEPT ![r] = "reconciling"]
  BY DEF Fetch, rows, world
<1>3. \A s \in Refreshers : Attempting(s)' => Attempting(s)
  BY <1>1, <1>2 DEF Attempting
<1>4. FenceInv'
  BY <1>1, <1>2, <1>3 DEF Fence, FenceInv, Owns
<1>5. OneOwner'
  BY <1>2, <1>3 DEF Fence, OneOwner, Owns
<1>6. QED
  BY <1>4, <1>5 DEF Fence

(* Persisting the outcome of the owner of a feed: no other attempt on that *)
(* feed owns it.                                                           *)
LEMMA FenceSettle ==
  ASSUME TypeOK, Fence, NEW r \in Refreshers, Reconcile(r) \/ RecordFailure(r)
  PROVE  Fence'
<1> DEFINE f == target[r]
<1>1. /\ f \in Feeds /\ Attempting(r) /\ Owns(r) /\ r \in DOMAIN pc
      /\ articles \in [Feeds -> Nat] /\ published \in [Feeds -> Nat]
      /\ settled \in [Feeds -> Nat] /\ ticket \in [Refreshers -> Nat]
      /\ fetched \in [Refreshers -> Nat] /\ feed \in [Feeds -> FeedRow]
      /\ \A s \in Refreshers : Attempting(s) => target[s] \in Feeds
  BY DEF TypeOK, Reconcile, RecordFailure, Attempting
<1>2. /\ settled' = [settled EXCEPT ![f] = ticket[r]]
      /\ published' = published
      /\ \/ articles' = articles
         \/ pc[r] = "reconciling" /\ articles' = [articles EXCEPT ![f] = fetched[r]]
  BY DEF Reconcile, RecordFailure, world
<1>3. \A g \in Feeds : feed'[g].generation = feed[g].generation
  <2>1. CASE Reconcile(r)
    BY <1>1, <2>1 DEF Reconcile, FeedRow
  <2>2. CASE RecordFailure(r)
    <3> DEFINE n == feed[f].failures + 1
               t == failure[r].at + RetryDelay(n)
    <3>1. feed' = [feed EXCEPT ![f] = [feed[f] EXCEPT
                     !.failures = n, !.error = failure[r].code, !.retryAt = t]]
      BY <2>2 DEF RecordFailure
    <3> HIDE DEF f, n, t
    <3>2. QED
      BY <1>1, <3>1 DEF FeedRow
  <2>3. QED
    BY <2>1, <2>2
<1>4. /\ ~Attempting(r)'
      /\ \A s \in Refreshers : s # r => /\ pc'[s] = pc[s]
                                        /\ target'[s] = target[s]
                                        /\ ticket'[s] = ticket[s]
                                        /\ fetched'[s] = fetched[s]
  BY DEF Reconcile, RecordFailure, NextFeed, Attempting, TypeOK
<1>5. \A s \in Refreshers : Attempting(s)' =>
        s # r /\ Attempting(s) /\ (Owns(s)' <=> Owns(s))
  BY <1>1, <1>3, <1>4 DEF Attempting, Owns
<1>6. \A s \in Refreshers : (Attempting(s)' /\ Owns(s)) => target[s] # f
  BY <1>1, <1>5 DEF Fence, OneOwner, Owns
<1>7. ticket[r] = feed[f].generation
      /\ (pc[r] = "reconciling" => articles[f] <= fetched[r] /\ fetched[r] <= published[f])
  BY <1>1 DEF Fence, FenceInv, Owns
<1> HIDE DEF f
<1>8. \A g \in Feeds : settled'[g] <= feed'[g].generation
                       /\ articles'[g] <= published'[g]
  <2> SUFFICES ASSUME NEW g \in Feeds
               PROVE  settled'[g] <= feed'[g].generation /\ articles'[g] <= published'[g]
    OBVIOUS
  <2>1. /\ settled[g] <= feed[g].generation /\ articles[g] <= published[g]
        /\ feed[g].generation \in Nat
    BY <1>1 DEF Fence, FenceInv, FeedRow
  <2>2. QED
    BY <1>1, <1>2, <1>3, <1>7, <2>1
<1>9. FenceInv'
  <2> SUFFICES ASSUME NEW s \in Refreshers
               PROVE  /\ Attempting(s)' => ticket'[s] <= feed'[target'[s]].generation
                      /\ pc'[s] = "reconciling" =>
                           /\ fetched'[s] <= published'[target'[s]]
                           /\ Owns(s)' => articles'[target'[s]] <= fetched'[s]
    BY <1>8 DEF FenceInv
  <2>1. CASE ~Attempting(s)'
    BY <2>1 DEF Attempting
  <2>2. CASE Attempting(s)'
    <3>1. /\ s # r /\ Attempting(s) /\ target[s] \in Feeds
          /\ Owns(s) => target[s] # f
      BY <1>1, <1>5, <1>6, <2>2
    <3>2. QED
      BY <1>1, <1>2, <1>3, <1>4, <1>5, <2>2, <3>1 DEF Fence, FenceInv
  <2>3. QED
    BY <2>1, <2>2
<1>10. OneOwner'
  <2> SUFFICES ASSUME NEW s \in Refreshers, NEW u \in Refreshers, Attempting(s)'
               PROVE  /\ Owns(s)' => settled'[target'[s]] < ticket'[s]
                      /\ (s # u /\ Attempting(u)' /\ target'[u] = target'[s])
                           => ticket'[s] # ticket'[u]
    BY DEF OneOwner
  <2>1. s # r /\ Attempting(s) /\ target[s] \in Feeds /\ (Owns(s) => target[s] # f)
    BY <1>1, <1>5, <1>6
  <2>2. QED
    BY <1>1, <1>2, <1>4, <1>5, <2>1 DEF Fence, OneOwner
<1>11. QED
  BY <1>9, <1>10 DEF Fence

(* What the steps that neither claim, fetch, settle nor publish leave      *)
(* alone: the premises of FenceKept.                                       *)
Quiet ==
  /\ \A f \in Feeds : /\ feed'[f].generation = feed[f].generation
                      /\ feed'[f].failures = feed[f].failures
  /\ UNCHANGED <<articles, settled, published>>
  /\ \A r \in Refreshers :
       Attempting(r)' => /\ Attempting(r)
                         /\ target'[r] = target[r] /\ ticket'[r] = ticket[r]
  /\ \A r \in Refreshers :
       pc'[r] = "reconciling" => /\ pc[r] = "reconciling"
                                 /\ fetched'[r] = fetched[r]

LEMMA QuietSteps ==
  ASSUME TypeOK, [Next]_vars
  PROVE  \/ Quiet
         \/ \E r \in Refreshers, f \in Feeds : Claim(r, f)
         \/ \E r \in Refreshers : Fetch(r)
         \/ \E r \in Refreshers : Reconcile(r) \/ RecordFailure(r)
         \/ \E f \in Feeds : Publish(f)
<1> USE DEF Quiet, Attempting
<1>1. /\ feed \in [Feeds -> FeedRow]
      /\ pc \in [Refreshers ->
                   {"idle", "looping", "fetching", "reconciling", "failing"}]
      /\ target \in [Refreshers -> Feeds \cup {NoFeed}]
      /\ ticket \in [Refreshers -> Nat] /\ fetched \in [Refreshers -> Nat]
  BY DEF TypeOK
<1>2. ASSUME NEW r \in Refreshers, StartCycle(r) \/ EndCycle(r)
      PROVE  Quiet
  BY <1>1, <1>2 DEF StartCycle, EndCycle, rows, attempt, world
<1>3. ASSUME NEW r \in Refreshers, NEW f \in Feeds, SkipFeed(r, f)
      PROVE  Quiet
  BY <1>1, <1>3 DEF SkipFeed, rows, attempt, world
<1>4. ASSUME NEW r \in Refreshers, FetchFails(r) \/ ReconcileFails(r)
      PROVE  Quiet
  BY <1>1, <1>4 DEF FetchFails, ReconcileFails, Raise, rows, world
<1>5. ASSUME NEW r \in Refreshers, Superseded(r) \/ DiscardFailure(r)
      PROVE  Quiet
  BY <1>1, <1>5 DEF Superseded, DiscardFailure, NextFeed, rows, world
<1>6. ASSUME NEW r \in Refreshers, Crash(r)
      PROVE  Quiet
  BY <1>1, <1>6 DEF Crash, rows
<1>7. ASSUME NEW f \in Feeds, Deactivate(f) \/ Activate(f)
      PROVE  Quiet
  <2>1. \A g \in Feeds : feed'[g].generation = feed[g].generation
                         /\ feed'[g].failures = feed[g].failures
    BY <1>1, <1>7 DEF Deactivate, Activate, FeedRow
  <2>2. UNCHANGED <<articles, settled, refreshers, world>>
    BY <1>7 DEF Deactivate, Activate
  <2>3. QED
    BY <2>1, <2>2 DEF refreshers, attempt, world
<1>8. CASE Tick \/ UNCHANGED vars
  BY <1>8 DEF Tick, vars, rows, refreshers, attempt, world
<1>9. QED
  BY <1>2, <1>3, <1>4, <1>5, <1>6, <1>7, <1>8 DEF Next, Work

LEMMA FenceStep == TypeOK /\ Fence /\ [Next]_vars => Fence'
<1> SUFFICES ASSUME TypeOK, Fence, [Next]_vars
             PROVE  Fence'
  OBVIOUS
<1>1. CASE Quiet
  BY <1>1, FenceKept DEF Quiet
<1>2. ASSUME NEW r \in Refreshers, NEW f \in Feeds, Claim(r, f)
      PROVE  Fence'
  BY <1>2, FenceClaim
<1>3. ASSUME NEW r \in Refreshers, Fetch(r)
      PROVE  Fence'
  BY <1>3, FenceFetch
<1>4. ASSUME NEW r \in Refreshers, Reconcile(r) \/ RecordFailure(r)
      PROVE  Fence'
  BY <1>4, FenceSettle
<1>5. ASSUME NEW f \in Feeds, Publish(f)
      PROVE  Fence'
  <2>1. /\ UNCHANGED <<feed, articles, settled, pc, target, ticket, fetched>>
        /\ \A g \in Feeds : published'[g] >= published[g]
    BY <1>5 DEF Publish, rows, refreshers, attempt, TypeOK
  <2>2. /\ \A g \in Feeds : articles[g] \in Nat /\ published[g] \in Nat
                            /\ published'[g] \in Nat
        /\ \A r \in Refreshers : fetched[r] \in Nat
        /\ \A r \in Refreshers : pc[r] = "reconciling" => target[r] \in Feeds
    BY <1>5 DEF Publish, TypeOK, Attempting
  <2>3. FenceInv'
    BY <2>1, <2>2 DEF Fence, FenceInv, Attempting, Owns
  <2>4. OneOwner'
    BY <2>1 DEF Fence, OneOwner, Attempting, Owns
  <2>5. QED
    BY <2>3, <2>4 DEF Fence
<1>6. QED
  BY <1>1, <1>2, <1>3, <1>4, <1>5, QuietSteps

(* Two attempts under way on one feed never hold the same generation, and  *)
(* an attempt that owns its feed has not been persisted yet.               *)
THEOREM FenceHolds == Spec => [](FenceInv /\ OneOwner)
<1>1. TypeOK /\ Fence /\ [Next]_vars => Fence'
  BY FenceStep
<1>2. QED
  BY FenceInit, <1>1, TypeCorrect, PTL DEF Spec, Fence

(* Two attempts under way on one feed hold different generations, and the  *)
(* attempt that holds the row's generation has not settled it.             *)
THEOREM AttemptsOwnTheirFeed == Spec => []OneOwner
BY FenceHolds, PTL

----------------------------------------------------------------------------
(* What a settling step does to the status of its feed.                    *)
LEMMA SettleStep ==
  ASSUME TypeOK, Fence, NEW r \in Refreshers, Reconcile(r) \/ RecordFailure(r)
  PROVE  LET f == target[r] IN
         /\ f \in Feeds
         /\ settled[f] < feed[f].generation
         /\ settled' = [settled EXCEPT ![f] = feed[f].generation]
         /\ \A g \in Feeds : feed'[g].generation = feed[g].generation
         /\ \A g \in Feeds : g # f => feed'[g] = feed[g]
         /\ \/ /\ articles' = articles
               /\ feed'[f].failures = feed[f].failures + 1
            \/ /\ articles' = [articles EXCEPT ![f] = fetched[r]]
               /\ articles[f] <= fetched[r]
               /\ feed'[f].failures = 0
<1> DEFINE f == target[r]
<1>1. /\ f \in Feeds /\ Attempting(r) /\ Owns(r)
      /\ feed \in [Feeds -> FeedRow]
  BY DEF TypeOK, Reconcile, RecordFailure, Attempting
<1>2. /\ ticket[r] = feed[f].generation /\ settled[f] < ticket[r]
      /\ pc[r] = "reconciling" => articles[f] <= fetched[r]
  BY <1>1 DEF Fence, FenceInv, OneOwner, Owns
<1>3. CASE Reconcile(r)
  <2>1. feed' = [feed EXCEPT ![f] = [feed[f] EXCEPT
                   !.failures = 0, !.error = "none", !.retryAt = NoTime]]
    BY <1>3 DEF Reconcile
  <2>2. /\ pc[r] = "reconciling"
        /\ settled' = [settled EXCEPT ![f] = ticket[r]]
        /\ articles' = [articles EXCEPT ![f] = fetched[r]]
    BY <1>3 DEF Reconcile
  <2> HIDE DEF f
  <2>3. /\ \A g \in Feeds : feed'[g].generation = feed[g].generation
        /\ \A g \in Feeds : g # f => feed'[g] = feed[g]
        /\ feed'[f].failures = 0
    BY <1>1, <2>1 DEF FeedRow
  <2>4. QED
    BY <1>1, <1>2, <2>2, <2>3 DEF f
<1>4. CASE RecordFailure(r)
  <2> DEFINE n == feed[f].failures + 1
             t == failure[r].at + RetryDelay(n)
  <2>1. feed' = [feed EXCEPT ![f] = [feed[f] EXCEPT
                   !.failures = n, !.error = failure[r].code, !.retryAt = t]]
    BY <1>4 DEF RecordFailure
  <2>2. /\ settled' = [settled EXCEPT ![f] = ticket[r]]
        /\ articles' = articles
    BY <1>4 DEF RecordFailure
  <2> HIDE DEF f, n, t
  <2>3. /\ \A g \in Feeds : feed'[g].generation = feed[g].generation
        /\ \A g \in Feeds : g # f => feed'[g] = feed[g]
        /\ feed'[f].failures = n
    BY <1>1, <2>1 DEF FeedRow
  <2>4. QED
    BY <1>1, <1>2, <2>2, <2>3 DEF f, n
<1>5. QED
  BY <1>3, <1>4

(* The generation of a feed never decreases: nothing but a claim changes   *)
(* it.                                                                     *)
THEOREM GenerationIsMonotonic == Spec => GenerationNeverDecreases
<1> DEFINE A == \A f \in Feeds : feed'[f].generation >= feed[f].generation
<1>1. TypeOK /\ Fence /\ [Next]_vars => A
  <2> SUFFICES ASSUME TypeOK, Fence, [Next]_vars
               PROVE  A
    OBVIOUS
  <2>1. feed \in [Feeds -> FeedRow] /\ \A f \in Feeds : feed[f].generation \in Nat
    BY DEF TypeOK, FeedRow
  <2>2. CASE Quiet
    BY <2>1, <2>2 DEF Quiet
  <2>3. ASSUME NEW r \in Refreshers, NEW f \in Feeds, Claim(r, f)
        PROVE  A
    BY <2>1, <2>3 DEF Claim, FeedRow
  <2>4. ASSUME NEW r \in Refreshers, Fetch(r)
        PROVE  A
    BY <2>1, <2>4 DEF Fetch, rows
  <2>5. ASSUME NEW r \in Refreshers, Reconcile(r) \/ RecordFailure(r)
        PROVE  A
    BY <2>1, <2>5, SettleStep
  <2>6. ASSUME NEW f \in Feeds, Publish(f)
        PROVE  A
    BY <2>1, <2>6 DEF Publish, rows
  <2>7. QED
    BY <2>2, <2>3, <2>4, <2>5, <2>6, QuietSteps
<1>2. QED
  BY <1>1, TypeCorrect, FenceHolds, PTL DEF Spec, GenerationNeverDecreases, Fence

(* However fetches overlap, stored articles are never replaced by those of *)
(* an older document.                                                      *)
THEOREM NoRegress == Spec => ArticlesNeverRegress
<1> DEFINE A == \A f \in Feeds : articles'[f] >= articles[f]
<1>1. TypeOK /\ Fence /\ [Next]_vars => A
  <2> SUFFICES ASSUME TypeOK, Fence, [Next]_vars
               PROVE  A
    OBVIOUS
  <2>1. articles \in [Feeds -> Nat] /\ fetched \in [Refreshers -> Nat]
    BY DEF TypeOK
  <2>2. CASE UNCHANGED articles
    BY <2>1, <2>2
  <2>3. ASSUME NEW r \in Refreshers, Reconcile(r) \/ RecordFailure(r)
        PROVE  A
    BY <2>1, <2>3, SettleStep
  <2>4. QED
    BY <2>2, <2>3, QuietSteps DEF Quiet, Claim, Fetch, Publish, rows
<1>2. QED
  BY <1>1, TypeCorrect, FenceHolds, PTL DEF Spec, ArticlesNeverRegress, Fence

----------------------------------------------------------------------------
(* Every step of the refreshers, the editors and the servers is a step of  *)
(* the abstract status or leaves it alone.                                 *)
LEMMA StatusStep ==
  ASSUME TypeOK, Fence, [Next]_vars
  PROVE  [Status!Next]_(Status!status)
<1> USE DEF Status!Next, Status!status, Status!Issue, Status!Settle,
            Status!Succeed, Status!Fail
<1>1. /\ feed \in [Feeds -> FeedRow] /\ articles \in [Feeds -> Nat]
      /\ settled \in [Feeds -> Nat] /\ fetched \in [Refreshers -> Nat]
  BY DEF TypeOK
<1>2. CASE Quiet
  BY <1>2 DEF Quiet
<1>3. ASSUME NEW r \in Refreshers, NEW f \in Feeds, Claim(r, f)
      PROVE  Status!Issue(f)
  <2>1. /\ feed'[f].generation = feed[f].generation + 1
        /\ feed'[f].failures = feed[f].failures
        /\ \A g \in Feeds : g # f => feed'[g] = feed[g]
        /\ UNCHANGED <<articles, settled>>
    BY <1>1, <1>3 DEF Claim, FeedRow
  <2>2. QED
    BY <2>1
<1>4. CASE \/ \E r \in Refreshers : Fetch(r)
           \/ \E f \in Feeds : Publish(f)
  BY <1>4 DEF Fetch, Publish, rows
<1>5. ASSUME NEW r \in Refreshers, Reconcile(r) \/ RecordFailure(r)
      PROVE  \E f \in Feeds : Status!Succeed(f) \/ Status!Fail(f)
  <2> DEFINE f == target[r]
  <2>1. /\ f \in Feeds
        /\ settled[f] < feed[f].generation
        /\ settled' = [settled EXCEPT ![f] = feed[f].generation]
        /\ \A g \in Feeds : feed'[g].generation = feed[g].generation
        /\ \A g \in Feeds : g # f => feed'[g] = feed[g]
        /\ \/ /\ articles' = articles
              /\ feed'[f].failures = feed[f].failures + 1
           \/ /\ articles' = [articles EXCEPT ![f] = fetched[r]]
              /\ articles[f] <= fetched[r]
              /\ feed'[f].failures = 0
    BY <1>5, SettleStep
  <2> HIDE DEF f
  <2>2. Status!Settle(f)
    BY <1>1, <2>1
  <2>3. CASE articles' = articles /\ feed'[f].failures = feed[f].failures + 1
    <3>1. [g \in Feeds |-> feed[g].failures]' =
             [[g \in Feeds |-> feed[g].failures] EXCEPT ![f] = @ + 1]
      BY <2>1, <2>3
    <3>2. Status!Fail(f)
      BY <2>2, <2>3, <3>1
    <3>3. QED
      BY <2>1, <3>2
  <2>4. CASE /\ articles' = [articles EXCEPT ![f] = fetched[r]]
             /\ articles[f] <= fetched[r]
             /\ feed'[f].failures = 0
    <3>1. [g \in Feeds |-> feed[g].failures]' =
             [[g \in Feeds |-> feed[g].failures] EXCEPT ![f] = 0]
      BY <2>1, <2>4
    <3>2. /\ articles'[f] = fetched[r]
          /\ articles' = [articles EXCEPT ![f] = articles'[f]]
          /\ articles'[f] >= articles[f]
      BY <1>1, <2>1, <2>4
    <3>3. QED
      BY <2>1, <2>2, <3>1, <3>2
  <2>5. QED
    BY <2>1, <2>3, <2>4
<1>6. QED
  BY <1>2, <1>3, <1>4, <1>5, QuietSteps

(* The rows implement the abstract status: for any number of concurrent    *)
(* refreshers, only the newest attempt settles a feed, at most once.       *)
THEOREM Refinement == Spec => ImplementsStatus
<1>1. Init => Status!Init
  BY DEF Init, Status!Init
<1>2. TypeOK /\ Fence /\ [Next]_vars => [Status!Next]_(Status!status)
  BY StatusStep
<1>3. QED
  BY <1>1, <1>2, TypeCorrect, FenceHolds, PTL
     DEF Spec, ImplementsStatus, Status!Spec, Fence

-----------------------------------------------------------------------------
(* Overlap alone breaks the backoff (FeedRefreshStaleBackoff.cfg).          *)

CyclesDoNotOverlap ==
  \A r, s \in Refreshers : pc[r] # "idle" /\ pc[s] # "idle" => r = s

(* The snapshot of a cycle is current for the feeds it has yet to reach: it *)
(* is done with a feed once it has begun an attempt on it.                  *)
SnapshotInv ==
  \A r \in Refreshers : pc[r] # "idle" =>
    /\ \A f \in todo[r] : seen[r][f] = feed[f].retryAt
    /\ Attempting(r) => target[r] \notin todo[r]

LEMMA SnapshotStep ==
  ASSUME TypeOK, CyclesDoNotOverlap, SnapshotInv, [Next]_vars
  PROVE  SnapshotInv'
<1> USE DEF SnapshotInv, Attempting
<1>0. /\ feed \in [Feeds -> FeedRow] /\ todo \in [Refreshers -> SUBSET Feeds]
      /\ seen \in [Refreshers -> [Feeds -> Nat \cup {NoTime}]]
      /\ target \in [Refreshers -> Feeds \cup {NoFeed}]
      /\ DOMAIN pc = Refreshers
  BY DEF TypeOK
<1>1. ASSUME NEW r \in Refreshers, StartCycle(r)
      PROVE  SnapshotInv'
  BY <1>0, <1>1 DEF StartCycle, rows, attempt
<1>2. ASSUME NEW r \in Refreshers, NEW f \in Feeds, SkipFeed(r, f)
      PROVE  SnapshotInv'
  BY <1>0, <1>2 DEF SkipFeed, rows, attempt
<1>3. ASSUME NEW r \in Refreshers, NEW f \in Feeds, Claim(r, f)
      PROVE  SnapshotInv'
  <2>1. \A g \in Feeds : feed'[g].retryAt = feed[g].retryAt
    BY <1>0, <1>3 DEF Claim, FeedRow
  <2>2. QED
    BY <1>0, <1>3, <2>1 DEF Claim
<1>4. ASSUME NEW r \in Refreshers, Fetch(r) \/ FetchFails(r) \/ ReconcileFails(r)
      PROVE  SnapshotInv'
  BY <1>0, <1>4 DEF Fetch, FetchFails, ReconcileFails, Raise, rows
<1>5. ASSUME NEW r \in Refreshers, Superseded(r) \/ DiscardFailure(r)
      PROVE  SnapshotInv'
  BY <1>0, <1>5 DEF Superseded, DiscardFailure, NextFeed, rows
<1>6. ASSUME NEW r \in Refreshers, Reconcile(r) \/ RecordFailure(r)
      PROVE  SnapshotInv'
  <2>1. /\ pc[r] # "idle" /\ target[r] \notin todo[r]
        /\ \A g \in Feeds : g # target[r] => feed'[g] = feed[g]
        /\ pc' = [pc EXCEPT ![r] = "looping"]
        /\ UNCHANGED <<todo, seen>>
    BY <1>0, <1>6 DEF Reconcile, RecordFailure, NextFeed
  <2>2. \A s \in Refreshers : pc'[s] # "idle" => s = r
    BY <1>0, <2>1 DEF CyclesDoNotOverlap
  <2>3. \A g \in todo[r] : seen[r][g] = feed'[g].retryAt
    BY <1>0, <2>1
  <2>4. QED
    BY <1>0, <2>1, <2>2, <2>3
<1>7. ASSUME NEW r \in Refreshers, EndCycle(r) \/ Crash(r)
      PROVE  SnapshotInv'
  BY <1>0, <1>7 DEF EndCycle, Crash, rows, attempt
<1>8. ASSUME NEW f \in Feeds, Deactivate(f) \/ Activate(f)
      PROVE  SnapshotInv'
  <2>1. \A g \in Feeds : feed'[g].retryAt = feed[g].retryAt
    <3>1. PICK b \in BOOLEAN : feed' = [feed EXCEPT ![f] = [feed[f] EXCEPT !.active = b]]
      BY <1>8 DEF Deactivate, Activate
    <3>2. feed[f] \in FeedRow
      BY <1>0
    <3>3. [feed[f] EXCEPT !.active = b].retryAt = feed[f].retryAt
      BY <3>2 DEF FeedRow
    <3>4. QED
      BY <1>0, <3>1, <3>3
  <2>2. QED
    BY <1>0, <1>8, <2>1 DEF Deactivate, Activate, refreshers, attempt
<1>9. CASE UNCHANGED <<feed, refreshers>>
  BY <1>0, <1>9 DEF refreshers, attempt
<1>10. QED
  BY <1>1, <1>2, <1>3, <1>4, <1>5, <1>6, <1>7, <1>8, <1>9
     DEF Next, Work, Publish, Tick, vars, rows

(* As long as cycles do not overlap, which the job lease sees to among      *)
(* workers (RefreshJobProofs, CyclesExclude), no attempt is claimed on a    *)
(* feed that backs off.                                                     *)
THEOREM BackoffHoldsWithoutOverlap ==
  Spec /\ []CyclesDoNotOverlap => BackoffRespected
<1> DEFINE A == \A f \in Feeds :
                  feed'[f].generation # feed[f].generation =>
                    feed[f].retryAt = NoTime \/ feed[f].retryAt <= now
<1>1. Init => SnapshotInv
  BY DEF Init, SnapshotInv
<1>2. TypeOK /\ CyclesDoNotOverlap /\ SnapshotInv /\ [Next]_vars => SnapshotInv'
  BY SnapshotStep
<1>3. TypeOK /\ Fence /\ SnapshotInv /\ [Next]_vars => A
  <2> SUFFICES ASSUME TypeOK, Fence, SnapshotInv, [Next]_vars
               PROVE  A
    OBVIOUS
  <2>1. /\ feed \in [Feeds -> FeedRow] /\ now \in Nat
        /\ todo \in [Refreshers -> SUBSET Feeds]
    BY DEF TypeOK
  <2>2. CASE Quiet
    BY <2>2 DEF Quiet
  <2>3. ASSUME NEW r \in Refreshers, NEW f \in Feeds, Claim(r, f)
        PROVE  A
    <3>1. feed[f].retryAt = NoTime \/ feed[f].retryAt <= now
      <4>1. /\ seen[r][f] = feed[f].retryAt
            /\ feed[f].retryAt = NoTime \/ ~(feed[f].retryAt > now)
        BY <2>3 DEF Claim, BackedOff, SnapshotInv
      <4>2. feed[f].retryAt \in Nat \cup {NoTime}
        BY <2>1 DEF FeedRow
      <4>3. QED
        BY <2>1, <4>1, <4>2
    <3>2. \A g \in Feeds : g # f => feed'[g] = feed[g]
      BY <2>1, <2>3 DEF Claim
    <3>3. QED
      BY <3>1, <3>2
  <2>4. ASSUME NEW r \in Refreshers, Fetch(r)
        PROVE  A
    BY <2>4 DEF Fetch, rows
  <2>5. ASSUME NEW r \in Refreshers, Reconcile(r) \/ RecordFailure(r)
        PROVE  A
    BY <2>1, <2>5, SettleStep
  <2>6. ASSUME NEW f \in Feeds, Publish(f)
        PROVE  A
    BY <2>6 DEF Publish, rows
  <2>7. QED
    BY <2>2, <2>3, <2>4, <2>5, <2>6, QuietSteps
<1>4. QED
  BY <1>1, <1>2, <1>3, TypeCorrect, FenceHolds, PTL DEF Spec, BackoffRespected, Fence

-----------------------------------------------------------------------------
(* Full-row saves break the generation fence (FeedEditingFence.cfg), but   *)
(* for any number of feeds, refreshers and editors they leave the columns  *)
(* of a status coherent.                                                   *)

(* What editors hold: rows, of feeds.                                      *)
EditTypeOK ==
  /\ editing \in [Editors -> Feeds \cup {NoFeed}]
  /\ draft \in [Editors -> FeedRow]

RowCoherent(row) ==
  /\ row.error = "none" <=> row.failures = 0
  /\ row.error = "none" <=> row.retryAt = NoTime

DraftsCoherent == \A e \in Editors : RowCoherent(draft[e])

(* Changing is_active changes nothing a status is made of.                 *)
LEMMA ActiveIsNoStatus ==
  ASSUME NEW row \in FeedRow, NEW b \in BOOLEAN, RowCoherent(row)
  PROVE  [row EXCEPT !.active = b] \in FeedRow /\ RowCoherent([row EXCEPT !.active = b])
BY DEF FeedRow, RowCoherent

(* A save writes a row an editor holds over the row of one feed.           *)
LEMMA SaveStep ==
  ASSUME TypeOK, StatusCoherent, EditTypeOK, DraftsCoherent,
         NEW e \in Editors, SaveEdit(e)
  PROVE  TypeOK' /\ StatusCoherent'
<1> DEFINE f == editing[e]
<1>1. f \in Feeds /\ draft[e] \in FeedRow /\ RowCoherent(draft[e])
  BY DEF SaveEdit, EditTypeOK, DraftsCoherent
<1>2. PICK b \in BOOLEAN : feed' = [feed EXCEPT ![f] = [draft[e] EXCEPT !.active = b]]
  BY DEF SaveEdit
<1> DEFINE row == [draft[e] EXCEPT !.active = b]
<1>3. row \in FeedRow /\ RowCoherent(row)
  BY <1>1, ActiveIsNoStatus
<1>4. feed \in [Feeds -> FeedRow] /\ feed' = [feed EXCEPT ![f] = row]
  BY <1>2 DEF TypeOK
<1> HIDE DEF f, row
<1>5. feed' \in [Feeds -> FeedRow]
      /\ \A g \in Feeds : feed'[g] = IF g = f THEN row ELSE feed[g]
  BY <1>1, <1>3, <1>4
<1>6. TypeOK'
  BY <1>5 DEF TypeOK, SaveEdit, refreshers, attempt, world, Attempting
<1>7. StatusCoherent'
  BY <1>3, <1>5 DEF StatusCoherent, RowCoherent
<1>8. QED
  BY <1>6, <1>7

(* However stale the row an editor writes back, every row and every draft  *)
(* shows the error, the failure count and the backoff of one outcome.      *)
THEOREM EditsKeepStatusCoherent == EditSpec => []StatusCoherentUnderEdits
<1> DEFINE Inv == TypeOK /\ StatusCoherent /\ EditTypeOK /\ DraftsCoherent
<1>1. EditInit => Inv
  <2> SUFFICES ASSUME EditInit
               PROVE  Inv
    OBVIOUS
  <2>1. UnreadRow \in FeedRow /\ RowCoherent(UnreadRow)
    BY DEF UnreadRow, FeedRow, RowCoherent
  <2>2. Init
    BY DEF EditInit
  <2>3. TypeOK
    BY <2>2, ConstantsAssumption DEF Init, TypeOK, FeedRow, NoFailure, Attempting
  <2>4. StatusCoherent
    <3> SUFFICES ASSUME NEW f \in Feeds
                 PROVE  RowCoherent(feed[f])
      BY DEF StatusCoherent, RowCoherent
    <3>1. QED
      BY <2>2 DEF Init, RowCoherent
  <2>5. EditTypeOK /\ DraftsCoherent
    BY <2>1 DEF EditInit, EditTypeOK, DraftsCoherent
  <2>6. QED
    BY <2>3, <2>4, <2>5
<1>2. Inv /\ [EditNext]_<<vars, editVars>> => Inv'
  <2> SUFFICES ASSUME Inv, [EditNext]_<<vars, editVars>>
               PROVE  Inv'
    OBVIOUS
  <2>1. UnreadRow \in FeedRow /\ RowCoherent(UnreadRow)
    BY DEF UnreadRow, FeedRow, RowCoherent
  <2>2. CASE [Next]_vars /\ UNCHANGED editVars
    BY <2>2, TypeStep, CoherentStep DEF editVars, EditTypeOK, DraftsCoherent
  <2>3. ASSUME NEW e \in Editors, NEW f \in Feeds, OpenEdit(e, f)
        PROVE  Inv'
    <3>1. [Next]_vars
      BY <2>3 DEF OpenEdit
    <3>2. feed[f] \in FeedRow /\ RowCoherent(feed[f])
      BY DEF TypeOK, StatusCoherent, RowCoherent
    <3>3. EditTypeOK' /\ DraftsCoherent'
      BY <2>3, <3>2 DEF OpenEdit, EditTypeOK, DraftsCoherent
    <3>4. QED
      BY <3>1, <3>3, TypeStep, CoherentStep
  <2>4. ASSUME NEW e \in Editors, SaveEdit(e)
        PROVE  Inv'
    <3>1. EditTypeOK' /\ DraftsCoherent'
      BY <2>1, <2>4 DEF SaveEdit, EditTypeOK, DraftsCoherent
    <3>2. QED
      BY <2>4, <3>1, SaveStep
  <2>5. ASSUME NEW e \in Editors, AbandonEdit(e)
        PROVE  Inv'
    <3>1. [Next]_vars
      BY <2>5 DEF AbandonEdit
    <3>2. EditTypeOK' /\ DraftsCoherent'
      BY <2>1, <2>5 DEF AbandonEdit, EditTypeOK, DraftsCoherent
    <3>3. QED
      BY <3>1, <3>2, TypeStep, CoherentStep
  <2>6. QED
    BY <2>2, <2>3, <2>4, <2>5 DEF EditNext, editVars
<1>3. Inv => StatusCoherentUnderEdits
  BY DEF DraftsCoherent, RowCoherent, StatusCoherentUnderEdits
<1>4. QED
  BY <1>1, <1>2, <1>3, PTL DEF EditSpec
=============================================================================
