---------------------------- MODULE SignedAction ----------------------------
(***************************************************************************)
(* Signed links that save an article or mark a period once (feeds/api.py,   *)
(* _authorize_signed_action and its two views).  A link is pressed twice,   *)
(* or its request is sent again: the unique nonce decides which one acts,   *)
(* while every use also clears nonces whose deadline has passed.            *)
(***************************************************************************)
EXTENDS Naturals

CONSTANTS
  Links,
  Deadline,      \* [Links -> Nat]: the signed expiry of each
  Uses,          \* requests
  Lifetime,      \* AGENT_LINK_MAX_LIFETIME_SECONDS
  LinkHours      \* bound of the clock

ASSUME LinkAssumption == Links # {} /\ Deadline \in [Links -> Nat]

VARIABLES
  clock,
  nonces,        \* links whose nonce has a SignedActionNonce row
  uses           \* the requests: their step, link and the time they read

linkVars == <<clock, nonces, uses>>

LinkSteps == {"idle", "checked", "purged", "spent", "acted", "failed", "rejected"}

LinkInit ==
  /\ clock = 0
  /\ nonces = {}
  /\ uses = [u \in Uses |->
               [step |-> "idle", link |-> CHOOSE l \in Links : TRUE, now |-> 0]]

LinkTick ==
  /\ clock < LinkHours
  /\ clock' = clock + 1
  /\ UNCHANGED <<nonces, uses>>

LinkGoto(u, step) == uses' = [uses EXCEPT ![u].step = step]

(* Method, signature, nonce pattern, then deadline > now and no later than   *)
(* the permitted lifetime, then the query and the body.                      *)
Usable(l, now) == now < Deadline[l] /\ Deadline[l] <= now + Lifetime

Check(u, l) ==
  /\ uses[u].step = "idle"
  /\ Usable(l, clock)
  /\ uses' = [uses EXCEPT ![u] = [step |-> "checked", link |-> l, now |-> clock]]
  /\ UNCHANGED <<clock, nonces>>

Reject(u, l) ==
  /\ uses[u].step = "idle"
  /\ uses' = [uses EXCEPT ![u] = [step |-> "rejected", link |-> l, now |-> clock]]
  /\ UNCHANGED <<clock, nonces>>

(* Plausible bug: the purge looks at when a nonce was used.                  *)
PurgeAllUsed(now) == {l \in nonces : FALSE}

Kept(now) == {l \in nonces : Deadline[l] >= now}

Purge(u) ==
  /\ uses[u].step = "checked"
  /\ nonces' = Kept(uses[u].now)
  /\ LinkGoto(u, "purged")
  /\ UNCHANGED clock

(* The insert of the unique nonce, in a transaction of its own.              *)
Spend(u) ==
  /\ uses[u].step = "purged"
  /\ nonces' = nonces \cup {uses[u].link}
  /\ LinkGoto(u, IF uses[u].link \in nonces THEN "rejected" ELSE "spent")
  /\ UNCHANGED clock

(* save_article or mark_period_read, which may fail on the way.              *)
Act(u) ==
  /\ uses[u].step = "spent"
  /\ LinkGoto(u, "acted") \/ LinkGoto(u, "failed")
  /\ UNCHANGED <<clock, nonces>>

LinkNext ==
  \/ LinkTick
  \/ \E u \in Uses, l \in Links : Check(u, l) \/ Reject(u, l)
  \/ \E u \in Uses : Purge(u) \/ Spend(u) \/ Act(u)

LinkSpec == LinkInit /\ [][LinkNext]_linkVars

-----------------------------------------------------------------------------
LinkTypeOK ==
  /\ clock \in 0..LinkHours
  /\ nonces \subseteq Links
  /\ uses \in [Uses -> [step: LinkSteps, link: Links, now: Nat]]

Begun == {"spent", "acted", "failed"}

(* A capability is single use while it is valid: until its deadline at most  *)
(* one request has begun the action of a link, whatever requests overlap,    *)
(* purge or fail, and one that failed part way is not run again.  (A request *)
(* stalled beyond the deadline can come after somebody else's purge.)        *)
SpentOnce ==
  \A u, v \in Uses :
    /\ u # v /\ uses[u].link = uses[v].link
    /\ uses[u].step \in Begun /\ uses[v].step \in Begun
    => clock > Deadline[uses[u].link]
=============================================================================
