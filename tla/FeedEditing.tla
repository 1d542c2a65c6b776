---------------------------- MODULE FeedEditing ----------------------------
(***************************************************************************)
(* Editing a feed through the API while it is being refreshed              *)
(* (feeds/api.py, feed_detail_api PATCH and feed_collection POST of a URL  *)
(* already subscribed).  Both handlers read the whole row, change a few    *)
(* fields of the instance, and save() it: without update_fields and        *)
(* without a lock, the save writes every column back as it was read,       *)
(* refresh_generation and the failure status included.                     *)
(***************************************************************************)
EXTENDS FeedRefresh

CONSTANTS
  Editors,   \* API requests that edit feeds
  MaxEdits   \* bound: edits that are saved

VARIABLES
  editing,   \* the feed each editor is changing, or NoFeed
  draft,     \* the row as each editor read it, or UnreadRow
  edits

UnreadRow == [active |-> TRUE, generation |-> 0, failures |-> 0,
              error |-> "none", retryAt |-> NoTime]

editVars == <<editing, draft, edits>>

(* The handler loads the feed; a POST without a title then fetches the     *)
(* feed's metadata over HTTP before it loads it.                           *)
OpenEdit(e, f) ==
  /\ editing[e] = NoFeed
  /\ edits < MaxEdits
  /\ editing' = [editing EXCEPT ![e] = f]
  /\ draft' = [draft EXCEPT ![e] = feed[f]]
  /\ UNCHANGED <<edits, vars>>

(* Defect: the save drops the error of the row it read.                    *)
SaveEditWithoutError(e) ==
  /\ editing[e] # NoFeed
  /\ \E active \in BOOLEAN :
       feed' = [feed EXCEPT ![editing[e]] =
                  [draft[e] EXCEPT !.active = active, !.error = "none"]]
  /\ editing' = [editing EXCEPT ![e] = NoFeed]
  /\ draft' = [draft EXCEPT ![e] = UnreadRow]
  /\ edits' = edits + 1
  /\ UNCHANGED <<articles, settled, refreshers, world>>

(* Any field the request names may change; is_active is the one refreshing *)
(* reads.                                                                  *)
SaveEdit(e) ==
  /\ editing[e] # NoFeed
  /\ \E active \in BOOLEAN :
       feed' = [feed EXCEPT ![editing[e]] = [draft[e] EXCEPT !.active = active]]
  /\ editing' = [editing EXCEPT ![e] = NoFeed]
  /\ draft' = [draft EXCEPT ![e] = UnreadRow]
  /\ edits' = edits + 1
  /\ UNCHANGED <<articles, settled, refreshers, world>>

(* Validation fails, or the feed_url is taken: nothing is written.         *)
AbandonEdit(e) ==
  /\ editing[e] # NoFeed
  /\ editing' = [editing EXCEPT ![e] = NoFeed]
  /\ draft' = [draft EXCEPT ![e] = UnreadRow]
  /\ UNCHANGED <<edits, vars>>

EditInit ==
  /\ Init
  /\ editing = [e \in Editors |-> NoFeed]
  /\ draft = [e \in Editors |-> UnreadRow]
  /\ edits = 0

EditNext ==
  \/ Next /\ UNCHANGED editVars
  \/ \E e \in Editors :
       \/ \E f \in Feeds : OpenEdit(e, f)
       \/ SaveEdit(e)
       \/ AbandonEdit(e)

EditSpec == EditInit /\ [][EditNext]_<<vars, editVars>>

----------------------------------------------------------------------------
(* However stale the row an editor writes back, the columns of a feed's    *)
(* status still belong to one outcome: error, failure count and backoff    *)
(* agree in the row and in every row an editor holds.                      *)
StatusCoherentUnderEdits ==
  /\ StatusCoherent
  /\ \A e \in Editors :
       /\ draft[e].error = "none" <=> draft[e].failures = 0
       /\ draft[e].error = "none" <=> draft[e].retryAt = NoTime
=============================================================================
