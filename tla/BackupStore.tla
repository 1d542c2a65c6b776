----------------------------- MODULE BackupStore -----------------------------
(***************************************************************************)
(* The backup receiver's dataset (scripts/postgres_backup_receiver.py).    *)
(* One receiver lock serializes every put and every maintenance pass, so   *)
(* what can go wrong lies between two file operations of one of them: the  *)
(* process dies, or an fsync fails, and the next operation finds what is   *)
(* left.  The client (scripts/postgres_backup.py) pushes a dump and then   *)
(* its metadata, under a new id every run, and never retries.              *)
(*                                                                         *)
(* A power failure loses a suffix of the operations not yet synced: the    *)
(* only file system the receiver accepts is ZFS, which orders them.  The   *)
(* disk is then as if the process had died earlier: HolderDies covers it.   *)
(***************************************************************************)
EXTENDS Integers, FiniteSets

CONSTANTS
  MaxBackups,   \* bound: runs of the client
  DayLength, WeekLength, MonthLength,
  KeepAll, DailyFor, WeeklyFor, MonthlyFor,  \* ages that end a tier
  SafeAge,      \* ORPHAN_SAFE_AGE
  Horizon,      \* bound: the clock stops here
  MaxFaults,    \* bound: failed uploads, failed fsyncs, processes that die
  MaxRotten     \* bound: stored dumps that go bad

ASSUME PolicyAssumption ==
  /\ MaxBackups \in Nat /\ Horizon \in Nat
  /\ MaxFaults \in Nat /\ MaxRotten \in Nat
  /\ DayLength \in Nat \ {0} /\ WeekLength \in Nat \ {0}
  /\ MonthLength \in Nat \ {0}
  /\ KeepAll \in Nat /\ DailyFor \in Nat
  /\ WeeklyFor \in Nat /\ MonthlyFor \in Nat
  /\ KeepAll <= DailyFor /\ DailyFor <= WeeklyFor /\ WeeklyFor <= MonthlyFor
  /\ SafeAge \in Nat

(* Ids begin with the time their run started: they are taken in order.     *)
Ids == 1..MaxBackups
NoBackup == 0

VARIABLES
  storeTime,
  dumps,        \* ids whose dump has its final name
  metadatas,
  receipts,
  dumpAt,       \* modification times; 0 when absent
  metadataAt,
  parts,        \* temporary files: their id, kind and modification time
  rotten,       \* ids whose stored dump no longer has its checksum
  counter,      \* the receipt sequence file; 0 when it is empty
  client,       \* how far the client's run has come
  step,         \* where the lock's holder is; "idle" when nobody holds it
  backup,       \* the id it works on
  moment,       \* received_at of a put, current of a maintenance pass
  number,       \* the receipt sequence a put has taken
  doomed,       \* expired pairs a pass has still to delete
  faults,
  received,     \* history: ids that ever had a receipt,
  receivedAt,   \*   its received_at
  sequenceOf    \*   and its receipt_sequence

files == <<dumps, metadatas, receipts, dumpAt, metadataAt, parts, counter>>
holder == <<step, backup, moment, number, doomed>>
history == <<received, receivedAt, sequenceOf>>
surroundings == <<storeTime, rotten, client, faults>>
storeVars == <<files, holder, history, surroundings>>

StoreInit ==
  /\ storeTime = 0
  /\ dumps = {} /\ metadatas = {} /\ receipts = {}
  /\ dumpAt = [i \in Ids |-> 0] /\ metadataAt = [i \in Ids |-> 0]
  /\ parts = {} /\ rotten = {} /\ counter = 0
  /\ client = [i \in Ids |-> "fresh"]
  /\ step = "idle" /\ backup = NoBackup /\ moment = 0 /\ number = 0
  /\ doomed = {} /\ faults = 0
  /\ received = {}
  /\ receivedAt = [i \in Ids |-> 0] /\ sequenceOf = [i \in Ids |-> 0]

(* The process ends, whichever way: the lock is released.                  *)
Release ==
  /\ step' = "idle"
  /\ backup' = NoBackup
  /\ moment' = 0
  /\ number' = 0
  /\ doomed' = {}

At(s) == step = s

Fault == faults < MaxFaults /\ faults' = faults + 1

Go(s) == step' = s /\ UNCHANGED <<backup, moment, number, doomed>>

PartOf(i, kind) == [id |-> i, kind |-> kind, at |-> storeTime]
MyParts == {p \in parts : p.id = backup}

----------------------------------------------------------------------------
(* _put: one upload of a dump, then of its metadata.                       *)

(* A run of the client starts its upload of the dump: _put refuses a name  *)
(* that exists and opens a temporary file.                                 *)
PutDump(i) ==
  /\ At("idle")
  /\ client[i] = "fresh"
  /\ \A j \in Ids : j < i => client[j] # "fresh"
  /\ i \notin dumps
  /\ client' = [client EXCEPT ![i] = "dump_sent"]
  /\ step' = "receiving_dump" /\ backup' = i
  /\ parts' = parts \cup {PartOf(i, "dump")}
  /\ UNCHANGED <<dumps, metadatas, receipts, dumpAt, metadataAt, counter,
                 moment, number, doomed, history, storeTime, rotten, faults>>

(* The client goes on to the metadata once the dump's put has succeeded.   *)
PutMetadata(i) ==
  /\ At("idle")
  /\ client[i] = "dump_stored"
  /\ i \notin metadatas
  /\ client' = [client EXCEPT ![i] = "metadata_sent"]
  /\ step' = "receiving_metadata" /\ backup' = i
  /\ parts' = parts \cup {PartOf(i, "metadata")}
  /\ UNCHANGED <<dumps, metadatas, receipts, dumpAt, metadataAt, counter,
                 moment, number, doomed, history, storeTime, rotten, faults>>

(* The finally clause: the temporary files of this put go, what has its    *)
(* final name stays.                                                       *)
DropParts ==
  /\ parts' = parts \ MyParts
  /\ Release
  /\ UNCHANGED <<dumps, metadatas, receipts, dumpAt, metadataAt, counter,
                 history, storeTime, rotten>>

(* A short, long or damaged upload.                                        *)
UploadFails ==
  /\ step \in {"receiving_dump", "receiving_metadata"}
  /\ Fault
  /\ DropParts
  /\ UNCHANGED client

(* The last block is written and the dump gets its final name, a second    *)
(* one for the temporary file.                                             *)
LinkDump ==
  /\ At("receiving_dump")
  /\ dumps' = dumps \cup {backup}
  /\ dumpAt' = [dumpAt EXCEPT ![backup] = storeTime]
  /\ parts' = (parts \ MyParts) \cup {PartOf(backup, "dump")}
  /\ Go("dump_linked")
  /\ UNCHANGED <<metadatas, receipts, metadataAt, counter, history, surroundings>>

(* _hash_regular of the stored dump against the metadata's checksum.       *)
DumpMatches(i) == i \in dumps /\ i \notin rotten

LinkMetadata ==
  /\ At("receiving_metadata")
  /\ DumpMatches(backup)
  /\ metadatas' = metadatas \cup {backup}
  /\ metadataAt' = [metadataAt EXCEPT ![backup] = storeTime]
  /\ parts' = (parts \ MyParts) \cup {PartOf(backup, "metadata")}
  /\ Go("metadata_linked")
  /\ UNCHANGED <<dumps, receipts, dumpAt, counter, history, surroundings>>

RejectMetadata ==
  /\ At("receiving_metadata")
  /\ ~DumpMatches(backup)
  /\ DropParts
  /\ UNCHANGED <<client, faults>>

(* fsync of the directory fails: the final name is taken back.             *)
LinkFails ==
  /\ step \in {"dump_linked", "metadata_linked"}
  /\ Fault
  /\ dumps' = IF At("dump_linked") THEN dumps \ {backup} ELSE dumps
  /\ dumpAt' = IF At("dump_linked") THEN [dumpAt EXCEPT ![backup] = 0]
               ELSE dumpAt
  /\ metadatas' = metadatas \ {backup}
  /\ metadataAt' = [metadataAt EXCEPT ![backup] = 0]
  /\ parts' = parts \ MyParts
  /\ Release
  /\ UNCHANGED <<receipts, counter, history, storeTime, rotten, client>>

(* The dump is durable: the put succeeds.                                  *)
DumpStored ==
  /\ At("dump_linked")
  /\ client' = [client EXCEPT ![backup] = "dump_stored"]
  /\ DropParts
  /\ UNCHANGED faults

----------------------------------------------------------------------------
(* _publish_receipt, the last part of a metadata put.                      *)

(* The metadata is durable: received_at is read from the clock.            *)
StampReceipt ==
  /\ At("metadata_linked")
  /\ moment' = storeTime
  /\ step' = "stamped"
  /\ UNCHANGED <<files, backup, number, doomed, history, surroundings>>

(* Defect: the sequence file alone is trusted.                             *)
SequencesInFile == {counter}

SequencesOnDisk == {counter} \cup {sequenceOf[i] : i \in receipts}

(* _next_receipt_sequence: one more than the file and every receipt, and   *)
(* the file is emptied before it is written.                               *)
TakeSequence ==
  /\ At("stamped")
  /\ \E n \in SequencesOnDisk :
        /\ \A m \in SequencesOnDisk : m <= n
        /\ number' = n + 1
  /\ counter' = 0
  /\ step' = "counting"
  /\ UNCHANGED <<dumps, metadatas, receipts, dumpAt, metadataAt, parts,
                 backup, moment, doomed, history, surroundings>>

WriteSequence ==
  /\ At("counting")
  /\ counter' = number
  /\ Go("counted")
  /\ UNCHANGED <<dumps, metadatas, receipts, dumpAt, metadataAt, parts,
                 history, surroundings>>

(* The receipt is written to a temporary file ...                          *)
WriteReceipt ==
  /\ At("counted")
  /\ parts' = parts \cup {PartOf(backup, "receipt")}
  /\ Go("receipt_written")
  /\ UNCHANGED <<dumps, metadatas, receipts, dumpAt, metadataAt, counter,
                 history, surroundings>>

(* ... and gets its final name.                                            *)
LinkReceipt ==
  /\ At("receipt_written")
  /\ receipts' = receipts \cup {backup}
  /\ received' = received \cup {backup}
  /\ receivedAt' = [receivedAt EXCEPT ![backup] = moment]
  /\ sequenceOf' = [sequenceOf EXCEPT ![backup] = number]
  /\ Go("receipt_linked")
  /\ UNCHANGED <<dumps, metadatas, dumpAt, metadataAt, parts, counter, surroundings>>

(* An I/O error before the receipt has its name.  The metadata was         *)
(* committed before: it stays, and the pair waits to be swept.             *)
ReceiptFails ==
  /\ step \in {"stamped", "counting", "counted", "receipt_written"}
  /\ Fault
  /\ DropParts
  /\ UNCHANGED client

(* fsync of the directory fails after the link: the receipt is taken back. *)
ReceiptLinkFails ==
  /\ At("receipt_linked")
  /\ Fault
  /\ receipts' = receipts \ {backup}
  /\ received' = received \ {backup}
  /\ receivedAt' = [receivedAt EXCEPT ![backup] = 0]
  /\ sequenceOf' = [sequenceOf EXCEPT ![backup] = 0]
  /\ parts' = parts \ MyParts
  /\ Release
  /\ UNCHANGED <<dumps, metadatas, dumpAt, metadataAt, counter, storeTime, rotten,
                 client>>

ReceiptStored ==
  /\ At("receipt_linked")
  /\ DropParts
  /\ UNCHANGED <<client, faults>>

----------------------------------------------------------------------------
(* retention_partition.                                                    *)

Tier(i, t) ==
  LET age == t - receivedAt[i] IN
  CASE age <= KeepAll                        -> "all"
    [] age > KeepAll /\ age <= DailyFor      -> "day"
    [] age > DailyFor /\ age <= WeeklyFor    -> "week"
    [] age > WeeklyFor /\ age <= MonthlyFor  -> "month"
    [] OTHER                                 -> "none"

BucketLength == [day |-> DayLength, week |-> WeekLength, month |-> MonthLength]

InOneBucket(i, j, length) == receivedAt[i] \div length = receivedAt[j] \div length

SameBucket(i, j, t) ==
  /\ Tier(i, t) = Tier(j, t)
  /\ Tier(i, t) \in DOMAIN BucketLength
  /\ InOneBucket(i, j, BucketLength[Tier(i, t)])

(* _validated_pair accepts the receipt, the metadata and the dump.         *)
ValidPairs == {i \in receipts : i \in metadatas /\ DumpMatches(i)}

Earlier(i, j) == sequenceOf[i] < sequenceOf[j]

(* Defect: the newest pair gets no special treatment.                      *)
ExpiredNewestToo(t) ==
  {i \in ValidPairs :
     \/ Tier(i, t) = "none"
     \/ \E j \in ValidPairs : Earlier(j, i) /\ SameBucket(i, j, t)}

(* Defect: a bucket keeps its latest point.                                *)
ExpiredEarlier(t) ==
  {i \in ValidPairs :
     /\ \E j \in ValidPairs : Earlier(i, j)
     /\ \/ Tier(i, t) = "none"
        \/ \E j \in ValidPairs : Earlier(i, j) /\ SameBucket(i, j, t)}

(* Every pair but the newest is deleted when it is older than the last     *)
(* tier, or when its bucket has an earlier point.  The newest has no       *)
(* earlier pair to displace: taking it out of the buckets changes nothing  *)
(* for the others.                                                         *)
Expired(t) ==
  {i \in ValidPairs :
     /\ \E j \in ValidPairs : Earlier(i, j)
     /\ \/ Tier(i, t) = "none"
        \/ \E j \in ValidPairs : Earlier(j, i) /\ SameBucket(i, j, t)}

----------------------------------------------------------------------------
(* _maintenance_retention.                                                 *)

StartMaintenance ==
  /\ At("idle")
  /\ step' = "retention"
  /\ moment' = storeTime
  /\ doomed' = Expired(storeTime)
  /\ UNCHANGED <<files, backup, number, history, surroundings>>

(* Defect: the dump of an expired pair is deleted first.                   *)
UnlinkDumpFirst ==
  /\ At("retention")
  /\ \E i \in doomed :
        /\ dumps' = dumps \ {i}
        /\ dumpAt' = [dumpAt EXCEPT ![i] = 0]
        /\ backup' = i
  /\ step' = "receipt_unlinked"
  /\ UNCHANGED <<metadatas, receipts, metadataAt, parts, counter, moment,
                 number, doomed, history, surroundings>>

UnlinkReceipt ==
  /\ At("retention")
  /\ \E i \in doomed : receipts' = receipts \ {i} /\ backup' = i
  /\ step' = "receipt_unlinked"
  /\ UNCHANGED <<dumps, metadatas, dumpAt, metadataAt, parts, counter, moment,
                 number, doomed, history, surroundings>>

UnlinkMetadata ==
  /\ At("receipt_unlinked")
  /\ metadatas' = metadatas \ {backup}
  /\ metadataAt' = [metadataAt EXCEPT ![backup] = 0]
  /\ Go("metadata_unlinked")
  /\ UNCHANGED <<dumps, receipts, dumpAt, parts, counter, history, surroundings>>

UnlinkDump ==
  /\ At("metadata_unlinked")
  /\ dumps' = dumps \ {backup}
  /\ dumpAt' = [dumpAt EXCEPT ![backup] = 0]
  /\ doomed' = doomed \ {backup}
  /\ step' = "retention" /\ backup' = NoBackup
  /\ UNCHANGED <<metadatas, receipts, metadataAt, parts, counter, moment,
                 number, history, surroundings>>

RetentionDone ==
  /\ At("retention")
  /\ doomed = {}
  /\ Go("sweeping_parts")
  /\ UNCHANGED <<files, history, surroundings>>

(* Old enough at the moment the pass began.                                *)
Stale(t) == moment - t >= SafeAge

StaleParts == {p \in parts : Stale(p.at)}

SweepPart ==
  /\ At("sweeping_parts")
  /\ \E p \in StaleParts : parts' = parts \ {p}
  /\ UNCHANGED <<dumps, metadatas, receipts, dumpAt, metadataAt, counter,
                 holder, history, surroundings>>

PartsSwept ==
  /\ At("sweeping_parts")
  /\ StaleParts = {}
  /\ Go("sweeping_dumps")
  /\ UNCHANGED <<files, history, surroundings>>

(* Defect: only a dump that has no metadata is an orphan.                  *)
OrphansWithoutMetadata ==
  {i \in (dumps \ receipts) \ metadatas : Stale(dumpAt[i])}

(* A dump without a receipt whose newest file is stale.  A received pair   *)
(* that is no longer valid is left for the administrator.                  *)
Orphans ==
  {i \in dumps \ receipts : Stale(dumpAt[i]) /\ Stale(metadataAt[i])}

SweepMetadata ==
  /\ At("sweeping_dumps")
  /\ \E i \in Orphans \cap metadatas :
        /\ metadatas' = metadatas \ {i}
        /\ metadataAt' = [metadataAt EXCEPT ![i] = 0]
        /\ backup' = i
  /\ step' = "sweeping_dump"
  /\ UNCHANGED <<dumps, receipts, dumpAt, parts, counter, moment, number,
                 doomed, history, surroundings>>

SweepDump(i) ==
  /\ i \in Orphans \ metadatas
  /\ \/ At("sweeping_dumps")
     \/ At("sweeping_dump") /\ i = backup
  /\ dumps' = dumps \ {i}
  /\ dumpAt' = [dumpAt EXCEPT ![i] = 0]
  /\ step' = "sweeping_dumps" /\ backup' = NoBackup
  /\ UNCHANGED <<metadatas, receipts, metadataAt, parts, counter, moment,
                 number, doomed, history, surroundings>>

MaintenanceDone ==
  /\ At("sweeping_dumps")
  /\ Orphans = {}
  /\ Release
  /\ UNCHANGED <<files, history, surroundings>>

----------------------------------------------------------------------------
(* The holder of the lock dies between two file operations.                *)
HolderDies ==
  /\ ~At("idle")
  /\ Fault
  /\ Release
  /\ UNCHANGED <<files, history, storeTime, rotten, client>>

(* A stored dump goes bad while nobody works on the dataset.               *)
Rot(i) ==
  /\ At("idle")
  /\ i \in dumps \ rotten
  /\ Cardinality(rotten) < MaxRotten
  /\ rotten' = rotten \cup {i}
  /\ UNCHANGED <<files, holder, history, storeTime, client, faults>>

(* Next to the tiers, only an upload takes time.                           *)
StoreTick ==
  /\ step \in {"idle", "receiving_dump", "receiving_metadata"}
  /\ storeTime < Horizon
  /\ storeTime' = storeTime + 1
  /\ UNCHANGED <<files, holder, history, rotten, client, faults>>

(* What the holder of the lock does next when nothing goes wrong.          *)
Proceed ==
  \/ LinkDump \/ DumpStored
  \/ LinkMetadata \/ RejectMetadata
  \/ StampReceipt \/ TakeSequence \/ WriteSequence
  \/ WriteReceipt \/ LinkReceipt \/ ReceiptStored
  \/ UnlinkReceipt \/ UnlinkMetadata \/ UnlinkDump \/ RetentionDone
  \/ SweepPart \/ PartsSwept
  \/ SweepMetadata \/ (\E i \in Ids : SweepDump(i)) \/ MaintenanceDone

Fail == UploadFails \/ LinkFails \/ ReceiptFails \/ ReceiptLinkFails \/ HolderDies

StoreNext ==
  \/ \E i \in Ids : PutDump(i) \/ PutMetadata(i) \/ Rot(i)
  \/ StartMaintenance
  \/ Proceed
  \/ Fail
  \/ StoreTick

StoreSpec == StoreInit /\ [][StoreNext]_storeVars

(* Cron starts maintenance again and again, and every operation ends: the  *)
(* client's ssh session ends, whole or cut.  Nothing obliges a client to   *)
(* come back with its metadata.                                            *)
FairStoreSpec ==
  StoreSpec /\ WF_storeVars(StartMaintenance) /\ WF_storeVars(Proceed) /\ WF_storeVars(StoreTick)

----------------------------------------------------------------------------
Steps ==
  {"idle", "receiving_dump", "dump_linked", "receiving_metadata",
   "metadata_linked", "stamped", "counting", "counted", "receipt_written",
   "receipt_linked", "retention", "receipt_unlinked", "metadata_unlinked",
   "sweeping_parts", "sweeping_dumps", "sweeping_dump"}

(* The steps at which the holder works on no single backup.                *)
WithoutBackup == {"idle", "retention", "sweeping_parts", "sweeping_dumps"}

PartFiles == [id : Ids, kind : {"dump", "metadata", "receipt"}, at : Nat]

DataTyped ==
  /\ storeTime \in Nat /\ counter \in Nat /\ moment \in Nat /\ number \in Nat
  /\ faults \in Nat
  /\ dumps \subseteq Ids /\ metadatas \subseteq Ids /\ receipts \subseteq Ids
  /\ received \subseteq Ids /\ rotten \subseteq Ids
  /\ dumpAt \in [Ids -> Nat] /\ metadataAt \in [Ids -> Nat]
  /\ receivedAt \in [Ids -> Nat] /\ sequenceOf \in [Ids -> Nat]
  /\ parts \subseteq PartFiles
  /\ client \in
       [Ids -> {"fresh", "dump_sent", "dump_stored", "metadata_sent"}]

HolderTyped ==
  /\ step \in Steps
  /\ backup \in Ids \cup {NoBackup}
  /\ (backup = NoBackup) <=> (step \in WithoutBackup)
  /\ doomed \subseteq Ids
  /\ (doomed # {}) =>
       step \in {"retention", "receipt_unlinked", "metadata_unlinked"}

(* The type invariant.  A holder that works on a backup names it, and only *)
(* retention has pairs left to delete.                                     *)
StoreTypeOK == DataTyped /\ HolderTyped

(* A receipt stands on its metadata and its dump, and metadata on its      *)
(* dump, at every moment at which the process may die: a receipt without   *)
(* them would be an invalid pair nobody deletes, and metadata without a    *)
(* dump is never found by the sweep, which goes over dumps.                *)
PairsNested == receipts \subseteq metadatas /\ metadatas \subseteq dumps

(* A new receipt has a greater sequence than every receipt there ever was, *)
(* those deleted since included, whatever faults emptied the sequence     *)
(* file: the order of sequences is the order of receipt.                   *)
SequenceGrows ==
  [][\A i \in received' \ received, j \in received :
        sequenceOf'[i] > sequenceOf[j]]_storeVars

(* No step loses the newest recovery point: a received pair whose receipt  *)
(* goes leaves a newer valid pair on disk.                                 *)
KeepsNewest ==
  \A i \in (receipts \ receipts') \cap received' :
     \E j \in ValidPairs' : sequenceOf'[j] > sequenceOf'[i]

NewestSurvives == [][KeepsNewest]_storeVars

FirstOf(i, length) ==
  \A j \in received : InOneBucket(i, j, length) => ~Earlier(j, i)

(* What the tiers promise, over all the passes made while a point ages: a  *)
(* received pair whose dump is sound is on disk up to the end of the first *)
(* tier; after that up to the end of the daily tier when it was the first  *)
(* of its day, of the weekly tier when it was also the first of its week,  *)
(* and of the monthly tier when it was also the first of its month.        *)
TierPointsKept ==
  \A i \in received \ rotten :
    LET tier == Tier(i, storeTime) IN
    \/ i \in receipts
    \/ tier = "none"
    \/ tier # "all" /\ ~FirstOf(i, DayLength)
    \/ tier \in {"week", "month"} /\ ~FirstOf(i, WeekLength)
    \/ tier = "month" /\ ~FirstOf(i, MonthLength)

OldEnough(t) == storeTime - t >= SafeAge

LeftoverAged ==
  \/ \E p \in parts : OldEnough(p.at)
  \/ \E i \in dumps \ receipts :
        OldEnough(dumpAt[i]) /\ OldEnough(metadataAt[i])

(* What an interrupted put or an interrupted pass leaves behind does not   *)
(* stay: whenever there is a temporary file or an unreceipted pair older   *)
(* than the safe age, there comes a moment without one.                    *)
LeftoversSwept == LeftoverAged ~> ~LeftoverAged

=============================================================================
