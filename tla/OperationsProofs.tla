-------------------------- MODULE OperationsProofs --------------------------
(***************************************************************************)
(* Proofs about what runs beside the database.  Wherever the receiver dies, *)
(* stored pairs stay nested and sequences grow, and no pass loses the       *)
(* newest recovery point or a point its tier promises, for any number of    *)
(* backups, faults and rotten dumps, any clock and any ages of the tiers.   *)
(* The check of the backups leaves its administrators informed; the restore *)
(* drill leaves nothing behind that it could remove; the download of a feed *)
(* ends in time whatever the policy, the server and the network do. And the *)
(* disk that was planned for the recovery points is enough on any day.      *)
(***************************************************************************)
EXTENDS BackupStore, FeedFetch, BackupMonitor, RestoreVerification,
        RetentionCapacity, FiniteSetTheorems, WellFoundedInduction, TLAPS

-----------------------------------------------------------------------------
(* Stored backups                                                           *)

Receipting ==
  {"stamped", "counting", "counted", "receipt_written", "receipt_linked"}

(* What the holder's place says about the backup it works on.              *)
HolderInv ==
  /\ receipts \subseteq received
  /\ \A i \in received : client[i] = "metadata_sent"
  /\ step \in {"receiving_dump", "dump_linked"} => client[backup] = "dump_sent"
  /\ step \in Receipting \cup {"receiving_metadata", "metadata_linked"} =>
       client[backup] = "metadata_sent"
  /\ step \in (Receipting \ {"receipt_linked"})
                \cup {"receiving_metadata", "metadata_linked"} =>
       backup \notin received
  /\ step \in Receipting \cup {"metadata_linked"} => backup \in metadatas
  /\ step = "receipt_linked" => backup \in receipts
  /\ step \in {"receipt_unlinked", "metadata_unlinked"} =>
       backup \in doomed /\ backup \notin receipts
  /\ step = "metadata_unlinked" => backup \notin metadatas
  /\ step = "sweeping_dump" => backup \notin receipts

NestInv == HolderInv /\ PairsNested

(* Some pair of `kept` has a sequence no pair of `known` exceeds.          *)
Tops(kept, known) ==
  \E k \in kept : \A j \in known : sequenceOf[j] <= sequenceOf[k]

(* The latest receipt of all is on disk and is not about to be deleted; a  *)
(* sequence that has been taken is greater than all of them.               *)
SequenceInv ==
  /\ received # {} => Tops(receipts \ doomed, received)
  /\ step \in {"counting", "counted", "receipt_written"} =>
       \A j \in received : sequenceOf[j] < number
  /\ step = "receipt_linked" =>
       /\ \A j \in received \ {backup} : sequenceOf[j] < sequenceOf[backup]
       /\ received \ {backup} # {} =>
            Tops(receipts \ {backup}, received \ {backup})

(* A pair is deleted only while a later valid one stays.                   *)
DoomedInv ==
  /\ doomed \subseteq received \ rotten
  /\ \A i \in doomed : \E j \in ValidPairs \ doomed : Earlier(i, j)

(* No tier that is still open promises the pair i.                         *)
Released(i) ==
  LET tier == Tier(i, storeTime) IN
  \/ tier = "none"
  \/ tier # "all" /\ ~FirstOf(i, DayLength)
  \/ tier \in {"week", "month"} /\ ~FirstOf(i, WeekLength)
  \/ tier = "month" /\ ~FirstOf(i, MonthLength)

TierInv ==
  /\ \A i \in doomed : Released(i)
  /\ \A i \in received \ rotten : i \in receipts \/ Released(i)

LEMMA IdsAreBackups == NoBackup \notin Ids
BY PolicyAssumption DEF NoBackup, Ids

LEMMA PartTyped ==
  ASSUME storeTime \in Nat, NEW i \in Ids,
         NEW kind \in {"dump", "metadata", "receipt"}
  PROVE  PartOf(i, kind) \in PartFiles
BY DEF PartOf, PartFiles

(* A holder at a step that works on a backup names it.                     *)
LEMMA AtWork ==
  ASSUME HolderTyped, step \notin WithoutBackup
  PROVE  backup \in Ids
BY DEF HolderTyped

LEMMA DataStep ==
  ASSUME StoreTypeOK, [StoreNext]_storeVars
  PROVE  DataTyped'
<1> USE DEF StoreTypeOK, DataTyped, files, holder, history, surroundings
<1> step \notin WithoutBackup => backup \in Ids
  BY AtWork
<1> USE DEF WithoutBackup
<1>1. ASSUME NEW i \in Ids, PutDump(i)
      PROVE  DataTyped'
  BY <1>1, PartTyped DEF PutDump, At
<1>2. ASSUME NEW i \in Ids, PutMetadata(i)
      PROVE  DataTyped'
  BY <1>2, PartTyped DEF PutMetadata, At
<1>3. ASSUME NEW i \in Ids, Rot(i)
      PROVE  DataTyped'
  BY <1>3 DEF Rot, At
<1>4. ASSUME NEW i \in Ids, SweepDump(i)
      PROVE  DataTyped'
  BY <1>4 DEF SweepDump, At, Orphans
<1>5. CASE LinkDump
  BY <1>5, PartTyped DEF LinkDump, Go, At, MyParts
<1>6. CASE DumpStored
  BY <1>6 DEF DumpStored, DropParts, Release, At, MyParts
<1>7. CASE LinkMetadata
  BY <1>7, PartTyped DEF LinkMetadata, Go, At, MyParts
<1>8. CASE RejectMetadata
  BY <1>8 DEF RejectMetadata, DropParts, Release, At, MyParts
<1>9. CASE StampReceipt
  BY <1>9 DEF StampReceipt, At
<1>10. CASE TakeSequence
  BY <1>10 DEF TakeSequence, At, SequencesOnDisk
<1>11. CASE WriteSequence
  BY <1>11 DEF WriteSequence, Go, At
<1>12. CASE WriteReceipt
  BY <1>12, PartTyped DEF WriteReceipt, Go, At
<1>13. CASE LinkReceipt
  BY <1>13 DEF LinkReceipt, Go, At
<1>14. CASE ReceiptStored
  BY <1>14 DEF ReceiptStored, DropParts, Release, At, MyParts
<1>15. CASE StartMaintenance
  BY <1>15 DEF StartMaintenance, At, Expired, ValidPairs
<1>16. CASE UnlinkReceipt
  BY <1>16 DEF UnlinkReceipt, At
<1>17. CASE UnlinkMetadata
  BY <1>17 DEF UnlinkMetadata, Go, At
<1>18. CASE UnlinkDump
  BY <1>18 DEF UnlinkDump, At
<1>19. CASE RetentionDone
  BY <1>19 DEF RetentionDone, Go, At
<1>20. CASE SweepPart
  BY <1>20 DEF SweepPart, At, StaleParts
<1>21. CASE PartsSwept
  BY <1>21 DEF PartsSwept, Go, At
<1>22. CASE SweepMetadata
  BY <1>22 DEF SweepMetadata, At, Orphans
<1>23. CASE MaintenanceDone
  BY <1>23 DEF MaintenanceDone, Release, At
<1>24. CASE UploadFails
  BY <1>24 DEF UploadFails, DropParts, Release, Fault, MyParts
<1>25. CASE LinkFails
  BY <1>25 DEF LinkFails, Release, Fault, At, MyParts
<1>26. CASE ReceiptFails
  BY <1>26 DEF ReceiptFails, DropParts, Release, Fault, MyParts
<1>27. CASE ReceiptLinkFails
  BY <1>27 DEF ReceiptLinkFails, Release, Fault, At, MyParts
<1>28. CASE HolderDies
  BY <1>28 DEF HolderDies, Release, Fault, At
<1>29. CASE StoreTick
  BY <1>29 DEF StoreTick, At
<1>30. CASE UNCHANGED storeVars
  BY <1>30 DEF storeVars
<1>31. QED
  BY <1>1, <1>2, <1>3, <1>4, <1>5, <1>6, <1>7, <1>8, <1>9, <1>10, <1>11,
     <1>12, <1>13, <1>14, <1>15, <1>16, <1>17, <1>18, <1>19, <1>20,
     <1>21, <1>22, <1>23, <1>24, <1>25, <1>26, <1>27, <1>28, <1>29, <1>30
     DEF StoreNext, Proceed, Fail

LEMMA HolderStep ==
  ASSUME StoreTypeOK, [StoreNext]_storeVars
  PROVE  HolderTyped'
<1> USE IdsAreBackups
    DEF StoreTypeOK, HolderTyped, Steps, WithoutBackup, holder, files, history,
        surroundings
<1>1. ASSUME NEW i \in Ids, PutDump(i)
      PROVE  HolderTyped'
  BY <1>1, PartTyped DEF PutDump, At
<1>2. ASSUME NEW i \in Ids, PutMetadata(i)
      PROVE  HolderTyped'
  BY <1>2, PartTyped DEF PutMetadata, At
<1>3. ASSUME NEW i \in Ids, Rot(i)
      PROVE  HolderTyped'
  BY <1>3 DEF Rot, At
<1>4. ASSUME NEW i \in Ids, SweepDump(i)
      PROVE  HolderTyped'
  BY <1>4 DEF SweepDump, At, Orphans
<1>5. CASE LinkDump
  BY <1>5, PartTyped DEF LinkDump, Go, At, MyParts
<1>6. CASE DumpStored
  BY <1>6 DEF DumpStored, DropParts, Release, At, MyParts
<1>7. CASE LinkMetadata
  BY <1>7, PartTyped DEF LinkMetadata, Go, At, MyParts
<1>8. CASE RejectMetadata
  BY <1>8 DEF RejectMetadata, DropParts, Release, At, MyParts
<1>9. CASE StampReceipt
  BY <1>9 DEF StampReceipt, At
<1>10. CASE TakeSequence
  BY <1>10 DEF TakeSequence, At, SequencesOnDisk
<1>11. CASE WriteSequence
  BY <1>11 DEF WriteSequence, Go, At
<1>12. CASE WriteReceipt
  BY <1>12, PartTyped DEF WriteReceipt, Go, At
<1>13. CASE LinkReceipt
  BY <1>13 DEF LinkReceipt, Go, At
<1>14. CASE ReceiptStored
  BY <1>14 DEF ReceiptStored, DropParts, Release, At, MyParts
<1>15. CASE StartMaintenance
  BY <1>15 DEF StartMaintenance, At, Expired, ValidPairs, DataTyped
<1>16. CASE UnlinkReceipt
  BY <1>16 DEF UnlinkReceipt, At
<1>17. CASE UnlinkMetadata
  BY <1>17 DEF UnlinkMetadata, Go, At
<1>18. CASE UnlinkDump
  BY <1>18 DEF UnlinkDump, At
<1>19. CASE RetentionDone
  BY <1>19 DEF RetentionDone, Go, At
<1>20. CASE SweepPart
  BY <1>20 DEF SweepPart, At, StaleParts
<1>21. CASE PartsSwept
  BY <1>21 DEF PartsSwept, Go, At
<1>22. CASE SweepMetadata
  BY <1>22 DEF SweepMetadata, At, Orphans, DataTyped
<1>23. CASE MaintenanceDone
  BY <1>23 DEF MaintenanceDone, Release, At
<1>24. CASE UploadFails
  BY <1>24 DEF UploadFails, DropParts, Release, Fault, MyParts
<1>25. CASE LinkFails
  BY <1>25 DEF LinkFails, Release, Fault, At, MyParts
<1>26. CASE ReceiptFails
  BY <1>26 DEF ReceiptFails, DropParts, Release, Fault, MyParts
<1>27. CASE ReceiptLinkFails
  BY <1>27 DEF ReceiptLinkFails, Release, Fault, At, MyParts
<1>28. CASE HolderDies
  BY <1>28 DEF HolderDies, Release, Fault, At
<1>29. CASE StoreTick
  BY <1>29 DEF StoreTick, At
<1>30. CASE UNCHANGED storeVars
  BY <1>30 DEF storeVars
<1>31. QED
  BY <1>1, <1>2, <1>3, <1>4, <1>5, <1>6, <1>7, <1>8, <1>9, <1>10, <1>11,
     <1>12, <1>13, <1>14, <1>15, <1>16, <1>17, <1>18, <1>19, <1>20,
     <1>21, <1>22, <1>23, <1>24, <1>25, <1>26, <1>27, <1>28, <1>29, <1>30
     DEF StoreNext, Proceed, Fail

THEOREM TypeCorrect == StoreSpec => []StoreTypeOK
<1>1. StoreInit => StoreTypeOK
  BY IdsAreBackups
     DEF StoreInit, StoreTypeOK, DataTyped, HolderTyped, Steps, WithoutBackup
<1>2. StoreTypeOK /\ [StoreNext]_storeVars => StoreTypeOK'
  BY DataStep, HolderStep DEF StoreTypeOK
<1>3. QED
  BY <1>1, <1>2, PTL DEF StoreSpec

LEMMA HolderInvStep ==
  ASSUME StoreTypeOK, NestInv, [StoreNext]_storeVars
  PROVE  HolderInv'
<1> USE DEF NestInv, PairsNested, HolderInv, Receipting, files, holder,
        history, surroundings
<1> step \notin WithoutBackup => backup \in Ids
  BY AtWork DEF StoreTypeOK
<1> client \in
      [Ids -> {"fresh", "dump_sent", "dump_stored", "metadata_sent"}]
  BY DEF StoreTypeOK, DataTyped
<1> (doomed # {}) =>
      step \in {"retention", "receipt_unlinked", "metadata_unlinked"}
  BY DEF StoreTypeOK, HolderTyped
<1> USE DEF WithoutBackup
<1>1. ASSUME NEW i \in Ids, PutDump(i)
      PROVE  HolderInv'
  BY <1>1 DEF PutDump, At
<1>2. ASSUME NEW i \in Ids, PutMetadata(i)
      PROVE  HolderInv'
  BY <1>2 DEF PutMetadata, At
<1>3. ASSUME NEW i \in Ids, Rot(i)
      PROVE  HolderInv'
  BY <1>3 DEF Rot, At
<1>4. ASSUME NEW i \in Ids, SweepDump(i)
      PROVE  HolderInv'
  BY <1>4 DEF SweepDump, At, Orphans
<1>5. CASE LinkDump
  BY <1>5 DEF LinkDump, Go, At
<1>6. CASE DumpStored
  BY <1>6 DEF DumpStored, DropParts, Release, At
<1>7. CASE LinkMetadata
  BY <1>7 DEF LinkMetadata, Go, At
<1>8. CASE RejectMetadata
  BY <1>8 DEF RejectMetadata, DropParts, Release, At
<1>9. CASE StampReceipt
  BY <1>9 DEF StampReceipt, At
<1>10. CASE TakeSequence
  BY <1>10 DEF TakeSequence, At, SequencesOnDisk
<1>11. CASE WriteSequence
  BY <1>11 DEF WriteSequence, Go, At
<1>12. CASE WriteReceipt
  BY <1>12 DEF WriteReceipt, Go, At
<1>13. CASE LinkReceipt
  BY <1>13 DEF LinkReceipt, Go, At
<1>14. CASE ReceiptStored
  BY <1>14 DEF ReceiptStored, DropParts, Release, At
<1>15. CASE StartMaintenance
  BY <1>15 DEF StartMaintenance, At, Expired, ValidPairs
<1>16. CASE UnlinkReceipt
  BY <1>16 DEF UnlinkReceipt, At
<1>17. CASE UnlinkMetadata
  BY <1>17 DEF UnlinkMetadata, Go, At
<1>18. CASE UnlinkDump
  BY <1>18 DEF UnlinkDump, At
<1>19. CASE RetentionDone
  BY <1>19 DEF RetentionDone, Go, At
<1>20. CASE SweepPart
  BY <1>20 DEF SweepPart, At, StaleParts
<1>21. CASE PartsSwept
  BY <1>21 DEF PartsSwept, Go, At
<1>22. CASE SweepMetadata
  BY <1>22 DEF SweepMetadata, At, Orphans
<1>23. CASE MaintenanceDone
  BY <1>23 DEF MaintenanceDone, Release, At
<1>24. CASE UploadFails
  BY <1>24 DEF UploadFails, DropParts, Release, Fault
<1>25. CASE LinkFails
  BY <1>25 DEF LinkFails, Release, Fault, At
<1>26. CASE ReceiptFails
  BY <1>26 DEF ReceiptFails, DropParts, Release, Fault
<1>27. CASE ReceiptLinkFails
  BY <1>27 DEF ReceiptLinkFails, Release, Fault, At
<1>28. CASE HolderDies
  BY <1>28 DEF HolderDies, Release, Fault, At
<1>29. CASE StoreTick
  BY <1>29 DEF StoreTick, At
<1>30. CASE UNCHANGED storeVars
  BY <1>30 DEF storeVars
<1>31. QED
  BY <1>1, <1>2, <1>3, <1>4, <1>5, <1>6, <1>7, <1>8, <1>9, <1>10, <1>11,
     <1>12, <1>13, <1>14, <1>15, <1>16, <1>17, <1>18, <1>19, <1>20,
     <1>21, <1>22, <1>23, <1>24, <1>25, <1>26, <1>27, <1>28, <1>29, <1>30
     DEF StoreNext, Proceed, Fail

LEMMA NestStep ==
  ASSUME StoreTypeOK, NestInv, [StoreNext]_storeVars
  PROVE  PairsNested'
<1> USE DEF NestInv, PairsNested, HolderInv, Receipting, files, holder,
        history, surroundings
<1>1. ASSUME NEW i \in Ids, PutDump(i)
      PROVE  PairsNested'
  BY <1>1 DEF PutDump, At
<1>2. ASSUME NEW i \in Ids, PutMetadata(i)
      PROVE  PairsNested'
  BY <1>2 DEF PutMetadata, At
<1>3. ASSUME NEW i \in Ids, Rot(i)
      PROVE  PairsNested'
  BY <1>3 DEF Rot, At
<1>4. ASSUME NEW i \in Ids, SweepDump(i)
      PROVE  PairsNested'
  BY <1>4 DEF SweepDump, At, Orphans
<1>5. CASE LinkDump
  BY <1>5 DEF LinkDump, Go, At
<1>6. CASE DumpStored
  BY <1>6 DEF DumpStored, DropParts, Release, At
<1>7. CASE LinkMetadata
  BY <1>7 DEF LinkMetadata, Go, At, DumpMatches
<1>8. CASE RejectMetadata
  BY <1>8 DEF RejectMetadata, DropParts, Release, At
<1>9. CASE StampReceipt
  BY <1>9 DEF StampReceipt, At
<1>10. CASE TakeSequence
  BY <1>10 DEF TakeSequence, At, SequencesOnDisk
<1>11. CASE WriteSequence
  BY <1>11 DEF WriteSequence, Go, At
<1>12. CASE WriteReceipt
  BY <1>12 DEF WriteReceipt, Go, At
<1>13. CASE LinkReceipt
  BY <1>13 DEF LinkReceipt, Go, At
<1>14. CASE ReceiptStored
  BY <1>14 DEF ReceiptStored, DropParts, Release, At
<1>15. CASE StartMaintenance
  BY <1>15 DEF StartMaintenance, At, Expired, ValidPairs
<1>16. CASE UnlinkReceipt
  BY <1>16 DEF UnlinkReceipt, At
<1>17. CASE UnlinkMetadata
  BY <1>17 DEF UnlinkMetadata, Go, At
<1>18. CASE UnlinkDump
  BY <1>18 DEF UnlinkDump, At
<1>19. CASE RetentionDone
  BY <1>19 DEF RetentionDone, Go, At
<1>20. CASE SweepPart
  BY <1>20 DEF SweepPart, At, StaleParts
<1>21. CASE PartsSwept
  BY <1>21 DEF PartsSwept, Go, At
<1>22. CASE SweepMetadata
  BY <1>22 DEF SweepMetadata, At, Orphans
<1>23. CASE MaintenanceDone
  BY <1>23 DEF MaintenanceDone, Release, At
<1>24. CASE UploadFails
  BY <1>24 DEF UploadFails, DropParts, Release, Fault
<1>25. CASE LinkFails
  BY <1>25 DEF LinkFails, Release, Fault, At
<1>26. CASE ReceiptFails
  BY <1>26 DEF ReceiptFails, DropParts, Release, Fault
<1>27. CASE ReceiptLinkFails
  BY <1>27 DEF ReceiptLinkFails, Release, Fault, At
<1>28. CASE HolderDies
  BY <1>28 DEF HolderDies, Release, Fault, At
<1>29. CASE StoreTick
  BY <1>29 DEF StoreTick, At
<1>30. CASE UNCHANGED storeVars
  BY <1>30 DEF storeVars
<1>31. QED
  BY <1>1, <1>2, <1>3, <1>4, <1>5, <1>6, <1>7, <1>8, <1>9, <1>10, <1>11,
     <1>12, <1>13, <1>14, <1>15, <1>16, <1>17, <1>18, <1>19, <1>20,
     <1>21, <1>22, <1>23, <1>24, <1>25, <1>26, <1>27, <1>28, <1>29, <1>30
     DEF StoreNext, Proceed, Fail

(* Wherever the holder of the lock stands, or dies, a receipt has its      *)
(* metadata and its dump, and metadata has its dump.                       *)
THEOREM PairsAlwaysNested == StoreSpec => []PairsNested
<1>1. StoreInit => NestInv
  BY DEF StoreInit, NestInv, HolderInv, PairsNested, Receipting
<1>2. StoreTypeOK /\ NestInv /\ [StoreNext]_storeVars => NestInv'
  BY HolderInvStep, NestStep DEF NestInv
<1>3. NestInv => PairsNested
  BY DEF NestInv
<1>4. QED
  BY <1>1, <1>2, <1>3, TypeCorrect, PTL DEF StoreSpec

(* Among pairs whose sequences are bounded one is the latest.              *)
LEMMA LatestExists ==
  ASSUME sequenceOf \in [Ids -> Nat],
         NEW S, S \subseteq Ids, S # {},
         NEW bound \in Nat, \A i \in S : sequenceOf[i] <= bound
  PROVE  \E m \in S : \A j \in S : sequenceOf[j] <= sequenceOf[m]
<1> DEFINE T == {bound - sequenceOf[i] : i \in S}
<1>1. T \subseteq Nat /\ T # {}
  OBVIOUS
<1>2. PICK x \in T : \A y \in T : <<y, x>> \notin OpToRel(<, Nat)
  BY <1>1, NatLessThanWellFounded, WFMin
<1>3. \A y \in T : ~(y < x)
  BY <1>1, <1>2 DEF OpToRel
<1>4. PICK m \in S : x = bound - sequenceOf[m]
  OBVIOUS
<1>5. ASSUME NEW j \in S
      PROVE  sequenceOf[j] <= sequenceOf[m]
  <2>1. ~(bound - sequenceOf[j] < bound - sequenceOf[m])
    BY <1>3, <1>4
  <2>2. sequenceOf[j] \in Nat /\ sequenceOf[m] \in Nat
    OBVIOUS
  <2>3. QED
    BY <2>1, <2>2
<1>6. QED
  BY <1>5

(* The latest valid pair is not among the expired ones.                    *)
LEMMA LatestNotExpired ==
  ASSUME DataTyped, receipts \subseteq received,
         received # {} => Tops(receipts, received),
         NEW t, NEW i \in Expired(t)
  PROVE  \E m \in ValidPairs \ Expired(t) : Earlier(i, m)
<1>1. i \in ValidPairs /\ ValidPairs \subseteq received /\ received \subseteq Ids
  BY DEF Expired, ValidPairs, DataTyped
<1>2. PICK k \in receipts : \A j \in received : sequenceOf[j] <= sequenceOf[k]
  BY <1>1 DEF Tops
<1>3. sequenceOf \in [Ids -> Nat] /\ sequenceOf[k] \in Nat
  BY DEF DataTyped
<1>4. PICK m \in ValidPairs :
        \A j \in ValidPairs : sequenceOf[j] <= sequenceOf[m]
  BY <1>1, <1>2, <1>3, LatestExists
<1>5. \A j \in ValidPairs : ~Earlier(m, j)
  BY <1>1, <1>3, <1>4 DEF Earlier
<1>6. PICK j \in ValidPairs : Earlier(i, j)
  BY DEF Expired
<1>7. QED
  BY <1>1, <1>3, <1>4, <1>5, <1>6 DEF Earlier, Expired

LEMMA SequenceStep ==
  ASSUME StoreTypeOK, NestInv, SequenceInv, [StoreNext]_storeVars
  PROVE  SequenceInv'
<1> HolderInv
  BY DEF NestInv
<1> step \notin WithoutBackup => backup \in Ids
  BY AtWork DEF StoreTypeOK
<1> /\ sequenceOf \in [Ids -> Nat] /\ number \in Nat /\ counter \in Nat
    /\ received \subseteq Ids /\ receipts \subseteq received
  BY DEF StoreTypeOK, DataTyped, HolderInv
<1> (doomed # {}) =>
      step \in {"retention", "receipt_unlinked", "metadata_unlinked"}
  BY DEF StoreTypeOK, HolderTyped
<1> USE DEF WithoutBackup
<1> USE DEF SequenceInv, Tops, files, holder, history, surroundings
<1>1. ASSUME NEW i \in Ids, PutDump(i)
      PROVE  SequenceInv'
  BY <1>1 DEF PutDump, At
<1>2. ASSUME NEW i \in Ids, PutMetadata(i)
      PROVE  SequenceInv'
  BY <1>2 DEF PutMetadata, At
<1>3. ASSUME NEW i \in Ids, Rot(i)
      PROVE  SequenceInv'
  BY <1>3 DEF Rot, At
<1>4. ASSUME NEW i \in Ids, SweepDump(i)
      PROVE  SequenceInv'
  BY <1>4 DEF SweepDump, At, Orphans
<1>5. CASE LinkDump
  BY <1>5 DEF LinkDump, Go, At
<1>6. CASE DumpStored
  BY <1>6 DEF DumpStored, DropParts, Release, At
<1>7. CASE LinkMetadata
  BY <1>7 DEF LinkMetadata, Go, At
<1>8. CASE RejectMetadata
  BY <1>8 DEF RejectMetadata, DropParts, Release, At
<1>9. CASE StampReceipt
  BY <1>9 DEF StampReceipt, At
<1>10. CASE TakeSequence
  <2>1. ASSUME NEW j \in received
        PROVE  sequenceOf[j] < number'
    <3>1. PICK k \in receipts : sequenceOf[j] <= sequenceOf[k]
      BY DEF Tops
    <3>2. sequenceOf[k] < number'
      BY <1>10 DEF TakeSequence, SequencesOnDisk
    <3>3. number' \in Nat
      BY DataStep, <1>10 DEF StoreNext, Proceed, DataTyped
    <3>4. QED
      BY <3>1, <3>2, <3>3
  <2>2. QED
    BY <1>10, <2>1 DEF TakeSequence, At
<1>11. CASE WriteSequence
  BY <1>11 DEF WriteSequence, Go, At
<1>12. CASE WriteReceipt
  BY <1>12 DEF WriteReceipt, Go, At
<1>13. CASE LinkReceipt
  <2>1. /\ backup \in Ids /\ backup \notin received /\ doomed = {}
        /\ \A j \in received : sequenceOf[j] < number
    BY <1>13 DEF LinkReceipt, At, HolderInv, Receipting
  <2>2. /\ received' = received \cup {backup} /\ doomed' = {}
        /\ receipts' = receipts \cup {backup} /\ backup' = backup
        /\ step' = "receipt_linked"
    BY <1>13, <2>1 DEF LinkReceipt, Go
  <2>3. /\ sequenceOf'[backup] = number
        /\ \A j \in received : sequenceOf'[j] = sequenceOf[j]
    BY <1>13, <2>1 DEF LinkReceipt
  <2>4. Tops(receipts \ doomed, received)' \/ received' = {}
    BY <2>1, <2>2, <2>3 DEF Tops
  <2>5. \A j \in received' \ {backup'} : sequenceOf'[j] < sequenceOf'[backup']
    BY <2>1, <2>2, <2>3
  <2>6. received' \ {backup'} # {} =>
          Tops(receipts \ {backup}, received \ {backup})'
    BY <2>1, <2>2, <2>3 DEF Tops
  <2>7. QED
    BY <2>2, <2>4, <2>5, <2>6
<1>14. CASE ReceiptStored
  BY <1>14 DEF ReceiptStored, DropParts, Release, At
<1>15. CASE StartMaintenance
  <2>1. ASSUME received # {}
        PROVE  Tops(receipts \ Expired(storeTime), received)
    <3>1. PICK k \in receipts :
            \A j \in received : sequenceOf[j] <= sequenceOf[k]
      BY <2>1 DEF Tops
    <3>2. k \notin Expired(storeTime)
      BY <3>1 DEF Expired, ValidPairs, Earlier
    <3>3. QED
      BY <3>1, <3>2 DEF Tops
  <2>2. QED
    BY <1>15, <2>1 DEF StartMaintenance, At, Tops
<1>16. CASE UnlinkReceipt
  BY <1>16 DEF UnlinkReceipt, At
<1>17. CASE UnlinkMetadata
  BY <1>17 DEF UnlinkMetadata, Go, At
<1>18. CASE UnlinkDump
  BY <1>18 DEF UnlinkDump, At, HolderInv
<1>19. CASE RetentionDone
  BY <1>19 DEF RetentionDone, Go, At
<1>20. CASE SweepPart
  BY <1>20 DEF SweepPart, At, StaleParts
<1>21. CASE PartsSwept
  BY <1>21 DEF PartsSwept, Go, At
<1>22. CASE SweepMetadata
  BY <1>22 DEF SweepMetadata, At, Orphans
<1>23. CASE MaintenanceDone
  BY <1>23 DEF MaintenanceDone, Release, At
<1>24. CASE UploadFails
  BY <1>24 DEF UploadFails, DropParts, Release, Fault
<1>25. CASE LinkFails
  BY <1>25 DEF LinkFails, Release, Fault, At
<1>26. CASE ReceiptFails
  BY <1>26 DEF ReceiptFails, DropParts, Release, Fault
<1>27. CASE ReceiptLinkFails
  BY <1>27 DEF ReceiptLinkFails, Release, Fault, At
<1>28. CASE HolderDies
  BY <1>28 DEF HolderDies, Release, Fault, At
<1>29. CASE StoreTick
  BY <1>29 DEF StoreTick, At
<1>30. CASE UNCHANGED storeVars
  BY <1>30 DEF storeVars
<1>31. QED
  BY <1>1, <1>2, <1>3, <1>4, <1>5, <1>6, <1>7, <1>8, <1>9, <1>10, <1>11,
     <1>12, <1>13, <1>14, <1>15, <1>16, <1>17, <1>18, <1>19, <1>20,
     <1>21, <1>22, <1>23, <1>24, <1>25, <1>26, <1>27, <1>28, <1>29, <1>30
     DEF StoreNext, Proceed, Fail

LEMMA DoomedStep ==
  ASSUME StoreTypeOK, NestInv, SequenceInv, DoomedInv, [StoreNext]_storeVars
  PROVE  DoomedInv'
<1> HolderInv
  BY DEF NestInv
<1> (doomed # {}) =>
      step \in {"retention", "receipt_unlinked", "metadata_unlinked"}
  BY DEF StoreTypeOK, HolderTyped
<1> USE DEF files, holder, history, surroundings
<1>1. ASSUME NEW i \in Ids, PutDump(i)
      PROVE  DoomedInv'
  BY <1>1 DEF PutDump, DoomedInv, At
<1>2. ASSUME NEW i \in Ids, PutMetadata(i)
      PROVE  DoomedInv'
  BY <1>2 DEF PutMetadata, DoomedInv, At
<1>3. ASSUME NEW i \in Ids, Rot(i)
      PROVE  DoomedInv'
  BY <1>3 DEF Rot, DoomedInv, At
<1>4. ASSUME NEW i \in Ids, SweepDump(i)
      PROVE  DoomedInv'
  BY <1>4 DEF SweepDump, DoomedInv, At, Orphans
<1>5. CASE LinkDump
  BY <1>5 DEF LinkDump, DoomedInv, Go, At
<1>6. CASE DumpStored
  BY <1>6 DEF DumpStored, DoomedInv, DropParts, Release, At
<1>7. CASE LinkMetadata
  BY <1>7 DEF LinkMetadata, DoomedInv, Go, At
<1>8. CASE RejectMetadata
  BY <1>8 DEF RejectMetadata, DoomedInv, DropParts, Release, At
<1>9. CASE StampReceipt
  BY <1>9 DEF StampReceipt, DoomedInv, At
<1>10. CASE TakeSequence
  BY <1>10 DEF TakeSequence, DoomedInv, At, SequencesOnDisk
<1>11. CASE WriteSequence
  BY <1>11 DEF WriteSequence, DoomedInv, Go, At
<1>12. CASE WriteReceipt
  BY <1>12 DEF WriteReceipt, DoomedInv, Go, At
<1>13. CASE LinkReceipt
  BY <1>13 DEF LinkReceipt, DoomedInv, Go, At
<1>14. CASE ReceiptStored
  BY <1>14 DEF ReceiptStored, DoomedInv, DropParts, Release, At
<1>15. CASE StartMaintenance
  <2>1. Expired(storeTime) \subseteq received \ rotten
    BY DEF Expired, ValidPairs, DumpMatches, HolderInv
  <2>2. \A i \in Expired(storeTime) :
          \E j \in ValidPairs \ Expired(storeTime) : Earlier(i, j)
    <3>1. received # {} => Tops(receipts, received)
      BY DEF SequenceInv, Tops
    <3>2. DataTyped /\ receipts \subseteq received
      BY DEF StoreTypeOK, HolderInv
    <3>3. QED
      BY <3>1, <3>2, LatestNotExpired
  <2>3. /\ doomed' = Expired(storeTime)
        /\ UNCHANGED <<received, rotten, receipts, metadatas, dumps,
                       sequenceOf>>
    BY <1>15 DEF StartMaintenance, files, history, surroundings
  <2>4. QED
    BY <2>1, <2>2, <2>3 DEF DoomedInv, ValidPairs, DumpMatches, Earlier
<1>16. CASE UnlinkReceipt
  <2>1. PICK i \in doomed : receipts' = receipts \ {i}
    BY <1>16 DEF UnlinkReceipt
  <2>2. UNCHANGED <<doomed, received, rotten, metadatas, dumps, sequenceOf>>
    BY <1>16 DEF UnlinkReceipt, history, surroundings
  <2>3. QED
    BY <2>1, <2>2 DEF DoomedInv, ValidPairs, DumpMatches, Earlier
<1>17. CASE UnlinkMetadata
  <2>1. backup \in doomed
    BY <1>17 DEF UnlinkMetadata, At, HolderInv
  <2>2. UNCHANGED <<doomed, received, rotten, receipts, dumps, sequenceOf>>
    BY <1>17 DEF UnlinkMetadata, Go, history, surroundings
  <2>3. metadatas' = metadatas \ {backup}
    BY <1>17 DEF UnlinkMetadata
  <2>4. QED
    BY <2>1, <2>2, <2>3 DEF DoomedInv, ValidPairs, DumpMatches, Earlier
<1>18. CASE UnlinkDump
  <2>1. backup \in doomed
    BY <1>18 DEF UnlinkDump, At, HolderInv
  <2>2. UNCHANGED <<received, rotten, receipts, metadatas, sequenceOf>>
    BY <1>18 DEF UnlinkDump, history, surroundings
  <2>3. dumps' = dumps \ {backup} /\ doomed' = doomed \ {backup}
    BY <1>18 DEF UnlinkDump
  <2>4. \A j \in ValidPairs \ doomed : j \in ValidPairs' \ doomed'
    BY <2>1, <2>2, <2>3 DEF ValidPairs, DumpMatches
  <2>5. QED
    BY <2>2, <2>3, <2>4 DEF DoomedInv, Earlier
<1>19. CASE RetentionDone
  BY <1>19 DEF RetentionDone, DoomedInv, Go, At
<1>20. CASE SweepPart
  BY <1>20 DEF SweepPart, DoomedInv, At, StaleParts
<1>21. CASE PartsSwept
  BY <1>21 DEF PartsSwept, DoomedInv, Go, At
<1>22. CASE SweepMetadata
  BY <1>22 DEF SweepMetadata, DoomedInv, At, Orphans
<1>23. CASE MaintenanceDone
  BY <1>23 DEF MaintenanceDone, DoomedInv, Release, At
<1>24. CASE UploadFails
  BY <1>24 DEF UploadFails, DoomedInv, DropParts, Release, Fault
<1>25. CASE LinkFails
  BY <1>25 DEF LinkFails, DoomedInv, Release, Fault, At
<1>26. CASE ReceiptFails
  BY <1>26 DEF ReceiptFails, DoomedInv, DropParts, Release, Fault
<1>27. CASE ReceiptLinkFails
  BY <1>27 DEF ReceiptLinkFails, DoomedInv, Release, Fault, At
<1>28. CASE HolderDies
  BY <1>28 DEF HolderDies, DoomedInv, Release, Fault, At
<1>29. CASE StoreTick
  BY <1>29 DEF StoreTick, DoomedInv, At
<1>30. CASE UNCHANGED storeVars
  BY <1>30 DEF storeVars, DoomedInv, ValidPairs,
               DumpMatches, Earlier
<1>31. QED
  BY <1>1, <1>2, <1>3, <1>4, <1>5, <1>6, <1>7, <1>8, <1>9, <1>10, <1>11,
     <1>12, <1>13, <1>14, <1>15, <1>16, <1>17, <1>18, <1>19, <1>20,
     <1>21, <1>22, <1>23, <1>24, <1>25, <1>26, <1>27, <1>28, <1>29, <1>30
     DEF StoreNext, Proceed, Fail

LEMMA ReleasedDependsOn ==
  ASSUME UNCHANGED <<history, storeTime>>
  PROVE  \A i : Released(i)' <=> Released(i)
BY DEF history, Released, Tier, FirstOf, InOneBucket, Earlier

(* Time closes tiers and never opens one.                                  *)
LEMMA ReleasedStays ==
  ASSUME receivedAt \in [Ids -> Nat], storeTime \in Nat, storeTime' = storeTime + 1,
         UNCHANGED history, NEW i \in Ids, Released(i)
  PROVE  Released(i)'
<1>1. \A length : FirstOf(i, length)' <=> FirstOf(i, length)
  BY DEF history, FirstOf, InOneBucket, Earlier
<1>2. receivedAt'[i] = receivedAt[i] /\ receivedAt[i] \in Nat
  BY DEF history
<1>3. \/ Tier(i, storeTime)' = Tier(i, storeTime)
      \/ Tier(i, storeTime) = "all"
      \/ Tier(i, storeTime) = "day" /\ Tier(i, storeTime)' \in {"week", "month", "none"}
      \/ Tier(i, storeTime) = "week" /\ Tier(i, storeTime)' \in {"month", "none"}
      \/ Tier(i, storeTime) = "month" /\ Tier(i, storeTime)' = "none"
  BY <1>2, PolicyAssumption DEF Tier
<1>4. QED
  BY <1>1, <1>3 DEF Released

(* retention_partition expires no pair that a tier promises.               *)
LEMMA ExpiredIsReleased ==
  ASSUME receipts \subseteq received, NEW i \in Expired(storeTime)
  PROVE  Released(i)
<1>1. CASE Tier(i, storeTime) = "none"
  BY <1>1 DEF Released
<1>2. CASE \E j \in ValidPairs : Earlier(j, i) /\ SameBucket(i, j, storeTime)
  <2>1. PICK j \in ValidPairs : Earlier(j, i) /\ SameBucket(i, j, storeTime)
    BY <1>2
  <2>2. j \in received
    BY DEF ValidPairs
  <2>3. /\ Tier(i, storeTime) \in {"day", "week", "month"}
        /\ ~FirstOf(i, BucketLength[Tier(i, storeTime)])
    BY <2>1, <2>2 DEF SameBucket, FirstOf, BucketLength
  <2>4. CASE Tier(i, storeTime) = "day"
    BY <2>3, <2>4 DEF Released, BucketLength
  <2>5. CASE Tier(i, storeTime) = "week"
    BY <2>3, <2>5 DEF Released, BucketLength
  <2>6. CASE Tier(i, storeTime) = "month"
    BY <2>3, <2>6 DEF Released, BucketLength
  <2>7. QED
    BY <2>3, <2>4, <2>5, <2>6
<1>3. QED
  BY <1>1, <1>2 DEF Expired

LEMMA TierStep ==
  ASSUME StoreTypeOK, NestInv, SequenceInv, DoomedInv, TierInv, [StoreNext]_storeVars
  PROVE  TierInv'
<1> HolderInv
  BY DEF NestInv
<1> (doomed # {}) =>
      step \in {"retention", "receipt_unlinked", "metadata_unlinked"}
  BY DEF StoreTypeOK, HolderTyped
<1> USE DEF files, holder, history, surroundings
<1>1. ASSUME NEW i \in Ids, PutDump(i)
      PROVE  TierInv'
  BY <1>1, ReleasedDependsOn DEF PutDump, TierInv, At
<1>2. ASSUME NEW i \in Ids, PutMetadata(i)
      PROVE  TierInv'
  BY <1>2, ReleasedDependsOn DEF PutMetadata, TierInv, At
<1>3. ASSUME NEW i \in Ids, Rot(i)
      PROVE  TierInv'
  BY <1>3, ReleasedDependsOn DEF Rot, TierInv, At
<1>4. ASSUME NEW i \in Ids, SweepDump(i)
      PROVE  TierInv'
  BY <1>4, ReleasedDependsOn DEF SweepDump, TierInv, At, Orphans
<1>5. CASE LinkDump
  BY <1>5, ReleasedDependsOn DEF LinkDump, TierInv, Go, At
<1>6. CASE DumpStored
  BY <1>6, ReleasedDependsOn DEF DumpStored, TierInv, DropParts, Release, At
<1>7. CASE LinkMetadata
  BY <1>7, ReleasedDependsOn DEF LinkMetadata, TierInv, Go, At
<1>8. CASE RejectMetadata
  BY <1>8, ReleasedDependsOn DEF RejectMetadata, TierInv, DropParts, Release, At
<1>9. CASE StampReceipt
  BY <1>9, ReleasedDependsOn DEF StampReceipt, TierInv, At
<1>10. CASE TakeSequence
  BY <1>10, ReleasedDependsOn DEF TakeSequence, TierInv, At, SequencesOnDisk
<1>11. CASE WriteSequence
  BY <1>11, ReleasedDependsOn DEF WriteSequence, TierInv, Go, At
<1>12. CASE WriteReceipt
  BY <1>12, ReleasedDependsOn DEF WriteReceipt, TierInv, Go, At
<1>13. CASE LinkReceipt
  <2>1. /\ backup \in Ids /\ backup \notin received /\ doomed = {}
        /\ \A j \in received : sequenceOf[j] < number
    BY <1>13 DEF LinkReceipt, At, HolderInv, Receipting, SequenceInv,
             HolderTyped, StoreTypeOK, WithoutBackup
  <2>2. /\ received' = received \cup {backup} /\ doomed' = {}
        /\ receipts' = receipts \cup {backup}
        /\ rotten' = rotten /\ storeTime' = storeTime
    BY <1>13, <2>1 DEF LinkReceipt, Go, surroundings
  <2>3. \A j \in received : /\ sequenceOf'[j] = sequenceOf[j]
                            /\ receivedAt'[j] = receivedAt[j]
    BY <1>13, <2>1 DEF LinkReceipt, StoreTypeOK, DataTyped
  <2>4. ASSUME NEW i \in received, Released(i)
        PROVE  Released(i)'
    <3>1. \A length : ~FirstOf(i, length) => ~FirstOf(i, length)'
      BY <2>2, <2>3 DEF FirstOf, InOneBucket, Earlier
    <3>2. Tier(i, storeTime)' = Tier(i, storeTime)
      BY <2>2, <2>3 DEF Tier
    <3>3. QED
      BY <2>4, <3>1, <3>2 DEF Released
  <2>5. QED
    BY <2>1, <2>2, <2>4 DEF TierInv
<1>14. CASE ReceiptStored
  BY <1>14, ReleasedDependsOn DEF ReceiptStored, TierInv, DropParts, Release, At
<1>15. CASE StartMaintenance
  <2>1. \A i \in Expired(storeTime) : Released(i)
    BY ExpiredIsReleased DEF HolderInv
  <2>2. /\ doomed' = Expired(storeTime) /\ UNCHANGED <<files, history, surroundings>>
    BY <1>15 DEF StartMaintenance
  <2>3. \A i : Released(i)' <=> Released(i)
    BY <2>2, ReleasedDependsOn DEF history, surroundings
  <2>4. QED
    BY <2>1, <2>2, <2>3 DEF TierInv, files, history, surroundings
<1>16. CASE UnlinkReceipt
  <2>1. PICK i \in doomed : receipts' = receipts \ {i}
    BY <1>16 DEF UnlinkReceipt
  <2>2. UNCHANGED <<doomed, history, surroundings>>
    BY <1>16 DEF UnlinkReceipt
  <2>3. \A j : Released(j)' <=> Released(j)
    BY <2>2, ReleasedDependsOn DEF history, surroundings
  <2>4. QED
    BY <2>1, <2>2, <2>3 DEF TierInv, history, surroundings
<1>17. CASE UnlinkMetadata
  BY <1>17, ReleasedDependsOn DEF UnlinkMetadata, TierInv, Go, At
<1>18. CASE UnlinkDump
  BY <1>18, ReleasedDependsOn DEF UnlinkDump, TierInv, At
<1>19. CASE RetentionDone
  BY <1>19, ReleasedDependsOn DEF RetentionDone, TierInv, Go, At
<1>20. CASE SweepPart
  BY <1>20, ReleasedDependsOn DEF SweepPart, TierInv, At, StaleParts
<1>21. CASE PartsSwept
  BY <1>21, ReleasedDependsOn DEF PartsSwept, TierInv, Go, At
<1>22. CASE SweepMetadata
  BY <1>22, ReleasedDependsOn DEF SweepMetadata, TierInv, At, Orphans
<1>23. CASE MaintenanceDone
  BY <1>23, ReleasedDependsOn DEF MaintenanceDone, TierInv, Release, At
<1>24. CASE UploadFails
  BY <1>24, ReleasedDependsOn DEF UploadFails, TierInv, DropParts, Release, Fault
<1>25. CASE LinkFails
  BY <1>25, ReleasedDependsOn DEF LinkFails, TierInv, Release, Fault, At
<1>26. CASE ReceiptFails
  BY <1>26, ReleasedDependsOn DEF ReceiptFails, TierInv, DropParts, Release, Fault
<1>27. CASE ReceiptLinkFails
  <2>1. /\ backup \in Ids /\ doomed = {}
        /\ \A j \in received \ {backup} : sequenceOf[j] < sequenceOf[backup]
    BY <1>27 DEF ReceiptLinkFails, At, SequenceInv, HolderTyped, StoreTypeOK,
             WithoutBackup
  <2>2. /\ received' = received \ {backup} /\ doomed' = {}
        /\ receipts' = receipts \ {backup}
        /\ rotten' = rotten /\ storeTime' = storeTime
    BY <1>27 DEF ReceiptLinkFails, Release
  <2>3. \A j \in received' : /\ sequenceOf'[j] = sequenceOf[j]
                             /\ receivedAt'[j] = receivedAt[j]
    BY <1>27, <2>1, <2>2 DEF ReceiptLinkFails, StoreTypeOK, DataTyped
  <2>4. ASSUME NEW i \in received', Released(i)
        PROVE  Released(i)'
    <3>1. ~Earlier(backup, i)
      BY <2>1, <2>2 DEF Earlier, StoreTypeOK, DataTyped
    <3>2. ASSUME NEW length, ~FirstOf(i, length)
          PROVE  ~FirstOf(i, length)'
      BY <2>2, <2>3, <3>1, <3>2 DEF FirstOf, InOneBucket, Earlier
    <3>3. Tier(i, storeTime)' = Tier(i, storeTime)
      BY <2>2, <2>3 DEF Tier
    <3>4. QED
      BY <2>4, <3>2, <3>3 DEF Released
  <2>5. QED
    BY <2>2, <2>4 DEF TierInv
<1>28. CASE HolderDies
  BY <1>28, ReleasedDependsOn DEF HolderDies, TierInv, Release, Fault, At
<1>29. CASE StoreTick
  <2>1. doomed = {} /\ doomed' = {}
    BY <1>29 DEF StoreTick, holder
  <2>2. ASSUME NEW i \in received, Released(i)
        PROVE  Released(i)'
    BY <1>29, <2>2, ReleasedStays DEF StoreTick, history, StoreTypeOK, DataTyped
  <2>3. UNCHANGED <<received, rotten, receipts>>
    BY <1>29 DEF StoreTick, files, history
  <2>4. QED
    BY <2>1, <2>2, <2>3 DEF TierInv
<1>30. CASE UNCHANGED storeVars
  BY <1>30, ReleasedDependsOn DEF storeVars, TierInv
<1>31. QED
  BY <1>1, <1>2, <1>3, <1>4, <1>5, <1>6, <1>7, <1>8, <1>9, <1>10, <1>11,
     <1>12, <1>13, <1>14, <1>15, <1>16, <1>17, <1>18, <1>19, <1>20,
     <1>21, <1>22, <1>23, <1>24, <1>25, <1>26, <1>27, <1>28, <1>29, <1>30
     DEF StoreNext, Proceed, Fail

(* Only three actions create or remove a receipt.                          *)
LEMMA ReceiptSteps ==
  ASSUME [StoreNext]_storeVars
  PROVE  \/ LinkReceipt \/ ReceiptLinkFails \/ UnlinkReceipt
         \/ UNCHANGED <<receipts, history>>
<1> DEFINE Kept == \/ LinkReceipt \/ ReceiptLinkFails \/ UnlinkReceipt
                   \/ UNCHANGED <<receipts, history>>
<1> USE DEF files, holder, history, surroundings
<1>1. ASSUME NEW i \in Ids, PutDump(i)
      PROVE  Kept
  BY <1>1 DEF PutDump
<1>2. ASSUME NEW i \in Ids, PutMetadata(i)
      PROVE  Kept
  BY <1>2 DEF PutMetadata
<1>3. ASSUME NEW i \in Ids, Rot(i)
      PROVE  Kept
  BY <1>3 DEF Rot
<1>4. ASSUME NEW i \in Ids, SweepDump(i)
      PROVE  Kept
  BY <1>4 DEF SweepDump
<1>5. CASE LinkDump
  BY <1>5 DEF LinkDump
<1>6. CASE DumpStored
  BY <1>6 DEF DumpStored, DropParts
<1>7. CASE LinkMetadata
  BY <1>7 DEF LinkMetadata
<1>8. CASE RejectMetadata
  BY <1>8 DEF RejectMetadata, DropParts
<1>9. CASE StampReceipt
  BY <1>9 DEF StampReceipt
<1>10. CASE TakeSequence
  BY <1>10 DEF TakeSequence
<1>11. CASE WriteSequence
  BY <1>11 DEF WriteSequence
<1>12. CASE WriteReceipt
  BY <1>12 DEF WriteReceipt
<1>13. CASE LinkReceipt
  BY <1>13
<1>14. CASE ReceiptStored
  BY <1>14 DEF ReceiptStored, DropParts
<1>15. CASE StartMaintenance
  BY <1>15 DEF StartMaintenance
<1>16. CASE UnlinkReceipt
  BY <1>16
<1>17. CASE UnlinkMetadata
  BY <1>17 DEF UnlinkMetadata
<1>18. CASE UnlinkDump
  BY <1>18 DEF UnlinkDump
<1>19. CASE RetentionDone
  BY <1>19 DEF RetentionDone
<1>20. CASE SweepPart
  BY <1>20 DEF SweepPart
<1>21. CASE PartsSwept
  BY <1>21 DEF PartsSwept
<1>22. CASE SweepMetadata
  BY <1>22 DEF SweepMetadata
<1>23. CASE MaintenanceDone
  BY <1>23 DEF MaintenanceDone
<1>24. CASE UploadFails
  BY <1>24 DEF UploadFails, DropParts
<1>25. CASE LinkFails
  BY <1>25 DEF LinkFails
<1>26. CASE ReceiptFails
  BY <1>26 DEF ReceiptFails, DropParts
<1>27. CASE ReceiptLinkFails
  BY <1>27
<1>28. CASE HolderDies
  BY <1>28 DEF HolderDies
<1>29. CASE StoreTick
  BY <1>29 DEF StoreTick
<1>30. CASE UNCHANGED storeVars
  BY <1>30 DEF storeVars
<1>31. QED
  BY <1>1, <1>2, <1>3, <1>4, <1>5, <1>6, <1>7, <1>8, <1>9, <1>10, <1>11,
     <1>12, <1>13, <1>14, <1>15, <1>16, <1>17, <1>18, <1>19, <1>20,
     <1>21, <1>22, <1>23, <1>24, <1>25, <1>26, <1>27, <1>28, <1>29, <1>30
     DEF StoreNext, Proceed, Fail

StoreInv == NestInv /\ SequenceInv /\ DoomedInv /\ TierInv

(* The inductive invariant of the receiver.                                *)
THEOREM StoreInvariant == StoreSpec => []StoreInv
<1>1. StoreInit => StoreInv
  BY DEF StoreInit, StoreInv, NestInv, HolderInv, PairsNested, Receipting,
         SequenceInv, DoomedInv, TierInv
<1>2. StoreTypeOK /\ StoreInv /\ [StoreNext]_storeVars => StoreInv'
  BY HolderInvStep, NestStep, SequenceStep, DoomedStep, TierStep
     DEF StoreInv, NestInv
<1>3. QED
  BY <1>1, <1>2, TypeCorrect, PTL DEF StoreSpec

(* A new receipt has a greater sequence than every receipt there ever was, *)
(* those of deleted pairs included, whatever is left in the sequence file. *)
THEOREM SequencesGrow == StoreSpec => SequenceGrows
<1>1. StoreTypeOK /\ StoreInv /\ [StoreNext]_storeVars =>
        \A i \in received' \ received, j \in received :
           sequenceOf'[i] > sequenceOf[j]
  <2> SUFFICES ASSUME StoreTypeOK, StoreInv, [StoreNext]_storeVars,
                      NEW i \in received' \ received, NEW j \in received
               PROVE  sequenceOf'[i] > sequenceOf[j]
    OBVIOUS
  <2>1. LinkReceipt
    BY ReceiptSteps DEF ReceiptLinkFails, UnlinkReceipt, history
  <2>2. i = backup /\ sequenceOf'[backup] = number
    <3>1. backup \in Ids
      BY <2>1, AtWork DEF LinkReceipt, At, StoreTypeOK, WithoutBackup
    <3>2. QED
      BY <2>1, <3>1 DEF LinkReceipt, StoreTypeOK, DataTyped
  <2>3. sequenceOf[j] < number
    BY <2>1 DEF LinkReceipt, At, StoreInv, SequenceInv
  <2>4. sequenceOf[j] \in Nat /\ number \in Nat
    BY DEF StoreTypeOK, DataTyped
  <2>5. QED
    BY <2>2, <2>3, <2>4
<1>2. QED
  BY <1>1, TypeCorrect, StoreInvariant, PTL DEF StoreSpec, SequenceGrows

(* No step loses the newest recovery point.                                *)
THEOREM NewestAlwaysSurvives == StoreSpec => NewestSurvives
<1>1. StoreTypeOK /\ StoreInv /\ [StoreNext]_storeVars =>
        \A i \in (receipts \ receipts') \cap received' :
           \E j \in ValidPairs' : sequenceOf'[j] > sequenceOf'[i]
  <2> SUFFICES ASSUME StoreTypeOK, StoreInv, [StoreNext]_storeVars,
                      NEW i \in (receipts \ receipts') \cap received'
               PROVE  \E j \in ValidPairs' : sequenceOf'[j] > sequenceOf'[i]
    OBVIOUS
  <2>1. UnlinkReceipt
    BY ReceiptSteps DEF ReceiptLinkFails, LinkReceipt, history, StoreInv,
         NestInv, HolderInv
  <2>2. i \in doomed /\ receipts' = receipts \ {i}
    BY <2>1 DEF UnlinkReceipt
  <2>3. UNCHANGED <<doomed, rotten, metadatas, dumps, sequenceOf>>
    BY <2>1 DEF UnlinkReceipt, history, surroundings
  <2>4. PICK j \in ValidPairs \ doomed : Earlier(i, j)
    BY <2>2 DEF StoreInv, DoomedInv
  <2>5. j \in ValidPairs'
    BY <2>2, <2>3, <2>4 DEF ValidPairs, DumpMatches
  <2>6. sequenceOf[i] \in Nat /\ sequenceOf[j] \in Nat
    BY <2>4 DEF StoreTypeOK, DataTyped, ValidPairs
  <2>7. QED
    BY <2>3, <2>4, <2>5, <2>6 DEF Earlier
<1>2. QED
  BY <1>1, TypeCorrect, StoreInvariant, PTL DEF StoreSpec, NewestSurvives, KeepsNewest

(* Every pair a tier promises is on disk.                                  *)
THEOREM TierPointsAlwaysKept == StoreSpec => []TierPointsKept
<1>1. StoreInv => TierPointsKept
  BY DEF StoreInv, TierInv, Released, TierPointsKept
<1>2. QED
  BY <1>1, StoreInvariant, PTL

-----------------------------------------------------------------------------
(* Downloads                                                                *)

(* A download reads its body only before the deadline, and asks for nothing *)
(* under an invalid policy.  Only the end of a body makes a document.       *)
FetchInv ==
  /\ ~PolicyValid => fetchStep \in {"start", "done"} /\ elapsed = 0
  /\ PolicyValid => elapsed < TotalTimeout + SendTime
  /\ PolicyValid => bodySize <= MaxBytes
  /\ fetchStep = "start" => elapsed = 0
  /\ fetchStep \notin {"start", "done"} => Form[url] # "unpreparable"
  /\ fetchStep = "body" => elapsed < TotalTimeout
  /\ fetchStep # "done" => result = NoResult
  /\ result = "document" =>
       PolicyValid /\ bodySize # 0 /\ elapsed < TotalTimeout + ReadTime

(* No call lasts longer than a send.                                        *)
LEMMA SendIsLongest ==
  ASSUME PolicyValid
  PROVE  /\ SendTime \in Int /\ SendTime > 0 /\ ReadTime \in Int /\ ReadTime > 0
         /\ ResolveTime \in Int /\ ResolveTime <= SendTime /\ ReadTime <= SendTime
         /\ TotalTimeout \in Int /\ TotalTimeout > 0 /\ MaxBytes \in Int /\ MaxBytes > 0
<1>1. \A m, t \in Int : m > 0 /\ t > 0 => m * t \in Int /\ m * t > 0
  OBVIOUS
<1>2. ReadTime \in Int /\ ReadTime > 0
  BY <1>1, FetchAssumption DEF PolicyValid, ReadTime
<1>3. MaxAddresses + 1 \in Int /\ MaxAddresses + 1 > 0
  BY FetchAssumption
<1>4. (MaxAddresses + 1) * ConnectTimeout \in Int /\ (MaxAddresses + 1) * ConnectTimeout > 0
  BY <1>1, <1>3, FetchAssumption DEF PolicyValid
<1>5. QED
  BY <1>2, <1>4, FetchAssumption DEF PolicyValid, SendTime

LEMMA FetchTyped == FetchInit => FetchTypeOK
BY DEF FetchInit, FetchTypeOK, NoReply, Replies, NoResult

(* How a step ends a download, or goes on.                                  *)
LEMMA FetchMoves ==
  ASSUME FetchTypeOK, FetchInv, FetchNext
  PROVE  /\ fetchStep # "done" /\ result = NoResult
         /\ fetchStep # "start" => PolicyValid
         /\ \/ fetchStep' = "done" /\ result' \in Codes
            \/ fetchStep = "body" /\ EndOfBody /\ bodySize # 0
               /\ fetchStep' = "done" /\ result' = "document"
            \/ PolicyValid /\ fetchStep' # "start" /\ fetchStep' # "done" /\ result' = NoResult
<1>1. fetchStep # "done" /\ (fetchStep # "start" => PolicyValid) /\ result = NoResult
  BY DEF FetchNext, Start, Resolve, Send, Redirect, Accept, Chunk, EndOfBody, StreamBreaks,
         FetchInv
<1>2. fetchStep # "start" => Form[url] \in Codes \/ Form[url] = "ok"
  BY <1>1, FetchAssumption DEF FetchTypeOK, FetchInv, UrlForms, Codes
<1> DEFINE Moves ==
      \/ fetchStep' = "done" /\ result' \in Codes
      \/ fetchStep = "body" /\ EndOfBody /\ bodySize # 0
         /\ fetchStep' = "done" /\ result' = "document"
      \/ PolicyValid /\ fetchStep' # "start" /\ fetchStep' # "done" /\ result' = NoResult
<1>3. CASE Start
  BY <1>1, <1>3 DEF Start, End, Goto, Codes
<1>4. CASE Resolve
  BY <1>1, <1>2, <1>4 DEF Resolve, End, Goto, Codes
<1>5. CASE Send
  BY <1>1, <1>5 DEF Send, Answer, End, Goto, Codes
<1>6. CASE Redirect
  BY <1>1, <1>6 DEF Redirect, End, Goto, Codes
<1>7. CASE Accept
  BY <1>1, <1>7 DEF Accept, End, Goto, Codes
<1>8. CASE Chunk
  BY <1>1, <1>8 DEF Chunk, End, Goto, Codes
<1>9. CASE EndOfBody
  BY <1>1, <1>9 DEF EndOfBody, End, Codes
<1>10. CASE StreamBreaks
  BY <1>1, <1>10 DEF StreamBreaks, End, Codes
<1>11. QED
  BY <1>1, <1>3, <1>4, <1>5, <1>6, <1>7, <1>8, <1>9, <1>10 DEF FetchNext

LEMMA FetchTypeStep ==
  ASSUME FetchTypeOK, FetchInv, FetchNext
  PROVE  FetchTypeOK'
<1>1. /\ fetchStep' \in {"start", "resolve", "send", "reply", "body", "done"}
      /\ result' \in Codes \cup {"document", NoResult}
  <2>1. fetchStep' \in {"start", "resolve", "send", "reply", "body", "done"}
    BY DEF FetchNext, Start, Resolve, Send, Answer, Redirect, Accept, Chunk, EndOfBody,
           StreamBreaks, End, Goto
  <2>2. QED
    BY <2>1, FetchMoves
<1>2. url' \in Urls /\ redirects' \in Nat
  BY DEF FetchTypeOK, Replies, FetchNext, Start, Resolve, Send, Redirect, Accept, Chunk,
         EndOfBody, StreamBreaks
<1>3. reply' \in Replies
  <2>1. NoReply \in Replies
    BY DEF NoReply, Replies
  <2>2. QED
    BY <2>1 DEF FetchTypeOK, FetchNext, Start, Resolve, Send, Answer, Redirect, Accept,
                Chunk, EndOfBody, StreamBreaks
<1>4. bodySize' \in Nat
  BY FetchAssumption DEF FetchTypeOK, FetchNext, Start, Resolve, Send, Redirect, Accept,
         Chunk, EndOfBody, StreamBreaks
<1>5. elapsed' \in Nat
  BY FetchAssumption DEF FetchTypeOK, FetchNext, Start, Resolve, Send, Redirect, Accept,
         Chunk, EndOfBody, StreamBreaks
<1>6. QED
  BY <1>1, <1>2, <1>3, <1>4, <1>5 DEF FetchTypeOK

(* A step takes one blocking call at most, and only before the deadline; a  *)
(* body grows only within its limit.                                        *)
LEMMA FetchStep ==
  ASSUME FetchTypeOK, FetchInv, FetchNext
  PROVE  FetchInv'
<1>1. /\ elapsed \in Nat /\ elapsed' \in Nat /\ bodySize \in Nat /\ bodySize' \in Nat
      /\ PolicyValid' = PolicyValid /\ SendTime' = SendTime /\ ReadTime' = ReadTime
  BY FetchTypeStep DEF FetchTypeOK, PolicyValid, SendTime, ReadTime
<1>2. /\ ~PolicyValid => fetchStep' \in {"start", "done"} /\ elapsed' = 0
      /\ PolicyValid => elapsed' < TotalTimeout + SendTime
  <2>1. CASE Start
    BY <2>1 DEF Start, FetchInv, End, Goto
  <2>2. CASE Resolve
    BY <1>1, <2>2, FetchMoves, SendIsLongest DEF Resolve, FetchInv, Late
  <2>3. CASE Send
    BY <1>1, <2>3, FetchMoves, SendIsLongest DEF Send, FetchInv, Late
  <2>4. CASE Redirect \/ Accept
    BY <1>1, <2>4, FetchMoves DEF Redirect, Accept, FetchInv
  <2>5. CASE Chunk \/ EndOfBody \/ StreamBreaks
    BY <1>1, <2>5, FetchMoves, SendIsLongest DEF Chunk, EndOfBody, StreamBreaks, FetchInv
  <2>6. QED
    BY <2>1, <2>2, <2>3, <2>4, <2>5 DEF FetchNext
<1>3. PolicyValid => bodySize' <= MaxBytes
  BY <1>1, SendIsLongest DEF FetchInv, FetchNext, Start, Resolve, Send, Redirect, Accept,
     Chunk, EndOfBody, StreamBreaks
<1>4. fetchStep' # "start"
  BY FetchMoves, FetchAssumption DEF Codes
<1>5. fetchStep' = "body" => elapsed' < TotalTimeout
  <2>1. fetchStep' = "body" => Accept \/ Chunk
    BY FetchMoves DEF FetchNext, Start, Resolve, Send, Answer, Redirect, EndOfBody,
       StreamBreaks, End, Goto
  <2>2. CASE Accept
    BY <1>1, <2>2, SendIsLongest, FetchMoves DEF Accept, Late, End, Goto
  <2>3. CASE Chunk
    BY <1>1, <2>3, SendIsLongest, FetchMoves DEF Chunk, Late, End, Goto
  <2>4. QED
    BY <2>1, <2>2, <2>3
<1>6. /\ fetchStep' # "done" => result' = NoResult
      /\ result' = "document" =>
           PolicyValid /\ bodySize' # 0 /\ elapsed' < TotalTimeout + ReadTime
  BY <1>1, FetchMoves, SendIsLongest DEF EndOfBody, FetchInv, Codes, NoResult
<1>7. fetchStep' # "done" => Form[url'] # "unpreparable"
  BY FetchMoves DEF FetchNext, Start, Resolve, Send, Redirect, Accept, Chunk, EndOfBody,
     StreamBreaks, End, Goto, FetchInv
<1>8. QED
  BY <1>1, <1>2, <1>3, <1>4, <1>5, <1>6, <1>7 DEF FetchInv

(* Whatever the policy, the targets, the server and the network do, a       *)
(* download outlasts its deadline by less than one send, and a document by  *)
(* less than one read; none is empty or over the limit (feed_fetch.py).     *)
THEOREM DownloadsAreBounded == FetchSpec => []FetchBounded
<1>1. FetchInit => FetchTypeOK /\ FetchInv
  BY FetchTyped, SendIsLongest DEF FetchInit, FetchInv, NoResult
<1>2. FetchTypeOK /\ FetchInv /\ [FetchNext]_fetchVars => (FetchTypeOK /\ FetchInv)'
  <2>1. FetchTypeOK /\ FetchInv /\ UNCHANGED fetchVars => (FetchTypeOK /\ FetchInv)'
    BY DEF fetchVars, FetchTypeOK, FetchInv, PolicyValid, SendTime, ReadTime
  <2>2. QED
    BY <2>1, FetchTypeStep, FetchStep
<1>3. FetchTypeOK /\ FetchInv => FetchBounded
  BY SendIsLongest DEF FetchTypeOK, FetchInv, FetchBounded
<1>4. QED
  BY <1>1, <1>2, <1>3, PTL DEF FetchSpec
-----------------------------------------------------------------------------
(* The check of the backups                                                 *)

(* Unless a mail went out and was forgotten, the stored state is what was   *)
(* mailed last, or a first "ok" that nobody was told of.                    *)
StateTellsMail ==
  IF monitorState = NoState THEN mail = NoMail
  ELSE IF monitorState.notified = NotNotified
       THEN monitorState.severity = "ok" /\ mail = NoMail
       ELSE mail = [severity |-> monitorState.severity, at |-> monitorState.notified]

MonitorInv ==
  /\ ~forgotten => StateTellsMail
  /\ check.step = "storeMailed" =>
       mail = [severity |-> check.severity, at |-> check.now]
  /\ check.step = "store" => monitorState = NoState /\ check.severity = "ok"

LEMMA SeverityTyped ==
  ASSUME NEW now
  PROVE  SeverityAt(now) \in Severities
<1>1. \A age : Classify(age) \in Severities
  BY DEF Classify, Severities
<1>2. QED
  BY <1>1 DEF SeverityAt, Severities

LEMMA MonitorTyped ==
  ASSUME MonitorTypeOK, [MonitorNext]_monitorVars
  PROVE  MonitorTypeOK'
<1> DEFINE Checks0 == [step: {"idle", "notify", "store", "storeMailed", "done"},
                       severity: Severities, now: Times]
<1>0. /\ monitorClock \in 0..MonitorHours /\ MonitorHours \in Nat
      /\ monitorClock \in Times /\ monitorClock + 1 \in Times
      /\ NoCheck \in Checks0
  BY MonitorAssumption DEF MonitorTypeOK, NoCheck, Times, Severities
<1>1. CASE MonitorTick
  BY <1>0, <1>1 DEF MonitorTick, MonitorTypeOK
<1>2. CASE ReceiveBackup
  BY <1>0, <1>2 DEF ReceiveBackup, MonitorTypeOK
<1>3. CASE Spoil
  BY <1>3 DEF Spoil, MonitorTypeOK
<1>4. CASE Inspect
  <2>1. check' \in Checks0
    BY <1>0, <1>4, SeverityTyped DEF Inspect
  <2>2. QED
    BY <1>4, <2>1 DEF Inspect, MonitorTypeOK
<1>5. CASE Notify
  BY <1>5 DEF Notify, MonitorTypeOK
<1>6. CASE Store
  BY <1>6 DEF Store, MonitorTypeOK
<1>7. CASE Abort
  BY <1>0, <1>7 DEF Abort, MonitorTypeOK
<1>8. CASE UNCHANGED monitorVars
  BY <1>8 DEF monitorVars, MonitorTypeOK
<1>9. QED
  BY <1>1, <1>2, <1>3, <1>4, <1>5, <1>6, <1>7, <1>8 DEF MonitorNext

LEMMA MonitorStep ==
  ASSUME MonitorTypeOK, MonitorInv, AdministratorsKnow, [MonitorNext]_monitorVars
  PROVE  MonitorInv' /\ AdministratorsKnow'
<1>0. /\ check \in [step: {"idle", "notify", "store", "storeMailed", "done"},
                    severity: Severities, now: Times]
      /\ Times \subseteq Nat /\ NotNotified \notin Times /\ NoState.severity \notin Severities
      /\ ReminderInterval \in Int /\ 0 < ReminderInterval /\ \A t \in Times : t \in Int
  BY MonitorAssumption DEF MonitorTypeOK, Times, NotNotified, NoState, Severities
<1>1. CASE MonitorTick \/ ReceiveBackup \/ Spoil \/ UNCHANGED monitorVars
  <2>1. UNCHANGED <<monitorState, check, mail, forgotten>>
    BY <1>1 DEF MonitorTick, ReceiveBackup, Spoil, monitorVars
  <2>2. QED
    BY <2>1 DEF MonitorInv, StateTellsMail, AdministratorsKnow
<1>2. CASE Inspect
  <2>1. UNCHANGED <<monitorState, mail, forgotten>>
    BY <1>2 DEF Inspect
  <2>2. /\ check'.step # "storeMailed"
        /\ check'.step = "store" => monitorState = NoState /\ ~Required(check'.severity, check'.now)
        /\ check'.step = "done" => monitorState # NoState /\ ~Required(check'.severity, check'.now)
    BY <1>2 DEF Inspect
  <2>3. MonitorInv'
    BY <2>1, <2>2 DEF MonitorInv, StateTellsMail, Required
  <2>4. AdministratorsKnow'
    <3> SUFFICES ASSUME check'.step = "done", ~forgotten
                 PROVE  IF check'.severity = "ok"
                        THEN mail = NoMail \/ mail.severity = "ok"
                        ELSE /\ mail.severity = check'.severity
                             /\ check'.now - mail.at < ReminderInterval
      BY <2>1 DEF AdministratorsKnow
    <3>1. /\ monitorState.severity = check'.severity
          /\ check'.severity # "ok" =>
               /\ monitorState.notified # NotNotified
               /\ ~(check'.now - monitorState.notified >= ReminderInterval)
      BY <2>2 DEF Required
    <3>2. monitorState.notified \in Times \cup {NotNotified} /\ check'.now \in Times
      BY <2>2, MonitorTyped DEF MonitorTypeOK
    <3>3. CASE monitorState.notified = NotNotified
      BY <2>2, <3>1, <3>3 DEF MonitorInv, StateTellsMail
    <3>4. CASE monitorState.notified # NotNotified
      <4>1. mail.severity = monitorState.severity /\ mail.at = monitorState.notified
        BY <2>2, <3>4 DEF MonitorInv, StateTellsMail
      <4>2. monitorState.notified \in Int /\ check'.now \in Int
        BY <1>0, <3>2, <3>4
      <4>3. check'.severity # "ok" => check'.now - monitorState.notified < ReminderInterval
        BY <1>0, <3>1, <4>2
      <4>4. QED
        BY <3>1, <4>1, <4>3
    <3>5. QED
      BY <3>3, <3>4
  <2>5. QED
    BY <2>3, <2>4
<1>3. CASE Notify
  BY <1>0, <1>3 DEF Notify, MonitorInv, AdministratorsKnow
<1>4. CASE Store
  <2>1. /\ check'.step = "done" /\ check'.severity = check.severity /\ check'.now = check.now
        /\ mail' = mail /\ check.severity \in Severities /\ check.now \in Times
    BY <1>0, <1>4 DEF Store
  <2>2. CASE check.step = "store"
    <3>1. /\ monitorState'.severity = "ok" /\ monitorState'.notified = NotNotified
          /\ forgotten' = forgotten /\ monitorState' # NoState /\ check.severity = "ok"
      BY <1>0, <1>4, <2>2 DEF Store, MonitorInv, NoState
    <3>2. ~forgotten => mail = NoMail
      BY <2>2 DEF MonitorInv, StateTellsMail
    <3>3. QED
      BY <2>1, <3>1, <3>2 DEF MonitorInv, StateTellsMail, AdministratorsKnow
  <2>3. CASE check.step = "storeMailed"
    <3>1. /\ monitorState'.severity = check.severity /\ monitorState'.notified = check.now
          /\ monitorState' # NoState
      BY <1>0, <1>4, <2>3 DEF Store, NoState
    <3>2. mail = [severity |-> check.severity, at |-> check.now]
      BY <2>3 DEF MonitorInv
    <3>3. mail.severity = check.severity /\ mail.at = check.now
      BY <3>2
    <3>4. AdministratorsKnow'
      <4>1. check.now \in Int
        BY <1>0, <2>1
      <4>2. check.now - check.now < ReminderInterval
        BY <1>0, <4>1
      <4>3. QED
        BY <2>1, <3>3, <4>2 DEF AdministratorsKnow
    <3>5. StateTellsMail'
      BY <1>0, <2>1, <3>1, <3>2 DEF StateTellsMail
    <3>6. QED
      BY <2>1, <3>4, <3>5 DEF MonitorInv
  <2>4. QED
    BY <1>4, <2>2, <2>3 DEF Store
<1>5. CASE Abort
  BY <1>5 DEF Abort, NoCheck, MonitorInv, StateTellsMail, AdministratorsKnow
<1>6. QED
  BY <1>1, <1>2, <1>3, <1>4, <1>5 DEF MonitorNext

(* For any ages and any reminder interval: when a check completes, the      *)
(* administrators have been told of what it found, at most that long ago,   *)
(* over checks that failed, died or could not mail                          *)
(* (postgres_backup_monitor.py).                                            *)
THEOREM AdministratorsAreInformed == MonitorSpec => []AdministratorsKnow
<1>1. MonitorInit => MonitorTypeOK /\ MonitorInv /\ AdministratorsKnow
  <2> SUFFICES ASSUME MonitorInit
               PROVE  MonitorTypeOK /\ MonitorInv /\ AdministratorsKnow
    OBVIOUS
  <2>1. 0 \in 0..MonitorHours /\ 0 \in Times /\ "ok" \in Severities
    BY MonitorAssumption DEF Times, Severities
  <2>2. MonitorTypeOK
    BY <2>1 DEF MonitorInit, MonitorTypeOK, NoCheck
  <2>3. QED
    BY <2>2 DEF MonitorInit, MonitorInv, AdministratorsKnow, StateTellsMail, NoCheck
<1>2. MonitorTypeOK /\ MonitorInv /\ AdministratorsKnow /\ [MonitorNext]_monitorVars
        => (MonitorTypeOK /\ MonitorInv /\ AdministratorsKnow)'
  BY MonitorTyped, MonitorStep
<1>3. QED
  BY <1>1, <1>2, PTL DEF MonitorSpec

-----------------------------------------------------------------------------
(* The restore drill                                                        *)

(* The next removal is the first that is left.                              *)
LEMMA NextRemovalFacts ==
  ASSUME removals \subseteq Resources, removals # {}
  PROVE  /\ NextRemoval \in removals
         /\ \A s \in removals : RemovalOrder[NextRemoval] <= RemovalOrder[s]
<1>1. \E r \in removals : \A s \in removals : RemovalOrder[r] <= RemovalOrder[s]
  <2>1. CASE "environment" \in removals
    BY <2>1 DEF RemovalOrder, Resources
  <2>2. CASE "environment" \notin removals /\ "container" \in removals
    BY <2>2 DEF RemovalOrder, Resources
  <2>3. CASE "environment" \notin removals /\ "container" \notin removals /\ "volume" \in removals
    BY <2>3 DEF RemovalOrder, Resources
  <2>4. CASE removals = {"network"}
    BY <2>4 DEF RemovalOrder, Resources
  <2>5. QED
    BY <2>1, <2>2, <2>3, <2>4 DEF Resources
<1>2. QED
  BY <1>1 DEF NextRemoval

(* Before the clean-up the drill knows all it has created; from then on     *)
(* what is left is on its list, unless a command failed after creating      *)
(* something or a removal failed on its own.                                *)
DrillInv ==
  /\ phase = "working" =>
       /\ created = existing /\ checks = UNION {Ticks[DrillWork[i]] : i \in 1..(position - 1)}
       /\ ~failed /\ ~interrupted /\ cleanupOk /\ ~unclean
       /\ evidence = "none" /\ position <= Len(DrillWork)
  /\ phase # "working" =>
       /\ drillFaults = 0 /\ ~unclean => existing \subseteq removals
       /\ cleanupOk /\ ~unclean => existing \subseteq removals
       /\ ~failed /\ ~interrupted => checks = Checks /\ ~unclean
  /\ phase \in {"report", "over"} /\ ~interrupted => removals = {}
  /\ phase \in {"report", "cleanup"} => evidence = "none"
  /\ phase = "report" => ~interrupted
  /\ evidence = "passed" => ~failed /\ ~interrupted /\ cleanupOk

LEMMA WorkFacts ==
  /\ Len(DrillWork) = 12
  /\ DOMAIN DrillWork = 1..12
  /\ ToSet(DrillWork) = {DrillWork[i] : i \in 1..12}
BY DEF DrillWork, ToSet

LEMMA DrillTyped ==
  ASSUME DrillTypeOK, [DrillNext]_drillVars
  PROVE  DrillTypeOK'
<1>0. position \in 1..13 /\ DOMAIN Ticks = ToSet(DrillWork)
  BY WorkFacts DEF DrillTypeOK, Ticks
<1>1. CASE StepSucceeds
  <2>1. position \in 1..12 /\ Ticks[DrillWork[position]] \subseteq Checks
    BY <1>0, <1>1, WorkFacts DEF StepSucceeds, Working, Checks
  <2>2. QED
    BY <1>1, <2>1, WorkFacts DEF StepSucceeds, CleanUp, DrillTypeOK
<1>2. CASE StepFails
  <2>1. PICK effect \in SUBSET ({DrillWork[position]} \cap Resources), interrupt \in BOOLEAN :
          /\ existing' = existing \cup effect
          /\ created' = created \cup (effect \cap {"environment"})
          /\ unclean' = (effect \notin {{}, {"environment"}})
          /\ failed' = ~interrupt /\ interrupted' = interrupt
    BY <1>2 DEF StepFails
  <2>2. existing' \subseteq Resources /\ created' \subseteq Resources
    BY <2>1 DEF DrillTypeOK
  <2>3. unclean' \in BOOLEAN /\ failed' \in BOOLEAN /\ interrupted' \in BOOLEAN
    BY <2>1
  <2>4. removals' = created' /\ phase' = "cleanup"
    BY <1>2 DEF StepFails, CleanUp
  <2>5. UNCHANGED <<position, checks, cleanupOk, drillFaults, evidence>>
    BY <1>2 DEF StepFails
  <2>6. QED
    BY <2>2, <2>3, <2>4, <2>5 DEF DrillTypeOK
<1>3. CASE RemoveNext \/ RemoveFails \/ InterruptCleanUp \/ CleanedUp
  <2>1. existing' \subseteq Resources /\ removals' \subseteq Resources
    BY <1>3 DEF RemoveNext, RemoveFails, InterruptCleanUp, CleanedUp, DrillTypeOK
  <2>2. drillFaults' \in 0..MaxDrillFaults
    BY <1>3, DrillAssumption DEF RemoveNext, RemoveFails, InterruptCleanUp, CleanedUp,
       DrillTypeOK
  <2>3. /\ phase' \in {"working", "cleanup", "report", "over"}
        /\ interrupted' \in BOOLEAN /\ cleanupOk' \in BOOLEAN
        /\ UNCHANGED <<position, created, checks, failed, unclean, evidence>>
    BY <1>3 DEF RemoveNext, RemoveFails, InterruptCleanUp, CleanedUp, DrillTypeOK
  <2>4. QED
    BY <2>1, <2>2, <2>3 DEF DrillTypeOK
<1>4. CASE Report
  BY <1>4 DEF Report, DrillTypeOK
<1>5. CASE UNCHANGED drillVars
  BY <1>5 DEF drillVars, DrillTypeOK
<1>6. QED
  BY <1>1, <1>2, <1>3, <1>4, <1>5 DEF DrillNext

(* No removal is refused because its container is still there: the          *)
(* container goes first.                                                    *)
LEMMA NothingInUse ==
  ASSUME DrillTypeOK, removals # {}, existing \subseteq removals
  PROVE  ~InUse(NextRemoval)
BY NextRemovalFacts DEF DrillTypeOK, InUse, RemovalOrder, Resources

LEMMA DrillStep ==
  ASSUME DrillTypeOK, DrillInv, [DrillNext]_drillVars
  PROVE  DrillInv'
<1>1. CASE StepSucceeds
  <2>1. /\ phase = "working" /\ position \in 1..12
        /\ created' = existing' /\ position' = position + 1
        /\ checks' = checks \cup Ticks[DrillWork[position]]
        /\ UNCHANGED <<failed, interrupted, cleanupOk, drillFaults, unclean, evidence>>
    BY <1>1, WorkFacts DEF StepSucceeds, Working, DrillInv, DrillTypeOK
  <2>2. checks' = UNION {Ticks[DrillWork[i]] : i \in 1..position}
    <3>1. 1..position = 1..(position - 1) \cup {position}
      BY <2>1
    <3>2. checks = UNION {Ticks[DrillWork[i]] : i \in 1..(position - 1)}
      BY <2>1 DEF DrillInv
    <3>3. QED
      BY <2>1, <3>1, <3>2
  <2>3. CASE position = 12
    <3>1. phase' = "cleanup" /\ removals' = created'
      BY <1>1, <2>3, WorkFacts DEF StepSucceeds, CleanUp
    <3>2. checks' = Checks
      BY <2>2, <2>3, WorkFacts DEF Checks
    <3>3. QED
      BY <2>1, <3>1, <3>2 DEF DrillInv
  <2>4. CASE position # 12
    <3>1. phase' = "working" /\ position' - 1 = position /\ position' <= Len(DrillWork)
      BY <1>1, <2>1, <2>4, WorkFacts DEF StepSucceeds
    <3>2. checks' = UNION {Ticks[DrillWork[i]] : i \in 1..(position' - 1)}
      BY <2>2, <3>1
    <3>3. QED
      BY <2>1, <3>1, <3>2 DEF DrillInv
  <2>5. QED
    BY <2>3, <2>4
<1>2. CASE StepFails
  <2>1. PICK effect \in SUBSET ({DrillWork[position]} \cap Resources), interrupt \in BOOLEAN :
          /\ existing' = existing \cup effect
          /\ created' = created \cup (effect \cap {"environment"})
          /\ unclean' = (effect \notin {{}, {"environment"}})
          /\ failed' = ~interrupt /\ interrupted' = interrupt
    BY <1>2 DEF StepFails
  <2>2. /\ phase = "working" /\ phase' = "cleanup" /\ removals' = created'
        /\ UNCHANGED <<position, checks, cleanupOk, drillFaults, evidence>>
    BY <1>2 DEF StepFails, CleanUp, Working
  <2>3. ~unclean' => existing' \subseteq removals'
    BY <2>1, <2>2 DEF DrillInv
  <2>4. failed' \/ interrupted'
    BY <2>1
  <2>5. QED
    BY <2>2, <2>3, <2>4 DEF DrillInv
<1>3. CASE RemoveNext
  BY <1>3 DEF RemoveNext, DrillInv
<1>4. CASE RemoveFails
  <2>1. drillFaults' = 0 /\ ~unclean' => FALSE
    <3>1. drillFaults' = 0 => InUse(NextRemoval) /\ drillFaults = 0
      BY <1>4 DEF RemoveFails, DrillTypeOK
    <3>2. drillFaults = 0 /\ ~unclean => existing \subseteq removals
      BY <1>4 DEF RemoveFails, DrillInv
    <3>3. QED
      BY <1>4, <3>1, <3>2, NothingInUse DEF RemoveFails
  <2>2. QED
    BY <1>4, <2>1 DEF RemoveFails, DrillInv
<1>5. CASE InterruptCleanUp
  BY <1>5 DEF InterruptCleanUp, DrillInv
<1>6. CASE CleanedUp
  BY <1>6 DEF CleanedUp, DrillInv
<1>7. CASE Report
  BY <1>7 DEF Report, DrillInv, DrillTypeOK
<1>8. CASE UNCHANGED drillVars
  BY <1>8 DEF drillVars, DrillInv
<1>9. QED
  BY <1>1, <1>2, <1>3, <1>4, <1>5, <1>6, <1>7, <1>8 DEF DrillNext

(* However many commands fail and wherever the drill is interrupted, it     *)
(* leaves something behind only when a command failed after it had created  *)
(* something, a removal failed on its own or the clean-up was interrupted;  *)
(* and one that passed made every check (postgres_restore_verify.py).       *)
THEOREM DrillsCleanUp == DrillSpec => []DrillCleansUp
<1>1. DrillInit => DrillTypeOK /\ DrillInv
  <2> SUFFICES ASSUME DrillInit
               PROVE  DrillTypeOK /\ DrillInv
    OBVIOUS
  <2>1. 1..(position - 1) = {}
    BY DEF DrillInit
  <2>2. checks = UNION {Ticks[DrillWork[i]] : i \in 1..(position - 1)}
    BY <2>1 DEF DrillInit
  <2>3. 1 \in 1..(Len(DrillWork) + 1) /\ 0 \in 0..MaxDrillFaults
    BY DrillAssumption, WorkFacts
  <2>4. DrillTypeOK
    BY <2>3 DEF DrillInit, DrillTypeOK
  <2>5. QED
    BY <2>2, <2>4, WorkFacts DEF DrillInit, DrillInv
<1>2. DrillTypeOK /\ DrillInv /\ [DrillNext]_drillVars => (DrillTypeOK /\ DrillInv)'
  BY DrillTyped, DrillStep
<1>3. DrillTypeOK /\ DrillInv => DrillCleansUp
  <2> SUFFICES ASSUME DrillTypeOK, DrillInv, phase = "over"
               PROVE  /\ evidence = "passed" => checks = Checks /\ existing = {}
                      /\ existing # {} => unclean \/ drillFaults > 0 \/ removals # {}
    BY DEF DrillCleansUp
  <2>1. QED
    BY DEF DrillTypeOK, DrillInv
<1>4. QED
  BY <1>1, <1>2, <1>3, PTL DEF DrillSpec

-----------------------------------------------------------------------------
(* The recovery points over the years                                       *)

(* A receipt of the timer's hours, and the first of its day, of its week and *)
(* among the first ones of the weeks of its month: that one only does the     *)
(* month's tier find, the others having left with the weekly one.             *)
IsReceipt(p) == p % 24 \in BackupHours
FirstOfDay(p) == \A q \in 0..(p - 1) : IsReceipt(q) => Day(q) # Day(p)
FirstOfWeek(p) ==
  \A q \in 0..(p - 1) : IsReceipt(q) => IsoWeek(Day(q)) # IsoWeek(Day(p))
SameMonth(p, q) == Year(Day(q)) = Year(Day(p)) /\ Month(Day(q)) = Month(Day(p))
FirstOfMonth(p) ==
  /\ FirstOfWeek(p)
  /\ \A q \in 0..(p - 1) : IsReceipt(q) /\ FirstOfWeek(q) => ~SameMonth(p, q)

(* What a pass at `now' leaves of all the receipts there ever were: the tiers *)
(* read as a property of the receipt alone, whatever was deleted before.      *)
Survives(p, now) ==
  \/ now - p <= Days(7)
  \/ now - p <= Days(30) /\ FirstOfDay(p)
  \/ now - p <= Days(90) /\ FirstOfWeek(p)
  \/ now - p <= Days(365) /\ FirstOfMonth(p)

LastPass == hour - 1 - ((hour - 1 - PassHour) % 24)

LEMMA SameDay ==
  ASSUME NEW p \in Nat, NEW q \in Nat, Day(p) = Day(q)
  PROVE  p - q < 24
BY DEF Day

LEMMA SameWeek ==
  ASSUME NEW p \in Nat, NEW q \in Nat, firstWeekday \in 0..6,
         IsoWeek(Day(p)) = IsoWeek(Day(q))
  PROVE  p - q < Days(7)
BY DEF Day, IsoWeek, Days

LEMMA MonthFacts ==
  ASSUME NEW d \in Nat
  PROVE  /\ Month(d) \in 1..12
         /\ d % 365 < MonthEnds[Month(d)]
         /\ Month(d) = 1 \/ d % 365 >= MonthEnds[Month(d) - 1]
<1>1. d % 365 \in 0..364
  OBVIOUS
<1>2. \E m \in 1..12 : d % 365 < MonthEnds[m] /\ (m = 1 \/ d % 365 >= MonthEnds[m - 1])
  BY <1>1 DEF MonthEnds
<1>3. QED
  BY <1>2 DEF Month

LEMMA LastPassFacts ==
  ASSUME hour \in Nat, PassHour \in 0..23
  PROVE  /\ LastPass \in Int /\ LastPass < hour /\ LastPass >= hour - 24
         /\ LastPass % 24 = PassHour
BY DEF LastPass

LEMMA MonthSpan ==
  ASSUME NEW d \in Nat, NEW e \in Nat, Year(d) = Year(e), Month(d) = Month(e)
  PROVE  d - e < 31
<1>1. /\ Month(d) \in 1..12
      /\ d % 365 < MonthEnds[Month(d)] /\ e % 365 < MonthEnds[Month(d)]
      /\ Month(d) = 1 \/ (d % 365 >= MonthEnds[Month(d) - 1] /\ e % 365 >= MonthEnds[Month(d) - 1])
  BY MonthFacts
<1>2. (d % 365) - (e % 365) < 31
  <2> HIDE DEF Month
  <2> DEFINE m == Month(d)
            x == d % 365
            y == e % 365
  <2>1. /\ m \in 1..12 /\ x \in 0..364 /\ y \in 0..364
        /\ x < MonthEnds[m] /\ (m = 1 \/ y >= MonthEnds[m - 1])
    BY <1>1
  <2> HIDE DEF m, x, y
  <2>2. MonthEnds[1] = 31 /\ \A i \in 2..12 : MonthEnds[i] - MonthEnds[i - 1] <= 31
    BY DEF MonthEnds
  <2>3. \A i \in 1..12 : MonthEnds[i] \in Nat
    BY DEF MonthEnds
  <2>4. x - y < 31
    <3>1. CASE m = 1
      BY <2>1, <2>2, <3>1
    <3>2. CASE m # 1
      <4>1. m \in 2..12 /\ m - 1 \in 1..12
        BY <2>1, <3>2
      <4>2. /\ MonthEnds[m] - MonthEnds[m - 1] <= 31
            /\ MonthEnds[m] \in Nat /\ MonthEnds[m - 1] \in Nat
        BY <2>2, <2>3, <4>1
      <4>3. QED
        BY <2>1, <3>2, <4>2
    <3>3. QED
      BY <3>1, <3>2
  <2>5. QED
    BY <2>4 DEF x, y
<1>3. d \div 365 = e \div 365
  BY DEF Year
<1>4. QED
  BY <1>2, <1>3

(* The months of the calendar in a row: a span of 275 days meets at most 11.  *)
MonthNumber(d) == 12 * Year(d) + Month(d)

LEMMA MonthsApart ==
  ASSUME NEW d \in Nat, NEW e \in Nat, e - d <= 275
  PROVE  MonthNumber(e) - MonthNumber(d) <= 10
<1> DEFINE m == Month(d)
           n == Month(e)
           x == d % 365
           y == e % 365
           v == d \div 365
           w == e \div 365
<1>1. /\ m \in 1..12 /\ n \in 1..12 /\ x \in 0..364 /\ y \in 0..364
      /\ x < MonthEnds[m] /\ (n = 1 \/ y >= MonthEnds[n - 1])
  BY MonthFacts
<1>2. v \in Nat /\ w \in Nat /\ d = 365 * v + x /\ e = 365 * w + y
  OBVIOUS
<1>3. MonthNumber(e) - MonthNumber(d) = 12 * (w - v) + n - m
  BY <1>1, <1>2 DEF MonthNumber, Year
<1> HIDE DEF m, n, x, y, v, w
<1>4. /\ 12 * x < 365 * m + 7
      /\ 12 * y >= 365 * (n - 1) - 22
  BY <1>1 DEF MonthEnds
<1>5. 12 * (w - v) + n - m <= 10
  BY <1>1, <1>2, <1>4
<1>6. QED
  BY <1>3, <1>5

(* A bucket that has receipts has a first one.                               *)
LEMMA FirstHour ==
  ASSUME NEW S, S \subseteq Nat, S # {}
  PROVE  \E m \in S : \A n \in S : m <= n
<1>1. PICK m \in S : \A n \in S : <<n, m>> \notin OpToRel(<, Nat)
  BY NatLessThanWellFounded, WFMin
<1>2. \A n \in S : ~(n < m)
  BY <1>1 DEF OpToRel
<1>3. QED
  BY <1>2

LEMMA NextEventFacts ==
  ASSUME hour \in Nat
  PROVE  /\ NextEvent \in (hour + 1)..(hour + 24)
         /\ NextEvent % 24 \in EventHours
         /\ \A g \in (hour + 1)..(NextEvent - 1) : g % 24 \notin EventHours
<1> DEFINE S == {h \in (hour + 1)..(hour + 24) : h % 24 \in EventHours}
<1>1. S \subseteq Nat
  OBVIOUS
<1>2. S # {}
  <2> DEFINE h == hour + 24 - ((hour - PassHour) % 24)
  <2>1. PassHour \in 0..23
    BY CapacityAssumption
  <2>2. h \in (hour + 1)..(hour + 24) /\ h % 24 = PassHour
    BY <2>1
  <2>3. QED
    BY <2>2 DEF EventHours
<1>3. PICK m \in S : \A n \in S : m <= n
  BY <1>1, <1>2, FirstHour
<1>4. \A g \in (hour + 1)..(m - 1) : g % 24 \notin EventHours
  BY <1>3
<1>5. QED
  BY <1>3, <1>4 DEF NextEvent

(* The history's type: no event falls after the day that follows the bound.  *)
THEOREM YearsTyped == YearsSpec => []YearsTypeOK
<1>1. YearsInit => YearsTypeOK
  BY CapacityAssumption DEF YearsInit, YearsTypeOK, Days
<1>2. YearsTypeOK /\ [YearsNext]_yearsVars => YearsTypeOK'
  <2> SUFFICES ASSUME YearsTypeOK, [YearsNext]_yearsVars PROVE YearsTypeOK'
    OBVIOUS
  <2> USE DEF YearsTypeOK
  <2>1. hour \in Nat /\ Days(MaxDay) \in Nat
    BY CapacityAssumption DEF Days
  <2>2. ASSUME Day(hour) < MaxDay, hour' = NextEvent
        PROVE  /\ hour' \in 0..(Days(MaxDay) + 24)
               /\ hour \in 0..(hour' - 1) /\ 0..(hour - 1) \subseteq 0..(hour' - 1)
    <3>1. hour < Days(MaxDay)
      BY <2>1, <2>2, CapacityAssumption DEF Day, Days
    <3>2. NextEvent \in (hour + 1)..(hour + 24)
      BY <2>1, NextEventFacts
    <3>3. QED
      BY <2>1, <2>2, <3>1, <3>2
  <2>3. CASE ReceivePoint
    BY <2>2, <2>3 DEF ReceivePoint
  <2>4. CASE Maintain
    <3>1. Retained(hour) \subseteq points
      BY DEF Retained
    <3>2. {[point |-> p, at |-> hour] : p \in points \ Retained(hour)}
            \subseteq [point: 0..(hour' - 1), at: 0..(hour' - 1)]
      BY <2>2, <2>4 DEF Maintain
    <3>3. QED
      BY <2>2, <2>4, <3>1, <3>2 DEF Maintain
  <2>5. CASE UNCHANGED yearsVars
    BY <2>5 DEF yearsVars
  <2>6. QED
    BY <2>3, <2>4, <2>5 DEF YearsNext
<1>3. QED
  BY <1>1, <1>2, PTL DEF YearsSpec

LEMMA SurvivesFacts ==
  ASSUME firstWeekday \in 0..6
  PROVE  /\ \A p \in Nat : FirstOfMonth(p) => FirstOfWeek(p)
         /\ \A p \in Nat : FirstOfWeek(p) => FirstOfDay(p)
         /\ \A p \in Nat, m, n \in Int : Survives(p, n) /\ m <= n => Survives(p, m)
<1>1. \A p \in Nat : FirstOfMonth(p) => FirstOfWeek(p)
  BY DEF FirstOfMonth
<1>2. \A p \in Nat : FirstOfWeek(p) => FirstOfDay(p)
  BY DEF FirstOfWeek, FirstOfDay, IsoWeek
<1>3. \A p \in Nat, m, n \in Int : Survives(p, n) /\ m <= n => Survives(p, m)
  BY DEF Survives, Days
<1>4. QED
  BY <1>1, <1>2, <1>3

LEMMA DayBegins ==
  ASSUME NEW p \in Nat, IsReceipt(p)
  PROVE  \E q \in 0..p : IsReceipt(q) /\ Day(q) = Day(p) /\ FirstOfDay(q)
<1> DEFINE S == {q \in 0..p : IsReceipt(q) /\ Day(q) = Day(p)}
<1>1. S \subseteq Nat /\ p \in S
  OBVIOUS
<1>2. PICK q \in S : \A r \in S : q <= r
  BY <1>1, FirstHour
<1>3. FirstOfDay(q)
  BY <1>2 DEF FirstOfDay
<1>4. QED
  BY <1>2, <1>3

LEMMA WeekBegins ==
  ASSUME NEW p \in Nat, IsReceipt(p)
  PROVE  \E q \in 0..p : IsReceipt(q) /\ IsoWeek(Day(q)) = IsoWeek(Day(p)) /\ FirstOfWeek(q)
<1> DEFINE S == {q \in 0..p : IsReceipt(q) /\ IsoWeek(Day(q)) = IsoWeek(Day(p))}
<1>1. S \subseteq Nat /\ p \in S
  OBVIOUS
<1>2. PICK q \in S : \A r \in S : q <= r
  BY <1>1, FirstHour
<1>3. FirstOfWeek(q)
  BY <1>2 DEF FirstOfWeek
<1>4. QED
  BY <1>2, <1>3

LEMMA MonthBegins ==
  ASSUME NEW p \in Nat, IsReceipt(p), FirstOfWeek(p)
  PROVE  \E q \in 0..p : IsReceipt(q) /\ SameMonth(p, q) /\ FirstOfMonth(q)
<1> DEFINE S == {q \in 0..p : IsReceipt(q) /\ FirstOfWeek(q) /\ SameMonth(p, q)}
<1>1. S \subseteq Nat /\ p \in S
  BY DEF SameMonth
<1>2. PICK q \in S : \A r \in S : q <= r
  BY <1>1, FirstHour
<1>3. \A r \in 0..(q - 1) : IsReceipt(r) /\ FirstOfWeek(r) => ~SameMonth(q, r)
  BY <1>2 DEF SameMonth
<1>4. FirstOfMonth(q)
  BY <1>2, <1>3 DEF FirstOfMonth
<1>5. QED
  BY <1>2, <1>4

(* The receipts so far that a pass at `now' would keep.                      *)
Surviving(now) == {p \in 0..(hour - 1) : IsReceipt(p) /\ Survives(p, now)}

LEMMA NewestIsRecent ==
  ASSUME hour \in Nat, points = Surviving(hour - 24),
         NEW p \in points, \A q \in points : q <= p
  PROVE  hour - p <= 24
<1> DEFINE r == hour - 1 - ((hour - 1 - p) % 24)
<1>1. p \in 0..(hour - 1) /\ IsReceipt(p)
  BY DEF Surviving
<1>2. r \in p..(hour - 1) /\ hour - r <= 24 /\ r % 24 = p % 24
  BY <1>1
<1>3. IsReceipt(r) /\ Survives(r, hour - 24)
  BY <1>1, <1>2 DEF IsReceipt, Survives, Days
<1>4. r \in points
  BY <1>1, <1>2, <1>3 DEF Surviving
<1>5. QED
  BY <1>1, <1>2, <1>4

LEMMA BucketsDiffer ==
  ASSUME NEW p \in Nat, NEW q \in Nat, NEW now \in Int, Bucket(p, now) = Bucket(q, now)
  PROVE  /\ now - p <= Days(30) => now - q <= Days(30) /\ Day(q) = Day(p)
         /\ Days(30) < now - p /\ now - p <= Days(90)
              => /\ Days(30) < now - q /\ now - q <= Days(90)
                 /\ IsoWeek(Day(q)) = IsoWeek(Day(p))
         /\ Days(90) < now - p => Days(90) < now - q /\ SameMonth(p, q)
<1>1. /\ Days(30) = 720 /\ Days(90) = 2160
      /\ \A n \in Nat : now - n \in Int
  BY DEF Days
<1>2. \A n \in Nat : now - n <= 720 => Bucket(n, now) = <<"day", Day(n)>>
  BY <1>1 DEF Bucket
<1>3. \A n \in Nat : 720 < now - n /\ now - n <= 2160
                      => Bucket(n, now) = <<"week", IsoWeek(Day(n))>>
  BY <1>1 DEF Bucket
<1>4. \A n \in Nat : 2160 < now - n
                      => Bucket(n, now) = <<"month", Year(Day(n)), Month(Day(n))>>
  BY <1>1 DEF Bucket
<1>5. CASE now - p <= 720
  <2>1. Bucket(q, now) = <<"day", Day(p)>>
    BY <1>2, <1>5
  <2>2. now - q <= 720
    <3>1. ~(2160 < now - q)
      BY <1>4, <2>1
    <3>2. ~(720 < now - q /\ now - q <= 2160)
      BY <1>3, <2>1
    <3>3. QED
      BY <1>1, <3>1, <3>2
  <2>3. Bucket(q, now) = <<"day", Day(q)>>
    BY <1>2, <2>2
  <2>4. Day(q) = Day(p)
    BY <2>1, <2>3
  <2>5. QED
    BY <1>1, <1>5, <2>2, <2>4
<1>6. CASE 720 < now - p /\ now - p <= 2160
  <2>1. Bucket(q, now) = <<"week", IsoWeek(Day(p))>>
    BY <1>3, <1>6
  <2>2. 720 < now - q /\ now - q <= 2160
    <3>1. ~(2160 < now - q)
      BY <1>4, <2>1
    <3>2. ~(now - q <= 720)
      BY <1>2, <2>1
    <3>3. QED
      BY <1>1, <3>1, <3>2
  <2>3. Bucket(q, now) = <<"week", IsoWeek(Day(q))>>
    BY <1>3, <2>2
  <2>4. IsoWeek(Day(q)) = IsoWeek(Day(p))
    BY <2>1, <2>3
  <2>5. QED
    BY <1>1, <1>6, <2>2, <2>4
<1>7. CASE 2160 < now - p
  <2>1. Bucket(q, now) = <<"month", Year(Day(p)), Month(Day(p))>>
    BY <1>4, <1>7
  <2>2. 2160 < now - q
    <3>1. ~(now - q <= 720)
      BY <1>2, <2>1
    <3>2. ~(720 < now - q /\ now - q <= 2160)
      BY <1>3, <2>1
    <3>3. QED
      BY <1>1, <3>1, <3>2
  <2>3. Bucket(q, now) = <<"month", Year(Day(q)), Month(Day(q))>>
    BY <1>4, <2>2
  <2>4. SameMonth(p, q)
    BY <2>1, <2>3 DEF SameMonth
  <2>5. QED
    BY <1>1, <1>7, <2>2, <2>4
<1>8. QED
  BY <1>1, <1>5, <1>6, <1>7

LEMMA EqualBuckets ==
  ASSUME NEW p \in Nat, NEW q \in Nat, NEW now \in Int
  PROVE  /\ /\ now - p <= Days(30) /\ now - q <= Days(30) /\ Day(q) = Day(p)
            => Bucket(p, now) = Bucket(q, now)
         /\ /\ Days(30) < now - p /\ now - p <= Days(90)
            /\ Days(30) < now - q /\ now - q <= Days(90)
            /\ IsoWeek(Day(q)) = IsoWeek(Day(p))
            => Bucket(p, now) = Bucket(q, now)
         /\ /\ Days(90) < now - p /\ Days(90) < now - q /\ SameMonth(p, q)
            => Bucket(p, now) = Bucket(q, now)
<1>1. Days(30) = 720 /\ Days(90) = 2160
  BY DEF Days
<1>2. now - p <= 720 /\ now - q <= 720 /\ Day(q) = Day(p) => Bucket(p, now) = Bucket(q, now)
  BY <1>1 DEF Bucket
<1>3. /\ 720 < now - p /\ now - p <= 2160
      /\ 720 < now - q /\ now - q <= 2160
      /\ IsoWeek(Day(q)) = IsoWeek(Day(p))
      => Bucket(p, now) = Bucket(q, now)
  BY <1>1 DEF Bucket
<1>4. 2160 < now - p /\ 2160 < now - q /\ SameMonth(p, q) => Bucket(p, now) = Bucket(q, now)
  BY <1>1 DEF Bucket, SameMonth
<1>5. QED
  BY <1>1, <1>2, <1>3, <1>4

(* retention_partition, bucket by bucket.                                    *)
LEMMA RetainedMeans ==
  ASSUME NEW now \in Int, points \subseteq Int, NEW p
  PROVE  p \in Retained(now)
         <=> /\ p \in points
             /\ \/ now - p <= Days(7)
                \/ \A q \in points : q <= p
                \/ /\ now - p > Days(7) /\ now - p <= Days(365)
                   /\ \A q \in points :
                        /\ now - q > Days(7) /\ now - q <= Days(365)
                        /\ Bucket(q, now) = Bucket(p, now)
                        => p <= q
<1> DEFINE tiered == {r \in points : now - r > Days(7) /\ now - r <= Days(365)}
           bucket == [r \in tiered |-> Bucket(r, now)]
<1>1. p \in Retained(now)
      <=> \/ p \in points /\ (now - p <= Days(7) \/ \A q \in points : q <= p)
          \/ p \in tiered /\ \A q \in tiered : bucket[q] = bucket[p] => p <= q
  BY DEF Retained
<1>2. ASSUME p \in tiered
      PROVE  (\A q \in tiered : bucket[q] = bucket[p] => p <= q)
             <=> (\A q \in tiered : Bucket(q, now) = Bucket(p, now) => p <= q)
  <2>1. \A q \in tiered : bucket[q] = Bucket(q, now)
    OBVIOUS
  <2> HIDE DEF bucket, tiered
  <2>2. QED
    BY <1>2, <2>1
<1>3. QED
  BY <1>1, <1>2

(* A pass that finds what the pass a day before left keeps exactly the        *)
(* receipts that survive it: what the buckets lost earlier is never missed,   *)
(* because a bucket's first point stays until its tier ends.                  *)
LEMMA SurvivorsAreRetained ==
  ASSUME hour \in Nat, firstWeekday \in 0..6, points = Surviving(hour - 24)
  PROVE  Surviving(hour) \subseteq Retained(hour)
<1> SUFFICES ASSUME NEW p \in Surviving(hour) PROVE p \in Retained(hour)
  OBVIOUS
<1>1. p \in 0..(hour - 1) /\ IsReceipt(p) /\ Survives(p, hour)
  BY DEF Surviving
<1>2. p \in points
  <2>1. Survives(p, hour - 24)
    BY <1>1, SurvivesFacts
  <2>2. QED
    BY <1>1, <2>1 DEF Surviving
<1>0. points \subseteq Int /\ hour \in Int
  BY DEF Surviving
<1>3. CASE hour - p <= Days(7)
  BY <1>2, <1>3, <1>0, RetainedMeans
<1>4. CASE hour - p > Days(7)
  <2>1. hour - p <= Days(365)
    BY <1>1 DEF Survives, Days
  <2> SUFFICES ASSUME NEW q \in points, Bucket(q, hour) = Bucket(p, hour)
               PROVE  p <= q
    BY <1>2, <1>4, <2>1, <1>0, RetainedMeans
  <2>2. q \in 0..(hour - 1) /\ IsReceipt(q) /\ Survives(q, hour - 24)
    BY DEF Surviving
  <2>3. SUFFICES ASSUME q < p PROVE FALSE
    BY <1>1, <2>2
  <2>4. q \in 0..(p - 1)
    BY <1>1, <2>2, <2>3
  <2>5. CASE hour - p <= Days(30)
    <3>1. Day(q) = Day(p)
      BY <1>1, <2>2, <2>5, BucketsDiffer
    <3>2. FirstOfDay(p)
      BY <1>1, <1>4, SurvivesFacts DEF Survives, Days
    <3>3. QED
      BY <2>2, <2>4, <3>1, <3>2 DEF FirstOfDay
  <2>6. CASE Days(30) < hour - p /\ hour - p <= Days(90)
    <3>1. IsoWeek(Day(q)) = IsoWeek(Day(p))
      BY <1>1, <2>2, <2>6, BucketsDiffer
    <3>2. FirstOfWeek(p)
      BY <1>1, <2>6, SurvivesFacts DEF Survives, Days
    <3>3. QED
      BY <2>2, <2>4, <3>1, <3>2 DEF FirstOfWeek
  <2>7. CASE Days(90) < hour - p
    <3>1. Days(90) < hour - q /\ SameMonth(p, q)
      BY <1>1, <2>2, <2>7, BucketsDiffer
    <3>2. FirstOfMonth(p)
      BY <1>1, <2>7 DEF Survives, Days
    <3>3. FirstOfWeek(q)
      BY <2>2, <3>1, SurvivesFacts DEF Survives, Days
    <3>4. QED
      BY <2>2, <2>4, <3>1, <3>2, <3>3 DEF FirstOfMonth
  <2>8. QED
    BY <1>1, <2>5, <2>6, <2>7 DEF Days
<1>5. QED
  BY <1>1, <1>3, <1>4 DEF Days

LEMMA RetainedSurvive ==
  ASSUME hour \in Nat, firstWeekday \in 0..6, points = Surviving(hour - 24)
  PROVE  Retained(hour) \subseteq Surviving(hour)
<1> SUFFICES ASSUME NEW p \in Retained(hour) PROVE p \in Surviving(hour)
  OBVIOUS
<1>0. points \subseteq Int /\ hour \in Int
  BY DEF Surviving
<1>1. p \in points
  BY <1>0, RetainedMeans
<1>2. p \in 0..(hour - 1) /\ IsReceipt(p) /\ Survives(p, hour - 24)
  BY <1>1 DEF Surviving
<1>3. SUFFICES Survives(p, hour)
  BY <1>2 DEF Surviving
<1>4. CASE hour - p <= Days(7)
  BY <1>4 DEF Survives
<1>5. CASE \A q \in points : q <= p
  BY <1>1, <1>2, <1>5, NewestIsRecent DEF Survives, Days
<1>6. CASE /\ hour - p > Days(7) /\ hour - p <= Days(365)
           /\ \A q \in points :
                /\ hour - q > Days(7) /\ hour - q <= Days(365)
                /\ Bucket(q, hour) = Bucket(p, hour)
                => p <= q
  <2>1. CASE hour - p <= Days(30)
    <3>1. SUFFICES ASSUME ~FirstOfDay(p) PROVE FALSE
      BY <2>1 DEF Survives
    <3>2. hour - p <= Days(8)
      BY <1>2, <3>1, SurvivesFacts DEF Survives, Days
    <3>3. PICK q \in 0..p : IsReceipt(q) /\ Day(q) = Day(p) /\ FirstOfDay(q)
      BY <1>2, DayBegins
    <3>4. q \in 0..(p - 1) /\ p - q < 24
      BY <1>2, <3>1, <3>3, SameDay
    <3>5. hour - q > Days(7) /\ hour - q <= Days(9)
      BY <1>2, <1>6, <3>2, <3>4 DEF Days
    <3>6. q \in points
      BY <1>2, <3>3, <3>4, <3>5 DEF Surviving, Survives, Days
    <3>7. Bucket(q, hour) = Bucket(p, hour)
      BY <1>2, <2>1, <3>3, <3>4, <3>5, EqualBuckets DEF Days
    <3>8. QED
      BY <1>2, <1>6, <3>4, <3>5, <3>6, <3>7 DEF Days
  <2>2. CASE Days(30) < hour - p /\ hour - p <= Days(90)
    <3>1. SUFFICES ASSUME ~FirstOfWeek(p) PROVE FALSE
      BY <2>2 DEF Survives
    <3>2. hour - p <= Days(31)
      BY <1>2, <2>2, <3>1, SurvivesFacts DEF Survives, Days
    <3>3. PICK q \in 0..p : /\ IsReceipt(q) /\ IsoWeek(Day(q)) = IsoWeek(Day(p))
                            /\ FirstOfWeek(q)
      BY <1>2, WeekBegins
    <3>4. q \in 0..(p - 1) /\ p - q < Days(7)
      BY <1>2, <3>1, <3>3, SameWeek
    <3>5. hour - q > Days(30) /\ hour - q <= Days(38)
      BY <1>2, <2>2, <3>2, <3>4 DEF Days
    <3>6. q \in points
      BY <1>2, <3>3, <3>4, <3>5 DEF Surviving, Survives, Days
    <3>7. Bucket(q, hour) = Bucket(p, hour)
      BY <1>2, <2>2, <3>3, <3>4, <3>5, EqualBuckets DEF Days
    <3>8. QED
      BY <1>2, <1>6, <3>4, <3>5, <3>6, <3>7 DEF Days
  <2>3. CASE Days(90) < hour - p
    <3>1. SUFFICES ASSUME ~FirstOfMonth(p) PROVE FALSE
      BY <1>6 DEF Survives
    <3>2. FirstOfWeek(p) /\ hour - p <= Days(91)
      BY <1>2, <2>3, <3>1, SurvivesFacts DEF Survives, Days
    <3>3. PICK q \in 0..p : IsReceipt(q) /\ SameMonth(p, q) /\ FirstOfMonth(q)
      BY <1>2, <3>2, MonthBegins
    <3>4. q \in 0..(p - 1) /\ p - q < Days(32)
      <4>1. Day(p) \in Nat /\ Day(q) \in Nat
        BY <1>2 DEF Day
      <4>2. Day(p) - Day(q) < 31
        BY <3>3, <4>1, MonthSpan DEF SameMonth
      <4>3. p # q
        BY <3>1, <3>3
      <4>4. QED
        BY <1>2, <4>2, <4>3 DEF Day, Days
    <3>5. hour - q > Days(90) /\ hour - q <= Days(123)
      BY <1>2, <2>3, <3>2, <3>4 DEF Days
    <3>6. q \in points
      BY <1>2, <3>3, <3>4, <3>5 DEF Surviving, Survives, Days
    <3>7. Bucket(q, hour) = Bucket(p, hour)
      BY <1>2, <2>3, <3>3, <3>4, <3>5, EqualBuckets DEF Days, SameMonth
    <3>8. QED
      BY <1>2, <1>6, <3>4, <3>5, <3>6, <3>7 DEF Days
  <2>4. QED
    BY <1>2, <2>1, <2>2, <2>3 DEF Days
<1>7. QED
  BY <1>0, <1>4, <1>5, <1>6, RetainedMeans

(* Of a deleted point it is known when the pass before kept it still.        *)
PinnedInv ==
  /\ \A x \in pinned :
       /\ x.point \in 0..(hour - 1) /\ IsReceipt(x.point) /\ x.point \notin points
       /\ x.at \in Int /\ x.at <= LastPass /\ x.at > LastPass - Days(SnapshotPinDays)
       /\ x.at % 24 = PassHour
       /\ Survives(x.point, x.at - 24)
  /\ \A x, y \in pinned : x.point = y.point => x = y

(* The inductive invariant: the history decides what is on disk.             *)
CapacityInv ==
  /\ hour \in Nat /\ hour % 24 \in EventHours
  /\ firstWeekday \in 0..6
  /\ points = Surviving(LastPass)
  /\ PinnedInv

LEMMA CapacityInit ==
  YearsInit => CapacityInv
<1> SUFFICES ASSUME YearsInit PROVE CapacityInv
  OBVIOUS
<1>1. hour \in 0..23 /\ hour % 24 = hour /\ hour \in BackupHours
  BY CapacityAssumption DEF YearsInit
<1>2. \A p \in 0..(hour - 1) : ~IsReceipt(p)
  BY <1>1 DEF YearsInit, IsReceipt
<1>3. QED
  BY <1>1, <1>2 DEF YearsInit, CapacityInv, PinnedInv, Surviving, EventHours

LEMMA FirstsAreFixed ==
  ASSUME firstWeekday' = firstWeekday
  PROVE  \A p, n : Survives(p, n)' <=> Survives(p, n)
BY DEF Survives, FirstOfDay, FirstOfWeek, FirstOfMonth, SameMonth, IsReceipt, IsoWeek, Day,
       Days, Year, Month, MonthEnds

LEMMA CapacityReceive ==
  CapacityInv /\ ReceivePoint => CapacityInv'
<1> SUFFICES ASSUME CapacityInv, ReceivePoint PROVE CapacityInv'
  OBVIOUS
<1>1. /\ hour \in Nat /\ firstWeekday \in 0..6 /\ PassHour \in 0..23
      /\ hour % 24 \in BackupHours /\ hour % 24 # PassHour
      /\ firstWeekday' = firstWeekday /\ pinned' = pinned
      /\ points' = points \cup {hour} /\ hour' = NextEvent
      /\ SnapshotPinDays \in Nat /\ BackupHours \subseteq 0..23
  BY CapacityAssumption DEF CapacityInv, ReceivePoint
<1>2. /\ hour' \in (hour + 1)..(hour + 24) /\ hour' % 24 \in EventHours
      /\ \A g \in (hour + 1)..(hour' - 1) : g % 24 \notin EventHours
  BY <1>1, NextEventFacts
<1>3. LastPass' = LastPass
  <2>1. \A g \in hour..(hour' - 1) : g % 24 # PassHour
    BY <1>1, <1>2 DEF EventHours
  <2> DEFINE m == hour' - 1 - ((hour' - 1 - PassHour) % 24)
  <2>2. m \in Int /\ m < hour' /\ m >= hour' - 24 /\ m % 24 = PassHour
    BY <1>1, <1>2
  <2>3. m < hour
    <3> HIDE DEF m
    <3>1. m \notin hour..(hour' - 1)
      BY <2>1, <2>2
    <3>2. QED
      BY <1>1, <1>2, <2>2, <3>1
  <2>4. m = LastPass
    <3>1. LastPass \in Int /\ LastPass < hour /\ LastPass >= hour - 24 /\ LastPass % 24 = PassHour
      BY <1>1, LastPassFacts
    <3>2. m >= hour - 24
      BY <1>1, <1>2, <2>2
    <3> HIDE DEF m
    <3>3. QED
      BY <1>1, <2>2, <2>3, <3>1, <3>2
  <2>5. QED
    BY <2>4 DEF LastPass
<1>4. LastPass \in Int /\ LastPass < hour
  BY <1>1, LastPassFacts
<1>5. \A p, n : Survives(p, n)' <=> Survives(p, n)
  BY <1>1, FirstsAreFixed
<1>6. points' = Surviving(LastPass)'
  <2>1. Surviving(LastPass)' = {p \in 0..(hour' - 1) : IsReceipt(p) /\ Survives(p, LastPass)}
    BY <1>3, <1>5 DEF Surviving, IsReceipt
  <2>2. IsReceipt(hour) /\ Survives(hour, LastPass)
    BY <1>1, <1>4 DEF IsReceipt, Survives, Days
  <2>3. \A p \in (hour + 1)..(hour' - 1) : ~IsReceipt(p)
    BY <1>2 DEF IsReceipt, EventHours
  <2>4. points = {p \in 0..(hour - 1) : IsReceipt(p) /\ Survives(p, LastPass)}
    BY DEF CapacityInv, Surviving
  <2>5. \A p : p \in 0..(hour' - 1)
               <=> p \in 0..(hour - 1) \/ p = hour \/ p \in (hour + 1)..(hour' - 1)
    BY <1>1, <1>2
  <2>6. QED
    BY <1>1, <2>1, <2>2, <2>3, <2>4, <2>5
<1>7. PinnedInv'
  <2>1. \A x \in pinned : x.point \in 0..(hour' - 1) /\ x.point \notin points'
    BY <1>1, <1>2 DEF CapacityInv, PinnedInv
  <2>2. QED
    BY <1>1, <1>3, <1>5, <2>1 DEF CapacityInv, PinnedInv, IsReceipt, Days
<1>8. QED
  BY <1>1, <1>2, <1>6, <1>7 DEF CapacityInv, EventHours

LEMMA CapacityMaintain ==
  CapacityInv /\ Maintain => CapacityInv'
<1> SUFFICES ASSUME CapacityInv, Maintain PROVE CapacityInv'
  OBVIOUS
<1>1. /\ hour \in Nat /\ firstWeekday \in 0..6 /\ PassHour \in 0..23
      /\ hour % 24 = PassHour
      /\ firstWeekday' = firstWeekday /\ points' = Retained(hour) /\ hour' = NextEvent
      /\ pinned' = {x \in pinned : hour - x.at < Days(SnapshotPinDays)}
                   \cup {[point |-> p, at |-> hour] : p \in points \ Retained(hour)}
      /\ SnapshotPinDays \in Nat \ {0}
  BY CapacityAssumption DEF CapacityInv, Maintain
<1>2. /\ hour' \in (hour + 1)..(hour + 24) /\ hour' % 24 \in EventHours
      /\ \A g \in (hour + 1)..(hour' - 1) : g % 24 \notin EventHours
  BY <1>1, NextEventFacts
<1>3. LastPass = hour - 24
  BY <1>1 DEF LastPass
<1>4. LastPass' = hour
  <2> DEFINE m == hour' - 1 - ((hour' - 1 - PassHour) % 24)
  <2>1. m \in Int /\ m < hour' /\ m >= hour' - 24 /\ m % 24 = PassHour
    BY <1>1, <1>2
  <2>2. m \notin (hour + 1)..(hour' - 1)
    BY <1>2, <2>1 DEF EventHours
  <2>3. m <= hour /\ m > hour - 24
    <3>1. m >= hour - 23
      BY <1>1, <1>2, <2>1
    <3> HIDE DEF m
    <3>2. QED
      BY <1>1, <1>2, <2>1, <2>2, <3>1
  <2>4. m = hour
    <3> HIDE DEF m
    <3>1. QED
      BY <1>1, <2>1, <2>3
  <2>5. QED
    BY <2>4 DEF LastPass
<1>5. \A p, n : Survives(p, n)' <=> Survives(p, n)
  BY <1>1, FirstsAreFixed
<1>6. points = Surviving(hour - 24)
  BY <1>3 DEF CapacityInv
<1>7. Retained(hour) = Surviving(hour)
  BY <1>1, <1>6, SurvivorsAreRetained, RetainedSurvive
<1>8. points' = Surviving(LastPass)'
  <2>1. Surviving(LastPass)' = {p \in 0..(hour' - 1) : IsReceipt(p) /\ Survives(p, hour)}
    BY <1>4, <1>5 DEF Surviving, IsReceipt
  <2>2. ~IsReceipt(hour) /\ \A p \in (hour + 1)..(hour' - 1) : ~IsReceipt(p)
    BY <1>1, <1>2, CapacityAssumption DEF IsReceipt, EventHours
  <2>3. \A p : p \in 0..(hour' - 1)
               <=> p \in 0..(hour - 1) \/ p = hour \/ p \in (hour + 1)..(hour' - 1)
    BY <1>1, <1>2
  <2>4. QED
    BY <1>1, <1>7, <2>1, <2>2, <2>3 DEF Surviving
<1>9. PinnedInv'
  <2>1. \A x \in pinned' :
           /\ x.point \in 0..(hour - 1) /\ IsReceipt(x.point) /\ x.point \notin Retained(hour)
           /\ x.at \in Int /\ x.at <= hour /\ x.at > hour - Days(SnapshotPinDays)
           /\ x.at % 24 = PassHour
           /\ Survives(x.point, x.at - 24)
    <3> SUFFICES ASSUME NEW x \in pinned'
                 PROVE  /\ x.point \in 0..(hour - 1) /\ IsReceipt(x.point)
                        /\ x.point \notin Retained(hour)
                        /\ x.at \in Int /\ x.at <= hour /\ x.at > hour - Days(SnapshotPinDays)
                        /\ x.at % 24 = PassHour
                        /\ Survives(x.point, x.at - 24)
      OBVIOUS
    <3>1. CASE x \in pinned /\ hour - x.at < Days(SnapshotPinDays)
      <4>1. /\ x.point \in 0..(hour - 1) /\ IsReceipt(x.point) /\ x.point \notin points
            /\ x.at \in Int /\ x.at <= hour - 24
            /\ x.at % 24 = PassHour
            /\ Survives(x.point, x.at - 24)
        BY <1>3, <3>1 DEF CapacityInv, PinnedInv
      <4>2. Retained(hour) \subseteq points
        BY DEF Retained
      <4>3. QED
        BY <1>1, <3>1, <4>1, <4>2 DEF Days
    <3>2. CASE \E p \in points \ Retained(hour) : x = [point |-> p, at |-> hour]
      <4>1. PICK p \in points \ Retained(hour) : x.point = p /\ x.at = hour
        BY <3>2
      <4>2. QED
        BY <1>1, <1>6, <4>1 DEF Surviving, Days
    <3>3. QED
      BY <1>1, <3>1, <3>2
  <2>2. \A x, y \in pinned' : x.point = y.point => x = y
    BY <1>1 DEF CapacityInv, PinnedInv
  <2>3. QED
    BY <1>1, <1>2, <1>4, <1>5, <2>1, <2>2 DEF PinnedInv, IsReceipt, Days
<1>10. QED
  BY <1>1, <1>2, <1>8, <1>9 DEF CapacityInv, EventHours

(* Counting: different numbers no further than n apart are at most n + 1.    *)
LEMMA SpanCount ==
  ASSUME NEW S, NEW f \in [S -> Int], NEW n \in Nat,
         \A a, b \in S : f[a] - f[b] <= n,
         \A a, b \in S : f[a] = f[b] => a = b
  PROVE  IsFiniteSet(S) /\ Cardinality(S) <= n + 1
<1>1. CASE S = {}
  BY <1>1, FS_EmptySet
<1>2. CASE S # {}
  <2>1. PICK a \in S : TRUE
    BY <1>2
  <2> DEFINE V == {f[b] - f[a] + n : b \in S}
  <2>2. V \subseteq Nat /\ V # {}
    BY <2>1
  <2>3. PICK v \in V : \A w \in V : v <= w
    BY <2>2, FirstHour
  <2>4. PICK m \in S : \A b \in S : f[m] <= f[b]
    <3>1. PICK m \in S : v = f[m] - f[a] + n
      BY <2>3
    <3>2. \A b \in S : f[m] - f[a] + n <= f[b] - f[a] + n
      BY <2>3, <3>1
    <3>3. QED
      BY <2>1, <3>2
  <2> DEFINE T == f[m]..(f[m] + n)
  <2>5. f[m] \in Int /\ IsFiniteSet(T) /\ Cardinality(T) = n + 1
    <3>1. f[m] \in Int /\ f[m] + n \in Int /\ ~(f[m] > f[m] + n)
      OBVIOUS
    <3>2. QED
      BY <3>1, FS_Interval
  <2>6. f \in Injection(S, T)
    <3>1. \A b \in S : f[b] \in T
      BY <2>4
    <3>2. f \in [S -> T]
      BY <3>1
    <3>3. QED
      BY <3>2 DEF Injection, IsInjective
  <2>7. QED
    BY <2>5, <2>6, FS_Injection
<1>3. QED
  BY <1>1, <1>2

LEMMA UnionCount ==
  ASSUME NEW S, NEW T, IsFiniteSet(S), IsFiniteSet(T),
         NEW m \in Int, NEW n \in Int, Cardinality(S) <= m, Cardinality(T) <= n
  PROVE  IsFiniteSet(S \cup T) /\ Cardinality(S \cup T) <= m + n
<1> DEFINE both == S \cap T
<1>1. IsFiniteSet(both) /\ Cardinality(both) \in Nat
  <2>1. IsFiniteSet(both)
    BY FS_Intersection
  <2>2. QED
    BY <2>1, FS_CardinalityType
<1>2. Cardinality(S) \in Nat /\ Cardinality(T) \in Nat
  BY FS_CardinalityType
<1>3. /\ IsFiniteSet(S \cup T)
      /\ Cardinality(S \cup T) = Cardinality(S) + Cardinality(T) - Cardinality(both)
  BY FS_Union
<1>4. QED
  BY <1>1, <1>2, <1>3

LEMMA FirstOfDayHour ==
  ASSUME NEW p \in Nat, IsReceipt(p), FirstOfDay(p)
  PROVE  \A h \in BackupHours : p % 24 <= h
<1> SUFFICES ASSUME NEW h \in BackupHours, h < p % 24 PROVE FALSE
  BY CapacityAssumption
<1> DEFINE q == 24 * (p \div 24) + h
<1>1. h \in 0..23
  BY CapacityAssumption
<1>2. q \in 0..(p - 1) /\ q % 24 = h /\ q \div 24 = p \div 24
  BY <1>1
<1>3. QED
  BY <1>2 DEF FirstOfDay, Day, IsReceipt

LEMMA DailyCount ==
  ASSUME hour \in Nat, NEW t \in Int
  PROVE  LET S == {p \in 0..(hour - 1) :
                     IsReceipt(p) /\ t - p > Days(7) /\ t - p <= Days(30) /\ FirstOfDay(p)}
         IN  IsFiniteSet(S) /\ Cardinality(S) <= 23
<1> DEFINE S == {p \in 0..(hour - 1) :
                   IsReceipt(p) /\ t - p > Days(7) /\ t - p <= Days(30) /\ FirstOfDay(p)}
           f == [p \in S |-> (t - p - 169) \div 24]
<1>1. \A p \in S : f[p] \in 0..22
  BY DEF Days
<1>2. \A p, q \in S : p % 24 = q % 24
  <2> SUFFICES ASSUME NEW p \in S, NEW q \in S PROVE p % 24 = q % 24
    OBVIOUS
  <2>1. p % 24 <= q % 24 /\ q % 24 <= p % 24
    BY FirstOfDayHour DEF IsReceipt
  <2>2. QED
    BY <2>1
<1>3. ASSUME NEW p \in S, NEW q \in S, f[p] = f[q] PROVE p = q
  <2>1. (t - p - 169) \div 24 = (t - q - 169) \div 24
    BY <1>3
  <2>2. p \in Int /\ q \in Int /\ p % 24 = q % 24
    BY <1>2
  <2> HIDE DEF S, f
  <2>3. QED
    BY <2>1, <2>2
<1>4. f \in [S -> Int] /\ \A a, b \in S : f[a] - f[b] <= 22
  BY <1>1
<1> HIDE DEF S, f
<1>5. IsFiniteSet(S) /\ Cardinality(S) <= 22 + 1
  BY <1>3, <1>4, SpanCount
<1>6. QED
  BY <1>5 DEF S

LEMMA WeeklyCount ==
  ASSUME hour \in Nat, firstWeekday \in 0..6, NEW t \in Int
  PROVE  LET S == {p \in 0..(hour - 1) :
                     IsReceipt(p) /\ t - p > Days(30) /\ t - p <= Days(90) /\ FirstOfWeek(p)}
         IN  IsFiniteSet(S) /\ Cardinality(S) <= 10
<1> DEFINE S == {p \in 0..(hour - 1) :
                   IsReceipt(p) /\ t - p > Days(30) /\ t - p <= Days(90) /\ FirstOfWeek(p)}
           f == [p \in S |-> IsoWeek(Day(p))]
<1>1. f \in [S -> Int]
  BY DEF IsoWeek, Day
<1>2. ASSUME NEW a \in S, NEW b \in S PROVE f[a] - f[b] <= 9
  <2>1. a \in Nat /\ b \in Nat /\ a - b < 1440
    BY DEF Days
  <2>2. IsoWeek(Day(a)) - IsoWeek(Day(b)) <= 9
    BY <2>1 DEF IsoWeek, Day
  <2>3. QED
    BY <2>2
<1>3. ASSUME NEW a \in S, NEW b \in S, f[a] = f[b] PROVE a = b
  <2>1. IsoWeek(Day(a)) = IsoWeek(Day(b))
    BY <1>3
  <2>2. a \notin 0..(b - 1) /\ b \notin 0..(a - 1)
    BY <2>1 DEF FirstOfWeek
  <2>3. QED
    BY <2>2
<1> HIDE DEF S, f
<1>4. IsFiniteSet(S) /\ Cardinality(S) <= 9 + 1
  BY <1>1, <1>2, <1>3, SpanCount
<1>5. QED
  BY <1>4 DEF S

LEMMA MonthlyCount ==
  ASSUME hour \in Nat, NEW t \in Int
  PROVE  LET S == {p \in 0..(hour - 1) :
                     IsReceipt(p) /\ t - p > Days(90) /\ t - p <= Days(365) /\ FirstOfMonth(p)}
         IN  IsFiniteSet(S) /\ Cardinality(S) <= 11
<1> DEFINE S == {p \in 0..(hour - 1) :
                   IsReceipt(p) /\ t - p > Days(90) /\ t - p <= Days(365) /\ FirstOfMonth(p)}
           f == [p \in S |-> MonthNumber(Day(p))]
<1>0. \A p \in Nat : Day(p) \in Nat /\ Month(Day(p)) \in 1..12 /\ Year(Day(p)) \in Nat
  BY MonthFacts DEF Day, Year
<1>1. f \in [S -> Int]
  <2>1. \A p \in S : MonthNumber(Day(p)) \in Int
    BY <1>0 DEF MonthNumber
  <2>2. QED
    BY <2>1
<1>2. ASSUME NEW a \in S, NEW b \in S PROVE f[a] - f[b] <= 10
  <2>1. a \in Nat /\ b \in Nat /\ a - b < 6600
    BY DEF Days
  <2>2. Day(a) \in Nat /\ Day(b) \in Nat /\ Day(a) - Day(b) <= 275
    BY <2>1 DEF Day
  <2>3. QED
    BY <2>2, MonthsApart
<1>3. ASSUME NEW a \in S, NEW b \in S, f[a] = f[b] PROVE a = b
  <2>1. MonthNumber(Day(a)) = MonthNumber(Day(b))
    BY <1>3
  <2>2. SameMonth(a, b) /\ SameMonth(b, a)
    <3> HIDE DEF S, f
    <3>1. a \in Nat /\ b \in Nat
      BY DEF S
    <3>2. QED
      BY <1>0, <2>1, <3>1 DEF MonthNumber, SameMonth
  <2>3. a \notin 0..(b - 1) /\ b \notin 0..(a - 1)
    BY <2>2 DEF FirstOfMonth
  <2>4. QED
    BY <2>3
<1> HIDE DEF S, f
<1>4. IsFiniteSet(S) /\ Cardinality(S) <= 10 + 1
  BY <1>1, <1>2, <1>3, SpanCount
<1>5. QED
  BY <1>4 DEF S

LEMMA BackupHoursFacts ==
  IsFiniteSet(BackupHours) /\ BackupsPerDay \in Nat
<1>1. 0 \in Int /\ 23 \in Int
  OBVIOUS
<1>2. IsFiniteSet(0..23) /\ BackupHours \in SUBSET (0..23)
  BY <1>1, CapacityAssumption, FS_Interval
<1>3. IsFiniteSet(BackupHours)
  BY <1>2, FS_Subset
<1>4. QED
  BY <1>3, FS_CardinalityType DEF BackupsPerDay

LEMMA RecentCount ==
  ASSUME hour \in Nat, NEW t \in Int, NEW n \in Nat, hour <= t + 24 * n
  PROVE  LET S == {p \in 0..(hour - 1) : IsReceipt(p) /\ t - p <= Days(7)}
         IN  IsFiniteSet(S) /\ Cardinality(S) <= (n + 7) * BackupsPerDay
<1> DEFINE S == {p \in 0..(hour - 1) : IsReceipt(p) /\ t - p <= Days(7)}
           K == 0..(n + 6)
           f == [p \in S |-> <<(p - t + 168) \div 24, p % 24>>]
<1>1. IsFiniteSet(BackupHours) /\ BackupsPerDay \in Nat
  BY BackupHoursFacts
<1>2. IsFiniteSet(K) /\ Cardinality(K) = n + 7
  <2>1. n + 6 \in Int /\ ~(0 > n + 6)
    OBVIOUS
  <2>2. QED
    BY <2>1, FS_Interval
<1>3. IsFiniteSet(K \X BackupHours) /\ Cardinality(K \X BackupHours) = (n + 7) * BackupsPerDay
  BY <1>1, <1>2, FS_Product DEF BackupsPerDay
<1>4. \A p \in S : (p - t + 168) \div 24 \in K /\ p % 24 \in BackupHours
  <2> SUFFICES ASSUME NEW p \in S
               PROVE (p - t + 168) \div 24 \in K /\ p % 24 \in BackupHours
    OBVIOUS
  <2>1. p \in Int /\ p - t + 168 >= 0 /\ p - t + 168 < 24 * (n + 7)
    BY DEF Days
  <2>2. QED
    BY <2>1 DEF IsReceipt
<1>5. \A p, q \in S : f[p] = f[q] => p = q
  <2> SUFFICES ASSUME NEW p \in S, NEW q \in S, f[p] = f[q] PROVE p = q
    OBVIOUS
  <2>1. /\ (p - t + 168) \div 24 = (q - t + 168) \div 24 /\ p % 24 = q % 24
        /\ p \in Int /\ q \in Int
    OBVIOUS
  <2> HIDE DEF S, f
  <2>2. QED
    BY <2>1
<1>6. f \in Injection(S, K \X BackupHours)
  <2>1. f \in [S -> K \X BackupHours]
    BY <1>4
  <2>2. QED
    BY <1>5, <2>1 DEF Injection, IsInjective
<1>7. QED
  BY <1>3, <1>6, FS_Injection

LEMMA SurvivingCount ==
  ASSUME hour \in Nat, firstWeekday \in 0..6, NEW t \in Int, NEW n \in Nat, hour <= t + 24 * n
  PROVE  /\ IsFiniteSet(Surviving(t))
         /\ Cardinality(Surviving(t)) <= (n + 7) * BackupsPerDay + 44
<1> DEFINE R == {p \in 0..(hour - 1) : IsReceipt(p) /\ t - p <= Days(7)}
           D == {p \in 0..(hour - 1) :
                   IsReceipt(p) /\ t - p > Days(7) /\ t - p <= Days(30) /\ FirstOfDay(p)}
           W == {p \in 0..(hour - 1) :
                   IsReceipt(p) /\ t - p > Days(30) /\ t - p <= Days(90) /\ FirstOfWeek(p)}
           M == {p \in 0..(hour - 1) :
                   IsReceipt(p) /\ t - p > Days(90) /\ t - p <= Days(365) /\ FirstOfMonth(p)}
<1>1. Surviving(t) \subseteq ((R \cup D) \cup W) \cup M
  <2> SUFFICES ASSUME NEW p \in Surviving(t) PROVE p \in R \/ p \in D \/ p \in W \/ p \in M
    OBVIOUS
  <2>1. p \in 0..(hour - 1) /\ IsReceipt(p) /\ Survives(p, t)
    BY DEF Surviving
  <2>2. /\ FirstOfMonth(p) => FirstOfWeek(p)
        /\ FirstOfWeek(p) => FirstOfDay(p)
    BY <2>1, SurvivesFacts
  <2>3. QED
    BY <2>1, <2>2 DEF Survives, Days
<1>2. BackupsPerDay \in Nat
  BY BackupHoursFacts
<1>3. IsFiniteSet(R) /\ Cardinality(R) <= (n + 7) * BackupsPerDay
  BY RecentCount
<1>4. IsFiniteSet(D) /\ Cardinality(D) <= 23
  BY DailyCount
<1>5. IsFiniteSet(W) /\ Cardinality(W) <= 10
  BY WeeklyCount
<1>6. IsFiniteSet(M) /\ Cardinality(M) <= 11
  BY MonthlyCount
<1> DEFINE c == (n + 7) * BackupsPerDay
<1>7. c \in Int /\ c + 23 \in Int /\ c + 33 \in Int
      /\ 23 \in Int /\ 10 \in Int /\ 11 \in Int
  BY <1>2
<1>8. Cardinality(R) <= c
  BY <1>3
<1> HIDE DEF R, D, W, M, c
<1> DEFINE two == R \cup D
<1>9. IsFiniteSet(two) /\ Cardinality(two) <= c + 23
  BY <1>3, <1>4, <1>7, <1>8, UnionCount
<1> HIDE DEF two
<1> DEFINE three == two \cup W
<1>10. IsFiniteSet(three) /\ Cardinality(three) <= c + 33
  <2>1. IsFiniteSet(three) /\ Cardinality(three) <= (c + 23) + 10
    BY <1>5, <1>7, <1>9, UnionCount
  <2>2. QED
    BY <1>7, <2>1
<1> HIDE DEF three
<1> DEFINE all == three \cup M
<1>11. IsFiniteSet(all) /\ Cardinality(all) <= c + 44
  <2>1. IsFiniteSet(all) /\ Cardinality(all) <= (c + 33) + 11
    BY <1>6, <1>7, <1>10, UnionCount
  <2>2. QED
    BY <1>7, <2>1
<1>12. IsFiniteSet(Surviving(t)) /\ Cardinality(Surviving(t)) <= Cardinality(all)
  BY <1>1, <1>11, FS_Subset DEF two, three
<1>13. Cardinality(Surviving(t)) \in Nat /\ Cardinality(all) \in Nat
  BY <1>11, <1>12, FS_CardinalityType
<1> HIDE DEF all
<1>14. QED
  BY <1>7, <1>11, <1>12, <1>13 DEF c

(* The two tenants of the quota: the points on disk and the deleted ones in  *)
(* snapshots are disjoint, and both among what a pass of SnapshotPinDays     *)
(* before the last one would have kept.                                      *)
LEMMA PlanFromInvariant ==
  ASSUME CapacityInv, RetainedPointsMax >= 8 * BackupsPerDay + 44
  PROVE  PlanIsEnough
<1> DEFINE t == LastPass - Days(SnapshotPinDays)
           U == Surviving(t)
           g == [x \in pinned |-> x.point]
<1>1. /\ hour \in Nat /\ firstWeekday \in 0..6 /\ points = Surviving(LastPass)
      /\ SnapshotPinDays \in Nat \ {0} /\ RetainedPointsMax \in Nat /\ PassHour \in 0..23
  BY CapacityAssumption DEF CapacityInv
<1>2. /\ LastPass \in Int /\ LastPass < hour /\ LastPass >= hour - 24
      /\ LastPass % 24 = PassHour
  BY <1>1, LastPassFacts
<1>3. t \in Int /\ t <= LastPass /\ hour <= t + 24 * (SnapshotPinDays + 1)
  BY <1>1, <1>2 DEF Days
<1>4. IsFiniteSet(U) /\ Cardinality(U) <= (SnapshotPinDays + 1 + 7) * BackupsPerDay + 44
  <2>1. SnapshotPinDays + 1 \in Nat
    BY <1>1
  <2>2. QED
    BY <1>1, <1>3, <2>1, SurvivingCount
<1>5. points \subseteq U
  BY <1>1, <1>2, <1>3, SurvivesFacts DEF Surviving
<1>6. \A x \in pinned : x.point \in U \ points
  <2> SUFFICES ASSUME NEW x \in pinned PROVE x.point \in U \ points
    OBVIOUS
  <2>1. /\ x.point \in 0..(hour - 1) /\ IsReceipt(x.point) /\ x.point \notin points
        /\ x.at \in Int /\ x.at > t /\ x.at % 24 = PassHour
        /\ Survives(x.point, x.at - 24)
    BY DEF CapacityInv, PinnedInv
  <2>2. t % 24 = PassHour
    BY <1>1, <1>2 DEF Days
  <2>3. t <= x.at - 24
    <3> HIDE DEF t
    <3>1. QED
      BY <1>1, <1>3, <2>1, <2>2
  <2>4. Survives(x.point, t)
    BY <1>1, <1>3, <2>1, <2>3, SurvivesFacts
  <2>5. QED
    BY <2>1, <2>4 DEF Surviving
<1> DEFINE rest == U \ points
<1>7. g \in Injection(pinned, rest)
  <2>1. g \in [pinned -> rest]
    BY <1>6
  <2>2. \A x, y \in pinned : g[x] = g[y] => x = y
    BY DEF CapacityInv, PinnedInv
  <2>3. QED
    BY <2>1, <2>2 DEF Injection, IsInjective
<1> HIDE DEF U, g
<1>8. /\ IsFiniteSet(rest) /\ Cardinality(rest) = Cardinality(U) - Cardinality(points)
      /\ IsFiniteSet(points)
  <2>1. U \cap points = points
    BY <1>5
  <2>2. QED
    BY <1>4, <1>5, <2>1, FS_Difference, FS_Subset
<1> HIDE DEF rest
<1>9. IsFiniteSet(pinned) /\ Cardinality(pinned) <= Cardinality(rest)
  BY <1>7, <1>8, FS_Injection
<1>10. /\ Cardinality(U) \in Nat /\ Cardinality(points) \in Nat
       /\ Cardinality(rest) \in Nat /\ Cardinality(pinned) \in Nat
  BY <1>4, <1>8, <1>9, FS_CardinalityType
<1>11. Cardinality(points) + Cardinality(pinned) <= (SnapshotPinDays + 1 + 7) * BackupsPerDay + 44
  <2>1. (SnapshotPinDays + 1 + 7) * BackupsPerDay \in Int
    <3>1. BackupsPerDay \in Int
      BY BackupHoursFacts
    <3>2. QED
      BY <1>1, <3>1
  <2>2. QED
    BY <1>4, <1>8, <1>9, <1>10, <2>1
<1>12. BackupsPerDay \in Int
  BY BackupHoursFacts
<1>13. QED
  BY <1>1, <1>10, <1>11, <1>12 DEF PlanIsEnough

(* On disk and in the calendar, the history is all there is to know.         *)
THEOREM HistoryDecides == YearsSpec => []CapacityInv
<1>1. YearsInit => CapacityInv
  BY CapacityInit
<1>2. CapacityInv /\ [YearsNext]_yearsVars => CapacityInv'
  <2>1. CapacityInv /\ UNCHANGED yearsVars => CapacityInv'
    <3> SUFFICES ASSUME CapacityInv, UNCHANGED yearsVars PROVE CapacityInv'
      OBVIOUS
    <3>1. /\ hour' = hour /\ firstWeekday' = firstWeekday
          /\ points' = points /\ pinned' = pinned
      BY DEF yearsVars
    <3>2. \A p, n : Survives(p, n)' <=> Survives(p, n)
      BY <3>1, FirstsAreFixed
    <3>3. QED
      BY <3>1, <3>2 DEF CapacityInv, PinnedInv, Surviving, LastPass, IsReceipt, EventHours, Days
  <2>2. QED
    BY <2>1, CapacityReceive, CapacityMaintain DEF YearsNext
<1>3. QED
  BY <1>1, <1>2, PTL DEF YearsSpec

(* A quota planned for 8 points per daily backup and 44 more holds what is on *)
(* disk and in snapshots on any day: the points of a week and of the day      *)
(* since the last pass, 23 firsts of a day, 10 of a week, 11 of a month. The  *)
(* two backups a day of the timer make it the 60 of RETAINED_POINTS_MAX.      *)
THEOREM PlanIsAlwaysEnough ==
  ASSUME RetainedPointsMax >= 8 * BackupsPerDay + 44
  PROVE  YearsSpec => []PlanIsEnough
<1>1. CapacityInv => PlanIsEnough
  BY PlanFromInvariant
<1>2. QED
  BY <1>1, HistoryDecides, PTL

(* The upper end of RetainedRange: with two backups a day there are at most   *)
(* 60 points on disk, on any day and not only in the steady state.            *)
THEOREM PointsAreBounded ==
  YearsSpec => [](Cardinality(points) <= 8 * BackupsPerDay + 44)
<1>1. CapacityInv => Cardinality(points) <= 8 * BackupsPerDay + 44
  <2> SUFFICES ASSUME CapacityInv PROVE Cardinality(points) <= 8 * BackupsPerDay + 44
    OBVIOUS
  <2>1. /\ hour \in Nat /\ firstWeekday \in 0..6 /\ points = Surviving(LastPass)
        /\ PassHour \in 0..23
    BY CapacityAssumption DEF CapacityInv
  <2>2. LastPass \in Int /\ hour <= LastPass + 24 * 1 /\ 1 \in Nat
    BY <2>1, LastPassFacts
  <2>3. Cardinality(points) <= (1 + 7) * BackupsPerDay + 44
    BY <2>1, <2>2, SurvivingCount
  <2>4. QED
    BY <2>3, BackupHoursFacts
<1>2. QED
  BY <1>1, HistoryDecides, PTL
=============================================================================
