-------------------- MODULE ArticleReconciliationProofs --------------------
(***************************************************************************)
(* Proofs about the reconciliation of a document with the stored articles, *)
(* for every document and any number of articles: a plan that is not       *)
(* refused meets no uniqueness constraint, repeating a document changes    *)
(* nothing, the scan decides as if it saw the whole document at once, and  *)
(* no row turns into another item.                                         *)
(***************************************************************************)
EXTENDS ArticleReconciliation, FiniteSetTheorems, TLAPS

PlannedWrite ==
  [article: SUBSET (Nat \ {0}), guid: Nat \ {Blank}, url: Nat \ {Blank}]

(* The two uniqueness constraints of the article table.                    *)
RowsUnique(rows) ==
  \A a, b \in DOMAIN rows :
    a # b => rows[a].guid # rows[b].guid /\ rows[a].url # rows[b].url

(* A write creates an article or updates the one it shares a name with.    *)
Targets(rows, w) ==
  \/ w.article = {}
  \/ \E a \in DOMAIN rows :
       /\ w.article = {a}
       /\ rows[a].guid = w.guid \/ rows[a].url = w.url

(* Two writes of one plan are about different items.                       *)
Apart(v, w) ==
  /\ v.guid # w.guid
  /\ v.url # w.url
  /\ v.article # {} => v.article # w.article

Names(item, entry) == item.guid = EntryGuid(entry) /\ item.url = EntryUrl(entry)

(* The entries that have been read.                                        *)
Read == {i \in UsableEntries(document) : i <= scanned}

(* While a document is read, the writes planned are those of the entries   *)
(* read so far, none of which is at odds with another or with the rows.    *)
ScanInv ==
  /\ document \in Documents
  /\ scanned \in 0..Len(document)
  /\ \A k \in DOMAIN planned :
       \E i \in Read : planned[k] = Write(stored, document[i])
  /\ \A i \in Read :
       \E k \in DOMAIN planned : planned[k] = Write(stored, document[i])
  /\ \A i \in Read : ~Contradictory(stored, document[i])
  /\ \A i, j \in Read :
       i # j => ~Competing(stored, document[i], document[j])

(* Once writing, every usable entry of the document is either still        *)
(* planned or stored: that is what makes repeating the document a no-op.   *)
WriteInv ==
  /\ document \in Documents
  /\ \A i, j \in UsableEntries(document) :
       i # j => /\ EntryGuid(document[i]) # EntryGuid(document[j])
                /\ EntryUrl(document[i]) # EntryUrl(document[j])
  /\ \A k \in DOMAIN planned :
       \E i \in UsableEntries(document) : Names(planned[k], document[i])
  /\ \A i \in UsableEntries(document) :
       \/ \E k \in DOMAIN planned : Names(planned[k], document[i])
       \/ \E a \in DOMAIN stored : Names(stored[a], document[i])

(* Every write not yet executed fits the rows the others have left.        *)
PlanInv ==
  /\ stored \in Seq(Article)
  /\ RowsUnique(stored)
  /\ planned \in Seq(PlannedWrite)
  /\ \A k \in DOMAIN planned :
       Targets(stored, planned[k]) /\ ~Clashes(stored, planned[k])
  /\ \A k, l \in DOMAIN planned : k # l => Apart(planned[k], planned[l])
  /\ planPhase \in {"idle", "planning", "writing"}
  /\ scanned \in 0..Len(document)
  /\ planPhase = "idle" => planned = <<>> /\ document = <<>> /\ scanned = 0
  /\ planPhase = "planning" => ScanInv
  /\ planPhase = "writing" => WriteInv

-----------------------------------------------------------------------------
(* Writes that Precedes orders strictly and totally are all listed, each   *)
(* once, and in that order.                                                *)
LEMMA SortedOrders ==
  ASSUME NEW s, NEW n \in Nat, DOMAIN s = 1..n,
         \A i \in 1..n : ~Precedes(s[i], s[i]),
         \A h, i, j \in 1..n :
           Precedes(s[h], s[i]) /\ Precedes(s[i], s[j]) => Precedes(s[h], s[j]),
         \A i, j \in 1..n : i # j => Precedes(s[i], s[j]) \/ Precedes(s[j], s[i])
  PROVE  /\ DOMAIN Sorted(s) = 1..n
         /\ \A k \in 1..n : \E i \in 1..n : Sorted(s)[k] = s[i]
         /\ \A i \in 1..n : \E k \in 1..n : Sorted(s)[k] = s[i]
         /\ \A k, l \in 1..n : k < l => Precedes(Sorted(s)[k], Sorted(s)[l])
<1> DEFINE W == 1..n
           Below(i) == {j \in W : Precedes(s[j], s[i])}
           rank == [i \in W |-> Cardinality(Below(i))]
<1>1. IsFiniteSet(W) /\ Cardinality(W) = n
  BY FS_Interval
<1>2. ASSUME NEW i \in W
      PROVE  /\ IsFiniteSet(Below(i)) /\ Cardinality(Below(i)) \in 0..(n - 1)
  <2>1. Below(i) \in SUBSET W /\ Below(i) # W
    OBVIOUS
  <2> HIDE DEF Below, W
  <2>2. /\ IsFiniteSet(Below(i)) /\ Cardinality(Below(i)) <= n
        /\ Cardinality(Below(i)) # n
    BY <1>1, <2>1, FS_Subset
  <2>3. Cardinality(Below(i)) \in Nat
    BY <2>2, FS_CardinalityType
  <2>4. QED
    BY <2>2, <2>3
<1>3. ASSUME NEW i \in W, NEW j \in W, Precedes(s[i], s[j])
      PROVE  Cardinality(Below(i)) < Cardinality(Below(j))
  <2>1. Below(i) \in SUBSET Below(j) /\ Below(i) # Below(j)
    BY <1>3
  <2>2. Cardinality(Below(i)) <= Cardinality(Below(j)) /\ Cardinality(Below(i)) # Cardinality(Below(j))
    BY <1>2, <2>1, FS_Subset
  <2>3. Cardinality(Below(i)) \in Int /\ Cardinality(Below(j)) \in Int
    <3> HIDE DEF Below
    <3>1. Cardinality(Below(i)) \in 0..(n - 1) /\ Cardinality(Below(j)) \in 0..(n - 1)
      BY <1>2
    <3>2. QED
      BY <3>1
  <2>4. QED
    BY <2>2, <2>3
<1>4. /\ rank \in [W -> 0..(n - 1)]
      /\ \A i \in W : rank[i] = Cardinality(Below(i)) /\ Place(s, i) = rank[i] + 1
  BY <1>2 DEF Place
<1>5. \A i, j \in W : Precedes(s[i], s[j]) => rank[i] < rank[j]
  BY <1>3, <1>4
<1>6. \A i, j \in W : i # j => Precedes(s[i], s[j]) \/ Precedes(s[j], s[i])
  OBVIOUS
<1> HIDE DEF rank, Below
<1>7. \A i, j \in W : rank[i] \in Int /\ (rank[i] = rank[j] => i = j)
  <2>1. \A i \in W : rank[i] \in Int
    BY <1>4
  <2>2. QED
    BY <1>5, <1>6, <2>1
<1>8. rank \in Surjection(W, 0..(n - 1))
  <2>1. rank \in Injection(W, 0..(n - 1))
    BY <1>4, <1>7 DEF Injection, IsInjective
  <2>2. IsFiniteSet(0..(n - 1)) /\ Cardinality(0..(n - 1)) = n
    <3>1. /\ n - 1 \in Int /\ (n - 1) - 0 + 1 = n
          /\ 0 > n - 1 => n = 0
      OBVIOUS
    <3>2. QED
      BY <3>1, FS_Interval
  <2>3. QED
    BY <1>1, <2>1, <2>2, FS_Injection
<1> DEFINE pick(k) == CHOOSE i \in DOMAIN s : Place(s, i) = k
<1>9. ASSUME NEW k \in W
      PROVE  pick(k) \in W /\ rank[pick(k)] = k - 1
  <2>1. PICK i \in W : rank[i] = k - 1
    BY <1>8, k - 1 \in 0..(n - 1) DEF Surjection
  <2>2. i \in DOMAIN s /\ Place(s, i) = k
    BY <1>4, <2>1
  <2>3. pick(k) \in DOMAIN s /\ Place(s, pick(k)) = k
    BY <2>2
  <2> HIDE DEF pick
  <2>4. rank[pick(k)] + 1 = k /\ rank[pick(k)] \in Int
    BY <1>4, <1>7, <2>3
  <2>5. QED
    BY <2>3, <2>4
<1>10. Sorted(s) = [k \in W |-> s[pick(k)]]
  BY DEF Sorted
<1> HIDE DEF pick
<1>11. \A i \in W : \E k \in W : Sorted(s)[k] = s[i]
  <2> TAKE i \in W
  <2>1. PICK k \in W : k - 1 = rank[i]
    <3>1. rank[i] + 1 \in W /\ (rank[i] + 1) - 1 = rank[i]
      BY <1>4
    <3>2. QED
      BY <3>1
  <2>2. pick(k) \in W /\ rank[pick(k)] = rank[i]
    BY <1>9, <2>1
  <2>3. pick(k) = i
    BY <1>7, <2>2
  <2>4. QED
    BY <1>10, <2>3
<1>12. ASSUME NEW k \in W, NEW l \in W, k < l
       PROVE  Precedes(Sorted(s)[k], Sorted(s)[l])
  <2>1. /\ pick(k) \in W /\ pick(l) \in W
        /\ rank[pick(k)] = k - 1 /\ rank[pick(l)] = l - 1
    BY <1>9
  <2>2. rank[pick(k)] < rank[pick(l)] /\ pick(k) # pick(l)
    BY <1>12, <2>1
  <2>3. ~Precedes(s[pick(l)], s[pick(k)])
    BY <1>5, <1>7, <2>1, <2>2
  <2>4. Precedes(s[pick(k)], s[pick(l)])
    BY <1>6, <2>1, <2>2, <2>3
  <2>5. QED
    BY <1>10, <2>4
<1>13. DOMAIN Sorted(s) = 1..n /\ \A k \in 1..n : \E i \in 1..n : Sorted(s)[k] = s[i]
  BY <1>9, <1>10
<1>14. QED
  BY <1>11, <1>12, <1>13

LEMMA EntryNames ==
  ASSUME NEW doc \in Documents, NEW i \in UsableEntries(doc)
  PROVE  /\ doc[i] \in Entry
         /\ EntryGuid(doc[i]) \in Nat \ {Blank}
         /\ EntryUrl(doc[i]) \in Nat \ {Blank}
<1>1. doc \in Seq(Entry) /\ i \in DOMAIN doc
  BY ReconcileAssumption DEF UsableEntries
<1>2. doc[i] \in Entry
  BY <1>1
<1>3. EntryUrl(doc[i]) \in Nat \ {Blank}
  BY <1>2 DEF UsableEntries, Entry, EntryUrl, Blank
<1>4. QED
  BY <1>2, <1>3 DEF Entry, EntryGuid, Blank

(* An entry matches at most one article, and a plan that is not refused    *)
(* writes rows that clash with none of the others.                         *)
LEMMA WriteFits ==
  ASSUME NEW rows \in Seq(Article), RowsUnique(rows), NEW doc \in Documents,
         NEW i \in UsableEntries(doc), ~Contradictory(rows, doc[i])
  PROVE  /\ Write(rows, doc[i]) \in PlannedWrite
         /\ Targets(rows, Write(rows, doc[i]))
         /\ ~Clashes(rows, Write(rows, doc[i]))
<1> DEFINE e == doc[i]
<1>1. EntryGuid(e) \in Nat \ {Blank} /\ EntryUrl(e) \in Nat \ {Blank}
  BY EntryNames
<1>2. DOMAIN rows \subseteq Nat \ {0}
  OBVIOUS
<1>3. \A a, b \in GuidMatches(rows, e) : a = b
  BY DEF GuidMatches, RowsUnique
<1>4. \A a, b \in UrlMatches(rows, e) : a = b
  BY DEF UrlMatches, RowsUnique
<1>5. Matched(rows, e) \in SUBSET (Nat \ {0})
  BY <1>2 DEF Matched, GuidMatches, UrlMatches
<1>6. Write(rows, e) \in PlannedWrite
  BY <1>1, <1>5 DEF Write, PlannedWrite
<1>7. \A a \in DOMAIN rows \ Matched(rows, e) :
        rows[a].guid # EntryGuid(e) /\ rows[a].url # EntryUrl(e)
  <2>1. CASE GuidMatches(rows, e) = {}
    BY <2>1 DEF Matched, GuidMatches, UrlMatches
  <2>2. CASE GuidMatches(rows, e) # {}
    <3>1. UrlMatches(rows, e) = {} \/ UrlMatches(rows, e) = GuidMatches(rows, e)
      BY <2>2 DEF Contradictory
    <3>2. QED
      BY <2>2, <3>1 DEF Matched, GuidMatches, UrlMatches
  <2>3. QED
    BY <2>1, <2>2
<1>8. Targets(rows, Write(rows, e))
  <2>1. CASE Matched(rows, e) = {}
    BY <2>1 DEF Targets, Write
  <2>2. CASE Matched(rows, e) # {}
    <3>1. PICK a \in DOMAIN rows :
            /\ a \in Matched(rows, e)
            /\ rows[a].guid = EntryGuid(e) \/ rows[a].url = EntryUrl(e)
      BY <2>2 DEF Matched, GuidMatches, UrlMatches
    <3>2. Matched(rows, e) = {a}
      BY <1>3, <1>4, <3>1 DEF Matched
    <3>3. QED
      BY <3>1, <3>2 DEF Targets, Write
  <2>3. QED
    BY <2>1, <2>2
<1>9. QED
  BY <1>6, <1>7, <1>8 DEF Clashes, Write

(* The primary key of an update, and how the order of the writes compares. *)
LEMMA PrecedesOrders ==
  ASSUME NEW rows, NEW W \in SUBSET PlannedWrite,
         \A w \in W : Targets(rows, w),
         \A v, w \in W : v # w => Apart(v, w)
  PROVE  /\ \A w \in W : ~Precedes(w, w)
         /\ \A u, v, w \in W : Precedes(u, v) /\ Precedes(v, w) => Precedes(u, w)
         /\ \A v, w \in W : v # w => Precedes(v, w) \/ Precedes(w, v)
<1>1. ASSUME NEW w \in W, w.article # {}
      PROVE  PrimaryKey(w) \in Nat /\ w.article = {PrimaryKey(w)}
  <2>1. PICK a : w.article = {a}
    BY <1>1 DEF Targets
  <2>2. a \in Nat
    BY <2>1 DEF PlannedWrite
  <2>3. PrimaryKey(w) = a
    BY <2>1 DEF PrimaryKey
  <2>4. QED
    BY <2>1, <2>2, <2>3
<1>2. \A w \in W : w.guid \in Nat
  BY DEF PlannedWrite
<1>3. \A w \in W : ~Precedes(w, w)
  BY <1>1, <1>2 DEF Precedes
<1>4. ASSUME NEW u \in W, NEW v \in W, NEW w \in W, Precedes(u, v), Precedes(v, w)
      PROVE  Precedes(u, w)
  <2>1. CASE u.article = {}
    BY <1>2, <1>4, <2>1 DEF Precedes
  <2>2. CASE u.article # {} /\ w.article = {}
    BY <2>2 DEF Precedes
  <2>3. CASE u.article # {} /\ w.article # {}
    <3>1. v.article # {}
      BY <1>4, <2>3 DEF Precedes
    <3>2. /\ PrimaryKey(u) < PrimaryKey(v) \/ (u.article = v.article /\ u.guid < v.guid)
          /\ PrimaryKey(v) < PrimaryKey(w) \/ (v.article = w.article /\ v.guid < w.guid)
      <4>1. PrimaryKey(u) < PrimaryKey(v) \/ (u.article = v.article /\ u.guid < v.guid)
        BY <1>4, <3>1, Zenon DEF Precedes
      <4>2. PrimaryKey(v) < PrimaryKey(w) \/ (v.article = w.article /\ v.guid < w.guid)
        BY <1>4, <2>3, Zenon DEF Precedes
      <4>3. QED
        BY <4>1, <4>2
    <3>3. u.article = v.article => PrimaryKey(u) = PrimaryKey(v)
      BY DEF PrimaryKey
    <3>4. v.article = w.article => PrimaryKey(v) = PrimaryKey(w)
      BY DEF PrimaryKey
    <3>5. PrimaryKey(u) \in Nat /\ PrimaryKey(v) \in Nat /\ PrimaryKey(w) \in Nat
      BY <1>1, <2>3, <3>1
    <3>6. u.guid \in Nat /\ v.guid \in Nat /\ w.guid \in Nat
      BY <1>2
    <3>7. PrimaryKey(u) < PrimaryKey(w) \/ (u.article = w.article /\ u.guid < w.guid)
      BY <3>2, <3>3, <3>4, <3>5, <3>6
    <3>8. QED
      BY <2>3, <3>7 DEF Precedes
  <2>4. QED
    BY <2>1, <2>2, <2>3
<1>5. ASSUME NEW v \in W, NEW w \in W, v # w
      PROVE  Precedes(v, w) \/ Precedes(w, v)
  <2>1. Apart(v, w)
    BY <1>5
  <2>2. CASE v.article = {} /\ w.article = {}
    BY <1>2, <2>1, <2>2 DEF Precedes, Apart
  <2>3. CASE v.article # {} /\ w.article # {}
    <3>1. PrimaryKey(v) # PrimaryKey(w)
      BY <1>1, <2>1, <2>3 DEF Apart
    <3>2. QED
      BY <1>1, <2>3, <3>1 DEF Precedes
  <2>4. QED
    BY <2>2, <2>3 DEF Precedes
<1>6. QED
  BY <1>3, <1>4, <1>5

(* Planned writes that fit the rows and are about different items are      *)
(* sorted into the same writes, in the order of their keys.                *)
LEMMA SortedPlan ==
  ASSUME NEW rows, NEW s \in Seq(PlannedWrite),
         \A k \in DOMAIN s : Targets(rows, s[k]),
         \A k, l \in DOMAIN s : k # l => Apart(s[k], s[l])
  PROVE  /\ Sorted(s) \in Seq(PlannedWrite)
         /\ {Sorted(s)[k] : k \in DOMAIN Sorted(s)} = {s[k] : k \in DOMAIN s}
         /\ \A k, l \in DOMAIN Sorted(s) :
              k < l => Precedes(Sorted(s)[k], Sorted(s)[l])
         /\ \A k, l \in DOMAIN Sorted(s) :
              k # l => Apart(Sorted(s)[k], Sorted(s)[l])
<1> DEFINE n == Len(s)
           W == {s[k] : k \in DOMAIN s}
<1>1. n \in Nat /\ DOMAIN s = 1..n /\ \A k \in 1..n : s[k] \in PlannedWrite
  OBVIOUS
<1>2. /\ W \in SUBSET PlannedWrite
      /\ \A w \in W : Targets(rows, w)
      /\ \A v, w \in W : v # w => Apart(v, w)
      /\ \A k \in 1..n : s[k] \in W
  BY <1>1
<1> HIDE DEF n, W
<1>3. /\ \A w \in W : ~Precedes(w, w)
      /\ \A u, v, w \in W : Precedes(u, v) /\ Precedes(v, w) => Precedes(u, w)
      /\ \A v, w \in W : v # w => Precedes(v, w) \/ Precedes(w, v)
  BY <1>2, PrecedesOrders
<1>4. \A i, j \in 1..n : i # j => s[i] # s[j]
  BY <1>1 DEF Apart
<1>5. /\ \A i \in 1..n : ~Precedes(s[i], s[i])
      /\ \A h, i, j \in 1..n :
           Precedes(s[h], s[i]) /\ Precedes(s[i], s[j]) => Precedes(s[h], s[j])
      /\ \A i, j \in 1..n : i # j => Precedes(s[i], s[j]) \/ Precedes(s[j], s[i])
  BY <1>2, <1>3, <1>4
<1>6. /\ DOMAIN Sorted(s) = 1..n
      /\ \A k \in 1..n : \E i \in 1..n : Sorted(s)[k] = s[i]
      /\ \A i \in 1..n : \E k \in 1..n : Sorted(s)[k] = s[i]
      /\ \A k, l \in 1..n : k < l => Precedes(Sorted(s)[k], Sorted(s)[l])
  BY <1>1, <1>5, SortedOrders
<1>7. Sorted(s) \in Seq(PlannedWrite)
  <2> DEFINE t == Sorted(s)
  <2>1. t = [k \in 1..n |-> t[k]]
    BY <1>1, <1>6 DEF Sorted
  <2>2. \A k \in 1..n : t[k] \in PlannedWrite
    BY <1>1, <1>6
  <2> HIDE DEF t
  <2>3. t \in [1..n -> PlannedWrite]
    BY <2>1, <2>2
  <2>4. t \in Seq(PlannedWrite)
    BY <1>1, <2>3
  <2>5. QED
    BY <2>4 DEF t
<1>8. {Sorted(s)[k] : k \in DOMAIN Sorted(s)} = {s[k] : k \in DOMAIN s}
  <2> DEFINE t == Sorted(s)
  <2>1. /\ DOMAIN t = 1..n /\ DOMAIN s = 1..n
        /\ \A k \in 1..n : \E i \in 1..n : t[k] = s[i]
        /\ \A i \in 1..n : \E k \in 1..n : t[k] = s[i]
    BY <1>1, <1>6
  <2> HIDE DEF t
  <2>2. {t[k] : k \in DOMAIN t} = {s[k] : k \in DOMAIN s}
    <3>1. \A k \in 1..n : t[k] \in {s[i] : i \in 1..n}
      BY <2>1
    <3>2. \A i \in 1..n : s[i] \in {t[k] : k \in 1..n}
      BY <2>1
    <3>3. {t[k] : k \in 1..n} = {s[i] : i \in 1..n}
      BY <3>1, <3>2
    <3>4. QED
      BY <2>1, <3>3
  <2>3. QED
    BY <2>2 DEF t
<1>9. ASSUME NEW k \in 1..n, NEW l \in 1..n, k # l
      PROVE  Apart(Sorted(s)[k], Sorted(s)[l])
  <2>1. PICK i \in 1..n, j \in 1..n : Sorted(s)[k] = s[i] /\ Sorted(s)[l] = s[j]
    BY <1>6
  <2>2. Precedes(s[i], s[j]) \/ Precedes(s[j], s[i])
    <3>1. k < l \/ l < k
      BY <1>1, <1>9
    <3>2. Precedes(Sorted(s)[k], Sorted(s)[l]) \/ Precedes(Sorted(s)[l], Sorted(s)[k])
      BY <1>6, <3>1
    <3>3. QED
      BY <2>1, <3>2
  <2>3. i # j
    BY <1>5, <2>2
  <2>4. QED
    BY <1>1, <2>1, <2>3
<1>10. QED
  BY <1>6, <1>7, <1>8, <1>9

LEMMA PlanInvInitially == ReconcileInit => PlanInv
BY DEF ReconcileInit, PlanInv, RowsUnique

LEMMA PlanInvBegin ==
  ASSUME PlanInv, NEW doc \in Documents, BeginPlan(doc)
  PROVE  PlanInv'
<1>1. /\ planPhase = "idle" /\ planPhase' = "planning" /\ document' = doc
      /\ UNCHANGED <<stored, scanned, planned>>
  BY DEF BeginPlan
<1>2. planned = <<>> /\ scanned = 0 /\ Len(doc) \in Nat
  <2>1. doc \in Seq(Entry)
    BY ReconcileAssumption
  <2>2. QED
    BY <1>1, <2>1 DEF PlanInv
<1>3. Read' = {}
  <2>1. \A i \in UsableEntries(doc) : i \in Nat /\ i >= 1
    <3>1. doc \in Seq(Entry)
      BY ReconcileAssumption
    <3>2. QED
      BY <3>1 DEF UsableEntries
  <2>2. QED
    BY <1>1, <1>2, <2>1 DEF Read
<1>4. ScanInv'
  BY <1>1, <1>2, <1>3 DEF ScanInv
<1>5. QED
  BY <1>1, <1>2, <1>4 DEF PlanInv

(* What the next entry adds to the entries read.                           *)
LEMMA NextRead ==
  ASSUME PlanInv, Reading, document' = document, scanned' = scanned + 1
  PROVE  /\ scanned + 1 \in DOMAIN document /\ scanned' \in 0..Len(document)
         /\ scanned + 1 \notin Read
         /\ Read' = IF EntryUrl(NextEntry) = Blank THEN Read
                    ELSE Read \cup {scanned + 1}
<1>1. document \in Seq(Entry) /\ scanned \in 0..Len(document) /\ scanned < Len(document)
  BY ReconcileAssumption DEF PlanInv, ScanInv, Reading
<1>2. /\ scanned \in Nat /\ Len(document) \in Nat /\ DOMAIN document = 1..Len(document)
  BY <1>1
<1>3. \A i \in 1..Len(document) : i <= scanned + 1 <=> i <= scanned \/ i = scanned + 1
  BY <1>2
<1>4. QED
  BY <1>1, <1>2, <1>3 DEF Read, UsableEntries, NextEntry

LEMMA PlanInvScan ==
  ASSUME PlanInv, SkipEntry \/ PlanEntry
  PROVE  PlanInv'
<1> DEFINE i == scanned + 1
           w == Write(stored, document[i])
<1>1. /\ Reading /\ planPhase = "planning" /\ planPhase' = planPhase
      /\ document' = document /\ scanned' = scanned + 1 /\ stored' = stored
  BY DEF SkipEntry, PlanEntry, Reading
<1>2. ScanInv /\ stored \in Seq(Article) /\ RowsUnique(stored) /\ planned \in Seq(PlannedWrite)
  BY <1>1 DEF PlanInv
<1>3. /\ i \in DOMAIN document /\ scanned' \in 0..Len(document)
      /\ i \notin Read
      /\ Read' = IF EntryUrl(document[i]) = Blank THEN Read ELSE Read \cup {i}
  BY <1>1, NextRead DEF NextEntry
<1>4. CASE SkipEntry
  <2>1. planned' = planned /\ Read' = Read
    BY <1>3, <1>4 DEF SkipEntry, NextEntry
  <2>2. ScanInv'
    BY <1>1, <1>2, <1>3, <2>1 DEF ScanInv
  <2>3. QED
    BY <1>1, <1>3, <2>1, <2>2 DEF PlanInv
<1>5. CASE PlanEntry
  <2>1. /\ i \in UsableEntries(document) /\ Read' = Read \cup {i}
        /\ ~Contradictory(stored, document[i])
        /\ ~Reserved(planned, w)
        /\ planned' = Append(planned, w)
    BY <1>3, <1>5 DEF PlanEntry, NextEntry, UsableEntries
  <2>2. w \in PlannedWrite /\ Targets(stored, w) /\ ~Clashes(stored, w)
    BY <1>2, <2>1, WriteFits DEF ScanInv
  <2> HIDE DEF i, w
  <2>3. /\ planned' \in Seq(PlannedWrite)
        /\ DOMAIN planned' = DOMAIN planned \cup {Len(planned) + 1}
        /\ planned'[Len(planned) + 1] = w
        /\ \A k \in DOMAIN planned : planned'[k] = planned[k]
        /\ Len(planned) + 1 \notin DOMAIN planned
    BY <1>2, <2>1, <2>2
  <2>4. \A k \in DOMAIN planned : Apart(planned[k], w) /\ Apart(w, planned[k])
    BY <2>1 DEF Reserved, Apart
  <2>5. \A j \in Read : /\ ~Competing(stored, document[j], document[i])
                        /\ ~Competing(stored, document[i], document[j])
    <3> TAKE j \in Read
    <3>1. PICK k \in DOMAIN planned : planned[k] = Write(stored, document[j])
      BY <1>2 DEF ScanInv
    <3>2. /\ planned[k].guid # w.guid /\ planned[k].url # w.url
          /\ w.article # {} => planned[k].article # w.article
      BY <2>1, <3>1 DEF Reserved
    <3>3. QED
      BY <3>1, <3>2 DEF Competing, Write, w
  <2>6. ScanInv'
    <3>1. \A k \in DOMAIN planned' :
            \E j \in Read' : planned'[k] = Write(stored, document[j])
      BY <1>2, <2>1, <2>3 DEF ScanInv, w
    <3>2. \A j \in Read' :
            \E k \in DOMAIN planned' : planned'[k] = Write(stored, document[j])
      BY <1>2, <2>1, <2>3 DEF ScanInv, w
    <3>3. \A j \in Read' : ~Contradictory(stored, document[j])
      BY <1>2, <2>1 DEF ScanInv
    <3>4. \A j, l \in Read' :
            j # l => ~Competing(stored, document[j], document[l])
      BY <1>2, <2>1, <2>5 DEF ScanInv
    <3>5. QED
      BY <1>1, <1>2, <1>3, <3>1, <3>2, <3>3, <3>4 DEF ScanInv
  <2>7. \A k, l \in DOMAIN planned' : k # l => Apart(planned'[k], planned'[l])
    BY <2>3, <2>4 DEF PlanInv
  <2>8. \A k \in DOMAIN planned' :
          Targets(stored, planned'[k]) /\ ~Clashes(stored, planned'[k])
    BY <2>2, <2>3 DEF PlanInv
  <2>9. QED
    BY <1>1, <1>2, <1>3, <2>3, <2>6, <2>7, <2>8 DEF PlanInv
<1>6. QED
  BY <1>4, <1>5

LEMMA PlanInvSort ==
  ASSUME PlanInv, SortPlan
  PROVE  PlanInv' /\ ScanDecides
<1>1. /\ planPhase = "planning" /\ planPhase' = "writing" /\ scanned = Len(document)
      /\ planned' = Sorted(planned) /\ UNCHANGED <<stored, document, scanned>>
  BY DEF SortPlan
<1>2. /\ ScanInv /\ planned \in Seq(PlannedWrite)
      /\ \A k \in DOMAIN planned : Targets(stored, planned[k])
      /\ \A k, l \in DOMAIN planned : k # l => Apart(planned[k], planned[l])
  BY <1>1 DEF PlanInv
<1>3. Read = UsableEntries(document)
  <2>1. document \in Seq(Entry)
    BY <1>2, ReconcileAssumption DEF ScanInv
  <2>2. QED
    BY <1>1, <2>1 DEF Read, UsableEntries
<1>4. /\ planned' \in Seq(PlannedWrite)
      /\ {planned'[k] : k \in DOMAIN planned'} = {planned[k] : k \in DOMAIN planned}
      /\ \A k, l \in DOMAIN planned' : k < l => Precedes(planned'[k], planned'[l])
      /\ \A k, l \in DOMAIN planned' : k # l => Apart(planned'[k], planned'[l])
  BY <1>1, <1>2, SortedPlan
<1>5. /\ \A k \in DOMAIN planned' : \E l \in DOMAIN planned : planned'[k] = planned[l]
      /\ \A l \in DOMAIN planned : \E k \in DOMAIN planned' : planned'[k] = planned[l]
  BY <1>4
<1>6. /\ \A k \in DOMAIN planned' : \E i \in UsableEntries(document) :
           planned'[k] = Write(stored, document[i])
      /\ \A i \in UsableEntries(document) : \E k \in DOMAIN planned' :
           planned'[k] = Write(stored, document[i])
  BY <1>2, <1>3, <1>5 DEF ScanInv
<1>7. ~IdentityConflict(stored, document)
  BY <1>2, <1>3 DEF ScanInv, IdentityConflict
<1>8. ScanDecides
  <2>1. {planned'[k] : k \in DOMAIN planned'}
          = {Write(stored, document[i]) : i \in UsableEntries(document)}
    BY <1>6
  <2>2. QED
    BY <1>1, <1>4, <1>7, <2>1 DEF ScanDecides
<1>9. WriteInv'
  <2>1. \A i, j \in UsableEntries(document) :
          i # j => /\ EntryGuid(document[i]) # EntryGuid(document[j])
                   /\ EntryUrl(document[i]) # EntryUrl(document[j])
    BY <1>7 DEF IdentityConflict, Competing
  <2>2. \A i \in UsableEntries(document) :
          Names(Write(stored, document[i]), document[i])
    BY DEF Names, Write
  <2>3. QED
    BY <1>1, <1>2, <1>6, <2>1, <2>2 DEF WriteInv, ScanInv
<1>10. \A k \in DOMAIN planned' :
         Targets(stored, planned'[k]) /\ ~Clashes(stored, planned'[k])
  BY <1>5 DEF PlanInv
<1>11. QED
  BY <1>1, <1>4, <1>8, <1>9, <1>10 DEF PlanInv

(* A document is refused only if two of its entries compete or one         *)
(* contradicts the rows.                                                   *)
LEMMA PlanInvRefuse ==
  ASSUME PlanInv, RefuseEntry
  PROVE  PlanInv' /\ ScanDecides
<1> DEFINE i == scanned + 1
<1>1. /\ Reading /\ planPhase = "planning" /\ planPhase' = "idle" /\ stored' = stored
      /\ document' = <<>> /\ scanned' = 0 /\ planned' = <<>>
      /\ EntryUrl(document[i]) # Blank
      /\ Contradictory(stored, document[i]) \/ Reserved(planned, Write(stored, document[i]))
  BY DEF RefuseEntry, Reading, NextEntry
<1>2. i \in UsableEntries(document) /\ i \notin Read /\ ScanInv
  <2>1. document \in Seq(Entry) /\ scanned \in 0..Len(document) /\ scanned < Len(document)
    BY <1>1, ReconcileAssumption DEF PlanInv, ScanInv, Reading
  <2>2. i \in DOMAIN document /\ ~(i <= scanned)
    BY <2>1
  <2>3. QED
    BY <1>1, <2>2 DEF UsableEntries, Read, PlanInv
<1> HIDE DEF i
<1>3. IdentityConflict(stored, document)
  <2>1. CASE Contradictory(stored, document[i])
    BY <1>2, <2>1 DEF IdentityConflict
  <2>2. ASSUME NEW k \in DOMAIN planned, NEW j \in Read,
               planned[k] = Write(stored, document[j]),
               \/ planned[k].guid = Write(stored, document[i]).guid
               \/ planned[k].url = Write(stored, document[i]).url
               \/ /\ Write(stored, document[i]).article # {}
                  /\ planned[k].article = Write(stored, document[i]).article
        PROVE  IdentityConflict(stored, document)
    <3>1. j \in UsableEntries(document) /\ j # i
      BY <1>2 DEF Read
    <3>2. Competing(stored, document[j], document[i])
      BY <2>2 DEF Competing, Write
    <3>3. QED
      BY <1>2, <3>1, <3>2 DEF IdentityConflict
  <2>3. QED
    BY <1>1, <1>2, <2>1, <2>2 DEF Reserved, ScanInv
<1>4. PlanInv'
  BY <1>1 DEF PlanInv
<1>5. QED
  BY <1>1, <1>3, <1>4 DEF ScanDecides

LEMMA PlanInvExecute ==
  ASSUME PlanInv, ExecuteNext
  PROVE  PlanInv' /\ KeepsIdentity
<1> DEFINE w == Head(planned)
           row == [guid |-> w.guid, url |-> w.url]
<1>1. /\ planPhase = "writing" /\ planPhase' = "writing" /\ document' = document
      /\ scanned' = scanned /\ planned # <<>> /\ planned' = Tail(planned)
      /\ stored' = Execute(stored, w)
  BY DEF ExecuteNext
<1>2. /\ stored \in Seq(Article) /\ RowsUnique(stored)
      /\ planned \in Seq(PlannedWrite)
  BY DEF PlanInv
<1>3. /\ w \in PlannedWrite /\ w = planned[1] /\ 1 \in DOMAIN planned
      /\ Targets(stored, w) /\ ~Clashes(stored, w)
  BY <1>1, <1>2 DEF PlanInv
<1>4. row \in Article
  BY <1>3 DEF Article, PlannedWrite
<1>5. /\ planned' \in Seq(PlannedWrite)
      /\ \A k \in DOMAIN planned' :
           k + 1 \in DOMAIN planned /\ k + 1 # 1 /\ planned'[k] = planned[k + 1]
      /\ \A k \in DOMAIN planned : k # 1 => k - 1 \in DOMAIN planned' /\ planned'[k - 1] = planned[k]
  BY <1>1, <1>2
(* The row written: an update of its article, or a new one at the end.     *)
<1>6. PICK a \in Nat \ {0} :
        /\ stored' \in Seq(Article)
        /\ a \in DOMAIN stored' /\ stored'[a] = row
        /\ w.article = {a} \/ (w.article = {} /\ a \notin DOMAIN stored)
        /\ DOMAIN stored' = DOMAIN stored \cup {a}
        /\ \A b \in DOMAIN stored : b # a => stored'[b] = stored[b]
        /\ a \in DOMAIN stored => stored[a].guid = w.guid \/ stored[a].url = w.url
  <2>1. CASE w.article = {}
    <3>1. stored' = Append(stored, row)
      BY <1>1, <2>1 DEF Execute
    <3>2. Len(stored) + 1 \in Nat \ {0}
      BY <1>2
    <3> HIDE DEF row
    <3>3. QED
      BY <1>2, <1>4, <2>1, <3>1, <3>2
  <2>2. CASE w.article # {}
    <3>1. PICK a \in DOMAIN stored :
            w.article = {a} /\ (stored[a].guid = w.guid \/ stored[a].url = w.url)
      BY <1>3, <2>2 DEF Targets
    <3>2. PrimaryKey(w) = a
      BY <3>1 DEF PrimaryKey
    <3>3. stored' = [stored EXCEPT ![a] = row]
      BY <1>1, <2>2, <3>2 DEF Execute
    <3>4. a \in Nat \ {0}
      BY <1>2
    <3> HIDE DEF row
    <3>5. /\ stored' \in Seq(Article) /\ DOMAIN stored' = DOMAIN stored
          /\ stored'[a] = row /\ \A b \in DOMAIN stored : b # a => stored'[b] = stored[b]
      BY <1>2, <1>4, <3>3
    <3>6. DOMAIN stored' = DOMAIN stored \cup {a} /\ a \in DOMAIN stored'
      BY <3>1, <3>5
    <3>7. w.article = {a} /\ (stored[a].guid = w.guid \/ stored[a].url = w.url)
      BY <3>1
    <3> HIDE DEF w
    <3>8. QED
      BY <3>4, <3>5, <3>6, <3>7
  <2>3. QED
    BY <2>1, <2>2
<1>7. \A b \in DOMAIN stored : b # a => stored[b].guid # w.guid /\ stored[b].url # w.url
  BY <1>3, <1>6 DEF Clashes
<1>8. RowsUnique(stored')
  BY <1>2, <1>6, <1>7 DEF RowsUnique
<1>9. KeepsIdentity
  BY <1>6 DEF KeepsIdentity
<1>10. \A k, l \in DOMAIN planned : k # l => Apart(planned[k], planned[l])
  BY DEF PlanInv
<1>11. \A k, l \in DOMAIN planned' : k # l => Apart(planned'[k], planned'[l])
  <2> SUFFICES ASSUME NEW k \in DOMAIN planned', NEW l \in DOMAIN planned', k # l
               PROVE  Apart(planned'[k], planned'[l])
    OBVIOUS
  <2>1. k + 1 # l + 1
    BY <1>2, <1>5
  <2>2. QED
    BY <1>5, <1>10, <2>1
<1>12. ASSUME NEW k \in DOMAIN planned'
       PROVE  Targets(stored', planned'[k]) /\ ~Clashes(stored', planned'[k])
  <2> DEFINE v == planned[k + 1]
  <2>1. planned'[k] = v /\ Apart(v, w) /\ Apart(w, v)
    BY <1>3, <1>5, <1>10
  <2>2. Targets(stored, v) /\ ~Clashes(stored, v)
    BY <1>5 DEF PlanInv
  <2> HIDE DEF v, w
  <2>3. v.guid # w.guid /\ v.url # w.url
    BY <2>1 DEF Apart
  <2>4. CASE v.article = {}
    <3>1. \A b \in DOMAIN stored' : stored'[b].guid # v.guid /\ stored'[b].url # v.url
      BY <1>6, <2>2, <2>3, <2>4 DEF Clashes
    <3>2. QED
      BY <2>1, <2>4, <3>1 DEF Targets, Clashes
  <2>5. CASE v.article # {}
    <3>1. PICK b \in DOMAIN stored :
            v.article = {b} /\ (stored[b].guid = v.guid \/ stored[b].url = v.url)
      BY <2>2, <2>5 DEF Targets
    <3>2. b # a
      BY <1>6, <2>1, <3>1 DEF Apart
    <3>3. Targets(stored', v)
      BY <1>6, <3>1, <3>2 DEF Targets
    <3>4. ~Clashes(stored', v)
      BY <1>6, <2>2, <2>3, <3>1 DEF Clashes
    <3>5. QED
      BY <2>1, <3>3, <3>4
  <2>6. QED
    BY <2>4, <2>5
(* An entry that is stored already keeps its row: only its own write could *)
(* take it, for no other entry of the document has its guid or its URL.    *)
<1>13. ASSUME NEW i \in UsableEntries(document)
       PROVE  \/ \E k \in DOMAIN planned' : Names(planned'[k], document[i])
              \/ \E b \in DOMAIN stored' : Names(stored'[b], document[i])
  <2>1. PICK j \in UsableEntries(document) : Names(w, document[j])
    BY <1>1, <1>3 DEF PlanInv, WriteInv
  <2>2. CASE i = j
    BY <1>6, <2>1, <2>2 DEF Names
  <2>3. CASE i # j
    <3>1. /\ EntryGuid(document[i]) # EntryGuid(document[j])
          /\ EntryUrl(document[i]) # EntryUrl(document[j])
      BY <1>1, <2>3 DEF PlanInv, WriteInv
    <3>2. \/ \E k \in DOMAIN planned : Names(planned[k], document[i])
          \/ \E b \in DOMAIN stored : Names(stored[b], document[i])
      BY <1>1 DEF PlanInv, WriteInv
    <3>3. ASSUME NEW k \in DOMAIN planned, Names(planned[k], document[i])
          PROVE  \E l \in DOMAIN planned' : Names(planned'[l], document[i])
      <4>1. k # 1
        BY <1>3, <2>1, <3>1, <3>3 DEF Names
      <4>2. QED
        BY <1>5, <3>3, <4>1
    <3>4. ASSUME NEW b \in DOMAIN stored, Names(stored[b], document[i])
          PROVE  \E c \in DOMAIN stored' : Names(stored'[c], document[i])
      <4>1. b # a
        BY <1>6, <2>1, <3>1, <3>4 DEF Names
      <4>2. QED
        BY <1>6, <3>4, <4>1
    <3>5. QED
      BY <3>2, <3>3, <3>4
  <2>4. QED
    BY <2>2, <2>3
<1>14. /\ document' \in Documents
       /\ \A i, j \in UsableEntries(document') :
            i # j => /\ EntryGuid(document'[i]) # EntryGuid(document'[j])
                     /\ EntryUrl(document'[i]) # EntryUrl(document'[j])
       /\ \A k \in DOMAIN planned' :
            \E i \in UsableEntries(document') : Names(planned'[k], document'[i])
  BY <1>1, <1>5 DEF PlanInv, WriteInv
<1>15. WriteInv'
  BY <1>1, <1>13, <1>14 DEF WriteInv
<1>16. scanned' \in 0..Len(document')
  BY <1>1 DEF PlanInv
<1>17. QED
  BY <1>1, <1>5, <1>6, <1>8, <1>9, <1>11, <1>12, <1>15, <1>16 DEF PlanInv

LEMMA PlanInvStep ==
  ASSUME PlanInv, [ReconcileNext]_reconcileVars
  PROVE  PlanInv'
<1>1. ASSUME CommitPlan
      PROVE  PlanInv'
  BY <1>1 DEF CommitPlan, PlanInv
<1>2. CASE UNCHANGED reconcileVars
  BY <1>2 DEF reconcileVars, PlanInv, ScanInv, WriteInv, Read
<1>3. QED
  BY <1>1, <1>2, PlanInvBegin, PlanInvScan, PlanInvRefuse, PlanInvSort, PlanInvExecute
     DEF ReconcileNext

LEMMA PlanInvHolds == ReconcileSpec => []PlanInv
<1>1. PlanInv /\ [ReconcileNext]_reconcileVars => PlanInv'
  BY PlanInvStep
<1>2. QED
  BY <1>1, PlanInvInitially, PTL DEF ReconcileSpec

-----------------------------------------------------------------------------
LEMMA PlanInvUse ==
  ASSUME PlanInv
  PROVE  ReconcileTypeOK /\ PlanNeverClashes /\ Idempotent
<1>1. ReconcileTypeOK
  <2>1. ASSUME NEW k \in DOMAIN planned
        PROVE  /\ planned[k].article \subseteq DOMAIN stored
               /\ planned[k].guid # Blank /\ planned[k].url # Blank
    <3>1. planned[k] \in PlannedWrite /\ Targets(stored, planned[k])
      BY DEF PlanInv
    <3>2. QED
      BY <3>1 DEF Targets, PlannedWrite
  <2>2. QED
    BY <2>1 DEF PlanInv, ScanInv, WriteInv, ReconcileTypeOK
<1>2. PlanNeverClashes
  <2>1. planned # <<>> => Head(planned) = planned[1] /\ 1 \in DOMAIN planned
    BY DEF PlanInv
  <2>2. QED
    BY <2>1 DEF PlanInv, PlanNeverClashes
<1>3. Idempotent
  <2> SUFFICES ASSUME planPhase = "writing", planned = <<>>
               PROVE  /\ ~IdentityConflict(stored, document)
                      /\ \A i \in UsableEntries(document) :
                           /\ Write(stored, document[i]).article # {}
                           /\ Execute(stored, Write(stored, document[i])) = stored
    BY DEF Idempotent
  <2>1. /\ document \in Documents /\ stored \in Seq(Article) /\ RowsUnique(stored)
        /\ \A i \in UsableEntries(document) :
             \E a \in DOMAIN stored : Names(stored[a], document[i])
        /\ \A i, j \in UsableEntries(document) :
             i # j => /\ EntryGuid(document[i]) # EntryGuid(document[j])
                      /\ EntryUrl(document[i]) # EntryUrl(document[j])
    BY DEF PlanInv, WriteInv
  (* Both names of a stored entry are those of one row.                    *)
  <2>2. ASSUME NEW i \in UsableEntries(document), NEW a \in DOMAIN stored,
               Names(stored[a], document[i])
        PROVE  /\ GuidMatches(stored, document[i]) = {a}
               /\ UrlMatches(stored, document[i]) = {a}
               /\ Matched(stored, document[i]) = {a}
               /\ Execute(stored, Write(stored, document[i])) = stored
    <3>1. /\ GuidMatches(stored, document[i]) = {a}
          /\ UrlMatches(stored, document[i]) = {a}
      BY <2>1, <2>2 DEF Names, RowsUnique, GuidMatches, UrlMatches
    <3>2. Matched(stored, document[i]) = {a}
      BY <3>1 DEF Matched
    <3>3. Write(stored, document[i]).article = {a}
      BY <3>2 DEF Write
    <3>4. PrimaryKey(Write(stored, document[i])) = a
      BY <3>3 DEF PrimaryKey
    <3>5. [guid |-> EntryGuid(document[i]), url |-> EntryUrl(document[i])] = stored[a]
      <4>1. stored[a] \in Article
        BY <2>1
      <4>2. stored[a] = [guid |-> stored[a].guid, url |-> stored[a].url]
        BY <4>1 DEF Article
      <4>3. QED
        BY <2>2, <4>2 DEF Names
    <3>6. [stored EXCEPT ![a] = stored[a]] = stored
      BY <2>1
    <3>7. Execute(stored, Write(stored, document[i])) = [stored EXCEPT ![a] = stored[a]]
      BY <3>3, <3>4, <3>5 DEF Execute, Write
    <3>8. QED
      BY <3>1, <3>2, <3>6, <3>7
  <2>3. ~IdentityConflict(stored, document)
    <3>1. \A i \in UsableEntries(document) : ~Contradictory(stored, document[i])
      BY <2>1, <2>2 DEF Contradictory
    <3>2. ASSUME NEW i \in UsableEntries(document), NEW j \in UsableEntries(document), i # j
          PROVE  ~Competing(stored, document[i], document[j])
      <4>1. PICK a \in DOMAIN stored : Names(stored[a], document[i])
        BY <2>1
      <4>2. PICK b \in DOMAIN stored : Names(stored[b], document[j])
        BY <2>1
      <4>3. a # b
        BY <2>1, <3>2, <4>1, <4>2 DEF Names
      <4>4. Matched(stored, document[i]) = {a} /\ Matched(stored, document[j]) = {b}
        BY <2>2, <4>1, <4>2
      <4>5. QED
        BY <2>1, <3>2, <4>3, <4>4 DEF Competing
    <3>3. QED
      BY <3>1, <3>2 DEF IdentityConflict
  <2>4. ASSUME NEW i \in UsableEntries(document)
        PROVE  /\ Write(stored, document[i]).article # {}
               /\ Execute(stored, Write(stored, document[i])) = stored
    <3>1. PICK a \in DOMAIN stored : Names(stored[a], document[i])
      BY <2>1
    <3>2. /\ Matched(stored, document[i]) = {a}
          /\ Execute(stored, Write(stored, document[i])) = stored
      BY <2>2, <3>1
    <3>3. QED
      BY <3>2 DEF Write
  <2>5. QED
    BY <2>3, <2>4
<1>4. QED
  BY <1>1, <1>2, <1>3

-----------------------------------------------------------------------------
(* A plan that was accepted is executed to its end: the rows it writes are *)
(* at odds with no row there is, whatever came before and in whatever      *)
(* order its updates free and take guids and URLs.                         *)
THEOREM PlansNeverClash == ReconcileSpec => []PlanNeverClashes
<1>1. PlanInv => PlanNeverClashes
  BY PlanInvUse
<1>2. QED
  BY <1>1, PlanInvHolds, PTL

(* Fetching an unchanged document again creates and changes nothing.       *)
THEOREM RepeatingIsNoOp == ReconcileSpec => []Idempotent
<1>1. PlanInv => Idempotent
  BY PlanInvUse
<1>2. QED
  BY <1>1, PlanInvHolds, PTL

(* Reading the entries one by one refuses exactly the documents that are   *)
(* in conflict as a whole, and plans exactly the writes their entries call *)
(* for, in the order of their keys: the order of the entries decides       *)
(* nothing.                                                                *)
THEOREM ScanDecidesAsOne == ReconcileSpec => ScanIsOrderFree
<1>1. PlanInv /\ [ReconcileNext]_reconcileVars => [ScanDecides]_planPhase
  <2> SUFFICES ASSUME PlanInv, ReconcileNext, planPhase' # planPhase
               PROVE  ScanDecides
    BY DEF reconcileVars
  <2>1. CASE planPhase = "planning"
    <3>1. RefuseEntry \/ SortPlan
      BY <2>1 DEF ReconcileNext, BeginPlan, SkipEntry, PlanEntry, ExecuteNext, CommitPlan
    <3>2. QED
      BY <3>1, PlanInvRefuse, PlanInvSort
  <2>2. CASE planPhase # "planning"
    BY <2>2 DEF ScanDecides
  <2>3. QED
    BY <2>1, <2>2
<1>2. QED
  BY <1>1, PlanInvHolds, PTL DEF ReconcileSpec, ScanIsOrderFree

(* A refresh removes no article and makes none into another item.          *)
THEOREM IdentityAlwaysKept == ReconcileSpec => IdentityKept
<1>1. PlanInv /\ [ReconcileNext]_reconcileVars => [KeepsIdentity]_stored
  <2> SUFFICES ASSUME PlanInv, ReconcileNext, stored' # stored
               PROVE  KeepsIdentity
    BY DEF reconcileVars
  <2>1. ExecuteNext
    BY DEF ReconcileNext, BeginPlan, SkipEntry, RefuseEntry, PlanEntry, SortPlan, CommitPlan
  <2>2. QED
    BY <2>1, PlanInvExecute
<1>2. QED
  BY <1>1, PlanInvHolds, PTL DEF ReconcileSpec, IdentityKept
=============================================================================
