-------------------------- MODULE RetentionCapacity --------------------------
(***************************************************************************)
(* How many recovery points the receiver's retention                        *)
(* (scripts/postgres_backup_receiver.py, retention_partition) keeps over    *)
(* the years, and how many deleted ones the snapshots still pin, against    *)
(* the numbers the capacity plan (scripts/postgres_backup_capacity.py)      *)
(* multiplies by a dump's size: the backups of a day come in at fixed hours,*)
(* and one maintenance pass a day deletes from what the pass of the day     *)
(* before has left.                                                         *)
(*                                                                          *)
(* Time is counted in hours from a first of January; years have 365 days.   *)
(* A point is the hour of its receipt, which is also the order of its       *)
(* receipt sequence.                                                        *)
(***************************************************************************)
EXTENDS Integers, FiniteSets

CONSTANTS
  BackupHours,          \* hours of the day of the client's timer
  PassHour,             \* hour of the day of the maintenance pass
  RetainedPointsMin,    \* RETAINED_POINTS_MIN
  RetainedPointsMax,    \* RETAINED_POINTS_MAX
  SnapshotPinDays,      \* LOCAL_SNAPSHOT_PIN_DAYS
  MaxDay                \* bound: the history ends here

ASSUME CapacityAssumption ==
  /\ BackupHours \subseteq 0..23 /\ BackupHours # {}
  /\ PassHour \in 0..23 \ BackupHours
  /\ SnapshotPinDays \in Nat \ {0} /\ RetainedPointsMax \in Nat /\ MaxDay \in Nat

VARIABLES
  hour,                 \* of the next event
  firstWeekday,         \* weekday of day 0; 0 is a Monday
  points,               \* recovery points on disk
  pinned                \* deleted points that snapshots still hold, and their passes

yearsVars == <<hour, firstWeekday, points, pinned>>

Day(h) == h \div 24
Days(n) == 24 * n

MonthEnds == <<31, 59, 90, 120, 151, 181, 212, 243, 273, 304, 334, 365>>
Year(d) == d \div 365
Month(d) == CHOOSE m \in 1..12 :
              /\ d % 365 < MonthEnds[m]
              /\ m = 1 \/ d % 365 >= MonthEnds[m - 1]
IsoWeek(d) == (d + firstWeekday) \div 7

(* The tier of a point that is older than a week, and its bucket there.      *)
Bucket(p, now) ==
  IF now - p <= Days(30) THEN <<"day", Day(p)>>
  ELSE IF now - p <= Days(90) THEN <<"week", IsoWeek(Day(p))>>
  ELSE <<"month", Year(Day(p)), Month(Day(p))>>

(* Plausible bug: a bucket per receipt, not per day.                         *)
RetainedPerReceipt(now) ==
  {p \in points : now - p <= Days(30)
                  \/ \A q \in points : Bucket(q, now) = Bucket(p, now) => p <= q}

(* retention_partition: the newest, everything of the last week, and the     *)
(* first-received point of each bucket up to a year back.                    *)
Retained(now) ==
  LET tiered == {p \in points : now - p > Days(7) /\ now - p <= Days(365)}
      bucket == [p \in tiered |-> Bucket(p, now)]
  IN  {p \in points : now - p <= Days(7) \/ \A q \in points : q <= p}
      \cup {p \in tiered : \A q \in tiered : bucket[q] = bucket[p] => p <= q}

-----------------------------------------------------------------------------
YearsInit ==
  /\ hour \in BackupHours /\ \A h \in BackupHours : hour <= h
  /\ firstWeekday \in 0..6
  /\ points = {}
  /\ pinned = {}

EventHours == BackupHours \cup {PassHour}
NextEvent == CHOOSE h \in (hour + 1)..(hour + 24) :
               /\ h % 24 \in EventHours
               /\ \A g \in (hour + 1)..(h - 1) : g % 24 \notin EventHours

(* The timer starts a client, whose backup is received.                      *)
ReceivePoint ==
  /\ Day(hour) < MaxDay
  /\ hour % 24 \in BackupHours
  /\ points' = points \cup {hour}
  /\ hour' = NextEvent
  /\ UNCHANGED <<firstWeekday, pinned>>

(* _maintenance_retention; what the passes of the last days deleted is in    *)
(* snapshots that have not expired.                                          *)
Maintain ==
  /\ Day(hour) < MaxDay
  /\ hour % 24 = PassHour
  /\ points' = Retained(hour)
  /\ pinned' = {x \in pinned : hour - x.at < Days(SnapshotPinDays)}
               \cup {[point |-> p, at |-> hour] : p \in points \ Retained(hour)}
  /\ hour' = NextEvent
  /\ UNCHANGED firstWeekday

YearsNext == ReceivePoint \/ Maintain

YearsSpec == YearsInit /\ [][YearsNext]_yearsVars

-----------------------------------------------------------------------------
YearsTypeOK ==
  /\ hour \in 0..(Days(MaxDay) + 24)
  /\ firstWeekday \in 0..6
  /\ points \subseteq 0..(hour - 1)
  /\ pinned \subseteq [point: 0..(hour - 1), at: 0..(hour - 1)]

BackupsPerDay == Cardinality(BackupHours)

(* The plan's upper bound (build_model, local_max_bytes): the points on disk *)
(* and the deleted ones that snapshots still pin are never more than the     *)
(* quota was planned for, on any day of any year and week.                   *)
PlanIsEnough ==
  Cardinality(points) + Cardinality(pinned)
    <= RetainedPointsMax + BackupsPerDay * SnapshotPinDays

(* docs/operations/postgresql-backups.md:75: "the receiver's 56-60-point     *)
(* calendar retention range", once backups have come in for over a year.     *)
RetainedRange ==
  hour > Days(400) =>
    Cardinality(points) \in RetainedPointsMin..RetainedPointsMax
=============================================================================
