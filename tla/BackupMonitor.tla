---------------------------- MODULE BackupMonitor ----------------------------
(***************************************************************************)
(* The hourly check of the backup receiver                                  *)
(* (scripts/postgres_backup_monitor.py): how old the newest valid receipt   *)
(* is, whether the administrators must be told, the mail, and then the      *)
(* state that remembers it.  A check holds the receiver's locks, so there   *)
(* is one at a time; it can fail or die at every step.                      *)
(***************************************************************************)
EXTENDS Naturals

CONSTANTS
  MissedAfter, CriticalAfter, ContainmentAfter,  \* ages of the newest receipt
  ReminderInterval,
  MonitorHours   \* bound of the clock

ASSUME MonitorAssumption ==
  ReminderInterval \in Nat \ {0} /\ MonitorHours \in Nat

VARIABLES
  monitorClock,
  pairTimes,     \* retention times of the pairs that validate
  monitorState,  \* the stored notification state, or NoState
  check,         \* the check: its step and what it has found
  mail,          \* history: the last mail that was delivered, or NoMail
  forgotten      \* history: its state was not stored

monitorVars == <<monitorClock, pairTimes, monitorState, check, mail, forgotten>>

Times == 0..(MonitorHours + 1)
NotNotified == MonitorHours + 2
Severities == {"ok", "missed", "critical", "containment"}
NoState == [severity |-> "none", notified |-> NotNotified]
NoMail == [severity |-> "none", at |-> NotNotified]

(* classify_receipt_age *)
Classify(age) ==
  CASE age >= ContainmentAfter -> "containment"
    [] age >= CriticalAfter /\ age < ContainmentAfter -> "critical"
    [] age >= MissedAfter /\ age < CriticalAfter -> "missed"
    [] OTHER -> "ok"

(* inspect_receipts: receipts dated in the future do not count.              *)
SeverityAt(now) ==
  LET past == {t \in pairTimes : t <= now} IN
  IF past = {} THEN "containment"
  ELSE Classify(now - CHOOSE t \in past : \A u \in past : u <= t)

(* Plausible bug: only worse news is news.                                   *)
RequiredWhenBad(severity, now) ==
  /\ severity # "ok"
  /\ \/ monitorState.severity # severity
     \/ monitorState.notified = NotNotified \/ now - monitorState.notified >= ReminderInterval

(* _notification_required *)
Required(severity, now) ==
  IF monitorState = NoState THEN severity # "ok"
  ELSE \/ monitorState.severity # severity
       \/ /\ severity # "ok"
          /\ monitorState.notified = NotNotified \/ now - monitorState.notified >= ReminderInterval

-----------------------------------------------------------------------------
NoCheck == [step |-> "idle", severity |-> "ok", now |-> 0]

MonitorInit ==
  /\ monitorClock = 0
  /\ pairTimes = {}
  /\ monitorState = NoState
  /\ check = NoCheck
  /\ mail = NoMail /\ forgotten = FALSE

MonitorTick ==
  /\ monitorClock < MonitorHours
  /\ monitorClock' = monitorClock + 1
  /\ UNCHANGED <<pairTimes, monitorState, check, mail, forgotten>>

(* A backup is received, perhaps by a clock that is ahead.                   *)
ReceiveBackup ==
  /\ \E ahead \in {0, 1} : pairTimes' = pairTimes \cup {monitorClock + ahead}
  /\ UNCHANGED <<monitorClock, monitorState, check, mail, forgotten>>

(* A pair is deleted or no longer validates.                                 *)
Spoil ==
  /\ \E t \in pairTimes : pairTimes' = pairTimes \ {t}
  /\ UNCHANGED <<monitorClock, monitorState, check, mail, forgotten>>

Inspect ==
  /\ check.step \in {"idle", "done"}
  /\ LET severity == SeverityAt(monitorClock) IN
     check' = [step |-> IF Required(severity, monitorClock) THEN "notify"
                        ELSE IF monitorState = NoState THEN "store" ELSE "done",
               severity |-> severity, now |-> monitorClock]
  /\ UNCHANGED <<monitorClock, pairTimes, monitorState, mail, forgotten>>

(* mail.send returned, or its job succeeded.                                 *)
Notify ==
  /\ check.step = "notify"
  /\ mail' = [severity |-> check.severity, at |-> check.now]
  /\ check' = [check EXCEPT !.step = "storeMailed"]
  /\ forgotten' = TRUE
  /\ UNCHANGED <<monitorClock, pairTimes, monitorState>>

(* The renamed state file: what was told and when, or a first "ok".          *)
Store ==
  /\ check.step \in {"store", "storeMailed"}
  /\ monitorState' = [severity |-> check.severity,
                      notified |-> IF check.step = "store" THEN NotNotified ELSE check.now]
  /\ check' = [check EXCEPT !.step = "done"]
  /\ forgotten' = IF check.step = "store" THEN forgotten ELSE FALSE
  /\ UNCHANGED <<monitorClock, pairTimes, mail>>

(* The mail fails, the write fails, or the check dies.                       *)
Abort ==
  /\ check.step \in {"notify", "store", "storeMailed"}
  /\ check' = NoCheck
  /\ UNCHANGED <<monitorClock, pairTimes, monitorState, mail, forgotten>>

MonitorNext == MonitorTick \/ ReceiveBackup \/ Spoil \/ Inspect \/ Notify \/ Store \/ Abort

MonitorSpec == MonitorInit /\ [][MonitorNext]_monitorVars

-----------------------------------------------------------------------------
MonitorTypeOK ==
  /\ monitorClock \in 0..MonitorHours
  /\ pairTimes \subseteq Times
  /\ monitorState \in [severity: Severities, notified: Times \cup {NotNotified}] \cup {NoState}
  /\ check \in [step: {"idle", "notify", "store", "storeMailed", "done"},
                severity: Severities, now: Times]
  /\ mail \in [severity: Severities, at: Times] \cup {NoMail}
  /\ forgotten \in BOOLEAN

(* When a check completes, what the administrators were last told is what it *)
(* found: they heard of a problem no longer ago than the reminder interval,  *)
(* and of its end, over checks that failed to mail or died, unless a mail    *)
(* went out and its state was never stored.                                  *)
AdministratorsKnow ==
  check.step = "done" /\ ~forgotten =>
    IF check.severity = "ok"
    THEN mail = NoMail \/ mail.severity = "ok"
    ELSE /\ mail.severity = check.severity
         /\ check.now - mail.at < ReminderInterval
=============================================================================
