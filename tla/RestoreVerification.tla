------------------------- MODULE RestoreVerification -------------------------
(***************************************************************************)
(* The operator's restore drill (scripts/postgres_restore_verify.py, main): *)
(* a backup is read and checked, restored into a database of its own with   *)
(* its own volume and network, and everything is removed again, whatever    *)
(* step failed.  A command can fail after it has done its work, and the     *)
(* operator can interrupt the drill.                                        *)
(***************************************************************************)
EXTENDS Naturals, Sequences, SequencesExt

CONSTANT MaxDrillFaults   \* bound: commands that fail on their own

ASSUME DrillAssumption == MaxDrillFaults \in Nat

VARIABLES
  position,      \* the step under way
  phase,         \* "working", "cleanup", "report" or "over"
  existing,      \* what exists: the environment file and Docker's resources
  created,       \* what the drill knows to have created
  checks,        \* checks that were ticked off
  failed,        \* an Exception was caught
  interrupted,   \* KeyboardInterrupt: no evidence is written
  removals,      \* resources still to be removed
  cleanupOk,
  drillFaults,
  unclean,       \* history: a command failed after it had created something
  evidence       \* "none", "passed" or "failed"

drillVars == <<position, phase, existing, created, checks, failed, interrupted,
  removals, cleanupOk, drillFaults, unclean, evidence>>

Resources == {"environment", "network", "volume", "container"}

(* The body of main's try, in order.                                         *)
DrillWork == <<"health", "metadata", "dump", "image", "environment", "network",
               "volume", "container", "ready", "restore", "schema", "application">>

(* The entries of the evidence that a step ticks off.                        *)
Ticks == [s \in ToSet(DrillWork) |->
            CASE s = "metadata" -> {"metadata_complete"}
              [] s = "dump" -> {"transfer_complete", "artifact_checksum"}
              [] s = "restore" -> {"pg_restore"}
              [] s = "schema" -> {"required_schema"}
              [] s = "application" -> {"application_check", "migration_compatibility",
                                       "application_semantic_reads"}
              [] OTHER -> {}]
Checks == UNION {Ticks[s] : s \in ToSet(DrillWork)}

(* Plausible bug: removed in the order they were created.                    *)
RemovalOrderAsCreated ==
  [environment |-> 1, network |-> 2, volume |-> 3, container |-> 4]

(* The environment file first, then Docker's resources in reverse order.     *)
RemovalOrder ==
  [environment |-> 1, container |-> 2, volume |-> 3, network |-> 4]

NextRemoval ==
  CHOOSE r \in removals : \A s \in removals : RemovalOrder[r] <= RemovalOrder[s]

-----------------------------------------------------------------------------
DrillInit ==
  /\ position = 1 /\ phase = "working"
  /\ existing = {} /\ created = {} /\ checks = {}
  /\ failed = FALSE /\ interrupted = FALSE
  /\ removals = {} /\ cleanupOk = TRUE
  /\ drillFaults = 0 /\ unclean = FALSE
  /\ evidence = "none"

Working == phase = "working" /\ position <= Len(DrillWork)
CleanUp(known) == phase' = "cleanup" /\ removals' = known

StepSucceeds ==
  /\ Working
  /\ LET s == DrillWork[position] IN
     /\ existing' = existing \cup ({s} \cap Resources)
     /\ created' = created \cup ({s} \cap Resources)
     /\ checks' = checks \cup Ticks[s]
     /\ position' = position + 1
     /\ IF position = Len(DrillWork) THEN CleanUp(created')
        ELSE UNCHANGED <<phase, removals>>
  /\ UNCHANGED <<failed, interrupted, cleanupOk, drillFaults, unclean, evidence>>

(* A command fails or the drill is interrupted, before or after the command  *)
(* had its effect.  The name of the environment file is known once it exists.*)
StepFails ==
  /\ Working
  /\ LET s == DrillWork[position] IN
     \E effect \in SUBSET ({s} \cap Resources), interrupt \in BOOLEAN :
       /\ existing' = existing \cup effect
       /\ created' = created \cup (effect \cap {"environment"})
       /\ unclean' = (effect \notin {{}, {"environment"}})
       /\ failed' = ~interrupt /\ interrupted' = interrupt
  /\ CleanUp(created')
  /\ UNCHANGED <<position, checks, cleanupOk, drillFaults, evidence>>

(* A volume or a network cannot be removed while a container uses it.        *)
InUse(r) == r \in {"volume", "network"} /\ "container" \in existing

RemoveNext ==
  /\ phase = "cleanup" /\ removals # {}
  /\ ~InUse(NextRemoval)
  /\ existing' = existing \ {NextRemoval}
  /\ removals' = removals \ {NextRemoval}
  /\ UNCHANGED <<position, phase, created, checks, failed, interrupted,
                 cleanupOk, drillFaults, unclean, evidence>>

RemoveFails ==
  /\ phase = "cleanup" /\ removals # {}
  /\ \/ InUse(NextRemoval) /\ UNCHANGED drillFaults
     \/ drillFaults < MaxDrillFaults /\ drillFaults' = drillFaults + 1
  /\ cleanupOk' = FALSE
  /\ removals' = removals \ {NextRemoval}
  /\ UNCHANGED <<position, phase, existing, created, checks, failed,
                 interrupted, unclean, evidence>>

(* Nothing catches an interrupt here; the removal under way may be done.     *)
InterruptCleanUp ==
  /\ phase = "cleanup" /\ removals # {}
  /\ \/ UNCHANGED existing
     \/ ~InUse(NextRemoval) /\ existing' = existing \ {NextRemoval}
  /\ phase' = "over" /\ interrupted' = TRUE
  /\ UNCHANGED <<position, created, checks, failed, removals, cleanupOk,
                 drillFaults, unclean, evidence>>

CleanedUp ==
  /\ phase = "cleanup" /\ removals = {}
  /\ phase' = IF interrupted THEN "over" ELSE "report"
  /\ UNCHANGED <<position, existing, created, checks, failed, interrupted,
                 removals, cleanupOk, drillFaults, unclean, evidence>>

(* write_json_atomic of the evidence, which may itself fail.                 *)
Report ==
  /\ phase = "report"
  /\ evidence' \in {"none", IF ~failed /\ cleanupOk THEN "passed" ELSE "failed"}
  /\ phase' = "over"
  /\ UNCHANGED <<position, existing, created, checks, failed, interrupted,
                 removals, cleanupOk, drillFaults, unclean>>

DrillNext ==
  \/ StepSucceeds \/ StepFails
  \/ RemoveNext \/ RemoveFails \/ InterruptCleanUp \/ CleanedUp
  \/ Report

DrillSpec == DrillInit /\ [][DrillNext]_drillVars

-----------------------------------------------------------------------------
DrillTypeOK ==
  /\ position \in 1..(Len(DrillWork) + 1)
  /\ phase \in {"working", "cleanup", "report", "over"}
  /\ existing \subseteq Resources /\ created \subseteq Resources
  /\ checks \subseteq Checks
  /\ removals \subseteq Resources
  /\ failed \in BOOLEAN /\ interrupted \in BOOLEAN
  /\ cleanupOk \in BOOLEAN /\ unclean \in BOOLEAN
  /\ drillFaults \in 0..MaxDrillFaults
  /\ evidence \in {"none", "passed", "failed"}

(* A drill that passed has done every check and left nothing behind; and     *)
(* wherever a drill fails or is interrupted, it leaves something behind only *)
(* when a command failed after creating it, a removal failed or the cleaning *)
(* up was itself interrupted.                                                *)
DrillCleansUp ==
  phase = "over" =>
    /\ evidence = "passed" => checks = Checks /\ existing = {}
    /\ existing # {} => unclean \/ drillFaults > 0 \/ removals # {}
=============================================================================
