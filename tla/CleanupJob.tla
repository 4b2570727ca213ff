----------------------------- MODULE CleanupJob -----------------------------
(***************************************************************************)
(* The nightly cleanup, app/cleanup.py: one process at a time (the CronJob *)
(* forbids concurrency).  It selects the abandoned rows, removes their     *)
(* files one by one, then deletes the rows its condition matches by then.  *)
(***************************************************************************)
EXTENDS Stores, Broker, Faults

CONSTANT CleanupRuns   \* bound: how many nights there are

ASSUME CleanupAssumption == CleanupRuns \in Nat

VARIABLES
  cleanupPc,   \* what the process does next
  batch,       \* the selected images whose file is still to be removed
  nights       \* nights gone by

cleanupVars == <<cleanupPc, batch, nights>>

CleanupTypeOK ==
  /\ cleanupPc \in {"idle", "files", "rows"}
  /\ batch \subseteq AssetId
  /\ nights \in 0 .. CleanupRuns

CleanupInit ==
  /\ cleanupPc = "idle"
  /\ batch = {}
  /\ nights = 0

\* The SELECT; with nothing to do the process ends there.
CleanupSelect ==
  /\ cleanupPc = "idle"
  /\ nights < CleanupRuns
  /\ Abandoned # {}
  /\ nights' = nights + 1
  /\ cleanupPc' = "files"
  /\ batch' = Abandoned
  /\ UNCHANGED <<dbVars, storeVars, jobVars, eventVars>> /\ Smooth

\* One turn of the loop; a file that cannot be removed is logged and skipped.
CleanupFile ==
  /\ cleanupPc = "files"
  /\ \E a \in batch :
       /\ batch' = batch \ {a}
       /\ \/ RemoveOriginal(a) /\ Smooth
          \/ UNCHANGED originals /\ Fault("store")
  /\ cleanupPc' = IF batch' = {} THEN "rows" ELSE "files"
  /\ UNCHANGED <<nights, dbVars, derived, documents, links, jobVars, eventVars>>

\* The DELETE evaluates the condition again.
CleanupRows ==
  /\ cleanupPc = "rows"
  /\ DeleteRows(Abandoned)
  /\ cleanupPc' = "idle"
  /\ UNCHANGED <<batch, nights, storeVars, jobVars, eventVars>> /\ Smooth

\* The process dies or its database connection does: nothing is deleted there.
CleanupCutShort ==
  /\ cleanupPc # "idle"
  /\ Fault("crash")
  /\ cleanupPc' = "idle" /\ batch' = {}
  /\ UNCHANGED <<nights, dbVars, storeVars, jobVars, eventVars>>

CleanupStep == CleanupSelect \/ CleanupFile \/ CleanupRows

CleanupNext == CleanupStep \/ CleanupCutShort

=============================================================================
