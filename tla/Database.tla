------------------------------ MODULE Database ------------------------------
(***************************************************************************)
(* The relational database: the tables assets, variants and notifications, *)
(* and the SQL statements the three services and the cleanup run on them.  *)
(*                                                                         *)
(* One operator per statement.  A statement is atomic; what a service does *)
(* between two statements is an interleaving point of that service, unless *)
(* both belong to a transaction whose writes become visible together.      *)
(***************************************************************************)
EXTENDS Naturals, FiniteSets

CONSTANTS
  AssetId,     \* identifiers of images
  KindCount    \* how many variants an image has (three in the code)

ASSUME DatabaseAssumption == KindCount \in Nat \ {0}

VARIABLES
  assets,      \* table assets: a row per identifier
  variants,    \* table variants: the kinds with a row, per identifier
  notices      \* table notifications: per identifier and kind of event

dbVars == <<assets, variants, notices>>

\* The kinds of variant in the order VARIANT_SPECS lists them.
Kinds == 1 .. KindCount

EventKind == {"asset.processed", "asset.failed"}

Status == {"PENDING", "PROCESSING", "DONE", "FAILED"}

(***************************************************************************)
(* A row of assets.  "ABSENT" and "DELETED" stand for no row: an           *)
(* identifier is drawn at random for each registration, so it is never     *)
(* used again.                                                             *)
(*   submitted  submitted_at: NULL, recent, or older than                  *)
(*              stale_job_seconds                                          *)
(*   reason     error_message is not NULL                                  *)
(*   old        created_at is older than the cleanup's age                 *)
(***************************************************************************)
Row == [status    : Status \cup {"ABSENT", "DELETED"},
        submitted : {"no", "fresh", "stale"},
        reason    : BOOLEAN,
        old       : BOOLEAN]

NoRow(why) == [status |-> why, submitted |-> "no", reason |-> FALSE, old |-> FALSE]

NewRow == [status |-> "PENDING", submitted |-> "no", reason |-> FALSE, old |-> FALSE]

Exists(a) == assets[a].status \in Status

DatabaseTypeOK ==
  /\ assets \in [AssetId -> Row]
  /\ variants \in [AssetId -> SUBSET Kinds]
  /\ notices \in [AssetId -> [EventKind -> {"none", "recorded", "sent"}]]

-----------------------------------------------------------------------------
(* The worker's statements. *)

\* An UPDATE of the row of a, which touches nothing when the row is gone.
Update(a, row) == assets' = IF Exists(a) THEN [assets EXCEPT ![a] = row] ELSE assets

Claimable(a) == assets[a].status \in {"PENDING", "PROCESSING"}

\* claim_asset, when it returns a row.
SetProcessing(a) == Update(a, [assets[a] EXCEPT !.status = "PROCESSING"])

SetDone(a) == Update(a, [assets[a] EXCEPT !.status = "DONE", !.reason = FALSE])

\* mark_failed: no condition on the status it overwrites.
SetFailed(a) == Update(a, [assets[a] EXCEPT !.status = "FAILED", !.reason = TRUE])

\* Mutation: no foreign key refuses the rows of an image that is gone.
SaveVariantsOfAnything(a) == variants' = [variants EXCEPT ![a] = Kinds]

\* save_variants: the foreign key refuses the rows of an image that is gone.
SaveVariants(a) ==
  /\ Exists(a)
  /\ variants' = [variants EXCEPT ![a] = Kinds]

-----------------------------------------------------------------------------
(* The statements of the API service. *)

InsertAsset(a) ==
  /\ assets[a].status = "ABSENT"
  /\ assets' = [assets EXCEPT ![a] = NewRow]

\* The condition of the claim in complete_upload.
Submittable(a) == Exists(a) /\ assets[a].submitted = "no"

SetSubmitted(a) == Update(a, [assets[a] EXCEPT !.submitted = "fresh"])

SetUnsubmitted(a) == Update(a, [assets[a] EXCEPT !.submitted = "no"])

\* The condition of the claim in retry_asset.
Retryable(a) ==
  \/ assets[a].status = "FAILED"
  \/ assets[a].status \in {"PENDING", "PROCESSING"} /\ assets[a].submitted = "stale"

\* Mutation: the reason of the failure stays on the row.
SetResubmittedKeepingReason(a) ==
  Update(a, [assets[a] EXCEPT !.status = "PENDING", !.submitted = "fresh"])

\* The claim of retry_asset.
SetResubmitted(a) ==
  Update(a, [assets[a] EXCEPT !.status = "PENDING", !.reason = FALSE, !.submitted = "fresh"])

\* The release of a retry whose publication failed: error_message stays NULL.
SetRetryReleased(a) ==
  Update(a, [assets[a] EXCEPT !.status = "FAILED", !.submitted = "no"])

\* DELETE FROM assets: variants and notifications fall by cascade.
DeleteRows(S) ==
  /\ assets' = [a \in AssetId |-> IF a \in S THEN NoRow("DELETED") ELSE assets[a]]
  /\ variants' = [a \in AssetId |-> IF a \in S THEN {} ELSE variants[a]]
  /\ notices' = [a \in AssetId |->
                   IF a \in S THEN [e \in EventKind |-> "none"] ELSE notices[a]]

-----------------------------------------------------------------------------
(* The cleanup's and the notifier's statements. *)

\* The rows the cleanup calls abandoned.
Abandoned == {a \in AssetId : Exists(a) /\ assets[a].submitted = "no" /\ assets[a].old}

\* Mutation: the notice of an image that is gone is taken.
RecordNoticeOfAnything(a, e) ==
  notices' = [notices EXCEPT ![a][e] = IF @ = "none" THEN "recorded" ELSE @]

\* INSERT ... ON CONFLICT DO NOTHING, under the foreign key.
RecordNotice(a, e) ==
  /\ Exists(a)
  /\ notices' = [notices EXCEPT ![a][e] = IF @ = "none" THEN "recorded" ELSE @]

\* UPDATE ... SET sent_at WHERE sent_at IS NULL.
SetSent(a, e) ==
  notices' = [notices EXCEPT ![a][e] = IF @ = "recorded" THEN "sent" ELSE @]

-----------------------------------------------------------------------------
(* The passing of time, as the comparisons with now() see it. *)

\* stale_job_seconds pass since submitted_at.
BecomesStale(a) ==
  /\ Exists(a) /\ assets[a].submitted = "fresh"
  /\ assets' = [assets EXCEPT ![a].submitted = "stale"]
  /\ UNCHANGED <<variants, notices>>

\* The cleanup's age passes since created_at.
BecomesOld(a) ==
  /\ Exists(a) /\ ~assets[a].old
  /\ assets' = [assets EXCEPT ![a].old = TRUE]
  /\ UNCHANGED <<variants, notices>>

=============================================================================
