---------------------------- MODULE SafetyProofs ----------------------------
(***************************************************************************)
(* What the database says of an image is true of the stores, for every     *)
(* number of images, replicas, requests, kinds, attempts and failures.     *)
(*                                                                         *)
(* The invariants are not inductive alone.  A worker may commit DONE only  *)
(* because it has put everything in place before, and nothing it has put   *)
(* in place is taken away as long as the row exists: only a request whose  *)
(* row is gone removes objects.                                            *)
(***************************************************************************)
EXTENDS PlatformProofs

Gone(a) == assets[a].status = "DELETED"

\* What a busy worker has put in place when it gets to each statement.
InPlace(w) ==
  \/ Gone(Asset(w))
  \/ /\ workerPc[w] = "upload" => 1 .. (nextKind[w] - 1) \subseteq derived[Asset(w)]
     /\ workerPc[w] \in {"document", "commit"} => derived[Asset(w)] = Kinds
     /\ workerPc[w] = "commit" => Asset(w) \in documents

WorkInv == \A w \in Workers : workerPc[w] # "idle" => InPlace(w)

\* Objects are forgotten after the row.
ForgetInv == \A r \in Requests : requestPc[r] \in Forgetting => Gone(Target(r))

\* Nothing hangs from a row that is gone.
GoneIsEmpty ==
  \A a \in AssetId :
    Gone(a) => /\ variants[a] = {}
               /\ \A e \in EventKind : notices[a][e] = "none"

RowInv == GoneIsEmpty /\ DoneIsComplete /\ RowsHaveObjects /\ ReasonMeansFailed

SafetyInv == TypeInv /\ WorkInv /\ ForgetInv /\ RowInv

-----------------------------------------------------------------------------
(* What every step does to the rows and to the stores. *)

GoneStaysGone == \A a \in AssetId : Gone(a) => Gone(a)'

\* Objects and documents are taken away only from images that are gone.
StoresKeep ==
  \A a \in AssetId :
    \/ Gone(a)
    \/ derived[a] \subseteq derived'[a] /\ (a \in documents => a \in documents')

\* Nobody else's step spoils what a worker has put in place.
LEMMA WorkFrame ==
  ASSUME TypeInv, StoresTypeOK', WorkInv, UNCHANGED workerVars, GoneStaysGone, StoresKeep
  PROVE  WorkInv'
<1> SUFFICES ASSUME NEW w \in Workers, workerPc[w] # "idle", InPlace(w)
             PROVE  InPlace(w)'
  BY DEF WorkInv, workerVars
<1>1. Asset(w) \in AssetId /\ Asset(w)' = Asset(w)
  BY DEF TypeInv, WorkerInv, Asset, Job, workerVars
<1>2. derived'[Asset(w)] \subseteq Kinds
  BY <1>1 DEF StoresTypeOK
<1> QED
  BY <1>1, <1>2 DEF InPlace, GoneStaysGone, StoresKeep, workerVars

LEMMA ForgetFrame ==
  ASSUME TypeInv, ForgetInv, UNCHANGED apiVars, GoneStaysGone
  PROVE  ForgetInv'
BY DEF ForgetInv, TypeInv, RequestInv, Forgetting, Target, GoneStaysGone, apiVars

LEMMA RowFrame ==
  ASSUME TypeInv, StoresTypeOK', RowInv, UNCHANGED dbVars, StoresKeep
  PROVE  RowInv' /\ GoneStaysGone
<1>1. GoneIsEmpty' /\ ReasonMeansFailed' /\ GoneStaysGone
  BY DEF RowInv, GoneIsEmpty, ReasonMeansFailed, GoneStaysGone, Gone, dbVars
<1>2. DoneIsComplete'
  BY DEF RowInv, DoneIsComplete, StoresKeep, StoresTypeOK, Gone, dbVars
<1>3. RowsHaveObjects'
  BY DEF RowInv, RowsHaveObjects, GoneIsEmpty, StoresKeep, Gone, dbVars
<1> QED
  BY <1>1, <1>2, <1>3 DEF RowInv

\* A statement that writes a row without making it DONE, or gone, and without
\* leaving a reason on a row that did not fail.
LEMMA RowWritten ==
  ASSUME TypeInv, RowInv, NEW a \in AssetId, NEW row \in Row, Update(a, row),
         row.status \in Status \ {"DONE"} \/ row.status = assets[a].status,
         row.reason => row.status = "FAILED",
         UNCHANGED <<variants, notices, derived, documents>>
  PROVE  RowInv' /\ GoneStaysGone
<1>1. \A b \in AssetId : b # a => assets'[b] = assets[b]
  BY DEF TypeInv, DatabaseTypeOK, Update
<1>2. assets'[a] = IF Exists(a) THEN row ELSE assets[a]
  BY DEF TypeInv, DatabaseTypeOK, Update
<1>3. \A b \in AssetId : Gone(b) <=> Gone(b)'
  BY <1>1, <1>2 DEF Gone, Exists, Status
<1>4. GoneIsEmpty' /\ GoneStaysGone
  BY <1>3 DEF RowInv, GoneIsEmpty, GoneStaysGone
<1>5. DoneIsComplete'
  BY <1>1, <1>2 DEF RowInv, DoneIsComplete
<1>6. RowsHaveObjects'
  BY DEF RowInv, RowsHaveObjects
<1>7. ReasonMeansFailed'
  BY <1>1, <1>2 DEF RowInv, ReasonMeansFailed
<1> QED
  BY <1>4, <1>5, <1>6, <1>7 DEF RowInv

\* The statements that move a row, but the worker's last transaction.
LEMMA StatementRows ==
  ASSUME TypeInv, RowInv, NEW a \in AssetId,
         \/ Claimable(a) /\ SetProcessing(a)
         \/ SetFailed(a)
         \/ SetSubmitted(a)
         \/ SetUnsubmitted(a)
         \/ SetResubmitted(a)
         \/ SetRetryReleased(a),
         UNCHANGED <<variants, notices, derived, documents>>
  PROVE  RowInv' /\ GoneStaysGone
<1> DEFINE row == assets[a]
<1>1. row \in Row /\ (row.reason => row.status = "FAILED")
  BY DEF TypeInv, DatabaseTypeOK, RowInv, ReasonMeansFailed
<1>2. CASE Claimable(a) /\ SetProcessing(a)
  <2> DEFINE new == [row EXCEPT !.status = "PROCESSING"]
  <2>1. new \in Row /\ new.status = "PROCESSING" /\ ~new.reason
    BY <1>1, <1>2 DEF Row, Status, Claimable
  <2> QED
    BY <1>2, <2>1, RowWritten DEF SetProcessing, Status
<1>3. CASE SetFailed(a)
  <2> DEFINE new == [row EXCEPT !.status = "FAILED", !.reason = TRUE]
  <2>1. new \in Row /\ new.status = "FAILED"
    BY <1>1 DEF Row, Status
  <2> QED
    BY <1>3, <2>1, RowWritten DEF SetFailed, Status
<1>4. CASE SetSubmitted(a)
  <2> DEFINE new == [row EXCEPT !.submitted = "fresh"]
  <2>1. new \in Row /\ new.status = row.status /\ new.reason = row.reason
    BY <1>1 DEF Row, Status
  <2> QED
    BY <1>1, <1>4, <2>1, RowWritten DEF SetSubmitted
<1>5. CASE SetUnsubmitted(a)
  <2> DEFINE new == [row EXCEPT !.submitted = "no"]
  <2>1. new \in Row /\ new.status = row.status /\ new.reason = row.reason
    BY <1>1 DEF Row, Status
  <2> QED
    BY <1>1, <1>5, <2>1, RowWritten DEF SetUnsubmitted
<1>6. CASE SetResubmitted(a)
  <2> DEFINE new == [row EXCEPT !.status = "PENDING", !.reason = FALSE, !.submitted = "fresh"]
  <2>1. new \in Row /\ new.status = "PENDING" /\ ~new.reason
    BY <1>1 DEF Row, Status
  <2> QED
    BY <1>6, <2>1, RowWritten DEF SetResubmitted, Status
<1>7. CASE SetRetryReleased(a)
  <2> DEFINE new == [row EXCEPT !.status = "FAILED", !.submitted = "no"]
  <2>1. new \in Row /\ new.status = "FAILED"
    BY <1>1 DEF Row, Status
  <2> QED
    BY <1>7, <2>1, RowWritten DEF SetRetryReleased, Status
<1> QED
  BY <1>2, <1>3, <1>4, <1>5, <1>6, <1>7

\* A deletion takes rows, variants and notices together.
LEMMA DeletedRows ==
  ASSUME TypeInv, RowInv, NEW S, DeleteRows(S), UNCHANGED <<derived, documents>>
  PROVE  RowInv' /\ GoneStaysGone /\ \A a \in AssetId \cap S : Gone(a)'
<1>1. \A a \in AssetId : IF a \in S THEN /\ assets'[a] = NoRow("DELETED")
                                        /\ variants'[a] = {}
                                        /\ \A e \in EventKind : notices'[a][e] = "none"
                                   ELSE /\ assets'[a] = assets[a]
                                        /\ variants'[a] = variants[a]
                                        /\ notices'[a] = notices[a]
  BY DEF DeleteRows
<1>2. NoRow("DELETED").status = "DELETED" /\ ~NoRow("DELETED").reason
  BY DEF NoRow
<1>3. GoneIsEmpty' /\ GoneStaysGone /\ \A a \in AssetId \cap S : Gone(a)'
  BY <1>1, <1>2 DEF RowInv, GoneIsEmpty, GoneStaysGone, Gone
<1>4. DoneIsComplete' /\ RowsHaveObjects' /\ ReasonMeansFailed'
  BY <1>1, <1>2 DEF RowInv, DoneIsComplete, RowsHaveObjects, ReasonMeansFailed
<1> QED
  BY <1>3, <1>4 DEF RowInv

\* The worker's last transaction, when everything is in place.
LEMMA FinishedRows ==
  ASSUME TypeInv, RowInv, NEW a \in AssetId, SaveVariants(a), SetDone(a), derived[a] = Kinds,
         a \in documents,
         UNCHANGED <<notices, derived, documents>>
  PROVE  RowInv' /\ GoneStaysGone
<1>1. Exists(a) /\ variants' = [variants EXCEPT ![a] = Kinds]
  BY DEF SaveVariants
<1>2. assets' = [assets EXCEPT ![a] = [assets[a] EXCEPT !.status = "DONE", !.reason = FALSE]]
  BY <1>1 DEF SetDone, Update
<1>3. /\ assets'[a].status = "DONE" /\ ~assets'[a].reason /\ variants'[a] = Kinds
      /\ \A b \in AssetId : b # a => assets'[b] = assets[b] /\ variants'[b] = variants[b]
  BY <1>1, <1>2 DEF TypeInv, DatabaseTypeOK, Row
<1>4. GoneIsEmpty' /\ GoneStaysGone
  BY <1>1, <1>3 DEF RowInv, GoneIsEmpty, GoneStaysGone, Gone, Exists, Status
<1>5. DoneIsComplete' /\ RowsHaveObjects' /\ ReasonMeansFailed'
  BY <1>3 DEF RowInv, DoneIsComplete, RowsHaveObjects, ReasonMeansFailed
<1> QED
  BY <1>4, <1>5 DEF RowInv

-----------------------------------------------------------------------------
(* The worker-service. *)

\* A replica's own step, when it leaves the stores alone and goes on to a statement
\* for which nothing need be in place.
LEMMA WorkMoves ==
  ASSUME TypeInv, WorkInv, NEW w \in Workers, GoneStaysGone, UNCHANGED storeVars,
         workerPc'[w] \notin {"upload", "document", "commit"},
         \A v \in Workers : v # w => /\ workerPc'[v] = workerPc[v]
                                    /\ workerJob'[v] = workerJob[v]
                                    /\ nextKind'[v] = nextKind[v]
  PROVE  WorkInv'
<1> SUFFICES ASSUME NEW v \in Workers, workerPc'[v] # "idle"
             PROVE  InPlace(v)'
  BY DEF WorkInv
<1>1. CASE v = w
  BY <1>1 DEF InPlace
<1>2. CASE v # w
  <2>1. Asset(v) \in AssetId /\ Asset(v)' = Asset(v) /\ InPlace(v) /\ workerPc'[v] = workerPc[v]
    BY <1>2 DEF TypeInv, WorkerInv, Asset, Job, WorkInv
  <2> QED
    BY <1>2, <2>1 DEF InPlace, GoneStaysGone, storeVars
<1> QED
  BY <1>1, <1>2

LEMMA WorkerSafety == SafetyInv /\ WorkerNext /\ OnlyWorker => SafetyInv' /\ GoneStaysGone
<1> SUFFICES ASSUME SafetyInv, WorkerNext, OnlyWorker
             PROVE  SafetyInv' /\ GoneStaysGone
  OBVIOUS
<1> PICK w \in Workers : WorkerStep(w) \/ WorkerTrouble(w)
  BY DEF WorkerNext
<1>a. TypeInv /\ WorkInv /\ ForgetInv /\ RowInv
  BY DEF SafetyInv
<1>b. TypeInv' /\ StoresTypeOK'
  BY <1>a, WorkerTypes DEF TypeInv
<1>c. /\ workerPc \in [Workers -> WorkerPc] /\ workerJob \in [Workers -> Job \cup {NoJob}]
      /\ nextKind \in [Workers -> 1 .. KindCount + 1]
      /\ \A v \in Workers : workerPc[v] # "idle" => Asset(v) \in AssetId
      /\ settlement[w] \in {"ack", "nack"}
  BY <1>a DEF TypeInv, WorkerInv, WorkerTypeOK, Asset, Job
<1>d. SUFFICES WorkInv' /\ RowInv' /\ GoneStaysGone
  BY <1>a, <1>b, ForgetFrame DEF SafetyInv, OnlyWorker
<1>e. ASSUME UNCHANGED dbVars, UNCHANGED storeVars PROVE RowInv' /\ GoneStaysGone
  BY <1>a, <1>b, <1>e, RowFrame DEF StoresKeep, storeVars
<1>1. CASE ReceiveJob(w)
  <2>1. RowInv' /\ GoneStaysGone
    BY <1>1, <1>e DEF ReceiveJob
  <2> QED
    BY <1>1, <1>a, <1>c, <2>1, WorkMoves DEF ReceiveJob
<1>2. CASE Claim(w)
  <2>1. RowInv' /\ GoneStaysGone
    <3>1. CASE Claimable(Asset(w))
      BY <3>1, <1>2, <1>a, <1>c, StatementRows DEF Claim, storeVars
    <3>2. CASE ~Claimable(Asset(w))
      BY <3>2, <1>2, <1>e DEF Claim, dbVars
    <3> QED
      BY <3>1, <3>2
  <2> QED
    BY <1>2, <1>a, <1>c, <2>1, WorkMoves DEF Claim, Goto
<1>3. CASE Download(w)
  <2>1. RowInv' /\ GoneStaysGone
    BY <1>3, <1>e DEF Download
  <2>2. WorkInv'
    <3> SUFFICES ASSUME NEW v \in Workers, workerPc'[v] # "idle" PROVE InPlace(v)'
      BY DEF WorkInv
    <3>1. CASE v = w
      <4>1. nextKind'[w] = 1 /\ workerPc'[w] \in {"upload", "fail"}
        BY <1>3, <1>a, <1>c DEF Download, Goto, TypeInv, WorkerInv
      <4>2. 1 .. (nextKind'[w] - 1) = {}
        BY <4>1
      <4> QED
        BY <3>1, <4>1, <4>2 DEF InPlace
    <3>2. CASE v # w
      BY <3>2, <1>3, <1>a, <1>c, <2>1
      DEF Download, Goto, WorkInv, InPlace, Asset, GoneStaysGone, storeVars
    <3> QED
      BY <3>1, <3>2
  <2> QED
    BY <2>1, <2>2
<1>4. CASE Upload(w)
  <2>a. Asset(w) \in AssetId /\ nextKind[w] \in Kinds /\ InPlace(w)
    BY <1>4, <1>a, <1>c DEF Upload, TypeInv, WorkerInv, WorkInv
  <2>1. /\ derived'[Asset(w)] = derived[Asset(w)] \cup {nextKind[w]}
        /\ \A a \in AssetId : derived[a] \subseteq derived'[a]
    BY <1>4, <1>a, <2>a DEF Upload, PutDerived, TypeInv, StoresTypeOK
  <2>2. StoresKeep
    BY <1>4, <2>1 DEF Upload, StoresKeep
  <2>3. RowInv' /\ GoneStaysGone
    BY <1>4, <1>a, <1>b, <2>2, RowFrame DEF Upload
  <2>4. WorkInv'
    <3> SUFFICES ASSUME NEW v \in Workers, workerPc'[v] # "idle" PROVE InPlace(v)'
      BY DEF WorkInv
    <3>1. CASE v = w
      <4>1. Asset(w)' = Asset(w) /\ nextKind'[w] = nextKind[w] + 1
        BY <1>4, <1>c DEF Upload, Asset
      <4>2. CASE Gone(Asset(w))
        BY <3>1, <4>1, <4>2, <2>a, <2>3 DEF InPlace, GoneStaysGone
      <4>3. CASE ~Gone(Asset(w))
        <5>1. 1 .. (nextKind[w] - 1) \subseteq derived[Asset(w)]
          BY <1>4, <2>a, <4>3 DEF InPlace, Upload
        <5>2. 1 .. (nextKind'[w] - 1) \subseteq derived'[Asset(w)]
          BY <5>1, <4>1, <2>1, <2>a DEF Kinds
        <5>3. workerPc'[w] \in {"upload", "document"}
          BY <1>4, <1>c DEF Upload
        <5>4. workerPc'[w] = "document" => nextKind[w] = KindCount
          BY <1>4, <1>c DEF Upload
        <5>5. nextKind[w] = KindCount => derived'[Asset(w)] = Kinds
          <6>1. derived'[Asset(w)] \subseteq Kinds
            BY <1>b, <2>a DEF StoresTypeOK
          <6>2. nextKind[w] = KindCount => 1 .. (nextKind'[w] - 1) = Kinds
            BY <4>1, OneIsAKind DEF Kinds
          <6> QED
            BY <6>1, <6>2, <5>2
        <5> QED
          BY <3>1, <4>1, <5>2, <5>3, <5>4, <5>5 DEF InPlace
      <4> QED
        BY <4>2, <4>3
    <3>2. CASE v # w
      <4>1. /\ workerPc'[v] = workerPc[v] /\ nextKind'[v] = nextKind[v]
            /\ Asset(v)' = Asset(v) /\ Asset(v) \in AssetId
        BY <1>4, <1>c, <3>2 DEF Upload, Asset
      <4>2. derived'[Asset(v)] \subseteq Kinds
        BY <4>1, <1>b DEF StoresTypeOK
      <4>3. InPlace(v) /\ documents' = documents
        BY <1>4, <1>a, <4>1 DEF Upload, WorkInv
      <4> QED
        BY <4>1, <4>2, <4>3, <2>1, <2>3 DEF InPlace, GoneStaysGone
    <3> QED
      BY <3>1, <3>2
  <2> QED
    BY <2>3, <2>4
<1>5. CASE SaveDocument(w)
  <2>a. Asset(w) \in AssetId /\ InPlace(w)
    BY <1>5, <1>a, <1>c DEF SaveDocument, WorkInv
  <2>1. documents' = documents \cup {Asset(w)} /\ derived' = derived
    BY <1>5 DEF SaveDocument, PutDocument
  <2>2. RowInv' /\ GoneStaysGone
    BY <1>5, <1>a, <1>b, <2>1, RowFrame DEF SaveDocument, StoresKeep
  <2>3. WorkInv'
    <3> SUFFICES ASSUME NEW v \in Workers, workerPc'[v] # "idle" PROVE InPlace(v)'
      BY DEF WorkInv
    <3>1. Asset(v)' = Asset(v) /\ nextKind'[v] = nextKind[v]
      BY <1>5 DEF SaveDocument, Goto, Asset
    <3>2. CASE v = w
      <4>1. workerPc'[w] = "commit" /\ workerPc[w] = "document"
        BY <1>5, <1>c DEF SaveDocument, Goto
      <4> QED
        BY <3>1, <3>2, <4>1, <2>a, <2>1, <2>2 DEF InPlace, GoneStaysGone
    <3>3. CASE v # w
      <4>1. workerPc'[v] = workerPc[v] /\ InPlace(v) /\ Asset(v) \in AssetId
        BY <1>5, <1>a, <1>c, <3>3 DEF SaveDocument, Goto, WorkInv
      <4> QED
        BY <3>1, <4>1, <2>1, <2>2 DEF InPlace, GoneStaysGone
    <3> QED
      BY <3>2, <3>3
  <2> QED
    BY <2>2, <2>3
<1>f. ASSUME workerPc[w] = "commit", Finish(w), UNCHANGED <<notices, storeVars>>
      PROVE  RowInv' /\ GoneStaysGone
  <2>1. Asset(w) \in AssetId /\ InPlace(w) /\ Exists(Asset(w))
    BY <1>f, <1>a, <1>c DEF WorkInv, Finish, SaveVariants
  <2>2. derived[Asset(w)] = Kinds /\ Asset(w) \in documents
    BY <1>f, <2>1 DEF InPlace, Gone, Exists, Status
  <2> QED
    BY <1>f, <1>a, <2>1, <2>2, FinishedRows DEF Finish, storeVars
<1>6. CASE Commit(w)
  <2>1. RowInv' /\ GoneStaysGone
    BY <1>6, <1>e, <1>f DEF Commit, dbVars
  <2> QED
    BY <1>6, <1>a, <1>c, <2>1, WorkMoves DEF Commit, Goto
<1>7. CASE Confirm(w)
  BY <1>7, <1>a, <1>c, <1>e, WorkMoves DEF Confirm, Goto, GoIdle
<1>8. CASE Ack(w)
  BY <1>8, <1>a, <1>c, <1>e, WorkMoves DEF Ack, GoIdle
<1>9. CASE Nack(w)
  BY <1>9, <1>a, <1>c, <1>e, WorkMoves DEF Nack, GoIdle
<1>10. CASE Announce(w)
  BY <1>10, <1>a, <1>c, <1>e, WorkMoves DEF Announce, GoIdle
<1>11. CASE RetryOrGiveUp(w)
  BY <1>11, <1>a, <1>c, <1>e, WorkMoves DEF RetryOrGiveUp
<1>12. CASE Republish(w)
  BY <1>12, <1>a, <1>c, <1>e, WorkMoves DEF Republish, Goto, GoIdle
<1>13. CASE Fail(w)
  <2>1. RowInv' /\ GoneStaysGone
    <3>1. CASE SetFailed(Asset(w))
      BY <3>1, <1>13, <1>a, <1>c, StatementRows DEF Fail, storeVars
    <3>2. CASE UNCHANGED assets
      BY <3>2, <1>13, <1>e DEF Fail, dbVars
    <3> QED
      BY <3>1, <3>2, <1>13 DEF Fail
  <2>2. workerPc'[w] \in {"announceFailure", "ack", "nack"}
    BY <1>13, <1>c DEF Fail, Goto
  <2>3. /\ \A v \in Workers : v # w => workerPc'[v] = workerPc[v]
        /\ workerJob' = workerJob /\ nextKind' = nextKind /\ UNCHANGED storeVars
    BY <1>13, <1>c DEF Fail, Goto
  <2> QED
    BY <1>a, <2>1, <2>2, <2>3, WorkMoves
<1>14. CASE AnnounceFailure(w)
  <2>1. workerPc'[w] \in {"ack", "nack"}
    BY <1>14, <1>c DEF AnnounceFailure, Goto
  <2> QED
    BY <1>14, <1>a, <1>c, <1>e, <2>1, WorkMoves DEF AnnounceFailure, Goto
<1>15. CASE Break(w)
  BY <1>15, <1>a, <1>c, <1>e, WorkMoves DEF Break, Goto
<1>16. CASE CommitUnanswered(w)
  <2>1. RowInv' /\ GoneStaysGone
    <3>1. CASE workerPc[w] = "claim"
      BY <3>1, <1>16, <1>a, <1>c, StatementRows DEF CommitUnanswered, storeVars
    <3>2. CASE workerPc[w] = "commit"
      BY <3>2, <1>16, <1>f DEF CommitUnanswered
    <3> QED
      BY <3>1, <3>2, <1>16 DEF CommitUnanswered
  <2> QED
    BY <1>16, <1>a, <1>c, <2>1, WorkMoves DEF CommitUnanswered, Goto
<1>17. CASE LoseConnection(w)
  BY <1>17, <1>a, <1>b, <1>e, WorkFrame DEF LoseConnection, StoresKeep, storeVars
<1>18. CASE CrashWorker(w)
  BY <1>18, <1>a, <1>c, <1>e, WorkMoves DEF CrashWorker, GoIdle
<1> QED
  BY <1>1, <1>2, <1>3, <1>4, <1>5, <1>6, <1>7, <1>8, <1>9, <1>10, <1>11, <1>12, <1>13, <1>14,
     <1>15, <1>16, <1>17, <1>18 DEF WorkerStep, WorkerTrouble

-----------------------------------------------------------------------------
(* The api-service. *)

\* A request forgets objects only after its own deletion of the row.
LEMMA RequestForgets ==
  ASSUME TypeInv, ForgetInv, GoneStaysGone, NEW r \in Requests,
         \A s \in Requests : s # r => /\ requestPc'[s] = requestPc[s]
                                     /\ requestAsset'[s] = requestAsset[s],
         requestPc'[r] \in Forgetting =>
           Target(r) \in AssetId /\ requestAsset'[r] = Target(r) /\ Gone(Target(r))'
  PROVE  ForgetInv'
<1> SUFFICES ASSUME NEW s \in Requests, requestPc'[s] \in Forgetting
             PROVE  Gone(Target(s))'
  BY DEF ForgetInv
<1>1. CASE s = r
  BY <1>1 DEF Target, Gone
<1>2. CASE s # r
  <2>1. requestPc[s] \in Forgetting /\ Target(s)' = Target(s) /\ Target(s) \in AssetId
    BY <1>2 DEF TypeInv, RequestInv, Forgetting, Target
  <2> QED
    BY <2>1 DEF ForgetInv, GoneStaysGone, Gone
<1> QED
  BY <1>1, <1>2

LEMMA ApiSafety == SafetyInv /\ ApiNext /\ OnlyApi => SafetyInv' /\ GoneStaysGone
<1> SUFFICES ASSUME SafetyInv, ApiNext, OnlyApi
             PROVE  SafetyInv' /\ GoneStaysGone
  OBVIOUS
<1>a. TypeInv /\ WorkInv /\ ForgetInv /\ RowInv
  BY DEF SafetyInv
<1>b. TypeInv' /\ StoresTypeOK'
  BY <1>a, ApiTypes DEF TypeInv
<1>c. SUFFICES RowInv' /\ GoneStaysGone /\ StoresKeep /\ ForgetInv'
  BY <1>a, <1>b, WorkFrame DEF SafetyInv, OnlyApi
<1>d. /\ requestPc \in [Requests -> RequestPc]
      /\ requestAsset \in [Requests -> AssetId \cup {NoAsset}]
  BY <1>a DEF TypeInv, RequestInv, ApiTypeOK
<1>e. ASSUME UNCHANGED dbVars, StoresKeep PROVE RowInv' /\ GoneStaysGone
  BY <1>a, <1>b, <1>e, RowFrame
<1>f. UNCHANGED <<derived, documents>> => StoresKeep
  BY DEF StoresKeep
<1>1. ASSUME NEW a \in AssetId, CreateAsset(a)
      PROVE  RowInv' /\ GoneStaysGone /\ StoresKeep /\ ForgetInv'
  <2>1. /\ assets[a].status = "ABSENT" /\ assets'[a] = NewRow
        /\ \A b \in AssetId : b # a => assets'[b] = assets[b]
    BY <1>1, <1>a DEF CreateAsset, InsertAsset, TypeInv, DatabaseTypeOK
  <2>2. GoneIsEmpty' /\ GoneStaysGone
    BY <1>1, <1>a, <2>1 DEF CreateAsset, RowInv, GoneIsEmpty, GoneStaysGone, Gone, NewRow
  <2>3. DoneIsComplete' /\ RowsHaveObjects' /\ ReasonMeansFailed'
    BY <1>1, <1>a, <2>1
    DEF CreateAsset, RowInv, DoneIsComplete, RowsHaveObjects, ReasonMeansFailed, NewRow
  <2>4. ForgetInv'
    BY <1>1, <1>a, <2>2
    DEF CreateAsset, TypeInv, RequestInv, Target, Forgetting, ForgetInv, GoneStaysGone, Gone
  <2> QED
    BY <1>1, <1>f, <2>2, <2>3, <2>4 DEF CreateAsset, RowInv
<1>2. ASSUME NEW r \in Requests, NEW a \in AssetId,
             CompleteRead(r, a) \/ RetryRead(r, a) \/ DeleteRead(r, a)
      PROVE  RowInv' /\ GoneStaysGone /\ StoresKeep /\ ForgetInv'
  <2>1. RowInv' /\ GoneStaysGone /\ StoresKeep
    BY <1>2, <1>e, <1>f DEF CompleteRead, RetryRead, DeleteRead, storeVars
  <2> QED
    BY <1>2, <1>a, <1>d, <2>1, RequestForgets
    DEF CompleteRead, RetryRead, DeleteRead, Begin, Forgetting
<1>3. ASSUME NEW r \in Requests, RequestStep(r) \/ CutShort(r)
      PROVE  RowInv' /\ GoneStaysGone /\ StoresKeep /\ ForgetInv'
  <2>a. requestPc[r] # "idle" => Target(r) \in AssetId
    BY <1>a DEF TypeInv, RequestInv, Target
  <2>b. ASSUME Respond(r) \/ \E pc \in RequestPc \ Forgetting : GoOn(r, pc), GoneStaysGone
        PROVE  ForgetInv'
    BY <1>a, <1>d, <2>b, RequestForgets DEF Respond, GoOn, Forgetting
  <2>c. ASSUME UNCHANGED <<dbVars, storeVars>>,
               Respond(r) \/ \E pc \in RequestPc \ Forgetting : GoOn(r, pc)
        PROVE  RowInv' /\ GoneStaysGone /\ StoresKeep /\ ForgetInv'
    BY <1>e, <1>f, <2>b, <2>c DEF storeVars
  <2>d. ASSUME \/ SetFailed(Target(r)) \/ SetSubmitted(Target(r))
               \/ SetUnsubmitted(Target(r)) \/ SetResubmitted(Target(r))
               \/ SetRetryReleased(Target(r)),
               UNCHANGED <<variants, notices, storeVars>>, requestPc[r] # "idle",
               Respond(r) \/ \E pc \in RequestPc \ Forgetting : GoOn(r, pc)
        PROVE  RowInv' /\ GoneStaysGone /\ StoresKeep /\ ForgetInv'
    <3>1. RowInv' /\ GoneStaysGone
      BY <1>a, <2>a, <2>d, StatementRows DEF storeVars
    <3> QED
      BY <3>1, <1>f, <2>b, <2>d DEF storeVars
  <2>e. Forgetting \subseteq RequestPc
    BY DEF RequestPc, Forgetting
  <2>1. CASE CompleteHead(r)
    BY <2>1, <2>c DEF CompleteHead, RequestPc, Submitting, Forgetting
  <2>2. CASE CompleteDrop(r)
    <3>1. StoresKeep
      BY <2>2 DEF CompleteDrop, StoresKeep
    <3> QED
      BY <2>2, <3>1, <1>e, <2>b DEF CompleteDrop, RequestPc, Submitting, Forgetting
  <2>3. CASE CompleteReject(r)
    BY <2>3, <2>d DEF CompleteReject
  <2>4. CASE CompleteClaim(r)
    <3>1. GoOn(r, "completePublish") => \E pc \in RequestPc \ Forgetting : GoOn(r, pc)
      BY DEF RequestPc, Submitting, Forgetting
    <3> QED
      BY <2>4, <3>1, <2>c, <2>d DEF CompleteClaim, dbVars
  <2>5. CASE CompletePublish(r)
    BY <2>5, <2>c DEF CompletePublish, Publish, RequestPc, Submitting, Forgetting
  <2>6. CASE CompleteRelease(r)
    BY <2>6, <2>d DEF CompleteRelease
  <2>7. CASE RetryHead(r)
    BY <2>7, <2>c DEF RetryHead, RequestPc, Submitting, Forgetting
  <2>8. CASE RetryClaim(r)
    <3>1. GoOn(r, "retryPublish") => \E pc \in RequestPc \ Forgetting : GoOn(r, pc)
      BY DEF RequestPc, Submitting, Forgetting
    <3> QED
      BY <2>8, <3>1, <2>c, <2>d DEF RetryClaim, dbVars
  <2>9. CASE RetryPublish(r)
    BY <2>9, <2>c DEF RetryPublish, Publish, RequestPc, Submitting, Forgetting
  <2>10. CASE RetryRelease(r)
    BY <2>10, <2>d DEF RetryRelease
  <2>11. CASE DeleteKeys(r)
    <3>1. RowInv' /\ GoneStaysGone /\ StoresKeep
      BY <2>11, <1>e, <1>f DEF DeleteKeys, storeVars
    <3> QED
      BY <2>11, <3>1, <1>a, <1>d, RequestForgets DEF DeleteKeys, Forgetting
  <2>12. CASE DeleteRow(r)
    <3>1. RowInv' /\ GoneStaysGone /\ Gone(Target(r))'
      BY <2>12, <1>a, <2>a, DeletedRows DEF DeleteRow, storeVars, Target, GoOn
    <3>2. StoresKeep
      BY <2>12, <1>f DEF DeleteRow, storeVars
    <3>3. ForgetInv'
      BY <2>12, <3>1, <1>a, <1>d, <2>a, RequestForgets DEF DeleteRow, GoOn, Target
    <3> QED
      BY <3>1, <3>2, <3>3
  <2>13. CASE DeleteDerived(r)
    <3>1. Gone(Target(r)) /\ Target(r) \in AssetId
      BY <2>13, <1>a, <2>a DEF DeleteDerived, ForgetInv, Forgetting
    <3>2. StoresKeep
      BY <2>13, <1>a, <3>1 DEF DeleteDerived, RemoveDerived, StoresKeep, TypeInv, StoresTypeOK
    <3>3. RowInv' /\ GoneStaysGone
      BY <2>13, <3>2, <1>e DEF DeleteDerived
    <3>4. requestAsset' = requestAsset
          /\ \A s \in Requests : s # r => requestPc'[s] = requestPc[s]
      BY <2>13, <1>d DEF DeleteDerived, GoOn
    <3>5. ForgetInv'
      BY <3>1, <3>3, <3>4, <1>a, RequestForgets DEF Target, GoneStaysGone, Gone
    <3> QED
      BY <3>2, <3>3, <3>5
  <2>14. CASE DeleteOriginal(r)
    <3>1. Gone(Target(r)) /\ Target(r) \in AssetId
      BY <2>14, <1>a, <2>a DEF DeleteOriginal, ForgetInv, Forgetting
    <3>2. RowInv' /\ GoneStaysGone /\ StoresKeep
      BY <2>14, <1>e, <1>f DEF DeleteOriginal
    <3>3. ForgetInv'
      BY <2>14, <3>1, <3>2, <1>a, <1>d, RequestForgets
      DEF DeleteOriginal, GoOn, Target, GoneStaysGone, Gone
    <3> QED
      BY <3>2, <3>3
  <2>15. CASE DeleteDocument(r)
    <3>1. Gone(Target(r)) /\ Target(r) \in AssetId
      BY <2>15, <1>a, <2>a DEF DeleteDocument, ForgetInv, Forgetting
    <3>2. StoresKeep
      BY <2>15, <3>1 DEF DeleteDocument, RemoveDocument, StoresKeep
    <3> QED
      BY <2>15, <3>2, <1>e, <2>b DEF DeleteDocument
  <2>16. CASE CutShort(r)
    BY <2>16, <2>c DEF CutShort
  <2> QED
    BY <1>3, <2>1, <2>2, <2>3, <2>4, <2>5, <2>6, <2>7, <2>8, <2>9, <2>10, <2>11, <2>12, <2>13,
       <2>14, <2>15, <2>16 DEF RequestStep
<1> QED
  BY <1>1, <1>2, <1>3 DEF ApiNext, ClientCall

-----------------------------------------------------------------------------
(* The cleanup, the notification-service, clients and time. *)

LEMMA CleanupSafety ==
  SafetyInv /\ CleanupNext /\ OnlyCleanup => SafetyInv' /\ GoneStaysGone
<1> SUFFICES ASSUME SafetyInv, CleanupNext, OnlyCleanup
             PROVE  SafetyInv' /\ GoneStaysGone
  OBVIOUS
<1>a. TypeInv /\ WorkInv /\ ForgetInv /\ RowInv
  BY DEF SafetyInv
<1>b. TypeInv' /\ StoresTypeOK'
  BY <1>a, CleanupTypes DEF TypeInv
<1>1. UNCHANGED <<derived, documents>> /\ (UNCHANGED dbVars \/ DeleteRows(Abandoned))
  BY DEF CleanupNext, CleanupStep, CleanupSelect, CleanupFile, CleanupRows, CleanupCutShort,
         storeVars
<1>2. StoresKeep
  BY <1>1 DEF StoresKeep
<1>3. RowInv' /\ GoneStaysGone
  BY <1>a, <1>b, <1>1, <1>2, RowFrame, DeletedRows
<1> QED
  BY <1>a, <1>b, <1>2, <1>3, WorkFrame, ForgetFrame DEF SafetyInv, OnlyCleanup

LEMMA NotifierSafety ==
  SafetyInv /\ NotifierNext /\ OnlyNotifier => SafetyInv' /\ GoneStaysGone
<1> SUFFICES ASSUME SafetyInv, NotifierNext, OnlyNotifier
             PROVE  SafetyInv' /\ GoneStaysGone
  OBVIOUS
<1>a. TypeInv /\ WorkInv /\ ForgetInv /\ RowInv
  BY DEF SafetyInv
<1>b. TypeInv' /\ StoresTypeOK'
  BY <1>a, NotifierTypes DEF TypeInv
<1> PICK n \in Notifiers : NotifierStep(n) \/ NotifierTrouble(n)
  BY DEF NotifierNext
<1>1. /\ UNCHANGED <<assets, variants>>
      /\ UNCHANGED notices \/ RecordNotice(Subject(n), Kind(n)) \/ SetSent(Subject(n), Kind(n))
  BY DEF NotifierStep, NotifierTrouble, ReceiveEvent, FindOwner, Record, Send, MarkSent,
         NotifierRetryOrGiveUp, NotifierRepublish, NotifierAck, NotifierNack, NotifierBreak,
         NotifierLoseConnection, CrashNotifier, dbVars
<1>2. UNCHANGED <<derived, documents>> /\ StoresKeep
  BY DEF OnlyNotifier, storeVars, StoresKeep
<1>3. GoneStaysGone
  BY <1>1 DEF GoneStaysGone, Gone
<1>4. GoneIsEmpty'
  BY <1>1, <1>a
  DEF RowInv, GoneIsEmpty, Gone, RecordNotice, SetSent, Exists, Status, TypeInv, DatabaseTypeOK
<1>5. DoneIsComplete' /\ RowsHaveObjects' /\ ReasonMeansFailed'
  BY <1>1, <1>2, <1>a DEF RowInv, DoneIsComplete, RowsHaveObjects, ReasonMeansFailed
<1> QED
  BY <1>a, <1>b, <1>2, <1>3, <1>4, <1>5, WorkFrame, ForgetFrame
  DEF SafetyInv, OnlyNotifier, RowInv

LEMMA OutsideSafety ==
  SafetyInv /\ OutsideNext /\ OnlyOutside => SafetyInv' /\ GoneStaysGone
<1> SUFFICES ASSUME SafetyInv, OutsideNext, OnlyOutside
             PROVE  SafetyInv' /\ GoneStaysGone
  OBVIOUS
<1>a. TypeInv /\ WorkInv /\ ForgetInv /\ RowInv
  BY DEF SafetyInv
<1>b. TypeInv' /\ StoresTypeOK'
  BY <1>a, OutsideTypes DEF TypeInv
<1> PICK a \in AssetId : UploadFile(a) \/ StaleTime(a) \/ OldTime(a)
  BY DEF OutsideNext
<1>1. UNCHANGED <<variants, notices, derived, documents>>
  BY DEF UploadFile, StaleTime, OldTime, BecomesStale, BecomesOld, dbVars, storeVars
<1>2. \A b \in AssetId : /\ assets'[b].status = assets[b].status
                         /\ assets'[b].reason = assets[b].reason
  <2>1. assets \in [AssetId -> Row]
    BY <1>a DEF TypeInv, DatabaseTypeOK
  <2>2. CASE UploadFile(a)
    BY <2>2 DEF UploadFile, dbVars
  <2>3. CASE StaleTime(a)
    BY <2>1, <2>3 DEF StaleTime, BecomesStale, Row
  <2>4. CASE OldTime(a)
    BY <2>1, <2>4 DEF OldTime, BecomesOld, Row
  <2> QED
    BY <2>2, <2>3, <2>4
<1>3. StoresKeep
  BY <1>1 DEF StoresKeep
<1>4. GoneIsEmpty' /\ GoneStaysGone
  BY <1>1, <1>2, <1>a DEF RowInv, GoneIsEmpty, GoneStaysGone, Gone
<1>5. DoneIsComplete' /\ RowsHaveObjects' /\ ReasonMeansFailed'
  BY <1>1, <1>2, <1>a DEF RowInv, DoneIsComplete, RowsHaveObjects, ReasonMeansFailed
<1> QED
  BY <1>a, <1>b, <1>3, <1>4, <1>5, WorkFrame, ForgetFrame DEF SafetyInv, OnlyOutside, RowInv

-----------------------------------------------------------------------------
(* The theorems. *)

LEMMA SafetyInit == Init => SafetyInv
<1> SUFFICES ASSUME Init PROVE SafetyInv
  OBVIOUS
<1>1. TypeInv
  BY TypeInvInit
<1>2. WorkInv /\ ForgetInv
  BY DEF Init, WorkerInit, ApiInit, WorkInv, ForgetInv, Forgetting
<1>3. \A a \in AssetId : /\ assets[a].status \in {"PENDING", "ABSENT"} /\ ~assets[a].reason
                         /\ variants[a] = {}
  BY DEF Init, NewRow, NoRow
<1>4. RowInv
  BY <1>3
  DEF RowInv, GoneIsEmpty, Gone, DoneIsComplete, RowsHaveObjects, ReasonMeansFailed
<1> QED
  BY <1>1, <1>2, <1>4 DEF SafetyInv

LEMMA SafetyStep == SafetyInv /\ [Next]_vars => SafetyInv' /\ GoneStaysGone
<1>1. ASSUME SafetyInv, UNCHANGED vars PROVE SafetyInv' /\ GoneStaysGone
  <2>1. TypeInv' /\ StoresTypeOK' /\ UNCHANGED <<dbVars, workerVars, apiVars>> /\ StoresKeep
    BY <1>1, TypeInvStep DEF SafetyInv, TypeInv, StoresKeep, storeVars, vars
  <2> QED
    BY <1>1, <2>1, RowFrame, WorkFrame, ForgetFrame DEF SafetyInv
<1> QED
  BY <1>1, WorkerSafety, ApiSafety, CleanupSafety, NotifierSafety, OutsideSafety DEF Next

LEMMA SafetyAlways == Spec => []SafetyInv
BY SafetyInit, SafetyStep, PTL DEF Spec

\* A DONE image is whole, whatever was retried, redelivered or raced: its rows,
\* their objects and its document are all there.
THEOREM DoneIsAlwaysComplete == Spec => []DoneIsComplete
<1>1. SafetyInv => DoneIsComplete
  BY DEF SafetyInv, RowInv
<1> QED
  BY <1>1, SafetyAlways, PTL

\* No variant row ever points to an object or a document that is not there.
THEOREM RowsAlwaysHaveObjects == Spec => []RowsHaveObjects
<1>1. SafetyInv => RowsHaveObjects
  BY DEF SafetyInv, RowInv
<1> QED
  BY <1>1, SafetyAlways, PTL

\* A row carries a reason only while it is FAILED.
THEOREM ReasonAlwaysMeansFailed == Spec => []ReasonMeansFailed
<1>1. SafetyInv => ReasonMeansFailed
  BY DEF SafetyInv, RowInv
<1> QED
  BY <1>1, SafetyAlways, PTL

\* A deleted image never comes back, and nothing about it reappears in the tables.
THEOREM DeletedForGood == Spec => DeletedStaysDeleted
<1> DEFINE Stays == \A a \in AssetId :
                      assets[a].status = "DELETED" =>
                        /\ assets'[a].status = "DELETED"
                        /\ variants'[a] = {}
                        /\ \A e \in EventKind : notices'[a][e] = "none"
<1>1. SafetyInv /\ [Next]_vars => [Stays]_vars
  <2> SUFFICES ASSUME SafetyInv, [Next]_vars PROVE Stays
    OBVIOUS
  <2>1. GoneStaysGone /\ GoneIsEmpty'
    BY SafetyStep DEF SafetyInv, RowInv
  <2> QED
    BY <2>1 DEF GoneStaysGone, GoneIsEmpty, Gone
<1> QED
  BY <1>1, SafetyAlways, PTL DEF Spec, DeletedStaysDeleted

=============================================================================
