--------------------------- MODULE PlatformProofs ---------------------------
(***************************************************************************)
(* Theorems about MediaPlatform, for every value of its constants.         *)
(***************************************************************************)
EXTENDS MediaPlatform, TLAPS

(***************************************************************************)
(* Typing is not inductive alone: a handler that is busy must hold a       *)
(* message, a request under way an image, and an upload a kind to upload.  *)
(***************************************************************************)
WorkerInv ==
  /\ WorkerTypeOK
  /\ \A w \in Workers :
       /\ workerPc[w] # "idle" => workerJob[w] \in Job
       /\ workerPc[w] = "upload" => nextKind[w] \in Kinds
       /\ workerPc[w] \in {"idle", "claim", "download"} => nextKind[w] = 1

RequestInv ==
  /\ ApiTypeOK
  /\ \A r \in Requests : requestPc[r] # "idle" => requestAsset[r] \in AssetId

NotifierInv ==
  /\ NotifierTypeOK
  /\ \A n \in Notifiers : notifierPc[n] # "idle" => notifierEvent[n] \in Event

TypeInv ==
  /\ DatabaseTypeOK /\ StoresTypeOK /\ JobsTypeOK /\ EventsTypeOK /\ FaultsTypeOK
  /\ WorkerInv /\ RequestInv /\ CleanupTypeOK /\ NotifierInv

-----------------------------------------------------------------------------
(* Constants. *)

LEMMA NoJobIsNoJob == NoJob \notin Job
BY BrokerAssumption DEF NoJob, Job

LEMMA NoEventIsNoEvent == NoEvent \notin Event
BY BrokerAssumption DEF NoEvent, Event

LEMMA OneIsAKind == 1 \in Kinds /\ Kinds \subseteq Nat /\ KindCount \in Nat \ {0}
BY DatabaseAssumption DEF Kinds

-----------------------------------------------------------------------------
(* The types, and the statements and calls that keep them. *)

\* A step of one component leaves the state of the others as it was.
LEMMA UnchangedTypes ==
  /\ DatabaseTypeOK /\ UNCHANGED dbVars => DatabaseTypeOK'
  /\ StoresTypeOK /\ UNCHANGED storeVars => StoresTypeOK'
  /\ JobsTypeOK /\ UNCHANGED jobVars => JobsTypeOK'
  /\ EventsTypeOK /\ UNCHANGED eventVars => EventsTypeOK'
  /\ WorkerInv /\ UNCHANGED workerVars => WorkerInv'
  /\ RequestInv /\ UNCHANGED apiVars => RequestInv'
  /\ CleanupTypeOK /\ UNCHANGED cleanupVars => CleanupTypeOK'
  /\ NotifierInv /\ UNCHANGED notifierVars => NotifierInv'
<1>1. DatabaseTypeOK /\ UNCHANGED dbVars => DatabaseTypeOK'
  BY DEF DatabaseTypeOK, dbVars
<1>2. StoresTypeOK /\ UNCHANGED storeVars => StoresTypeOK'
  BY DEF StoresTypeOK, storeVars
<1>3. JobsTypeOK /\ UNCHANGED jobVars => JobsTypeOK'
  BY DEF JobsTypeOK, jobVars
<1>4. EventsTypeOK /\ UNCHANGED eventVars => EventsTypeOK'
  BY DEF EventsTypeOK, eventVars
<1>5. WorkerInv /\ UNCHANGED workerVars => WorkerInv'
  BY DEF WorkerInv, WorkerTypeOK, workerVars
<1>6. RequestInv /\ UNCHANGED apiVars => RequestInv'
  BY DEF RequestInv, ApiTypeOK, apiVars
<1>7. CleanupTypeOK /\ UNCHANGED cleanupVars => CleanupTypeOK'
  BY DEF CleanupTypeOK, cleanupVars
<1>8. NotifierInv /\ UNCHANGED notifierVars => NotifierInv'
  BY DEF NotifierInv, NotifierTypeOK, notifierVars
<1> QED
  BY <1>1, <1>2, <1>3, <1>4, <1>5, <1>6, <1>7, <1>8

\* The budget of failures.
LEMMA FaultTypes ==
  /\ FaultsTypeOK /\ Smooth => FaultsTypeOK'
  /\ \A kind : FaultsTypeOK /\ Fault(kind) => FaultsTypeOK'
BY FaultsAssumption DEF FaultsTypeOK, Smooth, Fault

\* An UPDATE writes a row where there is one.
LEMMA UpdateTypes ==
  ASSUME DatabaseTypeOK, NEW a \in AssetId, NEW row, Exists(a) => row \in Row,
         Update(a, row)
  PROVE  assets' \in [AssetId -> Row]
BY DEF DatabaseTypeOK, Update

\* The statements on assets keep its rows well formed.
LEMMA StatementTypes ==
  ASSUME DatabaseTypeOK, NEW a \in AssetId
  PROVE  /\ SetProcessing(a) => assets' \in [AssetId -> Row]
         /\ SetDone(a) => assets' \in [AssetId -> Row]
         /\ SetFailed(a) => assets' \in [AssetId -> Row]
         /\ SetSubmitted(a) => assets' \in [AssetId -> Row]
         /\ SetUnsubmitted(a) => assets' \in [AssetId -> Row]
         /\ SetResubmitted(a) => assets' \in [AssetId -> Row]
         /\ SetRetryReleased(a) => assets' \in [AssetId -> Row]
<1>1. assets[a] \in Row
  BY DEF DatabaseTypeOK
<1>2. SetProcessing(a) => assets' \in [AssetId -> Row]
  BY <1>1, UpdateTypes DEF SetProcessing, Row, Status
<1>3. SetDone(a) => assets' \in [AssetId -> Row]
  BY <1>1, UpdateTypes DEF SetDone, Row, Status
<1>4. SetFailed(a) => assets' \in [AssetId -> Row]
  BY <1>1, UpdateTypes DEF SetFailed, Row, Status
<1>5. SetSubmitted(a) => assets' \in [AssetId -> Row]
  BY <1>1, UpdateTypes DEF SetSubmitted, Row, Status
<1>6. SetUnsubmitted(a) => assets' \in [AssetId -> Row]
  BY <1>1, UpdateTypes DEF SetUnsubmitted, Row, Status
<1>7. SetResubmitted(a) => assets' \in [AssetId -> Row]
  BY <1>1, UpdateTypes DEF SetResubmitted, Row, Status
<1>8. SetRetryReleased(a) => assets' \in [AssetId -> Row]
  BY <1>1, UpdateTypes DEF SetRetryReleased, Row, Status
<1> QED
  BY <1>2, <1>3, <1>4, <1>5, <1>6, <1>7, <1>8

LEMMA PutTypes ==
  ASSUME NEW S, NEW q \in [S -> Nat], NEW m, NEW n \in Nat
  PROVE  Put(q, m, n) \in [S -> Nat]
<1>1. Put(q, m, n) = [x \in S |-> IF x = m THEN q[m] + n ELSE q[x]]
  BY DEF Put
<1>2. \A x \in S : (IF x = m THEN q[m] + n ELSE q[x]) \in Nat
  OBVIOUS
<1> QED
  BY <1>1, <1>2

LEMMA TakeTypes ==
  ASSUME NEW S, NEW q \in [S -> Nat], NEW m \in S, q[m] > 0
  PROVE  Take(q, m) \in [S -> Nat]
BY DEF Take

\* Publishing a job keeps the queues well formed.
LEMMA PublishJobTypes ==
  ASSUME JobsTypeOK, NEW a, NEW k, NEW n \in Nat, PublishJob(a, k, n)
  PROVE  JobsTypeOK'
BY PutTypes DEF JobsTypeOK, PublishJob

\* What a consumer does with jobs keeps them well formed.
LEMMA JobTypes ==
  ASSUME JobsTypeOK, NEW w \in Workers
  PROVE  /\ \A j \in Job : DeliverJob(w, j) => JobsTypeOK'
         /\ AckJob(w) => JobsTypeOK'
         /\ NackJob(w) => JobsTypeOK'
         /\ \A m, n : n \in Nat /\ RequeueJob(w, m, n) => JobsTypeOK'
<1> USE DEF JobsTypeOK
<1>2. ASSUME NEW j \in Job, DeliverJob(w, j) PROVE JobsTypeOK'
  BY <1>2, TakeTypes DEF DeliverJob
<1>3. ASSUME AckJob(w) PROVE JobsTypeOK'
  BY <1>3 DEF AckJob
<1>4. ASSUME NackJob(w) PROVE JobsTypeOK'
  BY <1>4, PutTypes DEF NackJob
<1>5. ASSUME NEW m, NEW n \in Nat, RequeueJob(w, m, n) PROVE JobsTypeOK'
  BY <1>5, PutTypes DEF RequeueJob
<1> QED
  BY <1>2, <1>3, <1>4, <1>5

\* The broker's operations on events keep its queues well formed.
LEMMA EventTypes ==
  ASSUME EventsTypeOK
  PROVE  /\ \A a \in AssetId, e \in EventKind, n \in Nat : PublishEvent(a, e, n) => EventsTypeOK'
         /\ \A n \in Notifiers :
              /\ \A m \in Event : DeliverEvent(n, m) => EventsTypeOK'
              /\ AckEvent(n) => EventsTypeOK'
              /\ NackEvent(n) => EventsTypeOK'
              /\ \A m : ReplaceEvent(n, m) => EventsTypeOK'
              /\ \A m, c : c \in Nat /\ RequeueEvent(n, m, c) => EventsTypeOK'
<1> USE DEF EventsTypeOK
<1>1. ASSUME NEW a \in AssetId, NEW e \in EventKind, NEW n \in Nat, PublishEvent(a, e, n)
      PROVE  EventsTypeOK'
  BY <1>1, PutTypes DEF PublishEvent
<1>2. ASSUME NEW n \in Notifiers, NEW m \in Event, DeliverEvent(n, m) PROVE EventsTypeOK'
  BY <1>2, TakeTypes DEF DeliverEvent
<1>3. ASSUME NEW n \in Notifiers, AckEvent(n) PROVE EventsTypeOK'
  BY <1>3 DEF AckEvent
<1>4. ASSUME NEW n \in Notifiers, NackEvent(n) PROVE EventsTypeOK'
  BY <1>4, PutTypes DEF NackEvent
<1>5. ASSUME NEW n \in Notifiers, NEW m, ReplaceEvent(n, m) PROVE EventsTypeOK'
  BY <1>5, PutTypes DEF ReplaceEvent
<1>6. ASSUME NEW n \in Notifiers, NEW m, NEW c \in Nat, RequeueEvent(n, m, c)
      PROVE  EventsTypeOK'
  BY <1>6, PutTypes DEF RequeueEvent
<1> QED
  BY <1>1, <1>2, <1>3, <1>4, <1>5, <1>6

-----------------------------------------------------------------------------
(* Typing: the worker-service. *)

\* A handler goes on with its message, to a statement that asks nothing of nextKind.
LEMMA WorkerGoesOn ==
  ASSUME WorkerInv, NEW w \in Workers, workerPc[w] # "idle",
         NEW pc \in WorkerPc \ {"idle", "claim", "download", "upload"},
         workerPc' = [workerPc EXCEPT ![w] = pc],
         workerJob' = workerJob, nextKind' = nextKind,
         settlement' = settlement \/ \E s \in {"ack", "nack"} :
                                        settlement' = [settlement EXCEPT ![w] = s]
  PROVE  WorkerInv'
BY DEF WorkerInv, WorkerTypeOK

LEMMA WorkerRests ==
  ASSUME WorkerInv, NEW w \in Workers, GoIdle(w)
  PROVE  WorkerInv'
BY OneIsAKind DEF WorkerInv, WorkerTypeOK, GoIdle, WorkerPc

\* An emission puts some copies of an event of an image in the queue.
LEMMA EmitTypes ==
  ASSUME EventsTypeOK, FaultsTypeOK, NEW w, Asset(w) \in AssetId, NEW e \in EventKind,
         Emit(w, e)
  PROVE  EventsTypeOK' /\ FaultsTypeOK'
<1>1. PICK n \in 0 .. 2 : /\ PublishEvent(Asset(w), e, n)
                         /\ CASE n = 1 -> Smooth
                              [] n = 0 -> Fault("publish")
                              [] n = 2 -> Fault("confirm")
  BY DEF Emit
<1>2. EventsTypeOK'
  BY <1>1, EventTypes
<1>3. n = 0 \/ n = 1 \/ n = 2
  BY <1>1
<1> QED
  BY <1>1, <1>2, <1>3, FaultTypes

\* Every step of a replica of the worker keeps the types.
LEMMA WorkerTypes == TypeInv /\ WorkerNext /\ OnlyWorker => TypeInv'
<1> SUFFICES ASSUME TypeInv, WorkerNext, OnlyWorker
             PROVE  TypeInv'
  OBVIOUS
<1> PICK w \in Workers : WorkerStep(w) \/ WorkerTrouble(w)
  BY DEF WorkerNext
<1>a. /\ DatabaseTypeOK /\ StoresTypeOK /\ JobsTypeOK /\ EventsTypeOK /\ FaultsTypeOK
      /\ WorkerInv
  BY DEF TypeInv
<1>b. RequestInv' /\ CleanupTypeOK' /\ NotifierInv'
  BY UnchangedTypes DEF TypeInv, OnlyWorker
<1>c. workerPc[w] # "idle" => Asset(w) \in AssetId
  BY <1>a DEF WorkerInv, Asset, Job
<1> SUFFICES /\ DatabaseTypeOK' /\ StoresTypeOK' /\ JobsTypeOK' /\ EventsTypeOK'
             /\ FaultsTypeOK' /\ WorkerInv'
  BY <1>b DEF TypeInv
<1>1. CASE ReceiveJob(w)
  <2>1. JobsTypeOK'
    BY <1>1, <1>a, JobTypes DEF ReceiveJob
  <2>2. WorkerInv'
    BY <1>1, <1>a DEF ReceiveJob, WorkerInv, WorkerTypeOK, WorkerPc
  <2> QED
    BY <1>1, <1>a, <2>1, <2>2, UnchangedTypes, FaultTypes DEF ReceiveJob
<1>2. CASE Claim(w)
  <2>1. DatabaseTypeOK'
    BY <1>2, <1>a, <1>c, StatementTypes DEF Claim, DatabaseTypeOK
  <2>2. WorkerInv'
    BY <1>2, <1>a DEF Claim, Goto, WorkerInv, WorkerTypeOK, WorkerPc
  <2> QED
    BY <1>2, <1>a, <2>1, <2>2, UnchangedTypes, FaultTypes DEF Claim
<1>3. CASE Download(w)
  <2>1. WorkerInv'
    BY <1>3, <1>a, OneIsAKind DEF Download, Goto, WorkerInv, WorkerTypeOK, WorkerPc
  <2> QED
    BY <1>3, <1>a, <2>1, UnchangedTypes, FaultTypes DEF Download
<1>4. CASE Upload(w)
  <2>1. StoresTypeOK'
    BY <1>4, <1>a, <1>c DEF Upload, PutDerived, StoresTypeOK, WorkerInv
  <2>2. WorkerInv'
    BY <1>4, <1>a, OneIsAKind DEF Upload, WorkerInv, WorkerTypeOK, WorkerPc, Kinds
  <2> QED
    BY <1>4, <1>a, <2>1, <2>2, UnchangedTypes, FaultTypes DEF Upload
<1>5. CASE SaveDocument(w)
  <2>1. StoresTypeOK'
    BY <1>5, <1>a, <1>c DEF SaveDocument, PutDocument, StoresTypeOK
  <2>2. WorkerInv'
    BY <1>5, <1>a, WorkerGoesOn DEF SaveDocument, Goto, WorkerPc
  <2> QED
    BY <1>5, <1>a, <2>1, <2>2, UnchangedTypes, FaultTypes DEF SaveDocument
<1>6. CASE Commit(w)
  <2>1. DatabaseTypeOK'
    BY <1>6, <1>a, <1>c, StatementTypes
    DEF Commit, Finish, SaveVariants, DatabaseTypeOK, Kinds
  <2>2. WorkerInv'
    BY <1>6, <1>a, WorkerGoesOn DEF Commit, Goto, WorkerPc
  <2> QED
    BY <1>6, <1>a, <2>1, <2>2, UnchangedTypes, FaultTypes DEF Commit
<1>7. CASE Confirm(w)
  <2>1. JobsTypeOK'
    BY <1>7, <1>a, JobTypes DEF Confirm
  <2>2. WorkerInv'
    BY <1>7, <1>a, WorkerGoesOn, WorkerRests DEF Confirm, Goto, WorkerPc
  <2> QED
    BY <1>7, <1>a, <2>1, <2>2, UnchangedTypes, FaultTypes DEF Confirm
<1>8. CASE Ack(w)
  BY <1>8, <1>a, JobTypes, WorkerRests, UnchangedTypes, FaultTypes DEF Ack
<1>9. CASE Nack(w)
  BY <1>9, <1>a, JobTypes, WorkerRests, UnchangedTypes, FaultTypes DEF Nack
<1>10. CASE Announce(w)
  <2>1. EventsTypeOK' /\ FaultsTypeOK'
    BY <1>10, <1>a, <1>c, EmitTypes DEF Announce, EventKind
  <2> QED
    BY <1>10, <1>a, <2>1, WorkerRests, UnchangedTypes DEF Announce
<1>11. CASE RetryOrGiveUp(w)
  <2>1. WorkerInv'
    BY <1>11, <1>a, WorkerGoesOn DEF RetryOrGiveUp, WorkerPc
  <2> QED
    BY <1>11, <1>a, <2>1, UnchangedTypes, FaultTypes DEF RetryOrGiveUp
<1>12. CASE Republish(w)
  <2>1. JobsTypeOK' /\ FaultsTypeOK'
    BY <1>12, <1>a, PublishJobTypes, JobTypes, UnchangedTypes, FaultTypes DEF Republish
  <2>2. WorkerInv'
    BY <1>12, <1>a, WorkerGoesOn, WorkerRests DEF Republish, Goto, WorkerPc
  <2> QED
    BY <1>12, <1>a, <2>1, <2>2, UnchangedTypes DEF Republish
<1>13. CASE Fail(w)
  <2>1. DatabaseTypeOK'
    BY <1>13, <1>a, <1>c, StatementTypes DEF Fail, DatabaseTypeOK
  <2>2. FaultsTypeOK'
    BY <1>13, <1>a, FaultTypes DEF Fail
  <2>3. settlement[w] \in {"ack", "nack"}
    BY <1>a DEF WorkerInv, WorkerTypeOK
  <2>4. WorkerInv'
    BY <1>13, <1>a, <2>3, WorkerGoesOn DEF Fail, Goto, WorkerPc
  <2> QED
    BY <1>13, <1>a, <2>1, <2>2, <2>4, UnchangedTypes DEF Fail
<1>14. CASE AnnounceFailure(w)
  <2>1. EventsTypeOK' /\ FaultsTypeOK'
    BY <1>14, <1>a, <1>c, EmitTypes DEF AnnounceFailure, EventKind
  <2>2. settlement[w] \in {"ack", "nack"}
    BY <1>a DEF WorkerInv, WorkerTypeOK
  <2>3. WorkerInv'
    BY <1>14, <1>a, <2>2, WorkerGoesOn DEF AnnounceFailure, Goto, WorkerPc
  <2> QED
    BY <1>14, <1>a, <2>1, <2>3, UnchangedTypes DEF AnnounceFailure
<1>15. CASE Break(w)
  <2>1. WorkerInv'
    BY <1>15, <1>a, WorkerGoesOn DEF Break, Goto, Processing, WorkerPc
  <2> QED
    BY <1>15, <1>a, <2>1, UnchangedTypes, FaultTypes DEF Break
<1>16. CASE CommitUnanswered(w)
  <2>1. DatabaseTypeOK'
    BY <1>16, <1>a, <1>c, StatementTypes
    DEF CommitUnanswered, Finish, SaveVariants, DatabaseTypeOK, Kinds
  <2>2. WorkerInv'
    BY <1>16, <1>a, WorkerGoesOn DEF CommitUnanswered, Goto, WorkerPc
  <2> QED
    BY <1>16, <1>a, <2>1, <2>2, UnchangedTypes, FaultTypes DEF CommitUnanswered
<1>17. CASE LoseConnection(w)
  BY <1>17, <1>a, JobTypes, UnchangedTypes, FaultTypes DEF LoseConnection
<1>18. CASE CrashWorker(w)
  BY <1>18, <1>a, JobTypes, WorkerRests, UnchangedTypes, FaultTypes DEF CrashWorker
<1> QED
  BY <1>1, <1>2, <1>3, <1>4, <1>5, <1>6, <1>7, <1>8, <1>9, <1>10, <1>11, <1>12, <1>13, <1>14,
     <1>15, <1>16, <1>17, <1>18 DEF WorkerStep, WorkerTrouble

-----------------------------------------------------------------------------
(* Typing: the api-service. *)

LEMMA RequestMoves ==
  ASSUME RequestInv, NEW r \in Requests
  PROVE  /\ \A pc \in RequestPc : requestPc[r] # "idle" /\ GoOn(r, pc) => RequestInv'
         /\ Respond(r) => RequestInv'
         /\ \A a \in AssetId, pc \in RequestPc : Begin(r, a, pc) => RequestInv'
<1> USE DEF RequestInv, ApiTypeOK
<1>1. ASSUME NEW pc \in RequestPc, requestPc[r] # "idle", GoOn(r, pc) PROVE RequestInv'
  BY <1>1 DEF GoOn
<1>2. ASSUME Respond(r) PROVE RequestInv'
  BY <1>2 DEF Respond, RequestPc
<1>3. ASSUME NEW a \in AssetId, NEW pc \in RequestPc, Begin(r, a, pc) PROVE RequestInv'
  BY <1>3, ApiAssumption DEF Begin
<1> QED
  BY <1>1, <1>2, <1>3

LEMMA PublishTypes ==
  ASSUME JobsTypeOK, FaultsTypeOK, RequestInv, NEW r \in Requests, requestPc[r] # "idle",
         NEW release \in RequestPc, Publish(r, release)
  PROVE  JobsTypeOK' /\ FaultsTypeOK' /\ RequestInv'
BY PublishJobTypes, FaultTypes, RequestMoves DEF Publish

LEMMA DeleteRowsTypes ==
  ASSUME DatabaseTypeOK, NEW S, DeleteRows(S)
  PROVE  DatabaseTypeOK'
BY DEF DatabaseTypeOK, DeleteRows, NoRow, Row

\* Every step of a client or of a request keeps the types.
LEMMA ApiTypes == TypeInv /\ ApiNext /\ OnlyApi => TypeInv'
<1> SUFFICES ASSUME TypeInv, ApiNext, OnlyApi
             PROVE  TypeInv'
  OBVIOUS
<1>a. /\ DatabaseTypeOK /\ StoresTypeOK /\ JobsTypeOK /\ EventsTypeOK /\ FaultsTypeOK
      /\ RequestInv
  BY DEF TypeInv
<1>b. WorkerInv' /\ CleanupTypeOK' /\ NotifierInv'
  BY UnchangedTypes DEF TypeInv, OnlyApi
<1> SUFFICES /\ DatabaseTypeOK' /\ StoresTypeOK' /\ JobsTypeOK' /\ EventsTypeOK'
             /\ FaultsTypeOK' /\ RequestInv'
  BY <1>b DEF TypeInv
<1>1. ASSUME NEW a \in AssetId, CreateAsset(a)
      PROVE  /\ DatabaseTypeOK' /\ StoresTypeOK' /\ JobsTypeOK' /\ EventsTypeOK'
             /\ FaultsTypeOK' /\ RequestInv'
  <2>1. DatabaseTypeOK'
    BY <1>1, <1>a DEF CreateAsset, InsertAsset, NewRow, Row, Status, DatabaseTypeOK
  <2>2. StoresTypeOK'
    BY <1>1, <1>a DEF CreateAsset, StoresTypeOK
  <2>3. RequestInv'
    BY <1>1, <1>a, ApiAssumption DEF CreateAsset, RequestInv, ApiTypeOK
  <2> QED
    BY <1>1, <1>a, <2>1, <2>2, <2>3, UnchangedTypes, FaultTypes DEF CreateAsset
<1>2. ASSUME NEW r \in Requests, NEW a \in AssetId,
             CompleteRead(r, a) \/ RetryRead(r, a) \/ DeleteRead(r, a)
      PROVE  /\ DatabaseTypeOK' /\ StoresTypeOK' /\ JobsTypeOK' /\ EventsTypeOK'
             /\ FaultsTypeOK' /\ RequestInv'
  <2>1. RequestInv'
    BY <1>2, <1>a, RequestMoves
    DEF CompleteRead, RetryRead, DeleteRead, RequestPc, Submitting, Deleting
  <2> QED
    BY <1>2, <1>a, <2>1, UnchangedTypes, FaultTypes DEF CompleteRead, RetryRead, DeleteRead
<1>3. ASSUME NEW r \in Requests, RequestStep(r) \/ CutShort(r)
      PROVE  /\ DatabaseTypeOK' /\ StoresTypeOK' /\ JobsTypeOK' /\ EventsTypeOK'
             /\ FaultsTypeOK' /\ RequestInv'
  <2>a. requestPc[r] # "idle" => Target(r) \in AssetId
    BY <1>a DEF RequestInv, Target
  <2> USE DEF RequestPc, Submitting, Deleting, Forgetting
  <2>1. CASE CompleteHead(r)
    BY <2>1, <1>a, RequestMoves, UnchangedTypes, FaultTypes DEF CompleteHead
  <2>2. CASE CompleteDrop(r)
    <3>1. StoresTypeOK'
      BY <2>2, <1>a DEF CompleteDrop, RemoveOriginal, StoresTypeOK, Content
    <3> QED
      BY <2>2, <1>a, <3>1, RequestMoves, UnchangedTypes, FaultTypes DEF CompleteDrop
  <2>3. CASE CompleteReject(r)
    <3>1. DatabaseTypeOK'
      BY <2>3, <1>a, <2>a, StatementTypes DEF CompleteReject, DatabaseTypeOK
    <3> QED
      BY <2>3, <1>a, <3>1, RequestMoves, UnchangedTypes, FaultTypes DEF CompleteReject
  <2>4. CASE CompleteClaim(r)
    <3>1. DatabaseTypeOK'
      BY <2>4, <1>a, <2>a, StatementTypes DEF CompleteClaim, DatabaseTypeOK
    <3> QED
      BY <2>4, <1>a, <3>1, RequestMoves, UnchangedTypes, FaultTypes DEF CompleteClaim
  <2>5. CASE CompletePublish(r)
    BY <2>5, <1>a, PublishTypes, UnchangedTypes DEF CompletePublish
  <2>6. CASE CompleteRelease(r)
    <3>1. DatabaseTypeOK'
      BY <2>6, <1>a, <2>a, StatementTypes DEF CompleteRelease, DatabaseTypeOK
    <3> QED
      BY <2>6, <1>a, <3>1, RequestMoves, UnchangedTypes, FaultTypes DEF CompleteRelease
  <2>7. CASE RetryHead(r)
    BY <2>7, <1>a, RequestMoves, UnchangedTypes, FaultTypes DEF RetryHead
  <2>8. CASE RetryClaim(r)
    <3>1. DatabaseTypeOK'
      BY <2>8, <1>a, <2>a, StatementTypes DEF RetryClaim, DatabaseTypeOK
    <3> QED
      BY <2>8, <1>a, <3>1, RequestMoves, UnchangedTypes, FaultTypes DEF RetryClaim
  <2>9. CASE RetryPublish(r)
    BY <2>9, <1>a, PublishTypes, UnchangedTypes DEF RetryPublish
  <2>10. CASE RetryRelease(r)
    <3>1. DatabaseTypeOK'
      BY <2>10, <1>a, <2>a, StatementTypes DEF RetryRelease, DatabaseTypeOK
    <3> QED
      BY <2>10, <1>a, <3>1, RequestMoves, UnchangedTypes, FaultTypes DEF RetryRelease
  <2>11. CASE DeleteKeys(r)
    <3>1. variants[Target(r)] \subseteq Kinds
      BY <2>11, <1>a, <2>a DEF DeleteKeys, DatabaseTypeOK
    <3>2. RequestInv'
      BY <2>11, <1>a, <3>1 DEF DeleteKeys, RequestInv, ApiTypeOK
    <3> QED
      BY <2>11, <1>a, <3>2, UnchangedTypes, FaultTypes DEF DeleteKeys
  <2>12. CASE DeleteRow(r)
    BY <2>12, <1>a, DeleteRowsTypes, RequestMoves, UnchangedTypes, FaultTypes DEF DeleteRow
  <2>13. CASE DeleteDerived(r)
    <3>1. StoresTypeOK' /\ FaultsTypeOK'
      BY <2>13, <1>a, FaultTypes DEF DeleteDerived, RemoveDerived, StoresTypeOK
    <3>2. RequestInv'
      <4>1. CASE requestKeys[r] = {}
        BY <4>1, <2>13, <1>a, RequestMoves DEF DeleteDerived
      <4>2. CASE requestKeys[r] # {}
        BY <4>2, <2>13, <1>a DEF DeleteDerived, RequestInv, ApiTypeOK
      <4> QED
        BY <4>1, <4>2
    <3> QED
      BY <2>13, <1>a, <3>1, <3>2, UnchangedTypes DEF DeleteDerived
  <2>14. CASE DeleteOriginal(r)
    <3>1. StoresTypeOK' /\ FaultsTypeOK'
      BY <2>14, <1>a, FaultTypes DEF DeleteOriginal, RemoveOriginal, StoresTypeOK
    <3> QED
      BY <2>14, <1>a, <3>1, RequestMoves, UnchangedTypes DEF DeleteOriginal
  <2>15. CASE DeleteDocument(r)
    <3>1. StoresTypeOK' /\ FaultsTypeOK'
      BY <2>15, <1>a, FaultTypes DEF DeleteDocument, RemoveDocument, StoresTypeOK
    <3> QED
      BY <2>15, <1>a, <3>1, RequestMoves, UnchangedTypes DEF DeleteDocument
  <2>16. CASE CutShort(r)
    BY <2>16, <1>a, RequestMoves, UnchangedTypes, FaultTypes DEF CutShort
  <2> QED
    BY <1>3, <2>1, <2>2, <2>3, <2>4, <2>5, <2>6, <2>7, <2>8, <2>9, <2>10, <2>11, <2>12, <2>13,
       <2>14, <2>15, <2>16 DEF RequestStep
<1> QED
  BY <1>1, <1>2, <1>3 DEF ApiNext, ClientCall

-----------------------------------------------------------------------------
(* Typing: the cleanup, the notification-service, clients and time. *)

LEMMA CleanupTypes == TypeInv /\ CleanupNext /\ OnlyCleanup => TypeInv'
<1> SUFFICES ASSUME TypeInv, CleanupNext, OnlyCleanup
             PROVE  TypeInv'
  OBVIOUS
<1>a. /\ DatabaseTypeOK /\ StoresTypeOK /\ JobsTypeOK /\ EventsTypeOK /\ FaultsTypeOK
      /\ CleanupTypeOK
  BY DEF TypeInv
<1>b. WorkerInv' /\ RequestInv' /\ NotifierInv'
  BY UnchangedTypes DEF TypeInv, OnlyCleanup
<1>1. CASE CleanupSelect
  <2>1. CleanupTypeOK'
    BY <1>1, <1>a, CleanupAssumption DEF CleanupSelect, CleanupTypeOK, Abandoned
  <2> QED
    BY <1>1, <1>a, <1>b, <2>1, UnchangedTypes, FaultTypes DEF CleanupSelect, TypeInv
<1>2. CASE CleanupFile
  <2>1. CleanupTypeOK'
    BY <1>2, <1>a DEF CleanupFile, CleanupTypeOK
  <2>2. StoresTypeOK' /\ FaultsTypeOK'
    BY <1>2, <1>a, FaultTypes DEF CleanupFile, RemoveOriginal, StoresTypeOK
  <2> QED
    BY <1>2, <1>a, <1>b, <2>1, <2>2, UnchangedTypes DEF CleanupFile, TypeInv
<1>3. CASE CleanupRows
  <2>1. CleanupTypeOK'
    BY <1>3, <1>a DEF CleanupRows, CleanupTypeOK
  <2> QED
    BY <1>3, <1>a, <1>b, <2>1, DeleteRowsTypes, UnchangedTypes, FaultTypes
    DEF CleanupRows, TypeInv
<1>4. CASE CleanupCutShort
  <2>1. CleanupTypeOK'
    BY <1>4, <1>a DEF CleanupCutShort, CleanupTypeOK
  <2> QED
    BY <1>4, <1>a, <1>b, <2>1, UnchangedTypes, FaultTypes DEF CleanupCutShort, TypeInv
<1> QED
  BY <1>1, <1>2, <1>3, <1>4 DEF CleanupNext, CleanupStep

LEMMA NotifierMoves ==
  ASSUME NotifierInv, NEW n \in Notifiers
  PROVE  /\ \A pc \in NotifierPc :
              notifierPc[n] # "idle" /\ Proceed(n, pc) /\ UNCHANGED delivered => NotifierInv'
         /\ Rest(n) /\ UNCHANGED delivered => NotifierInv'
BY DEF NotifierInv, NotifierTypeOK, Proceed, Rest, NotifierPc

LEMMA NoticeTypes ==
  ASSUME DatabaseTypeOK, NEW a, NEW e, assets' = assets, variants' = variants,
         RecordNotice(a, e) \/ SetSent(a, e)
  PROVE  DatabaseTypeOK'
BY DEF DatabaseTypeOK, RecordNotice, SetSent

\* Every step of a replica of the notifier keeps the types.
LEMMA NotifierTypes == TypeInv /\ NotifierNext /\ OnlyNotifier => TypeInv'
<1> SUFFICES ASSUME TypeInv, NotifierNext, OnlyNotifier
             PROVE  TypeInv'
  OBVIOUS
<1> PICK n \in Notifiers : NotifierStep(n) \/ NotifierTrouble(n)
  BY DEF NotifierNext
<1>a. DatabaseTypeOK /\ JobsTypeOK /\ EventsTypeOK /\ FaultsTypeOK /\ NotifierInv
  BY DEF TypeInv
<1>b. StoresTypeOK' /\ WorkerInv' /\ RequestInv' /\ CleanupTypeOK'
  BY UnchangedTypes DEF TypeInv, OnlyNotifier
<1> SUFFICES /\ DatabaseTypeOK' /\ JobsTypeOK' /\ EventsTypeOK' /\ FaultsTypeOK'
             /\ NotifierInv'
  BY <1>b DEF TypeInv
<1>1. CASE ReceiveEvent(n)
  <2>1. EventsTypeOK'
    BY <1>1, <1>a, EventTypes DEF ReceiveEvent
  <2>2. NotifierInv'
    BY <1>1, <1>a DEF ReceiveEvent, NotifierInv, NotifierTypeOK, NotifierPc
  <2> QED
    BY <1>1, <1>a, <2>1, <2>2, UnchangedTypes, FaultTypes DEF ReceiveEvent
<1>2. CASE FindOwner(n)
  <2>1. NotifierInv'
    BY <1>2, <1>a, NotifierMoves DEF FindOwner, NotifierPc
  <2> QED
    BY <1>2, <1>a, <2>1, UnchangedTypes, FaultTypes DEF FindOwner
<1>3. CASE Record(n)
  <2>1. DatabaseTypeOK'
    BY <1>3, <1>a, NoticeTypes, UnchangedTypes DEF Record, dbVars
  <2>2. NotifierInv'
    BY <1>3, <1>a, NotifierMoves DEF Record, NotifierPc
  <2> QED
    BY <1>3, <1>a, <2>1, <2>2, UnchangedTypes, FaultTypes DEF Record
<1>4. CASE Send(n)
  <2>1. delivered' \in [AssetId -> [EventKind -> Nat]]
    BY <1>4, <1>a DEF Send, NotifierInv, NotifierTypeOK
  <2>2. NotifierInv'
    BY <1>4, <1>a, <2>1 DEF Send, Proceed, NotifierInv, NotifierTypeOK, NotifierPc
  <2> QED
    BY <1>4, <1>a, <2>2, UnchangedTypes, FaultTypes DEF Send
<1>5. CASE MarkSent(n)
  <2>1. DatabaseTypeOK'
    BY <1>5, <1>a, NoticeTypes DEF MarkSent
  <2>2. NotifierInv'
    BY <1>5, <1>a, NotifierMoves DEF MarkSent, NotifierPc
  <2> QED
    BY <1>5, <1>a, <2>1, <2>2, UnchangedTypes, FaultTypes DEF MarkSent
<1>6. CASE NotifierRetryOrGiveUp(n)
  <2>1. NotifierInv'
    BY <1>6, <1>a, NotifierMoves DEF NotifierRetryOrGiveUp, NotifierPc
  <2> QED
    BY <1>6, <1>a, <2>1, UnchangedTypes, FaultTypes DEF NotifierRetryOrGiveUp
<1>7. CASE NotifierRepublish(n)
  <2>1. EventsTypeOK' /\ FaultsTypeOK'
    BY <1>7, <1>a, EventTypes, UnchangedTypes, FaultTypes DEF NotifierRepublish
  <2> QED
    BY <1>7, <1>a, <2>1, NotifierMoves, UnchangedTypes DEF NotifierRepublish
<1>8. CASE NotifierAck(n)
  BY <1>8, <1>a, EventTypes, NotifierMoves, UnchangedTypes, FaultTypes DEF NotifierAck
<1>9. CASE NotifierNack(n)
  BY <1>9, <1>a, EventTypes, NotifierMoves, UnchangedTypes, FaultTypes DEF NotifierNack
<1>10. CASE NotifierBreak(n)
  <2>1. DatabaseTypeOK' /\ FaultsTypeOK'
    BY <1>10, <1>a, NoticeTypes, UnchangedTypes, FaultTypes DEF NotifierBreak, dbVars
  <2>2. NotifierInv'
    BY <1>10, <1>a, NotifierMoves DEF NotifierBreak, NotifierPc
  <2> QED
    BY <1>10, <1>a, <2>1, <2>2, UnchangedTypes DEF NotifierBreak
<1>11. CASE NotifierLoseConnection(n)
  BY <1>11, <1>a, EventTypes, UnchangedTypes, FaultTypes DEF NotifierLoseConnection
<1>12. CASE CrashNotifier(n)
  BY <1>12, <1>a, EventTypes, NotifierMoves, UnchangedTypes, FaultTypes DEF CrashNotifier
<1> QED
  BY <1>1, <1>2, <1>3, <1>4, <1>5, <1>6, <1>7, <1>8, <1>9, <1>10, <1>11, <1>12
  DEF NotifierStep, NotifierTrouble

\* Uploads and the passing of time keep the types.
LEMMA OutsideTypes == TypeInv /\ OutsideNext /\ OnlyOutside => TypeInv'
<1> SUFFICES ASSUME TypeInv, OutsideNext, OnlyOutside
             PROVE  TypeInv'
  OBVIOUS
<1> PICK a \in AssetId : UploadFile(a) \/ StaleTime(a) \/ OldTime(a)
  BY DEF OutsideNext
<1>a. DatabaseTypeOK /\ StoresTypeOK /\ JobsTypeOK /\ EventsTypeOK /\ FaultsTypeOK
  BY DEF TypeInv
<1>b. WorkerInv' /\ RequestInv' /\ CleanupTypeOK' /\ NotifierInv'
  BY UnchangedTypes DEF TypeInv, OnlyOutside
<1>1. CASE UploadFile(a)
  <2>1. StoresTypeOK'
    BY <1>1, <1>a, PlatformAssumption DEF UploadFile, StoresTypeOK
  <2> QED
    BY <1>1, <1>a, <1>b, <2>1, UnchangedTypes, FaultTypes DEF UploadFile, TypeInv
<1>2. CASE StaleTime(a)
  <2>1. DatabaseTypeOK'
    BY <1>2, <1>a DEF StaleTime, BecomesStale, DatabaseTypeOK, Row
  <2> QED
    BY <1>2, <1>a, <1>b, <2>1, UnchangedTypes, FaultTypes DEF StaleTime, TypeInv
<1>3. CASE OldTime(a)
  <2>1. DatabaseTypeOK'
    BY <1>3, <1>a DEF OldTime, BecomesOld, DatabaseTypeOK, Row
  <2>2. StoresTypeOK'
    BY <1>3, <1>a DEF OldTime, StoresTypeOK
  <2> QED
    BY <1>3, <1>a, <1>b, <2>1, <2>2, UnchangedTypes, FaultTypes DEF OldTime, TypeInv
<1> QED
  BY <1>1, <1>2, <1>3

-----------------------------------------------------------------------------
(* The type invariant. *)

LEMMA TypeInvInit == Init => TypeInv
<1> SUFFICES ASSUME Init PROVE TypeInv
  OBVIOUS
<1>1. DatabaseTypeOK
  BY DEF Init, DatabaseTypeOK, NewRow, NoRow, Row, Status
<1>2. StoresTypeOK
  BY DEF Init, StoresTypeOK, Content
<1>3. JobsTypeOK /\ EventsTypeOK
  BY DEF Init, JobsTypeOK, EventsTypeOK, EmptyQueue
<1>4. FaultsTypeOK
  BY FaultsAssumption DEF Init, FaultsInit, FaultsTypeOK
<1>5. WorkerInv
  BY OneIsAKind DEF Init, WorkerInit, WorkerInv, WorkerTypeOK, WorkerPc
<1>6. RequestInv
  BY ApiAssumption DEF Init, ApiInit, RequestInv, ApiTypeOK, RequestPc
<1>7. CleanupTypeOK
  BY CleanupAssumption DEF Init, CleanupInit, CleanupTypeOK
<1>8. NotifierInv
  BY DEF Init, NotifierInit, NotifierInv, NotifierTypeOK, NotifierPc
<1> QED
  BY <1>1, <1>2, <1>3, <1>4, <1>5, <1>6, <1>7, <1>8 DEF TypeInv

LEMMA TypeInvStep == TypeInv /\ [Next]_vars => TypeInv'
<1>1. TypeInv /\ UNCHANGED vars => TypeInv'
  BY UnchangedTypes DEF TypeInv, vars, FaultsTypeOK
<1> QED
  BY <1>1, WorkerTypes, ApiTypes, CleanupTypes, NotifierTypes, OutsideTypes DEF Next

LEMMA TypeInvAlways == Spec => []TypeInv
BY TypeInvInit, TypeInvStep, PTL DEF Spec

\* Typing is invariant: every queue holds messages of the right form, every row
\* is a row, whatever fails and however many replicas there are.
THEOREM TypeCorrect == Spec => []TypeOK
<1>1. TypeInv => TypeOK
  BY DEF TypeInv, TypeOK, BrokerTypeOK, WorkerInv, RequestInv, NotifierInv
<1> QED
  BY <1>1, TypeInvAlways, PTL

=============================================================================
