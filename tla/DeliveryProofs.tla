---------------------------- MODULE DeliveryProofs ----------------------------
(***************************************************************************)
(* What becomes of images, events, jobs and claims, for every value of the *)
(* constants.  Five parts: the platform implements AssetLifecycle; events  *)
(* reach their user or stay in the broker; the job behind a 202, and that  *)
(* of a good file, is never lost; only last attempts are rejected; one     *)
(* request at a time publishes an image.  The last three name the one step *)
(* the code does not survive (ClaimDropped, LateFailure) or the failure it *)
(* has no answer to, and hold of every behaviour without it.               *)
(***************************************************************************)
EXTENDS SafetyProofs

Stages == [a \in AssetId |-> StageOf(a)]

\* The row of a has been inserted, be it gone by now.
Known(a) == assets[a].status # "ABSENT"

\* Requests are about images that were registered.
RequestsKnown == \A r \in Requests : requestPc[r] # "idle" => Known(Target(r))

\* A step of the image a, and of no other.
LEMMA OneStage ==
  ASSUME TypeInv, NEW a \in AssetId, \A b \in AssetId : b # a => assets'[b] = assets[b],
         NEW from, NEW to, StageOf(a) \in from, StageOf(a)' = to
  PROVE  Lifecycle!Move(a, from, to)
<1>1. \A b \in AssetId : b # a => StageOf(b)' = StageOf(b)
  BY DEF StageOf
<1>2. Stages' = [Stages EXCEPT ![a] = to] /\ Stages[a] \in from
  BY <1>1 DEF Stages
<1> QED
  BY <1>2 DEF Lifecycle!Move, Stages

LEMMA SameStages ==
  ASSUME \A b \in AssetId : StageOf(b)' = StageOf(b)
  PROVE  UNCHANGED Stages
BY DEF Stages

\* A statement on the row of a moves it as AssetLifecycle allows.
LEMMA StatementStages ==
  ASSUME TypeInv, NEW a \in AssetId,
         \/ Claimable(a) /\ SetProcessing(a)
         \/ SetFailed(a)
         \/ Exists(a) /\ SetDone(a)
         \/ Submittable(a) /\ SetSubmitted(a)
         \/ SetUnsubmitted(a)
         \/ Retryable(a) /\ SetResubmitted(a)
         \/ SetRetryReleased(a)
  PROVE  [Lifecycle!Next]_Stages
<1> DEFINE row == assets[a]
<1>1. row \in Row /\ \A b \in AssetId : b # a => assets'[b] = assets[b]
  BY DEF TypeInv, DatabaseTypeOK, Update, SetProcessing, SetFailed, SetDone, SetSubmitted,
         SetUnsubmitted, SetResubmitted, SetRetryReleased
<1>2. CASE ~Exists(a)
  <2>1. assets' = assets
    BY <1>2 DEF Update, SetProcessing, SetFailed, SetDone, SetSubmitted,
         SetUnsubmitted, SetResubmitted, SetRetryReleased
  <2>2. \A b \in AssetId : StageOf(b)' = StageOf(b)
    BY <2>1 DEF StageOf
  <2> QED
    BY <2>2, SameStages
<1>3. CASE Exists(a)
  <2>a. StageOf(a) \in Lifecycle!Live
    BY <1>1, <1>3 DEF StageOf, Exists, Status, Row, Lifecycle!Live
  <2>b. \A new : Update(a, new) => assets'[a] = new
    BY <1>3 DEF Update, TypeInv, DatabaseTypeOK
  <2>c. ASSUME StageOf(a)' = StageOf(a) PROVE [Lifecycle!Next]_Stages
    <3>1. \A b \in AssetId : StageOf(b)' = StageOf(b)
      BY <1>1, <2>c DEF StageOf
    <3> QED
      BY <3>1, SameStages
  <2>1. CASE Claimable(a) /\ SetProcessing(a)
    <3>1. assets'[a].status = "PROCESSING"
      BY <1>1, <2>1, <2>b DEF SetProcessing, Row
    <3>2. StageOf(a)' = "working" /\ StageOf(a) \in {"registered", "waiting", "working"}
      BY <1>1, <2>1, <3>1 DEF StageOf, Claimable
    <3>3. StageOf(a) # "working" => Lifecycle!Start(a)
      BY <1>1, <3>2, OneStage DEF Lifecycle!Start
    <3> QED
      BY <2>c, <3>2, <3>3 DEF Lifecycle!Next
  <2>2. CASE SetFailed(a) \/ SetRetryReleased(a)
    <3>1. assets'[a].status = "FAILED"
      BY <1>1, <2>2, <2>b DEF SetFailed, SetRetryReleased, Row
    <3>2. StageOf(a)' = "failed"
      BY <3>1 DEF StageOf
    <3>3. Lifecycle!Settle(a)
      BY <1>1, <2>a, <3>2, OneStage DEF Lifecycle!Settle
    <3> QED
      BY <3>3 DEF Lifecycle!Next
  <2>3. CASE SetDone(a)
    <3>1. assets'[a].status = "DONE"
      BY <1>1, <2>3, <2>b DEF SetDone, Row
    <3>2. StageOf(a)' = "done"
      BY <3>1 DEF StageOf
    <3>3. Lifecycle!Settle(a)
      BY <1>1, <2>a, <3>2, OneStage DEF Lifecycle!Settle
    <3> QED
      BY <3>3 DEF Lifecycle!Next
  <2>4. CASE Submittable(a) /\ SetSubmitted(a)
    <3>1. /\ assets'[a].status = row.status /\ row.submitted = "no"
          /\ assets'[a].submitted = "fresh"
      BY <1>1, <2>4, <2>b DEF SetSubmitted, Submittable, Row
    <3>2. CASE row.status = "PENDING"
      <4>1. StageOf(a)' = "waiting" /\ StageOf(a) = "registered"
        BY <3>1, <3>2 DEF StageOf
      <4>2. Lifecycle!Accept(a)
        BY <1>1, <4>1, OneStage DEF Lifecycle!Accept
      <4> QED
        BY <4>2 DEF Lifecycle!Next
    <3>3. CASE row.status # "PENDING"
      <4>1. StageOf(a)' = StageOf(a)
        BY <3>1, <3>3 DEF StageOf
      <4> QED
        BY <4>1, <2>c
    <3> QED
      BY <3>2, <3>3
  <2>5. CASE SetUnsubmitted(a)
    <3>1. assets'[a].status = row.status /\ assets'[a].submitted = "no"
      BY <1>1, <2>5, <2>b DEF SetUnsubmitted, Row
    <3>2. CASE row.status = "PENDING" /\ row.submitted # "no"
      <4>1. StageOf(a)' = "registered" /\ StageOf(a) = "waiting"
        BY <3>1, <3>2 DEF StageOf
      <4>2. Lifecycle!Withdraw(a)
        BY <1>1, <4>1, OneStage DEF Lifecycle!Withdraw
      <4> QED
        BY <4>2 DEF Lifecycle!Next
    <3>3. CASE ~(row.status = "PENDING" /\ row.submitted # "no")
      <4>1. StageOf(a)' = StageOf(a)
        BY <3>1, <3>3 DEF StageOf
      <4> QED
        BY <4>1, <2>c
    <3> QED
      BY <3>2, <3>3
  <2>6. CASE Retryable(a) /\ SetResubmitted(a)
    <3>1. assets'[a].status = "PENDING" /\ assets'[a].submitted = "fresh"
      BY <1>1, <2>6, <2>b DEF SetResubmitted, Row
    <3>2. StageOf(a)' = "waiting" /\ StageOf(a) \in {"failed", "waiting", "working"}
      BY <1>1, <2>6, <3>1 DEF StageOf, Retryable
    <3>3. Lifecycle!Again(a)
      BY <1>1, <3>2, OneStage DEF Lifecycle!Again
    <3> QED
      BY <3>3 DEF Lifecycle!Next
  <2> QED
    BY <2>1, <2>2, <2>3, <2>4, <2>5, <2>6
<1> QED
  BY <1>2, <1>3

\* A DELETE takes rows that are there, or are gone already.
LEMMA DeletedStages ==
  ASSUME TypeInv, NEW S \in SUBSET AssetId, DeleteRows(S), \A a \in S : Known(a)
  PROVE  [Lifecycle!Next]_Stages
<1> DEFINE T == {a \in S : Exists(a)}
<1>1. \A a \in AssetId : assets'[a] = IF a \in S THEN NoRow("DELETED") ELSE assets[a]
  BY DEF DeleteRows
<1>2. \A a \in AssetId : StageOf(a)' = IF a \in T THEN "removed" ELSE StageOf(a)
  <2> TAKE a \in AssetId
  <2>1. assets[a] \in Row
    BY DEF TypeInv, DatabaseTypeOK
  <2>2. CASE a \in T
    BY <1>1, <2>2 DEF StageOf, NoRow
  <2>3. CASE a \in S \ T
    BY <1>1, <2>1, <2>3 DEF StageOf, NoRow, Known, Exists, Row
  <2>4. CASE a \notin S
    BY <1>1, <2>1, <2>4 DEF StageOf, Row, Status
  <2> QED
    BY <2>2, <2>3, <2>4
<1>3. \A a \in T : Stages[a] \in Lifecycle!Live
  <2> TAKE a \in T
  <2>1. assets[a] \in Row /\ Exists(a)
    BY DEF TypeInv, DatabaseTypeOK
  <2> QED
    BY <2>1 DEF Stages, StageOf, Exists, Status, Row, Lifecycle!Live
<1>4. Stages' = [a \in AssetId |-> IF a \in T THEN "removed" ELSE Stages[a]]
  BY <1>2 DEF Stages
<1>5. Lifecycle!Remove(T)
  BY <1>3, <1>4 DEF Lifecycle!Remove, Stages
<1> QED
  BY <1>5 DEF Lifecycle!Next

\* A step that leaves the rows alone leaves the stages alone.
LEMMA QuietStages ==
  ASSUME UNCHANGED assets
  PROVE  [Lifecycle!Next]_Stages
<1>1. \A b \in AssetId : StageOf(b)' = StageOf(b)
  BY DEF StageOf
<1> QED
  BY <1>1, SameStages

-----------------------------------------------------------------------------
(* The steps of each component, as AssetLifecycle sees them. *)

LEMMA WorkerStages == TypeInv /\ WorkerNext => [Lifecycle!Next]_Stages
<1> SUFFICES ASSUME TypeInv, WorkerNext PROVE [Lifecycle!Next]_Stages
  OBVIOUS
<1> PICK w \in Workers : WorkerStep(w) \/ WorkerTrouble(w)
  BY DEF WorkerNext
<1>a. workerPc[w] # "idle" => Asset(w) \in AssetId
  BY DEF TypeInv, WorkerInv, Asset, Job
<1>1. CASE Claim(w)
  BY <1>1, <1>a, StatementStages, QuietStages DEF Claim
<1>2. CASE Commit(w)
  BY <1>2, <1>a, StatementStages, QuietStages DEF Commit, Finish, SaveVariants
<1>3. CASE Fail(w)
  BY <1>3, <1>a, StatementStages, QuietStages DEF Fail
<1>4. CASE CommitUnanswered(w)
  BY <1>4, <1>a, StatementStages DEF CommitUnanswered, Finish, SaveVariants
<1>5. CASE ReceiveJob(w) \/ Download(w) \/ Upload(w) \/ SaveDocument(w) \/ Confirm(w) \/ Ack(w)
           \/ Nack(w) \/ Announce(w) \/ RetryOrGiveUp(w) \/ Republish(w)
           \/ AnnounceFailure(w) \/ Break(w) \/ LoseConnection(w) \/ CrashWorker(w)
  BY <1>5, QuietStages DEF dbVars, ReceiveJob, Download, Upload, SaveDocument, Confirm, Ack, Nack,
     Announce, RetryOrGiveUp, Republish, AnnounceFailure, Break, LoseConnection, CrashWorker
<1> QED
  BY <1>1, <1>2, <1>3, <1>4, <1>5 DEF WorkerStep, WorkerTrouble

LEMMA ApiStages == TypeInv /\ RequestsKnown /\ ApiNext => [Lifecycle!Next]_Stages
<1> SUFFICES ASSUME TypeInv, RequestsKnown, ApiNext PROVE [Lifecycle!Next]_Stages
  OBVIOUS
<1>1. ASSUME NEW a \in AssetId, CreateAsset(a) PROVE [Lifecycle!Next]_Stages
  <2>1. /\ assets[a].status = "ABSENT" /\ assets'[a] = NewRow
        /\ \A b \in AssetId : b # a => assets'[b] = assets[b]
    BY <1>1 DEF CreateAsset, InsertAsset, TypeInv, DatabaseTypeOK
  <2>2. StageOf(a) = "none" /\ StageOf(a)' = "registered"
    BY <2>1 DEF StageOf, NewRow
  <2>3. Lifecycle!Register(a)
    BY <2>1, <2>2, OneStage DEF Lifecycle!Register
  <2> QED
    BY <2>3 DEF Lifecycle!Next
<1>2. ASSUME NEW a \in AssetId, NEW r \in Requests,
             CompleteRead(r, a) \/ RetryRead(r, a) \/ DeleteRead(r, a)
      PROVE  [Lifecycle!Next]_Stages
  BY <1>2, QuietStages DEF CompleteRead, RetryRead, DeleteRead, dbVars
<1>3. ASSUME NEW r \in Requests, RequestStep(r) PROVE [Lifecycle!Next]_Stages
  <2>a. requestPc[r] # "idle" => Target(r) \in AssetId /\ Known(Target(r))
    BY DEF TypeInv, RequestInv, RequestsKnown, Target
  <2>1. CASE CompleteReject(r) \/ CompleteClaim(r) \/ CompleteRelease(r) \/ RetryClaim(r)
             \/ RetryRelease(r)
    BY <2>a, <2>1, StatementStages, QuietStages
    DEF CompleteReject, CompleteClaim, CompleteRelease, RetryClaim, RetryRelease
  <2>2. CASE DeleteRow(r)
    BY <2>a, <2>2, DeletedStages DEF DeleteRow
  <2>3. CASE CompleteHead(r) \/ CompleteDrop(r) \/ CompletePublish(r) \/ RetryHead(r)
             \/ RetryPublish(r) \/ DeleteKeys(r) \/ DeleteDerived(r) \/ DeleteOriginal(r)
             \/ DeleteDocument(r)
    BY <2>3, QuietStages DEF dbVars, CompleteHead, CompleteDrop, CompletePublish, RetryHead,
       RetryPublish, DeleteKeys, DeleteDerived, DeleteOriginal, DeleteDocument
  <2> QED
    BY <1>3, <2>1, <2>2, <2>3 DEF RequestStep
<1>4. ASSUME NEW r \in Requests, CutShort(r) PROVE [Lifecycle!Next]_Stages
  BY <1>4, QuietStages DEF CutShort, dbVars
<1> QED
  BY <1>1, <1>2, <1>3, <1>4 DEF ApiNext, ClientCall

LEMMA CleanupStages == TypeInv /\ CleanupNext => [Lifecycle!Next]_Stages
<1> SUFFICES ASSUME TypeInv, CleanupNext PROVE [Lifecycle!Next]_Stages
  OBVIOUS
<1>1. CASE CleanupRows
  <2>1. Abandoned \in SUBSET AssetId /\ \A a \in Abandoned : Known(a)
    BY DEF Abandoned, Known, Exists, Status
  <2> QED
    BY <1>1, <2>1, DeletedStages DEF CleanupRows
<1>2. CASE CleanupSelect \/ CleanupFile \/ CleanupCutShort
  BY <1>2, QuietStages DEF CleanupSelect, CleanupFile, CleanupCutShort, dbVars
<1> QED
  BY <1>1, <1>2 DEF CleanupNext, CleanupStep

LEMMA NotifierKeepsRows == NotifierNext => UNCHANGED assets
BY DEF NotifierNext, dbVars, NotifierStep, NotifierTrouble, ReceiveEvent, FindOwner, Record, Send,
   MarkSent, NotifierRetryOrGiveUp, NotifierRepublish, NotifierAck, NotifierNack, NotifierBreak,
   NotifierLoseConnection, CrashNotifier

LEMMA NotifierStages == NotifierNext => [Lifecycle!Next]_Stages
BY NotifierKeepsRows, QuietStages

LEMMA OutsideStages == TypeInv /\ OutsideNext => [Lifecycle!Next]_Stages
<1> SUFFICES ASSUME TypeInv, OutsideNext PROVE [Lifecycle!Next]_Stages
  OBVIOUS
<1> PICK a \in AssetId : UploadFile(a) \/ StaleTime(a) \/ OldTime(a)
  BY DEF OutsideNext
<1>1. CASE UploadFile(a)
  BY <1>1, QuietStages DEF UploadFile, dbVars
<1>2. CASE StaleTime(a) \/ OldTime(a)
  <2>1. \A b \in AssetId : b # a => assets'[b] = assets[b]
    BY <1>2 DEF StaleTime, BecomesStale, OldTime, BecomesOld, TypeInv, DatabaseTypeOK
  <2>2. /\ assets'[a].status = assets[a].status
        /\ assets'[a].submitted = "no" <=> assets[a].submitted = "no"
    BY <1>2 DEF StaleTime, BecomesStale, OldTime, BecomesOld, TypeInv, DatabaseTypeOK, Row
  <2>3. \A b \in AssetId : StageOf(b)' = StageOf(b)
    BY <2>1, <2>2 DEF StageOf
  <2> QED
    BY <2>3, SameStages
<1> QED
  BY <1>1, <1>2

\* Every step of every component moves an image as AssetLifecycle allows.
LEMMA StageStep == TypeInv /\ RequestsKnown /\ [Next]_vars => [Lifecycle!Next]_Stages
<1>1. UNCHANGED vars => [Lifecycle!Next]_Stages
  BY QuietStages DEF vars, dbVars
<1> QED
  BY <1>1, WorkerStages, ApiStages, CleanupStages, NotifierStages, OutsideStages DEF Next

KnownStays == \A a \in AssetId : Known(a) => Known(a)'

\* An image that was registered stays so: no stage leads back to none.
LEMMA KnownForGood == TypeInv /\ TypeInv' /\ [Lifecycle!Next]_Stages => KnownStays
<1>1. /\ TypeInv => \A a \in AssetId : Known(a) <=> Stages[a] # "none"
      /\ TypeInv' => \A a \in AssetId : Known(a)' <=> Stages'[a] # "none"
  BY DEF Stages, StageOf, Known, TypeInv, DatabaseTypeOK, Row, Status
<1>2. [Lifecycle!Next]_Stages => \A a \in AssetId : Stages[a] # "none" => Stages'[a] # "none"
  BY DEF Stages, Lifecycle!Next, Lifecycle!Register, Lifecycle!Accept, Lifecycle!Withdraw,
     Lifecycle!Start, Lifecycle!Settle, Lifecycle!Again, Lifecycle!Remove, Lifecycle!Move
<1> QED
  BY <1>1, <1>2 DEF KnownStays

LEMMA RequestsKnownStep == TypeInv /\ RequestsKnown /\ [Next]_vars => RequestsKnown' /\ KnownStays
<1> SUFFICES ASSUME TypeInv, RequestsKnown, [Next]_vars PROVE RequestsKnown' /\ KnownStays
  OBVIOUS
<1>1. KnownStays
  BY TypeInvStep, StageStep, KnownForGood
<1>2. ASSUME NEW r \in Requests, requestPc'[r] # "idle",
             requestPc[r] # "idle", requestAsset'[r] = requestAsset[r]
      PROVE  Known(Target(r))'
  BY <1>1, <1>2 DEF KnownStays, RequestsKnown, Target, TypeInv, RequestInv, Known
<1>3. CASE ApiNext
  <2>1. ASSUME NEW a \in AssetId, CreateAsset(a) PROVE RequestsKnown'
    BY <1>2, <2>1 DEF CreateAsset, RequestsKnown
  <2>2. ASSUME NEW a \in AssetId, NEW r \in Requests,
               CompleteRead(r, a) \/ RetryRead(r, a) \/ DeleteRead(r, a)
        PROVE  RequestsKnown'
    <3> SUFFICES ASSUME NEW s \in Requests, requestPc'[s] # "idle" PROVE Known(Target(s))'
      BY DEF RequestsKnown
    <3>1. CASE s # r
      BY <1>2, <2>2, <3>1
      DEF CompleteRead, RetryRead, DeleteRead, Begin, TypeInv, RequestInv, ApiTypeOK
    <3>2. CASE s = r
      <4>1. Target(r)' = a /\ Known(a)
        BY <2>2 DEF CompleteRead, RetryRead, DeleteRead, Begin, TypeInv, RequestInv, ApiTypeOK,
           Known, Exists, Status, Retryable, Target
      <4> QED
        BY <1>1, <3>2, <4>1 DEF KnownStays, Known
    <3> QED
      BY <3>1, <3>2
  <2>3. ASSUME NEW r \in Requests, RequestStep(r) \/ CutShort(r) PROVE RequestsKnown'
    <3> SUFFICES ASSUME NEW s \in Requests, requestPc'[s] # "idle" PROVE Known(Target(s))'
      BY DEF RequestsKnown
    <3>1. requestPc[s] # "idle" /\ requestAsset'[s] = requestAsset[s]
      BY <2>3 DEF TypeInv, RequestInv, ApiTypeOK, GoOn, Respond, Publish, RequestStep, CutShort,
         CompleteHead, CompleteDrop, CompleteReject, CompleteClaim, CompletePublish,
         CompleteRelease, RetryHead, RetryClaim, RetryPublish, RetryRelease, DeleteKeys,
         DeleteRow, DeleteDerived, DeleteOriginal, DeleteDocument
    <3> QED
      BY <1>2, <3>1
  <2> QED
    BY <1>1, <1>3, <2>1, <2>2, <2>3 DEF ApiNext, ClientCall
<1>4. CASE UNCHANGED apiVars
  BY <1>1, <1>2, <1>4 DEF RequestsKnown, apiVars
<1> QED
  BY <1>1, <1>3, <1>4 DEF Next, OnlyWorker, OnlyCleanup, OnlyNotifier, OnlyOutside, vars

\* An image goes through its stages in the order AssetLifecycle promises.
THEOREM LifecycleIsFollowed == Spec => FollowsLifecycle
<1>1. Init => Lifecycle!Init /\ RequestsKnown
  <2> SUFFICES ASSUME Init PROVE Lifecycle!Init /\ RequestsKnown
    OBVIOUS
  <2>1. \A a \in AssetId : StageOf(a) \in {"none", "waiting"}
    BY DEF Init, StageOf, NewRow, NoRow
  <2> QED
    BY <2>1 DEF Init, ApiInit, RequestsKnown, Lifecycle!Init
<1>2. TypeInv /\ RequestsKnown /\ [Next]_vars => [Lifecycle!Next]_Stages /\ RequestsKnown'
  BY StageStep, RequestsKnownStep
<1>3. Init => TypeInv
  BY TypeInvInit
<1>4. TypeInv /\ [Next]_vars => TypeInv'
  BY TypeInvStep
<1> QED
  BY <1>1, <1>2, <1>3, <1>4, PTL DEF Spec, FollowsLifecycle, Lifecycle!Spec, Stages

-----------------------------------------------------------------------------
(* Events.  What happens to an announced event until its notice is sent.   *)

\* A worker announces the outcome of an image that was registered.
AnnouncersKnown ==
  \A w \in Workers :
    workerPc[w] \in {"confirm", "announce", "announceFailure"} => Known(Asset(w))

\* What the notifier holds, and what it has done when it gets to each statement.
HandlerOK(n) ==
  /\ eventLease[n] = NoEvent \/ (eventLease[n] = notifierEvent[n] /\ notifierPc[n] # "idle")
  /\ notifierPc[n] # "idle" => Known(Subject(n))
  /\ notifierPc[n] = "republish" => notifierEvent[n].attempt < MaxEventAttempts
  /\ notifierPc[n] \in {"send", "markSent"} =>
       Gone(Subject(n)) \/ notices[Subject(n)][Kind(n)] # "none"
  /\ notifierPc[n] = "markSent" => delivered[Subject(n)][Kind(n)] > 0
  /\ notifierPc[n] = "ack" =>
       Gone(Subject(n)) \/ notices[Subject(n)][Kind(n)] = "sent"

HandlerInv == \A n \in Notifiers : HandlerOK(n)

EventsKnown == \A m \in Event : events[m] > 0 => Known(m.asset)

Waiting(a, e) ==
  \E m \in Event : m.asset = a /\ m.kind = e /\ events[m] + deadEvents[m] > 0

InHand(a, e) == \E n \in Notifiers : eventLease[n].asset = a /\ eventLease[n].kind = e

\* NeverSilent, for images that are gone for good.
Heard ==
  \A p \in announced :
    Gone(p[1]) \/ notices[p[1]][p[2]] = "sent" \/ Waiting(p[1], p[2]) \/ InHand(p[1], p[2])

EventInv ==
  AnnouncersKnown /\ HandlerInv /\ EventsKnown /\ Heard /\ SentWasDelivered

\* Notices only progress, until their image is gone.
NoticesKeep ==
  \A a \in AssetId, e \in EventKind :
    /\ Gone(a)' \/ (notices[a][e] # "none" => notices'[a][e] # "none")
    /\ Gone(a)' \/ (notices[a][e] = "sent" => notices'[a][e] = "sent")

\* Nothing leaves the queues; what is new is queued, and about a known image.
EventsGrow ==
  /\ UNCHANGED <<eventLease, deadEvents>>
  /\ \A m \in Event : events'[m] >= events[m]
                      /\ (events'[m] > 0 => events[m] > 0 \/ Known(m.asset))
  /\ \A p \in announced' :
       p \in announced \/ \E m \in Event : m.asset = p[1] /\ m.kind = p[2] /\ events'[m] > 0

\* The other components only add events, and delete notices with their image.
LEMMA EventFrame ==
  ASSUME TypeInv, TypeInv', HandlerInv, EventsKnown, Heard, SentWasDelivered,
         UNCHANGED notifierVars, EventsGrow, NoticesKeep, GoneStaysGone, KnownStays,
         \A a \in AssetId, e \in EventKind : notices'[a][e] \in {notices[a][e], "none"}
  PROVE  HandlerInv' /\ EventsKnown' /\ Heard' /\ SentWasDelivered'
<1>1. HandlerInv'
  <2> SUFFICES ASSUME NEW n \in Notifiers
               PROVE  HandlerOK(n)'
    BY DEF HandlerInv
  <2>1. /\ Subject(n)' = Subject(n) /\ Kind(n)' = Kind(n)
        /\ notifierPc'[n] = notifierPc[n] /\ notifierEvent'[n] = notifierEvent[n]
        /\ eventLease'[n] = eventLease[n] /\ delivered' = delivered
    BY DEF notifierVars, EventsGrow, Subject, Kind
  <2>2. notifierPc[n] # "idle" => Subject(n) \in AssetId /\ Kind(n) \in EventKind
    BY DEF TypeInv, NotifierInv, Event, Subject, Kind
  <2>3. /\ Known(Subject(n))' <=> assets'[Subject(n)].status # "ABSENT"
        /\ Gone(Subject(n))' <=> assets'[Subject(n)].status = "DELETED"
    BY <2>1 DEF Known, Gone
  <2>4. notifierPc[n] # "idle" => /\ Known(Subject(n)) => Known(Subject(n))'
                                  /\ Gone(Subject(n)) => Gone(Subject(n))'
    BY <2>2, <2>3 DEF KnownStays, GoneStaysGone, Known, Gone
  <2> QED
    BY <2>1, <2>2, <2>3, <2>4 DEF HandlerInv, HandlerOK, NoticesKeep, Gone
<1>2. EventsKnown'
  BY DEF EventsKnown, EventsGrow, KnownStays, Event, Known
<1>3. Heard'
  <2> SUFFICES ASSUME NEW p \in announced'
               PROVE  (Gone(p[1]) \/ notices[p[1]][p[2]] = "sent" \/ Waiting(p[1], p[2])
                        \/ InHand(p[1], p[2]))'
    BY DEF Heard
  <2>a. p[1] \in AssetId /\ p[2] \in EventKind
    BY DEF TypeInv, EventsTypeOK
  <2>b. \A m \in Event : /\ events[m] \in Nat /\ deadEvents[m] \in Nat
                         /\ events'[m] \in Nat /\ deadEvents'[m] = deadEvents[m]
    BY DEF TypeInv, EventsTypeOK, EventsGrow
  <2>1. CASE p \in announced
    <3>1. Gone(p[1]) => Gone(p[1])'
      BY <2>a DEF GoneStaysGone
    <3>2. notices[p[1]][p[2]] = "sent" => Gone(p[1])' \/ notices'[p[1]][p[2]] = "sent"
      BY <2>a DEF NoticesKeep
    <3>3. Waiting(p[1], p[2]) => Waiting(p[1], p[2])'
      BY <2>b DEF Waiting, EventsGrow
    <3>4. InHand(p[1], p[2]) => InHand(p[1], p[2])'
      BY DEF InHand, EventsGrow
    <3> QED
      BY <2>1, <3>1, <3>2, <3>3, <3>4 DEF Heard
  <2>2. CASE p \notin announced
    BY <2>2, <2>b DEF EventsGrow, Waiting
  <2> QED
    BY <2>1, <2>2
<1>4. SentWasDelivered'
  BY DEF SentWasDelivered, notifierVars
<1> QED
  BY <1>1, <1>2, <1>3, <1>4

\* Steps that leave events and notices alone, or delete notices with their image.
LEMMA EventQuiet ==
  ASSUME TypeInv, UNCHANGED eventVars, GoneStaysGone,
         UNCHANGED notices \/ \E S : DeleteRows(S)
  PROVE  EventsGrow /\ NoticesKeep
         /\ \A a \in AssetId, e \in EventKind : notices'[a][e] \in {notices[a][e], "none"}
<1>1. EventsGrow
  BY DEF EventsGrow, eventVars, TypeInv, EventsTypeOK
<1>2. CASE UNCHANGED notices
  BY <1>1, <1>2 DEF NoticesKeep
<1>3. ASSUME NEW S, DeleteRows(S)
      PROVE  NoticesKeep
             /\ \A a \in AssetId, e \in EventKind : notices'[a][e] \in {notices[a][e], "none"}
  BY <1>3 DEF NoticesKeep, DeleteRows, NoRow, Gone
<1> QED
  BY <1>1, <1>2, <1>3

\* An emission about a known image.
LEMMA EmittedEvents ==
  ASSUME TypeInv, NEW w \in Workers, Asset(w) \in AssetId, Known(Asset(w)),
         NEW e \in EventKind, Emit(w, e)
  PROVE  EventsGrow
<1> DEFINE new == [asset |-> Asset(w), kind |-> e, attempt |-> 1]
<1>1. PICK n \in 0 .. 2 : PublishEvent(Asset(w), e, n)
  BY DEF Emit
<1>2. new \in Event /\ events \in [Event -> Nat] /\ n \in Nat
  BY BrokerAssumption DEF Event, TypeInv, EventsTypeOK
<1>3. events' = [events EXCEPT ![new] = @ + n]
  BY <1>1 DEF PublishEvent, Put
<1>4. \A m \in Event : events'[m] = IF m = new THEN events[m] + n ELSE events[m]
  BY <1>2, <1>3
<1>5. announced' = announced \/ (n > 0 /\ announced' = announced \cup {<<Asset(w), e>>})
  BY <1>1, <1>2 DEF PublishEvent
<1>6. events'[new] >= n
  BY <1>2, <1>4
<1>7. \A p \in announced' :
        p \in announced \/ \E m \in Event : m.asset = p[1] /\ m.kind = p[2] /\ events'[m] > 0
  <2> SUFFICES ASSUME NEW p \in announced', p \notin announced
               PROVE  \E m \in Event : m.asset = p[1] /\ m.kind = p[2] /\ events'[m] > 0
    OBVIOUS
  <2>1. p = <<Asset(w), e>> /\ n > 0
    BY <1>5
  <2>2. new.asset = p[1] /\ new.kind = p[2] /\ events'[new] > 0
    BY <1>2, <1>4, <2>1
  <2> QED
    BY <1>2, <2>2
<1>8. \A m \in Event : events'[m] >= events[m] /\ (events'[m] > 0 => events[m] > 0 \/ Known(m.asset))
  BY <1>2, <1>4
<1> QED
  BY <1>1, <1>7, <1>8 DEF EventsGrow, PublishEvent

LEMMA WorkerEvents ==
  ASSUME TypeInv, TypeInv', EventInv, WorkerNext, OnlyWorker, GoneStaysGone, KnownStays
  PROVE  EventInv'
<1> PICK w \in Workers : WorkerStep(w) \/ WorkerTrouble(w)
  BY DEF WorkerNext
<1>a. /\ workerPc \in [Workers -> WorkerPc] /\ workerJob \in [Workers -> Job \cup {NoJob}]
      /\ \A v \in Workers : workerPc[v] # "idle" => Asset(v) \in AssetId
      /\ settlement[w] \in {"ack", "nack"}
  BY DEF TypeInv, WorkerInv, WorkerTypeOK, Asset, Job
<1>b. UNCHANGED notifierVars
  BY DEF OnlyWorker
<1>1. AnnouncersKnown'
  <2>0. ASSUME \A v \in Workers \ {w} : workerPc'[v] = workerPc[v] /\ workerJob'[v] = workerJob[v],
               \/ workerPc'[w] \notin {"confirm", "announce", "announceFailure"}
               \/ Known(Asset(w)) /\ Asset(w) \in AssetId /\ workerJob'[w] = workerJob[w]
        PROVE  AnnouncersKnown'
    BY <1>a, <2>0 DEF EventInv, AnnouncersKnown, KnownStays, Known, Asset
  <2>1. CASE Commit(w)
    <3>1. \/ Exists(Asset(w)) /\ Goto(w, "confirm")
          \/ Goto(w, "retryOrGiveUp")
      BY <2>1 DEF Commit, Finish, SaveVariants
    <3> QED
      BY <1>a, <2>0, <2>1, <3>1 DEF Commit, Goto, Known, Exists, Status
  <2>2. CASE Confirm(w)
    BY <1>a, <2>0, <2>2 DEF Confirm, Goto, GoIdle, EventInv, AnnouncersKnown
  <2>3. CASE Fail(w)
    <3>1. \/ Exists(Asset(w)) /\ Goto(w, "announceFailure")
          \/ Goto(w, settlement[w])
      BY <2>3 DEF Fail
    <3> QED
      BY <1>a, <2>0, <2>3, <3>1 DEF Fail, Goto, Known, Exists, Status
  <2>4. CASE LoseConnection(w)
    BY <2>4, <1>a DEF LoseConnection, workerVars, EventInv, AnnouncersKnown, KnownStays, Known, Asset
  <2>5. CASE ReceiveJob(w)
    BY <1>a, <2>0, <2>5 DEF ReceiveJob
  <2>6. CASE Claim(w) \/ Download(w) \/ Upload(w) \/ SaveDocument(w) \/ RetryOrGiveUp(w)
             \/ Break(w) \/ CommitUnanswered(w)
    BY <1>a, <2>0, <2>6 DEF Claim, Download, Upload, SaveDocument, RetryOrGiveUp, Break,
       CommitUnanswered, Goto
  <2>7. CASE Ack(w) \/ Nack(w) \/ Announce(w) \/ Republish(w) \/ AnnounceFailure(w)
             \/ CrashWorker(w)
    BY <1>a, <2>0, <2>7 DEF Ack, Nack, Announce, Republish, AnnounceFailure, CrashWorker,
       Goto, GoIdle
  <2> QED
    BY <2>1, <2>2, <2>3, <2>4, <2>5, <2>6, <2>7 DEF WorkerStep, WorkerTrouble
<1>2. /\ EventsGrow /\ NoticesKeep
      /\ \A a \in AssetId, e \in EventKind : notices'[a][e] \in {notices[a][e], "none"}
  <2>1. CASE Announce(w) \/ AnnounceFailure(w)
    <3>1. Known(Asset(w)) /\ Asset(w) \in AssetId
      BY <2>1, <1>a DEF Announce, AnnounceFailure, EventInv, AnnouncersKnown
    <3>2. EventsGrow
      BY <2>1, <3>1, EmittedEvents DEF Announce, AnnounceFailure, EventKind
    <3>3. UNCHANGED notices
      BY <2>1 DEF Announce, AnnounceFailure, dbVars
    <3> QED
      BY <3>2, <3>3 DEF NoticesKeep
  <2>2. CASE ~(Announce(w) \/ AnnounceFailure(w))
    <3>1. UNCHANGED eventVars /\ UNCHANGED notices
      BY <2>2 DEF dbVars, WorkerStep, WorkerTrouble, ReceiveJob, Claim, Download, Upload,
         SaveDocument, Commit, Confirm, Ack, Nack, RetryOrGiveUp, Republish, Fail, Break,
         CommitUnanswered, LoseConnection, CrashWorker
    <3> QED
      BY <3>1, EventQuiet
  <2> QED
    BY <2>1, <2>2
<1> QED
  BY <1>b, <1>1, <1>2, EventFrame DEF EventInv

LEMMA OtherEvents ==
  ASSUME TypeInv, TypeInv', EventInv, GoneStaysGone, KnownStays,
         \/ ApiNext /\ OnlyApi
         \/ CleanupNext /\ OnlyCleanup
         \/ OutsideNext /\ OnlyOutside
         \/ UNCHANGED vars
  PROVE  EventInv'
<1>1. UNCHANGED <<workerVars, notifierVars, eventVars>>
      /\ (UNCHANGED notices \/ \E S : DeleteRows(S))
  <2>1. ASSUME ApiNext, OnlyApi
        PROVE  UNCHANGED <<workerVars, notifierVars, eventVars>>
               /\ (UNCHANGED notices \/ \E S : DeleteRows(S))
    <3>1. ASSUME NEW a \in AssetId, NEW r \in Requests,
                 CompleteRead(r, a) \/ RetryRead(r, a) \/ DeleteRead(r, a)
          PROVE  UNCHANGED eventVars /\ UNCHANGED notices
      BY <3>1 DEF CompleteRead, RetryRead, DeleteRead, dbVars
    <3>2. ASSUME NEW a \in AssetId, CreateAsset(a)
          PROVE  UNCHANGED eventVars /\ UNCHANGED notices
      BY <3>2 DEF CreateAsset
    <3>3. ASSUME NEW r \in Requests, RequestStep(r) \/ CutShort(r)
          PROVE  UNCHANGED eventVars /\ (UNCHANGED notices \/ \E S : DeleteRows(S))
      BY <3>3 DEF dbVars, RequestStep, CutShort, CompleteHead, CompleteDrop, CompleteReject,
         CompleteClaim, CompletePublish, CompleteRelease, RetryHead, RetryClaim, RetryPublish,
         RetryRelease, DeleteKeys, DeleteRow, DeleteDerived, DeleteOriginal, DeleteDocument
    <3> QED
      BY <2>1, <3>1, <3>2, <3>3 DEF ApiNext, ClientCall, OnlyApi
  <2>2. ASSUME CleanupNext, OnlyCleanup
        PROVE  UNCHANGED <<workerVars, notifierVars, eventVars>>
               /\ (UNCHANGED notices \/ \E S : DeleteRows(S))
    BY <2>2 DEF OnlyCleanup, CleanupNext, CleanupStep, CleanupSelect, CleanupFile, CleanupRows,
       CleanupCutShort, dbVars
  <2>3. ASSUME OutsideNext, OnlyOutside
        PROVE  UNCHANGED <<workerVars, notifierVars, eventVars>> /\ UNCHANGED notices
    BY <2>3 DEF OnlyOutside, OutsideNext, UploadFile, StaleTime, OldTime, BecomesStale,
       BecomesOld, dbVars
  <2> QED
    BY <2>1, <2>2, <2>3 DEF vars, dbVars
<1>2. AnnouncersKnown'
  BY <1>1 DEF EventInv, AnnouncersKnown, KnownStays, Known, Asset, workerVars, TypeInv,
     WorkerInv, Job
<1> QED
  BY <1>1, <1>2, EventQuiet, EventFrame DEF EventInv

\* The handler of n moves on, the queues are as they were.
HandlerMoves(n) ==
  /\ \A k \in Notifiers \ {n} : /\ notifierPc'[k] = notifierPc[k]
                                /\ notifierEvent'[k] = notifierEvent[k]
  /\ notifierPc[n] # "idle" /\ notifierPc'[n] # "idle"
  /\ notifierEvent'[n] = notifierEvent[n]
  /\ UNCHANGED <<events, eventLease, deadEvents, announced>>

\* The message of n is no more in its hands: it is back in a queue, or dead, or its
\* notice is sent, or it is of no use.
HandlerRests(n) ==
  /\ Rest(n) \/ UNCHANGED <<notifierPc, notifierEvent>>
  /\ eventLease' = [eventLease EXCEPT ![n] = NoEvent]
  /\ \A m \in Event : /\ events'[m] + deadEvents'[m] >= events[m] + deadEvents[m]
                      /\ events'[m] > 0 => events[m] > 0 \/ m.asset = Subject(n)
  /\ \/ eventLease[n] = NoEvent
     \/ Gone(Subject(n))
     \/ notices[Subject(n)][Kind(n)] = "sent"
     \/ \E m \in Event : /\ m.asset = Subject(n) /\ m.kind = Kind(n)
                         /\ events'[m] + deadEvents'[m] > 0
  /\ UNCHANGED <<announced, delivered, notices, assets>>

LEMMA MovesKeepEvents ==
  ASSUME TypeInv, TypeInv', EventInv, NEW n \in Notifiers, HandlerMoves(n),
         GoneStaysGone, KnownStays, UNCHANGED assets, UNCHANGED workerVars,
         notifierPc'[n] \in {"record", "retryOrGiveUp", "nack"}
           \/ (notifierPc'[n] = "republish" /\ notifierEvent[n].attempt < MaxEventAttempts)
           \/ (notifierPc'[n] = "send" /\ notices'[Subject(n)][Kind(n)] # "none")
           \/ (notifierPc'[n] = "markSent" /\ delivered'[Subject(n)][Kind(n)] > 0
               /\ (Gone(Subject(n)) \/ notices'[Subject(n)][Kind(n)] # "none"))
           \/ (notifierPc'[n] = "ack"
               /\ (Gone(Subject(n)) \/ notices'[Subject(n)][Kind(n)] = "sent")),
         \A a \in AssetId, e \in EventKind :
           /\ notices[a][e] # "none" => notices'[a][e] # "none"
           /\ notices[a][e] = "sent" => notices'[a][e] = "sent"
           /\ notices'[a][e] = "sent" => notices[a][e] = "sent" \/ delivered[a][e] > 0
           /\ delivered'[a][e] >= delivered[a][e]
  PROVE  EventInv'
<1>a. \A k \in Notifiers : notifierPc[k] # "idle" => Subject(k) \in AssetId /\ Kind(k) \in EventKind
  BY DEF TypeInv, NotifierInv, Event, Subject, Kind
<1>b. /\ \A k \in Notifiers : Subject(k)' = Subject(k) /\ Kind(k)' = Kind(k)
      /\ \A a : (Gone(a)' <=> Gone(a)) /\ (Known(a)' <=> Known(a))
  BY DEF HandlerMoves, Subject, Kind, Gone, Known
<1>c. /\ \A a \in AssetId, e \in EventKind : delivered[a][e] \in Nat /\ delivered'[a][e] \in Nat
  BY DEF TypeInv, NotifierInv, NotifierTypeOK
<1>1. AnnouncersKnown'
  BY DEF EventInv, AnnouncersKnown, Known, Asset, workerVars
<1>2. EventsKnown' /\ Heard'
  <2>1. EventsKnown'
    BY DEF EventInv, EventsKnown, Known, HandlerMoves
  <2>2. \A a, e : (Waiting(a, e)' <=> Waiting(a, e)) /\ (InHand(a, e)' <=> InHand(a, e))
    BY DEF Waiting, InHand, HandlerMoves
  <2>3. \A p \in announced : p[1] \in AssetId /\ p[2] \in EventKind
    BY DEF TypeInv, EventsTypeOK
  <2> QED
    BY <1>b, <2>1, <2>2, <2>3 DEF EventInv, Heard, HandlerMoves
<1>3. SentWasDelivered'
  BY <1>c DEF EventInv, SentWasDelivered
<1>4. HandlerInv'
  <2> SUFFICES ASSUME NEW k \in Notifiers
               PROVE  HandlerOK(k)'
    BY DEF HandlerInv
  <2>1. /\ Subject(k)' = Subject(k) /\ Kind(k)' = Kind(k)
        /\ Known(Subject(k))' <=> Known(Subject(k))
        /\ Gone(Subject(k))' <=> Gone(Subject(k))
    BY <1>b DEF Known, Gone
  <2>2. CASE k = n
    BY <1>a, <2>1, <2>2 DEF EventInv, HandlerInv, HandlerOK, HandlerMoves
  <2>3. CASE k # n
    BY <1>a, <1>c, <2>1, <2>3 DEF EventInv, HandlerInv, HandlerOK, HandlerMoves
  <2> QED
    BY <2>2, <2>3
<1> QED
  BY <1>1, <1>2, <1>3, <1>4 DEF EventInv

LEMMA RestKeepsEvents ==
  ASSUME TypeInv, TypeInv', EventInv, NEW n \in Notifiers, notifierPc[n] # "idle",
         HandlerRests(n), UNCHANGED workerVars
  PROVE  EventInv'
<1>a. \A a : (Gone(a)' <=> Gone(a)) /\ (Known(a)' <=> Known(a))
  BY DEF HandlerRests, Gone, Known
<1>b. /\ Known(Subject(n))
      /\ eventLease[n] = NoEvent \/ eventLease[n] = notifierEvent[n]
  BY DEF EventInv, HandlerInv, HandlerOK
<1>1. AnnouncersKnown' /\ SentWasDelivered'
  BY DEF EventInv, AnnouncersKnown, SentWasDelivered, Known, Asset, workerVars, HandlerRests
<1>2. EventsKnown'
  BY <1>a, <1>b DEF EventInv, EventsKnown, HandlerRests, Known
<1>3. Heard'
  <2> SUFFICES ASSUME NEW p \in announced
               PROVE  Gone(p[1])' \/ notices'[p[1]][p[2]] = "sent" \/ Waiting(p[1], p[2])'
                        \/ InHand(p[1], p[2])'
    BY DEF Heard, HandlerRests
  <2>a. \A m \in Event : /\ events[m] \in Nat /\ deadEvents[m] \in Nat
                         /\ events'[m] \in Nat /\ deadEvents'[m] \in Nat
    BY DEF TypeInv, EventsTypeOK
  <2>b. eventLease \in [Notifiers -> Event \cup {NoEvent}]
    BY DEF TypeInv, EventsTypeOK
  <2>1. CASE Gone(p[1]) \/ notices[p[1]][p[2]] = "sent"
    BY <1>a, <2>1 DEF HandlerRests
  <2>2. CASE Waiting(p[1], p[2])
    BY <2>2, <2>a DEF Waiting, HandlerRests
  <2>3. ASSUME NEW k \in Notifiers, eventLease[k].asset = p[1], eventLease[k].kind = p[2], k # n
        PROVE  InHand(p[1], p[2])'
    BY <2>3, <2>b DEF InHand, HandlerRests
  <2>4. CASE eventLease[n].asset = p[1] /\ eventLease[n].kind = p[2]
    <3>1. p[1] \in AssetId
      BY DEF TypeInv, EventsTypeOK
    <3>2. eventLease[n] # NoEvent
      BY <2>4, <3>1, BrokerAssumption DEF NoEvent
    <3>3. p[1] = Subject(n) /\ p[2] = Kind(n)
      BY <1>b, <2>4, <3>2 DEF Subject, Kind
    <3> QED
      BY <1>a, <3>2, <3>3 DEF HandlerRests, Waiting
  <2> QED
    BY <2>1, <2>2, <2>3, <2>4 DEF EventInv, Heard, InHand
<1>4. HandlerInv'
  <2> SUFFICES ASSUME NEW k \in Notifiers
               PROVE  HandlerOK(k)'
    BY DEF HandlerInv
  <2>a. /\ notifierPc \in [Notifiers -> NotifierPc] /\ notifierEvent \in [Notifiers -> Event \cup {NoEvent}]
        /\ eventLease \in [Notifiers -> Event \cup {NoEvent}]
    BY DEF TypeInv, NotifierInv, NotifierTypeOK, EventsTypeOK
  <2>1. CASE k = n
    <3>1. eventLease'[n] = NoEvent
      BY <2>a DEF HandlerRests
    <3>2. CASE Rest(n)
      BY <2>a, <2>1, <3>1, <3>2 DEF HandlerOK, Rest
    <3>3. CASE UNCHANGED <<notifierPc, notifierEvent>>
      BY <1>a, <2>1, <3>1, <3>3
      DEF EventInv, HandlerInv, HandlerOK, HandlerRests, Subject, Kind, Known, Gone
    <3> QED
      BY <3>2, <3>3 DEF HandlerRests
  <2>2. CASE k # n
    <3>1. /\ notifierPc'[k] = notifierPc[k] /\ notifierEvent'[k] = notifierEvent[k]
          /\ eventLease'[k] = eventLease[k] /\ Subject(k)' = Subject(k) /\ Kind(k)' = Kind(k)
      BY <2>a, <2>2 DEF HandlerRests, Rest, Subject, Kind
    <3>2. /\ Known(Subject(k))' <=> Known(Subject(k))
          /\ Gone(Subject(k))' <=> Gone(Subject(k))
      BY <1>a, <3>1 DEF Known, Gone
    <3> QED
      BY <3>1, <3>2 DEF EventInv, HandlerInv, HandlerOK, HandlerRests
  <2> QED
    BY <2>1, <2>2
<1> QED
  BY <1>1, <1>2, <1>3, <1>4 DEF EventInv

\* A connection that closes: the message goes back to the queue, with n copies of
\* its next attempt.
LEMMA Requeued ==
  ASSUME NEW n \in Notifiers, NEW next, NEW copies \in {0, 1},
         events \in [Event -> Nat], deadEvents \in [Event -> Nat],
         notifierEvent[n] \in Event,
         eventLease[n] = NoEvent \/ eventLease[n] = notifierEvent[n],
         copies = 1 => next \in Event /\ next.asset = Subject(n),
         RequeueEvent(n, next, copies),
         Rest(n) \/ UNCHANGED <<notifierPc, notifierEvent>>,
         UNCHANGED <<delivered, notices, assets>>
  PROVE  HandlerRests(n)
<1> DEFINE q == IF copies = 0 THEN events ELSE Put(events, next, copies)
<1>1. \A x \in Event : q[x] = IF copies = 1 /\ x = next THEN events[x] + 1 ELSE events[x]
  BY DEF Put
<1>2. q \in [Event -> Nat]
  BY PutTypes
<1>3. /\ events' = IF eventLease[n] = NoEvent THEN q ELSE Put(q, eventLease[n], 1)
      /\ eventLease' = [eventLease EXCEPT ![n] = NoEvent]
      /\ UNCHANGED <<deadEvents, announced>>
  BY DEF RequeueEvent
<1>4. CASE eventLease[n] = NoEvent
  BY <1>1, <1>3, <1>4 DEF HandlerRests
<1>5. CASE eventLease[n] # NoEvent
  <2> DEFINE m == notifierEvent[n]
  <2>1. eventLease[n] = m /\ m.asset = Subject(n) /\ m.kind = Kind(n)
    BY <1>5 DEF Subject, Kind
  <2> HIDE DEF q
  <2>2. \A x \in Event : events'[x] = IF x = m THEN q[x] + 1 ELSE q[x]
    BY <1>2, <1>3, <1>5, <2>1 DEF Put
  <2>3. \A x \in Event : events'[x] >= events[x]
    BY <1>1, <1>2, <2>2
  <2>4. events'[m] > 0
    BY <1>2, <2>2
  <2>5. \A x \in Event : events'[x] > 0 => events[x] > 0 \/ x.asset = Subject(n)
    BY <1>1, <1>2, <2>1, <2>2
  <2>6. \A x \in Event : events'[x] \in Nat /\ deadEvents'[x] \in Nat /\ deadEvents[x] \in Nat
    BY <1>2, <1>3, <2>2
  <2>7. /\ \A x \in Event : events'[x] + deadEvents'[x] >= events[x] + deadEvents[x]
        /\ events'[m] + deadEvents'[m] > 0
    BY <1>3, <2>3, <2>4, <2>6
  <2> QED
    BY <1>3, <2>1, <2>5, <2>7 DEF HandlerRests
<1> QED
  BY <1>4, <1>5

LEMMA NotifierEvents ==
  ASSUME TypeInv, TypeInv', EventInv, NotifierNext, OnlyNotifier, GoneStaysGone, KnownStays
  PROVE  EventInv'
<1> PICK n \in Notifiers : NotifierStep(n) \/ NotifierTrouble(n)
  BY DEF NotifierNext
<1>a. /\ notifierPc \in [Notifiers -> NotifierPc]
      /\ notifierEvent \in [Notifiers -> Event \cup {NoEvent}]
      /\ eventLease \in [Notifiers -> Event \cup {NoEvent}]
      /\ delivered \in [AssetId -> [EventKind -> Nat]]
      /\ notices \in [AssetId -> [EventKind -> {"none", "recorded", "sent"}]]
      /\ events \in [Event -> Nat] /\ deadEvents \in [Event -> Nat]
  BY DEF TypeInv, NotifierInv, NotifierTypeOK, EventsTypeOK, DatabaseTypeOK
<1>b. notifierPc[n] # "idle" =>
        /\ notifierEvent[n] \in Event /\ Subject(n) \in AssetId /\ Kind(n) \in EventKind
        /\ Known(Subject(n)) /\ (Exists(Subject(n)) \/ Gone(Subject(n)))
  BY DEF TypeInv, NotifierInv, DatabaseTypeOK, Row, Event, Subject, Kind, EventInv, HandlerInv,
     HandlerOK, Known, Gone, Exists
<1>c. UNCHANGED workerVars /\ UNCHANGED assets
  BY DEF OnlyNotifier, dbVars, NotifierStep, NotifierTrouble, ReceiveEvent, FindOwner, Record,
     Send, MarkSent, NotifierRetryOrGiveUp, NotifierRepublish, NotifierAck, NotifierNack,
     NotifierBreak, NotifierLoseConnection, CrashNotifier
<1>d. eventLease[n] = NoEvent \/ (eventLease[n] = notifierEvent[n] /\ notifierPc[n] # "idle")
  BY DEF EventInv, HandlerInv, HandlerOK
<1>e. \A a \in AssetId, e \in EventKind : notices[a][e] = "sent" => delivered[a][e] > 0
  BY DEF EventInv, SentWasDelivered
<1>1. CASE ReceiveEvent(n)
  <2>1. PICK m \in Event : /\ DeliverEvent(n, m)
                           /\ notifierEvent' = [notifierEvent EXCEPT ![n] = m]
    BY <1>1 DEF ReceiveEvent
  <2>2. /\ notifierPc[n] = "idle" /\ notifierPc' = [notifierPc EXCEPT ![n] = "findOwner"]
        /\ UNCHANGED <<delivered, notices, deadEvents, announced>>
    BY <1>1, <2>1 DEF ReceiveEvent, DeliverEvent, dbVars
  <2>3. /\ events[m] > 0 /\ eventLease' = [eventLease EXCEPT ![n] = m]
        /\ \A x \in Event : events'[x] = IF x = m THEN events[x] - 1 ELSE events[x]
    BY <1>a, <2>1 DEF DeliverEvent, Take
  <2>4. \A a : (Gone(a)' <=> Gone(a)) /\ (Known(a)' <=> Known(a))
    BY <1>c DEF Gone, Known
  <2>5. AnnouncersKnown' /\ SentWasDelivered'
    BY <1>c, <2>2
    DEF EventInv, AnnouncersKnown, SentWasDelivered, Known, Asset, workerVars
  <2>6. EventsKnown'
    BY <1>a, <2>3, <2>4 DEF EventInv, EventsKnown, Known
  <2>7. HandlerInv'
    <3> SUFFICES ASSUME NEW k \in Notifiers
                 PROVE  HandlerOK(k)'
      BY DEF HandlerInv
    <3>1. CASE k = n
      <4>1. Known(m.asset)
        BY <2>3 DEF EventInv, EventsKnown
      <4> QED
        BY <1>a, <1>c, <2>1, <2>2, <2>3, <3>1, <4>1 DEF HandlerOK, Known, Subject
    <3>2. CASE k # n
      <4>1. /\ notifierPc'[k] = notifierPc[k] /\ notifierEvent'[k] = notifierEvent[k]
            /\ eventLease'[k] = eventLease[k] /\ Subject(k)' = Subject(k) /\ Kind(k)' = Kind(k)
        BY <1>a, <2>1, <2>2, <2>3, <3>2 DEF Subject, Kind
      <4>2. /\ Known(Subject(k))' <=> Known(Subject(k))
            /\ Gone(Subject(k))' <=> Gone(Subject(k))
        BY <2>4, <4>1 DEF Known, Gone
      <4> QED
        BY <2>2, <4>1, <4>2 DEF EventInv, HandlerInv, HandlerOK
    <3> QED
      BY <3>1, <3>2
  <2>8. Heard'
    <3> SUFFICES ASSUME NEW p \in announced
                 PROVE  Gone(p[1])' \/ notices'[p[1]][p[2]] = "sent" \/ Waiting(p[1], p[2])'
                          \/ InHand(p[1], p[2])'
      BY <2>2 DEF Heard
    <3>1. CASE Gone(p[1]) \/ notices[p[1]][p[2]] = "sent"
      BY <2>2, <2>4, <3>1
    <3>2. ASSUME NEW x \in Event, x.asset = p[1], x.kind = p[2], events[x] + deadEvents[x] > 0
          PROVE  Waiting(p[1], p[2])' \/ InHand(p[1], p[2])'
      <4>1. CASE x = m
        <5>1. eventLease'[n].asset = p[1] /\ eventLease'[n].kind = p[2]
          BY <1>a, <2>3, <3>2, <4>1
        <5> QED
          BY <5>1 DEF InHand
      <4>2. CASE x # m
        BY <1>a, <2>2, <2>3, <3>2, <4>2 DEF Waiting
      <4> QED
        BY <4>1, <4>2
    <3>3. ASSUME NEW k \in Notifiers, eventLease[k].asset = p[1], eventLease[k].kind = p[2]
          PROVE  InHand(p[1], p[2])'
      <4>1. p[1] \in AssetId /\ eventLease[n] = NoEvent
        BY <1>d, <2>2 DEF TypeInv, EventsTypeOK
      <4>2. k # n
        BY <3>3, <4>1, BrokerAssumption DEF NoEvent
      <4> QED
        BY <1>a, <2>3, <3>3, <4>2 DEF InHand
    <3> QED
      BY <3>1, <3>2, <3>3 DEF EventInv, Heard, Waiting, InHand
  <2> QED
    BY <2>5, <2>6, <2>7, <2>8 DEF EventInv
<1>2. CASE FindOwner(n)
  <2>1. HandlerMoves(n) /\ UNCHANGED <<notices, delivered>>
    BY <1>2, <1>a DEF FindOwner, Proceed, HandlerMoves, dbVars, eventVars
  <2>2. \/ notifierPc'[n] = "record"
        \/ notifierPc'[n] = "ack" /\ Gone(Subject(n))
    BY <1>2, <1>a, <1>b DEF FindOwner, Proceed
  <2> QED
    BY <1>a, <1>c, <2>1, <2>2, MovesKeepEvents
<1>3. CASE Record(n)
  <2>1. HandlerMoves(n) /\ UNCHANGED delivered
    BY <1>3, <1>a DEF Record, Proceed, HandlerMoves, eventVars
  <2>2. \/ /\ notices' = [notices EXCEPT ![Subject(n)][Kind(n)] = IF @ = "none" THEN "recorded" ELSE @]
           /\ notifierPc'[n] = IF notices[Subject(n)][Kind(n)] = "sent" THEN "ack" ELSE "send"
        \/ UNCHANGED notices /\ notifierPc'[n] = "retryOrGiveUp"
    BY <1>3, <1>a DEF Record, Proceed, RecordNotice
  <2>3. /\ \A a \in AssetId, e \in EventKind :
             notices'[a][e] = notices[a][e] \/ (notices[a][e] = "none" /\ notices'[a][e] = "recorded")
        /\ notifierPc'[n] \in {"ack", "send"} => notices'[Subject(n)][Kind(n)] # "none"
        /\ notifierPc'[n] = "ack" => notices'[Subject(n)][Kind(n)] = "sent"
    BY <1>3, <1>a, <1>b, <2>2 DEF Record
  <2>4. notifierPc'[n] \in {"retryOrGiveUp", "ack", "send"}
    BY <2>2
  <2> QED
    BY <1>a, <1>c, <2>1, <2>3, <2>4, MovesKeepEvents
<1>4. CASE Send(n)
  <2>1. HandlerMoves(n) /\ UNCHANGED notices
    BY <1>4, <1>a DEF Send, Proceed, HandlerMoves, eventVars, dbVars
  <2>2. /\ delivered' = delivered
           \/ delivered' = [delivered EXCEPT ![Subject(n)][Kind(n)] = @ + 1]
        /\ \/ notifierPc'[n] = "retryOrGiveUp"
           \/ /\ notifierPc'[n] = "markSent"
              /\ delivered' = [delivered EXCEPT ![Subject(n)][Kind(n)] = @ + 1]
    BY <1>4, <1>a DEF Send, Proceed
  <2>3. Gone(Subject(n)) \/ notices'[Subject(n)][Kind(n)] # "none"
    BY <1>4, <2>1 DEF Send, EventInv, HandlerInv, HandlerOK
  <2>4. /\ \A a \in AssetId, e \in EventKind : delivered'[a][e] >= delivered[a][e]
        /\ notifierPc'[n] = "markSent" => delivered'[Subject(n)][Kind(n)] > 0
    BY <1>4, <1>a, <1>b, <2>2 DEF Send
  <2> QED
    BY <1>a, <1>c, <2>1, <2>2, <2>3, <2>4, MovesKeepEvents
<1>5. CASE MarkSent(n) \/ NotifierBreak(n)
  <2>1. HandlerMoves(n) /\ UNCHANGED delivered
    BY <1>5, <1>a DEF MarkSent, NotifierBreak, Proceed, HandlerMoves, eventVars
  <2>2. \/ UNCHANGED notices /\ notifierPc'[n] = "retryOrGiveUp"
        \/ /\ notices' = [notices EXCEPT ![Subject(n)][Kind(n)] = IF @ = "none" THEN "recorded" ELSE @]
           /\ notifierPc'[n] = "retryOrGiveUp"
        \/ /\ notices' = [notices EXCEPT ![Subject(n)][Kind(n)] = IF @ = "recorded" THEN "sent" ELSE @]
           /\ notifierPc[n] = "markSent"
           /\ notifierPc'[n] \in {"ack", "retryOrGiveUp"}
    BY <1>5, <1>a DEF MarkSent, NotifierBreak, Proceed, RecordNotice, SetSent
  <2>3. notifierPc[n] = "markSent" => /\ delivered[Subject(n)][Kind(n)] > 0
                                      /\ Gone(Subject(n)) \/ notices[Subject(n)][Kind(n)] # "none"
    BY DEF EventInv, HandlerInv, HandlerOK
  <2>4. notifierPc[n] # "idle"
    BY <1>5 DEF MarkSent, NotifierBreak
  <2>5. \A a \in AssetId, e \in EventKind :
          \/ notices'[a][e] = notices[a][e]
          \/ notices[a][e] = "none" /\ notices'[a][e] = "recorded"
          \/ notices[a][e] = "recorded" /\ notices'[a][e] = "sent" /\ delivered[a][e] > 0
    BY <1>a, <1>b, <2>2, <2>3, <2>4
  <2>6. notifierPc'[n] = "ack" =>
          Gone(Subject(n)) \/ notices'[Subject(n)][Kind(n)] = "sent"
    BY <1>a, <1>b, <2>2, <2>3, <2>4
  <2>7. notifierPc'[n] \in {"ack", "retryOrGiveUp"}
    BY <2>2
  <2> QED
    BY <1>a, <1>c, <1>e, <2>1, <2>5, <2>6, <2>7, MovesKeepEvents
<1>6. CASE NotifierRetryOrGiveUp(n)
  <2>1. HandlerMoves(n) /\ UNCHANGED <<notices, delivered>>
    BY <1>6, <1>a DEF NotifierRetryOrGiveUp, Proceed, HandlerMoves, eventVars, dbVars
  <2>2. \/ notifierPc'[n] = "nack"
        \/ notifierPc'[n] = "republish" /\ notifierEvent[n].attempt < MaxEventAttempts
    BY <1>6, <1>a, <1>b, BrokerAssumption DEF NotifierRetryOrGiveUp, Proceed, Event
  <2> QED
    BY <1>a, <1>c, <2>1, <2>2, MovesKeepEvents
<1>7. CASE NotifierRepublish(n)
  <2>1. /\ Rest(n) /\ UNCHANGED <<delivered, notices, assets>>
        /\ notifierPc[n] = "republish" /\ notifierEvent[n].attempt < MaxEventAttempts
    BY <1>7 DEF NotifierRepublish, dbVars, EventInv, HandlerInv, HandlerOK
  <2> DEFINE next == [notifierEvent[n] EXCEPT !.attempt = @ + 1]
  <2>2. next \in Event /\ next.asset = Subject(n) /\ next.kind = Kind(n)
    BY <1>b, <2>1, BrokerAssumption DEF Event, Subject, Kind
  <2>3. CASE eventLease[n] # NoEvent /\ ReplaceEvent(n, next)
    <3>1. /\ \A m \in Event : events'[m] = IF m = next THEN events[m] + 1 ELSE events[m]
          /\ UNCHANGED <<deadEvents, announced>>
          /\ eventLease' = [eventLease EXCEPT ![n] = NoEvent]
      BY <1>a, <2>2, <2>3 DEF ReplaceEvent, Put
    <3> HIDE DEF next
    <3>2. /\ \A m \in Event : /\ events'[m] + deadEvents'[m] >= events[m] + deadEvents[m]
                              /\ events'[m] > 0 => events[m] > 0 \/ m.asset = Subject(n)
          /\ events'[next] + deadEvents'[next] > 0
      BY <1>a, <2>2, <3>1
    <3>3. UNCHANGED announced /\ eventLease' = [eventLease EXCEPT ![n] = NoEvent]
      BY <3>1
    <3>4. \E m \in Event : m.asset = Subject(n) /\ m.kind = Kind(n) /\ events'[m] + deadEvents'[m] > 0
      BY <2>2, <3>2
    <3>5. HandlerRests(n)
      BY <2>1, <3>2, <3>3, <3>4 DEF HandlerRests
    <3> QED
      BY <1>c, <2>1, <3>5, RestKeepsEvents
  <2>4. CASE eventLease[n] = NoEvent /\ UNCHANGED eventVars
    <3>1. HandlerRests(n)
      BY <1>a, <2>1, <2>4 DEF HandlerRests, eventVars
    <3> QED
      BY <1>c, <2>1, <3>1, RestKeepsEvents
  <2>5. ASSUME NEW copies \in {0, 1}, RequeueEvent(n, next, copies) PROVE EventInv'
    <3>1. HandlerRests(n)
      BY <1>a, <1>b, <1>d, <2>1, <2>2, <2>5, Requeued
    <3> QED
      BY <1>c, <2>1, <3>1, RestKeepsEvents
  <2> QED
    BY <1>7, <2>3, <2>4, <2>5 DEF NotifierRepublish
<1>8. CASE NotifierAck(n)
  <2>1. HandlerRests(n)
    BY <1>8, <1>a DEF NotifierAck, AckEvent, HandlerRests, dbVars, EventInv, HandlerInv, HandlerOK
  <2> QED
    BY <1>8, <1>c, <2>1, RestKeepsEvents DEF NotifierAck
<1>9. CASE NotifierNack(n)
  <2>1. /\ notifierPc[n] = "nack" /\ Rest(n) /\ UNCHANGED <<delivered, notices, events, announced>>
        /\ eventLease' = [eventLease EXCEPT ![n] = NoEvent]
    BY <1>9 DEF NotifierNack, NackEvent, dbVars
  <2>2. CASE eventLease[n] = NoEvent
    <3>1. HandlerRests(n)
      BY <1>9, <1>a, <1>c, <2>1, <2>2 DEF NotifierNack, NackEvent, HandlerRests
    <3> QED
      BY <1>c, <2>1, <3>1, RestKeepsEvents
  <2>3. CASE eventLease[n] # NoEvent
    <3> DEFINE m == eventLease[n]
    <3>1. m = notifierEvent[n] /\ m \in Event /\ m.asset = Subject(n) /\ m.kind = Kind(n)
      BY <1>b, <1>d, <2>3 DEF Subject, Kind
    <3>2. \A x \in Event : deadEvents'[x] = IF x = m THEN deadEvents[x] + 1 ELSE deadEvents[x]
      BY <1>9, <1>a, <2>3, <3>1 DEF NotifierNack, NackEvent, Put
    <3>3. HandlerRests(n)
      BY <1>a, <1>c, <2>1, <3>1, <3>2 DEF HandlerRests
    <3> QED
      BY <1>c, <2>1, <3>3, RestKeepsEvents
  <2> QED
    BY <2>2, <2>3
<1>10. CASE NotifierLoseConnection(n) \/ CrashNotifier(n)
  <2>1. /\ notifierPc[n] # "idle" /\ RequeueEvent(n, NoEvent, 0)
        /\ Rest(n) \/ UNCHANGED <<notifierPc, notifierEvent>>
        /\ UNCHANGED <<delivered, notices>>
    BY <1>10, <1>d DEF NotifierLoseConnection, CrashNotifier, notifierVars, dbVars
  <2>2. HandlerRests(n)
    BY <1>a, <1>b, <1>c, <1>d, <2>1, Requeued
  <2> QED
    BY <1>c, <2>1, <2>2, RestKeepsEvents
<1> QED
  BY <1>1, <1>2, <1>3, <1>4, <1>5, <1>6, <1>7, <1>8, <1>9, <1>10 DEF NotifierStep, NotifierTrouble

-----------------------------------------------------------------------------
(* Where images and events end. *)

DeliveryInv == SafetyInv /\ RequestsKnown /\ EventInv

LEMMA DeliveryAlways == Spec => []DeliveryInv
<1>1. Init => DeliveryInv
  <2> SUFFICES ASSUME Init PROVE DeliveryInv
    OBVIOUS
  <2>1. RequestsKnown /\ AnnouncersKnown
    BY DEF Init, ApiInit, RequestsKnown, WorkerInit, AnnouncersKnown
  <2>2. EventsKnown /\ Heard /\ SentWasDelivered
    BY DEF Init, EmptyQueue, EventsKnown, Heard, SentWasDelivered
  <2>3. HandlerInv
    BY DEF Init, NotifierInit, HandlerInv, HandlerOK
  <2> QED
    BY <2>1, <2>2, <2>3, SafetyInit DEF DeliveryInv, EventInv
<1>2. DeliveryInv /\ [Next]_vars => DeliveryInv'
  <2> SUFFICES ASSUME DeliveryInv, [Next]_vars PROVE DeliveryInv'
    OBVIOUS
  <2>1. TypeInv /\ TypeInv' /\ GoneStaysGone /\ SafetyInv'
    BY SafetyStep DEF DeliveryInv, SafetyInv
  <2>2. RequestsKnown' /\ KnownStays
    BY <2>1, RequestsKnownStep DEF DeliveryInv
  <2>3. EventInv'
    BY <2>1, <2>2, WorkerEvents, OtherEvents, NotifierEvents DEF DeliveryInv, Next
  <2> QED
    BY <2>1, <2>2, <2>3 DEF DeliveryInv
<1> QED
  BY <1>1, <1>2, PTL DEF Spec

\* A notice marked sent was taken by the channel, whatever crashed, was repeated
\* or came twice.
THEOREM SentAlwaysDelivered == Spec => []SentWasDelivered
<1>1. DeliveryInv => SentWasDelivered
  BY DEF DeliveryInv, EventInv
<1> QED
  BY <1>1, DeliveryAlways, PTL

\* An event the broker has taken is in a queue, in a notifier's hands, or its
\* notice is sent, as long as the image is there.
THEOREM NobodyIsForgotten == Spec => []NeverSilent
<1>1. DeliveryInv => NeverSilent
  <2> SUFFICES ASSUME DeliveryInv, NEW p \in announced, Exists(p[1]),
                      notices[p[1]][p[2]] # "sent"
               PROVE  \/ \E m \in Event : m.asset = p[1] /\ m.kind = p[2]
                                        /\ events[m] + deadEvents[m] > 0
                      \/ \E n \in Notifiers : eventLease[n].asset = p[1]
                                            /\ eventLease[n].kind = p[2]
    BY DEF NeverSilent
  <2> QED
    BY DEF DeliveryInv, EventInv, Heard, Waiting, InHand, Exists, Gone, Status
<1> QED
  BY <1>1, DeliveryAlways, PTL

-----------------------------------------------------------------------------
(* Jobs.  Where a message goes from a worker's hands. *)

\* A worker holds the message it works on, if any; it republishes below the maximum
\* and announces a success when it has confirmed.
HandInv ==
  \A w \in Workers :
    /\ jobLease[w] = NoJob \/ (jobLease[w] = workerJob[w] /\ workerPc[w] # "idle")
    /\ workerPc[w] = "republish" => workerJob[w].attempt < MaxAttempts
    /\ workerPc[w] = "announce" => jobLease[w] = NoJob

\* Messages stay in the queue and among the dead letters.
JobsStay ==
  \A j \in Job : /\ jobs[j] > 0 => jobs'[j] > 0
                 /\ deadJobs[j] > 0 => deadJobs'[j] > 0

LEMMA PublishedJobs ==
  ASSUME JobsTypeOK, NEW a \in AssetId, NEW k \in 1 .. MaxAttempts, NEW n \in Nat,
         PublishJob(a, k, n)
  PROVE  JobsStay /\ (n > 0 => Queued(a)') /\ UNCHANGED jobLease
<1> DEFINE new == [asset |-> a, attempt |-> k]
<1>1. new \in Job /\ new.asset = a
  BY DEF Job
<1>2. \A j \in Job : jobs'[j] = IF j = new THEN jobs[j] + n ELSE jobs[j]
  BY <1>1 DEF JobsTypeOK, PublishJob, Put
<1>3. /\ \A j \in Job : jobs[j] > 0 => jobs'[j] > 0
      /\ n > 0 => jobs'[new] > 0
  BY <1>1, <1>2 DEF JobsTypeOK
<1> QED
  BY <1>1, <1>3 DEF JobsStay, Queued, PublishJob

LEMMA SettledJobs ==
  ASSUME JobsTypeOK, NEW w \in Workers
  PROVE  /\ AckJob(w) => JobsStay
         /\ NackJob(w) =>
              JobsStay /\ \A a \in AssetId : jobLease[w].asset = a => DeadLettered(a)'
         /\ \A m, n : n \in Nat /\ (n > 0 => m \in Job) /\ RequeueJob(w, m, n) =>
              JobsStay /\ \A a \in AssetId : jobLease[w].asset = a => Queued(a)'
<1> DEFINE held == jobLease[w]
<1>a. held \in Job \cup {NoJob} /\ jobs \in [Job -> Nat] /\ deadJobs \in [Job -> Nat]
  BY DEF JobsTypeOK
<1>b. NoJob.asset \notin AssetId
  BY BrokerAssumption DEF NoJob
<1>1. ASSUME AckJob(w) PROVE JobsStay
  BY <1>1 DEF AckJob, JobsStay
<1>2. ASSUME NackJob(w)
      PROVE  JobsStay /\ \A a \in AssetId : held.asset = a => DeadLettered(a)'
  <2>1. CASE held = NoJob
    BY <1>2, <1>b, <2>1 DEF NackJob, JobsStay
  <2>2. CASE held # NoJob
    <3>1. \A j \in Job : deadJobs'[j] = IF j = held THEN deadJobs[j] + 1 ELSE deadJobs[j]
      BY <1>2, <1>a, <2>2 DEF NackJob, Put
    <3>2. /\ \A j \in Job : deadJobs[j] > 0 => deadJobs'[j] > 0
          /\ deadJobs'[held] > 0 /\ jobs' = jobs
      BY <1>2, <1>a, <2>2, <3>1 DEF NackJob
    <3>3. \A a \in AssetId : held.asset = a => \E j \in Job : j.asset = a /\ deadJobs'[j] > 0
      BY <1>a, <2>2, <3>2
    <3> QED
      BY <3>2, <3>3 DEF JobsStay, DeadLettered
  <2> QED
    BY <2>1, <2>2
<1>3. ASSUME NEW m, NEW n \in Nat, n > 0 => m \in Job, RequeueJob(w, m, n)
      PROVE  JobsStay /\ \A a \in AssetId : held.asset = a => Queued(a)'
  <2> DEFINE q == IF n = 0 THEN jobs ELSE Put(jobs, m, n)
  <2>1. q \in [Job -> Nat]
    BY <1>a, PutTypes
  <2>2. \A j \in Job : jobs[j] > 0 => q[j] > 0
    BY <1>a DEF Put
  <2>3. jobs' = (IF held = NoJob THEN q ELSE Put(q, held, 1)) /\ UNCHANGED deadJobs
    BY <1>3 DEF RequeueJob
  <2> HIDE DEF q
  <2>4. CASE held = NoJob
    BY <1>b, <2>2, <2>3, <2>4 DEF JobsStay
  <2>5. CASE held # NoJob
    <3>1. \A j \in Job : jobs'[j] = IF j = held THEN q[j] + 1 ELSE q[j]
      BY <1>a, <2>1, <2>3, <2>5 DEF Put
    <3>2. (\A j \in Job : jobs[j] > 0 => jobs'[j] > 0) /\ jobs'[held] > 0
      BY <1>a, <2>1, <2>2, <2>5, <3>1
    <3>3. \A a \in AssetId : held.asset = a => \E j \in Job : j.asset = a /\ jobs'[j] > 0
      BY <1>a, <2>5, <3>2
    <3> QED
      BY <2>3, <3>2, <3>3 DEF JobsStay, Queued
  <2> QED
    BY <2>4, <2>5
<1> QED
  BY <1>1, <1>2, <1>3

\* What happens in one step to the message about a that worker w holds.
Flow(w, a) ==
  \/ Queued(a)' \/ DeadLettered(a)'
  \/ workerPc[w] \in {"confirm", "ack"}
  \/ /\ jobLease'[w] = jobLease[w]
     /\ \/ workerPc[w] = "claim" /\ workerPc'[w] = "download" /\ assets'[a].status = "PROCESSING"
        \/ workerPc[w] = "claim" /\ ~Claimable(a)
        \/ workerPc[w] \in Processing /\ workerPc'[w] = "retryOrGiveUp"
        \/ workerPc[w] = "download" /\ workerPc'[w] = "upload"
        \/ workerPc[w] = "download" /\ originals[a] # "valid" /\ workerPc'[w] = "fail"
        \/ workerPc[w] \in {"upload", "document"} /\ workerPc'[w] \in {"upload", "document", "commit"}
        \/ workerPc[w] = "commit" /\ assets'[a].status = "DONE"
        \/ workerPc[w] = "retryOrGiveUp" /\ workerPc'[w] = "republish"
        \/ workerPc[w] = "retryOrGiveUp" /\ workerPc'[w] = "fail" /\ settlement'[w] = "nack"
        \/ workerPc[w] = "republish" /\ workerPc'[w] = "nack"
        \/ workerPc[w] = "fail" /\ ~Claimable(a)'
        \/ workerPc[w] = "fail" /\ workerPc'[w] = settlement[w] /\ "database" \in FaultKinds
        \/ workerPc[w] = "announceFailure"

\* A step of worker w: the others stand still, a message it takes is in its hands,
\* what it holds goes on as Flow says, and no image is made to wait.
LEMMA WorkerFlow ==
  ASSUME TypeInv, HandInv, NEW w \in Workers, WorkerStep(w) \/ WorkerTrouble(w),
         NEW a \in AssetId
  PROVE  /\ \A v \in Workers \ {w} : /\ jobLease'[v] = jobLease[v] /\ workerPc'[v] = workerPc[v]
                                     /\ workerJob'[v] = workerJob[v]
                                     /\ settlement'[v] = settlement[v]
         /\ Queued(a) \/ DeadLettered(a) =>
              \/ Queued(a)' \/ DeadLettered(a)'
              \/ jobLease'[w].asset = a /\ workerPc'[w] = "claim"
         /\ jobLease[w].asset = a => Flow(w, a)
         /\ assets'[a] = assets[a] \/ assets'[a].status \in {"PROCESSING", "DONE", "FAILED"}
         /\ Claimable(a)' => Claimable(a) /\ assets'[a].submitted = assets[a].submitted
         /\ UNCHANGED originals
<1>a. /\ workerPc \in [Workers -> WorkerPc] /\ workerJob \in [Workers -> Job \cup {NoJob}]
      /\ settlement \in [Workers -> {"ack", "nack"}]
      /\ jobLease \in [Workers -> Job \cup {NoJob}] /\ JobsTypeOK
      /\ assets \in [AssetId -> Row]
  BY DEF TypeInv, WorkerInv, WorkerTypeOK, JobsTypeOK, DatabaseTypeOK
<1>b. jobLease[w].asset = a => jobLease[w] # NoJob /\ Asset(w) = a /\ workerPc[w] # "idle"
  BY BrokerAssumption DEF HandInv, NoJob, Asset
<1>c. workerPc[w] # "idle" => workerJob[w] \in Job /\ Asset(w) \in AssetId
  BY DEF TypeInv, WorkerInv, Asset, Job
<1>d. JobsStay => (Queued(a) \/ DeadLettered(a) => Queued(a)' \/ DeadLettered(a)')
  BY DEF JobsStay, Queued, DeadLettered
<1>1. CASE ReceiveJob(w)
  <2>1. PICK j \in Job : DeliverJob(w, j)
    BY <1>1 DEF ReceiveJob
  <2>2. \A x \in Job : jobs'[x] = IF x = j THEN jobs[x] - 1 ELSE jobs[x]
    BY <1>a, <2>1 DEF DeliverJob, Take, JobsTypeOK
  <2>3. jobLease'[w] = j /\ workerPc'[w] = "claim" /\ deadJobs' = deadJobs /\ workerPc[w] = "idle"
    BY <1>1, <1>a, <2>1 DEF ReceiveJob, DeliverJob
  <2>4. Queued(a) \/ DeadLettered(a) =>
              \/ Queued(a)' \/ DeadLettered(a)'
              \/ jobLease'[w].asset = a /\ workerPc'[w] = "claim"
    BY <2>2, <2>3 DEF Queued, DeadLettered
  <2> QED
    BY <1>1, <1>a, <1>b, <2>1, <2>3, <2>4
    DEF ReceiveJob, DeliverJob, dbVars, storeVars, Claimable
<1>2. CASE Claim(w) \/ Break(w) \/ CommitUnanswered(w)
  <2>1. JobsStay /\ UNCHANGED jobLease
    BY <1>2 DEF Claim, Break, CommitUnanswered, jobVars, JobsStay
  <2>2. /\ \A b \in AssetId : b # Asset(w) => assets'[b] = assets[b]
        /\ \/ assets'[Asset(w)] = assets[Asset(w)]
           \/ /\ Claimable(Asset(w)) /\ workerPc[w] = "claim"
              /\ assets'[Asset(w)] = [assets[Asset(w)] EXCEPT !.status = "PROCESSING"]
           \/ assets'[Asset(w)].status = "DONE"
    BY <1>2, <1>a, <1>c DEF Claim, Break, CommitUnanswered, Finish, SaveVariants, SetProcessing,
       SetDone, Update, dbVars, Processing, Row
  <2>3. \/ workerPc[w] \in Processing /\ workerPc'[w] = "retryOrGiveUp"
        \/ /\ workerPc[w] = "claim" /\ workerPc'[w] = "download" /\ Claimable(Asset(w))
           /\ SetProcessing(Asset(w))
        \/ workerPc[w] = "claim" /\ ~Claimable(Asset(w))
    BY <1>2, <1>a DEF Claim, Break, CommitUnanswered, Goto, Processing
  <2>4. Claimable(Asset(w)) /\ SetProcessing(Asset(w)) /\ Asset(w) \in AssetId =>
          assets'[Asset(w)].status = "PROCESSING"
    BY <1>a DEF Claimable, SetProcessing, Update, Exists, Status, Row
  <2>5. jobLease[w].asset = a => Flow(w, a)
    BY <1>b, <1>c, <2>1, <2>3, <2>4 DEF Flow
  <2>6. /\ assets'[a] = assets[a] \/ assets'[a].status \in {"PROCESSING", "DONE", "FAILED"}
        /\ Claimable(a)' => Claimable(a) /\ assets'[a].submitted = assets[a].submitted
    BY <1>a, <2>2 DEF Claimable, Row
  <2> QED
    BY <1>2, <1>a, <1>d, <2>1, <2>5, <2>6
    DEF Claim, Break, CommitUnanswered, Goto, storeVars
<1>3. CASE Download(w) \/ Upload(w) \/ SaveDocument(w) \/ RetryOrGiveUp(w) \/ AnnounceFailure(w)
  <2>1. JobsStay /\ UNCHANGED <<jobLease, assets, originals>>
    BY <1>3 DEF Download, Upload, SaveDocument, RetryOrGiveUp, AnnounceFailure, jobVars, dbVars,
       storeVars, JobsStay
  <2>2. jobLease[w].asset = a => Flow(w, a)
    BY <1>3, <1>a, <1>b, <2>1
    DEF Download, Upload, SaveDocument, RetryOrGiveUp, AnnounceFailure, Goto, Flow
  <2> QED
    BY <1>3, <1>a, <1>d, <2>1, <2>2
    DEF Download, Upload, SaveDocument, RetryOrGiveUp, AnnounceFailure, Goto, Claimable
<1>4. CASE Commit(w) \/ Fail(w)
  <2>1. JobsStay /\ UNCHANGED <<jobLease, originals>>
    BY <1>4 DEF Commit, Fail, jobVars, storeVars, JobsStay
  <2>2. /\ \A b \in AssetId : b # Asset(w) => assets'[b] = assets[b]
        /\ \/ assets'[Asset(w)] = assets[Asset(w)]
           \/ assets'[Asset(w)].status \in {"DONE", "FAILED"}
    BY <1>4, <1>a, <1>c DEF Commit, Fail, Finish, SetDone, SetFailed, Update, Row
  <2>3. \/ workerPc[w] = "commit" /\ workerPc'[w] = "retryOrGiveUp"
        \/ workerPc[w] = "commit" /\ assets'[Asset(w)].status = "DONE"
        \/ workerPc[w] = "fail" /\ assets'[Asset(w)].status \notin {"PENDING", "PROCESSING"}
        \/ workerPc[w] = "fail" /\ workerPc'[w] = settlement[w] /\ "database" \in FaultKinds
    <3>1. CASE Commit(w)
      BY <3>1, <1>a, <1>c DEF Commit, Finish, SaveVariants, SetDone, Update, Row, Goto
    <3>2. CASE Fail(w) /\ Exists(Asset(w)) /\ SetFailed(Asset(w))
      <4>1. assets'[Asset(w)].status = "FAILED"
        BY <3>2, <1>a, <1>c DEF Fail, SetFailed, Update, Row
      <4> QED
        BY <3>2, <4>1 DEF Fail
    <3>3. CASE Fail(w) /\ ~Exists(Asset(w))
      <4>1. assets'[Asset(w)].status = assets[Asset(w)].status
        BY <3>3 DEF Fail, SetFailed, Update
      <4> QED
        BY <3>3, <4>1 DEF Fail, Exists, Status
    <3>4. CASE Fail(w) /\ ~SetFailed(Asset(w))
      BY <3>4, <1>a DEF Fail, Goto, Fault
    <3> QED
      BY <1>4, <3>1, <3>2, <3>3, <3>4
  <2>4. jobLease[w].asset = a => Flow(w, a)
    BY <1>b, <2>1, <2>3 DEF Flow, Processing, Claimable
  <2>5. /\ assets'[a] = assets[a] \/ assets'[a].status \in {"PROCESSING", "DONE", "FAILED"}
        /\ Claimable(a)' => Claimable(a) /\ assets'[a].submitted = assets[a].submitted
    BY <2>2 DEF Claimable
  <2> QED
    BY <1>4, <1>a, <1>d, <2>1, <2>4, <2>5 DEF Commit, Fail, Goto
<1>5. CASE Confirm(w) \/ Ack(w) \/ Announce(w)
  <2>1. JobsStay /\ UNCHANGED <<assets, originals>>
    BY <1>5, <1>a, SettledJobs DEF Confirm, Ack, Announce, jobVars, dbVars, storeVars, JobsStay
  <2>2. jobLease[w].asset = a => Flow(w, a)
    <3>1. workerPc[w] = "announce" => jobLease[w] = NoJob
      BY DEF HandInv
    <3> QED
      BY <1>5, <1>b, <3>1 DEF Confirm, Ack, Announce, Flow
  <2>3. /\ \A v \in Workers \ {w} : /\ jobLease'[v] = jobLease[v] /\ workerPc'[v] = workerPc[v]
                                    /\ workerJob'[v] = workerJob[v]
                                    /\ settlement'[v] = settlement[v]
    BY <1>5, <1>a DEF Confirm, Ack, Announce, AckJob, jobVars, Goto, GoIdle
  <2> QED
    BY <1>d, <2>1, <2>2, <2>3 DEF Claimable
<1>6. CASE Nack(w) \/ LoseConnection(w) \/ CrashWorker(w)
  <2>1. JobsStay /\ (jobLease[w].asset = a => Queued(a)' \/ DeadLettered(a)')
    BY <1>6, <1>a, SettledJobs DEF Nack, LoseConnection, CrashWorker
  <2>2. UNCHANGED <<assets, originals>>
    BY <1>6 DEF Nack, LoseConnection, CrashWorker, dbVars, storeVars
  <2>3. /\ \A v \in Workers \ {w} : /\ jobLease'[v] = jobLease[v] /\ workerPc'[v] = workerPc[v]
                                    /\ workerJob'[v] = workerJob[v]
                                    /\ settlement'[v] = settlement[v]
    BY <1>6, <1>a DEF Nack, LoseConnection, CrashWorker, NackJob, RequeueJob, GoIdle, workerVars
  <2> QED
    BY <1>d, <2>1, <2>2, <2>3 DEF Claimable, Flow
<1>7. CASE Republish(w)
  <2>a. /\ workerPc[w] = "republish" /\ Asset(w) \in AssetId
        /\ workerJob[w].attempt + 1 \in 1 .. MaxAttempts
    BY <1>7, <1>c, BrokerAssumption DEF Republish, HandInv, Job
  <2> DEFINE next == [asset |-> Asset(w), attempt |-> workerJob[w].attempt + 1]
  <2>1. next \in Job
    BY <2>a DEF Job
  <2>2. UNCHANGED <<assets, originals>>
    BY <1>7 DEF Republish, dbVars, storeVars
  <2>3. CASE \E n \in {1, 2} : PublishJob(next.asset, next.attempt, n) /\ Goto(w, "ack")
    <3>1. PICK n \in {1, 2} : PublishJob(next.asset, next.attempt, n)
      BY <2>3
    <3>2. JobsStay /\ UNCHANGED jobLease /\ (Asset(w) = a => Queued(a)')
      BY <1>a, <2>a, <3>1, PublishedJobs
    <3> QED
      BY <1>a, <1>b, <1>d, <2>2, <2>3, <3>2 DEF Goto, Claimable, Flow
  <2>4. CASE \E n \in 0 .. 2 : RequeueJob(w, next, n) /\ GoIdle(w)
    <3>1. JobsStay /\ (jobLease[w].asset = a => Queued(a)')
      BY <1>a, <2>1, <2>4, SettledJobs
    <3>2. /\ \A v \in Workers \ {w} : /\ jobLease'[v] = jobLease[v] /\ workerPc'[v] = workerPc[v]
                                      /\ workerJob'[v] = workerJob[v]
                                      /\ settlement'[v] = settlement[v]
      BY <2>4, <1>a DEF RequeueJob, GoIdle
    <3> QED
      BY <1>d, <2>2, <3>1, <3>2 DEF Claimable, Flow
  <2>5. CASE \E n \in {0, 1} : PublishJob(next.asset, next.attempt, n) /\ Goto(w, "nack")
    <3>1. JobsStay /\ UNCHANGED jobLease
      BY <1>a, <2>a, <2>5, PublishedJobs
    <3> QED
      BY <1>a, <1>d, <2>a, <2>2, <2>5, <3>1 DEF Goto, Claimable, Flow
  <2> QED
    BY <1>7, <2>3, <2>4, <2>5 DEF Republish
<1> QED
  BY <1>1, <1>2, <1>3, <1>4, <1>5, <1>6, <1>7 DEF WorkerStep, WorkerTrouble

\* Only requests and workers send or take jobs.
LEMMA OthersKeepJobs == CleanupNext \/ NotifierNext \/ OutsideNext => UNCHANGED jobVars
<1>1. CleanupNext => UNCHANGED jobVars
  BY DEF CleanupNext, CleanupStep, CleanupSelect, CleanupFile, CleanupRows, CleanupCutShort
<1>2. ASSUME NEW n \in Notifiers, NotifierStep(n) \/ NotifierTrouble(n)
      PROVE  UNCHANGED jobVars
  BY <1>2 DEF NotifierStep, NotifierTrouble, ReceiveEvent, FindOwner, Record, Send, MarkSent,
     NotifierRetryOrGiveUp, NotifierRepublish, NotifierAck, NotifierNack, NotifierBreak,
     NotifierLoseConnection, CrashNotifier
<1>3. OutsideNext => UNCHANGED jobVars
  BY DEF OutsideNext, UploadFile, StaleTime, OldTime
<1> QED
  BY <1>1, <1>2, <1>3 DEF NotifierNext

LEMMA HandStep == TypeInv /\ HandInv /\ [Next]_vars => HandInv'
<1> SUFFICES ASSUME TypeInv, HandInv, [Next]_vars PROVE HandInv'
  OBVIOUS
<1>1. UNCHANGED <<workerVars, jobLease>> => HandInv'
  BY DEF HandInv, workerVars
<1>2. CASE WorkerNext
  <2> PICK w \in Workers : WorkerStep(w) \/ WorkerTrouble(w)
    BY <1>2 DEF WorkerNext
  <2>a. /\ workerPc \in [Workers -> WorkerPc] /\ workerJob \in [Workers -> Job \cup {NoJob}]
        /\ jobLease \in [Workers -> Job \cup {NoJob}]
        /\ settlement[w] \in {"ack", "nack"}
        /\ workerPc[w] # "idle" => workerJob[w] \in Job
    BY DEF TypeInv, WorkerInv, WorkerTypeOK, JobsTypeOK
  <2>0. ASSUME \A v \in Workers \ {w} : /\ jobLease'[v] = jobLease[v]
                                        /\ workerPc'[v] = workerPc[v]
                                        /\ workerJob'[v] = workerJob[v],
               \/ jobLease'[w] = NoJob
               \/ jobLease'[w] = workerJob'[w] /\ workerPc'[w] # "idle",
               workerPc'[w] = "republish" => workerJob'[w].attempt < MaxAttempts,
               workerPc'[w] = "announce" => jobLease'[w] = NoJob
        PROVE  HandInv'
    BY <2>0 DEF HandInv
  <2>b. /\ jobLease[w] = NoJob \/ (jobLease[w] = workerJob[w] /\ workerPc[w] # "idle")
        /\ workerPc[w] = "republish" => workerJob[w].attempt < MaxAttempts
        /\ workerPc[w] = "announce" => jobLease[w] = NoJob
    BY DEF HandInv
  <2>1. CASE ReceiveJob(w)
    BY <2>0, <2>1, <2>a DEF ReceiveJob, DeliverJob
  <2>2. CASE Claim(w) \/ Download(w) \/ Upload(w) \/ SaveDocument(w) \/ Commit(w) \/ Fail(w)
             \/ AnnounceFailure(w) \/ Break(w) \/ CommitUnanswered(w)
    BY <2>0, <2>2, <2>a, <2>b
    DEF Claim, Download, Upload, SaveDocument, Commit, Fail, AnnounceFailure, Break,
        CommitUnanswered, Goto, jobVars, Processing
  <2>3. CASE RetryOrGiveUp(w)
    BY <2>0, <2>3, <2>a, <2>b, BrokerAssumption DEF RetryOrGiveUp, jobVars, Job
  <2>4. CASE Confirm(w) \/ Ack(w) \/ Nack(w) \/ Announce(w) \/ CrashWorker(w)
    BY <2>0, <2>4, <2>a, <2>b
    DEF Confirm, Ack, Nack, Announce, CrashWorker, AckJob, NackJob, RequeueJob, Goto, GoIdle,
        jobVars
  <2>5. CASE LoseConnection(w)
    BY <2>0, <2>5, <2>a, <2>b DEF LoseConnection, RequeueJob, workerVars
  <2>6. CASE Republish(w)
    <3>1. \/ UNCHANGED jobLease /\ (Goto(w, "ack") \/ Goto(w, "nack"))
          \/ jobLease' = [jobLease EXCEPT ![w] = NoJob] /\ GoIdle(w)
      BY <2>6 DEF Republish, PublishJob, RequeueJob, jobVars
    <3> QED
      BY <2>0, <2>6, <2>a, <2>b, <3>1 DEF Goto, GoIdle, Republish
  <2> QED
    BY <2>1, <2>2, <2>3, <2>4, <2>5, <2>6 DEF WorkerStep, WorkerTrouble
<1>3. ASSUME ApiNext, OnlyApi PROVE UNCHANGED <<workerVars, jobLease>>
  <2>1. ASSUME NEW a \in AssetId, CreateAsset(a) PROVE UNCHANGED jobLease
    BY <2>1 DEF CreateAsset, jobVars
  <2>2. ASSUME NEW a \in AssetId, NEW r \in Requests,
               CompleteRead(r, a) \/ RetryRead(r, a) \/ DeleteRead(r, a)
        PROVE  UNCHANGED jobLease
    BY <2>2 DEF CompleteRead, RetryRead, DeleteRead, jobVars
  <2>3. ASSUME NEW r \in Requests, RequestStep(r) \/ CutShort(r) PROVE UNCHANGED jobLease
    BY <2>3 DEF jobVars, RequestStep, CutShort, CompleteHead, CompleteDrop, CompleteReject,
       CompleteClaim, CompletePublish, CompleteRelease, RetryHead, RetryClaim, RetryPublish,
       RetryRelease, DeleteKeys, DeleteRow, DeleteDerived, DeleteOriginal, DeleteDocument,
       Publish, PublishJob
  <2> QED
    BY <1>3, <2>1, <2>2, <2>3 DEF ApiNext, ClientCall, OnlyApi
<1>4. ASSUME \/ CleanupNext /\ OnlyCleanup
             \/ NotifierNext /\ OnlyNotifier
             \/ OutsideNext /\ OnlyOutside
             \/ UNCHANGED vars
      PROVE  UNCHANGED <<workerVars, jobVars>>
  BY <1>4, OthersKeepJobs DEF OnlyCleanup, OnlyNotifier, OnlyOutside, vars
<1> QED
  BY <1>1, <1>2, <1>3, <1>4 DEF Next, jobVars

-----------------------------------------------------------------------------
(* The promise of a 202, for requests served to their end. *)

\* Worker w holds a message about a that it will work on, send again or reject.
CarriesOn(w, a) ==
  /\ jobLease[w].asset = a
  /\ \/ workerPc[w] \in {"claim", "retryOrGiveUp", "republish", "nack"}
     \/ workerPc[w] = "fail" /\ settlement[w] = "nack"

\* Request r has claimed a, and will publish its job or release the claim.
Submits(r, a) ==
  /\ requestAsset[r] = a
  /\ requestPc[r] \in {"completePublish", "completeRelease", "retryPublish", "retryRelease"}

Promised(a) ==
  \/ Queued(a) \/ DeadLettered(a)
  \/ \E w \in Workers : CarriesOn(w, a)
  \/ \E r \in Requests : Submits(r, a)

Awaited(a) == assets[a].status = "PENDING" /\ assets[a].submitted # "no"

\* This step ends a request that has claimed a row and not published its job yet.
ClaimDropped == \E r \in Requests, a \in AssetId : Submits(r, a) /\ Exists(a) /\ CutShort(r)

PromiseInv == \A a \in AssetId : Awaited(a) => Promised(a)

LEMMA PromiseFrame ==
  ASSUME NEW a \in AssetId, Promised(a), UNCHANGED workerVars, UNCHANGED jobLease, JobsStay,
         \A r \in Requests : Submits(r, a) => Submits(r, a)'
  PROVE  Promised(a)'
BY DEF Promised, CarriesOn, JobsStay, Queued, DeadLettered, workerVars

LEMMA WorkerPromise == TypeInv /\ HandInv /\ PromiseInv /\ WorkerNext /\ OnlyWorker => PromiseInv'
<1> SUFFICES ASSUME TypeInv, HandInv, PromiseInv, WorkerNext, OnlyWorker,
                    NEW a \in AssetId, Awaited(a)'
             PROVE  Promised(a)'
  BY DEF PromiseInv
<1> PICK w \in Workers : WorkerStep(w) \/ WorkerTrouble(w)
  BY DEF WorkerNext
<1>1. assets'[a] = assets[a]
  BY WorkerFlow DEF Awaited
<1>2. Awaited(a) /\ Promised(a) /\ assets'[a].status = "PENDING" /\ Claimable(a)
  BY <1>1 DEF Awaited, PromiseInv, Claimable
<1>3. CASE Queued(a) \/ DeadLettered(a)
  BY <1>3, WorkerFlow DEF Promised, CarriesOn
<1>4. ASSUME NEW v \in Workers \ {w}, CarriesOn(v, a) PROVE Promised(a)'
  BY <1>4, WorkerFlow DEF Promised, CarriesOn
<1>5. CASE CarriesOn(w, a)
  <2>1. Flow(w, a)
    BY <1>5, WorkerFlow DEF CarriesOn
  <2>2. Queued(a)' \/ DeadLettered(a)' \/ CarriesOn(w, a)'
    BY <1>2, <1>5, <2>1 DEF Flow, CarriesOn, Claimable
  <2> QED
    BY <2>2 DEF Promised
<1>6. ASSUME NEW r \in Requests, Submits(r, a) PROVE Promised(a)'
  BY <1>6 DEF Promised, Submits, OnlyWorker, apiVars
<1> QED
  BY <1>2, <1>3, <1>4, <1>5, <1>6 DEF Promised

\* A request keeps the promises about the other images.
LEMMA RequestPromise ==
  ASSUME TypeInv, PromiseInv, NEW r \in Requests, NEW t \in AssetId, Target(r) = t,
         UNCHANGED workerVars, UNCHANGED jobLease, JobsStay,
         \A s \in Requests \ {r} : requestPc'[s] = requestPc[s] /\ requestAsset'[s] = requestAsset[s],
         \A b \in AssetId \ {t} : assets'[b] = assets[b],
         \/ Awaited(t)' => Promised(t)'
         \/ ~Submits(r, t) /\ assets'[t] = assets[t]
  PROVE  PromiseInv'
<1> SUFFICES ASSUME NEW a \in AssetId, Awaited(a)' PROVE Promised(a)'
  BY DEF PromiseInv
<1>0. ASSUME assets'[a] = assets[a], ~Submits(r, a) PROVE Promised(a)'
  <2>1. Promised(a)
    BY <1>0 DEF Awaited, PromiseInv
  <2>2. \A s \in Requests : Submits(s, a) => Submits(s, a)'
    BY <1>0 DEF Submits
  <2> QED
    BY <2>1, <2>2, PromiseFrame
<1>1. CASE a # t
  BY <1>0, <1>1 DEF Submits, Target
<1>2. CASE a = t /\ ~Submits(r, a) /\ assets'[a] = assets[a]
  BY <1>0, <1>2
<1>3. CASE a = t /\ (Awaited(t)' => Promised(t)')
  BY <1>3
<1> QED
  BY <1>1, <1>2, <1>3

LEMMA ApiPromise ==
  ASSUME ~ClaimDropped, TypeInv, PromiseInv, ApiNext, OnlyApi
  PROVE  PromiseInv'
<1>a. /\ requestPc \in [Requests -> RequestPc] /\ requestAsset \in [Requests -> AssetId \cup {NoAsset}]
      /\ \A r \in Requests : requestPc[r] # "idle" => Target(r) \in AssetId
      /\ assets \in [AssetId -> Row] /\ JobsTypeOK
  BY DEF TypeInv, RequestInv, ApiTypeOK, Target, DatabaseTypeOK
<1>b. UNCHANGED workerVars
  BY DEF OnlyApi
<1>c. UNCHANGED jobVars => UNCHANGED jobLease /\ JobsStay
  BY DEF jobVars, JobsStay
<1>1. ASSUME NEW a \in AssetId, CreateAsset(a) PROVE PromiseInv'
  <2> SUFFICES ASSUME NEW b \in AssetId, Awaited(b)' PROVE Promised(b)'
    BY DEF PromiseInv
  <2>1. /\ assets'[b] = IF b = a THEN NewRow ELSE assets[b]
        /\ UNCHANGED <<jobVars, requestPc, requestAsset>>
    BY <1>1, <1>a DEF CreateAsset, InsertAsset
  <2>2. Promised(b)
    BY <2>1 DEF Awaited, NewRow, PromiseInv
  <2> QED
    BY <1>b, <1>c, <2>1, <2>2, PromiseFrame DEF Submits
<1>2. ASSUME NEW a \in AssetId, NEW r \in Requests,
             CompleteRead(r, a) \/ RetryRead(r, a) \/ DeleteRead(r, a)
      PROVE  PromiseInv'
  <2> SUFFICES ASSUME NEW b \in AssetId, Awaited(b)' PROVE Promised(b)'
    BY DEF PromiseInv
  <2>1. UNCHANGED <<jobVars, assets>>
    BY <1>2 DEF CompleteRead, RetryRead, DeleteRead, dbVars
  <2>2. Promised(b)
    BY <2>1 DEF Awaited, PromiseInv
  <2>3. \A s \in Requests : Submits(s, b) => Submits(s, b)'
    BY <1>2, <1>a DEF CompleteRead, RetryRead, DeleteRead, Begin, Submits
  <2> QED
    BY <1>b, <1>c, <2>1, <2>2, <2>3, PromiseFrame
<1>3. ASSUME NEW r \in Requests, RequestStep(r) PROVE PromiseInv'
  <2>a. PICK t \in AssetId : Target(r) = t
    BY <1>3, <1>a DEF RequestStep, CompleteHead, CompleteDrop, CompleteReject, CompleteClaim,
       CompletePublish, CompleteRelease, RetryHead, RetryClaim, RetryPublish, RetryRelease,
       DeleteKeys, DeleteRow, DeleteDerived, DeleteOriginal, DeleteDocument
  <2>b. \A s \in Requests \ {r} : requestPc'[s] = requestPc[s] /\ requestAsset'[s] = requestAsset[s]
    BY <1>3, <1>a DEF GoOn, Respond, Publish, RequestStep, CompleteHead, CompleteDrop,
       CompleteReject, CompleteClaim, CompletePublish, CompleteRelease, RetryHead, RetryClaim,
       RetryPublish, RetryRelease, DeleteKeys, DeleteRow, DeleteDerived, DeleteOriginal,
       DeleteDocument
  <2>1. CASE CompleteHead(r) \/ CompleteDrop(r) \/ RetryHead(r) \/ DeleteKeys(r)
             \/ DeleteDerived(r) \/ DeleteOriginal(r) \/ DeleteDocument(r)
    <3>1. UNCHANGED <<assets, jobVars>> /\ ~Submits(r, t)
      BY <2>1 DEF CompleteHead, CompleteDrop, RetryHead, DeleteKeys, DeleteDerived,
         DeleteOriginal, DeleteDocument, dbVars, Submits
    <3> QED
      BY <1>b, <1>c, <2>a, <2>b, <3>1, RequestPromise
  <2>2. CASE DeleteRow(r) \/ CompleteReject(r) \/ CompleteRelease(r) \/ RetryRelease(r)
    <3>1. /\ \A b \in AssetId \ {t} : assets'[b] = assets[b]
          /\ ~Awaited(t)' /\ UNCHANGED jobVars
      <4>1. CASE DeleteRow(r)
        BY <2>a, <4>1 DEF DeleteRow, DeleteRows, NoRow, Awaited
      <4>2. CASE ~Exists(t) /\ ~DeleteRow(r)
        BY <1>a, <2>2, <2>a, <4>2 DEF CompleteReject, CompleteRelease, RetryRelease, SetFailed,
           SetUnsubmitted, SetRetryReleased, Update, Awaited, Exists, Status
      <4>3. CASE Exists(t) /\ ~DeleteRow(r)
        BY <1>a, <2>2, <2>a, <4>3 DEF CompleteReject, CompleteRelease, RetryRelease, SetFailed,
           SetUnsubmitted, SetRetryReleased, Update, Awaited, Row
      <4> QED
        BY <4>1, <4>2, <4>3
    <3> QED
      BY <1>b, <1>c, <2>a, <2>b, <3>1, RequestPromise
  <2>3. CASE CompleteClaim(r) \/ RetryClaim(r)
    <3>1. /\ \A b \in AssetId \ {t} : assets'[b] = assets[b]
          /\ UNCHANGED jobVars /\ ~Submits(r, t)
          /\ assets'[t] = assets[t] \/ Submits(r, t)'
      BY <1>a, <2>3, <2>a DEF CompleteClaim, RetryClaim, SetSubmitted, SetResubmitted, Update,
         GoOn, Respond, Submits, Target
    <3> QED
      BY <1>b, <1>c, <2>a, <2>b, <3>1, RequestPromise DEF Promised
  <2>4. CASE CompletePublish(r) \/ RetryPublish(r)
    <3>1. /\ UNCHANGED assets
          /\ Publish(r, "completeRelease") \/ Publish(r, "retryRelease")
      BY <2>4 DEF CompletePublish, RetryPublish, dbVars
    <3>2. PICK n \in 0 .. 2 :
            /\ PublishJob(t, 1, n)
            /\ n > 0 \/ GoOn(r, "completeRelease") \/ GoOn(r, "retryRelease")
      BY <3>1, <2>a DEF Publish
    <3>3. JobsStay /\ UNCHANGED jobLease /\ (n > 0 => Queued(t)')
      BY <1>a, <3>2, PublishedJobs, BrokerAssumption
    <3>4. GoOn(r, "completeRelease") \/ GoOn(r, "retryRelease") => Submits(r, t)'
      BY <1>a, <2>a DEF GoOn, Submits, Target
    <3>5. Promised(t)'
      BY <3>2, <3>3, <3>4 DEF Promised
    <3> QED
      BY <1>b, <2>a, <2>b, <3>1, <3>3, <3>5, RequestPromise
  <2> QED
    BY <1>3, <2>1, <2>2, <2>3, <2>4 DEF RequestStep
<1>4. ASSUME NEW r \in Requests, CutShort(r) PROVE PromiseInv'
  <2>a. PICK t \in AssetId : Target(r) = t
    BY <1>4, <1>a DEF CutShort
  <2>1. /\ UNCHANGED <<assets, jobVars>>
        /\ \A s \in Requests \ {r} : requestPc'[s] = requestPc[s] /\ requestAsset'[s] = requestAsset[s]
        /\ Exists(t) => ~Submits(r, t)
    BY <1>4, <1>a DEF CutShort, Respond, dbVars, ClaimDropped
  <2>2. ~Exists(t) => ~Awaited(t)'
    BY <2>1 DEF Awaited, Exists, Status
  <2> QED
    BY <1>b, <1>c, <2>a, <2>1, <2>2, RequestPromise
<1> QED
  BY <1>1, <1>2, <1>3, <1>4 DEF ApiNext, ClientCall

LEMMA OtherPromise ==
  ASSUME TypeInv, PromiseInv,
         \/ CleanupNext /\ OnlyCleanup
         \/ NotifierNext /\ OnlyNotifier
         \/ OutsideNext /\ OnlyOutside
         \/ UNCHANGED vars
  PROVE  PromiseInv'
<1> SUFFICES ASSUME NEW a \in AssetId, Awaited(a)' PROVE Promised(a)'
  BY DEF PromiseInv
<1>1. UNCHANGED <<workerVars, apiVars, jobVars>>
  BY OthersKeepJobs DEF OnlyCleanup, OnlyNotifier, OnlyOutside, vars
<1>2. Awaited(a)
  <2>1. CASE CleanupNext
    BY <2>1 DEF CleanupNext, CleanupStep, CleanupSelect, CleanupFile, CleanupRows,
       CleanupCutShort, dbVars, DeleteRows, NoRow, Awaited
  <2>2. CASE NotifierNext \/ UNCHANGED vars
    <3>1. UNCHANGED assets
      BY <2>2, NotifierKeepsRows DEF vars, dbVars
    <3> QED
      BY <3>1 DEF Awaited
  <2>3. CASE OutsideNext
    <3> PICK b \in AssetId : UploadFile(b) \/ StaleTime(b) \/ OldTime(b)
      BY <2>3 DEF OutsideNext
    <3>1. /\ assets'[a].status = assets[a].status
          /\ assets'[a].submitted = "no" <=> assets[a].submitted = "no"
      BY DEF UploadFile, StaleTime, BecomesStale, OldTime, BecomesOld, dbVars, TypeInv,
         DatabaseTypeOK, Row
    <3> QED
      BY <3>1 DEF Awaited
  <2> QED
    BY <2>1, <2>2, <2>3
<1>3. Promised(a)
  BY <1>2 DEF PromiseInv
<1>4. JobsStay /\ \A r \in Requests : Submits(r, a) => Submits(r, a)'
  BY <1>1 DEF jobVars, JobsStay, apiVars, Submits
<1> QED
  BY <1>1, <1>3, <1>4, PromiseFrame DEF jobVars

\* Requests served to their end drop no claim.
LEMMA ServedToTheEnd ==
  ASSUME "request" \notin FaultKinds
  PROVE  Spec => [][~ClaimDropped]_vars
<1>1. [Next]_vars => [~ClaimDropped]_vars
  BY DEF ClaimDropped, CutShort, Fault
<1> QED
  BY <1>1, PTL DEF Spec

\* A 202 is a promise kept by the broker: a submitted image that waits has its job in
\* the queue, in a worker's hands or among the dead letters, once no request is at
\* work on it and as long as none died between its claim and its publication.
THEOREM PromiseIsKept ==
  Spec /\ [][~ClaimDropped]_vars => []SubmittedHasJob
<1>1. Init => HandInv /\ PromiseInv /\ TypeInv
  <2> SUFFICES ASSUME Init PROVE HandInv /\ PromiseInv
    BY TypeInvInit
  <2>1. HandInv
    BY DEF Init, WorkerInit, HandInv
  <2>2. ASSUME NEW a \in AssetId, Awaited(a) PROVE Queued(a)
    <3>1. a \in Accepted
      BY <2>2 DEF Init, Awaited, NoRow
    <3>2. [asset |-> a, attempt |-> 1] \in Job /\ jobs[[asset |-> a, attempt |-> 1]] = 1
      BY <3>1, BrokerAssumption DEF Init, Job
    <3> QED
      BY <3>2 DEF Queued
  <2> QED
    BY <2>1, <2>2 DEF PromiseInv, Promised
<1>2. TypeInv /\ HandInv /\ PromiseInv /\ [Next]_vars /\ [~ClaimDropped]_vars
        => (TypeInv /\ HandInv /\ PromiseInv)'
  <2>1. CASE UNCHANGED vars
    BY <2>1, TypeInvStep, HandStep, OtherPromise
  <2>2. CASE Next /\ ~ClaimDropped
    BY <2>2, TypeInvStep, HandStep, WorkerPromise, ApiPromise, OtherPromise DEF Next
  <2> QED
    BY <2>1, <2>2
<1>3. PromiseInv => SubmittedHasJob
  <2> SUFFICES ASSUME PromiseInv, NEW a \in AssetId, Awaited(a),
                      \A r \in Requests : requestAsset[r] # a
               PROVE  Queued(a) \/ Leased(a) \/ DeadLettered(a)
    BY DEF SubmittedHasJob, Awaited
  <2> QED
    BY DEF PromiseInv, Promised, Submits, CarriesOn, Leased
<1> QED
  BY <1>1, <1>2, <1>3, PTL DEF Spec

-----------------------------------------------------------------------------
(* The job of a good file, whatever workers, requests and the cleanup do. *)

\* The file of a, and of any image when no failure of the database goes unrecorded.
Worth(a) == originals[a] = "valid" \/ "database" \notin FaultKinds

\* A submitted image, not settled yet, whose job nobody may drop.
Good(a) == Claimable(a) /\ assets[a].submitted # "no" /\ Worth(a)

\* Worker w holds the job of a, and has not given it up.
WorksOn(w, a) ==
  /\ jobLease[w].asset = a
  /\ \/ workerPc[w] \in Processing \cup {"retryOrGiveUp", "republish", "nack"}
     \/ workerPc[w] = "fail" /\ (settlement[w] = "nack" \/ "database" \notin FaultKinds)

Kept(a) ==
  \/ Queued(a) \/ DeadLettered(a)
  \/ \E w \in Workers : WorksOn(w, a)
  \/ \E r \in Requests : Submits(r, a)

KeptInv == \A a \in AssetId : Good(a) => Kept(a)

\* The file of an image as long as its link works: what is submitted then is there and
\* good, and the cleanup is not after it.
FileOK(a) ==
  /\ originals[a] # "huge"
  /\ ~Known(a) => originals[a] = "none" /\ a \notin links \cup batch
  /\ a \in links =>
       /\ originals[a] # "corrupt" /\ a \notin batch
       /\ Exists(a) => ~assets[a].old
       /\ Exists(a) /\ assets[a].submitted # "no" => originals[a] = "valid"

\* What a request saw of the file before it claims the row.
CheckedOK(r) ==
  /\ requestPc[r] \notin {"completeDrop", "completeReject"}
  /\ /\ requestPc[r] \in {"completeClaim", "retryClaim"}
     /\ Exists(Target(r)) /\ Target(r) \in links
     => originals[Target(r)] = "valid"

GoodFiles == (\A a \in AssetId : FileOK(a)) /\ (\A r \in Requests : CheckedOK(r))

\* How a step may treat the file and the row of a.
FileKept(a) ==
  /\ \/ originals'[a] = originals[a]
     \/ originals'[a] = "valid" /\ a \in links
     \/ originals'[a] = "none" /\ (a \notin links \/ ~Exists(a))
  /\ Exists(a)' => Exists(a)
  /\ Exists(a)' /\ a \in links' =>
       /\ assets'[a].old = assets[a].old
       /\ assets'[a].submitted # "no" => assets[a].submitted # "no" \/ originals[a] = "valid"

LEMMA FilesFrame ==
  ASSUME TypeInv, GoodFiles, KnownStays,
         \A a \in AssetId : FileKept(a),
         links' \subseteq links, batch' \subseteq batch \cup Abandoned,
         \A s \in Requests : \/ CheckedOK(s)'
                             \/ requestPc'[s] = requestPc[s] /\ requestAsset'[s] = requestAsset[s]
  PROVE  GoodFiles'
<1>1. ASSUME NEW a \in AssetId PROVE FileOK(a)'
  <2>1. FileOK(a) /\ FileKept(a) /\ (Known(a) => Known(a)') /\ (Exists(a) => Known(a))
    BY DEF GoodFiles, KnownStays, Known, Exists, Status
  <2>2. originals'[a] # "huge"
    BY <2>1 DEF FileOK, FileKept
  <2>3. a \in batch' => a \in batch \/ (Exists(a) /\ assets[a].old)
    BY DEF Abandoned
  <2>4. ~Known(a)' => originals'[a] = "none" /\ a \notin links' \cup batch'
    BY <2>1, <2>3 DEF FileOK, FileKept
  <2>5. a \in links' => originals'[a] # "corrupt" /\ a \notin batch'
    BY <2>1, <2>3 DEF FileOK, FileKept
  <2>6. a \in links' /\ Exists(a)' =>
          /\ ~assets'[a].old
          /\ assets'[a].submitted # "no" => originals'[a] = "valid"
    BY <2>1 DEF FileOK, FileKept
  <2> QED
    BY <2>2, <2>4, <2>5, <2>6 DEF FileOK
<1>2. ASSUME NEW s \in Requests, requestPc'[s] = requestPc[s], requestAsset'[s] = requestAsset[s]
      PROVE  CheckedOK(s)'
  <2>1. CheckedOK(s) /\ Target(s)' = Target(s)
    BY <1>2 DEF GoodFiles, Target
  <2>2. SUFFICES ASSUME requestPc[s] \in {"completeClaim", "retryClaim"},
                        Exists(Target(s))', Target(s) \in links'
                 PROVE  originals'[Target(s)] = "valid"
    BY <1>2, <2>1 DEF CheckedOK
  <2>3. FileKept(Target(s)) /\ Target(s) \in links
    BY <2>2 DEF TypeInv, RequestInv, Target
  <2> QED
    BY <2>1, <2>2, <2>3 DEF CheckedOK, FileKept
<1> QED
  BY <1>1, <1>2 DEF GoodFiles

\* What the statements on the row of t leave alone.
LEMMA StatementFields ==
  ASSUME TypeInv, NEW t, NEW a \in AssetId,
         \/ SetProcessing(t) \/ SetDone(t) \/ SetFailed(t)
         \/ SetSubmitted(t) \/ SetUnsubmitted(t) \/ SetResubmitted(t) \/ SetRetryReleased(t)
  PROVE  /\ Exists(a)' => Exists(a)
         /\ assets'[a].old = assets[a].old
         /\ assets'[a] = assets[a] \/ (a = t /\ Exists(a))
         /\ SetProcessing(t) \/ SetDone(t) \/ SetFailed(t) =>
              assets'[a].submitted = assets[a].submitted
         /\ SetUnsubmitted(t) \/ SetRetryReleased(t) =>
              assets'[a].submitted \in {assets[a].submitted, "no"}
<1>1. assets[a] \in Row /\ assets \in [AssetId -> Row]
  BY DEF TypeInv, DatabaseTypeOK
<1>2. CASE a # t \/ ~Exists(t)
  <2>1. assets'[a] = assets[a]
    BY <1>1, <1>2 DEF Update, SetProcessing, SetDone, SetFailed, SetSubmitted, SetUnsubmitted,
       SetResubmitted, SetRetryReleased
  <2> QED
    BY <2>1 DEF Exists
<1>3. CASE a = t /\ Exists(a)
  <2>1. \A row : Update(a, row) => assets'[a] = row
    BY <1>1, <1>3 DEF Update
  <2>2. /\ assets'[a].old = assets[a].old
        /\ SetProcessing(a) \/ SetDone(a) \/ SetFailed(a) =>
             assets'[a].submitted = assets[a].submitted
        /\ SetUnsubmitted(a) \/ SetRetryReleased(a) => assets'[a].submitted = "no"
    BY <1>1, <1>3, <2>1 DEF SetProcessing, SetDone, SetFailed, SetSubmitted, SetUnsubmitted,
       SetResubmitted, SetRetryReleased, Row
  <2> QED
    BY <1>3, <2>2
<1> QED
  BY <1>2, <1>3

LEMMA WorkerFiles == TypeInv /\ KnownStays /\ GoodFiles /\ WorkerNext /\ OnlyWorker => GoodFiles'
<1> SUFFICES ASSUME TypeInv, KnownStays, GoodFiles, WorkerNext, OnlyWorker PROVE GoodFiles'
  OBVIOUS
<1> PICK w \in Workers : WorkerStep(w) \/ WorkerTrouble(w)
  BY DEF WorkerNext
<1>1. UNCHANGED <<links, originals, batch, requestPc, requestAsset>>
  BY DEF OnlyWorker, apiVars, cleanupVars, storeVars, WorkerStep, WorkerTrouble, ReceiveJob, Claim,
     Download, Upload, SaveDocument, Commit, Confirm, Ack, Nack, Announce, RetryOrGiveUp,
     Republish, Fail, AnnounceFailure, Break, CommitUnanswered, LoseConnection, CrashWorker
<1>2. \/ UNCHANGED assets
      \/ SetProcessing(Asset(w)) \/ SetDone(Asset(w)) \/ SetFailed(Asset(w))
  BY DEF dbVars, WorkerStep, WorkerTrouble, ReceiveJob, Claim, Download, Upload, SaveDocument,
     Commit, Finish, Confirm, Ack, Nack, Announce, RetryOrGiveUp, Republish, Fail,
     AnnounceFailure, Break, CommitUnanswered, LoseConnection, CrashWorker
<1>3. ASSUME NEW a \in AssetId PROVE FileKept(a)
  <2>1. CASE UNCHANGED assets
    BY <1>1, <2>1 DEF FileKept, Exists
  <2>2. CASE SetProcessing(Asset(w)) \/ SetDone(Asset(w)) \/ SetFailed(Asset(w))
    BY <1>1, <2>2, StatementFields DEF FileKept
  <2> QED
    BY <1>2, <2>1, <2>2
<1> QED
  BY <1>1, <1>3, FilesFrame

LEMMA ApiFiles ==
  ASSUME TypeInv, RequestsKnown, KnownStays, ForgetInv, GoodFiles, ApiNext, OnlyApi
  PROVE  GoodFiles'
<1>a. /\ requestPc \in [Requests -> RequestPc] /\ requestAsset \in [Requests -> AssetId \cup {NoAsset}]
      /\ \A r \in Requests : requestPc[r] # "idle" => Target(r) \in AssetId
      /\ assets \in [AssetId -> Row]
      /\ originals \in [AssetId -> Content \cup {"none"}] /\ links \subseteq AssetId
      /\ batch' = batch
  BY DEF TypeInv, RequestInv, ApiTypeOK, Target, DatabaseTypeOK, StoresTypeOK, OnlyApi, cleanupVars
<1>1. ASSUME NEW a \in AssetId, CreateAsset(a) PROVE GoodFiles'
  <2>1. /\ assets[a].status = "ABSENT" /\ assets' = [assets EXCEPT ![a] = NewRow]
        /\ links' = links \cup {a} /\ UNCHANGED <<requestPc, requestAsset, originals>>
    BY <1>1 DEF CreateAsset, InsertAsset
  <2>2. FileOK(a) /\ ~Known(a)
    BY <2>1 DEF GoodFiles, Known
  <2>3. FileOK(a)'
    BY <1>a, <2>1, <2>2 DEF FileOK, NewRow, Known
  <2>4. ASSUME NEW b \in AssetId \ {a} PROVE FileOK(b)'
    BY <1>a, <2>1 DEF GoodFiles, FileOK, Known, Exists
  <2>5. ASSUME NEW r \in Requests PROVE CheckedOK(r)'
    <3>1. CheckedOK(r) /\ (requestPc[r] # "idle" => Known(Target(r)) /\ Target(r) # a)
      BY <2>1, <2>2 DEF GoodFiles, RequestsKnown
    <3> QED
      BY <1>a, <2>1, <3>1 DEF CheckedOK, Target, Exists
  <2> QED
    BY <2>3, <2>4, <2>5 DEF GoodFiles
<1>2. ASSUME NEW r \in Requests,
             \/ RequestStep(r) \/ CutShort(r)
             \/ \E a \in AssetId : CompleteRead(r, a) \/ RetryRead(r, a) \/ DeleteRead(r, a)
      PROVE  GoodFiles'
  <2>1. UNCHANGED links
    BY <1>2 DEF storeVars, RequestStep, CutShort, CompleteRead, RetryRead, DeleteRead, CompleteHead,
       CompleteDrop, CompleteReject, CompleteClaim, CompletePublish, CompleteRelease, RetryHead,
       RetryClaim, RetryPublish, RetryRelease, DeleteKeys, DeleteRow, DeleteDerived,
       DeleteOriginal, DeleteDocument
  <2>2. \A s \in Requests \ {r} : requestPc'[s] = requestPc[s] /\ requestAsset'[s] = requestAsset[s]
    BY <1>2, <1>a DEF Begin, GoOn, Respond, Publish, RequestStep, CutShort, CompleteRead, RetryRead,
       DeleteRead, CompleteHead, CompleteDrop, CompleteReject, CompleteClaim, CompletePublish,
       CompleteRelease, RetryHead, RetryClaim, RetryPublish, RetryRelease, DeleteKeys, DeleteRow,
       DeleteDerived, DeleteOriginal, DeleteDocument
  <2>3. CheckedOK(r)'
    <3>1. CASE CompleteHead(r)
      <4>1. FileOK(Target(r)) /\ Target(r) \in AssetId
        BY <1>a, <3>1 DEF CompleteHead, GoodFiles
      <4> QED
        BY <1>a, <3>1, <4>1 DEF CompleteHead, FileOK, CheckedOK, GoOn, Respond, Target, storeVars,
           dbVars, Exists
    <3>2. CASE RetryHead(r)
      <4>1. FileOK(Target(r)) /\ originals[Target(r)] \in {"none", "valid", "corrupt", "huge"}
        BY <1>a, <3>2 DEF RetryHead, GoodFiles, Content
      <4> QED
        BY <1>a, <3>2, <4>1 DEF RetryHead, FileOK, CheckedOK, GoOn, Respond, Target, storeVars,
           dbVars, Exists
    <3>3. CASE CompleteDrop(r) \/ CompleteReject(r)
      BY <3>3 DEF CompleteDrop, CompleteReject, GoodFiles, CheckedOK
    <3>4. requestPc'[r] \notin {"completeDrop", "completeReject", "completeClaim", "retryClaim"}
          \/ CompleteHead(r) \/ RetryHead(r) \/ CompleteDrop(r)
      BY <1>2, <1>a DEF Begin, GoOn, Respond, Publish, RequestStep, CutShort, CompleteRead,
         RetryRead, DeleteRead, CompleteReject, CompleteClaim, CompletePublish, CompleteRelease,
         RetryClaim, RetryPublish, RetryRelease, DeleteKeys, DeleteRow, DeleteDerived,
         DeleteOriginal, DeleteDocument
    <3> QED
      BY <3>1, <3>2, <3>3, <3>4 DEF CheckedOK
  <2>4. ASSUME NEW a \in AssetId PROVE FileKept(a)
    <3>1. CASE UNCHANGED <<assets, originals>>
      BY <3>1 DEF FileKept, Exists
    <3>2. CASE DeleteOriginal(r)
      <4>1. /\ UNCHANGED assets /\ \A b \in AssetId : b # Target(r) => originals'[b] = originals[b]
            /\ originals'[a] \in {originals[a], "none"}
        BY <1>a, <3>2 DEF DeleteOriginal, RemoveOriginal, dbVars
      <4>2. ~Exists(Target(r))
        BY <3>2 DEF DeleteOriginal, ForgetInv, Forgetting, Gone, Exists, Status
      <4> QED
        BY <4>1, <4>2 DEF FileKept, Exists
    <3>3. CASE CompleteDrop(r) \/ CompleteReject(r)
      BY <3>3 DEF CompleteDrop, CompleteReject, GoodFiles, CheckedOK
    <3>4. CASE DeleteRow(r)
      <4>1. UNCHANGED originals /\ (assets'[a] = assets[a] \/ assets'[a].status = "DELETED")
        BY <3>4 DEF DeleteRow, DeleteRows, NoRow, storeVars
      <4> QED
        BY <4>1 DEF FileKept, Exists, Status
    <3>5. CASE CompleteClaim(r) \/ RetryClaim(r)
      <4>1. UNCHANGED originals /\ CheckedOK(r)
        BY <3>5 DEF CompleteClaim, RetryClaim, storeVars, GoodFiles
      <4>2. CASE assets'[a] = assets[a]
        BY <4>1, <4>2 DEF FileKept, Exists
      <4>3. CASE assets'[a] # assets[a]
        <5>1. /\ requestPc[r] \in {"completeClaim", "retryClaim"}
              /\ SetSubmitted(Target(r)) \/ SetResubmitted(Target(r))
          BY <3>5, <4>3 DEF CompleteClaim, RetryClaim
        <5>2. a = Target(r) /\ Exists(a) /\ assets'[a].old = assets[a].old
          BY <4>3, <5>1, StatementFields
        <5> QED
          BY <2>1, <4>1, <5>1, <5>2 DEF FileKept, CheckedOK
      <4> QED
        BY <4>2, <4>3
    <3>6. CASE CompleteRelease(r) \/ RetryRelease(r)
      <4>1. UNCHANGED originals
        BY <3>6 DEF CompleteRelease, RetryRelease, storeVars
      <4>2. SetUnsubmitted(Target(r)) \/ SetRetryReleased(Target(r))
        BY <3>6 DEF CompleteRelease, RetryRelease
      <4> QED
        BY <4>1, <4>2, StatementFields DEF FileKept
    <3> QED
      BY <1>2, <3>1, <3>2, <3>3, <3>4, <3>5, <3>6
      DEF storeVars, dbVars, RequestStep, CutShort, CompleteRead, RetryRead, DeleteRead,
          CompleteHead, CompletePublish, RetryHead, RetryPublish, DeleteKeys, DeleteDerived,
          DeleteDocument
  <2> QED
    BY <1>a, <2>1, <2>2, <2>3, <2>4, FilesFrame
<1> QED
  BY <1>1, <1>2 DEF ApiNext, ClientCall

LEMMA OtherFiles ==
  ASSUME Uploads \subseteq {"valid"}, TypeInv, KnownStays, GoodFiles,
         \/ CleanupNext /\ OnlyCleanup
         \/ NotifierNext /\ OnlyNotifier
         \/ OutsideNext /\ OnlyOutside
         \/ UNCHANGED vars
  PROVE  GoodFiles'
<1>a. assets \in [AssetId -> Row] /\ originals \in [AssetId -> Content \cup {"none"}]
  BY DEF TypeInv, DatabaseTypeOK, StoresTypeOK
<1>1. UNCHANGED <<requestPc, requestAsset>>
  BY DEF OnlyCleanup, OnlyNotifier, OnlyOutside, vars, apiVars
<1>2. CASE CleanupNext
  <2>1. UNCHANGED links /\ batch' \subseteq batch \cup Abandoned
    BY <1>2 DEF CleanupNext, CleanupStep, CleanupSelect, CleanupFile, CleanupRows, CleanupCutShort,
       storeVars
  <2>2. ASSUME NEW a \in AssetId PROVE FileKept(a)
    <3>1. originals'[a] = originals[a] \/ (originals'[a] = "none" /\ a \in batch)
      BY <1>2, <1>a DEF CleanupNext, CleanupStep, CleanupSelect, CleanupFile, CleanupRows,
         CleanupCutShort, storeVars, RemoveOriginal
    <3>2. assets'[a] = assets[a] \/ assets'[a].status = "DELETED"
      BY <1>2 DEF CleanupNext, CleanupStep, CleanupSelect, CleanupFile, CleanupRows,
         CleanupCutShort, dbVars, DeleteRows, NoRow
    <3> QED
      BY <3>1, <3>2 DEF FileKept, GoodFiles, FileOK, Exists, Status
  <2> QED
    BY <1>1, <2>1, <2>2, FilesFrame
<1>3. CASE (NotifierNext /\ OnlyNotifier) \/ UNCHANGED vars
  <2>1. UNCHANGED <<assets, originals, links, batch>>
    BY <1>3, NotifierKeepsRows DEF OnlyNotifier, vars, storeVars, dbVars, cleanupVars
  <2>2. \A a \in AssetId : FileKept(a)
    BY <2>1 DEF FileKept, Exists
  <2> QED
    BY <1>1, <2>1, <2>2, FilesFrame
<1>4. CASE OutsideNext /\ OnlyOutside
  <2> PICK b \in AssetId : UploadFile(b) \/ StaleTime(b) \/ OldTime(b)
    BY <1>4 DEF OutsideNext
  <2>1. links' \subseteq links /\ UNCHANGED batch
    BY <1>4 DEF OnlyOutside, cleanupVars, UploadFile, StaleTime, OldTime, storeVars
  <2>2. ASSUME NEW a \in AssetId PROVE FileKept(a)
    <3>1. CASE UploadFile(b)
      <4>1. UNCHANGED assets
        BY <3>1 DEF UploadFile, dbVars
      <4>2. originals'[a] = originals[a] \/ (originals'[a] = "valid" /\ a \in links)
        BY <3>1, <1>a DEF UploadFile
      <4> QED
        BY <4>1, <4>2 DEF FileKept, Exists
    <3>2. CASE StaleTime(b)
      <4>1. /\ UNCHANGED originals /\ assets'[a].status = assets[a].status
            /\ assets'[a].old = assets[a].old
            /\ assets'[a].submitted # "no" => assets[a].submitted # "no"
        BY <3>2, <1>a DEF StaleTime, BecomesStale, storeVars, Row
      <4> QED
        BY <4>1 DEF FileKept, Exists
    <3>3. CASE OldTime(b)
      <4>1. /\ UNCHANGED originals /\ assets'[a].status = assets[a].status
            /\ assets'[a].submitted = assets[a].submitted
            /\ a # b => assets'[a].old = assets[a].old
            /\ b \notin links'
        BY <3>3, <1>a DEF OldTime, BecomesOld, Row
      <4> QED
        BY <4>1 DEF FileKept, Exists
    <3> QED
      BY <3>1, <3>2, <3>3
  <2> QED
    BY <1>1, <2>1, <2>2, FilesFrame
<1> QED
  BY <1>2, <1>3, <1>4

LEMMA WorkerKeeps == TypeInv /\ HandInv /\ KeptInv /\ WorkerNext /\ OnlyWorker => KeptInv'
<1> SUFFICES ASSUME TypeInv, HandInv, KeptInv, WorkerNext, OnlyWorker,
                    NEW a \in AssetId, Good(a)'
             PROVE  Kept(a)'
  BY DEF KeptInv
<1> PICK w \in Workers : WorkerStep(w) \/ WorkerTrouble(w)
  BY DEF WorkerNext
<1>1. Good(a) /\ Kept(a)
  BY WorkerFlow DEF Good, Worth, KeptInv
<1>2. CASE Queued(a) \/ DeadLettered(a)
  BY <1>2, WorkerFlow DEF Kept, WorksOn, Processing
<1>3. ASSUME NEW v \in Workers \ {w}, WorksOn(v, a) PROVE Kept(a)'
  BY <1>3, WorkerFlow DEF Kept, WorksOn
<1>4. CASE WorksOn(w, a)
  <2>1. Flow(w, a)
    BY <1>4, WorkerFlow DEF WorksOn
  <2>2. Claimable(a) /\ Claimable(a)' /\ Worth(a)
    BY <1>1 DEF Good
  <2>3. Queued(a)' \/ DeadLettered(a)' \/ WorksOn(w, a)'
    BY <1>4, <2>1, <2>2 DEF Flow, WorksOn, Worth, Claimable, Processing
  <2> QED
    BY <2>3 DEF Kept
<1>5. ASSUME NEW r \in Requests, Submits(r, a) PROVE Kept(a)'
  BY <1>5 DEF Kept, Submits, OnlyWorker, apiVars
<1> QED
  BY <1>1, <1>2, <1>3, <1>4, <1>5 DEF Kept

\* Nobody else takes a message, so what keeps a job is there until a request lets it go.
LEMMA KeptFrame ==
  ASSUME KeptInv, UNCHANGED workerVars, UNCHANGED jobLease, JobsStay, NEW a \in AssetId, Good(a),
         \A r \in Requests : Submits(r, a) => Submits(r, a)'
  PROVE  Kept(a)'
BY DEF KeptInv, Kept, WorksOn, JobsStay, Queued, DeadLettered, workerVars

LEMMA ApiKeeps ==
  ASSUME ~ClaimDropped, TypeInv, KeptInv, ApiNext, OnlyApi
  PROVE  KeptInv'
<1>a. /\ requestPc \in [Requests -> RequestPc] /\ requestAsset \in [Requests -> AssetId \cup {NoAsset}]
      /\ \A r \in Requests : requestPc[r] # "idle" => Target(r) \in AssetId
      /\ assets \in [AssetId -> Row] /\ JobsTypeOK
      /\ originals \in [AssetId -> Content \cup {"none"}]
  BY DEF TypeInv, RequestInv, ApiTypeOK, Target, DatabaseTypeOK, StoresTypeOK
<1>b. UNCHANGED workerVars
  BY DEF OnlyApi
<1>c. UNCHANGED jobVars => UNCHANGED jobLease /\ JobsStay
  BY DEF jobVars, JobsStay
<1> SUFFICES ASSUME NEW a \in AssetId, Good(a)' PROVE Kept(a)'
  BY DEF KeptInv
<1>1. ASSUME NEW b \in AssetId, CreateAsset(b) PROVE Kept(a)'
  <2>1. /\ assets'[a] = IF a = b THEN NewRow ELSE assets[a]
        /\ UNCHANGED <<jobVars, requestPc, requestAsset, originals>>
    BY <1>1, <1>a DEF CreateAsset, InsertAsset
  <2>2. Good(a)
    BY <2>1 DEF Good, Worth, NewRow, Claimable
  <2> QED
    BY <1>b, <1>c, <2>1, <2>2, KeptFrame DEF Submits
<1>2. ASSUME NEW b \in AssetId, NEW r \in Requests,
             CompleteRead(r, b) \/ RetryRead(r, b) \/ DeleteRead(r, b)
      PROVE  Kept(a)'
  <2>1. UNCHANGED <<jobVars, assets, originals>>
    BY <1>2 DEF CompleteRead, RetryRead, DeleteRead, dbVars, storeVars
  <2>2. Good(a)
    BY <2>1 DEF Good, Worth, Claimable
  <2>3. \A s \in Requests : Submits(s, a) => Submits(s, a)'
    BY <1>2, <1>a DEF CompleteRead, RetryRead, DeleteRead, Begin, Submits
  <2> QED
    BY <1>b, <1>c, <2>1, <2>2, <2>3, KeptFrame
<1>3. ASSUME NEW r \in Requests, RequestStep(r) PROVE Kept(a)'
  <2>a. PICK t \in AssetId : Target(r) = t
    BY <1>3, <1>a DEF RequestStep, CompleteHead, CompleteDrop, CompleteReject, CompleteClaim,
       CompletePublish, CompleteRelease, RetryHead, RetryClaim, RetryPublish, RetryRelease,
       DeleteKeys, DeleteRow, DeleteDerived, DeleteOriginal, DeleteDocument
  <2>b. \A s \in Requests \ {r} : Submits(s, a) => Submits(s, a)'
    BY <1>3, <1>a DEF GoOn, Respond, Publish, RequestStep, CompleteHead, CompleteDrop,
       CompleteReject, CompleteClaim, CompletePublish, CompleteRelease, RetryHead, RetryClaim,
       RetryPublish, RetryRelease, DeleteKeys, DeleteRow, DeleteDerived, DeleteOriginal,
       DeleteDocument, Submits
  <2>c. ASSUME Good(a), ~Submits(r, a), UNCHANGED jobLease, JobsStay PROVE Kept(a)'
    BY <1>b, <2>b, <2>c, KeptFrame
  <2>1. CASE CompleteHead(r) \/ CompleteDrop(r) \/ RetryHead(r) \/ DeleteKeys(r)
             \/ DeleteDerived(r) \/ DeleteOriginal(r) \/ DeleteDocument(r)
    <3>1. UNCHANGED <<assets, jobVars>> /\ ~Submits(r, a)
      BY <2>1 DEF CompleteHead, CompleteDrop, RetryHead, DeleteKeys, DeleteDerived,
         DeleteOriginal, DeleteDocument, dbVars, Submits
    <3>2. originals'[a] = "valid" => originals[a] = "valid"
      BY <1>a, <2>1 DEF CompleteHead, CompleteDrop, RetryHead, DeleteKeys, DeleteDerived,
         DeleteOriginal, DeleteDocument, storeVars, RemoveOriginal
    <3>3. Good(a)
      BY <3>1, <3>2 DEF Good, Worth, Claimable
    <3> QED
      BY <1>c, <2>c, <3>1, <3>3
  <2>2. CASE DeleteRow(r) \/ CompleteReject(r) \/ CompleteRelease(r) \/ RetryRelease(r)
    <3>1. /\ a # t => assets'[a] = assets[a]
          /\ UNCHANGED <<jobVars, originals>>
      BY <1>a, <2>2, <2>a DEF DeleteRow, DeleteRows, CompleteReject, CompleteRelease, RetryRelease,
         SetFailed, SetUnsubmitted, SetRetryReleased, Update, storeVars, Target
    <3>2. a # t
      <4>1. CASE DeleteRow(r)
        BY <2>a, <4>1 DEF DeleteRow, DeleteRows, NoRow, Good, Claimable
      <4>2. CASE ~Exists(t) /\ ~DeleteRow(r)
        BY <1>a, <2>2, <2>a, <4>2 DEF CompleteReject, CompleteRelease, RetryRelease, SetFailed,
           SetUnsubmitted, SetRetryReleased, Update, Good, Claimable, Exists, Status
      <4>3. CASE Exists(t) /\ ~DeleteRow(r)
        BY <1>a, <2>2, <2>a, <4>3 DEF CompleteReject, CompleteRelease, RetryRelease, SetFailed,
           SetUnsubmitted, SetRetryReleased, Update, Good, Claimable, Row
      <4> QED
        BY <4>1, <4>2, <4>3
    <3>3. Good(a) /\ ~Submits(r, a)
      BY <2>a, <3>1, <3>2 DEF Good, Worth, Claimable, Submits, Target
    <3> QED
      BY <1>c, <2>c, <3>1, <3>3
  <2>3. CASE CompleteClaim(r) \/ RetryClaim(r)
    <3>1. /\ UNCHANGED <<jobVars, originals>> /\ ~Submits(r, a)
          /\ assets'[a] = assets[a] \/ Submits(r, a)'
      BY <1>a, <2>3, <2>a DEF CompleteClaim, RetryClaim, SetSubmitted, SetResubmitted, Update,
         GoOn, Respond, Submits, Target, storeVars
    <3>2. CASE Submits(r, a)'
      BY <3>2 DEF Kept
    <3>3. CASE assets'[a] = assets[a]
      <4>1. Good(a)
        BY <3>1, <3>3 DEF Good, Worth, Claimable
      <4> QED
        BY <1>c, <2>c, <3>1, <4>1
    <3> QED
      BY <3>1, <3>2, <3>3
  <2>4. CASE CompletePublish(r) \/ RetryPublish(r)
    <3>1. /\ UNCHANGED <<assets, originals>>
          /\ Publish(r, "completeRelease") \/ Publish(r, "retryRelease")
      BY <2>4 DEF CompletePublish, RetryPublish, dbVars, storeVars
    <3>2. PICK n \in 0 .. 2 :
            /\ PublishJob(t, 1, n)
            /\ n > 0 \/ GoOn(r, "completeRelease") \/ GoOn(r, "retryRelease")
      BY <3>1, <2>a DEF Publish
    <3>3. JobsStay /\ UNCHANGED jobLease /\ (n > 0 => Queued(t)')
      BY <1>a, <3>2, PublishedJobs, BrokerAssumption
    <3>4. GoOn(r, "completeRelease") \/ GoOn(r, "retryRelease") => Submits(r, t)'
      BY <1>a, <2>a DEF GoOn, Submits, Target
    <3>5. CASE a = t
      BY <3>2, <3>3, <3>4, <3>5 DEF Kept
    <3>6. CASE a # t
      <4>1. Good(a) /\ ~Submits(r, a)
        BY <2>a, <3>1, <3>6 DEF Good, Worth, Claimable, Submits, Target
      <4> QED
        BY <2>c, <3>3, <4>1
    <3> QED
      BY <3>5, <3>6
  <2> QED
    BY <1>3, <2>1, <2>2, <2>3, <2>4 DEF RequestStep
<1>4. ASSUME NEW r \in Requests, CutShort(r) PROVE Kept(a)'
  <2>1. /\ UNCHANGED <<assets, originals, jobVars>>
        /\ \A s \in Requests \ {r} : Submits(s, a) => Submits(s, a)'
        /\ Exists(a) => ~Submits(r, a)
    BY <1>4, <1>a DEF CutShort, Respond, dbVars, storeVars, Submits, ClaimDropped
  <2>2. Good(a) /\ Exists(a)
    BY <2>1 DEF Good, Worth, Claimable, Exists, Status
  <2> QED
    BY <1>b, <1>c, <2>1, <2>2, KeptFrame
<1> QED
  BY <1>1, <1>2, <1>3, <1>4 DEF ApiNext, ClientCall

LEMMA OthersKeep ==
  ASSUME TypeInv, KeptInv,
         GoodFiles \/ "database" \notin FaultKinds,
         \/ CleanupNext /\ OnlyCleanup
         \/ NotifierNext /\ OnlyNotifier
         \/ OutsideNext /\ OnlyOutside
         \/ UNCHANGED vars
  PROVE  KeptInv'
<1> SUFFICES ASSUME NEW a \in AssetId, Good(a)' PROVE Kept(a)'
  BY DEF KeptInv
<1>a. assets \in [AssetId -> Row] /\ originals \in [AssetId -> Content \cup {"none"}]
  BY DEF TypeInv, DatabaseTypeOK, StoresTypeOK
<1>1. UNCHANGED <<workerVars, apiVars, jobVars>>
  BY OthersKeepJobs DEF OnlyCleanup, OnlyNotifier, OnlyOutside, vars
<1>2. Good(a)
  <2>1. CASE CleanupNext
    <3>1. originals'[a] = "valid" => originals[a] = "valid"
      BY <1>a, <2>1 DEF CleanupNext, CleanupStep, CleanupSelect, CleanupFile, CleanupRows,
         CleanupCutShort, storeVars, RemoveOriginal
    <3>2. assets'[a] = assets[a] \/ assets'[a].status = "DELETED"
      BY <2>1 DEF CleanupNext, CleanupStep, CleanupSelect, CleanupFile, CleanupRows,
         CleanupCutShort, dbVars, DeleteRows, NoRow
    <3> QED
      BY <3>1, <3>2 DEF Good, Worth, Claimable
  <2>2. CASE (NotifierNext /\ OnlyNotifier) \/ UNCHANGED vars
    <3>1. UNCHANGED <<assets, originals>>
      BY <2>2, NotifierKeepsRows DEF vars, dbVars, storeVars, OnlyNotifier
    <3> QED
      BY <3>1 DEF Good, Worth, Claimable
  <2>3. CASE OutsideNext
    <3> PICK b \in AssetId : UploadFile(b) \/ StaleTime(b) \/ OldTime(b)
      BY <2>3 DEF OutsideNext
    <3>1. Claimable(a) /\ assets[a].submitted # "no"
      <4>1. /\ assets'[a].status = assets[a].status
            /\ assets'[a].submitted # "no" => assets[a].submitted # "no"
        BY <1>a DEF UploadFile, StaleTime, BecomesStale, OldTime, BecomesOld, dbVars, Row
      <4> QED
        BY <4>1 DEF Good, Claimable
    <3>2. originals'[a] = originals[a] \/ a \in links
      BY <1>a DEF UploadFile, StaleTime, OldTime, storeVars
    <3>3. Worth(a)
      BY <3>1, <3>2 DEF Good, Worth, GoodFiles, FileOK, Claimable, Exists, Status
    <3> QED
      BY <3>1, <3>3 DEF Good
  <2> QED
    BY <2>1, <2>2, <2>3
<1>3. JobsStay /\ \A r \in Requests : Submits(r, a) => Submits(r, a)'
  BY <1>1 DEF jobVars, JobsStay, apiVars, Submits
<1> QED
  BY <1>1, <1>2, <1>3, KeptFrame DEF jobVars

\* Whatever workers, broker, database, requests, time and the cleanup do, the job of a
\* good file is not lost: while the submitted image is not settled and no request is at
\* work on it, a message for it exists.  As for SubmittedHasJob, no request may die with
\* a claim; and either clients upload good files only, or the database answers: a failure
\* that _fail could not record confirms the message of a bad file, and the client may
\* put a good one in its place.
THEOREM GoodJobIsKept ==
  ASSUME Uploads \subseteq {"valid"} \/ "database" \notin FaultKinds
  PROVE  Spec /\ [][~ClaimDropped]_vars => []GoodFileKeepsItsJob
<1> DEFINE FilesInv == GoodFiles \/ "database" \notin FaultKinds
           AllInv == SafetyInv /\ RequestsKnown /\ HandInv /\ FilesInv /\ KeptInv
<1>1. Init => AllInv
  <2> SUFFICES ASSUME Init PROVE RequestsKnown /\ HandInv /\ GoodFiles /\ KeptInv
    BY SafetyInit
  <2>1. HandInv
    BY DEF Init, WorkerInit, HandInv
  <2>2. ASSUME NEW a \in AssetId, Good(a) PROVE Queued(a)
    <3>1. a \in Accepted
      BY <2>2 DEF Init, Good, NoRow
    <3>2. [asset |-> a, attempt |-> 1] \in Job /\ jobs[[asset |-> a, attempt |-> 1]] = 1
      BY <3>1, BrokerAssumption DEF Init, Job
    <3> QED
      BY <3>2 DEF Queued
  <2>3. GoodFiles
    BY DEF Init, ApiInit, CleanupInit, GoodFiles, FileOK, CheckedOK, Known, NewRow, NoRow
  <2> QED
    BY <2>1, <2>2, <2>3 DEF KeptInv, Kept, RequestsKnown, Init, ApiInit
<1>2. AllInv /\ [Next]_vars /\ [~ClaimDropped]_vars => AllInv'
  <2> SUFFICES ASSUME AllInv, [Next]_vars, [~ClaimDropped]_vars PROVE AllInv'
    OBVIOUS
  <2>1. TypeInv /\ ForgetInv
    BY DEF SafetyInv
  <2>2. SafetyInv'
    BY SafetyStep
  <2>3. RequestsKnown' /\ KnownStays
    BY <2>1, RequestsKnownStep
  <2>4. HandInv'
    BY <2>1, HandStep
  <2>5. FilesInv'
    BY <2>1, <2>3, WorkerFiles, ApiFiles, OtherFiles DEF Next
  <2>6. KeptInv'
    BY <2>1, WorkerKeeps, ApiKeeps, OthersKeep DEF Next
  <2> QED
    BY <2>2, <2>3, <2>4, <2>5, <2>6
<1>3. AllInv => GoodFileKeepsItsJob
  BY DEF KeptInv, Kept, Good, Worth, GoodFileKeepsItsJob, WorksOn, Submits, Leased
<1> QED
  BY <1>1, <1>2, <1>3, PTL DEF Spec

-----------------------------------------------------------------------------
(* Dead letters, when the broker refuses no publication. *)

\* Who rejects a message has spent its attempts.
GaveUp ==
  \A w \in Workers :
    workerPc[w] = "nack" \/ settlement[w] = "nack" =>
      workerPc[w] # "idle" /\ workerJob[w].attempt = MaxAttempts

LEMMA RequestsDropNothing == ApiNext => UNCHANGED deadJobs
<1>1. ASSUME NEW r \in Requests, RequestStep(r) \/ CutShort(r) PROVE UNCHANGED deadJobs
  BY <1>1 DEF jobVars, RequestStep, CutShort, CompleteHead, CompleteDrop, CompleteReject,
     CompleteClaim, CompletePublish, CompleteRelease, RetryHead, RetryClaim, RetryPublish,
     RetryRelease, DeleteKeys, DeleteRow, DeleteDerived, DeleteOriginal, DeleteDocument, Publish,
     PublishJob
<1>2. ASSUME NEW a \in AssetId, NEW r \in Requests,
             CompleteRead(r, a) \/ RetryRead(r, a) \/ DeleteRead(r, a)
      PROVE  UNCHANGED deadJobs
  BY <1>2 DEF CompleteRead, RetryRead, DeleteRead, jobVars
<1> QED
  BY <1>1, <1>2 DEF ApiNext, ClientCall, CreateAsset, jobVars

LEMMA WorkerGivesUp ==
  ASSUME "refused" \notin FaultKinds, TypeInv, HandInv, GaveUp, DeadLettersAreLastAttempts,
         WorkerNext
  PROVE  GaveUp' /\ DeadLettersAreLastAttempts'
<1> PICK w \in Workers : WorkerStep(w) \/ WorkerTrouble(w)
  BY DEF WorkerNext
<1>a. /\ workerPc \in [Workers -> WorkerPc] /\ workerJob \in [Workers -> Job \cup {NoJob}]
      /\ settlement \in [Workers -> {"ack", "nack"}]
      /\ deadJobs \in [Job -> Nat] /\ jobLease \in [Workers -> Job \cup {NoJob}]
      /\ workerPc[w] # "idle" => workerJob[w] \in Job
  BY DEF TypeInv, WorkerInv, WorkerTypeOK, JobsTypeOK
<1>b. /\ workerPc[w] = "nack" \/ settlement[w] = "nack" =>
           workerPc[w] # "idle" /\ workerJob[w].attempt = MaxAttempts
      /\ jobLease[w] = NoJob \/ (jobLease[w] = workerJob[w] /\ workerPc[w] # "idle")
  BY DEF GaveUp, HandInv
<1>0. ASSUME \A v \in Workers \ {w} : /\ workerPc'[v] = workerPc[v]
                                      /\ workerJob'[v] = workerJob[v]
                                      /\ settlement'[v] = settlement[v],
             workerPc'[w] = "nack" \/ settlement'[w] = "nack" =>
               workerPc'[w] # "idle" /\ workerJob'[w].attempt = MaxAttempts,
             UNCHANGED deadJobs
      PROVE  GaveUp' /\ DeadLettersAreLastAttempts'
  BY <1>0 DEF GaveUp, DeadLettersAreLastAttempts
<1>1. CASE ReceiveJob(w)
  BY <1>0, <1>1, <1>a, <1>b DEF ReceiveJob, DeliverJob
<1>2. CASE Claim(w) \/ Download(w) \/ Upload(w) \/ SaveDocument(w) \/ Commit(w) \/ Break(w)
           \/ CommitUnanswered(w)
  BY <1>0, <1>2, <1>a, <1>b
  DEF Claim, Download, Upload, SaveDocument, Commit, Break, CommitUnanswered, Goto, jobVars
<1>3. CASE Fail(w) \/ AnnounceFailure(w)
  BY <1>0, <1>3, <1>a, <1>b DEF Fail, AnnounceFailure, Goto, jobVars
<1>4. CASE RetryOrGiveUp(w)
  BY <1>0, <1>4, <1>a, <1>b, BrokerAssumption DEF RetryOrGiveUp, jobVars, Job
<1>5. CASE Confirm(w) \/ Ack(w) \/ Announce(w) \/ CrashWorker(w)
  BY <1>0, <1>5, <1>a, <1>b
  DEF Confirm, Ack, Announce, CrashWorker, AckJob, RequeueJob, Goto, GoIdle, jobVars
<1>6. CASE LoseConnection(w)
  BY <1>0, <1>6, <1>a, <1>b DEF LoseConnection, RequeueJob, workerVars
<1>7. CASE Republish(w)
  <2>1. UNCHANGED deadJobs /\ (Goto(w, "ack") \/ GoIdle(w))
    BY <1>7 DEF Republish, PublishJob, RequeueJob, Fault
  <2> QED
    BY <1>0, <1>7, <1>a, <1>b, <2>1 DEF Goto, GoIdle, Republish
<1>8. CASE Nack(w)
  <2>1. workerPc[w] = "nack" /\ workerJob[w].attempt = MaxAttempts /\ GoIdle(w)
    BY <1>8, <1>b DEF Nack
  <2>2. GaveUp'
    BY <1>a, <2>1 DEF GaveUp, GoIdle
  <2>3. \A j \in Job : deadJobs'[j] > 0 => deadJobs[j] > 0 \/ j = workerJob[w]
    BY <1>8, <1>a, <1>b DEF Nack, NackJob, Put
  <2> QED
    BY <2>1, <2>2, <2>3 DEF DeadLettersAreLastAttempts
<1> QED
  BY <1>1, <1>2, <1>3, <1>4, <1>5, <1>6, <1>7, <1>8 DEF WorkerStep, WorkerTrouble

\* No job is a dead letter before its last attempt, as long as the broker refuses no
\* publication.
THEOREM OnlyLastAttemptsDie ==
  ASSUME "refused" \notin FaultKinds
  PROVE  Spec => []DeadLettersAreLastAttempts
<1> DEFINE Inv == TypeInv /\ HandInv /\ GaveUp /\ DeadLettersAreLastAttempts
<1>1. Init => Inv
  <2>1. Init => HandInv /\ GaveUp /\ DeadLettersAreLastAttempts
    BY DEF Init, WorkerInit, HandInv, GaveUp, DeadLettersAreLastAttempts, EmptyQueue
  <2> QED
    BY <2>1, TypeInvInit
<1>2. Inv /\ [Next]_vars => Inv'
  <2> SUFFICES ASSUME Inv, [Next]_vars PROVE GaveUp' /\ DeadLettersAreLastAttempts'
    BY TypeInvStep, HandStep
  <2>1. CASE WorkerNext
    BY <2>1, WorkerGivesUp
  <2>2. ASSUME UNCHANGED <<workerVars, deadJobs>> PROVE GaveUp' /\ DeadLettersAreLastAttempts'
    BY <2>2 DEF GaveUp, DeadLettersAreLastAttempts, workerVars
  <2>3. CASE ~WorkerNext
    BY <2>2, <2>3, RequestsDropNothing, OthersKeepJobs
    DEF Next, OnlyApi, OnlyCleanup, OnlyNotifier, OnlyOutside, vars, jobVars
  <2> QED
    BY <2>1, <2>3
<1> QED
  BY <1>1, <1>2, PTL DEF Spec

-----------------------------------------------------------------------------
(* One publisher per image, when nobody writes FAILED over a claimed row. *)

Completes(r, a) ==
  /\ requestAsset[r] = a
  /\ requestPc[r] \in {"completeHead", "completeClaim", "completePublish", "completeRelease"}

Retries(r, a) == requestAsset[r] = a /\ requestPc[r] \in {"retryPublish", "retryRelease"}

\* A request has yet to claim a, or holds its claim.
AtWork(a) == \E r \in Requests : Submits(r, a) \/ Completes(r, a)

Standing(a) == assets[a].status \in {"PENDING", "PROCESSING", "DONE"}

\* A claim is held by one request, and shows on the row until the row goes.  A /retry
\* gets its claim on rows no /complete is at work on.
ClaimInv ==
  /\ \A r \in Requests, a \in AssetId :
       /\ Submits(r, a) => Gone(a) \/ (Standing(a) /\ assets[a].submitted = "fresh")
       /\ Completes(r, a) => Gone(a) \/ (Standing(a) /\ assets[a].submitted # "stale")
  /\ \A r, s \in Requests, a \in AssetId :
       /\ Submits(r, a) /\ Submits(s, a) => r = s
       /\ Completes(r, a) /\ Retries(s, a) => Gone(a)

\* This step is a mark_failed, by a worker or over an oversized file, on a row that a
\* request is at work on and that had not failed.
LateFailure ==
  \E a \in AssetId : AtWork(a) /\ Exists(a) /\ assets[a].status # "FAILED" /\ SetFailed(a)

\* Steps that make no claim and leave the rows requests are at work on as they are, let a
\* worker go on with them, or delete them.
LEMMA ClaimFrame ==
  ASSUME ClaimInv,
         \A r \in Requests, a \in AssetId : /\ Submits(r, a)' => Submits(r, a)
                                            /\ Completes(r, a)' => Completes(r, a)
                                            /\ Retries(r, a)' => Retries(r, a),
         \A a \in AssetId : \/ assets'[a] = assets[a]
                            \/ assets'[a].status = "DELETED"
                            \/ ~Gone(a) /\ Standing(a)' /\ assets'[a].submitted = assets[a].submitted
                            \/ \A r \in Requests : ~Submits(r, a)' /\ ~Completes(r, a)'
  PROVE  ClaimInv'
BY DEF ClaimInv, Standing, Gone

\* A mark_failed that is not late touches no row a request is at work on.
LEMMA FailedClaims ==
  ASSUME TypeInv, ClaimInv, ~LateFailure, NEW t \in AssetId, SetFailed(t),
         \A r \in Requests, a \in AssetId : /\ Submits(r, a)' => Submits(r, a)
                                            /\ Completes(r, a)' => Completes(r, a)
                                            /\ Retries(r, a)' => Retries(r, a)
  PROVE  ClaimInv'
<1>1. \A a \in AssetId : assets'[a] = assets[a] \/ (a = t /\ Exists(t))
  BY StatementFields
<1>2. Exists(t) => ~AtWork(t)
  BY DEF LateFailure, AtWork, ClaimInv, Standing, Gone, Exists, Status
<1> QED
  BY <1>1, <1>2, ClaimFrame DEF AtWork

LEMMA ApiClaims == TypeInv /\ ClaimInv /\ ~LateFailure /\ ApiNext => ClaimInv'
<1> SUFFICES ASSUME TypeInv, ClaimInv, ~LateFailure, ApiNext PROVE ClaimInv'
  OBVIOUS
<1>a. /\ requestPc \in [Requests -> RequestPc] /\ requestAsset \in [Requests -> AssetId \cup {NoAsset}]
      /\ \A r \in Requests : requestPc[r] # "idle" => Target(r) \in AssetId
      /\ assets \in [AssetId -> Row] /\ originals \in [AssetId -> Content \cup {"none"}]
  BY DEF TypeInv, RequestInv, ApiTypeOK, Target, DatabaseTypeOK, StoresTypeOK
<1>1. ASSUME NEW a \in AssetId, CreateAsset(a) PROVE ClaimInv'
  <2>1. /\ \A r \in Requests, b \in AssetId : /\ Submits(r, b)' <=> Submits(r, b)
                                              /\ Completes(r, b)' <=> Completes(r, b)
                                              /\ Retries(r, b)' <=> Retries(r, b)
    BY <1>1 DEF CreateAsset, Submits, Completes, Retries
  <2>2. \A b \in AssetId : b # a => assets'[b] = assets[b]
    BY <1>1 DEF CreateAsset, InsertAsset
  <2>3. \A r \in Requests : ~Submits(r, a) /\ ~Completes(r, a)
    BY <1>1 DEF CreateAsset, InsertAsset, ClaimInv, Standing, Gone
  <2> QED
    BY <2>1, <2>2, <2>3, ClaimFrame
<1>2. ASSUME NEW a \in AssetId, NEW r \in Requests,
             CompleteRead(r, a) \/ RetryRead(r, a) \/ DeleteRead(r, a)
      PROVE  ClaimInv'
  <2>1. \A s \in Requests, b \in AssetId :
          /\ Submits(s, b)' => Submits(s, b)
          /\ Completes(s, b)' => Completes(s, b) \/ (CompleteRead(r, a) /\ b = a)
          /\ Retries(s, b)' => Retries(s, b)
    BY <1>2, <1>a
    DEF CompleteRead, RetryRead, DeleteRead, Begin, Submits, Completes, Retries
  <2>2. UNCHANGED assets
    BY <1>2 DEF CompleteRead, RetryRead, DeleteRead, dbVars
  <2>4. CASE CompleteRead(r, a)
    <3>1. assets[a].status = "PENDING" /\ assets[a].submitted = "no"
      BY <2>4 DEF CompleteRead
    <3>2. \A s \in Requests : ~Retries(s, a)
      BY <3>1 DEF ClaimInv, Submits, Retries, Gone
    <3> QED
      BY <2>1, <2>2, <3>1, <3>2 DEF ClaimInv, Standing, Gone
  <2>5. CASE ~CompleteRead(r, a)
    BY <2>1, <2>2, <2>5, ClaimFrame
  <2> QED
    BY <2>4, <2>5
<1>3. ASSUME NEW r \in Requests, RequestStep(r) \/ CutShort(r) PROVE ClaimInv'
  <2>a. PICK t \in AssetId : Target(r) = t
    BY <1>3, <1>a DEF RequestStep, CutShort, CompleteHead, CompleteDrop, CompleteReject,
       CompleteClaim, CompletePublish, CompleteRelease, RetryHead, RetryClaim, RetryPublish,
       RetryRelease, DeleteKeys, DeleteRow, DeleteDerived, DeleteOriginal, DeleteDocument
  <2>b. \A s \in Requests \ {r} : requestPc'[s] = requestPc[s] /\ requestAsset'[s] = requestAsset[s]
    BY <1>3, <1>a DEF GoOn, Respond, Publish, RequestStep, CutShort, CompleteHead, CompleteDrop,
       CompleteReject, CompleteClaim, CompletePublish, CompleteRelease, RetryHead, RetryClaim,
       RetryPublish, RetryRelease, DeleteKeys, DeleteRow, DeleteDerived, DeleteOriginal,
       DeleteDocument
  <2>1. CASE CompleteHead(r) \/ CompleteDrop(r) \/ RetryHead(r) \/ DeleteKeys(r) \/ DeleteRow(r)
             \/ DeleteDerived(r) \/ DeleteOriginal(r) \/ DeleteDocument(r) \/ CutShort(r)
             \/ CompletePublish(r) \/ RetryPublish(r)
    <3>1. \A a \in AssetId : assets'[a] = assets[a] \/ assets'[a].status = "DELETED"
      BY <2>1 DEF CompleteHead, CompleteDrop, RetryHead, DeleteKeys, DeleteRow, DeleteDerived,
         DeleteOriginal, DeleteDocument, CutShort, CompletePublish, RetryPublish, dbVars,
         DeleteRows, NoRow
    <3>2. \/ requestPc'[r] = "idle"
          \/ /\ requestAsset'[r] = requestAsset[r]
             /\ \/ requestPc[r] = "completeHead" /\ requestPc'[r] \in {"completeDrop", "completeClaim"}
                \/ requestPc[r] = "completePublish" /\ requestPc'[r] = "completeRelease"
                \/ requestPc[r] = "retryPublish" /\ requestPc'[r] = "retryRelease"
                \/ requestPc'[r] \in {"completeReject", "retryClaim"} \cup Deleting \cup Forgetting
      BY <2>1, <1>a DEF CompleteHead, CompleteDrop, RetryHead, DeleteKeys, DeleteRow, DeleteDerived,
         DeleteOriginal, DeleteDocument, CutShort, CompletePublish, RetryPublish, Publish, GoOn,
         Respond, Deleting, Forgetting
    <3>3. \A s \in Requests, a \in AssetId : /\ Submits(s, a)' => Submits(s, a)
                                             /\ Completes(s, a)' => Completes(s, a)
                                             /\ Retries(s, a)' => Retries(s, a)
      BY <2>b, <3>2 DEF Submits, Completes, Retries, Deleting, Forgetting
    <3> QED
      BY <3>1, <3>3, ClaimFrame
  <2>2. CASE CompleteRelease(r) \/ RetryRelease(r)
    <3>1. /\ \A b \in AssetId \ {t} : assets'[b] = assets[b]
          /\ requestPc'[r] = "idle" /\ Submits(r, t)
          /\ RetryRelease(r) => Retries(r, t)
      BY <1>a, <2>2, <2>a DEF CompleteRelease, RetryRelease, SetUnsubmitted, SetRetryReleased,
         Update, Respond, Submits, Retries, Target
    <3>2. \A s \in Requests, a \in AssetId : /\ Submits(s, a)' => Submits(s, a) /\ s # r
                                             /\ Completes(s, a)' => Completes(s, a)
                                             /\ Retries(s, a)' => Retries(s, a)
      BY <2>b, <3>1 DEF Submits, Completes, Retries
    <3>3. \A s \in Requests : ~Submits(s, t)'
      BY <3>1, <3>2 DEF ClaimInv
    <3>4. CASE Gone(t)
      <4>1. UNCHANGED assets
        BY <2>2, <2>a, <3>4 DEF CompleteRelease, RetryRelease, SetUnsubmitted, SetRetryReleased,
           Update, Exists, Status, Gone
      <4> QED
        BY <3>2, <4>1, ClaimFrame
    <3>5. CASE ~Gone(t) /\ RetryRelease(r)
      <4>1. \A s \in Requests : ~Completes(s, t)
        BY <3>1, <3>5 DEF ClaimInv
      <4> QED
        BY <3>1, <3>2, <3>3, <4>1, ClaimFrame
    <3>6. CASE ~Gone(t) /\ CompleteRelease(r)
      <4>1. Standing(t)' /\ assets'[t].submitted = "no"
        <5>1. Standing(t)
          BY <3>1, <3>6 DEF ClaimInv
        <5> QED
          BY <1>a, <2>a, <3>6, <5>1
          DEF CompleteRelease, SetUnsubmitted, Update, Standing, Exists, Status, Row
      <4>2. ASSUME NEW s \in Requests, NEW a \in AssetId
            PROVE  /\ Submits(s, a)' =>
                        Gone(a)' \/ (Standing(a)' /\ assets'[a].submitted = "fresh")
                   /\ Completes(s, a)' =>
                        Gone(a)' \/ (Standing(a)' /\ assets'[a].submitted # "stale")
        <5>1. CASE a = t
          BY <3>3, <4>1, <5>1
        <5>2. CASE a # t
          <6>1. assets'[a] = assets[a]
            BY <3>1, <5>2
          <6>2. (Gone(a)' <=> Gone(a)) /\ (Standing(a)' <=> Standing(a))
            BY <6>1 DEF Gone, Standing
          <6> QED
            BY <3>2, <6>1, <6>2 DEF ClaimInv
        <5> QED
          BY <5>1, <5>2
      <4>3. ASSUME NEW s \in Requests, NEW v \in Requests, NEW a \in AssetId
            PROVE  /\ Submits(s, a)' /\ Submits(v, a)' => s = v
                   /\ Completes(s, a)' /\ Retries(v, a)' => Gone(a)'
        <5>1. Submits(s, a)' /\ Submits(v, a)' => s = v
          BY <3>2 DEF ClaimInv
        <5>2. ASSUME Completes(s, a)', Retries(v, a)' PROVE Gone(a)'
          <6>1. a # t
            BY <3>3, <5>2 DEF Retries, Submits
          <6>2. Gone(a)
            BY <3>2, <5>2 DEF ClaimInv
          <6> QED
            BY <3>1, <6>1, <6>2 DEF Gone
        <5> QED
          BY <5>1, <5>2
      <4> QED
        BY <4>2, <4>3 DEF ClaimInv
    <3> QED
      BY <2>2, <3>4, <3>5, <3>6
  <2>3. CASE CompleteClaim(r) \/ RetryClaim(r)
    <3>1. CASE (Submittable(t) /\ CompleteClaim(r)) \/ (Retryable(t) /\ RetryClaim(r))
      <4>1. /\ ~Gone(t)
            /\ ~(Standing(t) /\ assets[t].submitted = "fresh")
            /\ RetryClaim(r) => ~(Standing(t) /\ assets[t].submitted # "stale")
        BY <3>1 DEF Submittable, Retryable, Exists, Status, Gone, Standing, CompleteClaim, RetryClaim
      <4>2. \A s \in Requests : ~Submits(s, t) /\ (RetryClaim(r) => ~Completes(s, t))
        BY <4>1 DEF ClaimInv
      <4>3. \A s \in Requests, a \in AssetId :
              /\ Submits(s, a)' => Submits(s, a) \/ (s = r /\ a = t)
              /\ Completes(s, a)' => Completes(s, a)
              /\ Retries(s, a)' => Retries(s, a) \/ (RetryClaim(r) /\ s = r /\ a = t)
        BY <3>1, <2>a, <2>b, <1>a
        DEF CompleteClaim, RetryClaim, GoOn, Respond, Submits, Completes, Retries, Target
      <4>4. \A b \in AssetId \ {t} : assets'[b] = assets[b]
        BY <1>a, <3>1, <2>a
        DEF CompleteClaim, RetryClaim, SetSubmitted, SetResubmitted, Update, Target
      <4>5. Standing(t)' /\ assets'[t].submitted = "fresh"
        <5>1. CASE CompleteClaim(r)
          <6>1. Completes(r, t)
            BY <5>1, <2>a DEF CompleteClaim, Completes, Target
          <6>2. Standing(t)
            BY <4>1, <6>1 DEF ClaimInv
          <6>3. Submittable(t)
            BY <3>1, <5>1 DEF CompleteClaim, RetryClaim
          <6> QED
            BY <1>a, <2>a, <5>1, <6>2, <6>3
            DEF CompleteClaim, SetSubmitted, Submittable, Update, Standing, Row
        <5>2. CASE RetryClaim(r)
          <6>1. Retryable(t) /\ Exists(t)
            BY <3>1, <5>2 DEF CompleteClaim, RetryClaim, Retryable, Exists, Status
          <6>2. SetResubmitted(t)
            BY <2>a, <5>2, <6>1 DEF RetryClaim, Target
          <6>3. assets'[t].status = "PENDING" /\ assets'[t].submitted = "fresh"
            BY <1>a, <6>1, <6>2 DEF SetResubmitted, Update, Row
          <6> QED
            BY <6>3 DEF Standing
        <5> QED
          BY <2>3, <5>1, <5>2
      <4>6. ASSUME NEW s \in Requests, NEW a \in AssetId
            PROVE  /\ Submits(s, a)' =>
                        Gone(a)' \/ (Standing(a)' /\ assets'[a].submitted = "fresh")
                   /\ Completes(s, a)' =>
                        Gone(a)' \/ (Standing(a)' /\ assets'[a].submitted # "stale")
        <5>1. CASE a = t
          BY <4>5, <5>1
        <5>2. CASE a # t
          <6>1. assets'[a] = assets[a]
            BY <4>4, <5>2
          <6>2. (Gone(a)' <=> Gone(a)) /\ (Standing(a)' <=> Standing(a))
            BY <6>1 DEF Gone, Standing
          <6> QED
            BY <4>3, <5>2, <6>1, <6>2 DEF ClaimInv
        <5> QED
          BY <5>1, <5>2
      <4>7. ASSUME NEW s \in Requests, NEW v \in Requests, NEW a \in AssetId
            PROVE  /\ Submits(s, a)' /\ Submits(v, a)' => s = v
                   /\ Completes(s, a)' /\ Retries(v, a)' => Gone(a)'
        <5>1. CASE a = t
          <6>1. Submits(s, a)' /\ Submits(v, a)' => s = r /\ v = r
            BY <4>2, <4>3, <5>1
          <6>2. ~(Completes(s, a)' /\ Retries(v, a)')
            <7>1. ~Retries(v, a)
              BY <4>2, <5>1 DEF Retries, Submits
            <7>2. RetryClaim(r) => ~Completes(s, a)
              BY <4>2, <5>1
            <7> QED
              BY <4>3, <7>1, <7>2
          <6> QED
            BY <6>1, <6>2
        <5>2. CASE a # t
          <6>1. Gone(a) => Gone(a)'
            BY <4>4, <5>2 DEF Gone
          <6> QED
            BY <4>3, <5>2, <6>1 DEF ClaimInv
        <5> QED
          BY <5>1, <5>2
      <4> QED
        BY <4>6, <4>7 DEF ClaimInv
    <3>2. CASE ~((Submittable(t) /\ CompleteClaim(r)) \/ (Retryable(t) /\ RetryClaim(r)))
      <4>1. UNCHANGED assets /\ requestPc'[r] = "idle"
        BY <1>a, <2>3, <2>a, <3>2 DEF CompleteClaim, RetryClaim, Respond
      <4>2. \A s \in Requests, a \in AssetId : /\ Submits(s, a)' => Submits(s, a)
                                               /\ Completes(s, a)' => Completes(s, a)
                                               /\ Retries(s, a)' => Retries(s, a)
        BY <2>b, <4>1 DEF Submits, Completes, Retries
      <4> QED
        BY <4>1, <4>2, ClaimFrame
    <3> QED
      BY <3>1, <3>2
  <2>4. CASE CompleteReject(r)
    <3>1. SetFailed(t) /\ requestPc'[r] = "idle"
      BY <1>a, <2>4, <2>a DEF CompleteReject, Respond
    <3>2. \A s \in Requests, a \in AssetId : /\ Submits(s, a)' => Submits(s, a)
                                             /\ Completes(s, a)' => Completes(s, a)
                                             /\ Retries(s, a)' => Retries(s, a)
      BY <2>b, <3>1 DEF Submits, Completes, Retries
    <3> QED
      BY <3>1, <3>2, FailedClaims
  <2> QED
    BY <1>3, <2>1, <2>2, <2>3, <2>4 DEF RequestStep
<1> QED
  BY <1>1, <1>2, <1>3 DEF ApiNext, ClientCall

LEMMA WorkerClaims ==
  ASSUME TypeInv, ClaimInv, ~LateFailure, WorkerNext, OnlyWorker
  PROVE  ClaimInv'
<1> PICK w \in Workers : WorkerStep(w) \/ WorkerTrouble(w)
  BY DEF WorkerNext
<1> DEFINE t == Asset(w)
<1>1. \A r \in Requests, a \in AssetId : /\ Submits(r, a)' <=> Submits(r, a)
                                         /\ Completes(r, a)' <=> Completes(r, a)
                                         /\ Retries(r, a)' <=> Retries(r, a)
  BY DEF OnlyWorker, apiVars, Submits, Completes, Retries
<1>2. \/ UNCHANGED assets
      \/ workerPc[w] # "idle" /\ Claimable(t) /\ SetProcessing(t)
      \/ workerPc[w] # "idle" /\ Exists(t) /\ SetDone(t)
      \/ workerPc[w] # "idle" /\ SetFailed(t)
  BY DEF dbVars, WorkerStep, WorkerTrouble, ReceiveJob, Claim, Download, Upload, SaveDocument,
     Commit, Finish, SaveVariants, Confirm, Ack, Nack, Announce, RetryOrGiveUp, Republish, Fail,
     AnnounceFailure, Break, CommitUnanswered, LoseConnection, CrashWorker
<1>3. workerPc[w] # "idle" => t \in AssetId
  BY DEF TypeInv, WorkerInv, Asset, Job
<1>4. CASE UNCHANGED assets
  BY <1>1, <1>4, ClaimFrame
<1>5. CASE t \in AssetId /\ Exists(t) /\ ((Claimable(t) /\ SetProcessing(t)) \/ SetDone(t))
  <2>1. /\ \A a \in AssetId : assets'[a] = assets[a] \/ a = t
        /\ assets'[t].submitted = assets[t].submitted
    BY <1>5, StatementFields
  <2>2. assets'[t].status \in {"PROCESSING", "DONE"}
    <3>1. assets \in [AssetId -> Row] /\ t \in AssetId
      BY <1>5 DEF TypeInv, DatabaseTypeOK
    <3>2. \A row : Update(t, row) => assets'[t] = row
      BY <1>5, <3>1 DEF Update
    <3> HIDE DEF t
    <3> QED
      BY <1>5, <3>1, <3>2 DEF SetProcessing, SetDone, Row
  <2> QED
    BY <1>1, <1>5, <2>1, <2>2, ClaimFrame DEF Standing, Gone, Exists, Status
<1>6. CASE t \in AssetId /\ SetFailed(t)
  BY <1>1, <1>6, FailedClaims
<1> QED
  BY <1>2, <1>3, <1>4, <1>5, <1>6 DEF Claimable, Exists, Status

LEMMA OtherClaims ==
  ASSUME TypeInv, ClaimInv,
         \/ CleanupNext /\ OnlyCleanup
         \/ NotifierNext /\ OnlyNotifier
         \/ OutsideNext /\ OnlyOutside
         \/ UNCHANGED vars
  PROVE  ClaimInv'
<1>1. UNCHANGED apiVars
  BY DEF OnlyCleanup, OnlyNotifier, OnlyOutside, vars
<1>2. \A r \in Requests, a \in AssetId : /\ Submits(r, a)' <=> Submits(r, a)
                                         /\ Completes(r, a)' <=> Completes(r, a)
                                         /\ Retries(r, a)' <=> Retries(r, a)
  BY <1>1 DEF apiVars, Submits, Completes, Retries
<1>3. CASE CleanupNext \/ NotifierNext \/ UNCHANGED vars
  <2>1. \A a \in AssetId : assets'[a] = assets[a] \/ assets'[a].status = "DELETED"
    BY <1>3, NotifierKeepsRows
    DEF CleanupNext, CleanupStep, CleanupSelect, CleanupFile, CleanupRows, CleanupCutShort,
        dbVars, DeleteRows, NoRow, vars
  <2> QED
    BY <1>2, <2>1, ClaimFrame
<1>4. CASE OutsideNext
  <2> PICK b \in AssetId : UploadFile(b) \/ StaleTime(b) \/ OldTime(b)
    BY <1>4 DEF OutsideNext
  <2>1. CASE UploadFile(b)
    BY <1>2, <2>1, ClaimFrame DEF UploadFile, dbVars
  <2>2. CASE StaleTime(b)
    <3>1. \A a \in AssetId \ {b} : assets'[a] = assets[a]
      BY <2>2 DEF StaleTime, BecomesStale
    <3>2. \A r \in Requests : ~Submits(r, b) /\ ~Completes(r, b)
      BY <2>2 DEF StaleTime, Submitting, Submits, Completes
    <3> QED
      BY <1>2, <3>1, <3>2, ClaimFrame
  <2>3. CASE OldTime(b)
    <3>1. \A a \in AssetId : /\ assets'[a].status = assets[a].status
                             /\ assets'[a].submitted = assets[a].submitted
      BY <2>3 DEF OldTime, BecomesOld, TypeInv, DatabaseTypeOK, Row
    <3> QED
      BY <1>2, <3>1 DEF ClaimInv, Standing, Gone
  <2> QED
    BY <2>1, <2>2, <2>3
<1> QED
  BY <1>3, <1>4

\* Two /complete, or two /retry, of one image never both reach the broker, however
\* requests, releases, cuts, deletions, time, workers and the cleanup interleave, as long
\* as no mark_failed writes FAILED over a row that a /complete or a /retry is at work on.
THEOREM PublishersAreAlone ==
  Spec /\ [][~LateFailure]_vars => []OnePublisherPerImage
<1>1. Init => TypeInv /\ ClaimInv
  <2>1. Init => ClaimInv
    BY DEF Init, ApiInit, ClaimInv, Submits, Completes
  <2> QED
    BY <2>1, TypeInvInit
<1>2. TypeInv /\ ClaimInv /\ [Next]_vars /\ [~LateFailure]_vars => (TypeInv /\ ClaimInv)'
  <2>1. CASE UNCHANGED vars
    BY <2>1, TypeInvStep, OtherClaims
  <2>2. CASE Next /\ ~LateFailure
    BY <2>2, TypeInvStep, WorkerClaims, ApiClaims, OtherClaims DEF Next
  <2> QED
    BY <2>1, <2>2
<1>3. TypeInv /\ ClaimInv => OnePublisherPerImage
  <2> SUFFICES ASSUME TypeInv, ClaimInv, NEW r \in Requests, NEW s \in Requests, r # s,
                      requestPc[r] = requestPc[s],
                      requestPc[r] \in {"completePublish", "retryPublish"}
               PROVE  requestAsset[r] # requestAsset[s]
    BY DEF OnePublisherPerImage
  <2>1. requestAsset[r] \in AssetId
    BY DEF TypeInv, RequestInv
  <2> QED
    BY <2>1 DEF ClaimInv, Submits
<1> QED
  BY <1>1, <1>2, <1>3, PTL DEF Spec

\* No file is beyond the limit, and no request has seen one that is.
NothingHuge ==
  /\ \A a \in AssetId : originals[a] # "huge"
  /\ \A r \in Requests : requestPc[r] \notin {"completeDrop", "completeReject"}

\* Then nobody but a worker gives a row a reason.
LEMMA OnlyWorkersFail ==
  ASSUME Workers = {}, "huge" \notin Uploads, TypeInv, NothingHuge, [Next]_vars
  PROVE  NothingHuge' /\ \A a \in AssetId : assets'[a].reason => assets[a].reason
<1>a. /\ assets \in [AssetId -> Row] /\ requestPc \in [Requests -> RequestPc]
      /\ originals \in [AssetId -> Content \cup {"none"}]
      /\ \A r \in Requests : requestPc[r] # "idle" => Target(r) \in AssetId
  BY DEF TypeInv, RequestInv, ApiTypeOK, Target, DatabaseTypeOK, StoresTypeOK
<1>1. CASE ApiNext
  <2>1. ASSUME NEW a \in AssetId, CreateAsset(a)
        PROVE  /\ UNCHANGED <<originals, requestPc>>
               /\ \A b \in AssetId : assets'[b].reason => assets[b].reason
    BY <1>a, <2>1 DEF CreateAsset, InsertAsset, NewRow
  <2>2. ASSUME NEW a \in AssetId, NEW r \in Requests,
               CompleteRead(r, a) \/ RetryRead(r, a) \/ DeleteRead(r, a)
        PROVE  /\ UNCHANGED <<assets, originals>>
               /\ \A s \in Requests : requestPc'[s] \notin {"completeDrop", "completeReject"}
    BY <1>a, <2>2
    DEF CompleteRead, RetryRead, DeleteRead, Begin, dbVars, storeVars, NothingHuge
  <2>3. ASSUME NEW r \in Requests, RequestStep(r) \/ CutShort(r)
        PROVE  /\ \A a \in AssetId : originals'[a] \in {originals[a], "none"}
               /\ \A s \in Requests : requestPc'[s] \notin {"completeDrop", "completeReject"}
               /\ \A a \in AssetId : assets'[a].reason => assets[a].reason
    <3>1. \A a \in AssetId : originals'[a] \in {originals[a], "none"}
      BY <1>a, <2>3
      DEF RequestStep, CutShort, CompleteHead, CompleteDrop, CompleteReject, CompleteClaim,
          CompletePublish, CompleteRelease, RetryHead, RetryClaim, RetryPublish, RetryRelease,
          DeleteKeys, DeleteRow, DeleteDerived, DeleteOriginal, DeleteDocument, RemoveOriginal,
          storeVars
    <3>2. \A s \in Requests : requestPc'[s] \notin {"completeDrop", "completeReject"}
      BY <1>a, <2>3
      DEF GoOn, Respond, Publish, RequestStep, CutShort, CompleteHead, CompleteDrop, CompleteReject,
          CompleteClaim, CompletePublish, CompleteRelease, RetryHead, RetryClaim, RetryPublish,
          RetryRelease, DeleteKeys, DeleteRow, DeleteDerived, DeleteOriginal, DeleteDocument,
          Target, NothingHuge
    <3>3. ~CompleteReject(r)
      BY DEF CompleteReject, NothingHuge
    <3>4. ASSUME CompleteClaim(r) \/ CompleteRelease(r) \/ RetryClaim(r) \/ RetryRelease(r)
          PROVE  \A a \in AssetId : assets'[a].reason => assets[a].reason
      <4>1. PICK t \in AssetId : Target(r) = t
        BY <1>a, <3>4 DEF CompleteClaim, CompleteRelease, RetryClaim, RetryRelease
      <4>2. \/ UNCHANGED assets
            \/ SetSubmitted(t) \/ SetUnsubmitted(t) \/ SetResubmitted(t) \/ SetRetryReleased(t)
        BY <3>4, <4>1 DEF CompleteClaim, CompleteRelease, RetryClaim, RetryRelease
      <4>3. \A row : Update(t, row) =>
                       \A a \in AssetId : assets'[a] = assets[a] \/ (a = t /\ assets'[a] = row)
        BY <1>a DEF Update
      <4>4. assets[t] \in Row
        BY <1>a
      <4>5. CASE UNCHANGED assets
        BY <4>5
      <4>6. CASE SetSubmitted(t)
        BY <4>3, <4>4, <4>6 DEF SetSubmitted, Row
      <4>7. CASE SetUnsubmitted(t)
        BY <4>3, <4>4, <4>7 DEF SetUnsubmitted, Row
      <4>8. CASE SetResubmitted(t)
        <5>1. ~[assets[t] EXCEPT !.status = "PENDING", !.reason = FALSE, !.submitted = "fresh"].reason
          BY <4>4 DEF Row
        <5> QED
          BY <4>3, <4>8, <5>1 DEF SetResubmitted
      <4>9. CASE SetRetryReleased(t)
        <5>1. [assets[t] EXCEPT !.status = "FAILED", !.submitted = "no"].reason = assets[t].reason
          BY <4>4 DEF Row
        <5> QED
          BY <4>3, <4>9, <5>1 DEF SetRetryReleased
      <4> QED
        BY <4>2, <4>5, <4>6, <4>7, <4>8, <4>9
    <3>5. ASSUME ~(CompleteClaim(r) \/ CompleteRelease(r) \/ RetryClaim(r) \/ RetryRelease(r))
          PROVE  \A a \in AssetId : assets'[a].reason => assets[a].reason
      <4>1. UNCHANGED assets \/ \E a \in AssetId : DeleteRows({a})
        BY <1>a, <2>3, <3>3, <3>5
        DEF RequestStep, CutShort, CompleteHead, CompleteDrop, CompletePublish, RetryHead,
            RetryPublish, DeleteKeys, DeleteRow, DeleteDerived, DeleteOriginal, DeleteDocument,
            dbVars
      <4> QED
        BY <4>1 DEF DeleteRows, NoRow
    <3> QED
      BY <3>1, <3>2, <3>4, <3>5
  <2> QED
    BY <1>1, <2>1, <2>2, <2>3 DEF ApiNext, ClientCall, NothingHuge
<1>2. CASE CleanupNext /\ OnlyCleanup
  <2>1. /\ \A a \in AssetId : originals'[a] \in {originals[a], "none"}
        /\ \A a \in AssetId : assets'[a].reason => assets[a].reason
    BY <1>2, <1>a
    DEF CleanupNext, CleanupStep, CleanupSelect, CleanupFile, CleanupRows, CleanupCutShort,
        RemoveOriginal, dbVars, storeVars, DeleteRows, NoRow
  <2> QED
    BY <1>2, <2>1 DEF OnlyCleanup, apiVars, NothingHuge
<1>3. CASE NotifierNext /\ OnlyNotifier
  <2>1. UNCHANGED <<assets, originals, requestPc>>
    BY <1>3, NotifierKeepsRows DEF OnlyNotifier, storeVars, apiVars
  <2> QED
    BY <2>1 DEF NothingHuge
<1>4. CASE OutsideNext /\ OnlyOutside
  <2> PICK b \in AssetId : UploadFile(b) \/ StaleTime(b) \/ OldTime(b)
    BY <1>4 DEF OutsideNext
  <2>1. \A a \in AssetId : originals'[a] # "huge"
    BY <1>a DEF UploadFile, StaleTime, OldTime, storeVars, NothingHuge
  <2>2. \A a \in AssetId : assets'[a].reason => assets[a].reason
    BY <1>a
    DEF UploadFile, StaleTime, OldTime, BecomesStale, BecomesOld, dbVars, Row
  <2> QED
    BY <1>4, <2>1, <2>2 DEF OnlyOutside, apiVars, NothingHuge
<1>5. CASE UNCHANGED vars
  BY <1>5 DEF vars, dbVars, storeVars, apiVars, NothingHuge
<1> QED
  BY <1>1, <1>2, <1>3, <1>4, <1>5 DEF Next, WorkerNext

\* Before any worker, and for files within the limit, no mark_failed is late: requests
\* alone, with their releases and cuts, never publish one image together.
COROLLARY RequestsPublishAlone ==
  ASSUME Workers = {}, "huge" \notin Uploads
  PROVE  Spec => []OnePublisherPerImage
<1>1. Init => NothingHuge
  BY DEF Init, ApiInit, NothingHuge
<1>2. TypeInv /\ NothingHuge /\ [Next]_vars => NothingHuge'
  BY OnlyWorkersFail
<1>3. TypeInv /\ NothingHuge /\ ReasonMeansFailed /\ [Next]_vars => [~LateFailure]_vars
  <2> SUFFICES ASSUME TypeInv, NothingHuge, ReasonMeansFailed, [Next]_vars,
                      NEW a \in AssetId, Exists(a), assets[a].status # "FAILED", SetFailed(a)
               PROVE  FALSE
    BY DEF LateFailure
  <2>1. assets'[a].reason
    BY DEF SetFailed, Update, TypeInv, DatabaseTypeOK, Row
  <2> QED
    BY <2>1, OnlyWorkersFail DEF ReasonMeansFailed
<1> QED
  BY <1>1, <1>2, <1>3, TypeInvAlways, ReasonAlwaysMeansFailed, PublishersAreAlone, PTL DEF Spec

=============================================================================
