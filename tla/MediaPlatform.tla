--------------------------- MODULE MediaPlatform ---------------------------
(***************************************************************************)
(* The platform: clients, API service, workers, notifier and cleanup, over *)
(* the shared database, stores and broker.  One step of one component at a *)
(* time.                                                                   *)
(***************************************************************************)
EXTENDS WorkerService, ApiService, CleanupJob, NotificationService

CONSTANTS
  Accepted,     \* images already accepted, with their job queued, at the start
  Uploads,      \* the files clients may upload
  TimePasses    \* which thresholds time may cross: "stale", "old"

ASSUME PlatformAssumption ==
  /\ Accepted \subseteq AssetId
  /\ Uploads \subseteq Content

vars == <<dbVars, storeVars, jobVars, eventVars, workerVars, apiVars, cleanupVars,
          notifierVars, faults>>

TypeOK ==
  /\ DatabaseTypeOK /\ StoresTypeOK /\ BrokerTypeOK /\ FaultsTypeOK
  /\ WorkerTypeOK /\ ApiTypeOK /\ CleanupTypeOK /\ NotifierTypeOK

\* Every accepted image has been through /complete: its file is there, within
\* the size limit, and one message for it is in the queue.
Init ==
  /\ assets = [a \in AssetId |->
                 IF a \in Accepted THEN [NewRow EXCEPT !.submitted = "fresh"]
                 ELSE NoRow("ABSENT")]
  /\ variants = [a \in AssetId |-> {}]
  /\ notices = [a \in AssetId |-> [e \in EventKind |-> "none"]]
  /\ originals \in [AssetId -> {"none", "valid", "corrupt"}]
  /\ \A a \in AssetId : originals[a] = "none" <=> a \notin Accepted
  /\ derived = [a \in AssetId |-> {}]
  /\ documents = {}
  /\ links = {}
  /\ jobs = [j \in Job |-> IF j.asset \in Accepted /\ j.attempt = 1 THEN 1 ELSE 0]
  /\ jobLease = [w \in Workers |-> NoJob]
  /\ deadJobs = EmptyQueue(Job)
  /\ events = EmptyQueue(Event)
  /\ eventLease = [n \in Notifiers |-> NoEvent]
  /\ deadEvents = EmptyQueue(Event)
  /\ announced = {}
  /\ FaultsInit /\ WorkerInit /\ ApiInit /\ CleanupInit /\ NotifierInit

-----------------------------------------------------------------------------
(* The clients' files and the passing of time: external. *)

\* The client puts a file where its signed link says, as often as it likes while
\* the link works.
UploadFile(a) ==
  /\ a \in links
  /\ originals' \in {[originals EXCEPT ![a] = c] : c \in Uploads}
  /\ UNCHANGED <<derived, documents, links, dbVars, jobVars, eventVars>> /\ Smooth

\* stale_job_seconds (600 s) go by since submitted_at.  gunicorn ends a request
\* after 30 s: the one that set submitted_at is over by then, and so is every
\* /complete or /retry that had read the row before.
StaleTime(a) ==
  /\ "stale" \in TimePasses
  /\ \A r \in Requests : requestAsset[r] = a => requestPc[r] \notin Submitting
  /\ BecomesStale(a)
  /\ UNCHANGED <<storeVars, jobVars, eventVars>> /\ Smooth

\* The cleanup's 24 hours go by since created_at; the link lasted 15 minutes.
OldTime(a) ==
  /\ "old" \in TimePasses
  /\ BecomesOld(a)
  /\ links' = links \ {a}
  /\ UNCHANGED <<originals, derived, documents, jobVars, eventVars>> /\ Smooth

OutsideNext == \E a \in AssetId : UploadFile(a) \/ StaleTime(a) \/ OldTime(a)

-----------------------------------------------------------------------------

OnlyWorker == UNCHANGED <<apiVars, cleanupVars, notifierVars>>
OnlyApi == UNCHANGED <<workerVars, cleanupVars, notifierVars>>
OnlyCleanup == UNCHANGED <<workerVars, apiVars, notifierVars>>
OnlyNotifier == UNCHANGED <<storeVars, workerVars, apiVars, cleanupVars>>
OnlyOutside == UNCHANGED <<workerVars, apiVars, cleanupVars, notifierVars>>

Next ==
  \/ WorkerNext /\ OnlyWorker
  \/ ApiNext /\ OnlyApi
  \/ CleanupNext /\ OnlyCleanup
  \/ NotifierNext /\ OnlyNotifier
  \/ OutsideNext /\ OnlyOutside

Spec == Init /\ [][Next]_vars

\* The services keep running: Kubernetes restarts what dies, the consumers
\* reconnect, a request is served to its end.  Clients, time and failures owe
\* nothing.
Fairness ==
  /\ \A w \in Workers : WF_vars(WorkerStep(w) /\ OnlyWorker)
  /\ \A r \in Requests : WF_vars(RequestStep(r) /\ OnlyApi)
  /\ \A n \in Notifiers : WF_vars(NotifierStep(n) /\ OnlyNotifier)

FairSpec == Spec /\ Fairness

-----------------------------------------------------------------------------
(* Safety. *)

\* A DONE image is whole, whatever was retried, redelivered or raced: its three
\* variant rows, their objects and its metadata document are there.
\* consumer.py writes the objects and the document before the rows and the
\* status ("quello stato deve significare: tutto al suo posto").
DoneIsComplete ==
  \A a \in AssetId :
    assets[a].status = "DONE" =>
      variants[a] = Kinds /\ derived[a] = Kinds /\ a \in documents

\* A variant row never points to an object that is not there: files before rows
\* when the worker writes (consumer.py), rows before files when the API service
\* deletes (routes.py, delete_asset).
RowsHaveObjects ==
  \A a \in AssetId :
    /\ variants[a] \subseteq derived[a]
    /\ variants[a] # {} => a \in documents

\* A stored reason belongs to a failed image: whoever moves an image out of
\* FAILED clears error_message, and nobody writes one on a row left in another
\* status (routes.py, retry_asset; db.py, mark_done and mark_failed).
ReasonMeansFailed ==
  \A a \in AssetId : assets[a].reason => assets[a].status = "FAILED"

\* Nothing the broker, a worker or a request does loses the job of a good file: as
\* long as the submitted image is not settled, a message for it is queued, in a
\* worker's hands or in the dead letter queue, once no request is at work on it
\* (consumer.py: ack after the work, the new attempt published before the ack of the
\* old one; routes.py: a claim is published or released).
GoodFileKeepsItsJob ==
  \A a \in AssetId :
    /\ Claimable(a) /\ assets[a].submitted # "no" /\ originals[a] = "valid"
    /\ \A r \in Requests : requestAsset[r] # a
    => Queued(a) \/ Leased(a) \/ DeadLettered(a)

\* The dead letter queue of the jobs holds last attempts only, as long as the
\* broker refuses no publication: an earlier attempt is always republished
\* (consumer.py, _retry_or_give_up and _handle_safely).
DeadLettersAreLastAttempts ==
  \A j \in Job : deadJobs[j] > 0 => j.attempt = MaxAttempts

\* Two /complete, or two /retry, for one image never both reach the broker: the
\* claim in SQL lets one through, however requests, releases and the cleanup
\* interleave (routes.py, complete_upload and retry_asset).  That is as long as
\* nobody writes FAILED over a row that is being published: an oversized file and
\* a late worker do, with no condition on the row.
OnePublisherPerImage ==
  \A r, s \in Requests :
    /\ r # s
    /\ requestPc[r] = requestPc[s]
    /\ requestPc[r] \in {"completePublish", "retryPublish"}
    => requestAsset[r] # requestAsset[s]

\* A 202 is a promise kept by the broker: once no request is at work on it, a
\* submitted image that waits has its job in the queue, in a worker's hands or in
\* the dead letter queue, however the publications of the requests for it went
\* and whatever older messages did (routes.py: the claim is released when
\* publish_job raises; queue.py: publish_job returns only after the broker's
\* confirm).  For requests served to their end.
SubmittedHasJob ==
  \A a \in AssetId :
    /\ Exists(a) /\ assets[a].status = "PENDING" /\ assets[a].submitted # "no"
    /\ \A r \in Requests : requestAsset[r] # a
    => Queued(a) \/ Leased(a) \/ DeadLettered(a)

\* A notice marked sent was taken by the channel at least once: an empty
\* sent_at is what a failed delivery looks like (notifier/db.py, mark_sent).
SentWasDelivered ==
  \A a \in AssetId, e \in EventKind : notices[a][e] = "sent" => delivered[a][e] > 0

\* "A failure costs a repetition, never a silence" (notifier/consumer.py): an
\* event the broker accepted is still in a queue, in the notifier's hands or in
\* the dead letter queue, or the owner's notice was sent; unless the image is gone.
NeverSilent ==
  \A p \in announced :
    \/ ~Exists(p[1])
    \/ notices[p[1]][p[2]] = "sent"
    \/ \E m \in Event : m.asset = p[1] /\ m.kind = p[2] /\ events[m] + deadEvents[m] > 0
    \/ \E n \in Notifiers : eventLease[n].asset = p[1] /\ eventLease[n].kind = p[2]

-----------------------------------------------------------------------------
(* Steps that may never be taken. *)

\* Once deleted, by its owner or by the cleanup, an image stays deleted and
\* nothing about it reappears in the database, whatever message, request or
\* event was still about it.
DeletedStaysDeleted ==
  [][\A a \in AssetId :
       assets[a].status = "DELETED" =>
         /\ assets'[a].status = "DELETED"
         /\ variants'[a] = {}
         /\ \A e \in EventKind : notices'[a][e] = "none"]_vars

(***************************************************************************)
(* The platform implements AssetLifecycle: the stage of an image is what   *)
(* status and submitted_at say together.                                   *)
(***************************************************************************)
StageOf(a) ==
  CASE assets[a].status = "ABSENT"     -> "none"
    [] assets[a].status = "DELETED"    -> "removed"
    [] assets[a].status = "PENDING"    -> IF assets[a].submitted = "no"
                                          THEN "registered" ELSE "waiting"
    [] assets[a].status = "PROCESSING" -> "working"
    [] assets[a].status = "DONE"       -> "done"
    [] assets[a].status = "FAILED"     -> "failed"

Lifecycle == INSTANCE AssetLifecycle WITH stage <- [a \in AssetId |-> StageOf(a)]

\* Every step of every component moves an image as AssetLifecycle allows: no
\* message, retry or request takes a DONE image back to work, or brings back a
\* removed one.
FollowsLifecycle == Lifecycle!Spec

-----------------------------------------------------------------------------
(* Liveness, under FairSpec. *)

\* An accepted good file is eventually settled, or its job ends as a dead letter
\* somebody can look at: crashes and lost connections only delay it.
AcceptedIsSettled ==
  \A a \in AssetId :
    (Claimable(a) /\ originals[a] = "valid" /\ Queued(a))
      ~> (~Claimable(a) \/ DeadLettered(a))

\* An announced event ends as a sent notice or as a dead letter, unless its
\* image is deleted first.
AnnouncedIsNotified ==
  \A a \in AssetId, e \in EventKind :
    (<<a, e>> \in announced)
      ~> (\/ ~Exists(a)
          \/ notices[a][e] = "sent"
          \/ \E m \in Event : m.asset = a /\ m.kind = e /\ deadEvents[m] > 0)

-----------------------------------------------------------------------------
(* What the documents and comments promise and the code does not keep. *)

\* worker/db.py, claim_asset: DONE is a final state, and a message about an image
\* in it is skipped.  A DONE image is never anything else until it is deleted.
DoneIsFinal ==
  [][\A a \in AssetId :
       assets[a].status = "DONE" => assets'[a].status \in {"DONE", "DELETED"}]_vars

\* cleanup.py: the rows it deletes never became images, no job was ever published
\* for them.  It never deletes an image whose outcome was already announced.
CleanupSparesImages ==
  [][\A a \in AssetId :
       /\ cleanupPc = "rows" /\ cleanupPc' = "idle"
       /\ Exists(a) /\ assets'[a].status = "DELETED"
       => \A e \in EventKind : <<a, e>> \notin announced]_vars

\* queue.py, publish_job: "an error here means the job was not queued"; and
\* cleanup.py: no job was ever published for a row whose submitted_at is NULL.
UnsubmittedHasNoJob ==
  \A a \in AssetId :
    Exists(a) /\ assets[a].submitted = "no" => ~Queued(a) /\ ~Leased(a)

\* notifier/consumer.py: repeating is safe, nobody is told the same thing twice.
NotifiedOnce ==
  \A a \in AssetId, e \in EventKind : delivered[a][e] <= 1

=============================================================================
