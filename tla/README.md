# The image platform in TLA+

A formal model of the image processing platform: the API service, the workers,
the notifier and the nightly cleanup over one database, one broker and two
stores, and of what stands around it: the process of a consumer, the jobs of an
installation, the reads, the inbox, the accounts. The modules are translated from
`src/services`; the configurations check them with TLC on small instances; eight
proof modules hold theorems checked by TLAPS for every size of the system.

## 1. The system

A client registers an image (`POST /assets`), uploads the file straight to the
object store with a signed link, and says it is done (`POST .../complete`). The
API service claims the row in SQL, publishes a job and answers 202. A worker takes
the job, moves the row to `PROCESSING`, uploads three variants, writes a metadata
document, then commits the variant rows and `DONE` in one transaction, confirms
the message and publishes an event. The notifier takes the event, records a notice,
sends it and marks it sent. Failed or stuck images go round again on
`POST .../retry`; `DELETE` forgets an image; a CronJob removes registrations that
were never completed.

| Component | State it keeps | Operations that change it | Talks to |
|---|---|---|---|
| database (migrations 001-003) | `assets`, `variants`, `notifications` | the SQL statements of all services | - |
| object store, document store | originals, derived objects, metadata documents | put, delete, replace | clients (signed links) |
| broker (`media_common/queue.py`) | job queue, event queue, their dead letter queues, unconfirmed messages | publish, deliver, ack, nack, redeliver | API, workers, notifier |
| api-service (`app/assets/routes.py`) | nothing between requests | create, complete, retry, delete | database, stores, broker |
| worker-service (`worker/consumer.py`, `processor.py`, `db.py`) | the message in hand | claim, process, commit, retry, give up | all |
| notification-service (`notifier/consumer.py`, `db.py`) | the event in hand | record, send, mark, retry, give up | database, broker, channel |
| cleanup (`app/cleanup.py`) | the selected batch | remove files, delete rows | database, object store |
| consumer process (`queue.py`, `consumer.py`, `main.py`) | its connection, the cached channel and its lock, the shutdown event, the flag | connect, consume, publish, check, stop | broker, probes, Kubernetes |
| library reads (`routes.py`, `metadata_dynamo.py`) | the request's search, count and page | search, count, read | database, document store |
| inbox (`notifications/routes.py`, `notifications.service.ts`) | the instant the browser remembers | list, mark, count | database |
| authentication (`auth/routes.py`) | table `users` | register, login | database |
| migrations, buckets | the schema, the buckets | apply, create | database, object store |
| readiness (`health.py`), DLQ watch | nothing; an exit code | probe, count | all |
| images and EXIF (`images.py`, `exif.py`) | nothing | upright, extract, resize | - |
| frontend's upload batch and library page | the batch, the polled page | see section 7 | API, object store |

What is hard in it:

- nothing is atomic across the database, the stores and the broker: every
  handler is a sequence of independent effects that can stop after any of them;
- messages are redelivered when a connection drops while their consumer is still
  busy, and doubled when the confirm of a publication is lost: two workers may
  work on one image;
- the API acts on a copy of the row it read earlier, and only some of its writes
  repeat the condition they were decided on;
- retries are counted in a header of the message, republication and confirmation
  being two steps;
- the cleanup selects, then removes files, then deletes what matches *by then*;
- the notice is sent outside any transaction;
- one process has a consuming thread and probe threads on one cached connection,
  which can be dead without looking so; a shutdown can find it anywhere;
- a search reads the document store page by page, then the database statement by
  statement, while workers write and clients delete;
- the jobs of an installation start together, restart over what they left, and two
  releases' jobs can overlap;
- the answers a browser waits for come back in any order, over a table whose stamps are
  the starts of transactions.

What makes each component correct: the worker never says more than what is stored
(`DoneIsComplete`, `RowsHaveObjects`) and never loses the job of a good file
(`GoodFileKeepsItsJob`, `AcceptedIsSettled`, `DeadLettersAreLastAttempts`); the API
publishes once per acceptance and keeps its 202 (`OnePublisherPerImage`,
`SubmittedHasJob`), clears what it invalidates (`ReasonMeansFailed`) and
forgets for good (`DeletedStaysDeleted`); the notifier never falls silent and never
claims a delivery that did not happen (`NeverSilent`, `SentWasDelivered`,
`AnnouncedIsNotified`); together they move an image only along its life cycle
(`FollowsLifecycle`). A process publishes as its callers believe
(`PublishesAsPromised`), heeds a shutdown without dropping what it holds
(`StopIsHeeded`, `NothingAbandoned`), recovers by itself (`ProcessConsumesAgain`) and
tells the truth to its probes (`ConsumingIsTrue`, `GoneBrokerIsSeen`); a migration
leaves a whole schema (`SchemaIsWhole`, `NoFileRunsTwice`); an installation becomes
ready with nobody waiting for anybody (`InstallationReadyAtLast`); a search finds
everything or says it was cut (`SearchFindsAll`), a page is a page (`PagesAddUp`), what is
shown as done is shown whole (`ShownDoneIsWhole`); a notice nobody saw stays new, unless a
full page of newer ones stood in its place or a second notifier overtook it
(`NewIsNeverMissed`).

## 2. Modules

| Module | Models | State | Actions |
|---|---|---|---|
| `Faults` | the environment's failures (external) | `faults`, a budget | `Fault(kind)`, `Smooth` |
| `Database` | the three tables, one operator per SQL statement | `assets`, `variants`, `notices` | `SetProcessing`, `SetDone`, `SetFailed`, `SaveVariants`, `SetSubmitted`, `DeleteRows`, `RecordNotice`, ... |
| `Stores` | buckets, documents, signed links | `originals`, `derived`, `documents`, `links` | puts and removals |
| `Broker` | RabbitMQ as `queue.py` uses it | `jobs`, `jobLease`, `deadJobs`, the same for events, `announced` | publish, deliver, ack, nack, requeue |
| `WorkerService` | `worker/consumer.py`, `processor.py` | `workerPc`, `workerJob`, `nextKind`, `settlement` | one per statement, storage call or broker call of the handler; `Break`, `CommitUnanswered`, `LoseConnection`, `CrashWorker` |
| `ApiService` | `routes.py`: create, complete, retry, delete | `requestPc`, `requestAsset`, `requestKeys`, `calls` | one per statement of the request; `CutShort` |
| `CleanupJob` | `cleanup.py` | `cleanupPc`, `batch`, `nights` | `CleanupSelect`, `CleanupFile`, `CleanupRows`, `CleanupCutShort` |
| `NotificationService` | `notifier/consumer.py`, `db.py` | `notifierPc`, `notifierEvent`, `delivered` | one per step of the handler, plus failures |
| `MediaPlatform` | the composition, clients' uploads, the passing of time, all properties | the above | `Next`, interleaving |
| `AssetLifecycle` | abstract: the stages of an image | `stage` | `Register`, `Accept`, `Withdraw`, `Start`, `Settle`, `Again`, `Remove` |
| `MCPlatform` | TLC's entry point (symmetry) | | |
| `Publication` | abstract: one publication, from its call to its outcome | `phase`, `taken` | `Begin`, `Accept`, `Return`, `Raise`, `End` |
| `PublishChannel` | `JobQueue` in one process: lock, cached channel, second try, `check` | `cached`, `lock`, `queuePc`, `attempt`, `copies`, `broker` | `Call`, `Acquire`, `Ensure`, `Send`, `SendFails`, `SendUnconfirmed`, `Check`, `HeartbeatMissed` |
| `ConsumerProcess` | `connect_patiently`, `run`, `_consume`, `main`, the readiness probe; signals and restarts | `mainPc`, `link`, `delay`, `stopAsked`, `consuming`, `inHand`, `answer` | one per step of the thread, `Probe`, `Answer`, `Sigterm`, `Restart`, `BrokerLost`, `LinkLost` |
| `Migrations` | `db/migrations.py` and its Kubernetes job | `applied`, `migrationLock`, `migPc`, `seen`, `pending`, `starts` | connect, lock, read, apply, commit, close, restart, die |
| `Readiness` | `buckets.py`, `health.py` on a first installation | `present`, `buckets`, `bucketPc`, `looksOpen`, `apiReady` | `WaitForStorage`, `CreateBucket`, `BucketsStartAgain`, `ProbeApi`, `RequestPublishes` |
| `LibraryReads` | `list_assets`, `get_asset`, the DynamoDB search, against the writers | `backend`, `readPc`, `cursor`, `matches`, `total`, `rows`, `pictures`, `technical` | `Search`, `Count`, `ReadRows`, `ReadVariants`, `Detail...`, and the writes of `Database` |
| `Inbox` | `list_notifications`, the notifier's transactions, `notifications.service.ts` | `shelf`, `openings`, `seenUpTo`, `countSince` | `BeginNotice`, `CommitNotice`, `ReadInbox`, `ShowInbox`, `AskCount`, `CountNotices` |
| `Accounts` | `auth/routes.py` over `users` | `users`, `authPc`, `form` | `Register`, `InsertUser` |
| `DeadLetterWatch` | `dlq_watch.py` | `watchPc`, `deadTotal`, `exitCode`, `dead` | `CountQueue`, `WatchFails`, `ReportDead` |
| `ImageData` | `images.py`, `exif.py` for one image | `stage`, `upright`, `metadata`, `sizes` | `OpenImage`, `ExtractExif`, `MakeVariant` |
| `Surroundings` | the eight above side by side, one per behaviour, with their fairness | `part` and all of them | `SurroundingsNext` |
| `MCSurroundings` | TLC's entry point | | |
| `PlatformProofs`, `SafetyProofs` | type correctness and the safety theorems of the platform | | |
| `DeliveryProofs` | the refinement of `AssetLifecycle`, and the theorems about events, jobs and claims | | |
| `ProcessProofs`, `MigrationsProofs`, `ReadsProofs` | the theorems of the process, the migrations and the reads | | |
| `PartsProofs` | those of the inbox, the accounts, the watch, the readiness and the image data | | |
| `SurroundingsProofs` | what is proved of each part, for the behaviours of `Surroundings` | | |

Abstractions. A row keeps its status, whether `submitted_at` is NULL, recent or
older than `stale_job_seconds`, whether `error_message` is set, and whether
`created_at` is beyond the cleanup's age. A file is good, unreadable or oversized. An
object is known by its image and kind because the code's keys are deterministic. A queue
is a bag: with several consumers, redelivery and republication the services
get no order they could rely on. A transaction is one step when nothing of
another component can be seen between its statements; `delete_asset`, which runs
at READ COMMITTED and reads without a lock, is one step per statement. Identifiers are
random in the code, so a deleted one never returns. Operators whose
comment begins with "Mutation" are wrong on purpose: each is the body a
property is known to reject, and no specification uses them.

In the surroundings: a message is taken, may publish and is settled, and
`PublishChannel` is shown to implement `Publication`, whose outcomes (accepted once or
twice when it returns, anything from none to two when it raises) are those
`MediaPlatform` gives to a publication. A cached channel is live, dead and not known to
be, closed, or absent; `is_open` cannot tell the first two apart. A migration file
is its place in the order of names; a release knows a number of them. A query of DynamoDB
reads any stretch of the documents past the cursor and may say there is more when
there is none, as the service may. The document store is MongoDB or DynamoDB, chosen at the
start. `documents` is what a search can see: MongoDB's collection, or the index `by_user` of
DynamoDB, which is eventually consistent, so that a worker may go on before the index has
its document. For the same reason `get_item`, which the code does not ask for a consistent read
(`metadata_dynamo.py:89`), may answer either way; `find_one` answers from the collection. Which images match a search is a constant:
the condition's text is not modelled, the paging is. A notice is its `created_at`, the start of
the transaction that writes it, so it may be committed after a later read, or after a newer
notice when a rollout has two notifiers overlap (`replicas: 1` with the default
`RollingUpdate`). The first page is cut at its size (20 in the browser, 2 in the run); further
pages mark nothing and are left out. A tag's
value has the type Pillow gives it, and a number's terms: a pair, Pillow's own fraction, a
number, text that spells one (`float()` reads it) or other text; text that spells infinity or
no number at all (`nan`) is not among the values. `metadata` is what `_collect` gathered: how
`_format_exposure` and the like word it loses digits and is left out. Numbers are compared as
fractions, floats being the nearest to them. Sizes are the real ones. Locals
of a handler are cleared in the models where the code uses them last.

Failures. `Fault(kind)` is conjoined where the code meets that failure, and
what the code does about it is the rest of the action: a transaction that rolled
back or one that committed and whose answer was lost, a storage call, a publisher
that cannot reach the broker, a lost confirm (zero, one or two copies in the
queue), a refused publication, a dropped consumer connection, a dead process, a request
cut short, a channel that raises.

## 3. The runs

All runs but the last two use `MCPlatform`. Deadlock checking is off: the clients, the failures and
the nights are bounded, and a platform with nothing left to do stops.

| Run | Instance | Shows |
|---|---|---|
| `worker` | 2 workers, 1 image, 3 variants, 3 attempts, 1 request, 1 call, 4 failures | `TypeOK`, `DoneIsComplete`, `GoodFileKeepsItsJob`, `DeadLettersAreLastAttempts` |
| `api` | 3 requests, 1 image, 6 calls, 3 lost publications, confirms or cleanup crashes, 1 night, stale and old rows | `OnePublisherPerImage` |
| `accepted` | 1 worker, 2 requests, 1 image, 4 calls, 2 attempts, 2 failures, 1 night, stale and old rows | `SubmittedHasJob` |
| `platform` | 1 worker, 2 requests, 1 image, 4 calls, 2 variants, 2 attempts, oversized files, 1 failure of any kind the API, the worker or the cleanup meets | `RowsHaveObjects`, `ReasonMeansFailed`, `DeletedStaysDeleted`, `FollowsLifecycle` |
| `fair` | 1 worker, 1 request, 1 notifier, 2 attempts, 2 failures, fairness | `SentWasDelivered`, `NeverSilent`, `DeletedStaysDeleted`, `AcceptedIsSettled`, `AnnouncedIsNotified` |
| `done_final`, `unsubmitted`, `notified_once`, `cleanup_spares`, `oversize` | the smallest instance each | a counterexample, section 6 |
| `surroundings` | `MCSurroundings`: see below | sixteen invariants and nine properties, one to nine per component |
| `exif` | `MCSurroundings` | a counterexample, section 6 |

`surroundings` checks eight independent components in one run: `part` is
chosen at the start, the others stay as they begin, so every behaviour is one of a
single component and the state space is the sum of theirs, not the product (175,886 distinct
states). Each may be read alone:

| Part | Instance | States | Shows |
|---|---|---|---|
| process | 1 probe thread beside the consumer, 2 troubles, pauses 1 and 2 | 35,203 | `OneThreadOnTheChannel`, `RaisesOnlyInTrouble`, `ConsumingIsTrue`, `PublishesAsPromised`, `NothingAbandoned`, `StopIsHeeded`, `RefusalIsNotHidden`, `GoneBrokerIsSeen`, `ProcessConsumesAgain` |
| migrations | 2 pods, releases of 1 and 3 files, over every earlier schema, 2 outages, 2 restarts each | 4,917 | `SchemaIsWhole`, `NoFileRunsTwice`, `DoneIsUpToDate`, `MigrationJobsEnd` |
| readiness | 3 services, 2 absences, 2 restarts | 1,811 | `BucketRerunIsHarmless`, `InstallationReadyAtLast` |
| library | 3 images of which 2 match, match limit 2, page size 2, pages 0 and 2 asked for, either document store; one image may fail, be retried and be deleted | 104,575 | `SearchFindsAll`, `ListsOnlyMatches`, `PagesAddUp`, `ShownDoneIsWhole` |
| inbox | 2 notifiers, a first page of 2, 3 notices, 2 answers in flight | 17,389 | `NewIsNeverMissed` |
| accounts | 2 requests, 2 addresses in 3 spellings, 2 passwords | 2,082 | `RegistrantsOwnTheirAccount` |
| watch | 2 queues of up to 2 messages | 320 | `QuietMeansEmpty` |
| image | 11 sizes, 2 orientations, 3 targets, 9 tag values | 9,570 | `VariantsKeepThePicture`, `TagsAreKept` |

Two troubles let the cached channel die, and the second try meet one more; one
probe thread is enough to race with the consumer for the lock (the theorem is for
any number). Two pods of different releases are what Helm can make run together.
Three images with a limit of two let a search be cut and a page be empty in the middle;
page 0 is what `max(1, page)` is for, size 3 is beyond the maximum. Three notices
let one be written before, one during and one after an answer, and are one more than a first
page holds; two answers in flight can cross, and two notifiers can commit in the other order.
The image that may fail and be deleted is the first match, so that it can go between two pages
of a search or under the page of a list; which one it is plays no other part. `MaxTroubles`,
`MaxOutages`, `MaxAbsences`, `MaxClock`, `MaxOpen`, `MaxDead`, `Failing` and `Removable` bound
the environment only; the theorems are for any value of them. The sizes include squares, panoramas whose short side rounds to
zero, halves that round either way, and pictures smaller than each target.

The bounds of the platform's runs and why they are enough. Two workers are needed for a redelivered
or doubled message to be worked on twice at once, and two suffice to race; four
failures let both be hit on both of their first attempts, or one message be
doubled and both copies fail; the one call is a `/complete`, a `/retry` or a deletion in their
midst. Two request slots are the two gunicorn workers of a
replica and every race between two requests, a third in `api` lets one linger while
two others race; six calls allow a registration, two `/complete` and three `/retry`.
Three variants (the code's number) in `worker`, two in `platform`, enough for a
half-done loop, one where the loop plays no part. `MaxAttempts` is 3 in `worker`, 2
where a worker meets other components: first, retried and last attempt differ from 2 up. `MaxCalls`, `MaxFaults`
and `CleanupRuns` bound counters of the environment only. Symmetry over workers and
over requests is used in the four passing runs without liveness.

Every property of a passing run is known to fail on a mutated handler
(`PROJECT.json`, "mutants"): a loop that stops one variant short, an ack before the
republication, a claim without its condition, objects removed before rows, a notice
marked before it is sent, and so on.

Some properties have a condition, and it is the code's. `SubmittedHasJob` and
`DeadLettersAreLastAttempts` are checked in runs without, respectively, a request
killed between claim and publication and a publication the broker refuses: the
code accepts both (`/retry` opens after `stale_job_seconds`; `_handle_safely`
rejects the message). `OnePublisherPerImage` holds among requests, releases and
the cleanup; it does not survive a `FAILED` written without a guard over a row that is
being published, by an oversized `/complete` (run `oversize`) or by a worker that
fails late, so `api` has neither; the theorem excludes the late write alone, and nothing else.
`GoodFileKeepsItsJob` is about good files because recording a permanent failure is best
effort: `_fail` swallows what the database raises and the message is confirmed, so the image
of a bad file may keep its claim with no job (`consumer.py:240`). Where clients upload bad files
*and* the database fails then, TLC finds the property itself violated, by a good file put in the
place of the bad one through a link that still works; `worker` takes the image as accepted, when
nobody uploads any more.

## 4. Fairness

`FairSpec` gives weak fairness to each worker's own steps, to each admitted
request's own steps and to each notifier's own steps: consumers reconnect for
ever, Kubernetes restarts what dies, gunicorn serves a request to its end. Clients,
time, the cleanup and failures owe nothing; failures are finitely many
(`MaxFaults`), and that is what "crashes and lost connections only delay it"
means in `AcceptedIsSettled` and `AnnouncedIsNotified`.

`SurroundingsSpec` gives fairness to one part at a time. The process: weak fairness
to its thread's own steps (Kubernetes' restart is one of them) and to each thread
inside `JobQueue`; strong fairness to getting its lock (`Acquire`, and `close` at the
end), because the probes keep coming and take it in between, seconds apart, and a
`threading.Lock` that is released again and again is got. A pause ends by itself, with
weak fairness only while no stop is asked: a shutdown owes nothing to it, so
`StopIsHeeded` rests on the event that interrupts it. Probes keep coming and are
answered. Signals and the broker owe nothing: what depends on the broker says so
(`<>[](broker = "up" ...)`). Migrations: weak fairness to each pod's steps, the advisory
lock's queue being PostgreSQL's. Readiness: weak fairness to the bucket job's steps
and to the probe the kubelet repeats. Nothing else has a liveness property.

## 5. What is proved

Every invariant of every passing run, and every property of theirs that needs no fairness, is
stated by a theorem. For the platform, with the assumptions on the
constants only, and those a row names (`KindCount`, `MaxAttempts` and
`MaxEventAttempts` positive, the bounds natural numbers, `NoAsset` no image,
`Accepted` a set of images, `Uploads` a set of kinds of files), for any number of
images, replicas, requests, variants, attempts and failures:

| Theorem | Module | Says |
|---|---|---|
| `TypeCorrect` | `PlatformProofs` | `Spec => []TypeOK` |
| `DoneIsAlwaysComplete` | `SafetyProofs` | `Spec => []DoneIsComplete` |
| `RowsAlwaysHaveObjects` | `SafetyProofs` | `Spec => []RowsHaveObjects` |
| `ReasonAlwaysMeansFailed` | `SafetyProofs` | `Spec => []ReasonMeansFailed` |
| `DeletedForGood` | `SafetyProofs` | `Spec => DeletedStaysDeleted` |
| `LifecycleIsFollowed` | `DeliveryProofs` | `Spec => FollowsLifecycle`, the refinement of `AssetLifecycle` |
| `SentAlwaysDelivered` | `DeliveryProofs` | `Spec => []SentWasDelivered` |
| `NobodyIsForgotten` | `DeliveryProofs` | `Spec => []NeverSilent` |
| `PromiseIsKept` | `DeliveryProofs` | `Spec /\ [][~ClaimDropped]_vars => []SubmittedHasJob`: as long as no request dies between its claim and its publication. `ServedToTheEnd`: without cut requests there is no such step |
| `GoodJobIsKept` | `DeliveryProofs` | `Spec /\ [][~ClaimDropped]_vars => []GoodFileKeepsItsJob`, when clients upload good files or the database never fails (`Uploads \subseteq {"valid"}` or `"database" \notin FaultKinds`) |
| `OnlyLastAttemptsDie` | `DeliveryProofs` | `Spec => []DeadLettersAreLastAttempts`, when the broker refuses no publication (`"refused" \notin FaultKinds`) |
| `PublishersAreAlone` | `DeliveryProofs` | `Spec /\ [][~LateFailure]_vars => []OnePublisherPerImage`: as long as no `mark_failed` writes `FAILED` over a row that a request is at work on |
| `RequestsPublishAlone` | `DeliveryProofs` | `Spec => []OnePublisherPerImage` before any worker and for files within the limit, when no failure can be late |
| `OneThreadAtATime` | `ProcessProofs` | `ProcessSpec => []OneThreadOnTheChannel` |
| `RaisesOnlyForCause` | `ProcessProofs` | `ProcessSpec => []RaisesOnlyInTrouble` |
| `PublishesAlwaysAsPromised` | `ProcessProofs` | `ProcessSpec => PublishesAsPromised`, the refinement of `Publication` |
| `FlagMeansWork`, `MessageIsFinished` | `ProcessProofs` | `ProcessSpec => []ConsumingIsTrue`, `ProcessSpec => NothingAbandoned` |
| `SchemaAlwaysWhole`, `FilesRunOnce`, `DoneAlwaysUpToDate` | `MigrationsProofs` | `MigrationsSpec => []SchemaIsWhole`, `[]NoFileRunsTwice`, `[]DoneIsUpToDate` |
| `SearchAlwaysFindsAll`, `ListsAlwaysMatch`, `PagesAlwaysAddUp`, `DoneAlwaysShownWhole` | `ReadsProofs` | `ReadsSpec => []SearchFindsAll`, `[]ListsOnlyMatches`, `[]PagesAddUp`, `[]ShownDoneIsWhole` |
| `NothingNewIsMissed` | `PartsProofs` | `InboxSpec => []NewIsNeverMissed`. `OneNotifierOvertakesNone`: with one notifier no notice is overtaken, and only the length of the first page is left |
| `RegistrantsAlwaysOwn` | `PartsProofs` | `AccountsSpec => []RegistrantsOwnTheirAccount` |
| `QuietAlwaysMeansEmpty` | `PartsProofs` | `WatchSpec => []QuietMeansEmpty` |
| `PictureAlwaysKept`, `TagsAlwaysKept` | `PartsProofs` | `ImageDataSpec => []VariantsKeepThePicture`, `[]TagsAreKept` |
| `SurroundingsTypesHold` | `SurroundingsProofs` | `SurroundingsSpec => []SurroundingsTypeOK` |
| `PartsKeepTheirPromises` | `SurroundingsProofs` | all the rows from `OneThreadAtATime` on, of `SurroundingsSpec` |

The rows from `OneThreadAtATime` on speak of a component's own specification (`ProcessSpec` and
so on); each also has its types proved (`ProcessTypesHold` and so on). `EveryPart` shows that a
behaviour of `SurroundingsSpec`, which the run follows, is one of each component: a step is one of the
part's own or leaves it alone. So what is proved of the parts holds of what the run checks.

`TypeOK` is not inductive: `Upload` stays inside `Kinds` only because a worker at
"upload" has `nextKind <= KindCount`, `Republish` stays inside `Job` only because a
worker there has attempts left, and a busy worker or request has a real image.
`TypeInv` adds these (`WorkerInv`, `RequestInv`, `NotifierInv`); each component has a
lemma that its steps preserve `TypeInv`.

The safety invariants are not inductive either. `SafetyInv` adds to `TypeInv`:

- `WorkInv`: what a worker has put in place when it gets to each statement (the
  variants uploaded so far, all of them at "document", the document at "commit"),
  unless its image is gone;
- `ForgetInv`: a request that removes objects has deleted the row before;
- `GoneIsEmpty`: no variant row and no notice hangs from a deleted row.

The argument: `Commit` may write `DONE` and the rows because of `WorkInv`; `WorkInv`
survives the other components because objects and documents are only taken away
from images that are gone (`StoresKeep`), which is `ForgetInv`; and gone images stay gone
(`GoneStaysGone`) because every `UPDATE` misses a row that is not there and the foreign
keys refuse its variants and notices. One lemma per component (`WorkerSafety`,
`ApiSafety`, `CleanupSafety`, `NotifierSafety`, `OutsideSafety`) carries it.

`DeliveryProofs` adds one invariant for each question, all on top of `TypeInv`:

- Lifecycle. `RequestsKnown`: requests are about images that were registered. Every action
  is then matched with a move of one image's stage (`OneStage`) or with none
  (`SameStages`); an `UPDATE` without a condition on the status, such as `mark_failed`, is
  why `AssetLifecycle` lets a settled image settle again.
- Events. `HandlerInv` says what a notifier has established when it gets to each statement
  (the row is there before the send, the channel has taken it before `mark_sent`, the row is
  marked before the ack); `Heard` is `NeverSilent` for images gone for good, which is
  inductive because a message leaves a queue for a lease, and a lease for an ack after `mark_sent`, a
  new attempt, a dead letter or its queue again.
- Jobs. `HandInv` ties a lease to its worker's statement, and `Flow` says where the message in a
  worker's hands can go in one step. `PromiseInv` follows the job of a waiting image
  through them, from the request that holds the claim to the broker. One step breaks it, a request
  that dies with its claim (`ClaimDropped`, the hazard `routes.py:190`), and it is the only one
  the theorem excludes. `KeptInv` does the same for a good file until it is settled, claimed or
  not: a worker that fails a good file is one that will reject its message, so the message lives on. A file that
  *becomes* good after it was submitted would have no such history: `GoodFiles` shows that with good
  uploads only this never happens, because a link works only for rows the cleanup has not
  selected, whose file was good when the request looked. `GaveUp` says that whoever rejects a message has
  spent its attempts.
- Claims. `ClaimInv`: the claim a request holds shows on the row until the row goes, one
  request holds it, and `/retry` gets one only on rows no `/complete` is at work on. Workers may
  claim and finish the row meanwhile (`Standing`), since only a failed or stale row can be claimed
  again. `mark_failed`, by a worker or over an oversized file, does not look at the row: on a row a request is
  at work on it is a `LateFailure`, the `oversize` run is a counterexample made of one, and the theorem
  excludes these steps only. `OnlyWorkersFail` shows there are none without workers and
  oversized files, which is the instance `api` checks.

The other components:

- Process. `RaisesOnlyInTrouble` is about the second try: the first has closed the cached
  channel, and the lock keeps every other thread from making another, so what the
  second uses is new (`TroubleIsKnown`). The refinement needs that the consuming thread is in
  a publication exactly while its loop waits for one (`MainPublishes`) and that no
  more copies exist than tries are over (`CopiesAreTries`). `LoopInv` says where in the
  loop the flag can be up and a message in hand. Assumed: `Main`,
  the probes and `Nobody` are distinct.
- Migrations. Whoever is past the lock holds it (`LockCovers`), and what its holder has read
  is what is committed (`HolderKnows`). `OverAnother` then says that one release over
  another leaves the longer of the two. Assumed: releases are numbers of files, so
  that a newer one only adds files at the end.
- Inbox. Open transactions began at different instants (`StampsDiffer`), nothing committed
  or seen is newer than the newest notice (`LatestIsNewest`), so a commit is the newest or is
  overtaken; and a page on its way leaves out, below its newest notice, only what it buries
  under a full page or what was overtaken (`PagesBury`). When the page is shown, `BuryingGrows`
  carries this to all that was shown, a count of finite sets. Nothing is assumed of the
  number of notifiers or of the size of a page.
- Accounts. The unique constraint (`OneAccountEach`), and a row behind every 201
  (`WelcomedHaveRows`).
- Watch. The count so far covers every queue already passed that held a message when
  the job began: nothing takes messages away from these queues.
- Reads. `SearchInv`: up to its cursor the search holds every match that was there all along;
  a page ends before the first key it left out, so nothing is skipped between two pages. `CountInv`: the
  total is the number of the rows the page is cut from, as long as nobody wrote between the two
  statements. Then `Paging` is arithmetic: page p of size n over t rows holds
  `min(n, t - n*(p-1))` of them. Both need that a finite set of keys *has* an order, each key
  once: `OrderExists` places a key by the number of those not below it, and counts. `DoneInv` and `WholeInv`
  carry a `DONE` row from the statement that read it to the ones that read its variants and, on
  MongoDB, its document: once there these go only with the row, whatever becomes of its status. `Newest` and the key order are a `CHOOSE`
  of a descending sequence, so that the proof may rest on what they promise.
- Image data. `SideRounds`: a side within the long one, scaled to a smaller target and rounded
  either way at a half, stays within the target and the side, and the long side becomes the target
  exactly; `SideGrows`: a larger target never gives a shorter side. `VariantFits` and
  `VariantsNest` follow, for every size. The tags are a case analysis over the forms of a value
  (`ExifInv`), a fraction with denominator zero included.

Only model-checked: everything that rests on fairness (`AcceptedIsSettled`,
`AnnouncedIsNotified`, `StopIsHeeded`, `RefusalIsNotHidden`, `GoneBrokerIsSeen`,
`ProcessConsumesAgain`, `MigrationJobsEnd`, `BucketRerunIsHarmless`, `InstallationReadyAtLast`),
which the prover cannot do. The runs check the conditional theorems where their condition
holds: without cut requests (`accepted`, `worker`), without refusals (`worker`), without late
failures (`api`).

## 6. Where the code and its documents disagree

Each has a run whose counterexample is the scenario.

| Run | Scenario | Says otherwise |
|---|---|---|
| `done_final` | a message is redelivered while its consumer is busy; one worker commits `DONE`, the other fails later and `mark_failed`, which has no condition on the status, turns the image `FAILED` | `worker/db.py:28`, `worker-service/README.md:69` |
| `unsubmitted` | the confirm of a publication is lost twice: `publish_job` raises, `submitted_at` goes back to NULL, the job is in the queue | `queue.py:84-85`, `cleanup.py:9-10` |
| `notified_once` | the notifier dies between the send and `mark_sent`; the redelivered event is sent again | `notifier/consumer.py:8-9`, `43-44` |
| `cleanup_spares` | a `/retry` whose publication fails leaves `FAILED` with `submitted_at` NULL; a day after the upload the cleanup deletes the image, its file and its notices | `cleanup.py:9-10`, `30-31` |
| `oversize` | a `/complete` that saw an oversized file writes `FAILED` over an image a `/retry` is publishing; a second `/retry` publishes too | `routes.py:171-172`, `249-251` |
| `exif` | a tag holds Pillow's `IFDRational` with denominator zero: its `float()`, which is that of `numbers.Rational`, raises `ZeroDivisionError`, which only the branch for pairs catches; `extract_exif` lets it through, the consumer takes it for an infrastructure failure, and a good image ends `FAILED` after all its attempts | `worker/exif.py:49`, `test_exif.py:35` |

More, seen while modelling, has no run of its own. A deletion that read
`PENDING` goes through although a worker has claimed meanwhile (`routes.py:583-584` says
an image being processed is refused). `check()` says that it raises when the broker is
unreachable (`queue.py:138`), but a cached channel that died unnoticed still looks open: the API's
probe stays ready until a request publishes (`Readiness`, `BrokerLooksFine`); in the consumers the
flag covers for it (`GoneBrokerIsSeen`). A count of new notices that left before the inbox was opened
and comes back after overwrites the zero `markSeen` has just shown, until the next poll.
Three losses are the code's own and are stated where they matter: the first page of the inbox holds
20 notices and marks everything up to its newest, so older ones nobody was shown stop counting as new
(`Buried` in `NewIsNeverMissed`); two notifiers overlapping in a rollout can commit in the other order than
they began, with the same effect (`overtaken`); an exposure of 1/32000 s is worded 0/1 by
`limit_denominator(8000)` (`exif.py:_format_exposure`), which is why `TagsAreKept` stops at what
`_collect` gathers.

## 7. Not modelled

- `assets_status`, tokens (signed, with no state of the server), serialisation,
  configuration: one statement that only reads, or no state at all.
- the search condition (which documents match a camera, a lens, a range of ISO) and the conversion of
  numbers to `Decimal` and back: data, not control; the paging around them is modelled.
- messages nobody can parse and events nobody knows: rejected or confirmed at once,
  before any state is touched.
- the declaration of exchanges and queues, idempotent and made by everybody alike.
- the pixels and the watermark; the wording of exposures, apertures, focal lengths, dates and notices; the
  delivery channels' own protocols (a notice is sent or raises).
- the other checks of a consumer's probe (database, stores, health over HTTP); the
  exhaustion of the API's connection pool.
- the frontend's upload batch and library watcher: the back end promises nothing on
  their account.
- deployment: read for replicas (two gunicorn workers, one notifier but in a rollout, the
  CronJob's forbidden concurrency), restarts and schedules, not modelled.
- a publication without confirms that the broker loses (the notifier's republication
  is lost only together with its connection, which returns the original).
- objects left in the bucket for an image deleted while a worker uploads: accepted
  by `routes.py:524-525`.

## 8. Plan

1. Done: the platform, its runs, type correctness and four safety theorems.
2. Done: the surroundings, their run, and eleven theorems about the consumer process,
   the migrations, the inbox, the accounts and the dead letter watch.
3. Done: the refinement of `AssetLifecycle` and theorems about events, jobs and claims, with the
   one step each does not survive as the only condition; the reads, the image data, and all
   parts side by side.
   Left: `PromiseIsKept` image by image, so that a request that dies with one
   claim says nothing of the other images; the safety half of the liveness properties, such as
   which of a worker's steps can be repeated without end.
4. Model more, if the code grows: the recovery through `/retry` of an image whose request
   died before publishing; the search condition against the stored attributes.
