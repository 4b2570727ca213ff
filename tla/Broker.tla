------------------------------- MODULE Broker -------------------------------
(***************************************************************************)
(* RabbitMQ as media_common.queue uses it: the job queue with its dead     *)
(* letter queue, and the queue of completion events with its own.          *)
(*                                                                         *)
(* A queue is a bag: with several consumers, requeued messages and         *)
(* republished ones, the services get no useful order from the broker.     *)
(* A delivered message stays the broker's, leased to its consumer, until   *)
(* it is acknowledged or rejected; when the consumer's connection goes     *)
(* away the broker puts it back.                                           *)
(***************************************************************************)
EXTENDS Database

CONSTANTS
  Workers,            \* replicas of the worker-service
  Notifiers,          \* replicas of the notification-service (one in the chart)
  NoAsset,            \* no image
  MaxAttempts,        \* max_attempts of the worker
  MaxEventAttempts    \* max_attempts of the notifier

ASSUME BrokerAssumption ==
  /\ MaxAttempts \in Nat \ {0}
  /\ MaxEventAttempts \in Nat \ {0}
  /\ NoAsset \notin AssetId

VARIABLES
  jobs,          \* media.process: the messages ready to be delivered
  jobLease,      \* the message each worker has taken and not confirmed
  deadJobs,      \* media.process.dlq
  events,        \* notifications: the messages ready to be delivered
  eventLease,    \* the message each notifier has taken and not confirmed
  deadEvents,    \* notifications.dlq
  announced      \* history: the events the broker has ever accepted

jobVars == <<jobs, jobLease, deadJobs>>
eventVars == <<events, eventLease, deadEvents, announced>>

Job == [asset : AssetId, attempt : 1 .. MaxAttempts]
NoJob == [asset |-> NoAsset, attempt |-> 0]

Event == [asset : AssetId, kind : EventKind, attempt : 1 .. MaxEventAttempts]
NoEvent == [asset |-> NoAsset, kind |-> "none", attempt |-> 0]

EmptyQueue(S) == [m \in S |-> 0]

\* Queue q with n more copies of m, and with one copy less.
Put(q, m, n) == [q EXCEPT ![m] = @ + n]
Take(q, m) == [q EXCEPT ![m] = @ - 1]

JobsTypeOK ==
  /\ jobs \in [Job -> Nat]
  /\ deadJobs \in [Job -> Nat]
  /\ jobLease \in [Workers -> Job \cup {NoJob}]

EventsTypeOK ==
  /\ events \in [Event -> Nat]
  /\ deadEvents \in [Event -> Nat]
  /\ eventLease \in [Notifiers -> Event \cup {NoEvent}]
  /\ announced \subseteq AssetId \X EventKind

BrokerTypeOK == JobsTypeOK /\ EventsTypeOK

-----------------------------------------------------------------------------
(* Jobs. *)

\* A message for a leaves the publisher n times; n is 2 when the confirm of
\* the first try was lost and JobQueue._publish sent it again.
PublishJob(a, attempt, n) ==
  /\ jobs' = Put(jobs, [asset |-> a, attempt |-> attempt], n)
  /\ UNCHANGED <<jobLease, deadJobs>>

DeliverJob(w, j) ==
  /\ jobs[j] > 0
  /\ jobs' = Take(jobs, j)
  /\ jobLease' = [jobLease EXCEPT ![w] = j]
  /\ UNCHANGED deadJobs

\* basic_ack; when the lease is gone there is nothing left to confirm.
AckJob(w) ==
  /\ jobLease' = [jobLease EXCEPT ![w] = NoJob]
  /\ UNCHANGED <<jobs, deadJobs>>

\* basic_nack with requeue=False: the dead letter exchange takes the message.
NackJob(w) ==
  /\ jobLease' = [jobLease EXCEPT ![w] = NoJob]
  /\ deadJobs' = IF jobLease[w] = NoJob THEN deadJobs ELSE Put(deadJobs, jobLease[w], 1)
  /\ UNCHANGED jobs

\* The connection of w closes; n copies of message m were published before.
RequeueJob(w, m, n) ==
  LET q == IF n = 0 THEN jobs ELSE Put(jobs, m, n) IN
  /\ jobs' = IF jobLease[w] = NoJob THEN q ELSE Put(q, jobLease[w], 1)
  /\ jobLease' = [jobLease EXCEPT ![w] = NoJob]
  /\ UNCHANGED deadJobs

\* A message for a is in the queue, in a worker's hands, or a dead letter.
Queued(a) == \E j \in Job : j.asset = a /\ jobs[j] > 0
Leased(a) == \E w \in Workers : jobLease[w].asset = a
DeadLettered(a) == \E j \in Job : j.asset = a /\ deadJobs[j] > 0

-----------------------------------------------------------------------------
(* Events. *)

PublishEvent(a, kind, n) ==
  /\ events' = Put(events, [asset |-> a, kind |-> kind, attempt |-> 1], n)
  /\ announced' = IF n = 0 THEN announced ELSE announced \cup {<<a, kind>>}
  /\ UNCHANGED <<eventLease, deadEvents>>

DeliverEvent(n, m) ==
  /\ events[m] > 0
  /\ events' = Take(events, m)
  /\ eventLease' = [eventLease EXCEPT ![n] = m]
  /\ UNCHANGED <<deadEvents, announced>>

AckEvent(n) ==
  /\ eventLease' = [eventLease EXCEPT ![n] = NoEvent]
  /\ UNCHANGED <<events, deadEvents, announced>>

NackEvent(n) ==
  /\ eventLease' = [eventLease EXCEPT ![n] = NoEvent]
  /\ deadEvents' = IF eventLease[n] = NoEvent THEN deadEvents
                   ELSE Put(deadEvents, eventLease[n], 1)
  /\ UNCHANGED <<events, announced>>

\* The message in hand is replaced by its next attempt, on the same channel.
ReplaceEvent(n, m) ==
  /\ events' = Put(events, m, 1)
  /\ eventLease' = [eventLease EXCEPT ![n] = NoEvent]
  /\ UNCHANGED <<deadEvents, announced>>

\* The connection of n closes; the next attempt m was published copies times.
RequeueEvent(n, m, copies) ==
  LET q == IF copies = 0 THEN events ELSE Put(events, m, copies) IN
  /\ events' = IF eventLease[n] = NoEvent THEN q ELSE Put(q, eventLease[n], 1)
  /\ eventLease' = [eventLease EXCEPT ![n] = NoEvent]
  /\ UNCHANGED <<deadEvents, announced>>

=============================================================================
