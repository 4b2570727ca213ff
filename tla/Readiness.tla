------------------------------ MODULE Readiness ------------------------------
(***************************************************************************)
(* A first installation of the API service: the pod of `app.buckets`, and  *)
(* the readiness probe, which starts at the same moment and waits for      *)
(* nobody.                                                                 *)
(***************************************************************************)
EXTENDS Naturals

CONSTANTS
  BucketBackoffLimit,   \* times Kubernetes starts the failed container again
  MaxAbsences           \* bound: times a service goes away or the pod is killed

ASSUME ReadinessAssumption == BucketBackoffLimit \in Nat /\ MaxAbsences \in Nat

VARIABLES
  present,        \* the services that answer
  absences,       \* such times so far
  bucketPc,       \* what the pod of app.buckets does next
  bucketStarts,   \* times its container was started again
  buckets,        \* the buckets that exist
  looksOpen,      \* the API service's cached channel to the broker looks open
  apiReady        \* the last answer of the API service's readiness probe

apiVars == <<looksOpen, apiReady>>
readinessVars == <<present, absences, bucketPc, bucketStarts, buckets, apiVars>>

Service == {"postgres", "rabbitmq", "archive"}

Bucket == {"originals", "derived"}

BucketPc == {"wait", "originals", "derived", "failed", "done", "gaveUp"}

ReadinessTypeOK ==
  /\ present \subseteq Service /\ absences \in 0 .. MaxAbsences
  /\ bucketPc \in BucketPc /\ bucketStarts \in 0 .. BucketBackoffLimit
  /\ buckets \subseteq Bucket
  /\ looksOpen \in BOOLEAN /\ apiReady \in BOOLEAN

\* The buckets of an older installation are there, or none is.
ReadinessInit ==
  /\ present \in SUBSET Service
  /\ absences = 0
  /\ bucketPc = "wait" /\ bucketStarts = 0
  /\ buckets \in {{}, Bucket}
  /\ looksOpen = FALSE /\ apiReady = FALSE

-----------------------------------------------------------------------------
(* buckets.py. *)

\* Mutation: the job is a post-install hook, which starts when all are ready.
HookWaitsForStorage ==
  /\ bucketPc = "wait" /\ apiReady
  /\ \/ "archive" \in present /\ bucketPc' = "originals"
     \/ "archive" \notin present /\ bucketPc' = "failed"
  /\ UNCHANGED <<bucketStarts, buckets, present, absences, apiVars>>

\* _wait_for_storage: it polls until list_buckets answers or 180 seconds are over.
WaitForStorage ==
  /\ bucketPc = "wait"
  /\ \/ "archive" \in present /\ bucketPc' = "originals"
     \/ "archive" \notin present /\ bucketPc' = "failed"
  /\ UNCHANGED <<bucketStarts, buckets, present, absences, apiVars>>

\* Mutation: a bucket that is already there is an error like any other.
CreateOrFail ==
  /\ bucketPc \in Bucket
  /\ IF "archive" \in present /\ bucketPc \notin buckets
     THEN /\ buckets' = buckets \cup {bucketPc}
          /\ bucketPc' = IF bucketPc = "originals" THEN "derived" ELSE "done"
     ELSE UNCHANGED buckets /\ bucketPc' = "failed"
  /\ UNCHANGED <<bucketStarts, present, absences, apiVars>>

\* _create: a bucket that is already there is as good as a new one; any other
\* error ends the container.
CreateBucket ==
  /\ bucketPc \in Bucket
  /\ IF "archive" \in present
     THEN /\ buckets' = buckets \cup {bucketPc}
          /\ bucketPc' = IF bucketPc = "originals" THEN "derived" ELSE "done"
     ELSE UNCHANGED buckets /\ bucketPc' = "failed"
  /\ UNCHANGED <<bucketStarts, present, absences, apiVars>>

BucketsStartAgain ==
  /\ bucketPc = "failed"
  /\ IF bucketStarts < BucketBackoffLimit
     THEN bucketPc' = "wait" /\ bucketStarts' = bucketStarts + 1
     ELSE bucketPc' = "gaveUp" /\ UNCHANGED bucketStarts
  /\ UNCHANGED <<buckets, present, absences, apiVars>>

\* The pod is killed between two calls.
BucketPodDies ==
  /\ bucketPc \in {"wait"} \cup Bucket /\ absences < MaxAbsences
  /\ bucketPc' = "failed" /\ absences' = absences + 1
  /\ UNCHANGED <<bucketStarts, buckets, present, apiVars>>

-----------------------------------------------------------------------------
(* health.py, and the services around. *)

\* check() connects again only when the channel is known to be closed.
BrokerLooksFine == looksOpen \/ "rabbitmq" \in present

\* ready: SELECT 1 through the pool, check() through the cached channel, head_bucket
\* on the originals; each is asked whatever the others say.
ProbeApi ==
  /\ apiReady' = ({"postgres", "archive"} \subseteq present /\ BrokerLooksFine
                     /\ "originals" \in buckets)
  /\ looksOpen' = BrokerLooksFine
  /\ UNCHANGED <<present, absences, bucketPc, bucketStarts, buckets>>

\* A request publishes: JobQueue._publish leaves a new channel, or none.
RequestPublishes ==
  /\ looksOpen' = ("rabbitmq" \in present)
  /\ UNCHANGED <<present, absences, bucketPc, bucketStarts, buckets, apiReady>>

\* The channel of a broker that goes may look open until somebody writes to it.
GoesAway(s) ==
  /\ s \in present /\ absences < MaxAbsences
  /\ present' = present \ {s} /\ absences' = absences + 1
  /\ looksOpen' \in IF s = "rabbitmq" THEN {looksOpen, FALSE} ELSE {looksOpen}
  /\ UNCHANGED <<bucketPc, bucketStarts, buckets, apiReady>>

ComesUp(s) ==
  /\ present' = present \cup {s}
  /\ UNCHANGED <<absences, bucketPc, bucketStarts, buckets, apiVars>>

-----------------------------------------------------------------------------

BucketStep == WaitForStorage \/ CreateBucket \/ BucketsStartAgain

ReadinessNext ==
  \/ BucketStep \/ BucketPodDies \/ ProbeApi \/ RequestPublishes
  \/ \E s \in Service : GoesAway(s) \/ ComesUp(s)

ReadinessSpec == ReadinessInit /\ [][ReadinessNext]_readinessVars

-----------------------------------------------------------------------------

\* Running it again is harmless (buckets.py, _create): over buckets that exist, all or
\* some, the job still ends well, as long as the archive answers and the pod dies no
\* more often than it is started again.
RerunIsHarmless == []("archive" \in present) => <>(bucketPc = "done")

\* "Nobody waits for anybody" (jobs.yaml): once all services stay up, the API service
\* becomes ready and stays so, unless the bucket job had used up its starts by then.
ReadyAtLast ==
  <>[](present = Service) => <>(bucketPc = "gaveUp") \/ <>[]apiReady

=============================================================================
