--------------------------- MODULE WorkerService ---------------------------
(***************************************************************************)
(* The worker-service: worker/consumer.py, processor.py and db.py.         *)
(*                                                                         *)
(* Each replica takes one message at a time (prefetch_count is 1) and runs *)
(* its handler to the end.  One action per statement, storage call or      *)
(* broker call of the handler; between two of them every other component   *)
(* may act, the broker may take the message back, the replica may die.     *)
(***************************************************************************)
EXTENDS Stores, Broker, Faults

VARIABLES
  workerPc,     \* what the handler of each replica does next
  workerJob,    \* the message it works on
  nextKind,     \* the variant it uploads next
  settlement    \* how a failed job ends: "ack" or "nack" of its message

workerVars == <<workerPc, workerJob, nextKind, settlement>>

WorkerPc ==
  {"idle", "claim", "download", "upload", "document", "commit", "confirm", "announce",
   "retryOrGiveUp", "republish", "fail", "announceFailure", "ack", "nack"}

\* Inside the try of _handle, where an exception is the infrastructure's.
Processing == {"claim", "download", "upload", "document", "commit"}

WorkerTypeOK ==
  /\ workerPc \in [Workers -> WorkerPc]
  /\ workerJob \in [Workers -> Job \cup {NoJob}]
  /\ nextKind \in [Workers -> 1 .. KindCount + 1]
  /\ settlement \in [Workers -> {"ack", "nack"}]

WorkerInit ==
  /\ workerPc = [w \in Workers |-> "idle"]
  /\ workerJob = [w \in Workers |-> NoJob]
  /\ nextKind = [w \in Workers |-> 1]
  /\ settlement = [w \in Workers |-> "ack"]

Asset(w) == workerJob[w].asset

Goto(w, pc) ==
  /\ workerPc' = [workerPc EXCEPT ![w] = pc]
  /\ UNCHANGED <<workerJob, nextKind, settlement>>

\* Back to channel.consume: nothing of the message is kept.
GoIdle(w) ==
  /\ workerPc' = [workerPc EXCEPT ![w] = "idle"]
  /\ workerJob' = [workerJob EXCEPT ![w] = NoJob]
  /\ nextKind' = [nextKind EXCEPT ![w] = 1]
  /\ settlement' = [settlement EXCEPT ![w] = "ack"]

-----------------------------------------------------------------------------
(* The work itself. *)

ReceiveJob(w) ==
  /\ workerPc[w] = "idle"
  /\ \E j \in Job :
       /\ DeliverJob(w, j)
       /\ workerJob' = [workerJob EXCEPT ![w] = j]
  /\ workerPc' = [workerPc EXCEPT ![w] = "claim"]
  /\ UNCHANGED <<nextKind, settlement, dbVars, storeVars, eventVars>> /\ Smooth

\* Mutation: a claim that takes the image whatever its status is.
ClaimAnyway(w) ==
  /\ workerPc[w] = "claim"
  /\ SetProcessing(Asset(w))
  /\ Goto(w, "download")
  /\ UNCHANGED <<variants, notices, storeVars, jobVars, eventVars>> /\ Smooth

\* Mutation: a claim that takes a PROCESSING image for work already done.
ClaimPendingOnly(w) ==
  /\ workerPc[w] = "claim"
  /\ IF assets[Asset(w)].status = "PENDING"
     THEN SetProcessing(Asset(w)) /\ Goto(w, "download")
     ELSE UNCHANGED assets /\ Goto(w, "ack")
  /\ UNCHANGED <<variants, notices, storeVars, jobVars, eventVars>> /\ Smooth

\* claim_asset; an image in a final state, or gone, makes the message useless.
Claim(w) ==
  /\ workerPc[w] = "claim"
  /\ IF Claimable(Asset(w))
     THEN SetProcessing(Asset(w)) /\ Goto(w, "download")
     ELSE UNCHANGED assets /\ Goto(w, "ack")
  /\ UNCHANGED <<variants, notices, storeVars, jobVars, eventVars>> /\ Smooth

\* _download_original and open_image: a file that is missing or unreadable is a
\* ProcessingError, which no other attempt would mend.  Nothing measures the file here:
\* one that is too big may be readable or not.
Download(w) ==
  /\ workerPc[w] = "download"
  /\ \/ originals[Asset(w)] \in {"valid", "huge"} /\ Goto(w, "upload")
     \/ /\ originals[Asset(w)] # "valid"
        /\ workerPc' = [workerPc EXCEPT ![w] = "fail"]
        /\ settlement' = [settlement EXCEPT ![w] = "ack"]
        /\ UNCHANGED <<workerJob, nextKind>>
  /\ UNCHANGED <<dbVars, storeVars, jobVars, eventVars>> /\ Smooth

\* Mutation: the last variant is never uploaded.
UploadAllButLast(w) ==
  /\ workerPc[w] = "upload"
  /\ IF nextKind[w] < KindCount THEN PutDerived(Asset(w), nextKind[w]) ELSE UNCHANGED derived
  /\ nextKind' = [nextKind EXCEPT ![w] = @ + 1]
  /\ workerPc' = [workerPc EXCEPT ![w] = IF nextKind[w] = KindCount THEN "document" ELSE @]
  /\ UNCHANGED <<workerJob, settlement, originals, documents, links,
                 dbVars, jobVars, eventVars>> /\ Smooth

\* Mutation: the loop does one turn too many.
UploadOneMore(w) ==
  /\ workerPc[w] = "upload"
  /\ PutDerived(Asset(w), nextKind[w])
  /\ nextKind' = [nextKind EXCEPT ![w] = @ + 1]
  /\ workerPc' = [workerPc EXCEPT ![w] = IF nextKind[w] > KindCount THEN "document" ELSE @]
  /\ UNCHANGED <<workerJob, settlement, originals, documents, links,
                 dbVars, jobVars, eventVars>> /\ Smooth

\* One upload of process_asset's loop over the variants.
Upload(w) ==
  /\ workerPc[w] = "upload"
  /\ PutDerived(Asset(w), nextKind[w])
  /\ nextKind' = [nextKind EXCEPT ![w] = @ + 1]
  /\ workerPc' = [workerPc EXCEPT ![w] = IF nextKind[w] = KindCount THEN "document" ELSE @]
  /\ UNCHANGED <<workerJob, settlement, originals, documents, links,
                 dbVars, jobVars, eventVars>> /\ Smooth

\* save_asset_metadata.
SaveDocument(w) ==
  /\ workerPc[w] = "document"
  /\ PutDocument(Asset(w))
  /\ Goto(w, "commit")
  /\ UNCHANGED <<originals, derived, links, dbVars, jobVars, eventVars>> /\ Smooth

\* The transaction of save_variants and mark_done.
Finish(w) ==
  /\ SaveVariants(Asset(w))
  /\ SetDone(Asset(w))

\* The last step of _process; an image deleted meanwhile refuses its variants,
\* and that exception is taken for the infrastructure's.
Commit(w) ==
  /\ workerPc[w] = "commit"
  /\ \/ Finish(w) /\ Goto(w, "confirm")
     \/ ~Exists(Asset(w)) /\ UNCHANGED <<assets, variants>> /\ Goto(w, "retryOrGiveUp")
  /\ UNCHANGED <<notices, storeVars, jobVars, eventVars>> /\ Smooth

-----------------------------------------------------------------------------
(* Settling the message. *)

\* The ack of a finished job comes before its event.  On a connection that is
\* gone basic_ack raises, or writes into a socket nobody reads any more.
Confirm(w) ==
  /\ workerPc[w] = "confirm"
  /\ AckJob(w)
  /\ \/ Goto(w, "announce")
     \/ jobLease[w] = NoJob /\ GoIdle(w)
  /\ UNCHANGED <<dbVars, storeVars, eventVars>> /\ Smooth

Ack(w) ==
  /\ workerPc[w] = "ack"
  /\ AckJob(w)
  /\ GoIdle(w)
  /\ UNCHANGED <<dbVars, storeVars, eventVars>> /\ Smooth

Nack(w) ==
  /\ workerPc[w] = "nack"
  /\ NackJob(w)
  /\ GoIdle(w)
  /\ UNCHANGED <<dbVars, storeVars, eventVars>> /\ Smooth

\* _emit: whatever publish_event raises is swallowed.  The broker ends up with
\* one copy, none, or two when the confirm of the first try was lost.
Emit(w, kind) ==
  \E n \in 0 .. 2 :
    /\ PublishEvent(Asset(w), kind, n)
    /\ CASE n = 1 -> Smooth
         [] n = 0 -> Fault("publish")
         [] n = 2 -> Fault("confirm")

Announce(w) ==
  /\ workerPc[w] = "announce"
  /\ Emit(w, "asset.processed")
  /\ GoIdle(w)
  /\ UNCHANGED <<dbVars, storeVars, jobVars>>

\* Mutation: it gives up one attempt too early.
RetryOrGiveUpEarly(w) ==
  /\ workerPc[w] = "retryOrGiveUp"
  /\ IF workerJob[w].attempt + 1 >= MaxAttempts
     THEN /\ workerPc' = [workerPc EXCEPT ![w] = "fail"]
          /\ settlement' = [settlement EXCEPT ![w] = "nack"]
     ELSE /\ workerPc' = [workerPc EXCEPT ![w] = "republish"]
          /\ UNCHANGED settlement
  /\ UNCHANGED <<workerJob, nextKind, dbVars, storeVars, jobVars, eventVars>> /\ Smooth

\* The branch of _retry_or_give_up on the attempts spent.
RetryOrGiveUp(w) ==
  /\ workerPc[w] = "retryOrGiveUp"
  /\ IF workerJob[w].attempt >= MaxAttempts
     THEN /\ workerPc' = [workerPc EXCEPT ![w] = "fail"]
          /\ settlement' = [settlement EXCEPT ![w] = "nack"]
     ELSE /\ workerPc' = [workerPc EXCEPT ![w] = "republish"]
          /\ UNCHANGED settlement
  /\ UNCHANGED <<workerJob, nextKind, dbVars, storeVars, jobVars, eventVars>> /\ Smooth

\* Mutation: the message in hand is confirmed before the new one is published.
RepublishAfterAck(w) ==
  /\ workerPc[w] = "republish"
  /\ \/ /\ PublishJob(Asset(w), workerJob[w].attempt + 1, 1)
        /\ Goto(w, "ack") /\ Smooth
     \/ /\ AckJob(w)
        /\ GoIdle(w) /\ Fault("publish")
  /\ UNCHANGED <<dbVars, storeVars, eventVars>>

\* The next attempt is a new message, published before the ack of this one:
\* once or twice; or CONNECTION_LOST leaves the loop, after n copies were taken,
\* and the broker requeues the message in hand; or the broker refuses, the second
\* try at least, and _handle_safely rejects the message in hand.
Republish(w) ==
  LET next == [asset |-> Asset(w), attempt |-> workerJob[w].attempt + 1] IN
  /\ workerPc[w] = "republish"
  /\ \/ \E n \in {1, 2} :
          /\ PublishJob(next.asset, next.attempt, n)
          /\ Goto(w, "ack")
          /\ IF n = 1 THEN Smooth ELSE Fault("confirm")
     \/ \E n \in 0 .. 2 :
          /\ RequeueJob(w, next, n)
          /\ GoIdle(w)
          /\ IF n = 0 THEN Fault("publish") ELSE Fault("confirm")
     \/ \E n \in {0, 1} :
          /\ PublishJob(next.asset, next.attempt, n)
          /\ Goto(w, "nack")
          /\ Fault("refused")
  /\ UNCHANGED <<dbVars, storeVars, eventVars>>

\* _fail: the reason goes on the row, if there is still one and the database
\* answers; what the transaction raises is swallowed.
Fail(w) ==
  /\ workerPc[w] = "fail"
  /\ \/ /\ SetFailed(Asset(w)) /\ Smooth
        /\ Goto(w, IF Exists(Asset(w)) THEN "announceFailure" ELSE settlement[w])
     \/ UNCHANGED assets /\ Goto(w, settlement[w]) /\ Fault("database")
     \/ SetFailed(Asset(w)) /\ Goto(w, settlement[w]) /\ Fault("commit")
  /\ UNCHANGED <<variants, notices, storeVars, jobVars, eventVars>>

AnnounceFailure(w) ==
  /\ workerPc[w] = "announceFailure"
  /\ Emit(w, "asset.failed")
  /\ Goto(w, settlement[w])
  /\ UNCHANGED <<dbVars, storeVars, jobVars>>

-----------------------------------------------------------------------------
(* What breaks around a replica. *)

\* A statement or a storage call of _process raises, nothing done.
Break(w) ==
  /\ workerPc[w] \in Processing
  /\ Fault(IF workerPc[w] \in {"claim", "commit"} THEN "database" ELSE "store")
  /\ Goto(w, "retryOrGiveUp")
  /\ UNCHANGED <<dbVars, storeVars, jobVars, eventVars>>

\* A transaction of _process commits and the connection drops before its answer.
CommitUnanswered(w) ==
  /\ \/ workerPc[w] = "claim" /\ Claimable(Asset(w)) /\ SetProcessing(Asset(w))
                              /\ UNCHANGED variants
     \/ workerPc[w] = "commit" /\ Finish(w)
  /\ Fault("commit")
  /\ Goto(w, "retryOrGiveUp")
  /\ UNCHANGED <<notices, storeVars, jobVars, eventVars>>

\* The consumer's connection drops while the handler is busy: the broker takes
\* the message back at once, the handler learns of it when it settles.
LoseConnection(w) ==
  /\ jobLease[w] # NoJob
  /\ Fault("connection")
  /\ RequeueJob(w, NoJob, 0)
  /\ UNCHANGED <<workerVars, dbVars, storeVars, eventVars>>

\* The process dies; Kubernetes starts it again.
CrashWorker(w) ==
  /\ workerPc[w] # "idle"
  /\ Fault("crash")
  /\ RequeueJob(w, NoJob, 0)
  /\ GoIdle(w)
  /\ UNCHANGED <<dbVars, storeVars, eventVars>>

-----------------------------------------------------------------------------

\* What the code does by itself once a message is there.
WorkerStep(w) ==
  \/ ReceiveJob(w) \/ Claim(w) \/ Download(w) \/ Upload(w) \/ SaveDocument(w) \/ Commit(w)
  \/ Confirm(w) \/ Ack(w) \/ Nack(w) \/ Announce(w)
  \/ RetryOrGiveUp(w) \/ Republish(w) \/ Fail(w) \/ AnnounceFailure(w)

WorkerTrouble(w) ==
  Break(w) \/ CommitUnanswered(w) \/ LoseConnection(w) \/ CrashWorker(w)

WorkerNext == \E w \in Workers : WorkerStep(w) \/ WorkerTrouble(w)

=============================================================================
