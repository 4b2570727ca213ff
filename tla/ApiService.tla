----------------------------- MODULE ApiService -----------------------------
(***************************************************************************)
(* The api-service's requests that change state: app/assets/routes.py.     *)
(*                                                                         *)
(* A slot is a gunicorn sync worker: it serves one request at a time.  A   *)
(* request reads the row once, then acts on that copy through calls to the *)
(* store, the database and the broker, any other request or service acting *)
(* in between.  A request that is refused by its first read changes        *)
(* nothing and is not an action.                                           *)
(***************************************************************************)
EXTENDS Stores, Broker, Faults

CONSTANTS
  Requests,    \* the slots
  MaxCalls     \* bound: how many requests the clients make

ASSUME ApiAssumption == MaxCalls \in Nat

VARIABLES
  requestPc,       \* what the request of each slot does next
  requestAsset,    \* the image it is about
  requestKeys,     \* the variants a deletion has still to remove
  calls            \* requests made so far

apiVars == <<requestPc, requestAsset, requestKeys, calls>>

\* A /complete or a /retry under way.
Submitting ==
  {"completeHead", "completeDrop", "completeReject", "completeClaim", "completePublish",
   "completeRelease", "retryHead", "retryClaim", "retryPublish", "retryRelease"}

\* A DELETE under way, before and after the row is gone.
Deleting == {"deleteKeys", "deleteRow"}
Forgetting == {"deleteDerived", "deleteOriginal", "deleteDocument"}

RequestPc == {"idle"} \cup Submitting \cup Deleting \cup Forgetting

ApiTypeOK ==
  /\ requestPc \in [Requests -> RequestPc]
  /\ requestAsset \in [Requests -> AssetId \cup {NoAsset}]
  /\ requestKeys \in [Requests -> SUBSET Kinds]
  /\ calls \in 0 .. MaxCalls

ApiInit ==
  /\ requestPc = [r \in Requests |-> "idle"]
  /\ requestAsset = [r \in Requests |-> NoAsset]
  /\ requestKeys = [r \in Requests |-> {}]
  /\ calls = 0

Target(r) == requestAsset[r]

\* A client calls, and the request passes its first read of the row.
Begin(r, a, pc) ==
  /\ requestPc[r] = "idle"
  /\ calls < MaxCalls
  /\ calls' = calls + 1
  /\ requestPc' = [requestPc EXCEPT ![r] = pc]
  /\ requestAsset' = [requestAsset EXCEPT ![r] = a]
  /\ UNCHANGED requestKeys

GoOn(r, pc) ==
  /\ requestPc' = [requestPc EXCEPT ![r] = pc]
  /\ UNCHANGED <<requestAsset, requestKeys, calls>>

\* The response is sent.
Respond(r) ==
  /\ requestPc' = [requestPc EXCEPT ![r] = "idle"]
  /\ requestAsset' = [requestAsset EXCEPT ![r] = NoAsset]
  /\ requestKeys' = [requestKeys EXCEPT ![r] = {}]
  /\ UNCHANGED calls

-----------------------------------------------------------------------------
(* POST /assets. *)

\* create_asset: the row, and a signed link to upload its file.
CreateAsset(a) ==
  /\ calls < MaxCalls
  /\ calls' = calls + 1
  /\ InsertAsset(a)
  /\ links' = links \cup {a}
  /\ UNCHANGED <<requestPc, requestAsset, requestKeys, variants, notices,
                 originals, derived, documents, jobVars, eventVars>> /\ Smooth

-----------------------------------------------------------------------------
(* POST /assets/{id}/complete. *)

CompleteRead(r, a) ==
  /\ Exists(a)
  /\ assets[a].submitted = "no" /\ assets[a].status = "PENDING"
  /\ Begin(r, a, "completeHead")
  /\ UNCHANGED <<dbVars, storeVars, jobVars, eventVars>> /\ Smooth

\* What storage.head says: nothing there, too big, or good to go.
CompleteHead(r) ==
  /\ requestPc[r] = "completeHead"
  /\ \/ originals[Target(r)] = "none" /\ Respond(r)
     \/ originals[Target(r)] = "huge" /\ GoOn(r, "completeDrop")
     \/ originals[Target(r)] \in {"valid", "corrupt"} /\ GoOn(r, "completeClaim")
  /\ UNCHANGED <<dbVars, storeVars, jobVars, eventVars>> /\ Smooth

CompleteDrop(r) ==
  /\ requestPc[r] = "completeDrop"
  /\ RemoveOriginal(Target(r))
  /\ GoOn(r, "completeReject")
  /\ UNCHANGED <<derived, documents, links, dbVars, jobVars, eventVars>> /\ Smooth

CompleteReject(r) ==
  /\ requestPc[r] = "completeReject"
  /\ SetFailed(Target(r))
  /\ Respond(r)
  /\ UNCHANGED <<variants, notices, storeVars, jobVars, eventVars>> /\ Smooth

\* Mutation: the claim lets through a request that lost the race.
CompleteClaimUnguarded(r) ==
  /\ requestPc[r] = "completeClaim"
  /\ IF Exists(Target(r))
     THEN SetSubmitted(Target(r)) /\ GoOn(r, "completePublish")
     ELSE UNCHANGED assets /\ Respond(r)
  /\ UNCHANGED <<variants, notices, storeVars, jobVars, eventVars>> /\ Smooth

CompleteClaim(r) ==
  /\ requestPc[r] = "completeClaim"
  /\ IF Submittable(Target(r))
     THEN SetSubmitted(Target(r)) /\ GoOn(r, "completePublish")
     ELSE UNCHANGED assets /\ Respond(r)
  /\ UNCHANGED <<variants, notices, storeVars, jobVars, eventVars>> /\ Smooth

\* Mutation: a publication that raises is answered like one that succeeded.
PublishOrSwallow(r, release) ==
  \E n \in 0 .. 2 :
    /\ PublishJob(Target(r), 1, n)
    /\ Respond(r)
    /\ CASE n = 0 -> Fault("publish")
         [] n = 1 -> Smooth
         [] n = 2 -> Fault("confirm")

\* publish_job of a first attempt.  It returns once the broker has confirmed,
\* having sent the message once or twice; or it raises, and then the broker may
\* hold no copy of it, or one or two whose confirm was lost.
Publish(r, release) ==
  \/ \E n \in {1, 2} :
       /\ PublishJob(Target(r), 1, n)
       /\ Respond(r)
       /\ IF n = 1 THEN Smooth ELSE Fault("confirm")
  \/ \E n \in 0 .. 2 :
       /\ PublishJob(Target(r), 1, n)
       /\ GoOn(r, release)
       /\ IF n = 0 THEN Fault("publish") ELSE Fault("confirm")

CompletePublish(r) ==
  /\ requestPc[r] = "completePublish"
  /\ Publish(r, "completeRelease")
  /\ UNCHANGED <<dbVars, storeVars, eventVars>>

CompleteRelease(r) ==
  /\ requestPc[r] = "completeRelease"
  /\ SetUnsubmitted(Target(r))
  /\ Respond(r)
  /\ UNCHANGED <<variants, notices, storeVars, jobVars, eventVars>> /\ Smooth

-----------------------------------------------------------------------------
(* POST /assets/{id}/retry. *)

\* _retry_refusal on the row just read.
RetryRead(r, a) ==
  /\ Retryable(a)
  /\ Begin(r, a, "retryHead")
  /\ UNCHANGED <<dbVars, storeVars, jobVars, eventVars>> /\ Smooth

RetryHead(r) ==
  /\ requestPc[r] = "retryHead"
  /\ IF originals[Target(r)] = "none" THEN Respond(r) ELSE GoOn(r, "retryClaim")
  /\ UNCHANGED <<dbVars, storeVars, jobVars, eventVars>> /\ Smooth

RetryClaim(r) ==
  /\ requestPc[r] = "retryClaim"
  /\ IF Retryable(Target(r))
     THEN SetResubmitted(Target(r)) /\ GoOn(r, "retryPublish")
     ELSE UNCHANGED assets /\ Respond(r)
  /\ UNCHANGED <<variants, notices, storeVars, jobVars, eventVars>> /\ Smooth

RetryPublish(r) ==
  /\ requestPc[r] = "retryPublish"
  /\ Publish(r, "retryRelease")
  /\ UNCHANGED <<dbVars, storeVars, eventVars>>

RetryRelease(r) ==
  /\ requestPc[r] = "retryRelease"
  /\ SetRetryReleased(Target(r))
  /\ Respond(r)
  /\ UNCHANGED <<variants, notices, storeVars, jobVars, eventVars>> /\ Smooth

-----------------------------------------------------------------------------
(* DELETE /assets/{id}: three statements of one READ COMMITTED transaction. *)

\* The read and _delete_refusal; the read takes no lock.
DeleteRead(r, a) ==
  /\ Exists(a)
  /\ ~(assets[a].status = "PROCESSING" /\ assets[a].submitted = "fresh")
  /\ Begin(r, a, "deleteKeys")
  /\ UNCHANGED <<dbVars, storeVars, jobVars, eventVars>> /\ Smooth

DeleteKeys(r) ==
  /\ requestPc[r] = "deleteKeys"
  /\ requestKeys' = [requestKeys EXCEPT ![r] = variants[Target(r)]]
  /\ requestPc' = [requestPc EXCEPT ![r] = "deleteRow"]
  /\ UNCHANGED <<requestAsset, calls, dbVars, storeVars, jobVars, eventVars>> /\ Smooth

\* Mutation: the objects go before the row.
DeleteObjectsFirst(r) ==
  /\ requestPc[r] = "deleteRow"
  /\ derived' = [derived EXCEPT ![Target(r)] = {}]
  /\ GoOn(r, "deleteDerived")
  /\ UNCHANGED <<dbVars, originals, documents, links, jobVars, eventVars>> /\ Smooth

\* The DELETE and the commit.
DeleteRow(r) ==
  /\ requestPc[r] = "deleteRow"
  /\ DeleteRows({Target(r)})
  /\ GoOn(r, "deleteDerived")
  /\ UNCHANGED <<storeVars, jobVars, eventVars>> /\ Smooth

\* The loop over the keys read before the row went; _forget_quietly swallows
\* the failure of a removal and goes on.
DeleteDerived(r) ==
  /\ requestPc[r] = "deleteDerived"
  /\ IF requestKeys[r] = {}
     THEN GoOn(r, "deleteOriginal") /\ UNCHANGED derived /\ Smooth
     ELSE \E k \in requestKeys[r] :
            /\ requestKeys' = [requestKeys EXCEPT ![r] = @ \ {k}]
            /\ UNCHANGED <<requestPc, requestAsset, calls>>
            /\ \/ RemoveDerived(Target(r), k) /\ Smooth
               \/ UNCHANGED derived /\ Fault("store")
  /\ UNCHANGED <<originals, documents, links, dbVars, jobVars, eventVars>>

DeleteOriginal(r) ==
  /\ requestPc[r] = "deleteOriginal"
  /\ GoOn(r, "deleteDocument")
  /\ \/ RemoveOriginal(Target(r)) /\ Smooth
     \/ UNCHANGED originals /\ Fault("store")
  /\ UNCHANGED <<derived, documents, links, dbVars, jobVars, eventVars>>

DeleteDocument(r) ==
  /\ requestPc[r] = "deleteDocument"
  /\ Respond(r)
  /\ \/ RemoveDocument(Target(r)) /\ Smooth
     \/ UNCHANGED documents /\ Fault("store")
  /\ UNCHANGED <<originals, derived, links, dbVars, jobVars, eventVars>>

-----------------------------------------------------------------------------

\* The request ends here: an exception nobody catches (the transaction is
\* rolled back, the client gets a 500), gunicorn's timeout, a killed process.
CutShort(r) ==
  /\ requestPc[r] # "idle"
  /\ Fault("request")
  /\ Respond(r)
  /\ UNCHANGED <<dbVars, storeVars, jobVars, eventVars>>

\* What a client may ask for.
ClientCall ==
  \E a \in AssetId :
    \/ CreateAsset(a)
    \/ \E r \in Requests : CompleteRead(r, a) \/ RetryRead(r, a) \/ DeleteRead(r, a)

\* What a request does by itself once it is admitted.
RequestStep(r) ==
  \/ CompleteHead(r) \/ CompleteDrop(r) \/ CompleteReject(r) \/ CompleteClaim(r)
  \/ CompletePublish(r) \/ CompleteRelease(r)
  \/ RetryHead(r) \/ RetryClaim(r) \/ RetryPublish(r) \/ RetryRelease(r)
  \/ DeleteKeys(r) \/ DeleteRow(r) \/ DeleteDerived(r) \/ DeleteOriginal(r)
  \/ DeleteDocument(r)

ApiNext == ClientCall \/ \E r \in Requests : RequestStep(r) \/ CutShort(r)

=============================================================================
