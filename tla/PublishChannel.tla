--------------------------- MODULE PublishChannel ---------------------------
(***************************************************************************)
(* media_common.queue.JobQueue inside one process: the cached connection,  *)
(* the lock around it, and the two tries of a publication.                 *)
(*                                                                         *)
(* The consumer's thread publishes; the threads of the health server call  *)
(* check() on the same object.  A dead connection is not noticed while     *)
(* nobody uses it: is_open stays true until the next call writes to it.    *)
(***************************************************************************)
EXTENDS Naturals

CONSTANTS
  Main,           \* the thread that consumes and publishes
  Probes,         \* the threads that answer readiness probes
  Nobody,         \* no thread
  MaxTroubles     \* bound: outages, lost connections and lost confirms

ASSUME PublishChannelAssumption ==
  /\ Main \notin Probes
  /\ Nobody \notin Probes \cup {Main}
  /\ MaxTroubles \in Nat

VARIABLES
  broker,       \* "up", "down", or "refusing" the credentials
  cached,       \* the cached channel: none, live, dead and not known to be, closed
  lock,         \* the thread inside JobQueue
  queuePc,      \* what each thread does next in JobQueue
  attempt,      \* which try the publication of each thread is at
  copies,       \* copies of its message the broker has accepted
  unlucky,      \* history: something went wrong around the call of each thread
  troubles      \* troubles so far

queueVars == <<cached, lock, queuePc, attempt, copies, unlucky>>
brokerVars == <<broker, troubles>>

Threads == Probes \cup {Main}

QueuePc ==
  {"out", "publishWait", "ensure", "send", "checkWait", "check", "returned", "raised"}

QueueTypeOK ==
  /\ broker \in {"up", "down", "refusing"}
  /\ cached \in {"none", "live", "stale", "closed"}
  /\ lock \in Threads \cup {Nobody}
  /\ queuePc \in [Threads -> QueuePc]
  /\ attempt \in [Threads -> 1 .. 2]
  /\ copies \in [Threads -> 0 .. 2]
  /\ unlucky \in [Threads -> BOOLEAN]
  /\ troubles \in 0 .. MaxTroubles

QueueInit ==
  /\ broker \in {"up", "down"}
  /\ cached = "none"
  /\ lock = Nobody
  /\ queuePc = [t \in Threads |-> "out"]
  /\ attempt = [t \in Threads |-> 1]
  /\ copies = [t \in Threads |-> 0]
  /\ unlucky = [t \in Threads |-> FALSE]
  /\ troubles = 0

QueueGoto(t, pc) == queuePc' = [queuePc EXCEPT ![t] = pc]

\* The channel _ensure_channel would give back without connecting.
LooksOpen == cached \in {"live", "stale"}

-----------------------------------------------------------------------------

\* A thread calls publish_job, publish_event or check: the lock comes first.
Call(t, wait) ==
  /\ queuePc[t] = "out"
  /\ QueueGoto(t, wait)
  /\ attempt' = [attempt EXCEPT ![t] = 1]
  /\ copies' = [copies EXCEPT ![t] = 0]
  /\ unlucky' = [unlucky EXCEPT ![t] = broker # "up"]
  /\ UNCHANGED <<cached, lock, brokerVars>>

Acquire(t) ==
  /\ queuePc[t] \in {"publishWait", "checkWait"}
  /\ lock = Nobody
  /\ lock' = t
  /\ QueueGoto(t, IF queuePc[t] = "publishWait" THEN "ensure" ELSE "check")
  /\ UNCHANGED <<cached, attempt, copies, unlucky, brokerVars>>

Leave(t, outcome) == QueueGoto(t, outcome) /\ lock' = Nobody

\* Mutation: the second failure is raised with the lock still held.
GiveUpHoldingTheLock(t) ==
  /\ cached' = "none"
  /\ IF attempt[t] = 1
     THEN QueueGoto(t, "ensure") /\ attempt' = [attempt EXCEPT ![t] = 2] /\ UNCHANGED lock
     ELSE QueueGoto(t, "raised") /\ UNCHANGED <<attempt, lock>>

\* Mutation: one try only.
GiveUpAtOnce(t) ==
  /\ cached' = "none"
  /\ Leave(t, "raised")
  /\ UNCHANGED attempt

\* Mutation: the second failure is logged like the first, and the call returns.
SwallowTheFailure(t) ==
  /\ cached' = "none"
  /\ IF attempt[t] = 1
     THEN QueueGoto(t, "ensure") /\ attempt' = [attempt EXCEPT ![t] = 2] /\ UNCHANGED lock
     ELSE Leave(t, "returned") /\ UNCHANGED attempt

\* Mutation: the lock is taken for each try, and let go between the two.
LetGoBetweenTries(t) ==
  /\ cached' = "none"
  /\ lock' = Nobody
  /\ IF attempt[t] = 1
     THEN QueueGoto(t, "ensure") /\ attempt' = [attempt EXCEPT ![t] = 2]
     ELSE QueueGoto(t, "raised") /\ UNCHANGED attempt

\* The except clause of _publish: close, and either try once more or raise.
TryAgainOrRaise(t) ==
  /\ cached' = "none"
  /\ IF attempt[t] = 1
     THEN QueueGoto(t, "ensure") /\ attempt' = [attempt EXCEPT ![t] = 2] /\ UNCHANGED lock
     ELSE Leave(t, "raised") /\ UNCHANGED attempt

\* _ensure_channel in a publication: the cached channel if it looks open, else a
\* new connection with the topology declared and confirms switched on.
Ensure(t) ==
  /\ queuePc[t] = "ensure"
  /\ \/ LooksOpen /\ QueueGoto(t, "send") /\ UNCHANGED <<cached, lock, attempt>>
     \/ ~LooksOpen /\ broker = "up" /\ cached' = "live" /\ QueueGoto(t, "send")
                   /\ UNCHANGED <<lock, attempt>>
     \/ ~LooksOpen /\ broker # "up" /\ TryAgainOrRaise(t)
  /\ UNCHANGED <<copies, unlucky, brokerVars>>

\* basic_publish on a live channel, confirmed.
Send(t) ==
  /\ queuePc[t] = "send"
  /\ cached = "live" /\ broker = "up"
  /\ copies' = [copies EXCEPT ![t] = @ + 1]
  /\ Leave(t, "returned")
  /\ UNCHANGED <<cached, attempt, unlucky, brokerVars>>

\* basic_publish on a connection that is dead.
SendFails(t) ==
  /\ queuePc[t] = "send"
  /\ cached # "live"
  /\ TryAgainOrRaise(t)
  /\ UNCHANGED <<copies, unlucky, brokerVars>>

\* The broker takes the message and the connection drops before its confirm, or
\* the broker refuses it.
SendUnconfirmed(t) ==
  /\ queuePc[t] = "send"
  /\ cached = "live" /\ broker = "up"
  /\ troubles < MaxTroubles /\ troubles' = troubles + 1
  /\ copies' \in {copies, [copies EXCEPT ![t] = @ + 1]}
  /\ TryAgainOrRaise(t)
  /\ unlucky' = [unlucky EXCEPT ![t] = TRUE]
  /\ UNCHANGED broker

\* check: no use of the channel beyond _ensure_channel, no closing when it fails.
Check(t) ==
  /\ queuePc[t] = "check"
  /\ \/ LooksOpen /\ UNCHANGED cached /\ Leave(t, "returned")
     \/ ~LooksOpen /\ broker = "up" /\ cached' = "live" /\ Leave(t, "returned")
     \/ ~LooksOpen /\ broker # "up" /\ UNCHANGED cached /\ Leave(t, "raised")
  /\ UNCHANGED <<attempt, copies, unlucky, brokerVars>>

\* The caller goes on with the outcome.
Finished(t) ==
  /\ QueueGoto(t, "out")
  /\ copies' = [copies EXCEPT ![t] = 0]
  /\ attempt' = [attempt EXCEPT ![t] = 1]
  /\ unlucky' = [unlucky EXCEPT ![t] = FALSE]
  /\ UNCHANGED <<cached, lock>>

QueueStep(t) == Ensure(t) \/ Send(t) \/ SendFails(t) \/ Check(t)

-----------------------------------------------------------------------------
(* The broker and the connections to it: external. *)

\* The cached channel of a connection that is gone: known to be closed, or not.
Drops ==
  cached' \in IF cached = "live" THEN {"stale", "closed"} ELSE {cached}

\* The calls under way see it.
BadLuck == unlucky' = [t \in Threads |-> unlucky[t] \/ queuePc[t] # "out"]

\* The broker closes a connection that sent no heartbeat for a while: nobody
\* serves the cached one between two calls, which last seconds.
HeartbeatMissed ==
  /\ lock = Nobody
  /\ cached = "live"
  /\ cached' = "stale"
  /\ UNCHANGED <<lock, queuePc, attempt, copies, unlucky, brokerVars>>

=============================================================================
