--------------------------- MODULE ConsumerProcess ---------------------------
(***************************************************************************)
(* One process of the worker-service or of the notification-service: the   *)
(* thread that reaches the broker, consumes and stops when asked, the      *)
(* readiness probe, and Kubernetes around them.                            *)
(*                                                                         *)
(* What is done with a message is WorkerService's and NotificationService's*)
(* subject: here a message is taken, perhaps publishes, and is settled.    *)
(***************************************************************************)
EXTENDS PublishChannel

CONSTANTS
  FirstDelay,     \* RECONNECT_FIRST_DELAY_SECONDS
  MaxDelay        \* RECONNECT_MAX_DELAY_SECONDS

ASSUME ConsumerProcessAssumption ==
  /\ FirstDelay \in Nat \ {0} /\ MaxDelay \in Nat
  /\ FirstDelay <= MaxDelay

VARIABLES
  mainPc,       \* what the consumer's thread does next
  link,         \* its own connection to the broker
  delay,        \* the pause before the next try to reach the broker
  stopAsked,    \* the shutdown event
  consuming,    \* the flag the probe reads
  inHand,       \* a message is taken and not settled
  answer        \* the last answer of each probe

processVars == <<mainPc, link, delay, stopAsked, consuming, inHand, answer>>
allProcessVars == <<processVars, queueVars, brokerVars>>

MainPc ==
  {"loop", "connecting", "pausing", "opening", "listening", "handling", "publishing",
   "settling", "leaving", "closing", "exited"}

\* Inside _consume, the flag set.
Inside == {"listening", "handling", "publishing", "settling", "leaving"}

ProcessTypeOK ==
  /\ QueueTypeOK
  /\ mainPc \in MainPc
  /\ link \in {"none", "open", "broken"}
  /\ delay \in FirstDelay .. MaxDelay
  /\ stopAsked \in BOOLEAN /\ consuming \in BOOLEAN /\ inHand \in BOOLEAN
  /\ answer \in [Probes -> {"none", "ready", "notReady"}]

Fresh ==
  /\ mainPc = "loop" /\ link = "none" /\ delay = FirstDelay
  /\ stopAsked = FALSE /\ consuming = FALSE /\ inHand = FALSE
  /\ answer = [p \in Probes |-> "none"]

ProcessInit == QueueInit /\ Fresh

Smaller(x, y) == IF x < y THEN x ELSE y

-----------------------------------------------------------------------------
(* connect_patiently and run. *)

Loop ==
  /\ mainPc = "loop"
  /\ mainPc' = IF stopAsked THEN "closing" ELSE "connecting"
  /\ delay' = FirstDelay
  /\ UNCHANGED <<link, stopAsked, consuming, inHand, answer, queueVars, brokerVars>>

\* Mutation: refused credentials are retried like a broker that is away.
ConnectWhateverItSays ==
  /\ mainPc = "connecting"
  /\ \/ stopAsked /\ mainPc' = "closing" /\ UNCHANGED link
     \/ ~stopAsked /\ broker = "up" /\ mainPc' = "opening" /\ link' = "open"
     \/ ~stopAsked /\ broker # "up" /\ mainPc' = "pausing" /\ UNCHANGED link
  /\ UNCHANGED <<delay, stopAsked, consuming, inHand, answer, queueVars, brokerVars>>

\* One turn of connect_patiently: nothing to return once stop is asked; a
\* connection; an exception that leaves run when the credentials are refused; a
\* pause when the broker is away.
Connect ==
  /\ mainPc = "connecting"
  /\ \/ stopAsked /\ mainPc' = "closing" /\ UNCHANGED link
     \/ ~stopAsked /\ broker = "up" /\ mainPc' = "opening" /\ link' = "open"
     \/ ~stopAsked /\ broker = "refusing" /\ mainPc' = "closing" /\ UNCHANGED link
     \/ ~stopAsked /\ broker = "down" /\ mainPc' = "pausing" /\ UNCHANGED link
  /\ UNCHANGED <<delay, stopAsked, consuming, inHand, answer, queueVars, brokerVars>>

\* Mutation: the pause keeps growing.
WakeUpLater ==
  /\ mainPc' = "connecting"
  /\ delay' = 2 * delay
  /\ UNCHANGED <<link, stopAsked, consuming, inHand, answer, queueVars, brokerVars>>

\* stop.wait(delay) ends.
WakeUp ==
  /\ mainPc' = "connecting"
  /\ delay' = Smaller(2 * delay, MaxDelay)
  /\ UNCHANGED <<link, stopAsked, consuming, inHand, answer, queueVars, brokerVars>>

\* The shutdown event interrupts the pause.
PauseInterrupted == mainPc = "pausing" /\ stopAsked /\ WakeUp

\* Mutation: stop.wait() without its time limit.
PauseEndless == mainPc = "pausing" /\ stopAsked /\ WakeUp

PauseOver == mainPc = "pausing" /\ WakeUp

-----------------------------------------------------------------------------
(* _consume. *)

\* Channel, topology and prefetch, then the flag.
Open ==
  /\ mainPc = "opening"
  /\ \/ link = "open" /\ mainPc' = "listening" /\ consuming' = TRUE
     \/ link = "broken" /\ mainPc' = "leaving" /\ UNCHANGED consuming
  /\ UNCHANGED <<link, delay, stopAsked, inHand, answer, queueVars, brokerVars>>

\* Mutation: the shutdown event is looked at inside the handler.
WorkUnlessStopped ==
  /\ mainPc = "handling"
  /\ \/ stopAsked /\ mainPc' = "leaving" /\ UNCHANGED <<queueVars, brokerVars>>
     \/ ~stopAsked /\ mainPc' = "settling" /\ UNCHANGED <<queueVars, brokerVars>>
     \/ ~stopAsked /\ mainPc' = "publishing" /\ Call(Main, "publishWait")
  /\ UNCHANGED <<link, delay, stopAsked, consuming, inHand, answer>>

\* channel.consume yields a message or an empty tick; the shutdown event is looked
\* at before the message is: a message delivered by then goes back to the broker.
Listen ==
  /\ mainPc = "listening"
  /\ \/ (link = "broken" \/ stopAsked) /\ mainPc' = "leaving" /\ UNCHANGED inHand
     \/ link = "open" /\ ~stopAsked /\ mainPc' = "handling" /\ inHand' = TRUE
  /\ UNCHANGED <<link, delay, stopAsked, consuming, answer, queueVars, brokerVars>>

Work ==
  /\ mainPc = "handling"
  /\ \/ mainPc' = "settling" /\ UNCHANGED queueVars /\ UNCHANGED brokerVars
     \/ mainPc' = "publishing" /\ Call(Main, "publishWait")
  /\ UNCHANGED <<link, delay, stopAsked, consuming, inHand, answer>>

\* The publication is over.  What it raised is swallowed (an event), rejects the
\* message (a refusal) or leaves the loop (CONNECTION_LOST, a new attempt).
Published ==
  /\ mainPc = "publishing"
  /\ queuePc[Main] \in {"returned", "raised"}
  /\ Finished(Main)
  /\ mainPc' \in {"settling"} \cup (IF queuePc[Main] = "raised" THEN {"leaving"} ELSE {})
  /\ UNCHANGED <<link, delay, stopAsked, consuming, inHand, answer, brokerVars>>

\* The ack or the reject: on a broken connection it raises, or is written into a
\* socket nobody reads.
Settle ==
  /\ mainPc = "settling"
  /\ inHand' = FALSE
  /\ mainPc' \in {"listening"} \cup (IF link = "broken" THEN {"leaving"} ELSE {})
  /\ UNCHANGED <<link, delay, stopAsked, consuming, answer, queueVars, brokerVars>>

\* Mutation: the flag stays up while the broker is being looked for.
LeaveFlagUp ==
  /\ mainPc = "leaving"
  /\ mainPc' = "loop" /\ link' = "none" /\ inHand' = FALSE
  /\ UNCHANGED <<delay, stopAsked, consuming, answer, queueVars, brokerVars>>

\* The finally of run: the flag, and the connection; the broker takes back what
\* was not settled.  An exception that is not CONNECTION_LOST, of a channel the broker
\* closed, goes on to main and ends the process.
LeaveConsume ==
  /\ mainPc = "leaving"
  /\ mainPc' \in {"loop"} \cup (IF link = "broken" THEN {"closing"} ELSE {})
  /\ link' = "none" /\ inHand' = FALSE /\ consuming' = FALSE
  /\ UNCHANGED <<delay, stopAsked, answer, queueVars, brokerVars>>

\* main's finally, and the end of the process with all its threads.
CloseQueue ==
  /\ mainPc = "closing"
  /\ lock = Nobody
  /\ mainPc' = "exited"
  /\ cached' = "none"
  /\ queuePc' = [t \in Threads |-> "out"]
  /\ copies' = [t \in Threads |-> 0]
  /\ attempt' = [t \in Threads |-> 1]
  /\ unlucky' = [t \in Threads |-> FALSE]
  /\ answer' = [p \in Probes |-> "none"]
  /\ UNCHANGED <<lock, link, delay, stopAsked, consuming, inHand, brokerVars>>

-----------------------------------------------------------------------------
(* The probes. *)

\* The kubelet asks; readiness() calls check_queue among its checks.
Probe(p) ==
  /\ mainPc # "exited"
  /\ Call(p, "checkWait")
  /\ UNCHANGED processVars

\* The consumer's flag is read last.
Answer(p) ==
  /\ queuePc[p] \in {"returned", "raised"}
  /\ answer' = [answer EXCEPT ![p] =
                  IF queuePc[p] = "returned" /\ consuming THEN "ready" ELSE "notReady"]
  /\ Finished(p)
  /\ UNCHANGED <<mainPc, link, delay, stopAsked, consuming, inHand, brokerVars>>

-----------------------------------------------------------------------------
(* Around the process: signals, Kubernetes, the broker. *)

Sigterm ==
  /\ mainPc # "exited" /\ ~stopAsked
  /\ stopAsked' = TRUE
  /\ UNCHANGED <<mainPc, link, delay, consuming, inHand, answer, queueVars, brokerVars>>

\* A process that ended by itself is started again.
Restart ==
  /\ mainPc = "exited" /\ ~stopAsked
  /\ mainPc' = "loop" /\ delay' = FirstDelay
  /\ UNCHANGED <<link, stopAsked, consuming, inHand, answer, queueVars, brokerVars>>

LinkBreaks == link' = IF link = "open" THEN "broken" ELSE link

\* The broker goes away, or comes back asking for other credentials.
BrokerLost ==
  /\ broker = "up" /\ troubles < MaxTroubles
  /\ broker' \in {"down", "refusing"}
  /\ troubles' = troubles + 1
  /\ Drops /\ BadLuck /\ LinkBreaks
  /\ UNCHANGED <<lock, queuePc, attempt, copies,
                 mainPc, delay, stopAsked, consuming, inHand, answer>>

BrokerBack ==
  /\ broker # "up" /\ broker' = "up"
  /\ UNCHANGED <<troubles, queueVars, processVars>>

\* A connection drops, or the broker closes its channel, while the broker stays.
LinkLost ==
  /\ link = "open" /\ troubles < MaxTroubles
  /\ troubles' = troubles + 1
  /\ LinkBreaks
  /\ UNCHANGED <<broker, queueVars, mainPc, delay, stopAsked, consuming, inHand, answer>>

IdleConnectionDies == HeartbeatMissed /\ UNCHANGED processVars

-----------------------------------------------------------------------------

MainStep ==
  \/ Loop \/ Connect \/ PauseInterrupted \/ Open \/ Listen \/ Work \/ Published \/ Settle
  \/ LeaveConsume \/ CloseQueue \/ Restart

InQueue(t) == QueueStep(t) /\ UNCHANGED processVars

Enter(t) == Acquire(t) /\ UNCHANGED processVars

ProcessNext ==
  \/ MainStep \/ PauseOver
  \/ \E t \in Threads : Enter(t) \/ InQueue(t) \/ (SendUnconfirmed(t) /\ UNCHANGED processVars)
  \/ \E p \in Probes : Probe(p) \/ Answer(p)
  \/ Sigterm \/ BrokerLost \/ BrokerBack \/ LinkLost \/ IdleConnectionDies

ProcessSpec == ProcessInit /\ [][ProcessNext]_allProcessVars

-----------------------------------------------------------------------------
(* What a process and its publications promise. *)

\* pika's connection "is not to be shared between threads" (queue.py): whoever
\* connects, sends or checks holds the lock, through both tries of a publication.
OneThreadOnTheChannel ==
  \A t \in Threads : queuePc[t] \in {"ensure", "send", "check"} => lock = t

\* A cached connection that died since the last use is repaired, never reported:
\* a call raises only when something went wrong while it ran ("un tentativo in
\* più la ricostruisce", queue.py, _publish).
RaisesOnlyInTrouble ==
  \A t \in Threads : queuePc[t] = "raised" => unlucky[t]

Outcome(t) ==
  CASE queuePc[t] = "out"      -> "out"
    [] queuePc[t] = "returned" -> "returned"
    [] queuePc[t] = "raised"   -> "raised"
    [] OTHER                   -> "calling"

Publishing == INSTANCE Publication WITH phase <- Outcome(Main), taken <- copies[Main]

\* JobQueue keeps the promise the platform's model is built on: a publication that
\* returns was accepted once or twice, one that raises perhaps never (queue.py,
\* publish_job: "torna solo quando il broker ha confermato").
PublishesAsPromised == Publishing!PublicationSpec

\* The flag the probe reads means work: it is up only inside _consume, never while
\* the broker is looked for, a refusal ends the process or the process is over
\* (worker/main.py: "sto facendo il mio lavoro?").
ConsumingIsTrue == consuming => mainPc \in Inside

\* A shutdown lets the message in hand be finished: it is given back to the broker
\* only when the connection is gone or its publication raised (worker/consumer.py,
\* _consume: "uno spegnimento lascia finire il lavoro che si ha in mano").
NothingAbandoned ==
  [][inHand /\ mainPc # "leaving" /\ mainPc' = "leaving"
       => link = "broken" \/ queuePc[Main] = "raised"]_allProcessVars

\* A shutdown is heeded wherever it finds the process: in a pause, in front of a
\* broker that never comes back, behind a probe that holds the lock.
StopIsHeeded == stopAsked ~> mainPc = "exited"

\* Once the broker is back for good, the process consumes again and keeps
\* consuming, without anybody's help but Kubernetes' restart.
ConsumesAgain == <>[](broker = "up" /\ ~stopAsked) => <>[]consuming

\* Refused credentials end the process again and again, in plain sight, instead of
\* hiding behind a service that seems to wait (queue.py, REFUSED).
RefusalIsNotHidden == <>[](broker = "refusing") => []<>(mainPc = "exited")

\* A broker that is gone for good is seen by the probes in the end, although check()
\* says nothing of a cached connection that died unnoticed: the flag of the consumer,
\* whose own connection is gone, is what tells (worker/main.py, readiness).
GoneBrokerIsSeen ==
  <>[](broker = "down") => <>[](\A p \in Probes : answer[p] # "ready")

=============================================================================
