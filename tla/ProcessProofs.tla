---------------------------- MODULE ProcessProofs ----------------------------
(***************************************************************************)
(* JobQueue is used by one thread at a time, raises only in trouble, and   *)
(* implements Publication: for any number of probes and of troubles.       *)
(*                                                                         *)
(* The argument is about the second try.  The first has closed the cached  *)
(* channel, and the lock keeps everybody else from making another: what    *)
(* the second try uses is new, and fails only if the broker goes, or is    *)
(* gone, while the call is under way.                                      *)
(***************************************************************************)
EXTENDS ConsumerProcess, TLAPS

\* A call under way knows of the troubles that matter to it, and begins at its first try.
TroubleIsKnown ==
  \A t \in Threads :
    /\ queuePc[t] # "out" /\ broker # "up" => unlucky[t]
    /\ queuePc[t] = "publishWait" => attempt[t] = 1
    /\ queuePc[t] = "ensure" /\ attempt[t] = 2 => cached = "none"
    /\ queuePc[t] = "send" /\ attempt[t] = 2 /\ cached # "live" => unlucky[t]

\* The main thread is in a publication exactly while its loop waits for one.
MainPublishes ==
  /\ queuePc[Main] \notin {"checkWait", "check"}
  /\ queuePc[Main] # "out" <=> mainPc = "publishing"

\* One copy at most for each try that is over.
CopiesAreTries ==
  \A t \in Threads :
    /\ queuePc[t] = "out" => copies[t] = 0
    /\ queuePc[t] \in {"publishWait", "ensure", "send"} => copies[t] < attempt[t]

QueueShape ==
  /\ lock \in Threads \cup {Nobody}
  /\ queuePc \in [Threads -> QueuePc]
  /\ attempt \in [Threads -> 1 .. 2]
  /\ copies \in [Threads -> Nat]
  /\ unlucky \in [Threads -> BOOLEAN]

ProcessInv ==
  /\ QueueShape /\ OneThreadOnTheChannel /\ TroubleIsKnown /\ RaisesOnlyInTrouble
  /\ MainPublishes /\ CopiesAreTries

LEMMA ProcessStarts == ProcessInit => ProcessInv
<1> SUFFICES ASSUME ProcessInit PROVE ProcessInv
  OBVIOUS
<1> USE DEF ProcessInit, QueueInit, Fresh
<1>1. Main \in Threads
  BY DEF Threads
<1>2. QueueShape
  BY DEF QueueShape, QueuePc
<1>3. OneThreadOnTheChannel /\ TroubleIsKnown /\ RaisesOnlyInTrouble
  BY DEF OneThreadOnTheChannel, TroubleIsKnown, RaisesOnlyInTrouble
<1>4. MainPublishes /\ CopiesAreTries
  BY <1>1 DEF MainPublishes, CopiesAreTries
<1> QED
  BY <1>2, <1>3, <1>4 DEF ProcessInv

\* A step of the main thread's loop that calls nothing.
LEMMA LoopKeeps ==
  ASSUME ProcessInv, UNCHANGED <<queueVars, brokerVars>>,
         mainPc # "publishing", mainPc' # "publishing"
  PROVE  ProcessInv'
BY DEF ProcessInv, QueueShape, OneThreadOnTheChannel, TroubleIsKnown, RaisesOnlyInTrouble,
       MainPublishes, CopiesAreTries, queueVars, brokerVars

\* A call comes in.
LEMMA CallKeeps ==
  ASSUME ProcessInv, NEW t \in Threads, NEW wait \in {"publishWait", "checkWait"},
         Call(t, wait),
         t = Main => wait = "publishWait" /\ mainPc' = "publishing",
         t # Main => mainPc' = mainPc
  PROVE  ProcessInv'
<1> USE DEF ProcessInv, Call, QueueGoto, brokerVars, QueueShape
<1>1. Main \in Threads
  BY DEF Threads
<1>2. QueueShape'
  BY DEF QueuePc
<1>3. OneThreadOnTheChannel'
  BY DEF OneThreadOnTheChannel
<1>4. TroubleIsKnown' /\ RaisesOnlyInTrouble'
  BY DEF TroubleIsKnown, RaisesOnlyInTrouble
<1>5. MainPublishes' /\ CopiesAreTries'
  BY <1>1 DEF MainPublishes, CopiesAreTries
<1> QED
  BY <1>2, <1>3, <1>4, <1>5

\* The outcome of a call is taken.
LEMMA FinishedKeeps ==
  ASSUME ProcessInv, NEW t \in Threads, Finished(t), UNCHANGED brokerVars,
         t = Main => mainPc' # "publishing",
         t # Main => mainPc' = mainPc,
         queuePc[t] \in {"returned", "raised"}
  PROVE  ProcessInv'
<1> USE DEF ProcessInv, Finished, QueueGoto, brokerVars, QueueShape
<1>1. Main \in Threads
  BY DEF Threads
<1>2. QueueShape'
  BY DEF QueuePc
<1>3. OneThreadOnTheChannel'
  BY DEF OneThreadOnTheChannel
<1>4. TroubleIsKnown' /\ RaisesOnlyInTrouble'
  BY DEF TroubleIsKnown, RaisesOnlyInTrouble
<1>5. MainPublishes' /\ CopiesAreTries'
  BY <1>1 DEF MainPublishes, CopiesAreTries
<1> QED
  BY <1>2, <1>3, <1>4, <1>5

\* A try that failed, in a call that knows of the trouble when it is the last one.
LEMMA FailureKeeps ==
  ASSUME ProcessInv, NEW t \in Threads, queuePc[t] \in {"ensure", "send"},
         TryAgainOrRaise(t), mainPc' = mainPc, UNCHANGED broker,
         copies' \in {copies, [copies EXCEPT ![t] = @ + 1]},
         unlucky' \in {unlucky, [unlucky EXCEPT ![t] = TRUE]},
         attempt[t] = 2 => unlucky'[t]
  PROVE  ProcessInv'
<1> USE DEF ProcessInv, TryAgainOrRaise, Leave, QueueGoto, QueueShape
<1>1. Main \in Threads
  BY DEF Threads
<1>2. lock = t
  BY DEF OneThreadOnTheChannel
<1>3. QueueShape'
  <2>1. queuePc' \in [Threads -> QueuePc] /\ lock' \in Threads \cup {Nobody}
    BY DEF QueuePc
  <2>2. unlucky' \in [Threads -> BOOLEAN]
    OBVIOUS
  <2>3. copies' \in [Threads -> Nat]
    <3>1. [copies EXCEPT ![t] = @ + 1] \in [Threads -> Nat]
      OBVIOUS
    <3> QED
      BY <3>1
  <2>4. attempt' \in [Threads -> 1 .. 2]
    OBVIOUS
  <2> QED
    BY <2>1, <2>2, <2>3, <2>4
<1>4. OneThreadOnTheChannel'
  BY <1>2 DEF OneThreadOnTheChannel
<1>5. TroubleIsKnown'
  BY <1>2 DEF TroubleIsKnown, OneThreadOnTheChannel
<1>6. RaisesOnlyInTrouble'
  BY DEF RaisesOnlyInTrouble
<1>7. MainPublishes'
  BY <1>1 DEF MainPublishes
<1>8. CopiesAreTries'
  BY DEF CopiesAreTries
<1> QED
  BY <1>3, <1>4, <1>5, <1>6, <1>7, <1>8

LEMMA QueueStepKeeps ==
  ASSUME ProcessInv, NEW t \in Threads, QueueStep(t), UNCHANGED processVars
  PROVE  ProcessInv'
<1> USE DEF ProcessInv, QueueShape, brokerVars, processVars, QueueGoto, Leave
<1>1. Main \in Threads
  BY DEF Threads
<1>2. ASSUME queuePc[t] \in {"ensure", "send"}, TryAgainOrRaise(t), UNCHANGED brokerVars,
             UNCHANGED <<copies, unlucky>>, attempt[t] = 2 => unlucky[t]
      PROVE  ProcessInv'
  <2> HIDE DEF ProcessInv, QueueShape, Leave, QueueGoto
  <2> QED
    BY <1>2, FailureKeeps
<1>3. CASE Ensure(t) /\ ~TryAgainOrRaise(t)
  <2>1. lock = t
    BY <1>3 DEF Ensure, OneThreadOnTheChannel
  <2>2. queuePc[t] = "ensure" /\ queuePc' = [queuePc EXCEPT ![t] = "send"]
    BY <1>3 DEF Ensure
  <2>3. UNCHANGED <<lock, attempt, copies, unlucky, broker>> /\ cached' \in {cached, "live"}
    BY <1>3 DEF Ensure
  <2>4. LooksOpen \/ cached' = "live"
    BY <1>3 DEF Ensure
  <2>5. QueueShape' /\ MainPublishes' /\ CopiesAreTries' /\ RaisesOnlyInTrouble'
    BY <1>1, <2>2, <2>3 DEF QueuePc, MainPublishes, CopiesAreTries, RaisesOnlyInTrouble
  <2>6. OneThreadOnTheChannel'
    BY <2>1, <2>2, <2>3 DEF OneThreadOnTheChannel
  <2>7. TroubleIsKnown'
    BY <2>1, <2>2, <2>3, <2>4 DEF TroubleIsKnown, OneThreadOnTheChannel, LooksOpen
  <2> QED
    BY <2>5, <2>6, <2>7
<1>4. CASE Ensure(t) /\ TryAgainOrRaise(t)
  <2>1. queuePc[t] = "ensure" /\ UNCHANGED <<copies, unlucky, broker, troubles>>
    BY <1>4 DEF Ensure
  <2>2. broker # "up"
    BY <1>4, <2>1 DEF Ensure, TryAgainOrRaise, LooksOpen
  <2> QED
    BY <1>2, <1>4, <2>1, <2>2 DEF TroubleIsKnown
<1>5. CASE Send(t)
  <2>1. lock = t
    BY <1>5 DEF Send, OneThreadOnTheChannel
  <2>2. QueueShape' /\ MainPublishes'
    BY <1>1, <1>5 DEF Send, QueuePc, MainPublishes
  <2>3. OneThreadOnTheChannel' /\ TroubleIsKnown'
    BY <1>5, <2>1 DEF Send, OneThreadOnTheChannel, TroubleIsKnown
  <2>4. RaisesOnlyInTrouble' /\ CopiesAreTries'
    BY <1>5 DEF Send, RaisesOnlyInTrouble, CopiesAreTries
  <2> QED
    BY <2>2, <2>3, <2>4
<1>6. CASE SendFails(t)
  BY <1>2, <1>6 DEF SendFails, TroubleIsKnown
<1>7. CASE Check(t)
  <2>1. lock = t /\ t # Main
    BY <1>7 DEF Check, OneThreadOnTheChannel, MainPublishes
  <2>2. QueueShape' /\ MainPublishes'
    BY <1>1, <1>7, <2>1 DEF Check, QueuePc, MainPublishes
  <2>3. OneThreadOnTheChannel' /\ TroubleIsKnown'
    BY <1>7, <2>1 DEF Check, OneThreadOnTheChannel, TroubleIsKnown
  <2>4. RaisesOnlyInTrouble' /\ CopiesAreTries'
    BY <1>7 DEF Check, RaisesOnlyInTrouble, CopiesAreTries, TroubleIsKnown
  <2> QED
    BY <2>2, <2>3, <2>4
<1> QED
  BY <1>3, <1>4, <1>5, <1>6, <1>7 DEF QueueStep

LEMMA ProcessKeeps == ProcessInv /\ [ProcessNext]_allProcessVars => ProcessInv'
<1> SUFFICES ASSUME ProcessInv, [ProcessNext]_allProcessVars PROVE ProcessInv'
  OBVIOUS
<1>0. Main \in Threads /\ \A p \in Probes : p \in Threads /\ p # Main
  BY PublishChannelAssumption DEF Threads
<1>1. CASE Loop \/ Connect \/ PauseInterrupted \/ PauseOver
  BY <1>1, LoopKeeps DEF Loop, Connect, PauseInterrupted, PauseOver, WakeUp
<1>2. CASE Open \/ Listen \/ Settle \/ LeaveConsume \/ Restart
  BY <1>2, LoopKeeps DEF Open, Listen, Settle, LeaveConsume, Restart
<1>3. CASE Work
  <2>1. CASE mainPc' = "settling" /\ UNCHANGED queueVars /\ UNCHANGED brokerVars
    BY <1>3, <2>1, LoopKeeps DEF Work
  <2>2. CASE mainPc' = "publishing" /\ Call(Main, "publishWait")
    BY <1>0, <2>2, CallKeeps
  <2> QED
    BY <1>3, <2>1, <2>2 DEF Work
<1>4. CASE Published
  BY <1>0, <1>4, FinishedKeeps DEF Published
<1>5. CASE CloseQueue
  <2>1. queuePc' = [t \in Threads |-> "out"] /\ copies' = [t \in Threads |-> 0]
    BY <1>5 DEF CloseQueue
  <2>2. QueueShape'
    BY <1>5 DEF CloseQueue, ProcessInv, QueueShape, QueuePc
  <2>3. mainPc' = "exited"
    BY <1>5 DEF CloseQueue
  <2> QED
    BY <1>0, <2>1, <2>2, <2>3 DEF ProcessInv, OneThreadOnTheChannel, TroubleIsKnown,
       RaisesOnlyInTrouble, MainPublishes, CopiesAreTries
<1>6. ASSUME NEW t \in Threads, Enter(t) PROVE ProcessInv'
  <2>1. PICK pc \in {"ensure", "check"} :
          /\ queuePc' = [queuePc EXCEPT ![t] = pc]
          /\ queuePc[t] = IF pc = "ensure" THEN "publishWait" ELSE "checkWait"
    BY <1>6 DEF Enter, Acquire, QueueGoto
  <2>2. lock = Nobody /\ lock' = t
    BY <1>6 DEF Enter, Acquire
  <2>3. UNCHANGED <<mainPc, cached, attempt, copies, unlucky, broker>>
    BY <1>6 DEF Enter, Acquire, processVars, brokerVars
  <2>4. QueueShape'
    BY <2>1, <2>2, <2>3 DEF ProcessInv, QueueShape, QueuePc
  <2>5. OneThreadOnTheChannel'
    BY <2>1, <2>2, PublishChannelAssumption
       DEF ProcessInv, QueueShape, OneThreadOnTheChannel, Threads
  <2>6. TroubleIsKnown' /\ RaisesOnlyInTrouble'
    BY <2>1, <2>3 DEF ProcessInv, QueueShape, TroubleIsKnown, RaisesOnlyInTrouble
  <2>7. MainPublishes' /\ CopiesAreTries'
    BY <1>0, <2>1, <2>3 DEF ProcessInv, QueueShape, MainPublishes, CopiesAreTries
  <2> QED
    BY <2>4, <2>5, <2>6, <2>7 DEF ProcessInv
<1>7. ASSUME NEW t \in Threads, InQueue(t) PROVE ProcessInv'
  BY <1>7, QueueStepKeeps DEF InQueue
<1>8. ASSUME NEW t \in Threads, SendUnconfirmed(t), UNCHANGED processVars PROVE ProcessInv'
  <2>1. TryAgainOrRaise(t) /\ UNCHANGED broker /\ queuePc[t] = "send" /\ mainPc' = mainPc
    BY <1>8 DEF SendUnconfirmed, processVars
  <2>2. unlucky'[t] /\ unlucky' = [unlucky EXCEPT ![t] = TRUE]
    BY <1>8 DEF SendUnconfirmed, ProcessInv, QueueShape
  <2>3. copies' \in {copies, [copies EXCEPT ![t] = @ + 1]}
    BY <1>8 DEF SendUnconfirmed
  <2> QED
    BY <2>1, <2>2, <2>3, FailureKeeps
<1>9. ASSUME NEW p \in Probes, Probe(p) PROVE ProcessInv'
  BY <1>0, <1>9, CallKeeps DEF Probe, processVars
<1>10. ASSUME NEW p \in Probes, Answer(p) PROVE ProcessInv'
  BY <1>0, <1>10, FinishedKeeps DEF Answer
<1>11. CASE Sigterm \/ BrokerBack \/ LinkLost \/ IdleConnectionDies \/ UNCHANGED allProcessVars
  <2>1. UNCHANGED <<lock, queuePc, attempt, copies, unlucky, mainPc>>
    BY <1>11 DEF Sigterm, BrokerBack, LinkLost, IdleConnectionDies, HeartbeatMissed,
       allProcessVars, processVars, queueVars
  <2>2. cached' = cached \/ lock = Nobody
    BY <1>11 DEF Sigterm, BrokerBack, LinkLost, IdleConnectionDies, HeartbeatMissed,
       allProcessVars, queueVars
  <2>3. broker' = broker \/ broker' = "up"
    BY <1>11 DEF Sigterm, BrokerBack, LinkLost, IdleConnectionDies, HeartbeatMissed,
       allProcessVars, brokerVars
  <2>4. TroubleIsKnown'
    BY <2>1, <2>2, <2>3, PublishChannelAssumption
       DEF ProcessInv, TroubleIsKnown, OneThreadOnTheChannel, Threads
  <2> QED
    BY <2>1, <2>4 DEF ProcessInv, QueueShape, OneThreadOnTheChannel, RaisesOnlyInTrouble,
       MainPublishes, CopiesAreTries
<1>12. CASE BrokerLost
  <2>1. UNCHANGED <<lock, queuePc, attempt, copies, mainPc>>
    BY <1>12 DEF BrokerLost
  <2>2. unlucky' = [t \in Threads |-> unlucky[t] \/ queuePc[t] # "out"]
    BY <1>12 DEF BrokerLost, BadLuck
  <2>3. cached = "none" => cached' = "none"
    BY <1>12 DEF BrokerLost, Drops
  <2>4. QueueShape'
    BY <2>1, <2>2 DEF ProcessInv, QueueShape
  <2>5. TroubleIsKnown' /\ RaisesOnlyInTrouble'
    BY <2>1, <2>2, <2>3 DEF ProcessInv, TroubleIsKnown, RaisesOnlyInTrouble
  <2> QED
    BY <2>1, <2>4, <2>5 DEF ProcessInv, OneThreadOnTheChannel, MainPublishes, CopiesAreTries
<1> QED
  BY <1>1, <1>2, <1>3, <1>4, <1>5, <1>6, <1>7, <1>8, <1>9, <1>10, <1>11, <1>12
     DEF ProcessNext, MainStep

LEMMA ProcessAlways == ProcessSpec => []ProcessInv
  BY ProcessStarts, ProcessKeeps, PTL DEF ProcessSpec

\* pika's connection is never used by two threads at once (queue.py, JobQueue: the lock).
THEOREM OneThreadAtATime == ProcessSpec => []OneThreadOnTheChannel
<1>1. ProcessInv => OneThreadOnTheChannel
  BY DEF ProcessInv
<1> QED
  BY <1>1, ProcessAlways, PTL

\* A publication or a check raises only if something went wrong while it ran: a cached
\* connection that died before is repaired (queue.py, _publish).
THEOREM RaisesOnlyForCause == ProcessSpec => []RaisesOnlyInTrouble
<1>1. ProcessInv => RaisesOnlyInTrouble
  BY DEF ProcessInv
<1> QED
  BY <1>1, ProcessAlways, PTL

-----------------------------------------------------------------------------
(* The refinement: a step of the process is a step of the main thread's call, or *)
(* none of its business.                                                        *)

LEMMA PublicationStarts == ProcessInit => Publishing!PublicationInit
<1> SUFFICES ASSUME ProcessInit PROVE Publishing!PublicationInit
  OBVIOUS
<1>1. Main \in Threads
  BY DEF Threads
<1> QED
  BY <1>1 DEF ProcessInit, QueueInit, Publishing!PublicationInit, Outcome

\* What the call of the main thread does to its phase and its copies.
LEMMA PublicationSteps ==
  ProcessInv /\ [ProcessNext]_allProcessVars
    => [Publishing!PublicationNext]_Publishing!publicationVars
<1> SUFFICES ASSUME ProcessInv, [ProcessNext]_allProcessVars
             PROVE  [Publishing!PublicationNext]_Publishing!publicationVars
  OBVIOUS
<1> USE DEF ProcessInv, QueueShape
<1>0. Main \in Threads /\ \A p \in Probes : p \in Threads /\ p # Main
  BY PublishChannelAssumption DEF Threads
<1>1. ASSUME queuePc'[Main] = queuePc[Main], copies'[Main] = copies[Main]
      PROVE  UNCHANGED Publishing!publicationVars
  BY <1>1 DEF Publishing!publicationVars, Outcome
<1>2. ASSUME NEW t \in Threads, t # Main,
             \E pc : queuePc' = [queuePc EXCEPT ![t] = pc],
             copies' = copies \/ \E n : copies' = [copies EXCEPT ![t] = n]
      PROVE  UNCHANGED Publishing!publicationVars
  BY <1>0, <1>1, <1>2
<1>3. CASE Work
  <2>1. CASE UNCHANGED queueVars
    BY <1>1, <2>1 DEF queueVars
  <2>2. CASE Call(Main, "publishWait")
    BY <1>0, <2>2 DEF Call, QueueGoto, Outcome, Publishing!Begin, Publishing!PublicationNext
  <2> QED
    BY <1>3, <2>1, <2>2 DEF Work
<1>4. CASE Published
  BY <1>0, <1>4 DEF Published, Finished, QueueGoto, Outcome, Publishing!End,
                    Publishing!PublicationNext
<1>5. CASE CloseQueue
  <2>1. queuePc[Main] = "out" /\ copies[Main] = 0
    BY <1>0, <1>5 DEF CloseQueue, MainPublishes, CopiesAreTries
  <2> QED
    BY <1>0, <1>1, <1>5, <2>1 DEF CloseQueue
<1>6. ASSUME NEW t \in Threads, Enter(t)
      PROVE  UNCHANGED Publishing!publicationVars
  <2>1. CASE t = Main
    BY <1>0, <1>6, <2>1 DEF Enter, Acquire, QueueGoto, Outcome, Publishing!publicationVars
  <2>2. CASE t # Main
    BY <1>2, <1>6, <2>2 DEF Enter, Acquire, QueueGoto
  <2> QED
    BY <2>1, <2>2
<1>7. ASSUME NEW t \in Threads, QueueStep(t)
      PROVE  [Publishing!PublicationNext]_Publishing!publicationVars
  <2>1. CASE t # Main
    <3>1. \E pc : queuePc' = [queuePc EXCEPT ![t] = pc]
      BY <1>7 DEF QueueStep, Ensure, Send, SendFails, Check, TryAgainOrRaise, Leave, QueueGoto
    <3>2. copies' = copies \/ \E n : copies' = [copies EXCEPT ![t] = n]
      BY <1>7 DEF QueueStep, Ensure, Send, SendFails, Check
    <3> QED
      BY <1>2, <2>1, <3>1, <3>2
  <2>2. CASE t = Main /\ Send(t)
    <3>1. copies[Main] < attempt[Main] /\ attempt[Main] \in 1 .. 2 /\ copies[Main] \in Nat
      BY <1>0, <2>2 DEF Send, CopiesAreTries
    <3>2. copies'[Main] = copies[Main] + 1 /\ copies'[Main] \in 1 .. 2
      BY <1>0, <2>2, <3>1 DEF Send
    <3>3. Outcome(Main) = "calling" /\ Outcome(Main)' = "returned"
      BY <1>0, <2>2 DEF Send, Leave, QueueGoto, Outcome
    <3> QED
      BY <3>2, <3>3 DEF Publishing!Return, Publishing!MostCopies, Publishing!PublicationNext
  <2>3. CASE t = Main /\ (Ensure(t) \/ SendFails(t))
    <3>1. copies' = copies
      BY <2>3 DEF Ensure, SendFails
    <3>2. copies[Main] \in 0 .. 2
      BY <1>0, <2>3 DEF Ensure, SendFails, CopiesAreTries
    <3>3. queuePc[Main] \in {"ensure", "send"} /\ queuePc'[Main] \in {"ensure", "send", "raised"}
      BY <1>0, <2>3 DEF Ensure, SendFails, TryAgainOrRaise, Leave, QueueGoto
    <3>4. Outcome(Main) = "calling" /\ Outcome(Main)' \in {"calling", "raised"}
      BY <3>3 DEF Outcome
    <3> QED
      BY <3>1, <3>2, <3>4 DEF Publishing!Raise, Publishing!MostCopies,
         Publishing!PublicationNext, Publishing!publicationVars
  <2>4. CASE t = Main /\ Check(t)
    BY <2>4 DEF Check, MainPublishes
  <2> QED
    BY <1>7, <2>1, <2>2, <2>3, <2>4 DEF QueueStep
<1>8. ASSUME NEW t \in Threads, SendUnconfirmed(t)
      PROVE  [Publishing!PublicationNext]_Publishing!publicationVars
  <2>1. CASE t # Main
    BY <1>2, <1>8, <2>1 DEF SendUnconfirmed, TryAgainOrRaise, Leave, QueueGoto
  <2>2. CASE t = Main
    <3>1. copies[Main] < attempt[Main] /\ attempt[Main] \in 1 .. 2 /\ copies[Main] \in Nat
      BY <1>0, <1>8, <2>2 DEF SendUnconfirmed, CopiesAreTries
    <3>2. copies'[Main] \in {copies[Main], copies[Main] + 1} /\ copies'[Main] <= 2
      BY <1>0, <1>8, <2>2, <3>1 DEF SendUnconfirmed
    <3>3. Outcome(Main) = "calling" /\ Outcome(Main)' \in {"calling", "raised"}
      BY <1>0, <1>8, <2>2 DEF SendUnconfirmed, TryAgainOrRaise, Leave, QueueGoto, Outcome
    <3> QED
      BY <3>1, <3>2, <3>3 DEF Publishing!Raise, Publishing!Accept, Publishing!MostCopies,
         Publishing!PublicationNext, Publishing!publicationVars
  <2> QED
    BY <2>1, <2>2
<1>9. ASSUME NEW p \in Probes, Probe(p) \/ Answer(p)
      PROVE  UNCHANGED Publishing!publicationVars
  BY <1>0, <1>2, <1>9 DEF Probe, Answer, Call, Finished, QueueGoto
<1>10. ASSUME UNCHANGED <<queuePc, copies>>
       PROVE  UNCHANGED Publishing!publicationVars
  BY <1>1, <1>10
<1>11. CASE Loop \/ Connect \/ PauseInterrupted \/ PauseOver \/ Open \/ Listen \/ Settle
            \/ LeaveConsume \/ Restart
  BY <1>10, <1>11 DEF Loop, Connect, PauseInterrupted, PauseOver, WakeUp, Open, Listen, Settle,
                      LeaveConsume, Restart, queueVars
<1>12. CASE Sigterm \/ BrokerLost \/ BrokerBack \/ LinkLost \/ IdleConnectionDies
            \/ UNCHANGED allProcessVars
  BY <1>10, <1>12 DEF Sigterm, BrokerLost, BrokerBack, LinkLost, IdleConnectionDies,
                      HeartbeatMissed, allProcessVars, queueVars
<1> QED
  BY <1>3, <1>4, <1>5, <1>6, <1>7, <1>8, <1>9, <1>11, <1>12 DEF ProcessNext, MainStep, InQueue

\* JobQueue implements Publication: a publication that returns left the broker one copy
\* or two, one that raises none, one or two, whatever the probes, the broker and the
\* connections do meanwhile (queue.py, publish_job).
THEOREM PublishesAlwaysAsPromised == ProcessSpec => PublishesAsPromised
  BY ProcessAlways, PublicationStarts, PublicationSteps, PTL
     DEF ProcessSpec, PublishesAsPromised, Publishing!PublicationSpec

-----------------------------------------------------------------------------
(* The loop of the consuming thread. *)

\* The flag is up, and a message in hand, only where the loop can be then.
LoopInv ==
  /\ ConsumingIsTrue
  /\ inHand => mainPc \in Inside \ {"listening"}

LEMMA LoopInvKeeps == LoopInv /\ [ProcessNext]_allProcessVars => LoopInv'
<1> SUFFICES ASSUME LoopInv, [ProcessNext]_allProcessVars PROVE LoopInv'
  OBVIOUS
<1> USE DEF LoopInv, ConsumingIsTrue, Inside
<1>1. CASE Loop \/ Connect \/ PauseInterrupted \/ PauseOver
  BY <1>1 DEF Loop, Connect, PauseInterrupted, PauseOver, WakeUp
<1>2. CASE Open \/ Listen \/ Work \/ Published
  BY <1>2 DEF Open, Listen, Work, Published
<1>3. CASE Settle \/ LeaveConsume \/ CloseQueue \/ Restart
  BY <1>3 DEF Settle, LeaveConsume, CloseQueue, Restart
<1>4. ASSUME UNCHANGED <<mainPc, consuming, inHand>> PROVE LoopInv'
  BY <1>4
<1>5. ASSUME NEW t \in Threads, Enter(t) \/ InQueue(t) \/ UNCHANGED processVars PROVE LoopInv'
  BY <1>4, <1>5 DEF Enter, InQueue, processVars
<1>6. ASSUME NEW p \in Probes, Probe(p) \/ Answer(p) PROVE LoopInv'
  BY <1>4, <1>6 DEF Probe, Answer, processVars
<1>7. CASE Sigterm \/ BrokerLost \/ BrokerBack \/ LinkLost \/ IdleConnectionDies
           \/ UNCHANGED allProcessVars
  BY <1>4, <1>7 DEF Sigterm, BrokerLost, BrokerBack, LinkLost, IdleConnectionDies,
                    allProcessVars, processVars
<1> QED
  BY <1>1, <1>2, <1>3, <1>5, <1>6, <1>7 DEF ProcessNext, MainStep

LEMMA LoopInvAlways == ProcessSpec => []LoopInv
<1>1. ProcessInit => LoopInv
  BY DEF ProcessInit, Fresh, LoopInv, ConsumingIsTrue
<1> QED
  BY <1>1, LoopInvKeeps, PTL DEF ProcessSpec

\* The flag the probe reads is up only inside _consume, on every way out of it
\* (worker/consumer.py, run: the finally).
THEOREM FlagMeansWork == ProcessSpec => []ConsumingIsTrue
<1>1. LoopInv => ConsumingIsTrue
  BY DEF LoopInv
<1> QED
  BY <1>1, LoopInvAlways, PTL

\* A message in hand goes back to the broker only when the connection is gone or its
\* publication raised, never for a shutdown (worker/consumer.py, _consume).
THEOREM MessageIsFinished == ProcessSpec => NothingAbandoned
<1> DEFINE Abandoned == inHand /\ mainPc # "leaving" /\ mainPc' = "leaving"
           Cause == link = "broken" \/ queuePc[Main] = "raised"
<1>1. LoopInv /\ [ProcessNext]_allProcessVars => [Abandoned => Cause]_allProcessVars
  <2> SUFFICES ASSUME LoopInv, ProcessNext, Abandoned PROVE Cause
    OBVIOUS
  <2> USE DEF LoopInv, Inside
  <2>1. CASE Loop \/ Connect \/ PauseInterrupted \/ PauseOver
    BY <2>1 DEF Loop, Connect, PauseInterrupted, PauseOver, WakeUp
  <2>2. CASE Open \/ Listen \/ Work
    BY <2>2 DEF Open, Listen, Work
  <2>3. CASE Published \/ Settle
    BY <2>3 DEF Published, Settle
  <2>4. CASE LeaveConsume \/ CloseQueue \/ Restart
    BY <2>4 DEF LeaveConsume, CloseQueue, Restart
  <2>5. ASSUME UNCHANGED mainPc PROVE FALSE
    BY <2>5
  <2>6. ASSUME NEW t \in Threads, Enter(t) \/ InQueue(t) \/ UNCHANGED processVars PROVE FALSE
    BY <2>5, <2>6 DEF Enter, InQueue, processVars
  <2>7. ASSUME NEW p \in Probes, Probe(p) \/ Answer(p) PROVE FALSE
    BY <2>5, <2>7 DEF Probe, Answer, processVars
  <2>8. CASE Sigterm \/ BrokerLost \/ BrokerBack \/ LinkLost \/ IdleConnectionDies
    BY <2>5, <2>8 DEF Sigterm, BrokerLost, BrokerBack, LinkLost, IdleConnectionDies, processVars
  <2> QED
    BY <2>1, <2>2, <2>3, <2>4, <2>6, <2>7, <2>8 DEF ProcessNext, MainStep
<1> QED
  BY <1>1, LoopInvAlways, PTL DEF ProcessSpec, NothingAbandoned

-----------------------------------------------------------------------------
(* Types: the pause stays within its bounds, and no publication leaves more than two *)
(* copies.                                                                         *)

\* What a step of a thread inside JobQueue may do to the variables.
LEMMA QueueStepMoves ==
  ASSUME NEW t \in Threads, QueueStep(t) \/ SendUnconfirmed(t)
  PROVE  /\ UNCHANGED broker
         /\ cached' \in {cached, "none", "live"}
         /\ troubles' = troubles \/ (troubles < MaxTroubles /\ troubles' = troubles + 1)
         /\ \/ copies' = copies
            \/ queuePc[t] = "send" /\ copies' = [copies EXCEPT ![t] = @ + 1]
<1>1. ASSUME TryAgainOrRaise(t) PROVE cached' = "none"
  BY <1>1 DEF TryAgainOrRaise
<1>2. CASE Ensure(t)
  BY <1>1, <1>2 DEF Ensure, brokerVars
<1>3. CASE Send(t)
  BY <1>3 DEF Send, brokerVars
<1>4. CASE SendFails(t)
  BY <1>1, <1>4 DEF SendFails, brokerVars
<1>5. CASE Check(t)
  BY <1>5 DEF Check, brokerVars
<1>6. CASE SendUnconfirmed(t)
  BY <1>1, <1>6 DEF SendUnconfirmed
<1> QED
  BY <1>2, <1>3, <1>4, <1>5, <1>6 DEF QueueStep

LEMMA ProcessTypesKeep ==
  ASSUME ProcessTypeOK, ProcessInv, ProcessInv', [ProcessNext]_allProcessVars
  PROVE  ProcessTypeOK'
<1> DEFINE CallTypes == /\ broker \in {"up", "down", "refusing"}
                        /\ cached \in {"none", "live", "stale", "closed"}
                        /\ copies \in [Threads -> 0 .. 2]
                        /\ troubles \in 0 .. MaxTroubles
           LoopTypes == /\ mainPc \in MainPc /\ link \in {"none", "open", "broken"}
                        /\ delay \in FirstDelay .. MaxDelay
                        /\ stopAsked \in BOOLEAN /\ consuming \in BOOLEAN /\ inHand \in BOOLEAN
                        /\ answer \in [Probes -> {"none", "ready", "notReady"}]
<1>1. CallTypes /\ LoopTypes
  BY DEF ProcessTypeOK, QueueTypeOK
<1>2. SUFFICES CallTypes' /\ LoopTypes'
  BY DEF ProcessTypeOK, QueueTypeOK, ProcessInv, QueueShape, MainPc, QueuePc, Threads
<1>3. /\ FirstDelay \in Nat \ {0} /\ MaxDelay \in Nat /\ FirstDelay <= MaxDelay
      /\ MaxTroubles \in Nat
      /\ Main \in Threads /\ \A p \in Probes : p \in Threads
  BY ConsumerProcessAssumption, PublishChannelAssumption DEF Threads
<1> USE DEF MainPc
<1>4. CASE Loop \/ Connect \/ PauseInterrupted \/ PauseOver \/ Open \/ Listen \/ Settle
           \/ LeaveConsume \/ Restart
  <2>1. UNCHANGED <<queueVars, brokerVars>> /\ UNCHANGED answer
    BY <1>4 DEF Loop, Connect, PauseInterrupted, PauseOver, WakeUp, Open, Listen, Settle,
                LeaveConsume, Restart
  <2>2. mainPc' \in MainPc /\ link' \in {"none", "open", "broken"}
    BY <1>1, <1>4 DEF Loop, Connect, PauseInterrupted, PauseOver, WakeUp, Open, Listen, Settle,
                LeaveConsume, Restart
  <2>3. delay' = delay \/ delay' = FirstDelay \/ delay' = Smaller(2 * delay, MaxDelay)
    BY <1>4 DEF Loop, Connect, PauseInterrupted, PauseOver, WakeUp, Open, Listen, Settle,
                LeaveConsume, Restart
  <2>4. delay' \in FirstDelay .. MaxDelay
    BY <1>1, <1>3, <2>3 DEF Smaller
  <2>5. stopAsked' = stopAsked /\ consuming' \in {consuming, TRUE, FALSE} /\ inHand' \in {inHand, TRUE, FALSE}
    BY <1>4 DEF Loop, Connect, PauseInterrupted, PauseOver, WakeUp, Open, Listen, Settle,
                LeaveConsume, Restart
  <2> QED
    BY <1>1, <2>1, <2>2, <2>4, <2>5 DEF queueVars, brokerVars
<1>5. CASE Work \/ Published \/ CloseQueue
  <2>1. UNCHANGED <<brokerVars, link, delay, stopAsked, consuming, inHand>> /\ mainPc' \in MainPc
        /\ cached' \in {cached, "none"}
    BY <1>5 DEF Work, Published, CloseQueue, Call, Finished, queueVars
  <2>2. answer' \in {answer, [p \in Probes |-> "none"]}
    BY <1>5 DEF Work, Published, CloseQueue
  <2>3. copies' \in {copies, [copies EXCEPT ![Main] = 0], [t \in Threads |-> 0]}
    BY <1>5 DEF Work, Published, CloseQueue, Call, Finished, queueVars
  <2>4. copies' \in [Threads -> 0 .. 2] /\ answer' \in [Probes -> {"none", "ready", "notReady"}]
    BY <1>1, <1>3, <2>2, <2>3
  <2> QED
    BY <1>1, <2>1, <2>4 DEF brokerVars
<1>6. ASSUME NEW t \in Threads, Enter(t) PROVE CallTypes' /\ LoopTypes'
  BY <1>1, <1>6 DEF Enter, Acquire, brokerVars, processVars
<1>7. ASSUME NEW t \in Threads, QueueStep(t) \/ SendUnconfirmed(t), UNCHANGED processVars
      PROVE  CallTypes' /\ LoopTypes'
  <2>1. copies' \in [Threads -> 0 .. 2]
    <3>1. CASE queuePc[t] = "send" /\ copies' = [copies EXCEPT ![t] = @ + 1]
      <4>1. copies[t] + 1 \in 0 .. 2
        BY <1>1, <3>1 DEF ProcessInv, CopiesAreTries, QueueShape
      <4> QED
        BY <1>1, <3>1, <4>1
    <3> QED
      BY <1>1, <1>7, <3>1, QueueStepMoves
  <2>2. troubles' \in 0 .. MaxTroubles
    BY <1>1, <1>3, <1>7, QueueStepMoves
  <2> QED
    BY <1>1, <1>7, <2>1, <2>2, QueueStepMoves DEF processVars
<1>8. ASSUME NEW p \in Probes, Probe(p) \/ Answer(p) PROVE CallTypes' /\ LoopTypes'
  <2>1. UNCHANGED <<brokerVars, cached, mainPc, link, delay, stopAsked, consuming, inHand>>
    BY <1>8 DEF Probe, Answer, Call, Finished, processVars
  <2>2. copies' = [copies EXCEPT ![p] = 0]
    BY <1>8 DEF Probe, Answer, Call, Finished
  <2>3. \E said \in {"ready", "notReady"} : answer' \in {answer, [answer EXCEPT ![p] = said]}
    BY <1>8 DEF Probe, Answer, processVars
  <2>4. copies' \in [Threads -> 0 .. 2] /\ answer' \in [Probes -> {"none", "ready", "notReady"}]
    BY <1>1, <1>3, <2>2, <2>3
  <2> QED
    BY <1>1, <2>1, <2>4 DEF brokerVars
<1>9. CASE Sigterm \/ BrokerLost \/ BrokerBack \/ LinkLost \/ IdleConnectionDies
           \/ UNCHANGED allProcessVars
  <2>1. UNCHANGED <<mainPc, delay, consuming, inHand, answer, copies>>
        /\ stopAsked' \in {stopAsked, TRUE}
    BY <1>9 DEF Sigterm, BrokerLost, BrokerBack, LinkLost, IdleConnectionDies, HeartbeatMissed,
                allProcessVars, processVars, queueVars
  <2>2. broker' \in {broker, "up", "down", "refusing"} /\ cached' \in {cached, "stale", "closed"}
        /\ link' \in {link, "broken"}
    BY <1>9 DEF Sigterm, BrokerLost, BrokerBack, LinkLost, IdleConnectionDies, HeartbeatMissed,
                Drops, LinkBreaks, allProcessVars, processVars, queueVars, brokerVars
  <2>3. troubles' = troubles \/ (troubles < MaxTroubles /\ troubles' = troubles + 1)
    BY <1>9 DEF Sigterm, BrokerLost, BrokerBack, LinkLost, IdleConnectionDies, HeartbeatMissed,
                allProcessVars, brokerVars
  <2>4. troubles' \in 0 .. MaxTroubles
    BY <1>1, <1>3, <2>3
  <2>5. stopAsked' \in BOOLEAN
    BY <1>1, <2>1, Zenon
  <2>6. CallTypes'
    BY <1>1, <2>1, <2>2, <2>4
  <2>7. LoopTypes'
    <3>1. link' \in {"none", "open", "broken"}
      BY <1>1, <2>2
    <3> QED
      BY <1>1, <2>1, <2>5, <3>1, Zenon
  <2> QED
    BY <2>6, <2>7
<1> QED
  BY <1>4, <1>5, <1>6, <1>7, <1>8, <1>9 DEF ProcessNext, MainStep, InQueue

\* Types of a consumer's process: the pause between two tries to connect stays within
\* its limits, and a message is accepted twice at most.
THEOREM ProcessTypesHold == ProcessSpec => []ProcessTypeOK
<1>1. ProcessInit => ProcessTypeOK
  <2> SUFFICES ASSUME ProcessInit PROVE ProcessTypeOK
    OBVIOUS
  <2>1. /\ troubles \in 0 .. MaxTroubles /\ delay \in FirstDelay .. MaxDelay
        /\ 0 \in 0 .. 2 /\ 1 \in 1 .. 2
    BY PublishChannelAssumption, ConsumerProcessAssumption DEF ProcessInit, QueueInit, Fresh
  <2>2. QueueTypeOK
    BY <2>1 DEF ProcessInit, QueueInit, QueueTypeOK, QueuePc
  <2> QED
    BY <2>1, <2>2 DEF ProcessInit, Fresh, ProcessTypeOK, MainPc
<1> QED
  BY <1>1, ProcessTypesKeep, ProcessAlways, PTL DEF ProcessSpec

=============================================================================
