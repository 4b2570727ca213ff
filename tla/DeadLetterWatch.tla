--------------------------- MODULE DeadLetterWatch ---------------------------
(***************************************************************************)
(* The CronJob of app.dlq_watch: it counts the rejected messages, queue    *)
(* after queue, while messages keep being rejected, and its exit code is   *)
(* all that kubectl shows.  Nothing takes a message away from these queues.*)
(***************************************************************************)
EXTENDS Naturals

CONSTANTS
  DeadQueues,     \* how many queues are read, in order
  MaxDead         \* bound: rejected messages in a queue

ASSUME DeadLetterWatchAssumption == DeadQueues \in Nat \ {0} /\ MaxDead \in Nat

VARIABLES
  declared,       \* the queues a consumer has declared
  dead,           \* the messages in each of them
  watchPc,        \* the queue the job reads next, and the last one read included
  deadTotal,      \* messages counted
  exitCode,       \* 0, 1, or 2 before there is one
  oldest          \* history: the queues that held a message when the job began

watchVars == <<declared, dead, watchPc, deadTotal, exitCode, oldest>>

DeadQueue == 1 .. DeadQueues

WatchTypeOK ==
  /\ declared \subseteq DeadQueue
  /\ dead \in [DeadQueue -> 0 .. MaxDead]
  /\ watchPc \in 0 .. DeadQueues + 1
  /\ deadTotal \in 0 .. DeadQueues * MaxDead
  /\ exitCode \in 0 .. 2
  /\ oldest \subseteq DeadQueue

Waiting == {q \in DeadQueue : dead[q] > 0}

WatchInit ==
  /\ declared = {} /\ dead = [q \in DeadQueue |-> 0]
  /\ watchPc = 0 /\ deadTotal = 0 /\ exitCode = 2 /\ oldest = {}

\* A consumer starts for the first time.
Declare(q) ==
  /\ q \notin declared
  /\ declared' = declared \cup {q}
  /\ UNCHANGED <<dead, watchPc, deadTotal, exitCode, oldest>>

\* A message is rejected.
Bury(q) ==
  /\ q \in declared /\ dead[q] < MaxDead
  /\ dead' = [dead EXCEPT ![q] = @ + 1]
  /\ UNCHANGED <<declared, watchPc, deadTotal, exitCode, oldest>>

StartWatch ==
  /\ watchPc = 0
  /\ watchPc' = 1 /\ deadTotal' = 0 /\ exitCode' = 2 /\ oldest' = Waiting
  /\ UNCHANGED <<declared, dead>>

EndWatch(code) == exitCode' = code /\ watchPc' = 0

\* Mutation: the queue read last decides.
CountLastQueue ==
  /\ watchPc \in DeadQueue
  /\ deadTotal' = dead[watchPc]
  /\ watchPc' = watchPc + 1
  /\ UNCHANGED <<declared, dead, exitCode, oldest>>

\* One turn of the loop of main: a queue nobody declared yet counts as empty (404).
CountQueue ==
  /\ watchPc \in DeadQueue
  /\ deadTotal' = deadTotal + dead[watchPc]
  /\ watchPc' = watchPc + 1
  /\ UNCHANGED <<declared, dead, exitCode, oldest>>

\* The management API does not answer: an exit code of its own is not foreseen.
WatchFails ==
  /\ watchPc \in DeadQueue
  /\ EndWatch(1)
  /\ UNCHANGED <<declared, dead, deadTotal, oldest>>

ReportDead ==
  /\ watchPc = DeadQueues + 1
  /\ EndWatch(IF deadTotal > 0 THEN 1 ELSE 0)
  /\ UNCHANGED <<declared, dead, deadTotal, oldest>>

WatchNext ==
  \/ \E q \in DeadQueue : Declare(q) \/ Bury(q)
  \/ StartWatch \/ CountQueue \/ WatchFails \/ ReportDead

WatchSpec == WatchInit /\ [][WatchNext]_watchVars

\* Exit code 0 means nothing was waiting when the job began, in any of the queues,
\* even if one could not be read or filled up behind it (dlq_watch.py).
QuietMeansEmpty == exitCode = 0 => oldest = {}

=============================================================================
