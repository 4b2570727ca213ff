------------------------ MODULE NotificationService ------------------------
(***************************************************************************)
(* The notification-service: notifier/consumer.py and db.py.               *)
(*                                                                         *)
(* It records a notice under the uniqueness of (asset, event), sends it    *)
(* outside the transaction, then marks it sent.                            *)
(***************************************************************************)
EXTENDS Database, Broker, Faults

VARIABLES
  notifierPc,      \* what the handler of each replica does next
  notifierEvent,   \* the event it works on
  delivered        \* history: how often the channel took a notice

notifierVars == <<notifierPc, notifierEvent, delivered>>

NotifierPc ==
  {"idle", "findOwner", "record", "send", "markSent", "retryOrGiveUp", "republish", "ack",
   "nack"}

NotifierTypeOK ==
  /\ notifierPc \in [Notifiers -> NotifierPc]
  /\ notifierEvent \in [Notifiers -> Event \cup {NoEvent}]
  /\ delivered \in [AssetId -> [EventKind -> Nat]]

NotifierInit ==
  /\ notifierPc = [n \in Notifiers |-> "idle"]
  /\ notifierEvent = [n \in Notifiers |-> NoEvent]
  /\ delivered = [a \in AssetId |-> [e \in EventKind |-> 0]]

Subject(n) == notifierEvent[n].asset
Kind(n) == notifierEvent[n].kind

Proceed(n, pc) ==
  /\ notifierPc' = [notifierPc EXCEPT ![n] = pc]
  /\ UNCHANGED notifierEvent

Rest(n) ==
  /\ notifierPc' = [notifierPc EXCEPT ![n] = "idle"]
  /\ notifierEvent' = [notifierEvent EXCEPT ![n] = NoEvent]

ReceiveEvent(n) ==
  /\ notifierPc[n] = "idle"
  /\ \E m \in Event :
       /\ DeliverEvent(n, m)
       /\ notifierEvent' = [notifierEvent EXCEPT ![n] = m]
  /\ notifierPc' = [notifierPc EXCEPT ![n] = "findOwner"]
  /\ UNCHANGED <<delivered, dbVars, jobVars>> /\ Smooth

\* find_owner: an event that outlived its image has nobody to inform.
FindOwner(n) ==
  /\ notifierPc[n] = "findOwner"
  /\ Proceed(n, IF Exists(Subject(n)) THEN "record" ELSE "ack")
  /\ UNCHANGED <<delivered, dbVars, jobVars, eventVars>> /\ Smooth

\* Mutation: an existing row ends the work whether or not it was ever sent.
RecordOnce(n) ==
  LET a == Subject(n)  e == Kind(n) IN
  /\ notifierPc[n] = "record"
  /\ \/ /\ RecordNotice(a, e)
        /\ Proceed(n, IF notices[a][e] = "none" THEN "send" ELSE "ack")
     \/ ~Exists(a) /\ UNCHANGED notices /\ Proceed(n, "retryOrGiveUp")
  /\ UNCHANGED <<delivered, assets, variants, jobVars, eventVars>> /\ Smooth

\* record, and find_notification after a conflict: recorded and never sent
\* deserves another try.  An image deleted since find_owner refuses the row.
Record(n) ==
  LET a == Subject(n)  e == Kind(n) IN
  /\ notifierPc[n] = "record"
  /\ \/ /\ RecordNotice(a, e)
        /\ Proceed(n, IF notices[a][e] = "sent" THEN "ack" ELSE "send")
     \/ ~Exists(a) /\ UNCHANGED notices /\ Proceed(n, "retryOrGiveUp")
  /\ UNCHANGED <<delivered, assets, variants, jobVars, eventVars>> /\ Smooth

\* Mutation: the row says sent before the channel has taken the notice.
SendAfterMark(n) ==
  LET a == Subject(n)  e == Kind(n) IN
  /\ notifierPc[n] = "send"
  /\ SetSent(a, e)
  /\ Proceed(n, "markSent")
  /\ UNCHANGED <<delivered, assets, variants, jobVars, eventVars>> /\ Smooth

\* channel.send, outside any transaction; SNS may take the message and its
\* answer be lost.
Send(n) ==
  LET taken == [delivered EXCEPT ![Subject(n)][Kind(n)] = @ + 1] IN
  /\ notifierPc[n] = "send"
  /\ \/ delivered' = taken /\ Proceed(n, "markSent") /\ Smooth
     \/ /\ delivered' \in {delivered, taken}
        /\ Proceed(n, "retryOrGiveUp") /\ Fault("channel")
  /\ UNCHANGED <<dbVars, jobVars, eventVars>>

MarkSent(n) ==
  /\ notifierPc[n] = "markSent"
  /\ SetSent(Subject(n), Kind(n))
  /\ Proceed(n, "ack")
  /\ UNCHANGED <<delivered, assets, variants, jobVars, eventVars>> /\ Smooth

\* Mutation: after the last attempt the event is confirmed, not rejected.
NotifierGiveUpQuietly(n) ==
  /\ notifierPc[n] = "retryOrGiveUp"
  /\ Proceed(n, IF notifierEvent[n].attempt >= MaxEventAttempts THEN "ack" ELSE "republish")
  /\ UNCHANGED <<delivered, dbVars, jobVars, eventVars>> /\ Smooth

\* The branch of _retry_or_give_up on the attempts spent.
NotifierRetryOrGiveUp(n) ==
  /\ notifierPc[n] = "retryOrGiveUp"
  /\ Proceed(n, IF notifierEvent[n].attempt >= MaxEventAttempts THEN "nack" ELSE "republish")
  /\ UNCHANGED <<delivered, dbVars, jobVars, eventVars>> /\ Smooth

\* The next attempt goes straight to the queue, on the consumer's own channel,
\* and the ack follows on it.  When the connection is gone, or goes now, the
\* message in hand comes back, with or without the new one.
NotifierRepublish(n) ==
  LET next == [notifierEvent[n] EXCEPT !.attempt = @ + 1] IN
  /\ notifierPc[n] = "republish"
  /\ \/ eventLease[n] # NoEvent /\ ReplaceEvent(n, next) /\ Smooth
     \/ eventLease[n] = NoEvent /\ UNCHANGED eventVars /\ Smooth
     \/ /\ eventLease[n] # NoEvent
        /\ \E copies \in {0, 1} : RequeueEvent(n, next, copies)
        /\ Fault("connection")
  /\ Rest(n)
  /\ UNCHANGED <<delivered, dbVars, jobVars>>

NotifierAck(n) ==
  /\ notifierPc[n] = "ack"
  /\ AckEvent(n)
  /\ Rest(n)
  /\ UNCHANGED <<delivered, dbVars, jobVars>> /\ Smooth

NotifierNack(n) ==
  /\ notifierPc[n] = "nack"
  /\ NackEvent(n)
  /\ Rest(n)
  /\ UNCHANGED <<delivered, dbVars, jobVars>> /\ Smooth

\* A transaction of _notify raises; the answer of one that committed is lost.
NotifierBreak(n) ==
  /\ notifierPc[n] \in {"findOwner", "record", "markSent"}
  /\ \/ UNCHANGED notices /\ Fault("database")
     \/ /\ notifierPc[n] = "record" /\ RecordNotice(Subject(n), Kind(n))
        /\ Fault("commit")
     \/ /\ notifierPc[n] = "markSent" /\ SetSent(Subject(n), Kind(n))
        /\ Fault("commit")
  /\ Proceed(n, "retryOrGiveUp")
  /\ UNCHANGED <<delivered, assets, variants, jobVars, eventVars>>

NotifierLoseConnection(n) ==
  /\ eventLease[n] # NoEvent
  /\ Fault("connection")
  /\ RequeueEvent(n, NoEvent, 0)
  /\ UNCHANGED <<notifierVars, dbVars, jobVars>>

CrashNotifier(n) ==
  /\ notifierPc[n] # "idle"
  /\ Fault("crash")
  /\ RequeueEvent(n, NoEvent, 0)
  /\ Rest(n)
  /\ UNCHANGED <<delivered, dbVars, jobVars>>

NotifierStep(n) ==
  \/ ReceiveEvent(n) \/ FindOwner(n) \/ Record(n) \/ Send(n) \/ MarkSent(n)
  \/ NotifierRetryOrGiveUp(n) \/ NotifierRepublish(n) \/ NotifierAck(n) \/ NotifierNack(n)

NotifierTrouble(n) == NotifierBreak(n) \/ NotifierLoseConnection(n) \/ CrashNotifier(n)

NotifierNext == \E n \in Notifiers : NotifierStep(n) \/ NotifierTrouble(n)

=============================================================================
