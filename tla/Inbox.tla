-------------------------------- MODULE Inbox --------------------------------
(***************************************************************************)
(* The inbox of one user: the notices the notification-service commits,    *)
(* the pages and the counts list_notifications reads, and the instant the  *)
(* browser remembers (notifications.service.ts).                           *)
(*                                                                         *)
(* A notice is known by its created_at, the start of the transaction that  *)
(* writes it.  A notifier has one event in hand at a time; there is one of *)
(* them, and a second while a rollout replaces it (values.yaml, the        *)
(* Deployment in notification-service.yaml).  Answers may come back in any *)
(* order.                                                                  *)
(***************************************************************************)
EXTENDS Naturals, FiniteSets

CONSTANTS
  Writers,        \* the notifiers
  FirstPage,      \* the page_size open() asks for
  MaxClock,       \* bound: notices written
  MaxOpen         \* bound: openings of the inbox in flight together

ASSUME InboxAssumption ==
  MaxClock \in Nat /\ MaxOpen \in Nat \ {0} /\ FirstPage \in Nat \ {0}

VARIABLES
  clock,          \* PostgreSQL's
  writing,        \* when the open transaction of each notifier began: 0 if none
  shelf,          \* table notifications, as committed
  openings,       \* answers of the first page under way
  seenUpTo,       \* the instant in localStorage: 0 if none
  countSince,     \* the `since` of the count under way: 0 if none was sent
  counting,       \* the request of the count is under way
  looked,         \* history: the notices of the pages that were shown
  latest,         \* history: the newest notice ever committed
  overtaken       \* history: the notices committed after a newer one

inboxVars ==
  <<clock, writing, shelf, openings, seenUpTo, countSince, counting, looked, latest, overtaken>>

Instant == 1 .. MaxClock

InboxTypeOK ==
  /\ clock \in 0 .. MaxClock
  /\ writing \in [Writers -> Instant \cup {0}]
  /\ shelf \subseteq Instant /\ looked \subseteq Instant
  /\ openings \subseteq SUBSET Instant
  /\ seenUpTo \in Instant \cup {0} /\ countSince \in Instant \cup {0}
  /\ counting \in BOOLEAN
  /\ latest \in Instant \cup {0} /\ overtaken \subseteq Instant

InboxInit ==
  /\ clock = 0 /\ writing = [w \in Writers |-> 0]
  /\ shelf = {} /\ openings = {} /\ seenUpTo = 0
  /\ countSince = 0 /\ counting = FALSE
  /\ looked = {} /\ latest = 0 /\ overtaken = {}

browser == <<seenUpTo, countSince, counting, looked>>

order == <<latest, overtaken>>

-----------------------------------------------------------------------------
(* db.record, seen from the table. *)

\* The transaction begins: now() is its start from here on.
BeginNotice(w) ==
  /\ writing[w] = 0 /\ clock < MaxClock
  /\ clock' = clock + 1
  /\ writing' = [writing EXCEPT ![w] = clock']
  /\ UNCHANGED <<shelf, openings, browser, order>>

CommitNotice(w) ==
  /\ writing[w] # 0
  /\ shelf' = shelf \cup {writing[w]}
  /\ writing' = [writing EXCEPT ![w] = 0]
  /\ IF writing[w] < latest
     THEN overtaken' = overtaken \cup {writing[w]} /\ UNCHANGED latest
     ELSE latest' = writing[w] /\ UNCHANGED overtaken
  /\ UNCHANGED <<clock, openings, browser>>

\* The image of a notice is deleted, and the notice with it.
NoticeGoes(n) ==
  /\ n \in shelf
  /\ shelf' = shelf \ {n}
  /\ UNCHANGED <<clock, writing, openings, browser, order>>

-----------------------------------------------------------------------------
(* list_notifications, for the page and for the badge. *)

\* ORDER BY created_at DESC LIMIT page_size.
IsFirstPage(page) ==
  /\ page \subseteq shelf /\ \A n \in page, o \in shelf \ page : o < n
  /\ \/ Cardinality(page) = FirstPage
     \/ Cardinality(page) < FirstPage /\ page = shelf

\* open(1): the page is read.  Further pages mark nothing.
ReadInbox ==
  /\ Cardinality(openings) < MaxOpen
  /\ \E page \in SUBSET shelf : IsFirstPage(page) /\ openings' = openings \cup {page}
  /\ UNCHANGED <<clock, writing, shelf, browser, order>>

\* Mutation: what is marked is the moment of the answer.
MarkSeenByClock(page) == seenUpTo' = clock

\* markSeen: up to the newest on screen.
MarkSeen(page) == \E n \in page : (\A o \in page : o <= n) /\ seenUpTo' = n

\* Its answer arrives; an empty page marks nothing.
ShowInbox(page) ==
  /\ page \in openings
  /\ openings' = openings \ {page}
  /\ looked' = looked \cup page
  /\ IF page = {} THEN UNCHANGED seenUpTo ELSE MarkSeen(page)
  /\ UNCHANGED <<clock, writing, shelf, countSince, counting, order>>

\* refresh: `since` is taken from localStorage when the request leaves.
AskCount ==
  /\ ~counting
  /\ counting' = TRUE /\ countSince' = seenUpTo
  /\ UNCHANGED <<clock, writing, shelf, openings, seenUpTo, looked, order>>

\* The total is read and shown in the badge, or the request fails and shows nothing.
CountNotices ==
  /\ counting
  /\ counting' = FALSE /\ countSince' = 0
  /\ UNCHANGED <<clock, writing, shelf, openings, seenUpTo, looked, order>>

-----------------------------------------------------------------------------

InboxNext ==
  \/ \E w \in Writers : BeginNotice(w) \/ CommitNotice(w)
  \/ \E n \in Instant : NoticeGoes(n)
  \/ ReadInbox
  \/ \E page \in openings : ShowInbox(page)
  \/ AskCount \/ CountNotices

InboxSpec == InboxInit /\ [][InboxNext]_inboxVars

-----------------------------------------------------------------------------

\* A whole page of newer notices was shown in the place of this one.
Buried(n) == Cardinality({m \in looked : m > n}) >= FirstPage

\* What arrives while a page is on its way or being read still counts as new, in
\* whatever order the answers come.  A notice nobody was shown falls behind the instant
\* a count starts from in two ways only: a full page of newer ones was shown instead of
\* it, or it was committed after a newer one, which takes two notifiers
\* (notifications.service.ts, open and markSeen; routes.py, list_notifications).
NewIsNeverMissed ==
  \A n \in shelf \ looked :
    n <= seenUpTo \/ (counting /\ n <= countSince) => Buried(n) \/ n \in overtaken

=============================================================================
