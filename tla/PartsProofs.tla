------------------------------ MODULE PartsProofs ------------------------------
(***************************************************************************)
(* The smaller parts around the platform, a section each: accounts, inbox, *)
(* dead letter watch, readiness, and the data of an image.                 *)
(***************************************************************************)
EXTENDS Accounts, Inbox, DeadLetterWatch, Readiness, ImageData, FiniteSetTheorems, TLAPS

-----------------------------------------------------------------------------
(* Accounts: who registered owns the account. *)

\* UNIQUE (email).
OneAccountEach == \A u, v \in users : u.email = v.email => u = v

\* A 201 is answered for a row that is there.
WelcomedHaveRows == \A f \in welcomed : NewAccount(f) \in users

AccountsInv ==
  /\ form \in [Clients -> Form] /\ welcomed \subseteq Form
  /\ OneAccountEach /\ WelcomedHaveRows

LEMMA AccountsKeep == AccountsInv /\ [AccountsNext]_accountVars => AccountsInv'
<1> SUFFICES ASSUME AccountsInv, [AccountsNext]_accountVars PROVE AccountsInv'
  OBVIOUS
<1>1. ASSUME NEW c \in Clients, NEW f \in Form, Register(c, f) PROVE AccountsInv'
  BY <1>1 DEF AccountsInv, Register, OneAccountEach, WelcomedHaveRows
<1>2. ASSUME NEW c \in Clients, InsertUser(c) PROVE AccountsInv'
  <2>1. CASE Taken(AddressOf(form[c]))
    BY <1>2, <2>1 DEF AccountsInv, InsertUser, OneAccountEach, WelcomedHaveRows
  <2>2. CASE ~Taken(AddressOf(form[c]))
    <3>1. /\ users' = users \cup {NewAccount(form[c])}
          /\ welcomed' = welcomed \cup {form[c]}
          /\ form' = form
      BY <1>2, <2>2 DEF InsertUser
    <3>2. form[c] \in Form
      BY DEF AccountsInv
    <3>3. OneAccountEach'
      <4>1. NewAccount(form[c]).email = AddressOf(form[c])
        BY DEF NewAccount
      <4> QED
        BY <2>2, <3>1, <4>1 DEF AccountsInv, OneAccountEach, Taken
    <3>4. WelcomedHaveRows'
      BY <3>1 DEF AccountsInv, WelcomedHaveRows, NewAccount, AddressOf
    <3> QED
      BY <3>1, <3>2, <3>3, <3>4 DEF AccountsInv
  <2> QED
    BY <2>1, <2>2
<1>3. CASE UNCHANGED accountVars
  BY <1>3 DEF accountVars, AccountsInv, OneAccountEach, WelcomedHaveRows, NewAccount, AddressOf
<1> QED
  BY <1>1, <1>2, <1>3 DEF AccountsNext

LEMMA AccountsMean == AccountsInv => RegistrantsOwnTheirAccount
<1> SUFFICES ASSUME AccountsInv, NEW f \in welcomed, NEW s \in Spelling, NEW p \in Password,
                    Normal[s] = AddressOf(f)
             PROVE  LogsInAs([spelling |-> s, password |-> p]) # {} <=> p = f.password
  BY DEF RegistrantsOwnTheirAccount
<1>1. NewAccount(f) \in users
  BY DEF AccountsInv, WelcomedHaveRows
<1>2. NewAccount(f).email = Normal[s] /\ NewAccount(f).password = f.password
  BY DEF NewAccount
<1>3. LogsInAs([spelling |-> s, password |-> p])
        = {u \in users : u.email = Normal[s] /\ u.password = p}
  BY DEF LogsInAs, AddressOf
<1>4. \A u \in users : u.email = Normal[s] => u = NewAccount(f)
  BY <1>1, <1>2 DEF AccountsInv, OneAccountEach
<1> QED
  BY <1>1, <1>2, <1>3, <1>4

\* Types of the accounts and of the requests that make them.
THEOREM AccountsTypesHold == AccountsSpec => []AccountsTypeOK
<1>1. AccountsInit => AccountsTypeOK
  BY DEF AccountsInit, AccountsTypeOK
<1>2. AccountsTypeOK /\ [AccountsNext]_accountVars => AccountsTypeOK'
  BY DEF AccountsTypeOK, AccountsNext, Register, InsertUser, accountVars, Account, Form,
         NewAccount, AddressOf
<1> QED
  BY <1>1, <1>2, PTL DEF AccountsSpec

\* Who was told 201 owns the account, for every number of registrations under way
\* (auth/routes.py, register).
THEOREM RegistrantsAlwaysOwn == AccountsSpec => []RegistrantsOwnTheirAccount
<1>1. AccountsInit => AccountsInv
  BY DEF AccountsInit, AccountsInv, OneAccountEach, WelcomedHaveRows
<1> QED
  BY <1>1, AccountsKeep, AccountsMean, PTL DEF AccountsSpec

-----------------------------------------------------------------------------
(* Inbox: which notices can fall behind the instant the browser remembers, *)
(* for every clock, every size of the first page, every number of notifiers*)
(* and of answers in flight.  NewIsNeverMissed is not inductive alone: what*)
(* can be seen must be no newer than the newest notice committed, and an   *)
(* answer under way must lack only what its own page may bury.             *)

\* Open transactions began at different instants, none of them that of the newest notice.
StampsDiffer ==
  /\ \A w \in Writers : writing[w] <= clock /\ (writing[w] # 0 => writing[w] # latest)
  /\ \A v, w \in Writers : v # w /\ writing[v] # 0 => writing[v] # writing[w]

\* Nothing committed or seen is newer than the newest notice.
LatestIsNewest ==
  /\ latest <= clock /\ seenUpTo <= latest /\ countSince <= latest
  /\ \A n \in shelf : n <= latest
  /\ \A page \in openings : \A n \in page : n <= latest

\* What a page under way leaves out below its newest notice: a full page of newer ones
\* stands in its place, or it was overtaken.
PagesBury ==
  \A page \in openings : \A n \in shelf \ page : \A p \in page :
    n < p => n \in overtaken \/ Cardinality({m \in page : m > n}) >= FirstPage

InboxInv ==
  /\ InboxTypeOK /\ StampsDiffer /\ LatestIsNewest /\ PagesBury /\ NewIsNeverMissed

\* The notices of a set that are newer than n.
Newer(S, n) == {m \in S : m > n}

\* More pages shown bury what fewer did.
LEMMA BuryingGrows ==
  ASSUME NEW T \in SUBSET Instant, NEW S \in SUBSET T, NEW n \in Instant,
         Cardinality(Newer(S, n)) >= FirstPage
  PROVE  Cardinality(Newer(T, n)) >= FirstPage
<1>1. IsFiniteSet(Instant)
  BY FS_Interval, InboxAssumption DEF Instant
<1>2. IsFiniteSet(Newer(T, n)) /\ Newer(S, n) \subseteq Newer(T, n)
  BY <1>1, FS_Subset DEF Newer
<1>3. /\ IsFiniteSet(Newer(S, n))
      /\ Cardinality(Newer(S, n)) <= Cardinality(Newer(T, n))
  BY <1>2, FS_Subset
<1>4. Cardinality(Newer(S, n)) \in Nat /\ Cardinality(Newer(T, n)) \in Nat
  BY <1>2, <1>3, FS_CardinalityType
<1> QED
  BY <1>3, <1>4, InboxAssumption

LEMMA InboxStarts == InboxInit => InboxInv
<1> SUFFICES ASSUME InboxInit PROVE InboxInv
  OBVIOUS
<1> USE InboxAssumption DEF InboxInit
<1>1. InboxTypeOK
  <2>1. openings \subseteq SUBSET Instant
    OBVIOUS
  <2>2. clock \in 0 .. MaxClock
    OBVIOUS
  <2> QED
    BY <2>1, <2>2 DEF InboxTypeOK
<1>2. StampsDiffer /\ LatestIsNewest
  BY DEF StampsDiffer, LatestIsNewest
<1>3. PagesBury /\ NewIsNeverMissed
  BY DEF PagesBury, NewIsNeverMissed
<1> QED
  BY <1>1, <1>2, <1>3 DEF InboxInv

\* A commit: the new notice is the newest, or overtaken.
LEMMA CommitKeeps ==
  ASSUME InboxInv, NEW w \in Writers, CommitNotice(w)
  PROVE  InboxInv'
<1> USE InboxAssumption DEF InboxInv, InboxTypeOK, Instant
<1>1. /\ writing[w] \in Instant /\ writing[w] # latest
      /\ shelf' = shelf \cup {writing[w]} /\ writing' = [writing EXCEPT ![w] = 0]
      /\ UNCHANGED <<clock, openings, seenUpTo, countSince, counting, looked>>
  BY DEF CommitNotice, browser, StampsDiffer
<1>2. \/ writing[w] < latest /\ overtaken' = overtaken \cup {writing[w]} /\ latest' = latest
      \/ writing[w] > latest /\ latest' = writing[w] /\ overtaken' = overtaken
  BY <1>1 DEF CommitNotice
<1>3. InboxTypeOK'
  BY <1>1, <1>2
<1>4. StampsDiffer'
  BY <1>1, <1>2 DEF StampsDiffer
<1>5. LatestIsNewest'
  BY <1>1, <1>2 DEF LatestIsNewest, StampsDiffer
<1>6. PagesBury'
  <2> SUFFICES ASSUME NEW page \in openings, NEW n \in shelf' \ page, NEW p \in page, n < p,
                      n \notin overtaken'
               PROVE  Cardinality({m \in page : m > n}) >= FirstPage
    BY <1>1 DEF PagesBury
  <2>1. p \in Instant /\ p <= latest
    BY DEF LatestIsNewest
  <2>2. n # writing[w]
    BY <1>1, <1>2, <2>1
  <2> QED
    BY <1>1, <1>2, <2>2 DEF PagesBury
<1>7. NewIsNeverMissed'
  <2> SUFFICES ASSUME NEW n \in shelf' \ looked, n <= seenUpTo \/ (counting /\ n <= countSince),
                      n \notin overtaken'
               PROVE  Buried(n)'
    BY <1>1 DEF NewIsNeverMissed
  <2>1. n # writing[w]
    BY <1>1, <1>2 DEF LatestIsNewest
  <2>2. Buried(n)
    BY <1>1, <1>2, <2>1 DEF NewIsNeverMissed
  <2> QED
    BY <1>1, <2>2 DEF Buried
<1> QED
  BY <1>3, <1>4, <1>5, <1>6, <1>7

\* A page is read: it is full, or leaves nothing out.
LEMMA ReadInboxKeeps ==
  ASSUME InboxInv, ReadInbox
  PROVE  InboxInv'
<1> USE DEF InboxInv, InboxTypeOK
<1>1. PICK page \in SUBSET shelf : IsFirstPage(page) /\ openings' = openings \cup {page}
  BY DEF ReadInbox
<1>2. UNCHANGED <<clock, writing, shelf, seenUpTo, countSince, counting, looked, latest, overtaken>>
  BY DEF ReadInbox, browser, order
<1>3. InboxTypeOK'
  BY <1>1, <1>2
<1>4. StampsDiffer' /\ LatestIsNewest'
  BY <1>1, <1>2 DEF StampsDiffer, LatestIsNewest
<1>5. ASSUME NEW n \in shelf \ page
      PROVE  Cardinality({m \in page : m > n}) >= FirstPage
  <2>1. Cardinality(page) = FirstPage
    BY <1>1 DEF IsFirstPage
  <2>2. {m \in page : m > n} = page
    BY <1>1 DEF IsFirstPage, Instant
  <2>3. Cardinality({m \in page : m > n}) = FirstPage
    BY <2>1, <2>2
  <2> QED
    BY <2>3, InboxAssumption
<1>6. PagesBury'
  BY <1>1, <1>2, <1>5 DEF PagesBury
<1>7. NewIsNeverMissed'
  BY <1>2 DEF NewIsNeverMissed, Buried
<1> QED
  BY <1>3, <1>4, <1>6, <1>7

\* A page is shown: what it marks seen unshown, it buries.
LEMMA ShowInboxKeeps ==
  ASSUME InboxInv, NEW page \in openings, ShowInbox(page)
  PROVE  InboxInv'
<1> USE InboxAssumption DEF InboxInv, InboxTypeOK, Instant
<1>1. /\ openings' = openings \ {page} /\ looked' = looked \cup page
      /\ UNCHANGED <<clock, writing, shelf, countSince, counting, latest, overtaken>>
  BY DEF ShowInbox, order
<1>2. \/ seenUpTo' = seenUpTo
      \/ seenUpTo' \in page /\ \A o \in page : o <= seenUpTo'
  BY DEF ShowInbox, MarkSeen
<1>3. InboxTypeOK'
  BY <1>1, <1>2
<1>4. StampsDiffer' /\ LatestIsNewest'
  BY <1>1, <1>2 DEF StampsDiffer, LatestIsNewest
<1>5. PagesBury'
  BY <1>1 DEF PagesBury
<1>6. NewIsNeverMissed'
  <2> SUFFICES ASSUME NEW n \in shelf \ looked',
                      n <= seenUpTo' \/ (counting /\ n <= countSince), n \notin overtaken
               PROVE  Cardinality(Newer(looked', n)) >= FirstPage
    BY <1>1 DEF NewIsNeverMissed, Buried, Newer
  <2>1. n \in Instant /\ n \notin looked /\ n \notin page
    BY <1>1
  <2>4. looked' \in SUBSET Instant /\ looked \in SUBSET looked' /\ page \in SUBSET looked'
    BY <1>1
  <2>2. CASE n <= seenUpTo \/ (counting /\ n <= countSince)
    <3>1. Cardinality(Newer(looked, n)) >= FirstPage
      BY <2>1, <2>2 DEF NewIsNeverMissed, Buried, Newer
    <3> QED
      BY <2>1, <2>4, <3>1, BuryingGrows, Zenon
  <2>3. CASE seenUpTo' \in page /\ n <= seenUpTo'
    <3>1. n < seenUpTo'
      BY <2>1, <2>3
    <3>2. Cardinality(Newer(page, n)) >= FirstPage
      BY <2>1, <2>3, <3>1 DEF PagesBury, Newer
    <3> QED
      BY <2>1, <2>4, <3>2, BuryingGrows, Zenon
  <2> QED
    BY <1>2, <2>2, <2>3
<1> QED
  BY <1>3, <1>4, <1>5, <1>6

LEMMA InboxKeeps == InboxInv /\ [InboxNext]_inboxVars => InboxInv'
<1> SUFFICES ASSUME InboxInv, [InboxNext]_inboxVars PROVE InboxInv'
  OBVIOUS
<1> USE InboxAssumption
        DEF InboxInv, InboxTypeOK, Instant, browser, order
<1>1. ASSUME NEW w \in Writers, BeginNotice(w) PROVE InboxInv'
  <2> USE <1>1 DEF BeginNotice
  <2>1. InboxTypeOK'
    OBVIOUS
  <2>2. StampsDiffer' /\ LatestIsNewest'
    BY DEF StampsDiffer, LatestIsNewest
  <2>3. PagesBury' /\ NewIsNeverMissed'
    BY DEF PagesBury, NewIsNeverMissed, Buried
  <2> QED
    BY <2>1, <2>2, <2>3
<1>2. ASSUME NEW w \in Writers, CommitNotice(w) PROVE InboxInv'
  BY <1>2, CommitKeeps
<1>3. ASSUME NEW n \in Instant, NoticeGoes(n) PROVE InboxInv'
  <2> USE <1>3 DEF NoticeGoes
  <2>1. InboxTypeOK' /\ StampsDiffer' /\ LatestIsNewest' /\ PagesBury'
    BY DEF StampsDiffer, LatestIsNewest, PagesBury
  <2>2. NewIsNeverMissed'
    BY DEF NewIsNeverMissed, LatestIsNewest, Buried
  <2> QED
    BY <2>1, <2>2
<1>4. CASE ReadInbox
  BY <1>4, ReadInboxKeeps
<1>5. ASSUME NEW page \in openings, ShowInbox(page) PROVE InboxInv'
  BY <1>5, ShowInboxKeeps
<1>6. CASE AskCount
  <2> USE <1>6 DEF AskCount
  <2>1. InboxTypeOK' /\ StampsDiffer' /\ LatestIsNewest' /\ PagesBury'
    BY DEF StampsDiffer, LatestIsNewest, PagesBury
  <2>2. NewIsNeverMissed'
    BY DEF NewIsNeverMissed, LatestIsNewest, Buried
  <2> QED
    BY <2>1, <2>2
<1>7. CASE CountNotices
  <2> USE <1>7 DEF CountNotices
  <2>1. InboxTypeOK' /\ StampsDiffer' /\ PagesBury'
    BY DEF StampsDiffer, PagesBury
  <2>3. LatestIsNewest'
    BY DEF LatestIsNewest
  <2>2. NewIsNeverMissed'
    BY DEF NewIsNeverMissed, LatestIsNewest, Buried
  <2> QED
    BY <2>1, <2>2, <2>3
<1>8. CASE UNCHANGED inboxVars
  BY <1>8 DEF inboxVars, StampsDiffer, LatestIsNewest, PagesBury, NewIsNeverMissed, Buried
<1> QED
  BY <1>1, <1>2, <1>3, <1>4, <1>5, <1>6, <1>7, <1>8 DEF InboxNext

\* Types of the inbox: no instant outruns the clock's bound.
THEOREM InboxTypesHold == InboxSpec => []InboxTypeOK
<1>1. InboxInv => InboxTypeOK
  BY DEF InboxInv
<1> QED
  BY <1>1, InboxStarts, InboxKeeps, PTL DEF InboxSpec

\* A notice nobody was shown falls behind what the browser counts from only when a full
\* page of newer ones was shown instead, or when it was committed after a newer one, for
\* every page size and every number of notifiers and of answers under way
\* (notifications.service.ts, open and markSeen; routes.py, list_notifications).
THEOREM NothingNewIsMissed == InboxSpec => []NewIsNeverMissed
<1>1. InboxInv => NewIsNeverMissed
  BY DEF InboxInv
<1> QED
  BY <1>1, InboxStarts, InboxKeeps, PTL DEF InboxSpec

\* Outside a rollout, with one notifier, no notice is overtaken, so that only the length
\* of the first page is left (values.yaml, replicas of the notification-service).
THEOREM OneNotifierOvertakesNone ==
  ASSUME \A v, w \in Writers : v = w
  PROVE  InboxSpec => [](overtaken = {})
<1> DEFINE InOrder ==
      /\ InboxTypeOK /\ latest <= clock /\ overtaken = {}
      /\ \A w \in Writers : writing[w] # 0 => latest < writing[w]
<1> USE InboxAssumption DEF InboxTypeOK, Instant
<1>1. InboxInit => InOrder
  BY InboxStarts DEF InboxInv, InboxInit
<1>2. InboxInv /\ InboxInv' /\ InOrder /\ [InboxNext]_inboxVars => InOrder'
  <2> SUFFICES ASSUME InboxInv', InOrder, [InboxNext]_inboxVars PROVE InOrder'
    OBVIOUS
  <2>1. InboxTypeOK'
    BY DEF InboxInv
  <2>2. ASSUME NEW w \in Writers, BeginNotice(w) PROVE InOrder'
    BY <2>1, <2>2 DEF BeginNotice, order
  <2>3. ASSUME NEW w \in Writers, CommitNotice(w) PROVE InOrder'
    <3>1. latest < writing[w] /\ writing[w] \in Instant /\ latest \in Nat
      BY <2>3 DEF CommitNotice
    <3>2. latest' = writing[w] /\ overtaken' = overtaken /\ clock' = clock
      BY <2>3, <3>1 DEF CommitNotice
    <3>3. \A v \in Writers : writing'[v] = 0
      BY <2>3 DEF CommitNotice
    <3>4. latest' <= clock'
      BY <3>2 DEF InboxInv, LatestIsNewest
    <3> QED
      BY <2>1, <3>2, <3>3, <3>4
  <2>4. CASE UNCHANGED <<clock, writing, order>>
    BY <2>1, <2>4 DEF order
  <2> QED
    BY <2>2, <2>3, <2>4
       DEF InboxNext, NoticeGoes, ReadInbox, ShowInbox, AskCount, CountNotices, inboxVars, order
<1>3. InOrder => overtaken = {}
  OBVIOUS
<1> QED
  BY <1>1, <1>2, <1>3, InboxStarts, InboxKeeps, PTL DEF InboxSpec

-----------------------------------------------------------------------------
(* Dead letter watch: silence means that nothing was waiting.  What counts *)
(* is that nobody empties the queues and that the total grows queue after  *)
(* queue.                                                                  *)

WatchInv ==
  /\ dead \in [DeadQueue -> Nat] /\ deadTotal \in Nat /\ watchPc \in 0 .. DeadQueues + 1
  /\ oldest \subseteq Waiting
  /\ watchPc # 0 => \A q \in oldest : q < watchPc => deadTotal > 0
  /\ QuietMeansEmpty
  /\ watchPc # 0 => exitCode = 2

LEMMA WatchKeeps == WatchInv /\ [WatchNext]_watchVars => WatchInv'
<1> SUFFICES ASSUME WatchInv, [WatchNext]_watchVars PROVE WatchInv'
  OBVIOUS
<1> USE DeadLetterWatchAssumption DEF WatchInv, QuietMeansEmpty, Waiting
<1>1. ASSUME NEW q \in DeadQueue, Declare(q) PROVE WatchInv'
  BY <1>1 DEF Declare
<1>2. ASSUME NEW q \in DeadQueue, Bury(q) PROVE WatchInv'
  <2>1. dead' = [dead EXCEPT ![q] = dead[q] + 1] /\ dead[q] \in Nat
    BY <1>2 DEF Bury
  <2>2. dead' \in [DeadQueue -> Nat] /\ Waiting \subseteq Waiting'
    BY <2>1
  <2> QED
    BY <1>2, <2>2 DEF Bury
<1>3. CASE StartWatch
  BY <1>3 DEF StartWatch, DeadQueue
<1>4. CASE CountQueue
  <2>1. watchPc \in DeadQueue /\ watchPc' = watchPc + 1 /\ deadTotal' = deadTotal + dead[watchPc]
    BY <1>4 DEF CountQueue
  <2>2. watchPc' \in 0 .. DeadQueues + 1 /\ deadTotal' \in Nat
    BY <2>1 DEF DeadQueue
  <2>3. ASSUME NEW q \in oldest, q < watchPc' PROVE deadTotal' > 0
    <3>1. q \in DeadQueue /\ dead[q] > 0 /\ dead[watchPc] \in Nat
      BY <2>1
    <3>2. CASE q = watchPc
      BY <2>1, <3>1, <3>2
    <3>3. CASE q # watchPc
      BY <2>1, <2>3, <3>1, <3>3 DEF DeadQueue
    <3> QED
      BY <3>2, <3>3
  <2>4. UNCHANGED <<dead, oldest, exitCode>> /\ watchPc # 0
    BY <1>4, <2>1 DEF CountQueue, DeadQueue
  <2> QED
    BY <2>2, <2>3, <2>4
<1>5. CASE WatchFails
  BY <1>5 DEF WatchFails, EndWatch
<1>6. CASE ReportDead
  <2>1. deadTotal = 0 => oldest = {}
    BY <1>6 DEF ReportDead, DeadQueue
  <2> QED
    BY <1>6, <2>1 DEF ReportDead, EndWatch
<1>7. CASE UNCHANGED watchVars
  BY <1>7 DEF watchVars
<1> QED
  BY <1>1, <1>2, <1>3, <1>4, <1>5, <1>6, <1>7 DEF WatchNext

\* Exit code 0 means that nothing was waiting when the watch began, for every number of
\* queues (dlq_watch.py, main).
THEOREM QuietAlwaysMeansEmpty == WatchSpec => []QuietMeansEmpty
<1>1. WatchInit => WatchInv
  BY DeadLetterWatchAssumption DEF WatchInit, WatchInv, QuietMeansEmpty, Waiting
<1>2. WatchInv => QuietMeansEmpty
  BY DEF WatchInv
<1> QED
  BY <1>1, <1>2, WatchKeeps, PTL DEF WatchSpec

\* The total so far is at most what the queues read so far can hold.
WatchBounds ==
  /\ WatchTypeOK
  /\ watchPc # 0 => deadTotal <= (watchPc - 1) * MaxDead

LEMMA WatchBoundsKeep == WatchBounds /\ [WatchNext]_watchVars => WatchBounds'
<1> SUFFICES ASSUME WatchBounds, [WatchNext]_watchVars PROVE WatchBounds'
  OBVIOUS
<1> DEFINE cap == DeadQueues * MaxDead
           read == (watchPc - 1) * MaxDead
<1>1. cap \in Nat /\ DeadQueues \in Nat \ {0} /\ MaxDead \in Nat
  BY DeadLetterWatchAssumption
<1>2. /\ declared \subseteq DeadQueue /\ dead \in [DeadQueue -> 0 .. MaxDead]
      /\ watchPc \in 0 .. DeadQueues + 1 /\ deadTotal \in 0 .. cap
      /\ exitCode \in 0 .. 2 /\ oldest \subseteq DeadQueue
      /\ watchPc # 0 => deadTotal <= read
  BY DEF WatchBounds, WatchTypeOK
<1>3. SUFFICES /\ declared' \subseteq DeadQueue /\ dead' \in [DeadQueue -> 0 .. MaxDead]
               /\ watchPc' \in 0 .. DeadQueues + 1 /\ deadTotal' \in 0 .. cap
               /\ exitCode' \in 0 .. 2 /\ oldest' \subseteq DeadQueue
               /\ watchPc' # 0 => deadTotal' <= (watchPc' - 1) * MaxDead
  BY DEF WatchBounds, WatchTypeOK, DeadQueue
<1>4. CASE \/ \E q \in DeadQueue : Declare(q) \/ Bury(q)
           \/ WatchFails \/ ReportDead \/ UNCHANGED watchVars
  <2>1. /\ declared' \subseteq DeadQueue /\ UNCHANGED <<deadTotal, oldest>>
        /\ watchPc' = watchPc \/ watchPc' = 0
        /\ exitCode' = exitCode \/ exitCode' = 1 \/ exitCode' = 0
    BY <1>2, <1>4 DEF Declare, Bury, WatchFails, ReportDead, EndWatch, watchVars
  <2>2. dead' \in [DeadQueue -> 0 .. MaxDead]
    BY <1>1, <1>2, <1>4 DEF Declare, Bury, WatchFails, ReportDead, watchVars
  <2>3. watchPc' # 0 => deadTotal' <= (watchPc' - 1) * MaxDead
    BY <1>2, <2>1
  <2> HIDE DEF cap
  <2> QED
    BY <1>1, <1>2, <2>1, <2>2, <2>3
<1>5. CASE StartWatch
  BY <1>1, <1>2, <1>5 DEF StartWatch, Waiting
<1>6. CASE CountQueue
  <2>1. /\ watchPc \in 1 .. DeadQueues /\ watchPc' = watchPc + 1
        /\ deadTotal' = deadTotal + dead[watchPc]
        /\ UNCHANGED <<declared, dead, exitCode, oldest>>
    BY <1>6 DEF CountQueue, DeadQueue
  <2>2. dead[watchPc] \in 0 .. MaxDead /\ deadTotal \in Nat /\ deadTotal <= read /\ read \in Nat
    BY <1>1, <1>2, <2>1 DEF DeadQueue
  <2>3. read + MaxDead = watchPc * MaxDead
    BY <1>1, <2>1
  <2>4. watchPc * MaxDead <= cap
    <3>1. \A m, n, d \in Nat : m <= n => m * d <= n * d
      OBVIOUS
    <3> QED
      BY <1>1, <2>1, <3>1
  <2>5. (watchPc' - 1) * MaxDead = watchPc * MaxDead
    BY <2>1
  <2> HIDE DEF cap, read
  <2>6. deadTotal' \in 0 .. cap /\ deadTotal' <= (watchPc' - 1) * MaxDead
    BY <1>1, <2>1, <2>2, <2>3, <2>4, <2>5
  <2> QED
    BY <1>1, <1>2, <2>1, <2>6
<1> QED
  BY <1>4, <1>5, <1>6 DEF WatchNext

\* Types of the watch: the total never outgrows what the queues can hold.
THEOREM WatchTypesHold == WatchSpec => []WatchTypeOK
<1>1. WatchInit => WatchBounds
  <2>1. DeadQueues * MaxDead \in Nat
    BY DeadLetterWatchAssumption
  <2> QED
    BY <2>1, DeadLetterWatchAssumption DEF WatchInit, WatchBounds, WatchTypeOK, DeadQueue
<1>2. WatchBounds => WatchTypeOK
  BY DEF WatchBounds
<1> QED
  BY <1>1, <1>2, WatchBoundsKeep, PTL DEF WatchSpec

-----------------------------------------------------------------------------
(* Readiness: types. *)

\* Types of an installation: the bucket job is never started beyond its limit.
THEOREM ReadinessTypesHold == ReadinessSpec => []ReadinessTypeOK
<1>1. ReadinessInit => ReadinessTypeOK
  <2> SUFFICES ASSUME ReadinessInit PROVE ReadinessTypeOK
    OBVIOUS
  <2>1. present \subseteq Service /\ bucketPc \in BucketPc /\ buckets \subseteq Bucket
    BY DEF ReadinessInit, BucketPc
  <2>2. absences \in 0 .. MaxAbsences /\ bucketStarts \in 0 .. BucketBackoffLimit
    BY ReadinessAssumption DEF ReadinessInit
  <2>3. looksOpen \in BOOLEAN /\ apiReady \in BOOLEAN
    BY DEF ReadinessInit
  <2> QED
    BY <2>1, <2>2, <2>3 DEF ReadinessTypeOK
<1>2. ReadinessTypeOK /\ [ReadinessNext]_readinessVars => ReadinessTypeOK'
  <2> SUFFICES ASSUME ReadinessTypeOK, [ReadinessNext]_readinessVars PROVE ReadinessTypeOK'
    OBVIOUS
  <2> USE DEF ReadinessTypeOK, apiVars
  <2>1. ASSUME bucketPc' \in BucketPc, buckets' \subseteq Bucket, UNCHANGED <<present, apiVars>>,
               absences' = absences \/ (absences < MaxAbsences /\ absences' = absences + 1),
               \/ bucketStarts' = bucketStarts
               \/ bucketStarts < BucketBackoffLimit /\ bucketStarts' = bucketStarts + 1
        PROVE  ReadinessTypeOK'
    <3>1. absences' \in 0 .. MaxAbsences /\ bucketStarts' \in 0 .. BucketBackoffLimit
      BY <2>1, ReadinessAssumption
    <3> QED
      BY <2>1, <3>1
  <2>2. CASE BucketStep \/ BucketPodDies
    <3>1. bucketPc' \in BucketPc /\ buckets' \subseteq Bucket
      BY <2>2 DEF BucketStep, WaitForStorage, CreateBucket, BucketsStartAgain, BucketPodDies,
                  BucketPc, Bucket
    <3>2. /\ UNCHANGED <<present, apiVars>>
          /\ absences' = absences \/ (absences < MaxAbsences /\ absences' = absences + 1)
          /\ \/ bucketStarts' = bucketStarts
             \/ bucketStarts < BucketBackoffLimit /\ bucketStarts' = bucketStarts + 1
      BY <2>2, Zenon DEF BucketStep, WaitForStorage, CreateBucket, BucketsStartAgain, BucketPodDies
    <3> QED
      BY <2>1, <3>1, <3>2
  <2>3. CASE ProbeApi
    BY <2>3, Zenon DEF ProbeApi, BrokerLooksFine
  <2>4. CASE RequestPublishes
    <3>1. looksOpen' \in BOOLEAN
      <4>1. CASE "rabbitmq" \in present
        BY <2>4, <4>1 DEF RequestPublishes
      <4>2. CASE "rabbitmq" \notin present
        BY <2>4, <4>2 DEF RequestPublishes
      <4> QED
        BY <4>1, <4>2
    <3> QED
      BY <2>4, <3>1, Zenon DEF RequestPublishes
  <2>5. ASSUME NEW s \in Service, GoesAway(s) PROVE ReadinessTypeOK'
    <3>1. /\ absences < MaxAbsences /\ absences' = absences + 1 /\ present' \subseteq Service
          /\ UNCHANGED <<bucketPc, bucketStarts, buckets, apiReady>>
      BY <2>5 DEF GoesAway
    <3>2. looksOpen' \in BOOLEAN
      <4>1. looksOpen' \in {looksOpen, FALSE} \/ looksOpen' \in {looksOpen}
        BY <2>5 DEF GoesAway
      <4> QED
        BY <4>1, Zenon
    <3>3. absences' \in 0 .. MaxAbsences
      BY <3>1, ReadinessAssumption
    <3> QED
      BY <3>1, <3>2, <3>3, Zenon
  <2>6. ASSUME NEW s \in Service, ComesUp(s) PROVE ReadinessTypeOK'
    <3>1. present' \subseteq Service
      BY <2>6 DEF ComesUp
    <3> QED
      BY <2>6, <3>1, Zenon DEF ComesUp
  <2>7. CASE UNCHANGED readinessVars
    BY <2>7, Zenon DEF readinessVars
  <2> QED
    BY <2>2, <2>3, <2>4, <2>5, <2>6, <2>7 DEF ReadinessNext
<1> QED
  BY <1>1, <1>2, PTL DEF ReadinessSpec

-----------------------------------------------------------------------------
(* Image data: the arithmetic of one side. *)

\* A side within the long one, times a target below it: it rounds to something within
\* the target and within the side, and the long side to the target itself.
LEMMA SideRounds ==
  ASSUME NEW side \in Nat \ {0}, NEW long \in Nat \ {0}, NEW t \in Nat \ {0},
         side <= long, t < long,
         NEW n \in Rounded(side, t, long)
  PROVE  /\ AtLeastOne(n) \in 1 .. t /\ AtLeastOne(n) <= side
         /\ side = long => AtLeastOne(n) = t
<1>1. /\ n \in 0 .. t /\ 2 * n * long <= 2 * side * t + long
      /\ 2 * side * t <= 2 * n * long + long
  BY DEF Rounded
<1>2. n <= side
  <2>1. side * t <= side * long - side
    <3>1. \A a, b, c \in Nat : a <= b => c * a <= c * b
      OBVIOUS
    <3>2. side * t <= side * (long - 1)
      BY <3>1
    <3> QED
      BY <3>2
  <2>2. n * long < side * long + long
    BY <1>1, <2>1
  <2>3. n * long < (side + 1) * long
    BY <2>2
  <2> QED
    <3> SUFFICES ASSUME n >= side + 1 PROVE FALSE
      BY <1>1
    <3>1. (side + 1) * long <= n * long
      <4>1. \A a, b, c \in Nat : a <= b => a * c <= b * c
        OBVIOUS
      <4> QED
        BY <1>1, <4>1
    <3> QED
      BY <1>1, <2>3, <3>1
<1>3. side = long => n = t
  <2> SUFFICES ASSUME side = long, n + 1 <= t PROVE FALSE
    BY <1>1
  <2>1. (n + 1) * long <= t * long
    <3>1. \A a, b, c \in Nat : a <= b => a * c <= b * c
      OBVIOUS
    <3> QED
      BY <1>1, <3>1
  <2>2. n * long + long <= side * t
    BY <1>1, <2>1
  <2>3. 2 * (n * long) + 2 * long <= 2 * (n * long) + long
    BY <1>1, <2>2
  <2> QED
    BY <1>1, <2>3
<1> QED
  BY <1>1, <1>2, <1>3 DEF AtLeastOne

\* Of two targets the larger one makes no shorter side.
LEMMA SideGrows ==
  ASSUME NEW side \in Nat \ {0}, NEW long \in Nat \ {0}, NEW t \in Nat \ {0}, NEW u \in Nat,
         t < u, NEW n \in Rounded(side, t, long), NEW m \in Rounded(side, u, long)
  PROVE  AtLeastOne(n) <= AtLeastOne(m)
<1>1. /\ n \in Nat /\ m \in Nat
      /\ 2 * n * long <= 2 * side * t + long
      /\ 2 * side * u <= 2 * m * long + long
  BY DEF Rounded
<1>2. side * t + side <= side * u
  <2>1. \A a, b, c \in Nat : a <= b => c * a <= c * b
    OBVIOUS
  <2>2. side * (t + 1) <= side * u
    BY <2>1
  <2> QED
    BY <2>2
<1>3. n * long < (m + 1) * long
  <2>1. 2 * (n * long) <= 2 * (m * long) + 2 * long - 2 * side
    BY <1>1, <1>2
  <2> QED
    BY <1>1, <2>1
<1>4. n <= m
  <2> SUFFICES ASSUME n >= m + 1 PROVE FALSE
    BY <1>1
  <2>1. (m + 1) * long <= n * long
    <3>1. \A a, b, c \in Nat : a <= b => a * c <= b * c
      OBVIOUS
    <3> QED
      BY <1>1, <3>1
  <2> QED
    BY <1>1, <1>3, <2>1
<1> QED
  BY <1>1, <1>4 DEF AtLeastOne

-----------------------------------------------------------------------------
(* Image data: the picture. *)

Sizes == (Nat \ {0}) \X (Nat \ {0})

\* One variant: within the original and the target, of the same orientation.
LEMMA VariantFits ==
  ASSUME NEW p \in Sizes, NEW t \in Targets, NEW size \in Resized(p, t)
  PROVE  /\ size \in Sizes
         /\ size[1] \in 1 .. p[1] /\ size[2] \in 1 .. p[2]
         /\ Longer(size) = IF Longer(p) <= t THEN Longer(p) ELSE t
         /\ p[1] >= p[2] => size[1] >= size[2]
         /\ p[1] <= p[2] => size[1] <= size[2]
<1>1. /\ p[1] \in Nat \ {0} /\ p[2] \in Nat \ {0} /\ t \in Nat \ {0}
      /\ Longer(p) \in Nat \ {0} /\ p[1] <= Longer(p) /\ p[2] <= Longer(p)
      /\ Longer(p) = p[1] \/ Longer(p) = p[2]
  BY ImageDataAssumption DEF Sizes, Longer
<1>2. CASE Longer(p) <= t
  BY <1>1, <1>2 DEF Resized
<1>3. CASE ~(Longer(p) <= t)
  <2>1. PICK w \in Rounded(p[1], t, Longer(p)), h \in Rounded(p[2], t, Longer(p)) :
          size = <<AtLeastOne(w), AtLeastOne(h)>>
    BY <1>3 DEF Resized
  <2>2. /\ AtLeastOne(w) \in 1 .. t /\ AtLeastOne(w) <= p[1]
        /\ p[1] = Longer(p) => AtLeastOne(w) = t
    BY <1>1, <1>3, SideRounds
  <2>3. /\ AtLeastOne(h) \in 1 .. t /\ AtLeastOne(h) <= p[2]
        /\ p[2] = Longer(p) => AtLeastOne(h) = t
    BY <1>1, <1>3, SideRounds
  <2>4. size[1] = AtLeastOne(w) /\ size[2] = AtLeastOne(h) /\ size \in Sizes
    BY <2>1, <2>2, <2>3 DEF Sizes
  <2> QED
    BY <1>1, <1>3, <2>2, <2>3, <2>4 DEF Longer
<1> QED
  BY <1>2, <1>3

\* Two variants: the larger target has no shorter side.
LEMMA VariantsNest ==
  ASSUME NEW p \in Sizes, NEW t \in Targets, NEW u \in Targets, t < u,
         NEW small \in Resized(p, t), NEW large \in Resized(p, u)
  PROVE  small[1] <= large[1] /\ small[2] <= large[2]
<1>1. /\ p[1] \in Nat \ {0} /\ p[2] \in Nat \ {0} /\ t \in Nat \ {0} /\ u \in Nat \ {0}
      /\ Longer(p) \in Nat \ {0}
  BY ImageDataAssumption DEF Sizes, Longer
<1>2. CASE Longer(p) <= u
  <2>1. large = p
    BY <1>2 DEF Resized
  <2>2. small[1] \in 1 .. p[1] /\ small[2] \in 1 .. p[2]
    BY VariantFits
  <2> QED
    BY <1>1, <2>1, <2>2
<1>3. CASE ~(Longer(p) <= u)
  <2>1. PICK w \in Rounded(p[1], t, Longer(p)), h \in Rounded(p[2], t, Longer(p)) :
          small = <<AtLeastOne(w), AtLeastOne(h)>>
    BY <1>1, <1>3 DEF Resized
  <2>2. PICK v \in Rounded(p[1], u, Longer(p)), g \in Rounded(p[2], u, Longer(p)) :
          large = <<AtLeastOne(v), AtLeastOne(g)>>
    BY <1>3 DEF Resized
  <2>3. AtLeastOne(w) <= AtLeastOne(v)
    BY <1>1, SideGrows
  <2>4. AtLeastOne(h) <= AtLeastOne(g)
    BY <1>1, SideGrows
  <2> QED
    BY <2>1, <2>2, <2>3, <2>4
<1> QED
  BY <1>2, <1>3

\* Every variant made is one of the picture as open_image left it.
VariantsInv ==
  /\ upright \in Sizes /\ DOMAIN sizes \subseteq Targets
  /\ stage = "open" => DOMAIN sizes = {}
  /\ \A t \in DOMAIN sizes : sizes[t] \in Resized(upright, t)

LEMMA VariantsInvMeans == VariantsInv => VariantsKeepThePicture
<1> SUFFICES ASSUME VariantsInv, NEW t \in DOMAIN sizes
             PROVE  /\ sizes[t][1] \in 1 .. upright[1] /\ sizes[t][2] \in 1 .. upright[2]
                    /\ Longer(sizes[t]) = IF Longer(upright) <= t THEN Longer(upright) ELSE t
                    /\ upright[1] >= upright[2] => sizes[t][1] >= sizes[t][2]
                    /\ upright[1] <= upright[2] => sizes[t][1] <= sizes[t][2]
                    /\ \A u \in DOMAIN sizes : t <= u =>
                         sizes[t][1] <= sizes[u][1] /\ sizes[t][2] <= sizes[u][2]
  BY DEF VariantsKeepThePicture
<1>1. upright \in Sizes /\ t \in Targets /\ sizes[t] \in Resized(upright, t)
  BY DEF VariantsInv
<1>2. ASSUME NEW u \in DOMAIN sizes, t <= u
      PROVE  sizes[t][1] <= sizes[u][1] /\ sizes[t][2] <= sizes[u][2]
  <2>1. u \in Targets /\ sizes[u] \in Resized(upright, u) /\ t \in Nat /\ u \in Nat
    BY <1>1, ImageDataAssumption DEF VariantsInv
  <2>2. CASE t = u
    BY <1>1, <2>2, VariantFits DEF Sizes
  <2>3. CASE t < u
    BY <1>1, <2>1, <2>3, VariantsNest
  <2> QED
    BY <1>2, <2>1, <2>2, <2>3
<1> QED
  BY <1>1, <1>2, VariantFits

LEMMA VariantsInvKeeps ==
  picture \in Sizes /\ VariantsInv /\ [ImageDataNext]_imageVars => VariantsInv'
<1> SUFFICES ASSUME VariantsInv, [ImageDataNext]_imageVars, picture \in Sizes PROVE VariantsInv'
  OBVIOUS
<1>1. CASE OpenImage
  BY <1>1 DEF OpenImage, VariantsInv, Sizes
<1>2. CASE ExtractExif
  BY <1>2 DEF ExtractExif, VariantsInv
<1>3. CASE MakeVariant
  <2>1. PICK t \in Targets \ DOMAIN sizes : \E size \in Resized(upright, t) :
          sizes' = [u \in DOMAIN sizes \cup {t} |-> IF u = t THEN size ELSE sizes[u]]
    BY <1>3 DEF MakeVariant
  <2>2. stage' # "open" /\ upright' = upright
    BY <1>3 DEF MakeVariant
  <2>3. DOMAIN sizes' = DOMAIN sizes \cup {t}
    BY <2>1
  <2>4. \A u \in DOMAIN sizes' : sizes'[u] \in Resized(upright, u)
    BY <2>1, <2>3 DEF VariantsInv
  <2>5. /\ upright' \in Sizes /\ DOMAIN sizes' \subseteq Targets
        /\ \A u \in DOMAIN sizes' : sizes'[u] \in (Resized(upright, u))'
    BY <2>2, <2>3, <2>4 DEF VariantsInv
  <2> QED
    BY <2>2, <2>5 DEF VariantsInv
<1>4. CASE UNCHANGED imageVars
  BY <1>4 DEF imageVars, VariantsInv
<1> QED
  BY <1>1, <1>2, <1>3, <1>4 DEF ImageDataNext

-----------------------------------------------------------------------------
(* Image data: the tags. *)

\* Once they are extracted, no tag raised and each is what it reads as.
ExifInv ==
  /\ ImageDataTypeOK
  /\ stage \in {"resize", "done"} => metadata = Readable /\ \A f \in Fields : ~Raises(tags[f])

LEMMA ExtractedTypes ==
  ASSUME NEW v \in Values
  PROVE  /\ ToNumber(v) \in [form : {"absent", "number", "numeral", "text"}, num : Nat, den : Nat]
         /\ Clean(v) \in [form : {"absent", "number", "numeral", "text"}, num : Nat, den : Nat]
<1>1. v \in [form : TagForm, num : Nat, den : Nat]
  BY ImageDataAssumption
<1> QED
  BY <1>1 DEF ToNumber, Clean, AsNumber, Absent, TagForm

LEMMA ExifInvMeans == ExifInv => TagsAreKept
<1> SUFFICES ASSUME ExifInv, stage \in {"resize", "done"}
             PROVE  /\ metadata["model"] = Absent <=> tags["model"].form \in {"absent", "other"}
                    /\ metadata["aperture"] = Absent <=>
                         tags["aperture"].form \in {"absent", "other", "text"} \/ tags["aperture"].den = 0
                    /\ metadata["aperture"] # Absent =>
                         metadata["aperture"].num * tags["aperture"].den
                           = tags["aperture"].num * metadata["aperture"].den
  BY DEF TagsAreKept
<1> DEFINE m == tags["model"]
           v == tags["aperture"]
<1>1. /\ m \in [form : TagForm, num : Nat, den : Nat] /\ v \in [form : TagForm, num : Nat, den : Nat]
      /\ v.den = 0 => v.form \in {"pair", "rational"}
  BY ImageDataAssumption DEF ExifInv, ImageDataTypeOK, Fields
<1>2. metadata["model"] = Clean(m) /\ metadata["aperture"] = ToNumber(v) /\ ~Raises(v)
  BY DEF ExifInv, Readable, Fields
<1> HIDE DEF m, v
<1>3. Clean(m) = Absent <=> m.form \in {"absent", "other"}
  BY <1>1 DEF Clean, AsNumber, Absent, TagForm
<1>4. ToNumber(v) = Absent <=> v.form \in {"absent", "other", "text"} \/ v.den = 0
  <2>1. v.form # "rational" \/ v.den # 0
    BY <1>2 DEF Raises
  <2>2. CASE v.form = "pair"
    <3>1. CASE v.den = 0
      BY <2>2, <3>1 DEF ToNumber
    <3>2. CASE v.den # 0
      <4>1. ToNumber(v) = AsNumber(v)
        BY <2>2, <3>2 DEF ToNumber
      <4>2. AsNumber(v).form = "number" /\ Absent.form = "absent"
        BY <1>1 DEF AsNumber, Absent
      <4> QED
        BY <2>2, <3>2, <4>1, <4>2
    <3> QED
      BY <3>1, <3>2
  <2>3. CASE v.form \in {"rational", "number", "numeral"}
    <3>1. ToNumber(v).form = "number" /\ Absent.form = "absent"
      BY <1>1, <2>3 DEF ToNumber, AsNumber, Absent
    <3>2. v.den # 0
      BY <1>1, <2>1, <2>3
    <3> QED
      BY <2>3, <3>1, <3>2
  <2>4. CASE v.form \in {"absent", "other", "text"}
    BY <2>4 DEF ToNumber
  <2> QED
    BY <1>1, <2>2, <2>3, <2>4 DEF TagForm
<1>5. ToNumber(v) # Absent => ToNumber(v).num = v.num /\ ToNumber(v).den = v.den
  BY <1>1 DEF ToNumber, AsNumber, Absent, TagForm
<1> QED
  BY <1>2, <1>3, <1>4, <1>5 DEF m, v

LEMMA ExifInvKeeps == ExifInv /\ [ImageDataNext]_imageVars => ExifInv'
<1> SUFFICES ASSUME ExifInv, [ImageDataNext]_imageVars PROVE ExifInv'
  OBVIOUS
<1>1. CASE OpenImage
  BY <1>1 DEF OpenImage, ExifInv, ImageDataTypeOK, Stage, Fields
<1>2. CASE ExtractExif
  <2>1. Readable \in [Fields -> [form : {"absent", "number", "numeral", "text"}, num : Nat, den : Nat]]
    BY ExtractedTypes DEF Readable, ExifInv, ImageDataTypeOK
  <2>2. Readable' = Readable /\ UNCHANGED <<picture, sideways, tags, upright, sizes>>
    BY <1>2 DEF ExtractExif, Readable
  <2>3. CASE \E f \in Fields : Raises(tags[f])
    BY <1>2, <2>2, <2>3 DEF ExtractExif, ExifInv, ImageDataTypeOK, Stage
  <2>4. CASE ~\E f \in Fields : Raises(tags[f])
    <3>1. metadata' = Readable /\ stage' = "resize"
      BY <1>2, <2>4 DEF ExtractExif
    <3>2. \A f \in Fields : (~Raises(tags[f]))'
      BY <2>2, <2>4 DEF Raises
    <3>3. ImageDataTypeOK'
      BY <2>1, <2>2, <3>1 DEF ExifInv, ImageDataTypeOK, Stage
    <3> QED
      BY <2>2, <3>1, <3>2, <3>3 DEF ExifInv
  <2> QED
    BY <2>3, <2>4
<1>3. CASE MakeVariant
  <2>1. /\ stage = "resize" /\ stage' \in {"resize", "done"}
        /\ UNCHANGED <<picture, sideways, tags, upright, metadata>>
    BY <1>3 DEF MakeVariant
  <2>2. DOMAIN sizes' \subseteq Targets
    BY <1>3 DEF MakeVariant, ExifInv, ImageDataTypeOK
  <2>3. Readable' = Readable
    BY <2>1 DEF Readable
  <2> QED
    BY <2>1, <2>2, <2>3 DEF ExifInv, ImageDataTypeOK, Stage, Raises
<1>4. CASE UNCHANGED imageVars
  BY <1>4 DEF imageVars, ExifInv, ImageDataTypeOK, Readable, Raises
<1> QED
  BY <1>1, <1>2, <1>3, <1>4 DEF ImageDataNext

LEMMA ImageDataStarts == ImageDataInit => VariantsInv /\ ExifInv /\ picture \in Sizes
<1> SUFFICES ASSUME ImageDataInit PROVE VariantsInv /\ ExifInv /\ picture \in Sizes
  OBVIOUS
<1>1. DOMAIN sizes = {}
  BY DEF ImageDataInit
<1>2. NoExif \in [Fields -> [form : {"absent", "number", "numeral", "text"}, num : Nat, den : Nat]]
  BY DEF NoExif, Absent
<1> QED
  BY <1>1, <1>2, ImageDataAssumption
  DEF ImageDataInit, VariantsInv, ExifInv, ImageDataTypeOK, Sizes, Stage

LEMMA ImageDataAlways == ImageDataSpec => [](VariantsInv /\ ExifInv)
<1>1. ExifInv => picture \in Sizes
  BY ImageDataAssumption DEF ExifInv, ImageDataTypeOK, Sizes
<1> QED
  BY <1>1, ImageDataStarts, VariantsInvKeeps, ExifInvKeeps, PTL DEF ImageDataSpec

\* Types of the data of an image.
THEOREM ImageDataTypesHold == ImageDataSpec => []ImageDataTypeOK
<1>1. ExifInv => ImageDataTypeOK
  BY DEF ExifInv
<1> QED
  BY <1>1, ImageDataAlways, PTL

\* Variants are never flat, never larger than the original or their target, never of
\* the other orientation, and grow with their target, for every size and every way the
\* halves round (images.py, _resize_long_side).
THEOREM PictureAlwaysKept == ImageDataSpec => []VariantsKeepThePicture
BY VariantsInvMeans, ImageDataAlways, PTL

\* A tag without meaning costs only itself, and a number gathered, from a number, a
\* fraction or text that spells one, is the number in the file, for every value of the
\* tags; its wording afterwards is not claimed (exif.py, _collect and _to_number).
THEOREM TagsAlwaysKept == ImageDataSpec => []TagsAreKept
BY ExifInvMeans, ImageDataAlways, PTL

=============================================================================
