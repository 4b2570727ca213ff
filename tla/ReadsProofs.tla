----------------------------- MODULE ReadsProofs -----------------------------
(***************************************************************************)
(* The reads of the library and of one image, for any number of images,    *)
(* pages of the search and writers between two statements.                 *)
(***************************************************************************)
EXTENDS LibraryReads, FiniteSetTheorems, SequenceTheorems, TLAPS

-----------------------------------------------------------------------------
(* Sets in order. *)

Descends(s) == \A i, j \in DOMAIN s : i < j => s[i] > s[j]

\* Every finite set has an order: the place of an element is the number of those not
\* below it.
LEMMA OrderExists ==
  ASSUME NEW S, S \subseteq Nat, IsFiniteSet(S)
  PROVE  \E s \in [1 .. Cardinality(S) -> S] : Descends(s)
<1> DEFINE n == Cardinality(S)
           Above(a) == {b \in S : b >= a}
           rank == [a \in S |-> Cardinality(Above(a))]
<1>1. n \in Nat
  BY FS_CardinalityType
<1>2. ASSUME NEW a \in S PROVE IsFiniteSet(Above(a)) /\ Cardinality(Above(a)) \in 1 .. n
  <2>1. Above(a) \in SUBSET S /\ a \in Above(a)
    OBVIOUS
  <2>2. IsFiniteSet(Above(a)) /\ Cardinality(Above(a)) <= n
    BY <2>1, FS_Subset
  <2>3. Cardinality(Above(a)) \in Nat /\ Cardinality(Above(a)) # 0
    BY <2>1, <2>2, FS_CardinalityType, FS_EmptySet
  <2> QED
    BY <1>1, <2>2, <2>3
<1>3. ASSUME NEW a \in S, NEW b \in S, a < b PROVE rank[a] > rank[b]
  <2>a. a \in Nat /\ b \in Nat /\ \A c \in S : c \in Nat
    OBVIOUS
  <2>b. \A c \in S : c >= b => c >= a
    BY <1>3, <2>a
  <2>1. Above(b) \in SUBSET Above(a)
    BY <2>b
  <2>c. a \in Above(a) /\ a \notin Above(b)
    BY <1>3, <2>a
  <2>2. Cardinality(Above(b)) <= Cardinality(Above(a)) /\ Cardinality(Above(b)) # Cardinality(Above(a))
    BY <1>2, <2>1, <2>c, FS_Subset
  <2> QED
    BY <1>2, <2>2
<1>4. rank \in Injection(S, 1 .. n)
  <2>1. rank \in [S -> 1 .. n]
    BY <1>2
  <2>2. \A a, b \in S : rank[a] = rank[b] => a = b
    <3> SUFFICES ASSUME NEW a \in S, NEW b \in S, a # b PROVE rank[a] # rank[b]
      OBVIOUS
    <3>1. a < b \/ b < a
      OBVIOUS
    <3>2. rank[a] \in Nat /\ rank[b] \in Nat
      BY <2>1
    <3> QED
      BY <1>3, <3>1, <3>2
  <2> QED
    BY <2>1, <2>2 DEF Injection, IsInjective
<1>5. rank \in Surjection(S, 1 .. n)
  <2>1. IsFiniteSet(1 .. n) /\ Cardinality(1 .. n) = n
    BY <1>1, FS_Interval
  <2> HIDE DEF rank
  <2> QED
    BY <1>4, <2>1, FS_Injection
<1>6. \A i \in 1 .. n : \E a \in S : rank[a] = i
  BY <1>5 DEF Surjection
<1> DEFINE s == [i \in 1 .. n |-> CHOOSE a \in S : rank[a] = i]
<1>7. s \in [1 .. n -> S] /\ \A i \in 1 .. n : rank[s[i]] = i
  <2> HIDE DEF rank
  <2> QED
    BY <1>6
<1>8. Descends(s)
  <2> SUFFICES ASSUME NEW i \in 1 .. n, NEW j \in 1 .. n, i < j PROVE s[i] > s[j]
    BY DEF Descends
  <2>1. s[i] \in S /\ s[j] \in S /\ rank[s[i]] = i /\ rank[s[j]] = j
    BY <1>7
  <2> HIDE DEF s, rank
  <2>2. ~(s[i] < s[j]) /\ s[i] # s[j]
    <3>1. i \in Int /\ j \in Int /\ ~(i > j)
      BY <1>1
    <3>2. s[i] < s[j] => i > j
      BY <1>3, <2>1
    <3> QED
      BY <2>1, <3>1, <3>2
  <2>3. s[i] \in Nat /\ s[j] \in Nat
    BY <2>1
  <2> QED
    BY <2>2, <2>3
<1> QED
  BY <1>7, <1>8

\* What Newest returns: all of the set, each once.
LEMMA NewestMeans ==
  ASSUME NEW S, S \subseteq Nat, IsFiniteSet(S)
  PROVE  /\ Cardinality(S) \in Nat
         /\ Newest(S) \in [1 .. Cardinality(S) -> S]
         /\ Newest(S) \in Seq(S) /\ Len(Newest(S)) = Cardinality(S)
         /\ \A i, j \in 1 .. Cardinality(S) : Newest(S)[i] = Newest(S)[j] => i = j
         /\ \A a \in S : \E i \in 1 .. Cardinality(S) : Newest(S)[i] = a
<1> DEFINE n == Cardinality(S)
           s == Newest(S)
<1>1. n \in Nat
  BY FS_CardinalityType
<1>2. s \in [1 .. n -> S] /\ Descends(s)
  BY OrderExists DEF Newest, Descends
<1> HIDE DEF s
<1>3. s \in Seq(S) /\ Len(s) = n
  BY <1>1, <1>2
<1>4. \A i, j \in 1 .. n : s[i] = s[j] => i = j
  <2> SUFFICES ASSUME NEW i \in 1 .. n, NEW j \in 1 .. n, i # j PROVE s[i] # s[j]
    OBVIOUS
  <2>1. i < j \/ j < i
    BY <1>1
  <2>2. s[i] > s[j] \/ s[j] > s[i]
    BY <1>2, <2>1 DEF Descends
  <2>3. s[i] \in Nat /\ s[j] \in Nat
    BY <1>2
  <2> QED
    BY <2>2, <2>3
<1>5. s \in Injection(1 .. n, S)
  BY <1>2, <1>4 DEF Injection, IsInjective
<1>6. s \in Surjection(1 .. n, S)
  <2>1. Cardinality(1 .. n) = n
    BY <1>1, FS_Interval
  <2> QED
    BY <1>5, <2>1, FS_Injection
<1>7. \A a \in S : \E i \in 1 .. n : s[i] = a
  BY <1>6 DEF Surjection
<1> QED
  BY <1>1, <1>2, <1>3, <1>4, <1>7 DEF s

\* The same the other way round.
LEMMA InKeyOrderMeans ==
  ASSUME NEW S, S \subseteq Nat, IsFiniteSet(S)
  PROVE  /\ InKeyOrder(S) \in Seq(S) /\ Len(InKeyOrder(S)) = Cardinality(S)
         /\ \A a \in S : \E i \in 1 .. Len(InKeyOrder(S)) : InKeyOrder(S)[i] = a
<1> DEFINE n == Cardinality(S)
           s == InKeyOrder(S)
           back(i) == n + 1 - i
<1>1. /\ n \in Nat /\ Newest(S) \in [1 .. n -> S]
      /\ \A a \in S : \E i \in 1 .. n : Newest(S)[i] = a
  BY NewestMeans
<1>2. \A i \in 1 .. n : back(i) \in 1 .. n /\ back(back(i)) = i
  BY <1>1
<1>3. s \in [1 .. n -> S] /\ \A i \in 1 .. n : s[i] = Newest(S)[back(i)]
  BY <1>1, <1>2 DEF InKeyOrder
<1> HIDE DEF s
<1>4. s \in Seq(S) /\ Len(s) = n
  BY <1>1, <1>3
<1>5. ASSUME NEW a \in S PROVE \E i \in 1 .. n : s[i] = a
  <2> PICK i \in 1 .. n : Newest(S)[i] = a
    BY <1>1
  <2>1. back(i) \in 1 .. n /\ s[back(i)] = a
    BY <1>2, <1>3
  <2> QED
    BY <2>1
<1> QED
  BY <1>4, <1>5 DEF s

-----------------------------------------------------------------------------
(* Parts of sequences. *)

\* A page holds what lies past the pages before it.
LEMMA OnPageMeans ==
  ASSUME ReadsTypeOK, NEW ids \in Seq(AssetId)
  PROVE  /\ Page \in Nat \ {0} /\ PageSize \in Nat \ {0} /\ (Page - 1) * PageSize \in Nat
         /\ OnPage(ids) \in Seq(AssetId)
         /\ Len(OnPage(ids)) =
              IF (Page - 1) * PageSize >= Len(ids) THEN 0
              ELSE Least(PageSize, Len(ids) - (Page - 1) * PageSize)
         /\ \A i \in 1 .. Len(OnPage(ids)) :
              /\ (Page - 1) * PageSize + i \in 1 .. Len(ids)
              /\ OnPage(ids)[i] = ids[(Page - 1) * PageSize + i]
<1>1. Page \in Nat \ {0} /\ PageSize \in Nat \ {0}
  <2>1. ask.page \in Int /\ ask.size \in Int
    <3>1. CASE ask \in Ask
      BY <3>1, LibraryReadsAssumption DEF Ask
    <3>2. CASE ask = NoAsk
      BY <3>2 DEF NoAsk
    <3> QED
      BY <3>1, <3>2 DEF ReadsTypeOK
  <2> QED
    BY <2>1, LibraryReadsAssumption DEF Page, PageSize, Most, Least
<1> DEFINE from == (Page - 1) * PageSize
           upTo == Least(Page * PageSize, Len(ids))
<1>2. from \in Nat /\ Page * PageSize = from + PageSize
  <2>1. \A p, s \in Nat \ {0} : (p - 1) * s \in Nat /\ p * s = (p - 1) * s + s
    OBVIOUS
  <2> QED
    BY <1>1, <2>1
<1> HIDE DEF from
<1>3. upTo = Least(from + PageSize, Len(ids)) /\ Len(ids) \in Nat /\ upTo \in Nat
  BY <1>1, <1>2 DEF Least
<1>4. \A i \in from + 1 .. upTo : i \in 1 .. Len(ids) /\ ids[i] \in AssetId
  BY <1>1, <1>2, <1>3 DEF Least
<1> HIDE DEF upTo
<1>5. OnPage(ids) = SubSeq(ids, from + 1, upTo)
  BY DEF OnPage, from, upTo
<1>6. /\ OnPage(ids) \in Seq(AssetId)
      /\ Len(OnPage(ids)) = IF from + 1 <= upTo THEN upTo - (from + 1) + 1 ELSE 0
      /\ \A i \in 1 .. upTo - (from + 1) + 1 : OnPage(ids)[i] = ids[from + 1 + i - 1]
  BY <1>2, <1>3, <1>4, <1>5, SubSeqProperties
<1>7. Len(OnPage(ids)) = IF from >= Len(ids) THEN 0 ELSE Least(PageSize, Len(ids) - from)
  BY <1>1, <1>2, <1>3, <1>6 DEF Least
<1>8. \A i \in 1 .. Len(OnPage(ids)) :
        from + i \in 1 .. Len(ids) /\ OnPage(ids)[i] = ids[from + i]
  BY <1>1, <1>2, <1>3, <1>6, <1>7 DEF Least
<1> QED
  BY <1>1, <1>2, <1>6, <1>7, <1>8 DEF from

\* What is cut off a search is past its limit.
LEMMA CutMeans ==
  ASSUME NEW ids \in Seq(AssetId)
  PROVE  /\ Cut(ids) \in Seq(AssetId)
         /\ Len(Cut(ids)) = Least(Len(ids), MatchLimit)
         /\ \A i \in 1 .. Len(Cut(ids)) : i \in 1 .. Len(ids) /\ Cut(ids)[i] = ids[i]
<1> DEFINE n == Least(Len(ids), MatchLimit)
<1>1. n \in Nat /\ n <= Len(ids) /\ Len(ids) \in Nat
  BY LibraryReadsAssumption DEF Least
<1> HIDE DEF n
<1>2. \A i \in 1 .. n : ids[i] \in AssetId
  BY <1>1
<1>3. /\ SubSeq(ids, 1, n) \in Seq(AssetId)
      /\ Len(SubSeq(ids, 1, n)) = IF 1 <= n THEN n - 1 + 1 ELSE 0
      /\ \A i \in 1 .. n - 1 + 1 : SubSeq(ids, 1, n)[i] = ids[1 + i - 1]
  BY <1>1, <1>2, SubSeqProperties
<1>4. Cut(ids) = SubSeq(ids, 1, n)
  BY DEF Cut, n
<1>5. Len(Cut(ids)) = n
  BY <1>1, <1>3, <1>4
<1>6. \A i \in 1 .. Len(Cut(ids)) : i \in 1 .. Len(ids) /\ Cut(ids)[i] = ids[i]
  BY <1>1, <1>3, <1>4, <1>5
<1> QED
  BY <1>3, <1>4, <1>5, <1>6 DEF n

\* The arithmetic of total, pages and items.
LEMMA Paging ==
  ASSUME NEW p \in Nat \ {0}, NEW s \in Nat \ {0}, NEW t \in Nat
  PROVE  LET last == (t + s - 1) \div s IN
         (IF (p - 1) * s >= t THEN 0 ELSE Least(s, t - (p - 1) * s))
           = CASE p < last -> s
               [] p = last -> t - (last - 1) * s
               [] OTHER    -> 0
<1> DEFINE last == (t + s - 1) \div s
<1>1. last \in Nat /\ last * s <= t + s - 1 /\ t + s - 1 < last * s + s
  <2>1. \A n \in Nat : n \div s \in Nat /\ (n \div s) * s <= n /\ n < (n \div s) * s + s
    OBVIOUS
  <2>2. t + s - 1 \in Nat
    OBVIOUS
  <2> QED
    BY <2>1, <2>2
<1> HIDE DEF last
<1>2. last * s \in Nat /\ (last - 1) * s = last * s - s /\ (p - 1) * s = p * s - s /\ p * s \in Nat
  BY <1>1
<1>3. CASE p < last
  <2>1. p * s <= (last - 1) * s
    <3>1. \A m, n \in Nat : m <= n => m * s <= n * s
      OBVIOUS
    <3> QED
      BY <1>1, <1>3, <3>1
  <2> QED
    BY <1>1, <1>2, <1>3, <2>1 DEF Least, last
<1>4. CASE p = last
  BY <1>1, <1>2, <1>4 DEF Least, last
<1>5. CASE p > last
  <2>1. last * s <= (p - 1) * s
    <3>1. \A m, n \in Nat : m <= n => m * s <= n * s
      OBVIOUS
    <3> QED
      BY <1>1, <1>5, <3>1
  <2> QED
    BY <1>1, <1>2, <1>5, <2>1 DEF Least, last
<1> QED
  BY <1>1, <1>3, <1>4, <1>5

-----------------------------------------------------------------------------
(* The invariant. *)

Holds(s, a) == \E i \in DOMAIN s : s[i] = a

\* The rows that were ever inserted are finitely many.
Registered == {a \in AssetId : assets[a].status # "ABSENT"}

\* What each statement of the request has in hand.
ControlInv ==
  /\ readPc # "search" => cursor = 0
  /\ readPc = "search" => ask.technical
  /\ readPc \in {"idle", "row", "rowVariants", "document", "detailed"} =>
       ask = NoAsk /\ matches = <<>> /\ steady = {}
  /\ readPc \in {"idle", "search", "count", "rows", "row"} => rows = <<>>
  /\ readPc \in {"rowVariants", "document", "detailed"} => Len(rows) = 1
  /\ readPc # "detailed" => technical = "unread"

\* The search has found what was there all along up to its cursor.
SearchInv ==
  /\ \A i \in DOMAIN matches : matches[i] \in Matching
  /\ readPc = "search" =>
       /\ steady \subseteq documents \cap Matching
       /\ \A a \in steady : a <= cursor => Holds(matches, a)
  /\ SearchFindsAll

\* The count is that of the list, as long as nobody has touched the table.
CountInv ==
  /\ readPc = "rows" /\ ~moved => total = Cardinality(Listed)
  /\ PagesAddUp

PageInv ==
  readPc \in {"variants", "listed"} =>
    /\ Len(rows) <= PageSize
    /\ \A i, j \in DOMAIN rows : rows[i].id = rows[j].id => i = j
    /\ ask.technical => \A i \in DOMAIN rows : rows[i].id \in Matching

\* All the worker made of an image is there.
Whole(a) == variants[a] = Kinds /\ (backend = "mongo" => a \in documents)

\* A DONE image has everything, and one that was once shown as DONE keeps it until it
\* is deleted, even if it fails and is retried.
DoneInv ==
  /\ \A a \in AssetId : assets[a].status = "DONE" => Whole(a)
  /\ \A i \in DOMAIN rows :
       /\ assets[rows[i].id].status # "ABSENT"
       /\ rows[i].status = "DONE" /\ Exists(rows[i].id) => Whole(rows[i].id)

WholeInv ==
  \A i \in DOMAIN rows :
    rows[i].status = "DONE" /\ Exists(rows[i].id) =>
      /\ readPc \in {"listed", "document", "detailed"} => pictures[rows[i].id] = Kinds
      /\ technical = "absent" => backend = "dynamodb"

ReadsInv ==
  /\ ReadsTypeOK /\ IsFiniteSet(Registered)
  /\ ControlInv /\ SearchInv /\ CountInv /\ PageInv /\ DoneInv /\ WholeInv

-----------------------------------------------------------------------------
(* What a write can do. *)

\* Only the image written changes; one that is not deleted keeps what was made of it,
\* none comes back, and one becomes DONE with all it needs.
WritesOnly(a) ==
  /\ \A b \in AssetId \ {a} : /\ assets'[b] = assets[b] /\ variants'[b] = variants[b]
                              /\ b \in documents' <=> b \in documents
  /\ assets[a].status # "ABSENT" => assets'[a].status # "ABSENT"
  /\ assets[a].status = "DELETED" => assets'[a].status = "DELETED"
  /\ Whole(a) /\ assets'[a].status # "DELETED" => Whole(a)'
  /\ assets'[a].status = "DONE" => assets[a].status = "DONE" \/ Whole(a)'

LEMMA WriteTypes ==
  ASSUME ReadsTypeOK, UNCHANGED aside, NEW a \in AssetId, Write(a)
  PROVE  /\ WritesOnly(a)
         /\ assets' \in [AssetId -> Row] /\ variants' \in [AssetId -> SUBSET Kinds]
         /\ documents' \subseteq AssetId
<1>1. /\ assets \in [AssetId -> Row] /\ variants \in [AssetId -> SUBSET Kinds]
      /\ documents \subseteq AssetId
  BY DEF ReadsTypeOK, DatabaseTypeOK, StoresTypeOK
<1> USE DEF Whole, Kinds, aside
<1>2. CASE Registers(a)
  <2>1. /\ assets' = [assets EXCEPT ![a] = NewRow] /\ assets[a].status = "ABSENT"
        /\ UNCHANGED <<variants, documents>>
    BY <1>2 DEF Registers, InsertAsset
  <2>2. NewRow \in Row /\ NewRow.status = "PENDING"
    BY DEF NewRow, Row, Status
  <2> QED
    BY <1>1, <2>1, <2>2 DEF WritesOnly
<1>3. CASE Submits(a)
  <2>1. /\ assets' = [assets EXCEPT ![a] = [assets[a] EXCEPT !.submitted = "fresh"]]
        /\ UNCHANGED <<variants, documents>>
    BY <1>3 DEF Submits, Submittable, SetSubmitted, Update
  <2>2. /\ assets'[a] \in Row /\ assets'[a].status = assets[a].status
        /\ \A b \in AssetId \ {a} : assets'[b] = assets[b]
    BY <1>1, <2>1 DEF Row
  <2>3. assets' \in [AssetId -> Row]
    BY <1>1, <2>1, <2>2
  <2> QED
    BY <1>1, <2>1, <2>2, <2>3 DEF WritesOnly
<1>4. CASE Describes(a)
  BY <1>1, <1>4 DEF Describes, PutDocument, WritesOnly
<1>5. CASE Finishes(a)
  <2>1. /\ assets' = [assets EXCEPT ![a] = [assets[a] EXCEPT !.status = "DONE", !.reason = FALSE]]
        /\ variants' = [variants EXCEPT ![a] = Kinds] /\ UNCHANGED documents
        /\ backend = "mongo" => a \in documents
        /\ Exists(a)
    BY <1>5 DEF Finishes, Described, SetDone, SaveVariants, Update
  <2>2. /\ assets'[a] \in Row /\ assets'[a].status = "DONE"
        /\ \A b \in AssetId \ {a} : assets'[b] = assets[b]
    BY <1>1, <2>1 DEF Row, Status
  <2>3. assets' \in [AssetId -> Row] /\ variants' \in [AssetId -> SUBSET Kinds]
    BY <1>1, <2>1, <2>2
  <2>4. assets[a].status \notin {"ABSENT", "DELETED"}
    BY <2>1 DEF Exists, Status
  <2> QED
    BY <1>1, <2>1, <2>2, <2>3, <2>4 DEF WritesOnly
<1>8. CASE Fails(a)
  <2>1. /\ assets' = [assets EXCEPT ![a] = [assets[a] EXCEPT !.status = "FAILED", !.reason = TRUE]]
        /\ UNCHANGED <<variants, documents>> /\ assets[a].status \notin {"ABSENT", "DELETED"}
    BY <1>8 DEF Fails, SetFailed, Update, Exists, Status
  <2>2. /\ assets'[a] \in Row /\ assets'[a].status = "FAILED"
        /\ \A b \in AssetId \ {a} : assets'[b] = assets[b]
    BY <1>1, <2>1 DEF Row, Status
  <2>3. assets' \in [AssetId -> Row]
    BY <1>1, <2>1, <2>2
  <2> QED
    BY <1>1, <2>1, <2>2, <2>3 DEF WritesOnly
<1>9. CASE Retries(a)
  <2>1. /\ assets' = [assets EXCEPT ![a] =
                       [assets[a] EXCEPT !.status = "PENDING", !.reason = FALSE, !.submitted = "fresh"]]
        /\ UNCHANGED <<variants, documents>> /\ assets[a].status \notin {"ABSENT", "DELETED"}
    BY <1>9 DEF Retries, Retryable, SetResubmitted, Update, Exists, Status
  <2>2. /\ assets'[a] \in Row /\ assets'[a].status = "PENDING"
        /\ \A b \in AssetId \ {a} : assets'[b] = assets[b]
    BY <1>1, <2>1 DEF Row, Status
  <2>3. assets' \in [AssetId -> Row]
    BY <1>1, <2>1, <2>2
  <2> QED
    BY <1>1, <2>1, <2>2, <2>3 DEF WritesOnly
<1>6. CASE Removes(a)
  <2>1. NoRow("DELETED") \in Row /\ NoRow("DELETED").status = "DELETED"
    BY DEF NoRow, Row
  <2> QED
    BY <1>1, <1>6, <2>1 DEF Removes, WritesOnly
<1>7. CASE Forgets(a)
  BY <1>1, <1>7 DEF Forgets, RemoveDocument, WritesOnly
<1> QED
  BY <1>2, <1>3, <1>4, <1>5, <1>6, <1>7, <1>8, <1>9 DEF Write

-----------------------------------------------------------------------------
(* Types. *)

LEMMA FoundMeans ==
  ASSUME ReadsTypeOK, NEW upTo \in Nat
  PROVE  /\ Found(upTo) \in Seq(AssetId)
         /\ \A i \in DOMAIN Found(upTo) : Found(upTo)[i] \in Matching
         /\ \A d \in documents \cap Matching :
              cursor < d /\ d <= upTo => Holds(Found(upTo), d)
<1> DEFINE S == {d \in documents \cap Matching : cursor < d /\ d <= upTo}
<1>1. S \subseteq AssetId /\ S \in SUBSET Nat /\ S \subseteq Matching
  BY LibraryReadsAssumption
<1>2. \A d \in S : d <= upTo
  OBVIOUS
<1> HIDE DEF S
<1>3. IsFiniteSet(S)
  BY <1>1, <1>2, FS_BoundedSetOfNaturals
<1>4. /\ InKeyOrder(S) \in Seq(S) /\ Len(InKeyOrder(S)) = Cardinality(S)
      /\ \A a \in S : \E i \in 1 .. Len(InKeyOrder(S)) : InKeyOrder(S)[i] = a
  BY <1>1, <1>3, InKeyOrderMeans
<1>5. InKeyOrder(S) = Found(upTo)
  BY DEF S, Found
<1>6. Found(upTo) \in Seq(AssetId)
  BY <1>1, <1>4, <1>5, SeqMonotonic
<1>7. \A i \in DOMAIN Found(upTo) : Found(upTo)[i] \in Matching
  <2>1. Found(upTo) \in Seq(Matching)
    BY <1>1, <1>4, <1>5, SeqMonotonic
  <2> QED
    BY <2>1
<1>8. \A d \in S : Holds(Found(upTo), d)
  BY <1>4, <1>5 DEF Holds
<1> QED
  BY <1>6, <1>7, <1>8 DEF S

\* One turn of the search, whichever way it goes.
LEMMA SearchMeans ==
  ASSUME ReadsTypeOK, ControlInv, Search
  PROVE  \E upTo \in Nat, ids \in Seq(AssetId) :
           /\ upTo \in documents \cup {cursor}
           /\ ids = matches \o Found(upTo)
           /\ \/ /\ Len(ids) >= MatchLimit \/ (\A d \in documents : d <= upTo)
                 /\ matches' = Cut(ids) /\ readPc' = "count" /\ cursor' = 0
              \/ matches' = ids /\ cursor' = upTo /\ UNCHANGED readPc
<1>1. PICK upTo \in documents \cup {cursor}, more \in BOOLEAN :
        /\ Query(upTo, more)
        /\ LET ids == matches \o Found(upTo) IN
           IF Len(ids) >= MatchLimit \/ ~more
           THEN matches' = Cut(ids) /\ readPc' = "count" /\ cursor' = 0
           ELSE matches' = ids /\ cursor' = upTo /\ UNCHANGED readPc
  BY DEF Search
<1>2. upTo \in Nat
  BY LibraryReadsAssumption DEF ReadsTypeOK, StoresTypeOK
<1>3. Found(upTo) \in Seq(AssetId) /\ matches \in Seq(AssetId)
  BY <1>2, FoundMeans DEF ReadsTypeOK
<1>4. matches \o Found(upTo) \in Seq(AssetId)
  BY <1>3, ConcatProperties
<1>5. ~more => \A d \in documents : d <= upTo
  BY <1>1 DEF Query
<1> DEFINE ids == matches \o Found(upTo)
<1>6. \/ /\ Len(ids) >= MatchLimit \/ (\A d \in documents : d <= upTo)
         /\ matches' = Cut(ids) /\ readPc' = "count" /\ cursor' = 0
      \/ matches' = ids /\ cursor' = upTo /\ UNCHANGED readPc
  BY <1>1, <1>5
<1> QED
  <2> HIDE DEF ids
  <2>1. ids \in Seq(AssetId) /\ ids = matches \o Found(upTo)
    BY <1>4 DEF ids
  <2> QED
    BY <1>2, <1>6, <2>1

\* The rows of a page, as ReadRows reads them.
LEMMA RowsMean ==
  ASSUME ReadsTypeOK, IsFiniteSet(Registered), NEW shown,
         shown = ShownRows(OnPage(Newest(Listed)))
  PROVE  /\ Cardinality(Listed) \in Nat
         /\ shown \in Seq(Shown) /\ DOMAIN shown = 1 .. Len(shown) /\ Len(shown) \in Nat
         /\ Page \in Nat \ {0} /\ PageSize \in Nat \ {0} /\ (Page - 1) * PageSize \in Nat
         /\ Len(shown) =
              IF (Page - 1) * PageSize >= Cardinality(Listed) THEN 0
              ELSE Least(PageSize, Cardinality(Listed) - (Page - 1) * PageSize)
         /\ \A i, j \in DOMAIN shown : shown[i].id = shown[j].id => i = j
         /\ \A i \in DOMAIN shown : /\ shown[i].id \in Listed
                                    /\ shown[i].status = assets[shown[i].id].status
<1> DEFINE all == Newest(Listed)
           ids == OnPage(all)
           from == (Page - 1) * PageSize
<1>1. Listed \subseteq AssetId /\ Listed \in SUBSET Registered /\ Listed \subseteq Nat
  BY LibraryReadsAssumption DEF Listed, Exists, Registered, Status
<1>2. IsFiniteSet(Listed)
  BY <1>1, FS_Subset
<1>3. /\ Cardinality(Listed) \in Nat
      /\ all \in [1 .. Cardinality(Listed) -> Listed]
      /\ all \in Seq(Listed) /\ Len(all) = Cardinality(Listed)
      /\ \A i, j \in 1 .. Cardinality(Listed) : all[i] = all[j] => i = j
  BY <1>1, <1>2, NewestMeans
<1> HIDE DEF all
<1>4. all \in Seq(AssetId)
  BY <1>1, <1>3, SeqMonotonic
<1>5. /\ Page \in Nat \ {0} /\ PageSize \in Nat \ {0} /\ from \in Nat
      /\ ids \in Seq(AssetId)
      /\ Len(ids) = IF from >= Len(all) THEN 0 ELSE Least(PageSize, Len(all) - from)
      /\ \A i \in 1 .. Len(ids) : from + i \in 1 .. Len(all) /\ ids[i] = all[from + i]
  BY <1>4, OnPageMeans
<1> HIDE DEF ids, from
<1>6. /\ DOMAIN ids = 1 .. Len(ids) /\ Len(ids) \in Nat
      /\ shown = [i \in 1 .. Len(ids) |-> [id |-> ids[i], status |-> assets[ids[i]].status]]
  BY <1>5 DEF ShownRows, ids, all
<1>7. ASSUME NEW i \in 1 .. Len(ids)
      PROVE  /\ ids[i] \in Listed /\ shown[i].id = ids[i]
             /\ shown[i].status = assets[ids[i]].status /\ shown[i] \in Shown
  <2>1. ids[i] \in Listed
    BY <1>3, <1>5
  <2>2. ids[i] \in AssetId /\ assets[ids[i]].status \in Status
    BY <2>1 DEF Listed, Exists
  <2> QED
    BY <1>6, <2>1, <2>2 DEF Shown
<1>8. shown \in Seq(Shown) /\ Len(shown) = Len(ids) /\ DOMAIN shown = 1 .. Len(ids)
  BY <1>6, <1>7
<1>9. ASSUME NEW i \in DOMAIN shown, NEW j \in DOMAIN shown, shown[i].id = shown[j].id
      PROVE  i = j
  <2>1. all[from + i] = all[from + j] /\ from + i \in 1 .. Len(all) /\ from + j \in 1 .. Len(all)
    BY <1>5, <1>7, <1>8, <1>9
  <2>2. from + i = from + j
    BY <1>3, <2>1
  <2> QED
    BY <1>5, <1>6, <1>8, <2>2
<1> QED
  BY <1>3, <1>5, <1>6, <1>7, <1>8, <1>9 DEF from

LEMMA DetailMeans ==
  ASSUME NEW a \in AssetId, Exists(a), NEW shown, shown = ShownRows(<<a>>)
  PROVE  /\ shown \in Seq(Shown) /\ Len(shown) = 1 /\ DOMAIN shown = {1}
         /\ shown[1].id = a /\ shown[1].status = assets[a].status
<1>1. DOMAIN <<a>> = 1 .. 1 /\ <<a>>[1] = a
  OBVIOUS
<1>2. shown = [i \in 1 .. 1 |-> [id |-> <<a>>[i], status |-> assets[<<a>>[i]].status]]
  BY <1>1 DEF ShownRows
<1>3. \A i \in 1 .. 1 : i = 1
  OBVIOUS
<1>4. shown[1] = [id |-> a, status |-> assets[a].status] /\ shown[1] \in Shown
  <2>1. shown[1] = [id |-> a, status |-> assets[a].status]
    BY <1>1, <1>2
  <2> QED
    BY <2>1 DEF Exists, Shown
<1>5. shown \in Seq(Shown) /\ Len(shown) = 1
  <2>1. shown \in [1 .. 1 -> Shown]
    BY <1>2, <1>3, <1>4
  <2> QED
    BY <2>1
<1> QED
  BY <1>2, <1>4, <1>5

LEMMA VariantsType ==
  ASSUME ReadsTypeOK
  PROVE  VariantsOf(rows) \in [AssetId -> SUBSET Kinds]
BY DEF ReadsTypeOK, DatabaseTypeOK, VariantsOf

LEMMA ReadsInitInv == ReadsInit => ReadsInv
<1> SUFFICES ASSUME ReadsInit PROVE ReadsInv
  OBVIOUS
<1> USE DEF ReadsInit, NothingRead
<1>1. ReadsTypeOK
  <2>1. NoRow("ABSENT") \in Row /\ <<>> \in Seq(AssetId) /\ <<>> \in Seq(Shown)
    BY DEF NoRow, Row
  <2> QED
    BY <2>1 DEF ReadsTypeOK, DatabaseTypeOK, StoresTypeOK, ReadPc
<1>2. IsFiniteSet(Registered)
  <2>1. Registered = {}
    BY DEF Registered, NoRow
  <2> QED
    BY <2>1, FS_EmptySet
<1>3. ControlInv /\ SearchInv /\ CountInv /\ PageInv
  BY DEF ControlInv, SearchInv, SearchFindsAll, CountInv, PagesAddUp, PageInv
<1>4. DoneInv /\ WholeInv
  BY DEF DoneInv, WholeInv, NoRow
<1> QED
  BY <1>1, <1>2, <1>3, <1>4 DEF ReadsInv

LEMMA ReadTypes ==
  ASSUME ReadsInv, UNCHANGED aside,
         Read /\ UNCHANGED <<assets, variants, documents>>
  PROVE  ReadsTypeOK'
<1> USE DEF ReadsTypeOK, ReadPc
<1>a. DatabaseTypeOK' /\ StoresTypeOK' /\ backend' \in {"mongo", "dynamodb"}
  BY DEF ReadsInv, aside, DatabaseTypeOK, StoresTypeOK, Row, Status, EventKind, Content, Kinds
<1>b. <<>> \in Seq(AssetId) /\ <<>> \in Seq(Shown)
  OBVIOUS
<1>1. CASE AskList
  BY <1>1, <1>a DEF AskList, ReadsInv, StoresTypeOK
<1>2. CASE Search
  <2>1. PICK upTo \in Nat, ids \in Seq(AssetId) :
          /\ upTo \in documents \cup {cursor}
          /\ \/ matches' = Cut(ids) /\ readPc' = "count" /\ cursor' = 0
             \/ matches' = ids /\ cursor' = upTo /\ UNCHANGED readPc
    BY <1>2, SearchMeans DEF ReadsInv
  <2>2. Cut(ids) \in Seq(AssetId)
    BY CutMeans
  <2> QED
    BY <1>2, <1>a, <2>1, <2>2 DEF Search, ReadsInv, StoresTypeOK
<1>3. CASE SearchUnavailable
  BY <1>3, <1>a, <1>b DEF SearchUnavailable, ReadsInv
<1>4. CASE Count
  <2>1. Cardinality(Listed) \in Nat
    BY RowsMean DEF ReadsInv
  <2> QED
    BY <1>4, <1>a, <2>1 DEF Count, ReadsInv
<1>5. CASE ReadRows
  <2>1. rows' \in Seq(Shown)
    BY <1>5, RowsMean DEF ReadRows, ReadsInv
  <2> QED
    BY <1>5, <1>a, <2>1 DEF ReadRows, ReadsInv
<1>6. CASE ReadVariants
  BY <1>6, <1>a, VariantsType DEF ReadVariants, ReadsInv, Kinds
<1>6b. CASE DetailVariants
  BY <1>6b, <1>a, VariantsType DEF DetailVariants, ReadsInv, Kinds
<1>7. ASSUME NEW a \in AssetId, DetailRow(a) PROVE ReadsTypeOK'
  <2>1. rows' \in Seq(Shown)
    BY <1>7, DetailMeans DEF DetailRow, ReadsInv
  <2> QED
    BY <1>7, <1>a, <2>1 DEF DetailRow, ReadsInv
<1>8. CASE AskDetail
  BY <1>8, <1>a DEF AskDetail, ReadsInv
<1>8b. CASE DetailDocument
  <2>1. technical' \in {"read", "absent", "unreadable"}
    BY <1>8b DEF DetailDocument, Answers
  <2> QED
    BY <1>8b, <1>a, <2>1 DEF DetailDocument, ReadsInv
<1>9. CASE Answered
  BY <1>9, <1>a, <1>b DEF Answered, ReadsInv
<1> QED
  BY <1>1, <1>2, <1>3, <1>4, <1>5, <1>6, <1>7, <1>8, <1>9, <1>6b, <1>8b DEF Read

LEMMA ReadControl ==
  ASSUME ReadsInv, UNCHANGED aside,
         Read /\ UNCHANGED <<assets, variants, documents>>
  PROVE  ControlInv'
<1> USE DEF ControlInv
<1>1. CASE AskList
  BY <1>1 DEF AskList, ReadsInv
<1>2. CASE Search
  BY <1>2, SearchMeans DEF Search, ReadsInv
<1>3. CASE SearchUnavailable
  BY <1>3 DEF SearchUnavailable, ReadsInv, NoAsk
<1>4. CASE Count \/ ReadRows \/ ReadVariants
  BY <1>4 DEF Count, ReadRows, ReadVariants, ReadsInv
<1>7. ASSUME NEW a \in AssetId, DetailRow(a) PROVE ControlInv'
  <2>1. Exists(a) => Len(rows') = 1
    BY <1>7, DetailMeans DEF DetailRow
  <2> QED
    BY <1>7, <2>1 DEF DetailRow, ReadsInv
<1>8. CASE AskDetail \/ DetailVariants \/ DetailDocument
  BY <1>8 DEF AskDetail, DetailVariants, DetailDocument, ReadsInv
<1>9. CASE Answered
  BY <1>9 DEF Answered, ReadsInv, NoAsk
<1> QED
  BY <1>1, <1>2, <1>3, <1>4, <1>7, <1>8, <1>9 DEF Read

LEMMA ReadSearch ==
  ASSUME ReadsInv, UNCHANGED aside,
         Read /\ UNCHANGED <<assets, variants, documents>>
  PROVE  SearchInv'
<1>a. matches \in Seq(AssetId) /\ documents \subseteq AssetId /\ cursor \in Nat
  BY LibraryReadsAssumption DEF ReadsInv, ReadsTypeOK, StoresTypeOK
<1>b. /\ \A i \in DOMAIN matches : matches[i] \in Matching
      /\ readPc = "search" =>
           /\ steady \subseteq documents \cap Matching
           /\ \A a \in steady : a <= cursor => Holds(matches, a)
      /\ SearchFindsAll
  BY DEF ReadsInv, SearchInv
<1>1. CASE AskList
  <2>1. cursor = 0 /\ matches = <<>> /\ readPc' # "listed"
    BY <1>1 DEF AskList, ReadsInv, ControlInv
  <2>2. ~ask'.technical => SearchFindsAll'
    BY DEF SearchFindsAll
  <2> QED
    BY <1>1, <1>a, <2>1, <2>2, LibraryReadsAssumption DEF AskList, SearchInv, SearchFindsAll
<1>2. CASE Search
  <2>1. PICK upTo \in Nat, ids \in Seq(AssetId) :
          /\ ids = matches \o Found(upTo)
          /\ \/ /\ Len(ids) >= MatchLimit \/ (\A d \in documents : d <= upTo)
                /\ matches' = Cut(ids) /\ readPc' = "count" /\ cursor' = 0
             \/ matches' = ids /\ cursor' = upTo /\ UNCHANGED readPc
    BY <1>2, SearchMeans DEF ReadsInv
  <2>2. /\ Found(upTo) \in Seq(AssetId)
        /\ \A i \in DOMAIN Found(upTo) : Found(upTo)[i] \in Matching
        /\ \A d \in documents \cap Matching :
             cursor < d /\ d <= upTo => Holds(Found(upTo), d)
    BY FoundMeans DEF ReadsInv
  <2>3. UNCHANGED <<ask, steady, documents>> /\ readPc = "search"
    BY <1>2 DEF Search
  <2>4. \A i \in 1 .. Len(ids) : ids[i] =
          IF i <= Len(matches) THEN matches[i] ELSE Found(upTo)[i - Len(matches)]
    BY <1>a, <2>1, <2>2, ConcatProperties
  <2>5. Len(ids) = Len(matches) + Len(Found(upTo)) /\ Len(matches) \in Nat
        /\ Len(Found(upTo)) \in Nat
    BY <1>a, <2>1, <2>2, ConcatProperties
  <2>6. \A i \in 1 .. Len(ids) : ids[i] \in Matching
    <3> SUFFICES ASSUME NEW i \in 1 .. Len(ids) PROVE ids[i] \in Matching
      OBVIOUS
    <3>1. CASE i <= Len(matches)
      BY <1>a, <1>b, <2>4, <2>5, <3>1
    <3>2. CASE i > Len(matches)
      <4>1. i - Len(matches) \in DOMAIN Found(upTo)
        BY <2>2, <2>5, <3>2
      <4> QED
        BY <2>2, <2>4, <2>5, <3>2, <4>1
    <3> QED
      BY <2>5, <3>1, <3>2
  <2>7. ASSUME NEW a \in steady, a <= upTo PROVE \E i \in 1 .. Len(ids) : ids[i] = a
    <3>1. a \in documents \cap Matching /\ a \in Nat
      BY <1>a, <1>b, <2>3, LibraryReadsAssumption
    <3>2. CASE a <= cursor
      <4> PICK i \in DOMAIN matches : matches[i] = a
        BY <1>b, <2>3, <3>2 DEF Holds
      <4>1. i \in 1 .. Len(ids) /\ ids[i] = matches[i]
        BY <1>a, <2>4, <2>5
      <4> QED
        BY <4>1
    <3>3. CASE cursor < a
      <4> PICK i \in DOMAIN Found(upTo) : Found(upTo)[i] = a
        BY <2>2, <2>7, <3>1, <3>3 DEF Holds
      <4>1. i \in 1 .. Len(Found(upTo))
        BY <2>2
      <4> PICK k \in 1 .. Len(ids) : ~(k <= Len(matches)) /\ k - Len(matches) = i
        <5>1. Len(matches) + i \in 1 .. Len(ids) /\ ~(Len(matches) + i <= Len(matches))
              /\ (Len(matches) + i) - Len(matches) = i
          BY <2>5, <4>1
        <5> QED
          BY <5>1
      <4>2. ids[k] = a
        BY <2>4
      <4> QED
        BY <4>2
    <3> QED
      BY <1>a, <3>1, <3>2, <3>3
  <2>8. CASE readPc' = "count"
    <3>1. /\ matches' = Cut(ids)
          /\ Len(ids) >= MatchLimit \/ (\A d \in documents : d <= upTo)
      BY <2>1, <2>3, <2>8
    <3>2. /\ Cut(ids) \in Seq(AssetId) /\ Len(Cut(ids)) = Least(Len(ids), MatchLimit)
          /\ \A i \in 1 .. Len(Cut(ids)) : i \in 1 .. Len(ids) /\ Cut(ids)[i] = ids[i]
      BY CutMeans
    <3>3. \A i \in DOMAIN matches' : matches'[i] \in Matching
      BY <2>6, <3>1, <3>2
    <3>4. ASSUME ~Truncated', NEW a \in steady PROVE \E i \in DOMAIN matches' : matches'[i] = a
      <4>1. Len(ids) < MatchLimit /\ Len(Cut(ids)) = Len(ids)
        BY <2>5, <3>1, <3>2, <3>4, LibraryReadsAssumption DEF Truncated, Least
      <4>2. a <= upTo
        BY <1>b, <2>3, <2>5, <3>1, <4>1, LibraryReadsAssumption
      <4> PICK i \in 1 .. Len(ids) : ids[i] = a
        BY <2>7, <4>2
      <4> QED
        BY <3>1, <3>2, <4>1
    <3> QED
      BY <2>3, <2>8, <3>3, <3>4 DEF SearchInv, SearchFindsAll
  <2>9. CASE readPc' # "count"
    <3>1. matches' = ids /\ cursor' = upTo /\ readPc' = "search"
      BY <2>1, <2>3, <2>9
    <3>2. DOMAIN ids = 1 .. Len(ids)
      OBVIOUS
    <3> QED
      BY <1>b, <2>3, <2>6, <2>7, <3>1, <3>2 DEF SearchInv, SearchFindsAll, Holds
  <2> QED
    BY <2>8, <2>9
<1>3. CASE SearchUnavailable \/ Answered
  BY <1>3 DEF SearchUnavailable, Answered, SearchInv, SearchFindsAll
<1>4. CASE Count \/ ReadRows \/ ReadVariants
  BY <1>4, <1>b
  DEF Count, ReadRows, ReadVariants, SearchInv, SearchFindsAll, Truncated
<1>5. ASSUME NEW a \in AssetId, DetailRow(a) PROVE SearchInv'
  BY <1>5, <1>b DEF DetailRow, SearchInv, SearchFindsAll
<1>6. CASE AskDetail \/ DetailVariants \/ DetailDocument
  BY <1>6, <1>b DEF AskDetail, DetailVariants, DetailDocument, SearchInv, SearchFindsAll
<1> QED
  BY <1>1, <1>2, <1>3, <1>4, <1>5, <1>6 DEF Read

LEMMA ReadCount ==
  ASSUME ReadsInv, UNCHANGED aside,
         Read /\ UNCHANGED <<assets, variants, documents>>
  PROVE  CountInv' /\ PageInv'
<1>a. /\ readPc = "rows" /\ ~moved => total = Cardinality(Listed)
      /\ PagesAddUp /\ total \in Nat /\ moved \in BOOLEAN
  BY DEF ReadsInv, CountInv, ReadsTypeOK
<1>1. CASE AskList \/ Search \/ SearchUnavailable \/ AskDetail \/ DetailVariants
           \/ DetailDocument \/ Answered \/ \E a \in AssetId : DetailRow(a)
  <2>1. readPc' \notin {"rows", "variants", "listed"}
    BY <1>1, SearchMeans
    DEF AskList, Search, SearchUnavailable, AskDetail, DetailVariants, DetailDocument, Answered,
        DetailRow, ReadsInv
  <2> QED
    BY <2>1 DEF CountInv, PagesAddUp, PageInv
<1>2. CASE Count
  BY <1>2 DEF Count, CountInv, PagesAddUp, PageInv, Listed, Exists
<1>3. CASE ReadRows
  <2>1. /\ rows' = ShownRows(OnPage(Newest(Listed))) /\ readPc = "rows" /\ readPc' = "variants"
        /\ UNCHANGED <<ask, total, moved>>
    BY <1>3 DEF ReadRows
  <2>2. /\ Cardinality(Listed) \in Nat
        /\ Page \in Nat \ {0} /\ PageSize \in Nat \ {0} /\ (Page - 1) * PageSize \in Nat
        /\ Len(rows') = IF (Page - 1) * PageSize >= Cardinality(Listed) THEN 0
                        ELSE Least(PageSize, Cardinality(Listed) - (Page - 1) * PageSize)
        /\ \A i, j \in DOMAIN rows' : rows'[i].id = rows'[j].id => i = j
        /\ \A i \in DOMAIN rows' : rows'[i].id \in Listed
    BY <2>1, RowsMean DEF ReadsInv
  <2>3. UNCHANGED <<Page, PageSize, PageCount>>
    BY <2>1 DEF Page, PageSize, PageCount
  <2>4. PagesAddUp'
    <3> SUFFICES ASSUME ~moved
                 PROVE  Len(rows') = CASE Page < PageCount -> PageSize
                                       [] Page = PageCount -> total - (PageCount - 1) * PageSize
                                       [] OTHER            -> 0
      BY <2>1, <2>3 DEF PagesAddUp
    <3>1. total = Cardinality(Listed)
      BY <1>a, <2>1
    <3> QED
      BY <2>2, <3>1, Paging DEF PageCount
  <2>5. Len(rows') <= PageSize
    BY <2>2 DEF Least
  <2>6. ask.technical => \A i \in DOMAIN rows' : rows'[i].id \in Matching
    <3> SUFFICES ASSUME ask.technical, NEW i \in DOMAIN rows' PROVE rows'[i].id \in Matching
      OBVIOUS
    <3> PICK k \in DOMAIN matches : matches[k] = rows'[i].id
      BY <2>2 DEF Listed
    <3> QED
      BY DEF ReadsInv, SearchInv
  <2> QED
    BY <2>1, <2>2, <2>3, <2>4, <2>5, <2>6 DEF CountInv, PageInv
<1>4. CASE ReadVariants
  <2>1. readPc = "variants" /\ UNCHANGED <<ask, rows>> /\ readPc' = "listed"
    BY <1>4 DEF ReadVariants
  <2>2. UNCHANGED <<Page, PageSize>>
    BY <2>1 DEF Page, PageSize
  <2> QED
    BY <1>a, <2>1, <2>2 DEF CountInv, PageInv, PagesAddUp, ReadsInv
<1> QED
  BY <1>1, <1>2, <1>3, <1>4 DEF Read

LEMMA RowsShown ==
  ASSUME ReadsTypeOK, NEW i \in DOMAIN rows
  PROVE  rows[i] \in Shown /\ rows[i].id \in AssetId
<1>1. rows \in Seq(Shown)
  BY DEF ReadsTypeOK
<1>2. i \in 1 .. Len(rows)
  BY <1>1
<1>3. rows[i] \in Shown
  BY <1>1, <1>2, ElementOfSeq
<1> QED
  BY <1>3 DEF Shown

LEMMA ReadWhole ==
  ASSUME ReadsInv, UNCHANGED aside,
         Read /\ UNCHANGED <<assets, variants, documents>>
  PROVE  DoneInv' /\ WholeInv'
<1>a. /\ \A a \in AssetId : assets[a].status = "DONE" => Whole(a)
      /\ \A i \in DOMAIN rows :
           /\ assets[rows[i].id].status # "ABSENT"
           /\ rows[i].status = "DONE" /\ Exists(rows[i].id) => Whole(rows[i].id)
      /\ rows \in Seq(Shown) /\ backend \in {"mongo", "dynamodb"} /\ UNCHANGED backend
      /\ \A a \in AssetId : (Exists(a))' <=> Exists(a)
      /\ \A a \in AssetId : (Whole(a))' <=> Whole(a)
  BY DEF ReadsInv, DoneInv, ReadsTypeOK, Exists, Whole, Kinds, aside
<1>b. \A i \in DOMAIN rows : rows[i].id \in AssetId
  BY <1>a, RowsShown DEF ReadsInv
<1>1. CASE UNCHANGED rows /\ UNCHANGED <<pictures, technical>>
           /\ (readPc' \in {"listed", "document", "detailed"} => readPc \in {"listed", "document", "detailed"})
  BY <1>1, <1>a, <1>b DEF ReadsInv, DoneInv, WholeInv, Kinds
<1>2. CASE ReadVariants \/ DetailVariants
  <2>1. UNCHANGED <<rows, technical>> /\ pictures' = VariantsOf(rows)
    BY <1>2 DEF ReadVariants, DetailVariants
  <2>2. \A i \in DOMAIN rows : pictures'[rows[i].id] = variants[rows[i].id]
    BY <1>b, <2>1 DEF VariantsOf
  <2>3. WholeInv'
    BY <1>a, <1>b, <2>1, <2>2 DEF ReadsInv, WholeInv, Whole, Kinds
  <2> QED
    BY <1>a, <1>b, <2>1, <2>3 DEF DoneInv
<1>3. CASE DetailDocument
  <2>1. /\ UNCHANGED <<rows, pictures>> /\ readPc = "document" /\ readPc' = "detailed"
        /\ technical' \in Answers(rows[1].id) \cup {"unreadable"}
    BY <1>3 DEF DetailDocument
  <2>2. \A i \in DOMAIN rows : i = 1
    BY <1>a, <2>1 DEF ReadsInv, ControlInv
  <2>3. \A i \in DOMAIN rows : rows[i].status = "DONE" /\ Exists(rows[i].id) =>
          (technical' = "absent" => backend = "dynamodb")
    BY <1>a, <2>1, <2>2 DEF Answers, Whole
  <2>4. WholeInv'
    BY <1>a, <1>b, <2>1, <2>3 DEF ReadsInv, WholeInv, Kinds
  <2> QED
    BY <1>a, <1>b, <2>1, <2>4 DEF DoneInv
<1>4. CASE ReadRows
  <2>1. /\ \A i \in DOMAIN rows' : /\ rows'[i].id \in Listed
                                   /\ rows'[i].status = assets[rows'[i].id].status
        /\ readPc' = "variants" /\ technical' = "unread"
    BY <1>4, RowsMean DEF ReadRows, ReadsInv, ControlInv
  <2>2. \A a \in Listed : a \in AssetId /\ assets[a].status # "ABSENT"
    BY DEF Listed, Exists, Status
  <2> QED
    BY <1>a, <2>1, <2>2 DEF DoneInv, WholeInv
<1>5. ASSUME NEW a \in AssetId, DetailRow(a), Exists(a) PROVE DoneInv' /\ WholeInv'
  <2>1. /\ DOMAIN rows' = {1} /\ rows'[1].id = a /\ rows'[1].status = assets[a].status
        /\ readPc' = "rowVariants" /\ technical' = "unread"
    BY <1>5, DetailMeans DEF DetailRow, ReadsInv, ControlInv
  <2>2. assets[a].status # "ABSENT"
    BY <1>5 DEF Exists, Status
  <2> QED
    BY <1>a, <2>1, <2>2 DEF DoneInv, WholeInv
<1>6. CASE Answered
  <2>1. DOMAIN rows' = {}
    BY <1>6 DEF Answered
  <2> QED
    BY <1>a, <2>1 DEF DoneInv, WholeInv
<1> QED
  BY <1>1, <1>2, <1>3, <1>4, <1>5, <1>6, SearchMeans
  DEF Read, AskList, Search, SearchUnavailable, Count, AskDetail, DetailRow, ReadsInv

-----------------------------------------------------------------------------
(* The writes. *)

LEMMA WriteKeepsSearch ==
  ASSUME ReadsInv, NEW a \in AssetId, Write(a)
  PROVE  ControlInv' /\ SearchInv' /\ CountInv' /\ PageInv'
<1>1. /\ UNCHANGED <<readPc, ask, cursor, matches, total, rows, pictures, technical>>
      /\ steady' = IF readPc = "search" THEN steady \cap documents' ELSE steady
      /\ moved' = (moved \/ (readPc = "rows" /\ assets' # assets))
  BY DEF Write
<1>2. UNCHANGED <<Page, PageSize, PageCount>>
  BY <1>1 DEF Page, PageSize, PageCount
<1>3. ControlInv'
  BY <1>1 DEF ReadsInv, ControlInv
<1>4. SearchInv'
  <2>1. steady' \subseteq steady /\ (readPc # "search" => steady' = steady)
        /\ (readPc = "search" => steady' \subseteq documents')
    BY <1>1
  <2>2. SearchFindsAll'
    BY <1>1, <2>1 DEF ReadsInv, SearchInv, SearchFindsAll, Truncated
  <2> QED
    BY <1>1, <2>1, <2>2 DEF ReadsInv, SearchInv, Holds
<1>5. CountInv'
  <2>1. CASE readPc = "rows" /\ ~moved'
    <3>1. assets' = assets /\ ~moved
      BY <1>1, <2>1
    <3>2. Listed' = Listed
      BY <1>1, <3>1 DEF Listed, Exists
    <3> QED
      BY <1>1, <2>1, <3>1, <3>2 DEF ReadsInv, CountInv, PagesAddUp
  <2>2. CASE readPc # "rows" /\ ~moved'
    <3>1. ~moved
      BY <1>1, <2>2
    <3> QED
      BY <1>1, <1>2, <2>2, <3>1 DEF ReadsInv, CountInv, PagesAddUp
  <2>3. CASE moved'
    BY <2>3 DEF CountInv, PagesAddUp
  <2> QED
    BY <2>1, <2>2, <2>3
<1>6. PageInv'
  BY <1>1, <1>2 DEF ReadsInv, PageInv
<1> QED
  BY <1>3, <1>4, <1>5, <1>6

\* A row that is shown as DONE is of an image that has everything, or is gone; so
\* it is after the write.
LEMMA WriteKeepsWhole ==
  ASSUME ReadsInv, UNCHANGED aside, NEW a \in AssetId, Write(a)
  PROVE  DoneInv' /\ WholeInv'
<1>1. UNCHANGED <<readPc, rows, pictures, technical>>
  BY DEF Write
<1>2. WritesOnly(a) /\ \A i \in DOMAIN rows : rows[i].id \in AssetId
  BY WriteTypes, RowsShown DEF ReadsInv
<1>3. \A b \in AssetId \ {a} : Whole(b)' <=> Whole(b)
  BY <1>2 DEF WritesOnly, Whole, Kinds, aside
<1>4. ASSUME NEW b \in AssetId, assets'[b].status = "DONE"
      PROVE  Whole(b)'
  <2>1. CASE b = a
    BY <1>2, <1>4, <2>1 DEF WritesOnly, ReadsInv, DoneInv
  <2>2. CASE b # a
    BY <1>2, <1>3, <1>4, <2>2 DEF WritesOnly, ReadsInv, DoneInv
  <2> QED
    BY <2>1, <2>2
<1>5. ASSUME NEW i \in DOMAIN rows
      PROVE  assets[rows[i].id].status # "ABSENT" /\ assets'[rows[i].id].status # "ABSENT"
  BY <1>2 DEF WritesOnly, ReadsInv, DoneInv
<1>6. ASSUME NEW i \in DOMAIN rows, (Exists(rows[i].id))'
      PROVE  Exists(rows[i].id)
  <2>1. assets[rows[i].id] \in Row
    BY <1>2 DEF ReadsInv, ReadsTypeOK, DatabaseTypeOK
  <2>2. assets[rows[i].id].status = "DELETED" => assets'[rows[i].id].status = "DELETED"
    BY <1>2 DEF WritesOnly
  <2>3. assets'[rows[i].id].status \in Status
    BY <1>1, <1>6 DEF Exists
  <2> QED
    BY <1>5, <2>1, <2>2, <2>3 DEF Exists, Row, Status
<1>7. ASSUME NEW i \in DOMAIN rows, rows[i].status = "DONE", (Exists(rows[i].id))'
      PROVE  Whole(rows[i].id)'
  <2>1. Whole(rows[i].id)
    BY <1>6, <1>7 DEF ReadsInv, DoneInv
  <2>2. assets'[rows[i].id].status # "DELETED"
    BY <1>1, <1>7 DEF Exists, Status
  <2>3. CASE rows[i].id = a
    <3>1. Whole(a) /\ assets'[a].status # "DELETED"
      BY <2>1, <2>2, <2>3
    <3>2. Whole(a)'
      BY <1>2, <3>1 DEF WritesOnly
    <3> QED
      BY <1>1, <2>3, <3>2 DEF Whole, Kinds
  <2>4. CASE rows[i].id # a
    <3>1. /\ variants'[rows[i].id] = variants[rows[i].id]
          /\ rows[i].id \in documents' <=> rows[i].id \in documents
      BY <1>2, <2>4 DEF WritesOnly
    <3> QED
      BY <1>1, <2>1, <3>1 DEF Whole, Kinds, aside
  <2> QED
    BY <2>3, <2>4
<1>8. DoneInv'
  BY <1>1, <1>4, <1>5, <1>7 DEF DoneInv
<1>9. WholeInv'
  BY <1>1, <1>6 DEF ReadsInv, WholeInv, Kinds, aside
<1> QED
  BY <1>8, <1>9

LEMMA WriteKeeps ==
  ASSUME ReadsInv, UNCHANGED aside, NEW a \in AssetId, Write(a)
  PROVE  ReadsInv'
<1>1. /\ WritesOnly(a)
      /\ assets' \in [AssetId -> Row] /\ variants' \in [AssetId -> SUBSET Kinds]
      /\ documents' \subseteq AssetId
  BY WriteTypes DEF ReadsInv
<1>2. ReadsTypeOK'
  <2>1. steady' \subseteq AssetId /\ moved' \in BOOLEAN
    BY DEF Write, ReadsInv, ReadsTypeOK
  <2>2. DatabaseTypeOK' /\ StoresTypeOK' /\ UNCHANGED backend
    BY <1>1 DEF ReadsInv, ReadsTypeOK, DatabaseTypeOK, StoresTypeOK, aside, Kinds
  <2>3. UNCHANGED <<readPc, ask, cursor, matches, total, rows, pictures, technical>>
    BY DEF Write
  <2> QED
    BY <2>1, <2>2, <2>3 DEF ReadsInv, ReadsTypeOK, Ask, Shown, Kinds
<1>3. IsFiniteSet(Registered')
  <2>1. Registered' \subseteq Registered \cup {a}
    BY <1>1 DEF WritesOnly, Registered
  <2>2. IsFiniteSet(Registered \cup {a})
    BY FS_AddElement DEF ReadsInv
  <2> QED
    BY <2>1, <2>2, FS_Subset
<1> QED
  BY <1>2, <1>3, WriteKeepsSearch, WriteKeepsWhole DEF ReadsInv

-----------------------------------------------------------------------------
(* The invariant holds, and what it says. *)

LEMMA ReadsKeep == ReadsInv /\ [ReadsNext]_libraryVars => ReadsInv'
<1>1. CASE UNCHANGED libraryVars /\ ReadsInv
  <2> USE <1>1 DEF libraryVars, dbVars, storeVars, readVars
  <2>1. ReadsTypeOK' /\ Registered' = Registered
    BY DEF ReadsInv, ReadsTypeOK, DatabaseTypeOK, StoresTypeOK, Registered, Ask, Shown, Kinds
  <2>2. ControlInv' /\ SearchInv'
    BY DEF ReadsInv, ControlInv, SearchInv, SearchFindsAll, Truncated, Holds
  <2>3. CountInv' /\ PageInv'
    BY DEF ReadsInv, CountInv, PagesAddUp, PageInv, Page, PageSize, PageCount, Listed, Exists
  <2>4. DoneInv' /\ WholeInv'
    BY DEF ReadsInv, DoneInv, WholeInv, Whole, Exists, Kinds
  <2> QED
    BY <2>1, <2>2, <2>3, <2>4 DEF ReadsInv
<1>2. ASSUME ReadsInv, UNCHANGED aside, Read /\ UNCHANGED <<assets, variants, documents>>
      PROVE  ReadsInv'
  <2>1. Registered' = Registered
    BY <1>2 DEF Registered
  <2> QED
    BY <1>2, <2>1, ReadTypes, ReadControl, ReadSearch, ReadCount, ReadWhole DEF ReadsInv
<1> QED
  BY <1>1, <1>2, WriteKeeps DEF ReadsNext

LEMMA ReadsAlways == ReadsSpec => []ReadsInv
BY ReadsInitInv, ReadsKeep, PTL DEF ReadsSpec

\* The types of one request over tables and documents that change.
THEOREM ReadsTypesHold == ReadsSpec => []ReadsTypeOK
<1>1. ReadsInv => ReadsTypeOK
  BY DEF ReadsInv
<1> QED
  BY <1>1, ReadsAlways, PTL

\* A search that is not truncated found every match that was in the collection, or in
\* the index by_user, all along, however its pages fell and whatever was written between
\* them.
THEOREM SearchAlwaysFindsAll == ReadsSpec => []SearchFindsAll
<1>1. ReadsInv => SearchFindsAll
  BY DEF ReadsInv, SearchInv
<1> QED
  BY <1>1, ReadsAlways, PTL

\* A list holds only what matches, no image twice, and at most a page.
THEOREM ListsAlwaysMatch == ReadsSpec => []ListsOnlyMatches
<1>1. ReadsInv => ListsOnlyMatches
  BY DEF ReadsInv, PageInv, ListsOnlyMatches
<1> QED
  BY <1>1, ReadsAlways, PTL

\* The total, the pages and the rows agree when nothing was written between the two
\* statements, for every page and every page size that is asked.
THEOREM PagesAlwaysAddUp == ReadsSpec => []PagesAddUp
<1>1. ReadsInv => PagesAddUp
  BY DEF ReadsInv, CountInv
<1> QED
  BY <1>1, ReadsAlways, PTL

\* An image that is shown as DONE has its variants, or was deleted since; it has its
\* document too, or the store failed, or was DynamoDB and answered from a copy that lags.
THEOREM DoneAlwaysShownWhole == ReadsSpec => []ShownDoneIsWhole
<1>1. ReadsInv => ShownDoneIsWhole
  BY DEF ReadsInv, WholeInv, ShownDoneIsWhole
<1> QED
  BY <1>1, ReadsAlways, PTL

=============================================================================
