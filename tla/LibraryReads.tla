----------------------------- MODULE LibraryReads -----------------------------
(***************************************************************************)
(* The reads of the API service: the library with its technical search     *)
(* (list_assets over DynamoMetadataStore.search_asset_ids) and the page of *)
(* one image (get_asset).  One request, statement by statement, over       *)
(* tables and documents that change under it.                              *)
(*                                                                         *)
(* The documents are MongoDB's or DynamoDB's (METADATA_BACKEND).  MongoDB  *)
(* answers from the collection.  DynamoDB answers the search from the      *)
(* index by_user, which lags behind the table, and one document from a     *)
(* copy that may lag too, get_item being called without ConsistentRead.    *)
(* `documents` is what the search can see: the collection, or the index.   *)
(*                                                                         *)
(* The writers are the platform's, in the order MediaPlatform shows they   *)
(* keep: document, then rows and DONE together; on deletion the rows first.*)
(* Identifiers are numbered in the order of their registration.  What a    *)
(* request has in hand is forgotten where it is used for the last time.    *)
(***************************************************************************)
EXTENDS Stores, Integers, Sequences

CONSTANTS
  Matching,       \* the images whose technical data match the search
  MatchLimit,     \* metadata_match_limit
  MaxPageSize,    \* max_page_size
  AskedPages,     \* the page numbers clients ask for
  AskedSizes,     \* the page sizes clients ask for
  Failing,        \* bound: the images whose processing may fail
  Removable       \* bound: the images their owner may delete

ASSUME LibraryReadsAssumption ==
  /\ AssetId \subseteq Nat \ {0}
  /\ Matching \subseteq AssetId
  /\ MatchLimit \in Nat \ {0} /\ MaxPageSize \in Nat \ {0}
  /\ AskedPages \subseteq Int /\ AskedSizes \subseteq Int
  /\ Failing \subseteq AssetId /\ Removable \subseteq AssetId

VARIABLES
  backend,    \* METADATA_BACKEND
  readPc,     \* what the request does next
  ask,        \* what it was asked for
  cursor,     \* ExclusiveStartKey
  matches,    \* the identifiers found so far
  total,      \* the count of the list
  rows,       \* the rows of the page, newest first
  pictures,   \* table variants, as the request read it
  technical,  \* the metadata of the page of one image: read, absent or unreadable
  steady,     \* history: the matching documents there since the search began
  moved       \* history: the table assets changed since it was counted

readVars == <<readPc, ask, cursor, matches, total, rows, pictures, technical, steady, moved>>

libraryVars == <<dbVars, storeVars, backend, readVars>>

\* Nobody looks at the notices, the files and the links here, and the backend is
\* chosen once.
aside == <<notices, originals, derived, links, backend>>

Ask == [page : AskedPages, size : AskedSizes, technical : BOOLEAN]

NoAsk == [page |-> 1, size |-> 1, technical |-> FALSE]

Shown == [id : AssetId, status : Status]

ReadPc ==
  {"idle", "search", "count", "rows", "variants", "listed",
   "row", "rowVariants", "document", "detailed"}

ReadsTypeOK ==
  /\ DatabaseTypeOK /\ StoresTypeOK
  /\ backend \in {"mongo", "dynamodb"}
  /\ readPc \in ReadPc
  /\ ask \in Ask \cup {NoAsk}
  /\ cursor \in AssetId \cup {0}
  /\ matches \in Seq(AssetId) /\ rows \in Seq(Shown)
  /\ total \in Nat
  /\ pictures \in [AssetId -> SUBSET Kinds]
  /\ technical \in {"unread", "read", "absent", "unreadable"}
  /\ steady \subseteq AssetId /\ moved \in BOOLEAN

NothingRead ==
  /\ readPc = "idle" /\ ask = NoAsk
  /\ cursor = 0 /\ matches = <<>> /\ steady = {} /\ moved = FALSE
  /\ total = 0 /\ rows = <<>> /\ technical = "unread"
  /\ pictures = [a \in AssetId |-> {}]

ReadsInit ==
  /\ assets = [a \in AssetId |-> NoRow("ABSENT")]
  /\ variants = [a \in AssetId |-> {}] /\ documents = {}
  /\ notices = [a \in AssetId |-> [e \in EventKind |-> "none"]]
  /\ originals = [a \in AssetId |-> "none"] /\ derived = [a \in AssetId |-> {}]
  /\ links = {}
  /\ backend \in {"mongo", "dynamodb"}
  /\ NothingRead

Least(x, y) == IF x < y THEN x ELSE y

Most(x, y) == IF x > y THEN x ELSE y

\* ORDER BY created_at DESC.
Newest(S) ==
  CHOOSE s \in [1 .. Cardinality(S) -> S] : \A i, j \in DOMAIN s : i < j => s[i] > s[j]

InKeyOrder(S) == [i \in 1 .. Cardinality(S) |-> Newest(S)[Cardinality(S) + 1 - i]]

-----------------------------------------------------------------------------
(* list_assets. *)

Page == Most(1, ask.page)

PageSize == Most(1, Least(ask.size, MaxPageSize))

AskList ==
  /\ readPc = "idle"
  /\ ask' \in Ask
  /\ readPc' = IF ask'.technical THEN "search" ELSE "count"
  /\ steady' = IF ask'.technical THEN documents \cap Matching ELSE {}
  /\ UNCHANGED <<cursor, matches, total, rows, pictures, technical, moved>>

\* A page of the query reads some of the user's documents past the cursor, filters
\* them, and gives back a key to go on from unless it read the last one.  MongoDB's
\* cursor walks the collection in the same way, batch after batch.
Query(upTo, more) ==
  /\ upTo \in {d \in documents : d > cursor} \cup {cursor}
  /\ upTo = cursor => \A d \in documents : d <= cursor
  /\ ~more => \A d \in documents : d <= upTo

Found(upTo) == InKeyOrder({d \in documents \cap Matching : cursor < d /\ d <= upTo})

Cut(ids) == SubSeq(ids, 1, Least(Len(ids), MatchLimit))

\* Mutation: a page without matches is taken for the end.
SearchToEmptyPage ==
  /\ readPc = "search"
  /\ \E upTo \in documents \cup {cursor}, more \in BOOLEAN :
       /\ Query(upTo, more)
       /\ LET ids == matches \o Found(upTo) IN
          IF Len(ids) >= MatchLimit \/ ~more \/ Found(upTo) = <<>>
          THEN matches' = Cut(ids) /\ readPc' = "count" /\ cursor' = 0
          ELSE matches' = ids /\ cursor' = upTo /\ UNCHANGED readPc
  /\ UNCHANGED <<ask, total, rows, pictures, technical, steady, moved>>

\* search_asset_ids: one turn of the loop.
Search ==
  /\ readPc = "search"
  /\ \E upTo \in documents \cup {cursor}, more \in BOOLEAN :
       /\ Query(upTo, more)
       /\ LET ids == matches \o Found(upTo) IN
          IF Len(ids) >= MatchLimit \/ ~more
          THEN matches' = Cut(ids) /\ readPc' = "count" /\ cursor' = 0
          ELSE matches' = ids /\ cursor' = upTo /\ UNCHANGED readPc
  /\ UNCHANGED <<ask, total, rows, pictures, technical, steady, moved>>

Truncated == Len(matches) >= MatchLimit

\* Mutation: the condition on the identifiers is added only when there are any.
ListedIfAnyFound ==
  {a \in AssetId :
     /\ Exists(a) /\ assets[a].submitted # "no"
     /\ ask.technical /\ matches # <<>> => \E i \in DOMAIN matches : matches[i] = a}

\* The WHERE clause; the other filters are conditions on the row alike.
Listed ==
  {a \in AssetId :
     /\ Exists(a) /\ assets[a].submitted # "no"
     /\ ask.technical => \E i \in DOMAIN matches : matches[i] = a}

Count ==
  /\ readPc = "count" /\ readPc' = "rows"
  /\ total' = Cardinality(Listed)
  /\ moved' = FALSE /\ steady' = {}
  /\ UNCHANGED <<ask, cursor, matches, rows, pictures, technical>>

\* Mutation: OFFSET page * size.
OffsetFromZero(ids) ==
  SubSeq(ids, Page * PageSize + 1, Least(Page * PageSize + PageSize, Len(ids)))

\* LIMIT and OFFSET.
OnPage(ids) ==
  SubSeq(ids, (Page - 1) * PageSize + 1, Least(Page * PageSize, Len(ids)))

VariantsOf(shown) ==
  [a \in AssetId |-> IF \E i \in DOMAIN shown : shown[i].id = a THEN variants[a] ELSE {}]

ShownRows(ids) == [i \in DOMAIN ids |-> [id |-> ids[i], status |-> assets[ids[i]].status]]

ReadRows ==
  /\ readPc = "rows" /\ readPc' = "variants"
  /\ rows' = ShownRows(OnPage(Newest(Listed))) /\ matches' = <<>>
  /\ UNCHANGED <<ask, cursor, total, pictures, technical, steady, moved>>

\* _load_variants: of the rows of the page.
ReadVariants ==
  /\ readPc = "variants" /\ readPc' = "listed"
  /\ pictures' = VariantsOf(rows) /\ total' = 0 /\ moved' = FALSE
  /\ UNCHANGED <<ask, cursor, matches, rows, technical, steady>>

\* The search raises: 503, never a list without the condition.
SearchUnavailable ==
  /\ readPc = "search" /\ readPc' = "idle"
  /\ ask' = NoAsk /\ cursor' = 0 /\ matches' = <<>> /\ steady' = {}
  /\ UNCHANGED <<total, rows, pictures, technical, moved>>

PageCount == (total + PageSize - 1) \div PageSize

-----------------------------------------------------------------------------
(* get_asset. *)

AskDetail ==
  /\ readPc = "idle" /\ readPc' = "row"
  /\ UNCHANGED <<ask, cursor, matches, total, rows, pictures, technical, steady, moved>>

DetailRow(a) ==
  /\ readPc = "row"
  /\ IF Exists(a)
     THEN rows' = ShownRows(<<a>>) /\ readPc' = "rowVariants"
     ELSE UNCHANGED rows /\ readPc' = "idle"
  /\ UNCHANGED <<ask, cursor, matches, total, pictures, technical, steady, moved>>

DetailVariants ==
  /\ readPc = "rowVariants" /\ readPc' = "document"
  /\ pictures' = VariantsOf(rows)
  /\ UNCHANGED <<ask, cursor, matches, total, rows, technical, steady, moved>>

\* find_one answers from the collection; get_item, not asked for ConsistentRead, from a
\* copy that may not know the latest put or removal.
Answers(a) ==
  IF backend = "mongo" THEN {IF a \in documents THEN "read" ELSE "absent"}
  ELSE {"read", "absent"}

\* _technical_metadata: a failure of the document store costs this field only.
DetailDocument ==
  /\ readPc = "document" /\ readPc' = "detailed"
  /\ technical' \in Answers(rows[1].id) \cup {"unreadable"}
  /\ UNCHANGED <<ask, cursor, matches, total, rows, pictures, steady, moved>>

Answered ==
  /\ readPc \in {"listed", "detailed"} /\ readPc' = "idle"
  /\ ask' = NoAsk /\ matches' = <<>> /\ steady' = {} /\ moved' = FALSE
  /\ total' = 0 /\ rows' = <<>> /\ technical' = "unread"
  /\ pictures' = [a \in AssetId |-> {}]
  /\ UNCHANGED cursor

-----------------------------------------------------------------------------
(* The writers. *)

\* /assets, in the order of the identifiers.
Registers(a) ==
  /\ \A b \in AssetId : b < a => assets[b].status # "ABSENT"
  /\ InsertAsset(a) /\ UNCHANGED <<variants, documents>>

Submits(a) == Submittable(a) /\ SetSubmitted(a) /\ UNCHANGED <<variants, documents>>

\* A worker writes the document of an image it has taken, which may be deleted since;
\* the index learns of it then or later.
Describes(a) ==
  /\ assets[a].status = "DELETED" \/ assets[a].submitted # "no"
  /\ a \notin documents
  /\ PutDocument(a) /\ UNCHANGED <<assets, variants>>

\* The document comes before the last transaction; the index need not have it by then.
Described(a) ==
  IF backend = "mongo" THEN a \in documents ELSE assets[a].submitted # "no"

\* Mutation: the status is written in a transaction of its own, before the variants.
FinishesStatusFirst(a) ==
  /\ Described(a)
  /\ \/ SetDone(a) /\ UNCHANGED <<variants, documents>>
     \/ assets[a].status = "DONE" /\ SaveVariants(a) /\ UNCHANGED <<assets, documents>>

\* The worker's last transaction, whatever has become of the row since its claim.
Finishes(a) ==
  /\ Described(a)
  /\ SetDone(a) /\ SaveVariants(a) /\ UNCHANGED documents

\* mark_failed, or complete_upload of a file too large: any status is overwritten.
Fails(a) ==
  /\ a \in Failing /\ Exists(a)
  /\ SetFailed(a) /\ UNCHANGED <<variants, documents>>

\* retry_asset.
Retries(a) == Retryable(a) /\ SetResubmitted(a) /\ UNCHANGED <<variants, documents>>

Removes(a) ==
  /\ a \in Removable /\ Exists(a)
  /\ assets' = [assets EXCEPT ![a] = NoRow("DELETED")]
  /\ variants' = [variants EXCEPT ![a] = {}]
  /\ UNCHANGED documents

Forgets(a) ==
  /\ assets[a].status = "DELETED" /\ a \in documents
  /\ RemoveDocument(a) /\ UNCHANGED <<assets, variants>>

Write(a) ==
  /\ \/ Registers(a) \/ Submits(a) \/ Describes(a) \/ Finishes(a)
     \/ Fails(a) \/ Retries(a) \/ Removes(a) \/ Forgets(a)
  /\ steady' = IF readPc = "search" THEN steady \cap documents' ELSE steady
  /\ moved' = (moved \/ (readPc = "rows" /\ assets' # assets))
  /\ UNCHANGED <<readPc, ask, cursor, matches, total, rows, pictures, technical>>

-----------------------------------------------------------------------------

Read ==
  \/ AskList \/ Search \/ SearchUnavailable \/ Count \/ ReadRows \/ ReadVariants
  \/ AskDetail \/ (\E a \in AssetId : DetailRow(a)) \/ DetailVariants \/ DetailDocument
  \/ Answered

ReadsNext ==
  /\ UNCHANGED aside
  /\ \/ Read /\ UNCHANGED <<assets, variants, documents>>
     \/ \E a \in AssetId : Write(a)

ReadsSpec == ReadsInit /\ [][ReadsNext]_libraryVars

-----------------------------------------------------------------------------

\* A search that is not reported truncated found every match that was there all
\* along, whatever was written and deleted between its pages and however the pages
\* fell ("gli elementi letti, non quelli che combaciano": metadata_dynamo.py).  There
\* means in the collection on MongoDB and in the index by_user on DynamoDB, which is
\* only eventually consistent: a document that has not reached it is not promised.
SearchFindsAll ==
  readPc = "count" /\ ask.technical /\ ~Truncated
    => \A a \in steady : \E i \in DOMAIN matches : matches[i] = a

\* Only what matches is listed, once, and no more than a page of it: no match means
\* an empty list and not the whole library (routes.py, list_assets).
ListsOnlyMatches ==
  readPc = "listed" =>
    /\ Len(rows) <= PageSize
    /\ \A i, j \in DOMAIN rows : rows[i].id = rows[j].id => i = j
    /\ ask.technical => \A i \in DOMAIN rows : rows[i].id \in Matching

\* total, pages and items agree when nothing was written between the two statements:
\* every page up to the last is full, the last holds the rest, and past it there is
\* nothing (routes.py, list_assets; library.ts walks back to the last page by them).
PagesAddUp ==
  readPc = "variants" /\ ~moved =>
    Len(rows) = CASE Page < PageCount -> PageSize
                  [] Page = PageCount -> total - (PageCount - 1) * PageSize
                  [] OTHER            -> 0

\* An image shown as DONE is shown whole: its row is read before its variants, so none
\* can be missing unless the image was deleted meanwhile, whatever workers and retries
\* do to the row.  Its document, read last, is missing only where get_item may answer
\* from a copy that lags (routes.py, list_assets and get_asset; metadata_dynamo.py:89).
ShownDoneIsWhole ==
  \A i \in DOMAIN rows :
    /\ readPc \in {"listed", "detailed"}
    /\ rows[i].status = "DONE" /\ Exists(rows[i].id)
    => /\ pictures[rows[i].id] = Kinds
       /\ technical = "absent" => backend = "dynamodb"

=============================================================================
