------------------------------- MODULE Stores -------------------------------
(***************************************************************************)
(* The object store (buckets originals and derived), the document store    *)
(* with the technical metadata, and the signed upload links.  External:    *)
(* MinIO or S3, MongoDB or DynamoDB.  Keys are deterministic, so an object *)
(* is known by its image and its kind, and writing one twice is idempotent.*)
(***************************************************************************)
EXTENDS Database

VARIABLES
  originals,   \* what the originals bucket holds for an image
  derived,     \* the kinds of variant the derived bucket holds for an image
  documents,   \* the images with a metadata document
  links        \* the images whose signed upload link works

storeVars == <<originals, derived, documents, links>>

\* A file the worker can process, one it cannot read, one over the size limit.
Content == {"valid", "corrupt", "huge"}

StoresTypeOK ==
  /\ originals \in [AssetId -> Content \cup {"none"}]
  /\ derived \in [AssetId -> SUBSET Kinds]
  /\ documents \subseteq AssetId
  /\ links \subseteq AssetId

PutDerived(a, k) == derived' = [derived EXCEPT ![a] = @ \cup {k}]

RemoveDerived(a, k) == derived' = [derived EXCEPT ![a] = @ \ {k}]

RemoveOriginal(a) == originals' = [originals EXCEPT ![a] = "none"]

PutDocument(a) == documents' = documents \cup {a}

RemoveDocument(a) == documents' = documents \ {a}

=============================================================================
