---------------------------- MODULE ArchiveStore ----------------------------
(***************************************************************************)
(* The state one archive document has in the stores of the service, and    *)
(* the requests that work on it.  The document is spread over a PostgreSQL *)
(* database (documentStatus, archive, draft, operations), a directory      *)
(* (files) and a Chroma collection (vectors); only the first has           *)
(* transactions.  A request is one HTTP handler running in a thread of the *)
(* server.  A step of a request is one database transaction, or one call   *)
(* to a file, a model or Chroma: between two steps every other request may *)
(* run.                                                                    *)
(***************************************************************************)
EXTENDS Integers, FiniteSets

CONSTANTS
    Requests,     \* handler threads of the server
    Fields,       \* the review fields of the draft (ArchiveFieldName)
    Operations,   \* the operations clients call in this instance
    MaxVersion,   \* bound: no call but DELETE once the version reached it
    MaxFaults     \* bound: crashes and unrecorded failures

DocumentStatus == {"UPLOADED", "DELETING", "DELETE_FAILED", "GONE"}

ArchiveDocumentStatus ==
    {"UPLOADED", "PARSED", "PENDING_CONFIRMATION", "CONFIRMED",
     "PENDING_RECONFIRMATION", "PARSE_FAILED", "SUGGESTION_FAILED"}

ArchiveOperationStatus == {"NONE", "RUNNING", "SUCCEEDED", "FAILED"}

\* The operations whose request carries the version the client last read.
VersionedOperations == {"REGENERATE", "UPDATE", "CONFIRM", "CANCEL"}

AllOperations ==
    VersionedOperations \union
    {"PARSE", "RETRY_PARSE", "MANUAL_DRAFT", "SUGGEST", "RETRY_SUGGEST", "DELETE"}

ASSUME OperationsAssumption == Operations \subseteq AllOperations
ASSUME BoundsAssumption == MaxVersion \in Nat /\ MaxFaults \in Nat

VARIABLES
    documentStatus,  \* documents.status, "GONE" once the row is deleted
    archive,         \* the archive_documents row
    draft,           \* the field values; revision: the version that wrote them
    operations,      \* status of the latest INDEX and of the DELETE operation
    files,           \* which of the two files of the document exist
    vectors,         \* revision embedded in the collection, 0: no chunk
    req,             \* what each request does and holds in local variables
    approved,        \* history: the draft revision last confirmed
    deletions,       \* history: DOCUMENT_DELETED audit rows
    faults           \* crashes and unrecorded failures so far

database == <<documentStatus, archive, draft, operations>>
external == <<files, vectors>>
history  == <<approved, deletions, faults>>
vars     == <<documentStatus, archive, draft, operations, files, vectors,
              req, approved, deletions, faults>>

-----------------------------------------------------------------------------

ArchiveDocument ==
    [status : ArchiveDocumentStatus, version : Nat, snapshot : BOOLEAN, indexed : BOOLEAN]

Draft == [revision : Nat, unchecked : SUBSET Fields, edited : BOOLEAN]

NoDraft == [revision |-> 0, unchecked |-> {}, edited |-> FALSE]

ParseSteps  == {"parse", "commitSnapshot"}
IndexSteps  == {"buildIndex", "upsertIndex", "recordIndex"}
DeleteSteps == {"deleteVectors", "deleteOriginal", "deleteSnapshot", "deleteRows"}
Steps ==
    ParseSteps \union IndexSteps \union DeleteSteps \union
    {"idle", "start", "callModel", "recordFailure", "regenerate", "writeField",
     "refresh", "beginIndex", "cleanup"}

\* seen: the copy of the archive row in the request's ORM session;
\* built: the draft revision whose values it embedded.
Request ==
    [op : AllOperations \union {"NONE"}, at : Steps, expected : Nat,
     seen : ArchiveDocument, built : Nat]

NoCopy == [status |-> "UPLOADED", version |-> 0, snapshot |-> FALSE, indexed |-> FALSE]

Idle == [op |-> "NONE", at |-> "idle", expected |-> 0, seen |-> NoCopy, built |-> 0]

-----------------------------------------------------------------------------

Exists == documentStatus # "GONE"

DraftExists == draft.revision > 0

\* The partial unique index lets one RUNNING operation per document exist.
RunningOperation == "RUNNING" \in {operations.index, operations.delete}

\* Faulty variant: a failed deletion makes the document visible again.
FaultyVisibilityBlocked == operations.delete = "RUNNING"

VisibilityBlocked == operations.delete \in {"RUNNING", "FAILED"}

\* What the catalogue lists and retrieval may search.
FormallyVisible == Exists /\ archive.status = "CONFIRMED" /\ ~VisibilityBlocked

\* A suggestion request keeps SELECT ... FOR UPDATE on the row while the
\* model answers; whoever locks or writes the row waits for it.
RowUnlocked == \A r \in Requests : req[r].at # "callModel"

Starts(r, op) == req[r].at = "start" /\ req[r].op = op

ExpectedVersion(r) == archive.version = req[r].expected

Goto(r, step) == req' = [req EXCEPT ![r].at = step]

\* The response is sent: an answer, or an error that leaves no trace.
Return(r) == req' = [req EXCEPT ![r] = Idle]

\* Every new set of field values is unreviewed and of the next version.
ReplaceDraft ==
    /\ draft' = [revision |-> archive.version + 1, unchecked |-> Fields, edited |-> FALSE]
    /\ archive' = [archive EXCEPT !.status = "PENDING_CONFIRMATION", !.version = @ + 1]
=============================================================================
