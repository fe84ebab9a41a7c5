---------------------------- MODULE LegacyDocuments ----------------------------
(***************************************************************************)
(* A document of a knowledge base outside the archive: upload, processing  *)
(* into Chroma and deletion.  Unlike the archive, these handlers take no   *)
(* lock and no operation: each reads the status once and writes it without *)
(* a condition, except that SQLAlchemy leaves out of an UPDATE what the    *)
(* copy it loaded already says.                                            *)
(***************************************************************************)
EXTENDS Naturals

CONSTANTS
    Workers,    \* concurrent requests that work on the document
    MaxFaults   \* bound on crashes of the server

ASSUME LegacyAssumption == MaxFaults \in Nat

VARIABLES
    status,      \* documents.status; "NONE" before the upload, "GONE" after the deletion
    file,        \* whether the original is stored
    vectors,     \* whether Chroma has chunks of the document
    work,        \* what each request does, its next step, the status it loaded
    overlapped,  \* history: processing or deletion began during the processing or
                 \* deletion of another request, for a reason BeginsAmongOthers gives
    undeclared,  \* history: the processing or deletion that began last left another
                 \* status in the row than its own
    faults       \* crashes so far

documentVars == <<status, file, vectors, work, overlapped, undeclared, faults>>

Rows == {"UPLOADED", "PROCESSING", "READY", "FAILED", "DELETING", "DELETE_FAILED"}

Idle == [op |-> "NONE", at |-> "idle", seen |-> "NONE"]

DocumentInit ==
    /\ status = "NONE" /\ file = FALSE /\ vectors = FALSE
    /\ work = [w \in Workers |-> Idle]
    /\ overlapped = FALSE /\ undeclared = FALSE /\ faults = 0

Exists == status \in Rows

At(w, op, step) == work[w].op = op /\ work[w].at = step

Go(w, step) == work' = [work EXCEPT ![w].at = step]

Return(w) == work' = [work EXCEPT ![w] = Idle]

\* The request has committed its first status and works on the stores.
Working(w) == work[w].at \in {"clear", "parse", "insert", "finish", "file", "fail"}

\* The request found no reason to refuse: either the status has changed since
\* it was loaded, or it processes a document another request deletes, which
\* nothing refuses.
BeginsAmongOthers(w) ==
    \E v \in Workers \ {w} :
        /\ Working(v) /\ "PROCESS" \in {work[v].op, work[w].op}
        /\ work[w].seen # status \/ work[v].op = "DELETE"

\* The first commit of a request: a status the copy loaded already had is not
\* written.  The refresh after it is the same step.
Begin(w, newStatus) ==
    /\ status' = IF work[w].seen = newStatus THEN status ELSE newStatus
    /\ undeclared' = (status' # newStatus)
    /\ work' = [work EXCEPT ![w].at = "clear", ![w].seen = "NONE"]
    /\ overlapped' = (overlapped \/ BeginsAmongOthers(w))
    /\ UNCHANGED <<file, vectors, faults>>

-----------------------------------------------------------------------------
\* create_uploaded_document: the file first, then the row.

UploadFile(w) ==
    /\ work[w] = Idle
    /\ status = "NONE" /\ ~file
    /\ file' = TRUE
    /\ work' = [work EXCEPT ![w] = [Idle EXCEPT !.op = "UPLOAD", !.at = "begin"]]
    /\ UNCHANGED <<status, vectors, overlapped, undeclared, faults>>

UploadCommit(w) ==
    /\ At(w, "UPLOAD", "begin")
    /\ status' = "UPLOADED"
    /\ Return(w)
    /\ UNCHANGED <<file, vectors, overlapped, undeclared, faults>>

\* The row cannot be stored; removing the file is only tried.
UploadFails(w) ==
    /\ At(w, "UPLOAD", "begin")
    /\ file' \in BOOLEAN
    /\ Return(w)
    /\ UNCHANGED <<status, vectors, overlapped, undeclared, faults>>

-----------------------------------------------------------------------------
\* The check of process_document and delete_document on the row they loaded.
MayBegin == Exists /\ status # "PROCESSING"

Load(w, op) ==
    /\ work[w] = Idle /\ op \in {"PROCESS", "DELETE"}
    /\ MayBegin
    /\ work' = [work EXCEPT ![w] = [op |-> op, at |-> "begin", seen |-> status]]
    /\ UNCHANGED <<status, file, vectors, overlapped, undeclared, faults>>

\* The row is gone by the time of the first UPDATE: 500, nothing written.
BeginFails(w) ==
    /\ At(w, "PROCESS", "begin") \/ At(w, "DELETE", "begin")
    /\ ~Exists
    /\ Return(w)
    /\ UNCHANGED <<status, file, vectors, overlapped, undeclared, faults>>

ProcessBegin(w) == At(w, "PROCESS", "begin") /\ Exists /\ Begin(w, "PROCESSING")

\* delete_document_chunks
ClearChunks(w, next) ==
    /\ vectors' = FALSE
    /\ Go(w, next)
    /\ UNCHANGED <<status, file, overlapped, undeclared, faults>>

ProcessClear(w) == At(w, "PROCESS", "clear") /\ ClearChunks(w, "parse")

\* parse_document, split_pages and embed_chunks, which need the file.
ProcessParse(w) ==
    /\ At(w, "PROCESS", "parse") /\ file
    /\ Go(w, "insert")
    /\ UNCHANGED <<status, file, vectors, overlapped, undeclared, faults>>

\* Faulty variant: a document without chunks is taken for a processed one.
FaultyProcessInsert(w) ==
    /\ At(w, "PROCESS", "insert")
    /\ vectors' \in {vectors, TRUE}
    /\ Go(w, "finish")
    /\ UNCHANGED <<status, file, overlapped, undeclared, faults>>

ProcessInsert(w) ==
    /\ At(w, "PROCESS", "insert")
    /\ vectors' = TRUE
    /\ Go(w, "finish")
    /\ UNCHANGED <<status, file, overlapped, undeclared, faults>>

ProcessFinish(w) ==
    /\ At(w, "PROCESS", "finish") /\ Exists
    /\ status' = "READY"
    /\ Return(w)
    /\ UNCHANGED <<file, vectors, overlapped, undeclared, faults>>

\* A step fails; a call to Chroma may have taken effect all the same.  The
\* last one fails only when the row is gone.
ProcessFails(w) ==
    /\ work[w].op = "PROCESS" /\ work[w].at \in {"clear", "parse", "insert", "finish"}
    /\ work[w].at = "finish" => ~Exists
    /\ vectors' \in {vectors} \union (IF work[w].at = "clear" THEN {FALSE} ELSE {})
                              \union (IF work[w].at = "insert" THEN {TRUE} ELSE {})
    /\ Go(w, "fail")
    /\ UNCHANGED <<status, file, overlapped, undeclared, faults>>

\* FAILED is written whatever the status is by now; nothing if the row is gone.
ProcessRecordFailure(w) ==
    /\ At(w, "PROCESS", "fail")
    /\ status' = IF Exists THEN "FAILED" ELSE status
    /\ Return(w)
    /\ UNCHANGED <<file, vectors, overlapped, undeclared, faults>>

-----------------------------------------------------------------------------
\* delete_document

DeleteBegin(w) == At(w, "DELETE", "begin") /\ Exists /\ Begin(w, "DELETING")

\* Faulty variant: a deletion goes on when Chroma could not be reached.
FaultyDeleteChunks(w) ==
    /\ At(w, "DELETE", "clear")
    /\ vectors' \in {vectors, FALSE}
    /\ Go(w, "file")
    /\ UNCHANGED <<status, file, overlapped, undeclared, faults>>

DeleteChunks(w) == At(w, "DELETE", "clear") /\ ClearChunks(w, "file")

DeleteFile(w) ==
    /\ At(w, "DELETE", "file")
    /\ file' = FALSE
    /\ Go(w, "finish")
    /\ UNCHANGED <<status, vectors, overlapped, undeclared, faults>>

\* A DELETE that finds no row only warns.
DeleteRow(w) ==
    /\ At(w, "DELETE", "finish")
    /\ status' = "GONE"
    /\ Return(w)
    /\ UNCHANGED <<file, vectors, overlapped, undeclared, faults>>

DeleteFails(w) ==
    /\ work[w].op = "DELETE" /\ work[w].at \in {"clear", "file"}
    /\ vectors' \in {vectors} \union (IF work[w].at = "clear" THEN {FALSE} ELSE {})
    /\ file' \in {file} \union (IF work[w].at = "file" THEN {FALSE} ELSE {})
    /\ Go(w, "fail")
    /\ UNCHANGED <<status, overlapped, undeclared, faults>>

\* _mark_document_delete_failed reads the row again, and may fail to store it.
DeleteRecordFailure(w) ==
    /\ At(w, "DELETE", "fail")
    /\ status' \in {status} \union (IF Exists THEN {"DELETE_FAILED"} ELSE {})
    /\ Return(w)
    /\ UNCHANGED <<file, vectors, overlapped, undeclared, faults>>

\* The server dies; nothing is repaired when it starts again.
Crash ==
    /\ faults < MaxFaults
    /\ \E w \in Workers : work[w] # Idle
    /\ work' = [w \in Workers |-> Idle]
    /\ faults' = faults + 1
    /\ UNCHANGED <<status, file, vectors, overlapped, undeclared>>

WorkStep(w) ==
    \/ UploadFile(w) \/ UploadCommit(w) \/ UploadFails(w)
    \/ \E op \in {"PROCESS", "DELETE"} : Load(w, op)
    \/ BeginFails(w) \/ ProcessBegin(w) \/ ProcessClear(w) \/ ProcessParse(w)
    \/ ProcessInsert(w) \/ ProcessFinish(w) \/ ProcessFails(w) \/ ProcessRecordFailure(w)
    \/ DeleteBegin(w) \/ DeleteChunks(w) \/ DeleteFile(w) \/ DeleteRow(w) \/ DeleteFails(w)
    \/ DeleteRecordFailure(w)

DocumentNext == (\E w \in Workers : WorkStep(w)) \/ Crash

DocumentSpec == DocumentInit /\ [][DocumentNext]_documentVars

-----------------------------------------------------------------------------

DocumentTypeOK ==
    /\ status \in Rows \union {"NONE", "GONE"}
    /\ file \in BOOLEAN /\ vectors \in BOOLEAN /\ overlapped \in BOOLEAN
    /\ undeclared \in BOOLEAN
    /\ work \in [Workers -> [op : {"NONE", "UPLOAD", "PROCESS", "DELETE"},
                             at : {"idle", "begin", "clear", "parse", "insert", "finish",
                                   "file", "fail"},
                             seen : Rows \union {"NONE"}]]
    /\ faults \in 0 .. MaxFaults

\* A document reported READY can be searched and its original read, through
\* failures, retries and crashes, unless work on it overlapped, or a deletion
\* that loaded a row left in DELETING found it processed meanwhile and said
\* nothing of itself (the comments in process_document and delete_document).
ReadyMeansSearchable ==
    status = "READY" /\ ~overlapped => (vectors /\ file) \/ undeclared

\* When a document is gone, neither its original nor, unless work on it
\* overlapped, its chunks are left (delete_document removes them first).
DeletedLeavesNothing == status = "GONE" => ~file /\ (vectors => overlapped)

\* Where a request can be, and what its steps so far left in the stores.
RequestHolds(w) ==
    /\ work[w].op = "NONE" <=> work[w].at = "idle"
    /\ At(w, "PROCESS", "begin") \/ At(w, "DELETE", "begin") => work[w].seen # "PROCESSING"
    /\ work[w].op = "UPLOAD" => work[w].at = "begin" /\ status = "NONE" /\ file
    /\ work[w].op \in {"PROCESS", "DELETE"} => status # "NONE"
    /\ At(w, "DELETE", "begin") /\ work[w].seen = "DELETING" => status # "UPLOADED"
    /\ Working(w) => status # "UPLOADED"
    /\ work[w].op = "DELETE" => work[w].at \notin {"parse", "insert"}
    /\ work[w].op = "PROCESS" => work[w].at # "file"
    /\ At(w, "DELETE", "finish") => ~file

\* What they left there if no work overlapped.
UndisturbedHolds(w) ==
    /\ Working(w) /\ work[w].op = "PROCESS" => status = "PROCESSING"
    /\ Working(w) /\ work[w].op = "DELETE" =>
         status \in {"DELETING", "DELETE_FAILED", "GONE"} \/ undeclared
    /\ work[w].op = "PROCESS" /\ work[w].at \in {"insert", "finish"} => file
    /\ At(w, "PROCESS", "finish") => vectors
    /\ work[w].op = "DELETE" /\ work[w].at \in {"file", "finish"} => ~vectors

OneUpload == \A v, w \in Workers : work[v].op = "UPLOAD" /\ work[w].op = "UPLOAD" => v = w

ProcessingIsAlone ==
    \A v, w \in Workers : Working(v) /\ Working(w) /\ work[v].op = "PROCESS" => v = w

StoresMatchStatus ==
    /\ status = "NONE" => ~vectors
    /\ status = "UPLOADED" => file
    /\ ReadyMeansSearchable
    /\ DeletedLeavesNothing

\* What keeps the two invariants: work that does not overlap is alone with the
\* stores, each step leaves there what the later ones need, and a deletion at
\* work shows in the status unless the work that began last is undeclared.
LegacyInvariant ==
    /\ DocumentTypeOK
    /\ \A w \in Workers : RequestHolds(w)
    /\ OneUpload
    /\ ~overlapped => ProcessingIsAlone /\ \A w \in Workers : UndisturbedHolds(w)
    /\ StoresMatchStatus
=============================================================================
