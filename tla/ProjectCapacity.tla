---------------------------- MODULE ProjectCapacity ----------------------------
(***************************************************************************)
(* One project: the row with its document count and version, the documents *)
(* uploaded to it, and the requests that write them.  Uploads are          *)
(* coroutines of the one event loop of the server and call the database    *)
(* synchronously: while a coroutine waits for a row lock, no other         *)
(* coroutine runs.  The other handlers run in threads.                     *)
(***************************************************************************)
EXTENDS Integers, FiniteSets

CONSTANTS
    Uploads,           \* upload requests
    Threads,           \* handler threads
    ThreadOperations,  \* the operations the threads run in this instance
    Contents,          \* contents of files; their hash identifies a document
    Spooled,           \* contents so large that the upload is a file on disk
    Capacity,          \* documents a project may have (100)
    MaxVersion,        \* bound: no write of the version from this one on
    Nobody

AllThreadOperations ==
    {"DELETE_DOCUMENT", "UPDATE_PROJECT", "DELETE_PROJECT", "CREATE_ITEM"}

ASSUME CapacityAssumption ==
    /\ ThreadOperations \subseteq AllThreadOperations
    /\ Spooled \subseteq Contents
    /\ Capacity \in Nat \ {0}
    /\ MaxVersion \in Nat
    /\ Nobody \notin Uploads \union Contents

VARIABLES
    project,      \* the row: exists, active_document_count, version
    documents,    \* the contents of the documents rows of the project
    projectLock,  \* the upload that holds SELECT ... FOR UPDATE on the row
    loop,         \* the coroutine that occupies the event loop
    upload,       \* what each upload does, and the count it read
    thread,       \* what each thread does, on which document, and what it read
    staleCount,   \* history: a deletion wrote a count it had read too early
    creations     \* history: the versions that admitted a checklist item, one of
                  \* them twice, and a project update that wrote an old version

vars == <<project, documents, projectLock, loop, upload, thread, staleCount, creations>>

NoUpload == [at |-> "idle", content |-> Nobody, seen |-> 0]
NoWork   == [at |-> "idle", document |-> Nobody, seen |-> 0]

Init ==
    /\ project = [exists |-> TRUE, count |-> 0, version |-> 1]
    /\ documents = {}
    /\ projectLock = Nobody /\ loop = Nobody
    /\ upload = [u \in Uploads |-> NoUpload]
    /\ thread = [t \in Threads |-> NoWork]
    /\ staleCount = FALSE
    /\ creations = [versions |-> {}, twice |-> FALSE, stale |-> FALSE]

ProjectUnlocked == projectLock = Nobody

\* A coroutine goes on when the loop is free, or has not left the loop.
LoopFor(u) == loop \in {Nobody, u}

-----------------------------------------------------------------------------

\* get_project_context found the project; the stream is read and hashed.
UploadCall(u, c) ==
    /\ upload[u].at = "idle"
    /\ project.exists
    /\ upload' = [upload EXCEPT ![u] = [NoUpload EXCEPT !.at = "hash", !.content = c]]
    /\ UNCHANGED <<project, documents, projectLock, loop, thread, staleCount, creations>>

\* session.exec(... with_for_update()) is called on the event loop.
UploadAsksLock(u) ==
    /\ upload[u].at = "hash"
    /\ LoopFor(u)
    /\ loop' = u
    /\ upload' = [upload EXCEPT ![u].at = "lock"]
    /\ UNCHANGED <<project, documents, projectLock, thread, staleCount, creations>>

MayStore(c) == project.exists /\ project.count < Capacity /\ c \notin documents

\* Faulty variant: the row is read without FOR UPDATE.
FaultyUploadLocks(u) ==
    /\ upload[u].at = "lock"
    /\ MayStore(upload[u].content)
    /\ projectLock' = u
    /\ upload' = [upload EXCEPT ![u].at = "save", ![u].seen = project.count]
    /\ loop' = IF upload[u].content \in Spooled THEN Nobody ELSE u
    /\ UNCHANGED <<project, documents, thread, staleCount, creations>>

\* The lock is granted and the checks pass.  Reading a spooled upload awaits a
\* worker thread and leaves the loop with the row locked; a small upload is
\* saved without leaving it.
UploadLocks(u) ==
    /\ upload[u].at = "lock"
    /\ ProjectUnlocked
    /\ MayStore(upload[u].content)
    /\ projectLock' = u
    /\ upload' = [upload EXCEPT ![u].at = "save", ![u].seen = project.count]
    /\ loop' = IF upload[u].content \in Spooled THEN Nobody ELSE u
    /\ UNCHANGED <<project, documents, thread, staleCount, creations>>

\* The checks fail.  The transaction lasts until the session dependency is
\* left, which awaits a worker thread.
UploadRefused(u) ==
    /\ upload[u].at = "lock"
    /\ ProjectUnlocked
    /\ ~MayStore(upload[u].content)
    /\ projectLock' = IF project.exists THEN u ELSE Nobody
    /\ upload' = [upload EXCEPT ![u].at = "unwind"]
    /\ loop' = Nobody
    /\ UNCHANGED <<project, documents, thread, staleCount, creations>>

\* Rows and count in one transaction; the count was read under the lock.
UploadCommit(u) ==
    /\ upload[u].at = "save"
    /\ LoopFor(u)
    /\ documents' = documents \union {upload[u].content}
    /\ project' = [project EXCEPT !.count = upload[u].seen + 1]
    /\ projectLock' = Nobody /\ loop' = Nobody
    /\ upload' = [upload EXCEPT ![u] = NoUpload]
    /\ UNCHANGED <<thread, staleCount, creations>>

\* Saving the file failed: the transaction is left to the session dependency.
UploadFails(u) ==
    /\ upload[u].at = "save"
    /\ LoopFor(u)
    /\ upload' = [upload EXCEPT ![u].at = "unwind"]
    /\ loop' = Nobody
    /\ UNCHANGED <<project, documents, projectLock, thread, staleCount, creations>>

UploadUnwinds(u) ==
    /\ upload[u].at = "unwind"
    /\ LoopFor(u)
    /\ projectLock' = IF projectLock = u THEN Nobody ELSE projectLock
    /\ upload' = [upload EXCEPT ![u] = NoUpload]
    /\ UNCHANGED <<project, documents, loop, thread, staleCount, creations>>

UploadStep(u) ==
    \/ UploadAsksLock(u) \/ UploadLocks(u) \/ UploadRefused(u)
    \/ UploadCommit(u) \/ UploadFails(u) \/ UploadUnwinds(u)

-----------------------------------------------------------------------------

MoveThread(t, work) == thread' = [thread EXCEPT ![t] = work]

\* Faulty variant: a deletion that runs does not refuse another one.
FaultyDeleteStart(t, d) ==
    /\ thread[t].at = "idle"
    /\ d \in documents
    /\ MoveThread(t, [at |-> "deleteStores", document |-> d, seen |-> 0])
    /\ UNCHANGED <<project, documents, projectLock, loop, upload, staleCount, creations>>

\* The DELETE operation is persisted; one at a time for a document.
DeleteStart(t, d) ==
    /\ thread[t].at = "idle"
    /\ d \in documents
    /\ \A s \in Threads : thread[s].document # d
    /\ MoveThread(t, [at |-> "deleteStores", document |-> d, seen |-> 0])
    /\ UNCHANGED <<project, documents, projectLock, loop, upload, staleCount, creations>>

\* Chunks and files are gone; the last transaction loads the project row, and
\* takes no lock on it.
DeleteReadCount(t) ==
    /\ thread[t].at = "deleteStores"
    /\ MoveThread(t, [thread[t] EXCEPT !.at = "deleteRows", !.seen = project.count])
    /\ UNCHANGED <<project, documents, projectLock, loop, upload, staleCount, creations>>

\* Faulty variant: a deletion that finds the count at zero writes minus one.
FaultyCountAfterDelete(seen) == seen - 1

\* max(0, seen - 1); an unchanged attribute is not written.
CountAfterDelete(seen) == IF seen = 0 THEN project.count ELSE seen - 1

DeleteCommit(t) ==
    /\ thread[t].at = "deleteRows"
    /\ ProjectUnlocked
    /\ documents' = documents \ {thread[t].document}
    /\ project' = [project EXCEPT !.count = CountAfterDelete(thread[t].seen)]
    /\ staleCount' = (staleCount \/ thread[t].seen # project.count)
    /\ MoveThread(t, NoWork)
    /\ UNCHANGED <<projectLock, loop, upload, creations>>

\* A store failed: the document stays, with a failed operation.
DeleteFails(t) ==
    /\ thread[t].at \in {"deleteStores", "deleteRows"}
    /\ MoveThread(t, NoWork)
    /\ UNCHANGED <<project, documents, projectLock, loop, upload, staleCount, creations>>

\* The version the client sent is the one in the row, which is not locked.
UpdateStart(t) ==
    /\ thread[t].at = "idle"
    /\ project.exists /\ project.version < MaxVersion
    /\ MoveThread(t, [NoWork EXCEPT !.at = "updateProject", !.seen = project.version])
    /\ UNCHANGED <<project, documents, projectLock, loop, upload, staleCount, creations>>

UpdateCommit(t) ==
    /\ thread[t].at = "updateProject"
    /\ ProjectUnlocked
    /\ project.exists
    /\ project' = [project EXCEPT !.version = thread[t].seen + 1]
    /\ creations' = [creations EXCEPT !.stale = @ \/ thread[t].seen # project.version]
    /\ MoveThread(t, NoWork)
    /\ UNCHANGED <<documents, projectLock, loop, upload, staleCount>>

\* The client has read a page of the project and sends its version with a new
\* checklist item.
CreateItemPage(t) ==
    /\ thread[t].at = "idle"
    /\ project.exists /\ project.version < MaxVersion
    /\ MoveThread(t, [NoWork EXCEPT !.at = "createItem", !.seen = project.version])
    /\ UNCHANGED <<project, documents, projectLock, loop, upload, staleCount, creations>>

\* Faulty variant: the version is incremented without the condition.
FaultyProjectAsExpected(version) == project.exists

ProjectAsExpected(version) == project.exists /\ project.version = version

\* UPDATE ... WHERE version = expected, the item and the audit row.
CreateItemCommit(t) ==
    /\ thread[t].at = "createItem"
    /\ ProjectUnlocked
    /\ ProjectAsExpected(thread[t].seen)
    /\ project' = [project EXCEPT !.version = @ + 1]
    /\ creations' = [creations EXCEPT
                       !.versions = @ \union {thread[t].seen},
                       !.twice = @ \/ thread[t].seen \in creations.versions]
    /\ MoveThread(t, NoWork)
    /\ UNCHANGED <<documents, projectLock, loop, upload, staleCount>>

CreateItemRefused(t) ==
    /\ thread[t].at = "createItem"
    /\ ProjectUnlocked
    /\ ~ProjectAsExpected(thread[t].seen)
    /\ MoveThread(t, NoWork)
    /\ UNCHANGED <<project, documents, projectLock, loop, upload, staleCount, creations>>

ProjectDeleteStart(t) ==
    /\ thread[t].at = "idle"
    /\ project.exists /\ documents = {}
    /\ MoveThread(t, [NoWork EXCEPT !.at = "deleteProject"])
    /\ UNCHANGED <<project, documents, projectLock, loop, upload, staleCount, creations>>

\* Faulty variant: no foreign key from the documents to the project.
FaultyProjectDeleteCommit(t) ==
    /\ thread[t].at = "deleteProject"
    /\ ProjectUnlocked
    /\ project' = [project EXCEPT !.exists = FALSE]
    /\ MoveThread(t, NoWork)
    /\ UNCHANGED <<documents, projectLock, loop, upload, staleCount, creations>>

ProjectDeleteCommit(t) ==
    /\ thread[t].at = "deleteProject"
    /\ ProjectUnlocked
    /\ project.exists /\ documents = {}
    /\ project' = [project EXCEPT !.exists = FALSE]
    /\ MoveThread(t, NoWork)
    /\ UNCHANGED <<documents, projectLock, loop, upload, staleCount, creations>>

\* The row is gone, or a document refers to it: the transaction fails.
ProjectWriteFails(t) ==
    /\ thread[t].at \in {"updateProject", "deleteProject"}
    /\ ProjectUnlocked
    /\ \/ ~project.exists
       \/ thread[t].at = "deleteProject" /\ documents # {}
    /\ MoveThread(t, NoWork)
    /\ UNCHANGED <<project, documents, projectLock, loop, upload, staleCount, creations>>

ThreadStep(t) ==
    \/ DeleteReadCount(t) \/ DeleteCommit(t) \/ DeleteFails(t)
    \/ UpdateCommit(t) \/ ProjectDeleteCommit(t) \/ ProjectWriteFails(t)
    \/ CreateItemCommit(t) \/ CreateItemRefused(t)

ThreadStart(t) ==
    \/ "DELETE_DOCUMENT" \in ThreadOperations /\ \E d \in documents : DeleteStart(t, d)
    \/ "UPDATE_PROJECT" \in ThreadOperations /\ UpdateStart(t)
    \/ "DELETE_PROJECT" \in ThreadOperations /\ ProjectDeleteStart(t)
    \/ "CREATE_ITEM" \in ThreadOperations /\ CreateItemPage(t)

\* No request runs, and nobody has to call again.
Rest ==
    /\ \A u \in Uploads : upload[u].at = "idle"
    /\ \A t \in Threads : thread[t].at = "idle"
    /\ UNCHANGED vars

Next ==
    \/ \E u \in Uploads, c \in Contents : UploadCall(u, c)
    \/ \E u \in Uploads : UploadStep(u)
    \/ \E t \in Threads : ThreadStart(t) \/ ThreadStep(t)
    \/ Rest

Spec == Init /\ [][Next]_vars

\* The event loop runs ready coroutines in turn, threads are scheduled, and
\* PostgreSQL grants the row lock in the order it was asked for.
FairSpec ==
    /\ Spec
    /\ \A u \in Uploads : SF_vars(UploadStep(u))
    /\ \A t \in Threads : SF_vars(ThreadStep(t))

-----------------------------------------------------------------------------

Upload == [at : {"idle", "hash", "lock", "save", "unwind"},
           content : Contents \union {Nobody}, seen : Nat]

VersionWork == {"updateProject", "createItem"}

Work == [at : {"idle", "deleteStores", "deleteRows", "deleteProject"} \union VersionWork,
         document : Contents \union {Nobody}, seen : Nat]

\* The variables have their types; the count stays within its CHECK constraint.
TypeOK ==
    /\ project \in [exists : BOOLEAN, count : 0 .. Capacity, version : Nat]
    /\ documents \subseteq Contents
    /\ projectLock \in Uploads \union {Nobody}
    /\ loop \in Uploads \union {Nobody}
    /\ upload \in [Uploads -> Upload]
    /\ thread \in [Threads -> Work]
    /\ staleCount \in BOOLEAN
    /\ creations \in [versions : SUBSET Nat, twice : BOOLEAN, stale : BOOLEAN]

\* An upload that passed the checks still meets them when it commits, however
\* long saving the file takes (the comment on the lock in
\* create_project_uploaded_document).
AcceptedStillFits ==
    \A u \in Uploads : upload[u].at = "save" =>
        MayStore(upload[u].content) /\ upload[u].seen = project.count

\* active_document_count is the number of documents, unless a deletion wrote a
\* count that another request had changed after it read it.
CountExactUnlessStale == ~staleCount => project.count = Cardinality(documents)

\* Deleting a project races with uploads to it: no document, and no file about
\* to become one, is left without its project.
NoDocumentWithoutProject ==
    ~project.exists => documents = {} /\ \A u \in Uploads : upload[u].at # "save"

\* A page of the project admits at most one new checklist item, however many
\* requests are sent from it (create_checklist_item), unless an update of the
\* project, which compares versions without a lock, wrote one back.
NoDuplicateItem == ~creations.stale => ~creations.twice

InDeletion(t) == thread[t].at \in {"deleteStores", "deleteRows"}

\* What keeps the count and the foreign key right in every step: an upload past
\* its checks holds the row lock, and each running deletion has a document of
\* its own (row lock of the upload, operation check of the deletion).
InductiveInvariant ==
    /\ TypeOK
    /\ AcceptedStillFits
    /\ CountExactUnlessStale
    /\ NoDocumentWithoutProject
    /\ \A u \in Uploads : upload[u].at # "idle" => upload[u].content \in Contents
    /\ \A u \in Uploads : upload[u].at = "save" => projectLock = u
    /\ \A t \in Threads : thread[t].seen \in 0 .. Capacity \/ thread[t].at \in VersionWork
    /\ \A t \in Threads : IF InDeletion(t) THEN thread[t].document \in documents
                                            ELSE thread[t].document = Nobody
    /\ \A s, t \in Threads :
         InDeletion(s) /\ thread[s].document = thread[t].document => s = t
    /\ IsFiniteSet(documents)
    /\ NoDuplicateItem
    /\ ~creations.stale => \A v \in creations.versions : v < project.version

\* A project never has more documents than its capacity.
CapacityRespected == Cardinality(documents) <= Capacity

\* Concurrent uploads to one project are all answered.
EveryUploadEnds == \A u \in Uploads : upload[u].at # "idle" ~> upload[u].at = "idle"
=============================================================================
