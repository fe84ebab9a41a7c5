# Verification of the archive service

TLA+ models of the concurrent behaviour of this repository's archive service, TLC
configurations that check them on small instances, and TLAPS proofs for every
value of the constants. Paths are relative to the repository (`app/` is
`src/app/`), documents are those of `docs/design/`.

## 1. The system

A FastAPI server keeps the documents of construction projects, and beside them a
knowledge base with questions and answers, an agent that may use both, and the
accounts of its users. A document is
uploaded, parsed, given a draft of review fields (by hand or by a language
model), reviewed, confirmed by a person, and from then on found by formal
retrieval. Its state is spread over three stores:

- PostgreSQL: `documents`, `archive_documents`, `parsed_snapshots`,
  `archive_field_values`, `archive_operations`, `archive_audit_logs`, `projects`, ...
  (transactions, READ COMMITTED, row locks, unique indexes);
- the file system: the original file and `parsed_snapshot.json`;
- Chroma: the Final Chunks that retrieval searches, and in a collection of its own
  the chunks of the knowledge base;
- the checkpoints of LangGraph, which keep the messages of the agent's threads.

Synchronous handlers run in threads of a pool, one SQLAlchemy session each; the
upload is a coroutine of the one event loop. No background job exists, and
nothing runs at startup to finish interrupted work.

### Inventory

| Component | Code (`app/`) | State and operations | Interacts with | What is hard; what makes it correct |
|---|---|---|---|---|
| Parsing | `services/archive/documents.py`, `parser.py` | status, snapshot row, snapshot file; parse, parse retry | deletion, drafts | no lock, one shared path; a snapshot row must have its file |
| Drafts | `services/archive/drafts.py` | field values, version, status; manual draft, field update | suggestions, confirmation | reads before the conditional UPDATE; no lost edit, edits leave the formal archive |
| Suggestions | `services/archive/suggestions.py` | as above; suggest, retry, regenerate | model, drafts | lock held or not held across the model call; manual values survive |
| Confirmation and index | `confirmation.py`, `indexing.py`, `final_chunks.py` | status, INDEX operation, chunks; confirm, replay | Chroma, deletion | crash inside external work, stale ORM copy; exclusive with deletion, only approved content visible |
| Cancellation | `cancellation.py` | status, chunks | Chroma, confirmation | cleanup outside the transaction |
| Deletion | `deletion.py`, `services/infrastructure/files.py` | DELETE operation, both files, chunks, all rows; delete | every other | partial failure, retry, crash; hidden at once, nothing left |
| Projects and uploads | `services/project/management.py`, `documents.py` | project row (count, version); create, update, delete, upload | deletion | lock across `await`, unlocked counter; capacity, no orphan |
| Catalogue, reads | `catalog.py`, `reads.py` | none | all | several statements per page; only formal documents shown, version and fields of one state |
| Checklists and links | `services/project/checklists.py`, `archive/checklist_links.py` | items, links, versions | confirmed documents | unlocked version check, lock order; a link fits its item, nothing dangles |
| Retrieval, questions | `retrieval.py`, `reranker.py`, `questions.py`, `evidence_matching.py` | none | Chroma, models | formal set read before the search; reproducible ranking, answers rest on evidence |
| Legacy RAG and chat | `services/rag/*` | `documents.status`, chunks, messages | Chroma, model | status checked without lock, crash leaves PROCESSING; READY means searchable |
| Agent sessions | `services/agent/*`, `agents/*` | checkpoint thread, tool call log | LangGraph, accounts | two messages to one thread, runs that fail half way; own answer, every call logged once |
| Accounts | `services/identity/*`, `core/security.py` | users, auth sessions | all routers | refresh against logout; a logout is final |
| Rebuild scripts | `scripts/policy_collection_embedding_rebuild.py`, `archive_v1_formal_embedding_rebuild.py`, `archive_v1_d1_embedding_rebuild.py` (of `src/`) | the two Chroma collections; delete, create, fill, restore | Chroma, a running service | a failure or death at any call; nothing stored is lost |
| Infrastructure, HTTP, config, migrations, evaluation | `services/infrastructure/*`, `routers`, `schemas`, `core`, `migrations`, `evals` | none of their own | all | calls that fail or time out |

## 2. The modules

```
ArchiveStore ── ArchiveIntake ──────┐
            ├── ArchiveDrafts ──────┤
            ├── ArchivePublication ─┼── ArchiveLifecycle ── ArchiveInvariant ── MCArchiveLifecycle
            └── ArchiveDeletion ────┘      │ INSTANCE           ├── ArchiveInvariant_proofs
                                      FormalArchive             └── ArchiveRefinement_proofs
                                           │ INSTANCE
                                      ArchiveReads ── MCArchiveReads
                                           └── ArchiveReads_proofs
ProjectCapacity ── MCProjectCapacity
               └── ProjectCapacity_proofs
Checklists ── MCChecklists
          └── Checklists_proofs
LegacyDocuments ── LegacyChat ── MCLegacyChat
                              └── LegacyChat_proofs
AuthSessions ── AgentSessions ── MCAgentSessions
                             └── AgentSessions_proofs
PolicyRebuild, FormalRebuild ── MCRebuilds
                            └── Rebuilds_proofs
```

The `MC` modules only give constants their values and name symmetries
(`MCRebuilds` also puts the two scripts side by side). Definitions that begin
with `Faulty` are what a plausible bug would make of the definition below them;
nothing uses them, they are there to try the properties on
(`PROJECT.json`, `mutants`). Every module that keeps a history variable says so
where it declares it: no action reads one.

### The archive lifecycle

`ArchiveStore` declares the state of one document in the three stores and the
requests that work on it; the four component modules add one action per
transaction or external call of their handlers; `ArchiveLifecycle` composes them
with the clients' calls, crashes and the properties.

| Variable | Stands for |
|---|---|
| `documentStatus` | `documents.status`; `"GONE"` when the row is deleted |
| `archive` | the `archive_documents` row: status, version, whether `current_snapshot_id` is set, whether `final_chunk_count > 0` |
| `draft` | the field values: the version that wrote them (`revision`, 0 for none), the fields that would not pass the confirmation check, whether a person edited any |
| `operations` | the status of the latest INDEX and of the DELETE operation |
| `files` | the original and the snapshot file |
| `vectors` | the draft revision the chunks in Chroma were embedded with, 0 for no chunks |
| `req` | per request: operation, next step, the version the client sent, the ORM copy of the row, the revision it embedded |
| `approved`, `deletions`, `faults` | history: the revision last confirmed, the DOCUMENT_DELETED audit rows, crashes and unrecorded failures |

Conventions that decide how faithful the model is:

- A step is one transaction, or one call to Chroma, a model or a file. What a
  handler reads in an earlier transaction and uses later is in `req` (`expected`,
  `seen`, `built`) or is re-read, as in the code.
- `SELECT ... FOR UPDATE` and writes of the `archive_documents` row need
  `RowUnlocked`. The only handler that keeps the row locked over an external call
  is a suggestion (`callModel`). A locked SELECT does not refresh an object the
  session has already loaded: `IndexBegin` decides on `req[r].seen`, the copy of
  `session.refresh` after the confirmation (`confirmation.py:201`), and
  `DeletingStatus` allows for the copy of `documents` loaded by the dependency.
- External calls succeed or fail at every step. A failed call goes to the
  handler's failure record, and recording that may itself fail
  (`IndexFailureUnrecorded`, `DeleteFailureUnrecorded`).
- `Crash` drops all requests between any two steps. Nothing is repaired on restart.
- An invalid payload (422) is a call never made. PostgreSQL itself does not fail
  outside the failures named above: the other handlers roll back and return, which
  is the same as never having started.

`FormalArchive` is the abstract specification: a document is DRAFT, FORMAL,
HIDDEN or GONE for the readers of the formal archive; what they see was
approved, does not change while it is visible, never goes back to an older
approval, and after a deletion began never comes back. `ArchiveLifecycle`
implements it with `Phase` (catalogue and retrieval filters over status and
operations) and `Content` (the revision of the visible draft).

### The project

`ProjectCapacity` models one project row, its documents, uploads and the
handlers that write the row: deletion of a document, update and deletion of the
project. Uploads are coroutines: `loop` is the coroutine that occupies the event
loop; it is released where the code awaits something that is not ready (reading a
spooled upload, leaving the session dependency) and kept where it calls the
database synchronously. `projectLock` is the row lock of an upload; the other
writers only need it for the length of their last transaction. A document is
identified by its content, because `(project_id, file_hash)` is unique and at most
one deletion of a document runs.

`creations` is a history of the checklist items created per version of the project:
a new item increments the version with a conditional UPDATE, which is what keeps a
page submitted twice from creating two items.

### The checklist

`Checklists` models items, documents and the links between them. A handler is one
transaction of several statements: `held` is the set of rows it has locked, and
`Wanted` the rows its next statement needs; a statement is taken when all of them
are free, and its writes are made at the commit, where others first see them. In
`DeadlockVictim` PostgreSQL fails a transaction of a circle (`InCircle`: a set of
requests and an order of them in which each waits for the next). `items` and `links`
are the rows; a link remembers in `on` the matching fields it was confirmed on and
in `seen` whether the page showed them. An update of an item compares the version
with a row it has not locked, so that two updates may write one version twice:
`reused` notes that, and only what depends on versions is claimed under `~reused`.
The document moves by `MoveDocument`, the statuses of the lifecycle as far as links
look at them, and by the last transaction of its deletion.

### Reads of the archive

`ArchiveReads` is what a reader sees of changing documents. Each statement, and
each call to Chroma or a model, is a step and sees the documents as of then (READ
COMMITTED has no snapshot for a handler). `read` holds what a request has read so
far: hidden documents, rows with their version, fields, hits, scores. Two history
fields, `hidden` at its start and `confirmed` at some moment of it, say what it may
show. A ranking is a sequence: `Sorted` arranges hits by distance or by score, a stable
sort as in the code (`StableOrder`), and `Passing` keeps those that reach the
threshold. These, the ranks of a diagnosis and the parser of
the model's decision (`Accepted`) are operators, compared with what they promise
over every order of hits, every score and every decision of the instance.
The documents themselves are an implementation of `FormalArchive`
(`DocumentsFollowFormalArchive`), the same abstraction `ArchiveLifecycle` implements:
what is checked of readers rests only on what the lifecycle keeps.

### The knowledge base

`LegacyDocuments` is one document outside the archive. Its handlers take no lock
and no operation: a request loads the status (`Load`, kept in `seen`), and its first
commit (`Begin`) writes its own whatever the row says by now, unless the copy it
loaded already said the same: SQLAlchemy leaves an unchanged column out of the UPDATE.
That concerns deletions, since a row in DELETING may be processed or deleted again and
one in PROCESSING is refused. The commit and the refresh after it are one step. Every
call to Chroma or a file may fail with or without effect, recording the failure may
fail, and `Crash` may come at any step. Two history variables say when the properties
claim less: `overlapped` notes that work began during that of another request,
`undeclared` that the work that began last left another status in the row than its
own, which without an overlap only a deletion can do. Section 3 says what happens
then. `LegacyChat` adds questions: the recent history, the retrieval, the model call and the exchange stored
last, in one commit. `Position` is the place of a message in the order of the query,
`RecentMessages` the last places. Questions of one session run side by side; exchanges have distinct
times, except those of `OldExchanges`, whose two messages share one.

### Accounts and agent sessions

`AuthSessions` is one account with its login sessions. Registration, the password
of a historical account and login are atomic (one commit, no row of another request
read); refresh, logout and protected requests have a read and a later commit.
`AgentSessions` runs messages inside protected requests. `thread` is the latest
checkpoint. A run counts the messages of the thread, loads the latest checkpoint,
and each superstep saves its *whole* state as the latest one, so that of two runs
side by side the last to save wins; what a run takes for its own messages is
the slice behind the count. `log` is the table of tool calls, written after the run
together with the answer, or after its failure from what the tool node observed.
`overlapped` notes the executions that ran beside another.

### Rebuilding the collections

`PolicyRebuild` and `FormalRebuild` are the scripts that replace a collection, call
by call: a failing call takes effect or not and goes to the restore, a failing
restore ends the script, the operating system may kill it, and it may be started
again on what is left. `PolicyRebuild` runs only while the service is stopped, as its
option demands (`service`); the service works when it is up. Nothing stops
the service beside `FormalRebuild`: `alone` notes that it wrote since the start, and
`before` what the collection held then.

## 3. Properties and runs

| Run | Checks | Instance |
|---|---|---|
| `lifecycle_safety` | `TypeOK`, `FormalContentApproved`, `ExclusiveExternalWork`, `DeletedLeavesNothing`, `NoLostEdit`, `AiKeepsManualValues`, `StatusFollowsDiagram`, `ImplementsFormalArchive` | 2 requests, 2 fields, all operations, `MaxVersion = 7`, one crash or unrecorded failure: about 1.05 million states |
| `lifecycle_progress` | `IndexedMeansSearchable`, `EveryRequestEnds`, `RunningOperationEnds` | 2 requests, no crash, no cancellation |
| `project_safety` | `TypeOK`, `AcceptedStillFits`, `CountExactUnlessStale`, `NoDocumentWithoutProject`, `NoDuplicateItem` | 2 uploads, 2 threads, 3 contents, capacity 2 |
| `checklists_safety` | `LinkFitsItem`, `NoDanglingLink`, `ConfirmedAsSeen`, `DeadlockNeedsDeletion` | 3 requests, 1 item, 1 document, 2 values of the matching fields, `MaxVersion = 3` |
| `checklists_progress` | `EveryRequestEnds` | 2 requests |
| `reads_safety` | `TypeOK`, `OnlyFormalContentShown`, `CurrentPageIsTrue`, `RankingReproducible`, `DiagnosisExplainsRetrieval`, `AnswersRestOnEvidence`, `DocumentsFollowFormalArchive` | 1 reader, 2 documents, 3 chunks, 2 scores, top 2 |
| `legacy_safety` | `ReadyMeansSearchable`, `DeletedLeavesNothing`, `HistoryInWholeExchanges`, `AnswersCiteNoDeletedDocument` | 2 workers, 2 questions, one crash |
| `sessions_safety` | `TypeOK`, `AnswersAreOwn`, `CallsAudited`, `LogoutIsFinal` | 2 requests, 1 login, one tool call each, one crash: about 2.2 million states |
| `rebuild_safety` | `ReadyKeepsVectors`, `EndsAsPromised`, `RebuildLeavesWholeSet`, `RebuildKeepsEntries` | 2 documents in each collection, 2 starts of each script: about 150,000 states |

Some properties excuse part of a hazard, because the code does not keep it there; they
are not claims about that part. `StatusFollowsDiagram` allows late failure records and
edits that overtake one, `CountExactUnlessStale` a stale count, `ConfirmedAsSeen` a
version written twice, `ReadyMeansSearchable`, `DeletedLeavesNothing` (for chunks),
`AnswersAreOwn` and `CallsAudited` work that overlapped, `RebuildLeavesWholeSet` and
`RebuildKeepsEntries` a service that wrote beside the script. `NoDuplicateItem` is about
pages sent twice and not about two updates of one project. The hazards list these
cases with a note, and "Met while modelling" below says what the code does in them.

The comments before the properties say what each of them means and which code it
is about. Inductive invariants, and the type invariants of `Checklists` and
`LegacyDocuments`, have no run: they are proved.

Bounds. Two requests suffice for every interleaving the lifecycle's properties
speak of: they relate one request to another or to the row, and the proofs confirm
the safety ones for any number. `MaxVersion = 7` leaves room for a draft, an edit of
each field, confirmation, edit or cancellation, and a second confirmation; a deletion
may be called at any version. One fault is enough for a crash inside an operation
followed by retries. In `project_safety` three contents at capacity two make the
limit, duplicates and the race for the last place occur. In `checklists_safety` two
requests may deadlock or overtake each other while a third works; version 3 allows
two updates that overlap and one after them. In `reads_safety` readers do not
disturb each other, so that one is enough; three chunks of two documents have ties of
score and of distance, a limit that cuts, a threshold that is just reached, and
duplicates of a citation; version 3 leaves room for a draft, its confirmation and an
edit during the read. In `legacy_safety` a history of two messages is one exchange,
so that the second question meets a history that is cut. In `sessions_safety` a
second message starts beside the first one or behind it (`MaxBeside`, `MaxThread`),
also behind a failed one. In `rebuild_safety` the second start meets whatever the
first left; the scripts share no variable, so `MCRebuilds` runs one at a time.

Symmetry is used in runs that check no liveness, over requests, workers, askers and
documents no property or constant tells apart.

Fairness. `FairSpec` of the lifecycle assumes strong fairness of every request's
next step: threads of a live server are scheduled, PostgreSQL grants a row lock in
the order it was asked for, and calls to Chroma and to the models end, by an answer
or a timeout. `FairSpec` of the checklist assumes the same of its statements, and
that PostgreSQL breaks a deadlock. Clients are not obliged to call.

Deadlock checking is off where the system may really stop: an event loop that waits
for itself (`project_safety`, `upload_deadlock`), and instances in which in the end
everything has been asked and answered (`legacy_safety`, `chat_order`,
`sessions_safety`, `rebuild_safety`).

### Disagreements found

Each of these runs is expected to violate its property, which states what a
document, a comment or a test of the repository says.

| Run | Property | What happens |
|---|---|---|
| `lifecycle_crash` | `RunningOperationEnds` | a crash leaves INDEX or DELETE in RUNNING; no startup scan exists (数据库设计.md:369, 381), and every later confirmation replay and deletion is refused |
| `upload_deadlock` | `EveryUploadEnds` | two uploads to one project stop the event loop (`documents.py:65`, `test_documents_postgres.py:96`) |
| `chat_order` | `HistoryInWholeExchanges` | of a question and an answer stored with one time the answer comes first (`chat.py:112`): `role` is an enumeration and sorts as declared, USER before ASSISTANT (`0001_rag_schema_baseline.py:162`) |

Met while modelling and left in the models as the code has them, without a run of
their own:

- Lifecycle: the loser of two parses removes the winner's snapshot file
  (数据库设计.md:494), and a parse during a deletion leaves text on disk
  (需求说明.md:712). A late cleanup of a cancellation removes the chunks of the next
  confirmation (`models/archive.py:101`; this is why `lifecycle_progress` has no
  cancellation). A late failure record turns a started draft into SUGGESTION_FAILED
  (技术架构.md:587); an edit that read the status before such a record writes it back
  (allowed for in `StatusFollowsDiagram`). An edit of a confirmed document does not
  clean its Final Chunks (数据库设计.md:497; the status protects readers).
  Confirmation is committed before the vectors exist (数据库设计.md:496 says after).
  PARSE and SUGGEST operations are declared and never created (技术架构.md §12.3).
- Project: a deletion writes a stale count, after which the project may take one
  document too many (数据库设计.md:500). Two updates of a project with one expected
  version both succeed (接口设计.md:120); so do two updates of a checklist item
  (`services/project/checklists.py:161`), after which a link may stand for fields its
  page did not show.
- Reads: the detail page reads the row before the fields (`catalog.py:177`), so an
  edit in between shows draft fields with a confirmed row (接口设计.md:561). The
  document was confirmed within the read and the version shown is no longer the
  current one; `OnlyFormalContentShown` and `CurrentPageIsTrue` promise that much.
- Knowledge base: overlapped work may leave chunks behind a deletion, or READY
  without chunks; a crash leaves PROCESSING, from which both handlers refuse. A
  deletion that loaded a row left in DELETING by a crash or an unrecorded failure, and
  committed after another request had processed it, leaves READY in the row while it
  removes the chunks, and for good if the server dies then: the commit that is to show
  DELETING to other requests (`documents.py:313`) writes no status.
  `ReadyMeansSearchable` allows for this through `undeclared`; without that it is
  violated. No work overlaps in this, so `DeletedLeavesNothing` allows for nothing.
- Agent: a tool that completed is logged FAILED when its run fails later
  (`services/agent/audit.py:156`, `models/agent.py:17`). Two messages side by side
  may lose messages of each other, or answer with the other's text and sources.
- Rebuilds: a killed script, or a failed restore, leaves a collection the next start
  refuses. Beside a running service the formal rebuild may index a document that
  was withdrawn, or lose chunks that were written meanwhile.

## 4. Proofs

TLAPS proves the following for every value of the constants that satisfies the
named assumptions of the modules (`OperationsAssumption`, `BoundsAssumption`,
`CapacityAssumption`, `ChecklistAssumption`, `ReadsAssumption`, `LegacyAssumption`,
`ChatAssumption`, `AgentAssumption`, and those of the rebuild modules): any number of
requests, readers, documents, chunks, items, questions and starts, any capacity and
bound. Every invariant and every action property that a passing run checks is stated
by one of these theorems.

| Module | Theorem | States |
|---|---|---|
| `ArchiveInvariant_proofs` | `TypeCorrect` | `TypeOK` |
| | `InvariantHolds` | the inductive invariant |
| | `ExternalWorkIsExclusive` | `ExclusiveExternalWork` |
| | `VisibleContentIsApproved` | `FormalContentApproved` |
| | `DeletionIsComplete` | `DeletedLeavesNothing` |
| `ArchiveRefinement_proofs` | `EditsAreNotLost` | `NoLostEdit` |
| | `ManualValuesSurvive` | `AiKeepsManualValues` |
| | `StatusMovesAlongDiagram` | `StatusFollowsDiagram` |
| | `IndexedIsSearchable` | `IndexedMeansSearchable`, if nobody cancels |
| | `LifecycleImplementsFormalArchive` | `ImplementsFormalArchive` |
| `ProjectCapacity_proofs` | `CapacityTypeCorrect`, `CapacityInvariantHolds` | types, the inductive invariant |
| | `ChecksHoldUntilCommit` | `AcceptedStillFits` |
| | `CountWrongOnlyWhenStale` | `CountExactUnlessStale` |
| | `CapacityUnlessStale` | the capacity is kept while no stale count was written |
| | `UploadsKeepTheirProject` | `NoDocumentWithoutProject` |
| | `ItemsNotDuplicated` | `NoDuplicateItem` |
| `Checklists_proofs` | `ChecklistTypeCorrect`, `ChecklistInvariantHolds` | types, the inductive invariant |
| | `LinksFitTheirItems` | `LinkFitsItem` |
| | `LinksDieWithTheirEnds` | `NoDanglingLink` |
| | `LinksConfirmedAsSeen` | `ConfirmedAsSeen` |
| | `DeadlocksTakeDeletions` | `DeadlockNeedsDeletion` |
| `ArchiveReads_proofs` | `ReadsTypeOK`, `ReadsInvariantHolds` | types, the inductive invariant |
| | `FormalContentOnly` | `OnlyFormalContentShown` |
| | `PagesAreTrue` | `CurrentPageIsTrue` |
| | `RankingIsReproducible` | `RankingReproducible` |
| | `DiagnosisIsTrue` | `DiagnosisExplainsRetrieval` |
| | `AnswersAreGrounded` | `AnswersRestOnEvidence` |
| | `ReadsFollowFormalArchive` | `DocumentsFollowFormalArchive` |
| `LegacyChat_proofs` | `DocumentTypes`, `LegacyInvariantHolds` | types, the inductive invariant of a document |
| | `ReadyIsSearchable` | `ReadyMeansSearchable` |
| | `DeletionLeavesNothing` | `DeletedLeavesNothing` |
| | `ChatLeavesDocuments` | questions leave documents alone: the theorems above hold beside them |
| | `DeletedIsNotCited` | `AnswersCiteNoDeletedDocument` |
| | `HistoryIsWhole` | `HistoryInWholeExchanges`, without old exchanges and with an even limit |
| `AgentSessions_proofs` | `AgentTypeOK`, `AgentInvariantHolds` | types, the inductive invariant |
| | `LogoutCannotBeUndone` | `LogoutIsFinal` |
| | `AnswersComeFromOwnRun` | `AnswersAreOwn` |
| | `ToolCallsAreAudited` | `CallsAudited` |
| `Rebuilds_proofs` | `ReadyVectorsSurvive` | `ReadyKeepsVectors` |
| | `PolicyOutcomeIsTrue` | `EndsAsPromised` |
| | `StartedEntriesSurvive` | `RebuildKeepsEntries` |
| | `RebuildIsComplete` | `RebuildLeavesWholeSet` |

Two theorems have a hypothesis of their own, the one under which the run checks the
property. `IndexedIsSearchable` is about clients that never cancel, because the
cleanup of a cancellation is outside its transaction and may remove what a later
confirmation indexed. `HistoryIsWhole` is about histories stored by the code as it is:
with `OldExchanges` the property is false (`chat_order`), and the limit is even (20).

### The arguments

The inductive invariant of the lifecycle (`ArchiveInvariant`) is needed because
none of the properties is inductive alone. It adds: a request is only at the steps
of its own handler; the row lock of a suggestion keeps draft and document as they
were; revisions are stamped with versions, which only grow, so a draft written
after an approval is never taken for the approved one; a confirmed document, hidden
or not, has the draft that was confirmed; and what each step of a deletion removed
stays removed, which follows from the exclusion of index and deletion. The
exclusion itself rests on the persisted RUNNING status, not on locks, which is why
it survives crashes and unrecorded failures.

On top of it, `StatusesAsRead` says which statuses a handler can meet where it left
off (a suggestion behind its lock, an edit that has read the status and will win the
race for the version); with it each step moves along the diagram.
`IndexLeavesChunks` says that without cancellations only a deletion takes chunks
away, and hides the document first.

The invariant of the project says that an upload past its checks holds the row
lock, and that every running deletion has an existing document of its own. The
step lemmas are one per action; `UploadMoves`, `ThreadMoves` and `ThreadEnds`
carry what most of them share. Cardinalities come from `FiniteSetTheorems`.

The invariant of the checklist says which rows a transaction holds at each step and
what they keep true until it commits (`StepHolds`): an item update past its write
holds all links confirmed on the old fields, a link about to be confirmed holds
document and item. With the exclusion of locks this gives `LinkFitsItem` and
`NoDanglingLink`; `PagesTrue` (a version tells the content) gives `ConfirmedAsSeen`.
`OrderInvariant` says that whoever deletes nothing locks document, item and links in
this order, so that along a chain of such waiting requests what they wait for comes
ever later in the order (`WaitsRise`); there are three kinds of rows and no circle.

The invariant of the reads (`ReadsInvariant`) has three parts for each reader. What it
holds of the archive was confirmed at some moment of the read, and what was hidden when
it began stays hidden or is gone (`ScopeIsFormal`); a page is no newer than the
documents, and its fields are true where its version is not older (`PageIsSound`);
evidence is without repetition, in the scope and at the threshold, and an answer cites
only evidence (`EvidenceIsSound`). That a ranking does not depend on the order of
Chroma's answer follows from lemmas on `Arranged`: in a strict order every place is
taken once (`PlacesAreNumbered`), so the arrangement is unique (`SameArrangement`), and
since ties of score and distance fall to the identity of the chunk, sorting forgets the
order before it (`SortIgnoresOrder`).

The invariant of the knowledge base says that work which did not overlap is alone
with the stores (`ProcessingIsAlone`), and that each step left there what the later
ones and the next status need (`UndisturbedHolds`). A deletion at work shows in the
status unless the work that began last is `undeclared`; any processing resets that
when it begins, and if it begins beside the deletion it overlaps. A question is late if it was
asked after the deletion; the status GONE is final (`GoneStays`) and then no chunk is
left to be found (`LateQuestions`). For the history the invariant is that exchanges are stored
whole, with times one apart (`ExchangesWhole`). Then messages are ordered by one
number each (`OrderIsNumber`), every position is taken by exactly one of them
(`PositionsDiffer`, `PositionsTaken`), half of the messages before a question are
questions (`MessagesAreEven`), so questions stand at odd positions directly before
their answers, and cutting off an even number leaves whole exchanges.

The invariant of the agent sessions (`AgentInvariant`) says of every run that did not
overlap another: what it left in the thread is in every later copy of it at the same
places, and before the count from which later runs take messages for new
(`LeftToOthers`); behind its own count there are only its own messages, each result of
a tool with the model's request for it (`OwnWork`). Since a run takes for its answer
what is behind the count, the answer is its own, and what it writes to the log is
complete. Two runs inside the graph at one time always count as overlapped
(`GraphShared`), so that nothing is claimed of them.

`Rebuilds_proofs` rests on the check before a rebuild: while the policy script
changes the collection the service is down and has no READY document, and past its
check the formal script began with an empty collection, or the service wrote since.
`CopyInvariant` follows the formal script's copy: every confirmed document is indexed,
being embedded or still to be read (`CopiesConfirmed`); with nothing left to read and
the count of the inserted ones compared, the collection is the confirmed set.

### Only model-checked

Liveness under fairness (`EveryRequestEnds` of the lifecycle and of the checklist,
`RunningOperationEnds`), which the prover does not reach. Of `FairSpec` only the safety part
enters a proof. What the runs with an expected violation find is not a theorem either.

## 5. Not modelled

- Chroma calls applied after the client gave up waiting; failures of PostgreSQL
  between two statements of one transaction (a rollback).
- The deadlock PostgreSQL breaks between an edit and a regeneration, which lock
  the document row and the field rows in different orders: one of them fails and
  rolls back.
- The routes of the knowledge base applied to an archive document. They look for a
  document by knowledge base alone (`dependencies/resources.py:88`,
  `services/rag/documents.py:292`), and a project has a knowledge base of its own, so
  its owner can process or delete an archive document there. A deletion on that way
  takes no lock and no operation, leaves the Final Chunks and the project's count and
  writes no audit row. `LegacyDocuments` is a document without a project, and the
  archive modules assume that archive documents change only by the archive's routes.
- Contents of files, prompts, embeddings, chunk texts; paging and filters; formats
  of responses.
- In `ProjectCapacity`: creation of the project, the precheck of name and size, the
  file of an upload (`ArchiveLifecycle` starts with it).
- The experiment collections of the D1 script, which no reader uses.
- Audit log reads (one paged statement), the clients of Chroma and of the models
  (the calls of the models here), HTTP validation and configuration, migrations, the
  evaluation tools and the acceptance scripts: code without concurrent state of its
  own, run by hand or once.

## 6. What would come next

An abstract specification of a checklist's links, and of a project's capacity, that
the detailed modules implement; the field rows below the document row, for the
deadlock of edit and regeneration; calls to Chroma that are applied after their
client gave up.
