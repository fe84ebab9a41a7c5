--------------------------- MODULE ArchiveLifecycle ---------------------------
(***************************************************************************)
(* One archive document from its upload to its physical deletion, with     *)
(* every request that can change it running concurrently, server crashes,  *)
(* and failures of the model, Chroma and the file system.                  *)
(***************************************************************************)
EXTENDS ArchiveIntake, ArchiveDrafts, ArchivePublication, ArchiveDeletion

\* The state committed by the upload.
Init ==
    /\ documentStatus = "UPLOADED"
    /\ archive = [status |-> "UPLOADED", version |-> 1, snapshot |-> FALSE, indexed |-> FALSE]
    /\ draft = NoDraft
    /\ operations = [index |-> "NONE", delete |-> "NONE"]
    /\ files = [original |-> TRUE, snapshot |-> FALSE]
    /\ vectors = 0
    /\ req = [r \in Requests |-> Idle]
    /\ approved = 0 /\ deletions = 0 /\ faults = 0

\* A client calls; get_project_document found the document in the project.
\* The version sent along is the one the client read just before.
Call(r, op) ==
    /\ req[r].at = "idle"
    /\ Exists
    /\ op = "DELETE" \/ archive.version < MaxVersion
    /\ req' = [req EXCEPT ![r] =
                 [Idle EXCEPT !.op = op, !.at = "start",
                              !.expected = IF op \in VersionedOperations
                                           THEN archive.version ELSE 0]]
    /\ UNCHANGED <<database, external, history>>

\* The server dies: its threads are gone, PostgreSQL rolls their open
\* transactions back.  Nothing of the document is looked at on restart.
Crash ==
    /\ faults < MaxFaults
    /\ \E r \in Requests : req[r].at # "idle"
    /\ faults' = faults + 1
    /\ req' = [r \in Requests |-> Idle]
    /\ UNCHANGED <<database, external, approved, deletions>>

\* No request runs: the service may stay like this, and queries change nothing.
Rest ==
    /\ \A r \in Requests : req[r].at = "idle"
    /\ UNCHANGED vars

Step(r) == Parse(r) \/ DraftStep(r) \/ PublicationStep(r) \/ Delete(r)

Next ==
    \/ \E r \in Requests, op \in Operations : Call(r, op)
    \/ \E r \in Requests : Step(r)
    \/ Crash
    \/ Rest

Spec == Init /\ [][Next]_vars

\* A thread of a live server goes on, and PostgreSQL grants row locks in the
\* order they were asked for: a request is not overtaken forever.
Fairness == \A r \in Requests : SF_vars(Step(r))

FairSpec == Spec /\ Fairness

-----------------------------------------------------------------------------

\* The variables hold values the schema and the handlers allow.
TypeOK ==
    /\ documentStatus \in DocumentStatus
    /\ archive \in ArchiveDocument
    /\ draft \in Draft
    /\ operations \in [index : ArchiveOperationStatus, delete : ArchiveOperationStatus]
    /\ files \in [original : BOOLEAN, snapshot : BOOLEAN]
    /\ vectors \in Nat
    /\ req \in [Requests -> Request]
    /\ approved \in Nat /\ deletions \in Nat /\ faults \in Nat

\* What readers of the formal archive see was approved as it is: every field
\* passed the confirmation check, and no edit, suggestion or regeneration
\* came between the confirmation and the reader (confirmation, field update).
FormalContentApproved ==
    FormallyVisible => DraftExists /\ draft.unchecked = {} /\ draft.revision = approved

InIndex(r)  == req[r].at \in IndexSteps
InDelete(r) == req[r].at \in DeleteSteps

\* At most one request is inside the external work of an INDEX or a DELETE,
\* only while its operation is the one persisted as RUNNING and the document
\* still exists: no index can put back what a deletion took away.
ExclusiveExternalWork ==
    /\ ~(operations.index = "RUNNING" /\ operations.delete = "RUNNING")
    /\ \A r \in Requests :
         /\ InIndex(r) => Exists /\ operations.index = "RUNNING"
         /\ InDelete(r) => Exists /\ operations.delete = "RUNNING"
    /\ \A r, s \in Requests :
         (InIndex(r) \/ InDelete(r)) /\ (InIndex(s) \/ InDelete(s)) => r = s

\* A deleted document leaves no chunk that retrieval could still hit and no
\* original file, whatever failed, crashed or was retried on the way, and its
\* deletion is audited once.
DeletedLeavesNothing ==
    ~Exists => vectors = 0 /\ ~files.original /\ deletions = 1

ReplacesOnlySeen ==
    \A r \in Requests :
        req[r].op \in {"UPDATE", "REGENERATE"} /\ req'[r] # req[r] /\ draft' # draft
            => draft.revision <= req[r].expected

\* Field values are only replaced by a client that has seen them: an update
\* or a regeneration that lost the race for the version leaves them alone.
NoLostEdit == [][ReplacesOnlySeen]_vars

KeepsManualValues ==
    \A r \in Requests :
        req[r].op \in {"SUGGEST", "RETRY_SUGGEST", "REGENERATE"}
          /\ req'[r] # req[r] /\ draft' # draft => ~draft.edited

\* What a person entered is never replaced by the model's suggestions.
AiKeepsManualValues == [][KeepsManualValues]_vars

\* The user-visible state machine of the design.
StatusDiagram ==
    {<<"UPLOADED", "PARSED">>, <<"UPLOADED", "PARSE_FAILED">>, <<"PARSE_FAILED", "PARSED">>,
     <<"PARSED", "PENDING_CONFIRMATION">>, <<"PARSED", "SUGGESTION_FAILED">>,
     <<"SUGGESTION_FAILED", "PENDING_CONFIRMATION">>, <<"PENDING_CONFIRMATION", "CONFIRMED">>,
     <<"CONFIRMED", "PENDING_RECONFIRMATION">>, <<"PENDING_RECONFIRMATION", "CONFIRMED">>}

\* Under all interleavings the status moves along the diagram, but for the
\* two failure handlers, which write a status without lock or version (parse
\* failure, suggestion failure), and for an edit that read the status before
\* such a failure and writes its copy back.
FailureStatuses == {"PARSE_FAILED", "SUGGESTION_FAILED"}

StatusFollowsDiagram ==
    [][Exists' /\ archive'.status # archive.status =>
         \/ <<archive.status, archive'.status>> \in StatusDiagram
         \/ archive' \in {[archive EXCEPT !.status = s] : s \in FailureStatuses}
         \/ /\ archive.status \in FailureStatuses /\ archive'.status \in EditableStatuses
            /\ archive'.version = archive.version + 1 /\ draft'.edited]_vars

\* What a reader of the formal archive sees of the document, and of its content.
Phase ==
    IF ~Exists THEN "GONE"
    ELSE IF VisibilityBlocked THEN "HIDDEN"
    ELSE IF archive.status = "CONFIRMED" THEN "FORMAL"
    ELSE "DRAFT"

Content == IF Phase = "FORMAL" THEN draft.revision ELSE approved

Formal == INSTANCE FormalArchive WITH phase <- Phase, content <- Content

\* The lifecycle implements the promise of FormalArchive.
ImplementsFormalArchive == Formal!Spec

\* A document listed as indexed can be found: its chunks are there.
IndexedMeansSearchable == FormallyVisible /\ archive.indexed => vectors > 0

\* Every request is answered: none waits for ever for the row or a store.
EveryRequestEnds == \A r \in Requests : req[r].at # "idle" ~> req[r].at = "idle"

\* An operation persisted as RUNNING is brought to an end, so that it does
\* not refuse every later confirmation and deletion.
RunningOperationEnds == RunningOperation ~> ~RunningOperation

=============================================================================
