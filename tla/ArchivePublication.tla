-------------------------- MODULE ArchivePublication --------------------------
(***************************************************************************)
(* Publication: human confirmation, the INDEX operation it triggers, and   *)
(* its cancellation.  Confirmation and cancellation are short transactions *)
(* under the row lock; building, embedding and writing or deleting the     *)
(* chunks happens outside any transaction.                                 *)
(***************************************************************************)
EXTENDS ArchiveStore

ConfirmableStatuses == {"PENDING_CONFIRMATION", "PENDING_RECONFIRMATION"}

\* Faulty variant: another operation may be running.
FaultyMayIndex(copy) ==
    /\ Exists
    /\ copy.status = "CONFIRMED" /\ copy.snapshot
    /\ ~(operations.index = "SUCCEEDED" /\ copy.indexed)

\* copy: the archive row as the request's ORM session has it.  SELECT ...
\* FOR UPDATE locks the row but does not refresh a copy already loaded;
\* the operations are always read from the database.
MayIndex(copy) ==
    /\ Exists
    /\ copy.status = "CONFIRMED" /\ copy.snapshot
    /\ ~RunningOperation
    /\ ~(operations.index = "SUCCEEDED" /\ copy.indexed)

StartIndex(r) ==
    /\ operations' = [operations EXCEPT !.index = "RUNNING"]
    /\ Goto(r, "buildIndex")

MayConfirm(r) ==
    /\ Exists /\ ExpectedVersion(r)
    /\ archive.status \in ConfirmableStatuses
    /\ archive.snapshot
    /\ DraftExists /\ draft.unchecked = {}

\* A confirmed document without chunks: the index may be resumed.
MayReplay(r) ==
    /\ Exists /\ ExpectedVersion(r)
    /\ archive.status = "CONFIRMED" /\ ~archive.indexed

Confirm(r) ==
    /\ Starts(r, "CONFIRM")
    /\ RowUnlocked
    /\ MayConfirm(r)
    /\ archive' = [archive EXCEPT !.status = "CONFIRMED", !.version = @ + 1, !.indexed = FALSE]
    /\ approved' = draft.revision
    /\ Goto(r, "refresh")
    /\ UNCHANGED <<documentStatus, draft, operations, external, deletions, faults>>

\* The replay indexes in the transaction that read the row: no stale copy.
ConfirmReplay(r) ==
    /\ Starts(r, "CONFIRM")
    /\ RowUnlocked
    /\ MayReplay(r) /\ MayIndex(archive)
    /\ StartIndex(r)
    /\ UNCHANGED <<documentStatus, archive, draft, external, history>>

ConfirmRejected(r) ==
    /\ Starts(r, "CONFIRM")
    /\ RowUnlocked
    /\ ~MayConfirm(r) /\ ~(MayReplay(r) /\ MayIndex(archive))
    /\ Return(r)
    /\ UNCHANGED <<database, external, history>>

\* session.refresh after the commit: the row as it is by now, unlocked.
ConfirmRefresh(r) ==
    /\ req[r].at = "refresh"
    /\ Exists
    /\ req' = [req EXCEPT ![r].at = "beginIndex", ![r].seen = archive]
    /\ UNCHANGED <<database, external, history>>

-----------------------------------------------------------------------------

IndexBegin(r) ==
    /\ req[r].at = "beginIndex"
    /\ RowUnlocked
    /\ MayIndex(req[r].seen)
    /\ StartIndex(r)
    /\ UNCHANGED <<documentStatus, archive, draft, external, history>>

IndexRejected(r) ==
    /\ \/ req[r].at = "refresh" /\ ~Exists
       \/ req[r].at = "beginIndex" /\ RowUnlocked /\ ~MayIndex(req[r].seen)
    /\ Return(r)
    /\ UNCHANGED <<database, external, history>>

\* Chunks come from the snapshot file, their context from the field values.
IndexBuild(r) ==
    /\ req[r].at = "buildIndex"
    /\ files.snapshot
    /\ req' = [req EXCEPT ![r].at = "upsertIndex", ![r].built = draft.revision]
    /\ UNCHANGED <<database, external, history>>

\* Chunk ids do not depend on field values: an upsert replaces them all.
IndexUpsert(r) ==
    /\ req[r].at = "upsertIndex"
    /\ vectors' = req[r].built
    /\ Goto(r, "recordIndex")
    /\ UNCHANGED <<database, files, history>>

IndexRecord(r) ==
    /\ req[r].at = "recordIndex"
    /\ RowUnlocked
    /\ Exists
    /\ archive' = [archive EXCEPT !.indexed = TRUE]
    /\ operations' = [operations EXCEPT !.index = "SUCCEEDED"]
    /\ Return(r)
    /\ UNCHANGED <<documentStatus, draft, external, history>>

\* Faulty variants: the attempt is repeated without end, or given up without
\* marking the operation.
RepeatingIndexFails(r) ==
    /\ req[r].at \in IndexSteps
    /\ RowUnlocked
    /\ Goto(r, "buildIndex")
    /\ UNCHANGED <<database, external, history>>
UnmarkedIndexFails(r) ==
    /\ req[r].at \in IndexSteps
    /\ Return(r)
    /\ UNCHANGED <<database, external, history>>

IndexFails(r) ==
    /\ req[r].at \in IndexSteps
    /\ RowUnlocked
    /\ operations' = [operations EXCEPT !.index = "FAILED"]
    /\ Return(r)
    /\ UNCHANGED <<documentStatus, archive, draft, external, history>>

\* Recording the failure failed as well; that error is only logged.
IndexFailureUnrecorded(r) ==
    /\ req[r].at \in IndexSteps
    /\ faults < MaxFaults
    /\ faults' = faults + 1
    /\ Return(r)
    /\ UNCHANGED <<database, external, approved, deletions>>

-----------------------------------------------------------------------------

MayCancel(r) == Exists /\ ExpectedVersion(r) /\ archive.status = "CONFIRMED"

Cancel(r) ==
    /\ Starts(r, "CANCEL")
    /\ RowUnlocked
    /\ MayCancel(r)
    /\ archive' = [archive EXCEPT !.status = "PENDING_RECONFIRMATION",
                                  !.version = @ + 1, !.indexed = FALSE]
    /\ Goto(r, "cleanup")
    /\ UNCHANGED <<documentStatus, draft, operations, external, history>>

CancelRejected(r) ==
    /\ Starts(r, "CANCEL")
    /\ RowUnlocked
    /\ ~MayCancel(r)
    /\ Return(r)
    /\ UNCHANGED <<database, external, history>>

CancelCleanup(r) ==
    /\ req[r].at = "cleanup"
    /\ vectors' = 0
    /\ Return(r)
    /\ UNCHANGED <<database, files, history>>

\* Only last_error_code changes.
CancelCleanupFails(r) ==
    /\ req[r].at = "cleanup"
    /\ Return(r)
    /\ UNCHANGED <<database, external, history>>

PublicationStep(r) ==
    \/ Confirm(r) \/ ConfirmReplay(r) \/ ConfirmRejected(r) \/ ConfirmRefresh(r)
    \/ IndexBegin(r) \/ IndexRejected(r) \/ IndexBuild(r) \/ IndexUpsert(r)
    \/ IndexRecord(r) \/ IndexFails(r) \/ IndexFailureUnrecorded(r)
    \/ Cancel(r) \/ CancelRejected(r) \/ CancelCleanup(r) \/ CancelCleanupFails(r)
=============================================================================
