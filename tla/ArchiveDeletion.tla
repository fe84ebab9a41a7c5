--------------------------- MODULE ArchiveDeletion ---------------------------
(***************************************************************************)
(* Physical deletion across the stores.  The DELETE operation is committed *)
(* first and hides the document; then the chunks, the original, the        *)
(* snapshot file and at last the rows are deleted.  A failure leaves the   *)
(* operation FAILED, and the next call runs all the steps again.           *)
(***************************************************************************)
EXTENDS ArchiveStore

\* Faulty variant: only another deletion is waited for.
FaultyMayDelete == Exists /\ operations.delete # "RUNNING"

MayDelete == Exists /\ ~RunningOperation

\* The ORM copy of the row was loaded when the call came in.  If it still says
\* DELETING, assigning DELETING again changes nothing and nothing is written.
DeletingStatus ==
    IF documentStatus = "DELETE_FAILED" THEN {"DELETING", "DELETE_FAILED"} ELSE {"DELETING"}

DeleteBegin(r) ==
    /\ Starts(r, "DELETE")
    /\ RowUnlocked
    /\ MayDelete
    /\ documentStatus' \in DeletingStatus
    /\ operations' = [operations EXCEPT !.delete = "RUNNING"]
    /\ Goto(r, "deleteVectors")
    /\ UNCHANGED <<archive, draft, external, history>>

DeleteRejected(r) ==
    /\ Starts(r, "DELETE")
    /\ RowUnlocked
    /\ ~MayDelete
    /\ Return(r)
    /\ UNCHANGED <<database, external, history>>

DeleteVectors(r) ==
    /\ req[r].at = "deleteVectors"
    /\ vectors' = 0
    /\ Goto(r, "deleteOriginal")
    /\ UNCHANGED <<database, files, history>>

\* Which snapshot row exists is read before the files are deleted.
DeleteOriginal(r) ==
    /\ req[r].at = "deleteOriginal"
    /\ files' = [files EXCEPT !.original = FALSE]
    /\ req' = [req EXCEPT ![r].at = "deleteSnapshot", ![r].seen = archive]
    /\ UNCHANGED <<database, vectors, history>>

DeleteSnapshot(r) ==
    /\ req[r].at = "deleteSnapshot"
    /\ files' = [files EXCEPT !.snapshot = @ /\ ~req[r].seen.snapshot]
    /\ Goto(r, "deleteRows")
    /\ UNCHANGED <<database, vectors, history>>

\* One transaction: audit, field values, snapshot, operations and both rows.
DeleteRows(r) ==
    /\ req[r].at = "deleteRows"
    /\ RowUnlocked
    /\ documentStatus' = "GONE"
    /\ archive' = [archive EXCEPT !.status = "PENDING_RECONFIRMATION",
                                  !.snapshot = FALSE, !.indexed = FALSE]
    /\ draft' = NoDraft
    /\ operations' = [index |-> "NONE", delete |-> "NONE"]
    /\ deletions' = deletions + 1
    /\ Return(r)
    /\ UNCHANGED <<external, approved, faults>>

DeleteFails(r) ==
    /\ req[r].at \in DeleteSteps
    /\ documentStatus' = "DELETE_FAILED"
    /\ operations' = [operations EXCEPT !.delete = "FAILED"]
    /\ Return(r)
    /\ UNCHANGED <<archive, draft, external, history>>

\* Recording the failure failed as well; that error is only logged.
DeleteFailureUnrecorded(r) ==
    /\ req[r].at \in DeleteSteps
    /\ faults < MaxFaults
    /\ faults' = faults + 1
    /\ Return(r)
    /\ UNCHANGED <<database, external, approved, deletions>>

Delete(r) ==
    \/ DeleteBegin(r) \/ DeleteRejected(r) \/ DeleteVectors(r) \/ DeleteOriginal(r)
    \/ DeleteSnapshot(r) \/ DeleteRows(r) \/ DeleteFails(r) \/ DeleteFailureUnrecorded(r)
=============================================================================
