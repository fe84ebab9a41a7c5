--------------------------- MODULE ArchiveInvariant ---------------------------
(***************************************************************************)
(* The inductive invariant of ArchiveLifecycle: why the safety properties  *)
(* hold.  Each conjunct says what one mechanism of the code maintains.     *)
(***************************************************************************)
EXTENDS ArchiveLifecycle

\* A request only reaches the steps of its own handler.
OnOwnPath ==
    \A r \in Requests :
        /\ req[r].at = "callModel"  => req[r].op \in {"SUGGEST", "RETRY_SUGGEST"}
        /\ req[r].at = "regenerate" => req[r].op = "REGENERATE"
        /\ req[r].at = "writeField" => req[r].op = "UPDATE"
        /\ InDelete(r)              => req[r].op = "DELETE"

\* One request at a time waits for the model with the row locked, and the row
\* lock keeps the document and its unedited draft as they were.
ModelCallHoldsRow ==
    /\ \A r \in Requests : req[r].at = "callModel" => Exists /\ ~draft.edited
    /\ \A r, s \in Requests : req[r].at = "callModel" /\ req[s].at = "callModel" => r = s

\* Versions only grow, and drafts are stamped with them: what was approved is
\* never younger than the draft that is there.
RevisionsGrow ==
    /\ draft.revision <= archive.version
    /\ DraftExists => approved <= draft.revision
    /\ approved <= archive.version
    /\ draft.edited => DraftExists

\* A confirmed document has the draft that was confirmed.
ConfirmedAsApproved ==
    Exists /\ archive.status = "CONFIRMED" =>
        DraftExists /\ draft.unchecked = {} /\ draft.revision = approved

\* What the steps of a deletion removed stays removed until the rows go.
DeletionProgress ==
    /\ Exists => deletions = 0
    /\ DeletedLeavesNothing
    /\ \A r \in Requests :
         /\ req[r].at \in {"deleteOriginal", "deleteSnapshot", "deleteRows"} => vectors = 0
         /\ req[r].at \in {"deleteSnapshot", "deleteRows"} => ~files.original

\* What the statuses tell of a document that exists: past parsing it has its
\* snapshot; a suggestion that holds the row keeps it where it started; and an
\* edit that will win the race for the version writes the status it read back,
\* or replaces a failure recorded since.
StatusesAsRead ==
    /\ Exists => archive.snapshot \/ archive.status \in {"UPLOADED", "PARSE_FAILED"}
    /\ \A r \in Requests :
         /\ req[r].at = "callModel" => archive.status \in {"PARSED", "SUGGESTION_FAILED"}
         /\ req[r].at \in {"callModel", "recordFailure", "writeField"} /\ Exists
              => archive.snapshot
         /\ req[r].at = "writeField" =>
              /\ req[r].expected <= archive.version
              /\ req[r].seen.status \in EditableStatuses \union {"CONFIRMED"}
              /\ Exists /\ ExpectedVersion(r)
                   => archive.status \in {req[r].seen.status} \union FailureStatuses

\* Without cancellations only a deletion takes chunks away, and hides the
\* document before it does: what an index wrote is there when it is recorded.
IndexLeavesChunks ==
    /\ \A r \in Requests :
         /\ req[r].op # "CANCEL" /\ req[r].at # "cleanup"
         /\ req[r].at \in {"refresh", "beginIndex"} \union IndexSteps /\ Exists => DraftExists
         /\ req[r].at = "upsertIndex" => req[r].built > 0
         /\ req[r].at = "recordIndex" => vectors > 0
    /\ Exists /\ ~VisibilityBlocked /\ archive.indexed => vectors > 0

InductiveInvariant ==
    /\ TypeOK
    /\ OnOwnPath
    /\ ModelCallHoldsRow
    /\ ExclusiveExternalWork
    /\ RevisionsGrow
    /\ ConfirmedAsApproved
    /\ DeletionProgress
=============================================================================
