---------------------------- MODULE ArchiveDrafts ----------------------------
(***************************************************************************)
(* The draft: started by hand, suggested or regenerated by the model, and  *)
(* edited field by field.                                                  *)
(***************************************************************************)
EXTENDS ArchiveStore

EditableStatuses == {"PENDING_CONFIRMATION", "PENDING_RECONFIRMATION"}

\* Faulty variant: the status is not looked at.
FaultyMayStartManualDraft == Exists /\ ~DraftExists

MayStartManualDraft ==
    /\ Exists
    /\ \/ archive.status = "PARSED" /\ ~DraftExists
       \/ archive.status = "SUGGESTION_FAILED"

ManualDraft(r) ==
    /\ Starts(r, "MANUAL_DRAFT")
    /\ RowUnlocked
    /\ MayStartManualDraft
    /\ ReplaceDraft
    /\ Return(r)
    /\ UNCHANGED <<documentStatus, operations, external, history>>

ManualDraftRejected(r) ==
    /\ Starts(r, "MANUAL_DRAFT")
    /\ RowUnlocked
    /\ ~MayStartManualDraft
    /\ Return(r)
    /\ UNCHANGED <<database, external, history>>

-----------------------------------------------------------------------------

\* Faulty variant: the retry forgets that values were entered by hand.
FaultyMaySuggest(op) ==
    /\ Exists
    /\ \/ op = "SUGGEST" /\ archive.status = "PARSED" /\ ~DraftExists
       \/ op = "RETRY_SUGGEST" /\ archive.status = "SUGGESTION_FAILED"
    /\ archive.snapshot /\ files.snapshot

\* First suggestion and retry differ in the status they start from and in
\* what they would overwrite.
MaySuggest(op) ==
    /\ Exists
    /\ \/ op = "SUGGEST" /\ archive.status = "PARSED" /\ ~DraftExists
       \/ op = "RETRY_SUGGEST" /\ archive.status = "SUGGESTION_FAILED" /\ ~draft.edited
    /\ archive.snapshot /\ files.snapshot

StartsSuggestion(r) == Starts(r, "SUGGEST") \/ Starts(r, "RETRY_SUGGEST")

SuggestLock(r) ==
    /\ StartsSuggestion(r)
    /\ RowUnlocked
    /\ MaySuggest(req[r].op)
    /\ Goto(r, "callModel")
    /\ UNCHANGED <<database, external, history>>

SuggestRejected(r) ==
    /\ StartsSuggestion(r)
    /\ RowUnlocked
    /\ ~MaySuggest(req[r].op)
    /\ Return(r)
    /\ UNCHANGED <<database, external, history>>

SuggestStore(r) ==
    /\ req[r].at = "callModel"
    /\ ReplaceDraft
    /\ Return(r)
    /\ UNCHANGED <<documentStatus, operations, external, history>>

\* The model failed or its answer was refused: rollback gives the row lock
\* back before the failure is recorded.
SuggestFails(r) ==
    /\ req[r].at = "callModel"
    /\ Goto(r, "recordFailure")
    /\ UNCHANGED <<database, external, history>>

RecordSuggestionFailure(r) ==
    /\ req[r].at = "recordFailure"
    /\ RowUnlocked
    /\ archive' = IF Exists THEN [archive EXCEPT !.status = "SUGGESTION_FAILED"] ELSE archive
    /\ Return(r)
    /\ UNCHANGED <<documentStatus, draft, operations, external, history>>

-----------------------------------------------------------------------------

\* Faulty variant: the version is not compared.
FaultyMayRegenerate(r) ==
    /\ Exists
    /\ archive.status = "PENDING_CONFIRMATION"
    /\ DraftExists /\ ~draft.edited
    /\ archive.snapshot

\* Checked before the model is called and again after it answered.
MayRegenerate(r) ==
    /\ Exists
    /\ archive.status = "PENDING_CONFIRMATION"
    /\ ExpectedVersion(r)
    /\ DraftExists /\ ~draft.edited
    /\ archive.snapshot

RegenerateRead(r) ==
    /\ Starts(r, "REGENERATE")
    /\ MayRegenerate(r) /\ files.snapshot
    /\ Goto(r, "regenerate")
    /\ UNCHANGED <<database, external, history>>

RegenerateStore(r) ==
    /\ req[r].at = "regenerate"
    /\ RowUnlocked
    /\ MayRegenerate(r)
    /\ ReplaceDraft
    /\ Return(r)
    /\ UNCHANGED <<documentStatus, operations, external, history>>

\* Refused before the model call; or the model failed, or the second check did.
RegenerateRejected(r) ==
    /\ \/ Starts(r, "REGENERATE") /\ ~(MayRegenerate(r) /\ files.snapshot)
       \/ req[r].at = "regenerate"
    /\ Return(r)
    /\ UNCHANGED <<database, external, history>>

-----------------------------------------------------------------------------

MayUpdate(r) ==
    /\ Exists
    /\ archive.status \in EditableStatuses \union {"CONFIRMED"}
    /\ ExpectedVersion(r)
    /\ DraftExists

\* Faulty variants: an edit leaves a confirmed document confirmed, or writes a
\* status the schema does not know.
FaultyStatusAfterUpdate(status) == status
UnknownStatusAfterUpdate(status) ==
    IF status = "CONFIRMED" THEN "RECONFIRMING" ELSE status

StatusAfterUpdate(status) ==
    IF status = "CONFIRMED" THEN "PENDING_RECONFIRMATION" ELSE status

UpdateRead(r) ==
    /\ Starts(r, "UPDATE")
    /\ MayUpdate(r)
    /\ req' = [req EXCEPT ![r].at = "writeField", ![r].seen = archive]
    /\ UNCHANGED <<database, external, history>>

UpdateRejected(r) ==
    /\ Starts(r, "UPDATE")
    /\ ~MayUpdate(r)
    /\ Return(r)
    /\ UNCHANGED <<database, external, history>>

\* The conditional UPDATE that carries the optimistic lock.  The new status
\* comes from the copy read before.  checked: the field is now fit to be
\* confirmed.
UpdateWrite(r, f, checked) ==
    LET status == StatusAfterUpdate(req[r].seen.status) IN
    /\ req[r].at = "writeField"
    /\ RowUnlocked
    /\ Exists /\ ExpectedVersion(r)
    /\ draft' = [revision  |-> archive.version + 1,
                 unchecked |-> IF checked THEN draft.unchecked \ {f} ELSE draft.unchecked \union {f},
                 edited    |-> TRUE]
    /\ archive' = [archive EXCEPT !.status = status, !.version = @ + 1,
                                  !.indexed = @ /\ status # "PENDING_RECONFIRMATION"]
    /\ Return(r)
    /\ UNCHANGED <<documentStatus, operations, external, history>>

UpdateConflict(r) ==
    /\ req[r].at = "writeField"
    /\ RowUnlocked
    /\ ~(Exists /\ ExpectedVersion(r))
    /\ Return(r)
    /\ UNCHANGED <<database, external, history>>

DraftStep(r) ==
    \/ ManualDraft(r) \/ ManualDraftRejected(r)
    \/ SuggestLock(r) \/ SuggestRejected(r) \/ SuggestStore(r)
    \/ SuggestFails(r) \/ RecordSuggestionFailure(r)
    \/ RegenerateRead(r) \/ RegenerateStore(r) \/ RegenerateRejected(r)
    \/ UpdateRead(r) \/ UpdateRejected(r) \/ UpdateConflict(r)
    \/ \E f \in Fields, checked \in BOOLEAN : UpdateWrite(r, f, checked)
=============================================================================
