----------------------- MODULE ArchiveRefinement_proofs -----------------------
(***************************************************************************)
(* Properties of the steps of ArchiveLifecycle, from its invariant: edits  *)
(* are not lost, and the lifecycle implements FormalArchive.               *)
(***************************************************************************)
EXTENDS ArchiveInvariant_proofs

\* A step that changes the draft is one of six, by the request that takes it.
LEMMA DraftWriters ==
  ASSUME TypeOK, [Next]_vars, draft' # draft
  PROVE  \E r \in Requests :
           /\ \/ ManualDraft(r) \/ SuggestStore(r) \/ RegenerateStore(r) \/ DeleteRows(r)
              \/ \E f \in Fields, checked \in BOOLEAN : UpdateWrite(r, f, checked)
           /\ \A s \in Requests : req'[s] # req[s] => s = r
<1>1. PICK r \in Requests : Step(r)
  BY EnvironmentFrame DEF database
<1>2. ~NoRowStep(r) /\ ~Confirm(r) /\ ~Cancel(r)
  BY DEF NoRowStep, Confirm, Cancel
<1>3. RowStep(r)
  BY <1>1, <1>2, RowFrame
<1>4. \A s \in Requests : req'[s] # req[s] => s = r
  BY <1>1, OtherRequestsStay
<1> QED BY <1>2, <1>3, <1>4 DEF RowStep

\* The version check under the row lock keeps a stale client from replacing
\* values it has not read (update_field, regenerate_suggestions).
THEOREM EditsAreNotLost == Spec => NoLostEdit
<1>1. ASSUME InductiveInvariant, [Next]_vars, draft' # draft
      PROVE  ReplacesOnlySeen
  <2>1. PICK r \in Requests :
           /\ \/ ManualDraft(r) \/ SuggestStore(r) \/ RegenerateStore(r) \/ DeleteRows(r)
              \/ \E f \in Fields, checked \in BOOLEAN : UpdateWrite(r, f, checked)
           /\ \A s \in Requests : req'[s] # req[s] => s = r
    BY <1>1, DraftWriters DEF InductiveInvariant
  <2>2. CASE ManualDraft(r) \/ SuggestStore(r) \/ DeleteRows(r)
    BY <1>1, <2>1, <2>2
    DEF ReplacesOnlySeen, ManualDraft, SuggestStore, DeleteRows, Starts, InductiveInvariant,
        OnOwnPath, InDelete, DeleteSteps
  <2>3. CASE RegenerateStore(r) \/ \E f \in Fields, checked \in BOOLEAN : UpdateWrite(r, f, checked)
    <3>1. ExpectedVersion(r)
      BY <2>3 DEF RegenerateStore, MayRegenerate, UpdateWrite
    <3> QED BY <1>1, <2>1, <3>1
        DEF ReplacesOnlySeen, ExpectedVersion, InductiveInvariant, RevisionsGrow
  <2> QED BY <2>1, <2>2, <2>3
<1>2. InductiveInvariant /\ [Next]_vars => [ReplacesOnlySeen]_vars
  BY <1>1 DEF ReplacesOnlySeen
<1> QED BY <1>2, InvariantHolds, PTL DEF Spec, NoLostEdit

\* Suggestions are refused where a person entered values, also when those came
\* while the model was answering (_generate_suggestions, _ensure_regenerate_allowed).
THEOREM ManualValuesSurvive == Spec => AiKeepsManualValues
<1>1. ASSUME InductiveInvariant, [Next]_vars, draft' # draft
      PROVE  KeepsManualValues
  <2>1. PICK r \in Requests :
           /\ \/ ManualDraft(r) \/ SuggestStore(r) \/ RegenerateStore(r) \/ DeleteRows(r)
              \/ \E f \in Fields, checked \in BOOLEAN : UpdateWrite(r, f, checked)
           /\ \A s \in Requests : req'[s] # req[s] => s = r
    BY <1>1, DraftWriters DEF InductiveInvariant
  <2>2. CASE ManualDraft(r) \/ DeleteRows(r)
           \/ \E f \in Fields, checked \in BOOLEAN : UpdateWrite(r, f, checked)
    BY <1>1, <2>1, <2>2
    DEF KeepsManualValues, ManualDraft, UpdateWrite, DeleteRows, Starts, InductiveInvariant,
        OnOwnPath, InDelete, DeleteSteps
  <2>3. CASE SuggestStore(r) \/ RegenerateStore(r)
    <3>1. ~draft.edited
      BY <1>1, <2>3
      DEF SuggestStore, RegenerateStore, MayRegenerate, InductiveInvariant, ModelCallHoldsRow
    <3> QED BY <3>1 DEF KeepsManualValues
  <2> QED BY <2>1, <2>2, <2>3
<1>2. InductiveInvariant /\ [Next]_vars => [KeepsManualValues]_vars
  BY <1>1 DEF KeepsManualValues
<1> QED BY <1>2, InvariantHolds, PTL DEF Spec, AiKeepsManualValues

-----------------------------------------------------------------------------

\* A document that is gone does not come back.
LEMMA GoneStaysGone ==
  ASSUME TypeOK, ExclusiveExternalWork, NEW r \in Requests, Step(r)
  PROVE  Exists' => Exists
  BY OperationFrame
  DEF OperationStep, NoOperationStep, ConfirmReplay, IndexBegin, IndexRecord, IndexFails,
      DeleteBegin, MayDelete, DeleteRows, DeleteFails, ExclusiveExternalWork, InDelete, Exists

\* The steps that write the archive row, or on whose reading of it a later write rests.
StatusStep(r) ==
    \/ RowStep(r)
    \/ ParseFailed(r) \/ ParseCommit(r) \/ RecordSuggestionFailure(r) \/ IndexRecord(r)
    \/ SuggestLock(r) \/ SuggestFails(r) \/ UpdateRead(r)

NoStatusStep(r) ==
    /\ archive' = archive
    /\ req'[r].at \notin {"callModel", "recordFailure", "writeField"}

\* Every step is one of these or leaves the row alone.
LEMMA StatusFrame ==
  ASSUME TypeOK, NEW r \in Requests, Step(r)
  PROVE  StatusStep(r) \/ NoStatusStep(r)
<1> USE DEF StatusStep, NoStatusStep, RowStep, TypeOK, Request, Goto, Return, Idle, database,
            external
<1>1. CASE Parse(r)
  BY <1>1 DEF Parse, ParseRead, ParseRejected, ParseWriteFile, ParseRollback
<1>2. CASE DraftStep(r)
  BY <1>2 DEF DraftStep, ManualDraftRejected, SuggestRejected, RegenerateRead,
              RegenerateRejected, UpdateRejected, UpdateConflict
<1>3. CASE PublicationStep(r)
  BY <1>3 DEF PublicationStep, ConfirmReplay, ConfirmRejected, ConfirmRefresh, StartIndex,
              IndexBegin, IndexRejected, IndexBuild, IndexUpsert,
              IndexFails, IndexFailureUnrecorded, CancelRejected, CancelCleanup,
              CancelCleanupFails
<1>4. CASE Delete(r)
  BY <1>4 DEF Delete, DeleteBegin, DeleteRejected, DeleteVectors, DeleteOriginal,
              DeleteSnapshot, DeleteFails, DeleteFailureUnrecorded
<1> QED BY <1>1, <1>2, <1>3, <1>4 DEF Step

\* The steps of a suggestion and of an edit that only read the row keep
\* StatusesAsRead: what they read is what they remember.
LEMMA StatusesReadStep ==
  ASSUME InductiveInvariant, StatusesAsRead, NEW r \in Requests, Step(r),
         SuggestLock(r) \/ SuggestFails(r) \/ UpdateRead(r) \/ NoStatusStep(r)
  PROVE  StatusesAsRead'
<1> USE OtherRequestsStay, GoneStaysGone
    DEF InductiveInvariant, StatusesAsRead, TypeOK, Request, ExpectedVersion
<1>1. CASE SuggestLock(r)
  BY <1>1 DEF SuggestLock, MaySuggest, Goto, database
<1>2. CASE SuggestFails(r)
  BY <1>2 DEF SuggestFails, Goto, database
<1>3. CASE UpdateRead(r)
  BY <1>3 DEF UpdateRead, MayUpdate, EditableStatuses, database, ArchiveDocument, FailureStatuses
<1>4. CASE NoStatusStep(r)
  BY <1>4 DEF NoStatusStep
<1> QED BY <1>1, <1>2, <1>3, <1>4

\* So do the writes that give the row a new version: an edit that read an older
\* one will lose.
LEMMA StatusesVersionStep ==
  ASSUME InductiveInvariant, StatusesAsRead, NEW r \in Requests, Step(r), RowStep(r)
  PROVE  StatusesAsRead'
<1> USE OtherRequestsStay, GoneStaysGone
    DEF InductiveInvariant, TypeOK, Request, ExpectedVersion, ArchiveDocument
<1>1. /\ req'[r].at \notin {"callModel", "recordFailure", "writeField"}
      /\ \A s \in Requests : s # r => req'[s] = req[s]
  BY DEF RowStep, ManualDraft, SuggestStore, RegenerateStore, UpdateWrite, Confirm, Cancel,
         DeleteRows, Return, Goto, Idle
<1>2. \A s \in Requests : s # r => req[s].at # "callModel"
  BY DEF RowStep, ManualDraft, SuggestStore, RegenerateStore, UpdateWrite, Confirm, Cancel,
         DeleteRows, RowUnlocked, ModelCallHoldsRow
<1>3. CASE DeleteRows(r)
  BY <1>1, <1>2, <1>3 DEF DeleteRows, StatusesAsRead, Exists
<1>4. CASE ~DeleteRows(r)
  <2>1. archive'.version = archive.version + 1 /\ archive'.snapshot = archive.snapshot
    BY <1>4 DEF RowStep, ManualDraft, SuggestStore, RegenerateStore, ReplaceDraft, UpdateWrite,
                Confirm, Cancel
  <2>2. Exists => archive.snapshot
    BY <1>4 DEF RowStep, ManualDraft, MayStartManualDraft, SuggestStore, RegenerateStore,
                MayRegenerate, UpdateWrite, Confirm, MayConfirm, Cancel, MayCancel, StatusesAsRead
  <2> QED BY <1>1, <1>2, <2>1, <2>2 DEF StatusesAsRead
<1> QED BY <1>3, <1>4

\* So do the writes that keep the version: parsing is over where an edit can
\* be, and a failure is one of the statuses it may replace.
LEMMA StatusesFailureStep ==
  ASSUME InductiveInvariant, StatusesAsRead, NEW r \in Requests, Step(r),
         ParseFailed(r) \/ ParseCommit(r) \/ RecordSuggestionFailure(r) \/ IndexRecord(r)
  PROVE  StatusesAsRead'
<1> USE OtherRequestsStay, GoneStaysGone
    DEF InductiveInvariant, TypeOK, Request, ExpectedVersion, ArchiveDocument
<1>1. /\ req'[r].at = "idle" /\ UNCHANGED documentStatus
      /\ \A s \in Requests : s # r => req'[s] = req[s]
      /\ \A s \in Requests : req[s].at # "callModel"
  BY DEF ParseFailed, ParseCommit, RecordSuggestionFailure, IndexRecord, Return, Idle, RowUnlocked
<1>2. archive'.version = archive.version
  BY DEF ParseFailed, ParseCommit, RecordSuggestionFailure, IndexRecord
<1>3. CASE ParseFailed(r)
  BY <1>1, <1>2, <1>3 DEF ParseFailed, StatusesAsRead, FailureStatuses, Exists
<1>4. CASE ParseCommit(r)
  BY <1>1, <1>2, <1>4 DEF ParseCommit, StatusesAsRead, Exists
<1>5. CASE RecordSuggestionFailure(r)
  BY <1>1, <1>2, <1>5 DEF RecordSuggestionFailure, StatusesAsRead, FailureStatuses, Exists
<1>6. CASE IndexRecord(r)
  BY <1>1, <1>2, <1>6 DEF IndexRecord, StatusesAsRead, Exists
<1> QED BY <1>3, <1>4, <1>5, <1>6

\* In every reachable state a status still says what the request that wrote it
\* had read.
LEMMA StatusesHold == Spec => []StatusesAsRead
<1>1. Init => StatusesAsRead
  BY DEF Init, StatusesAsRead, Idle
<1>2. InductiveInvariant /\ StatusesAsRead /\ [Next]_vars => StatusesAsRead'
  <2> SUFFICES ASSUME InductiveInvariant, StatusesAsRead, [Next]_vars
               PROVE  StatusesAsRead'
    OBVIOUS
  <2>1. CASE \A r \in Requests : ~Step(r)
    <3>1. /\ UNCHANGED database
          /\ \A r \in Requests : req'[r] = req[r] \/ req'[r].at \in {"idle", "start"}
      BY <2>1, EnvironmentFrame DEF InductiveInvariant
    <3> QED BY <3>1 DEF StatusesAsRead, database, Exists, ExpectedVersion
  <2>2. CASE \E r \in Requests : Step(r)
    BY <2>2, StatusFrame, StatusesReadStep, StatusesVersionStep, StatusesFailureStep
    DEF StatusStep, InductiveInvariant
  <2> QED BY <2>1, <2>2
<1> QED BY <1>1, <1>2, InvariantHolds, PTL DEF Spec

\* What one step may do to the status of a document that stays.
StatusMoves ==
    Exists' /\ archive'.status # archive.status =>
        \/ <<archive.status, archive'.status>> \in StatusDiagram
        \/ archive' \in {[archive EXCEPT !.status = s] : s \in FailureStatuses}
        \/ /\ archive.status \in FailureStatuses /\ archive'.status \in EditableStatuses
           /\ archive'.version = archive.version + 1 /\ draft'.edited

\* Under every interleaving the status moves along the diagram of the design,
\* but for the two failure records and an edit that overtakes one.
THEOREM StatusMovesAlongDiagram == Spec => StatusFollowsDiagram
<1>1. ASSUME InductiveInvariant, StatusesAsRead, NEW r \in Requests, Step(r)
      PROVE  StatusMoves
  <2> USE <1>1, GoneStaysGone
      DEF StatusMoves, StatusDiagram, InductiveInvariant, TypeOK, ArchiveDocument
  <2>1. CASE ParseFailed(r) \/ RecordSuggestionFailure(r)
    BY <2>1 DEF ParseFailed, RecordSuggestionFailure, FailureStatuses
  <2>2. CASE ParseCommit(r)
    BY <2>2 DEF ParseCommit, StatusesAsRead
  <2>3. CASE ManualDraft(r)
    BY <2>3 DEF ManualDraft, MayStartManualDraft, ReplaceDraft
  <2>4. CASE SuggestStore(r)
    BY <2>4 DEF SuggestStore, ReplaceDraft, StatusesAsRead
  <2>5. CASE RegenerateStore(r)
    BY <2>5 DEF RegenerateStore, MayRegenerate, ReplaceDraft
  <2>6. ASSUME NEW f \in Fields, NEW checked \in BOOLEAN, UpdateWrite(r, f, checked)
        PROVE  StatusMoves
    <3>1. /\ archive.status \in {req[r].seen.status} \union FailureStatuses
          /\ req[r].seen.status \in EditableStatuses \union {"CONFIRMED"}
      BY <2>6 DEF UpdateWrite, StatusesAsRead
    <3>2. /\ archive'.status = StatusAfterUpdate(req[r].seen.status)
          /\ archive'.version = archive.version + 1 /\ draft'.edited
      BY <2>6 DEF UpdateWrite
    <3> QED BY <3>1, <3>2 DEF StatusAfterUpdate, EditableStatuses, FailureStatuses
  <2>7. CASE Confirm(r)
    BY <2>7 DEF Confirm, MayConfirm, ConfirmableStatuses
  <2>8. CASE Cancel(r)
    BY <2>8 DEF Cancel, MayCancel
  <2>9. CASE DeleteRows(r)
    BY <2>9 DEF DeleteRows, Exists
  <2>10. CASE IndexRecord(r)
    BY <2>10 DEF IndexRecord
  <2>11. CASE SuggestLock(r) \/ SuggestFails(r) \/ UpdateRead(r) \/ NoStatusStep(r)
    BY <2>11 DEF SuggestLock, SuggestFails, UpdateRead, NoStatusStep, database
  <2> QED BY StatusFrame, <2>1, <2>2, <2>3, <2>4, <2>5, <2>6, <2>7, <2>8, <2>9, <2>10, <2>11
          DEF StatusStep, RowStep
<1>2. InductiveInvariant /\ StatusesAsRead /\ [Next]_vars => [StatusMoves]_vars
  <2> SUFFICES ASSUME InductiveInvariant, StatusesAsRead, [Next]_vars
               PROVE  StatusMoves
    OBVIOUS
  <2>1. CASE \A r \in Requests : ~Step(r)
    BY <2>1, EnvironmentFrame DEF StatusMoves, InductiveInvariant, database
  <2> QED BY <1>1, <2>1
<1> QED BY <1>2, InvariantHolds, StatusesHold, PTL DEF Spec, StatusFollowsDiagram, StatusMoves

-----------------------------------------------------------------------------

\* The steps that touch the chunks, the record of them, or an index under way.
ChunkStep(r) ==
    \/ Confirm(r) \/ ConfirmRefresh(r) \/ ConfirmReplay(r) \/ IndexBegin(r)
    \/ IndexBuild(r) \/ IndexUpsert(r) \/ IndexRecord(r) \/ CancelCleanup(r)
    \/ DeleteBegin(r) \/ DeleteVectors(r) \/ DeleteRows(r) \/ DeleteFails(r)

NoChunkStep(r) ==
    /\ UNCHANGED vectors
    /\ VisibilityBlocked' = VisibilityBlocked
    /\ archive'.indexed => archive.indexed
    /\ DraftExists => DraftExists'
    /\ req'[r].at \notin {"refresh", "beginIndex"} \union IndexSteps
    /\ req'[r].op \in {req[r].op, "NONE"}
    /\ req'[r].at = "cleanup" => req[r].op = "CANCEL"

\* Every step is one of them, or adds nothing to what is indexed.
LEMMA ChunkFrame ==
  ASSUME InductiveInvariant, NEW r \in Requests, Step(r)
  PROVE  ChunkStep(r) \/ NoChunkStep(r)
<1> USE DEF ChunkStep, NoChunkStep, InductiveInvariant, TypeOK, ArchiveDocument, Request,
            Goto, Return, Idle, IndexSteps, VisibilityBlocked, DraftExists, database,
            external, history
<1>1. CASE Parse(r)
  <2>1. CASE ParseRead(r) \/ ParseRejected(r) \/ ParseWriteFile(r) \/ ParseRollback(r)
    BY <2>1 DEF ParseRead, ParseRejected, ParseWriteFile, ParseRollback
  <2>2. CASE ParseFailed(r) \/ ParseCommit(r)
    <3>1. archive'.indexed = archive.indexed /\ UNCHANGED <<draft, operations, vectors>>
      BY <2>2 DEF ParseFailed, ParseCommit
    <3>2. req'[r] = Idle
      BY <2>2 DEF ParseFailed, ParseCommit
    <3> QED BY <3>1, <3>2
  <2> QED BY <1>1, <2>1, <2>2 DEF Parse
<1>2. CASE DraftStep(r)
  <2>1. CASE ManualDraft(r) \/ SuggestStore(r) \/ RegenerateStore(r)
    <3>0. ReplaceDraft /\ UNCHANGED <<operations, vectors>>
      BY <2>1 DEF ManualDraft, SuggestStore, RegenerateStore
    <3>1. archive'.indexed = archive.indexed /\ draft'.revision = archive.version + 1
      BY <3>0 DEF ReplaceDraft
    <3>2. req'[r] = Idle
      BY <2>1 DEF ManualDraft, SuggestStore, RegenerateStore
    <3> QED BY <3>0, <3>1, <3>2
  <2>2. CASE \E f \in Fields, checked \in BOOLEAN : UpdateWrite(r, f, checked)
    BY <2>2 DEF UpdateWrite, Draft
  <2>3. CASE \/ ManualDraftRejected(r) \/ SuggestLock(r) \/ SuggestRejected(r)
             \/ SuggestFails(r) \/ RecordSuggestionFailure(r) \/ RegenerateRead(r)
             \/ RegenerateRejected(r) \/ UpdateRead(r) \/ UpdateRejected(r) \/ UpdateConflict(r)
    BY <2>3 DEF ManualDraftRejected, SuggestLock, SuggestRejected, SuggestFails,
                RecordSuggestionFailure, RegenerateRead, RegenerateRejected, UpdateRead,
                UpdateRejected, UpdateConflict
  <2> QED BY <1>2, <2>1, <2>2, <2>3 DEF DraftStep
<1>3. CASE PublicationStep(r)
  <2>1. CASE Cancel(r)
    BY <2>1 DEF Cancel, Starts
  <2>2. CASE \/ ConfirmRejected(r) \/ IndexRejected(r) \/ IndexFails(r)
             \/ IndexFailureUnrecorded(r) \/ CancelRejected(r) \/ CancelCleanupFails(r)
    BY <2>2 DEF ConfirmRejected, IndexRejected, IndexFails, IndexFailureUnrecorded,
                CancelRejected, CancelCleanupFails
  <2> QED BY <1>3, <2>1, <2>2 DEF PublicationStep
<1>4. CASE Delete(r)
  BY <1>4 DEF Delete, DeleteRejected, DeleteOriginal, DeleteSnapshot,
              DeleteFailureUnrecorded
<1> QED BY <1>1, <1>2, <1>3, <1>4 DEF Step

\* An index under way beside no deletion keeps its chunks; a deletion hides the
\* document before it takes them.
LEMMA ChunksStep ==
  ASSUME InductiveInvariant, IndexLeavesChunks, NEW r \in Requests, Step(r)
  PROVE  IndexLeavesChunks'
<1> USE OtherRequestsStay, GoneStaysGone DEF InductiveInvariant, TypeOK, Request
<1>0. /\ \A s \in Requests : s # r => req'[s] = req[s]
      /\ Exists' => Exists
  OBVIOUS
<1>1. CASE NoChunkStep(r)
  BY <1>0, <1>1 DEF NoChunkStep, IndexLeavesChunks, IndexSteps
<1>2. CASE Confirm(r)
  BY <1>0, <1>2 DEF Confirm, MayConfirm, Goto, IndexLeavesChunks, IndexSteps, DraftExists,
                    ArchiveDocument, VisibilityBlocked, Starts, Exists, external
<1>3. CASE ConfirmRefresh(r) \/ IndexBuild(r)
  BY <1>0, <1>3 DEF ConfirmRefresh, IndexBuild, IndexLeavesChunks, IndexSteps, DraftExists,
                    VisibilityBlocked, Exists, ExclusiveExternalWork, InIndex, Draft,
                    database, external
<1>4. CASE ConfirmReplay(r) \/ IndexBegin(r)
  <2>1. DraftExists
    BY <1>4 DEF ConfirmReplay, MayReplay, IndexBegin, MayIndex, IndexLeavesChunks, IndexSteps,
                ConfirmedAsApproved, Exists
  <2>2. /\ req'[r] = [req[r] EXCEPT !.at = "buildIndex"]
        /\ UNCHANGED <<archive, draft, documentStatus, vectors>>
        /\ operations'.delete = operations.delete
    BY <1>4 DEF ConfirmReplay, IndexBegin, StartIndex, Goto, external
  <2> QED BY <1>0, <2>1, <2>2 DEF IndexLeavesChunks, IndexSteps, VisibilityBlocked, DraftExists,
                                  Exists
<1>5. CASE IndexUpsert(r)
  BY <1>0, <1>5 DEF IndexUpsert, Goto, IndexLeavesChunks, IndexSteps, VisibilityBlocked,
                    DraftExists, Exists, database
<1>6. CASE IndexRecord(r)
  BY <1>0, <1>6 DEF IndexRecord, Return, Idle, IndexLeavesChunks, IndexSteps, DraftExists,
                    external, Exists
<1>7. CASE CancelCleanup(r)
  BY <1>7 DEF CancelCleanup, IndexLeavesChunks
<1>8. CASE DeleteBegin(r) \/ DeleteVectors(r) \/ DeleteFails(r)
  <2>1. VisibilityBlocked' /\ UNCHANGED <<archive, draft>>
    BY <1>8 DEF DeleteBegin, DeleteVectors, DeleteFails, VisibilityBlocked, InDelete,
                DeleteSteps, ExclusiveExternalWork, database
  <2>2. vectors' = vectors \/ \A s \in Requests : ~InIndex(s)
    BY <1>8 DEF DeleteBegin, DeleteVectors, DeleteFails, InIndex, InDelete, IndexSteps,
                DeleteSteps, ExclusiveExternalWork, external
  <2>3. req'[r].at \notin {"refresh", "beginIndex", "cleanup"} \union IndexSteps
    BY <1>8 DEF DeleteBegin, DeleteVectors, DeleteFails, Goto, Return, Idle, IndexSteps
  <2>4. req'[r].op \in {req[r].op, "NONE"}
    BY <1>8 DEF DeleteBegin, DeleteVectors, DeleteFails, Goto, Return, Idle
  <2> QED BY <1>0, <2>1, <2>2, <2>3, <2>4 DEF IndexLeavesChunks, InIndex, IndexSteps, DraftExists
<1>9. CASE DeleteRows(r)
  BY <1>0, <1>9 DEF DeleteRows, Return, Idle, IndexLeavesChunks, IndexSteps, Exists, external
<1> QED BY ChunkFrame, <1>1, <1>2, <1>3, <1>4, <1>5, <1>6, <1>7, <1>8, <1>9 DEF ChunkStep

\* As long as nobody cancels a confirmation, a visible document that is listed
\* as indexed has its chunks in the collection (_run_index_operation,
\* delete_archive_document).  A cancellation deletes chunks in no order with a
\* later index, so the theorem is about the clients that do not cancel.
THEOREM IndexedIsSearchable ==
  ASSUME "CANCEL" \notin Operations
  PROVE  Spec => []IndexedMeansSearchable
<1>1. Init => IndexLeavesChunks
  BY DEF Init, IndexLeavesChunks, Idle, IndexSteps
<1>2. InductiveInvariant /\ IndexLeavesChunks /\ [Next]_vars => IndexLeavesChunks'
  <2> SUFFICES ASSUME InductiveInvariant, IndexLeavesChunks, [Next]_vars
               PROVE  IndexLeavesChunks'
    OBVIOUS
  <2>1. CASE \A r \in Requests : ~Step(r)
    <3>1. UNCHANGED <<database, external>>
      BY <2>1, EnvironmentFrame DEF InductiveInvariant
    <3>2. \A r \in Requests :
             req'[r] = req[r] \/ (req'[r].at \in {"idle", "start"} /\ req'[r].op # "CANCEL")
      <4>1. ASSUME NEW r \in Requests, NEW op \in Operations, Call(r, op)
            PROVE  /\ req'[r].at = "start" /\ req'[r].op # "CANCEL"
                   /\ \A s \in Requests : s # r => req'[s] = req[s]
        BY <4>1 DEF Call, Idle, InductiveInvariant, TypeOK
      <4>2. CASE Crash
        BY <4>2 DEF Crash, Idle
      <4>3. CASE UNCHANGED vars
        BY <4>3 DEF vars
      <4> QED BY <2>1, <4>1, <4>2, <4>3 DEF Next, Rest
    <3> QED BY <3>1, <3>2 DEF IndexLeavesChunks, IndexSteps, Exists, DraftExists,
                              VisibilityBlocked, database, external
  <2>2. CASE \E r \in Requests : Step(r)
    BY <2>2, ChunksStep
  <2> QED BY <2>1, <2>2
<1>3. IndexLeavesChunks => IndexedMeansSearchable
  BY DEF IndexLeavesChunks, IndexedMeansSearchable, FormallyVisible
<1> QED BY <1>1, <1>2, <1>3, InvariantHolds, PTL DEF Spec

-----------------------------------------------------------------------------

FormalStutter == UNCHANGED <<Phase, Content>>

\* In every phase the content is what was last approved: where the document is
\* visible, that is the draft there is.
LEMMA ContentIsApproved ==
  ASSUME InductiveInvariant
  PROVE  Content = approved /\ approved \in Nat
  BY DEF InductiveInvariant, ConfirmedAsApproved, Content, Phase, TypeOK, Exists

LEMMA OperationStepsRefine ==
  ASSUME InductiveInvariant, InductiveInvariant', NEW r \in Requests, Step(r),
         OperationStep(r)
  PROVE  Formal!Next \/ FormalStutter
<1> USE ContentIsApproved
    DEF InductiveInvariant, TypeOK, Exists, VisibilityBlocked, Phase
<1>0. Content' = approved' /\ approved' \in Nat
  BY DEF ConfirmedAsApproved, Content
<1>1. CASE ConfirmReplay(r) \/ IndexBegin(r) \/ IndexRecord(r) \/ IndexFails(r)
  <2>1. /\ UNCHANGED <<documentStatus, approved>> /\ archive'.status = archive.status
        /\ operations'.delete = operations.delete
    BY <1>1 DEF ConfirmReplay, IndexBegin, IndexRecord, IndexFails, StartIndex, ArchiveDocument,
                history
  <2> QED BY <1>0, <2>1 DEF FormalStutter
<1>2. CASE DeleteBegin(r)
  <2>1. /\ Exists /\ documentStatus' # "GONE" /\ operations'.delete = "RUNNING"
        /\ approved' = approved
    BY <1>2 DEF DeleteBegin, DeletingStatus, MayDelete, history
  <2>2. Phase' = "HIDDEN" /\ Content' = Content /\ Phase \in {"DRAFT", "FORMAL", "HIDDEN"}
    BY <1>0, <2>1
  <2> QED BY <2>2 DEF FormalStutter, Formal!Next, Formal!Hide
<1>3. CASE DeleteFails(r) \/ DeleteRows(r)
  <2>1. Phase = "HIDDEN"
    BY <1>3 DEF DeleteFails, DeleteRows, ExclusiveExternalWork, InDelete, DeleteSteps
  <2>2. Content' = Content
    BY <1>0, <1>3 DEF DeleteFails, DeleteRows, history
  <2>3. Phase' \in {"HIDDEN", "GONE"}
    BY <1>3 DEF DeleteFails, DeleteRows
  <2> QED BY <2>1, <2>2, <2>3 DEF FormalStutter, Formal!Next, Formal!Remove
<1> QED BY <1>1, <1>2, <1>3 DEF OperationStep

LEMMA RowStepsRefine ==
  ASSUME InductiveInvariant, InductiveInvariant', NEW r \in Requests, Step(r),
         NoOperationStep(r)
  PROVE  Formal!Next \/ FormalStutter
<1> USE ContentIsApproved
<1>0. Content' = approved' /\ approved' \in Nat
  BY DEF InductiveInvariant, ConfirmedAsApproved, Content, Phase, TypeOK, Exists
<1>1. Exists' = Exists /\ VisibilityBlocked' = VisibilityBlocked
  BY DEF NoOperationStep, Exists, VisibilityBlocked
<1>2. CASE Confirm(r)
  <2>1. /\ Exists /\ archive.status # "CONFIRMED" /\ archive'.status = "CONFIRMED"
        /\ approved' = draft.revision /\ draft.revision > 0
    BY <1>2 DEF Confirm, MayConfirm, ConfirmableStatuses, DraftExists, InductiveInvariant, TypeOK,
                ArchiveDocument
  <2>2. approved' >= approved /\ approved' > 0
    BY <2>1 DEF InductiveInvariant, RevisionsGrow, DraftExists
  <2>3. \/ Phase = "HIDDEN" /\ Phase' = "HIDDEN"
        \/ Phase = "DRAFT" /\ Phase' = "FORMAL"
    BY <1>1, <2>1 DEF Phase
  <2> QED BY <1>0, <2>2, <2>3 DEF Formal!Next, Formal!Publish, Formal!ApproveHidden
<1>3. CASE ~Confirm(r)
  <2>1. approved' = approved
    <3>1. CASE NoRowStep(r)
      BY <3>1 DEF NoRowStep
    <3>2. CASE RowStep(r)
      BY <1>3, <3>2
      DEF RowStep, ManualDraft, SuggestStore, RegenerateStore, UpdateWrite, Cancel, DeleteRows,
          history
    <3> QED BY <3>1, <3>2, RowFrame DEF InductiveInvariant
  <2>2. archive'.status = "CONFIRMED" => archive.status = "CONFIRMED"
    <3>1. CASE NoRowStep(r)
      BY <3>1 DEF NoRowStep
    <3>2. CASE RowStep(r)
      BY <1>3, <3>2
      DEF RowStep, ManualDraft, SuggestStore, RegenerateStore, ReplaceDraft, UpdateWrite,
          StatusAfterUpdate, Cancel, DeleteRows, InductiveInvariant, TypeOK, ArchiveDocument
    <3> QED BY <3>1, <3>2, RowFrame DEF InductiveInvariant
  <2>3. Phase' = Phase \/ (Phase = "FORMAL" /\ Phase' = "DRAFT")
    BY <1>1, <2>2 DEF Phase
  <2> QED BY <1>0, <2>1, <2>3 DEF FormalStutter, Formal!Next, Formal!Withdraw
<1> QED BY <1>2, <1>3

\* Every behaviour of the stores and the concurrent requests is one the readers
\* of the formal archive were promised.
THEOREM LifecycleImplementsFormalArchive == Spec => ImplementsFormalArchive
<1>1. Init => Formal!Init
  BY DEF Init, Formal!Init, Phase, Content, Exists, VisibilityBlocked
<1>2. InductiveInvariant /\ InductiveInvariant' /\ [Next]_vars
        => [Formal!Next]_<<Phase, Content>>
  <2> SUFFICES ASSUME InductiveInvariant, InductiveInvariant', [Next]_vars
               PROVE  Formal!Next \/ FormalStutter
    BY DEF FormalStutter
  <2>1. CASE \A r \in Requests : ~Step(r)
    BY <2>1, EnvironmentFrame
    DEF FormalStutter, InductiveInvariant, Phase, Content, Exists, VisibilityBlocked, database
  <2>2. CASE \E r \in Requests : Step(r)
    BY <2>2, OperationFrame, OperationStepsRefine, RowStepsRefine DEF InductiveInvariant
  <2> QED BY <2>1, <2>2
<1> QED BY <1>1, <1>2, InvariantHolds, PTL DEF Spec, ImplementsFormalArchive, Formal!Spec
=============================================================================
