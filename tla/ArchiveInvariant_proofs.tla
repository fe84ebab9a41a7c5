----------------------- MODULE ArchiveInvariant_proofs -----------------------
EXTENDS ArchiveInvariant, TLAPS

\* The records a request starts from are of the declared types.
LEMMA IdleIsRequest == Idle \in Request /\ NoCopy \in ArchiveDocument
  BY DEF Idle, NoCopy, Request, ArchiveDocument, Steps, AllOperations,
         ArchiveDocumentStatus

\* The state an upload commits is well typed.
LEMMA TypeOKInit == Init => TypeOK
  BY IdleIsRequest
  DEF Init, TypeOK, ArchiveDocument, ArchiveDocumentStatus, DocumentStatus, Draft, NoDraft,
      ArchiveOperationStatus

\* How a handler may move its request record.
LEMMA MoveTypes ==
  ASSUME TypeOK, NEW r \in Requests
  PROVE  /\ [req EXCEPT ![r] = Idle] \in [Requests -> Request]
         /\ \A step \in Steps : [req EXCEPT ![r].at = step] \in [Requests -> Request]
         /\ \A step \in Steps :
              [req EXCEPT ![r].at = step, ![r].seen = archive] \in [Requests -> Request]
         /\ \A step \in Steps :
              [req EXCEPT ![r].at = step, ![r].built = draft.revision] \in [Requests -> Request]
  BY IdleIsRequest DEF TypeOK, Request, Draft

\* The next version of the archive row and of the draft.
LEMMA NextRowTypes ==
  ASSUME TypeOK, NEW status \in ArchiveDocumentStatus, NEW b \in BOOLEAN
  PROVE  /\ archive.version + 1 \in Nat
         /\ [archive EXCEPT !.status = status, !.version = @ + 1] \in ArchiveDocument
         /\ [archive EXCEPT !.status = status, !.version = @ + 1, !.indexed = b]
               \in ArchiveDocument
<1>1. archive.version + 1 \in Nat
  BY DEF TypeOK, ArchiveDocument
<1>2. ASSUME NEW n \in Nat
      PROVE  /\ [archive EXCEPT !.status = status, !.version = n] \in ArchiveDocument
             /\ [archive EXCEPT !.status = status, !.version = n, !.indexed = b]
                  \in ArchiveDocument
  BY DEF TypeOK, ArchiveDocument
<1> QED BY <1>1, <1>2

\* A new set of field values leaves the row and the draft well typed.
LEMMA ReplaceDraftTypes ==
  ASSUME TypeOK, ReplaceDraft
  PROVE  draft' \in Draft /\ archive' \in ArchiveDocument
<1>1. "PENDING_CONFIRMATION" \in ArchiveDocumentStatus
  BY DEF ArchiveDocumentStatus
<1>2. archive' \in ArchiveDocument
  BY <1>1, NextRowTypes DEF ReplaceDraft
<1>3. draft' \in Draft
  BY <1>1, NextRowTypes DEF ReplaceDraft, Draft
<1> QED BY <1>2, <1>3

\* Parsing keeps the types.
LEMMA TypeOKParse ==
  ASSUME TypeOK, NEW r \in Requests, Parse(r)
  PROVE  TypeOK'
<1> USE DEF Steps, ParseSteps, Goto, Return, database, external, history
<1>1. CASE ParseRead(r)
  BY <1>1, MoveTypes DEF ParseRead, TypeOK
<1>2. CASE ParseRejected(r)
  BY <1>2, MoveTypes DEF ParseRejected, TypeOK
<1>3. CASE ParseWriteFile(r)
  BY <1>3, MoveTypes DEF ParseWriteFile, TypeOK
<1>4. CASE ParseFailed(r)
  BY <1>4, MoveTypes DEF ParseFailed, TypeOK, ArchiveDocument, ArchiveDocumentStatus
<1>5. CASE ParseCommit(r)
  BY <1>5, MoveTypes DEF ParseCommit, TypeOK, ArchiveDocument, ArchiveDocumentStatus
<1>6. CASE ParseRollback(r)
  BY <1>6, MoveTypes DEF ParseRollback, TypeOK
<1> QED BY <1>1, <1>2, <1>3, <1>4, <1>5, <1>6 DEF Parse

\* Manual drafts, suggestions, regenerations and edits keep the types.
LEMMA TypeOKDraftStep ==
  ASSUME TypeOK, NEW r \in Requests, DraftStep(r)
  PROVE  TypeOK'
<1> USE DEF Steps, Goto, Return, database, external, history
<1>1. CASE ManualDraft(r)
  <2>1. draft' \in Draft /\ archive' \in ArchiveDocument
    BY <1>1, ReplaceDraftTypes DEF ManualDraft
  <2> QED BY <1>1, MoveTypes, <2>1 DEF ManualDraft, TypeOK
<1>2. CASE ManualDraftRejected(r)
  BY <1>2, MoveTypes DEF ManualDraftRejected, TypeOK
<1>3. CASE SuggestLock(r)
  BY <1>3, MoveTypes DEF SuggestLock, TypeOK
<1>4. CASE SuggestRejected(r)
  BY <1>4, MoveTypes DEF SuggestRejected, TypeOK
<1>5. CASE SuggestStore(r)
  <2>1. draft' \in Draft /\ archive' \in ArchiveDocument
    BY <1>5, ReplaceDraftTypes DEF SuggestStore
  <2> QED BY <1>5, MoveTypes, <2>1 DEF SuggestStore, TypeOK
<1>6. CASE SuggestFails(r)
  BY <1>6, MoveTypes DEF SuggestFails, TypeOK
<1>7. CASE RecordSuggestionFailure(r)
  BY <1>7, MoveTypes DEF RecordSuggestionFailure, TypeOK, ArchiveDocument, ArchiveDocumentStatus
<1>8. CASE RegenerateRead(r)
  BY <1>8, MoveTypes DEF RegenerateRead, TypeOK
<1>9. CASE RegenerateStore(r)
  <2>1. draft' \in Draft /\ archive' \in ArchiveDocument
    BY <1>9, ReplaceDraftTypes DEF RegenerateStore
  <2> QED BY <1>9, MoveTypes, <2>1 DEF RegenerateStore, TypeOK
<1>10. CASE RegenerateRejected(r)
  BY <1>10, MoveTypes DEF RegenerateRejected, TypeOK
<1>11. CASE UpdateRead(r)
  BY <1>11, MoveTypes DEF UpdateRead, TypeOK
<1>12. CASE UpdateRejected(r)
  BY <1>12, MoveTypes DEF UpdateRejected, TypeOK
<1>13. CASE UpdateConflict(r)
  BY <1>13, MoveTypes DEF UpdateConflict, TypeOK
<1>14. ASSUME NEW f \in Fields, NEW checked \in BOOLEAN, UpdateWrite(r, f, checked)
       PROVE  TypeOK'
  <2> DEFINE status == StatusAfterUpdate(req[r].seen.status)
  <2>1. status \in ArchiveDocumentStatus
    BY DEF TypeOK, Request, ArchiveDocument, ArchiveDocumentStatus, StatusAfterUpdate
  <2>2. (archive.indexed /\ status # "PENDING_RECONFIRMATION") \in BOOLEAN
    OBVIOUS
  <2>3. archive' \in ArchiveDocument
    BY <1>14, <2>1, <2>2, NextRowTypes DEF UpdateWrite
  <2>4. draft' \in Draft
    BY <1>14, <2>1, NextRowTypes DEF UpdateWrite, TypeOK, Draft
  <2> QED BY <1>14, MoveTypes, <2>3, <2>4 DEF UpdateWrite, TypeOK
<1> QED BY <1>1, <1>2, <1>3, <1>4, <1>5, <1>6, <1>7, <1>8, <1>9, <1>10, <1>11, <1>12, <1>13, <1>14 DEF DraftStep

\* Confirmation, indexing and cancellation keep the types.
LEMMA TypeOKPublicationStep ==
  ASSUME TypeOK, NEW r \in Requests, PublicationStep(r)
  PROVE  TypeOK'
<1> USE DEF Steps, IndexSteps, Goto, Return, database, external, history
<1>1. CASE Confirm(r)
  <2>1. "CONFIRMED" \in ArchiveDocumentStatus
    BY DEF ArchiveDocumentStatus
  <2>2. archive' \in ArchiveDocument
    BY <1>1, <2>1, NextRowTypes DEF Confirm
  <2> QED BY <1>1, MoveTypes, <2>2 DEF Confirm, TypeOK, Draft
<1>2. CASE ConfirmReplay(r)
  BY <1>2, MoveTypes DEF ConfirmReplay, TypeOK, ArchiveOperationStatus, StartIndex
<1>3. CASE ConfirmRejected(r)
  BY <1>3, MoveTypes DEF ConfirmRejected, TypeOK
<1>4. CASE ConfirmRefresh(r)
  BY <1>4, MoveTypes DEF ConfirmRefresh, TypeOK
<1>5. CASE IndexBegin(r)
  BY <1>5, MoveTypes DEF IndexBegin, TypeOK, ArchiveOperationStatus, StartIndex
<1>6. CASE IndexRejected(r)
  BY <1>6, MoveTypes DEF IndexRejected, TypeOK
<1>7. CASE IndexBuild(r)
  BY <1>7, MoveTypes DEF IndexBuild, TypeOK
<1>8. CASE IndexUpsert(r)
  BY <1>8, MoveTypes DEF IndexUpsert, TypeOK, Request
<1>9. CASE IndexRecord(r)
  BY <1>9, MoveTypes DEF IndexRecord, TypeOK, ArchiveDocument, ArchiveDocumentStatus, ArchiveOperationStatus
<1>10. CASE IndexFails(r)
  BY <1>10, MoveTypes DEF IndexFails, TypeOK, ArchiveOperationStatus
<1>11. CASE IndexFailureUnrecorded(r)
  <2>1. faults' \in Nat
    BY <1>11 DEF IndexFailureUnrecorded, TypeOK
  <2>2. req' \in [Requests -> Request]
    BY <1>11, MoveTypes DEF IndexFailureUnrecorded
  <2> QED BY <1>11, MoveTypes, <2>1, <2>2 DEF IndexFailureUnrecorded, TypeOK
<1>12. CASE Cancel(r)
  <2>1. "PENDING_RECONFIRMATION" \in ArchiveDocumentStatus
    BY DEF ArchiveDocumentStatus
  <2>2. archive' \in ArchiveDocument
    BY <1>12, <2>1, NextRowTypes DEF Cancel
  <2> QED BY <1>12, MoveTypes, <2>2 DEF Cancel, TypeOK
<1>13. CASE CancelRejected(r)
  BY <1>13, MoveTypes DEF CancelRejected, TypeOK
<1>14. CASE CancelCleanup(r)
  BY <1>14, MoveTypes DEF CancelCleanup, TypeOK
<1>15. CASE CancelCleanupFails(r)
  BY <1>15, MoveTypes DEF CancelCleanupFails, TypeOK
<1> QED BY <1>1, <1>2, <1>3, <1>4, <1>5, <1>6, <1>7, <1>8, <1>9, <1>10, <1>11, <1>12, <1>13, <1>14, <1>15 DEF PublicationStep

\* Deletion keeps the types.
LEMMA TypeOKDelete ==
  ASSUME TypeOK, NEW r \in Requests, Delete(r)
  PROVE  TypeOK'
<1> USE DEF Steps, DeleteSteps, Goto, Return, database, external, history
<1>1. CASE DeleteBegin(r)
  BY <1>1, MoveTypes DEF DeleteBegin, TypeOK, DeletingStatus, ArchiveOperationStatus, DocumentStatus
<1>2. CASE DeleteRejected(r)
  BY <1>2, MoveTypes DEF DeleteRejected, TypeOK
<1>3. CASE DeleteVectors(r)
  BY <1>3, MoveTypes DEF DeleteVectors, TypeOK
<1>4. CASE DeleteOriginal(r)
  BY <1>4, MoveTypes DEF DeleteOriginal, TypeOK
<1>5. CASE DeleteSnapshot(r)
  BY <1>5, MoveTypes DEF DeleteSnapshot, TypeOK
<1>6. CASE DeleteRows(r)
  <2>1. deletions' \in Nat
    BY <1>6 DEF DeleteRows, TypeOK
  <2>2. archive' \in ArchiveDocument
    BY <1>6 DEF DeleteRows, TypeOK, ArchiveDocument, ArchiveDocumentStatus
  <2>3. /\ documentStatus' \in DocumentStatus
        /\ draft' \in Draft
        /\ operations' \in [index : ArchiveOperationStatus, delete : ArchiveOperationStatus]
    BY <1>6 DEF DeleteRows, DocumentStatus, Draft, NoDraft, ArchiveOperationStatus
  <2>4. req' \in [Requests -> Request]
    BY <1>6, MoveTypes DEF DeleteRows
  <2> QED BY <1>6, MoveTypes, <2>1, <2>2, <2>3, <2>4 DEF DeleteRows, TypeOK
<1>7. CASE DeleteFails(r)
  BY <1>7, MoveTypes DEF DeleteFails, TypeOK, ArchiveOperationStatus, DocumentStatus
<1>8. CASE DeleteFailureUnrecorded(r)
  <2>1. faults' \in Nat
    BY <1>8 DEF DeleteFailureUnrecorded, TypeOK
  <2>2. req' \in [Requests -> Request]
    BY <1>8, MoveTypes DEF DeleteFailureUnrecorded
  <2> QED BY <1>8, MoveTypes, <2>1, <2>2 DEF DeleteFailureUnrecorded, TypeOK
<1> QED BY <1>1, <1>2, <1>3, <1>4, <1>5, <1>6, <1>7, <1>8 DEF Delete

\* Every step keeps the types.
LEMMA TypeOKNext == TypeOK /\ [Next]_vars => TypeOK'
<1> SUFFICES ASSUME TypeOK, [Next]_vars PROVE TypeOK'
  OBVIOUS
<1>1. ASSUME NEW r \in Requests, NEW op \in Operations, Call(r, op)
      PROVE  TypeOK'
  <2>1. [Idle EXCEPT !.op = op, !.at = "start",
                     !.expected = IF op \in VersionedOperations THEN archive.version ELSE 0]
          \in Request
    BY OperationsAssumption, IdleIsRequest
    DEF TypeOK, Idle, Request, ArchiveDocument, Steps
  <2> QED BY <1>1, MoveTypes, <2>1 DEF Call, TypeOK, database, external, history
<1>2. ASSUME NEW r \in Requests, Step(r)
      PROVE  TypeOK'
  BY <1>2, TypeOKParse, TypeOKDraftStep, TypeOKPublicationStep, TypeOKDelete DEF Step
<1>3. CASE Crash
  BY <1>3, IdleIsRequest DEF Crash, TypeOK, database, external
<1>4. CASE UNCHANGED vars
  BY <1>4 DEF vars, TypeOK
<1> QED BY <1>1, <1>2, <1>3, <1>4 DEF Next, Rest

\* The stores and the requests stay within their types, whatever the number
\* of requests, fields, versions and faults.
THEOREM TypeCorrect == Spec => []TypeOK
<1>1. Init => TypeOK
  BY TypeOKInit
<1>2. TypeOK /\ [Next]_vars => TypeOK'
  BY TypeOKNext
<1> QED BY <1>1, <1>2, PTL DEF Spec

-----------------------------------------------------------------------------
(* Frames: which steps can touch what.  Each says that a step is one of a  *)
(* few actions or leaves a part of the state alone.                        *)

\* The steps that change an operation or the existence of the document.
OperationStep(r) ==
    \/ ConfirmReplay(r) \/ IndexBegin(r) \/ IndexRecord(r) \/ IndexFails(r)
    \/ DeleteBegin(r) \/ DeleteRows(r) \/ DeleteFails(r)

NoOperationStep(r) ==
    /\ UNCHANGED <<documentStatus, operations>>
    /\ InIndex(r)' => InIndex(r)
    /\ InDelete(r)' => InDelete(r)

\* A handler moves no request but its own.
LEMMA OtherRequestsStay ==
  ASSUME TypeOK, NEW r \in Requests, Step(r), NEW s \in Requests, s # r
  PROVE  req'[s] = req[s]
<1> USE DEF Goto, Return, TypeOK
<1>1. CASE Parse(r)
  BY <1>1 DEF Parse, ParseRead, ParseRejected, ParseWriteFile, ParseFailed, ParseCommit,
              ParseRollback
<1>2. CASE DraftStep(r)
  BY <1>2 DEF DraftStep, ManualDraft, ManualDraftRejected, SuggestLock, SuggestRejected,
              SuggestStore, SuggestFails, RecordSuggestionFailure, RegenerateRead,
              RegenerateStore, RegenerateRejected, UpdateRead, UpdateRejected,
              UpdateConflict, UpdateWrite
<1>3. CASE PublicationStep(r)
  BY <1>3 DEF PublicationStep, Confirm, ConfirmReplay, ConfirmRejected, ConfirmRefresh,
              StartIndex, IndexBegin, IndexRejected, IndexBuild, IndexUpsert, IndexRecord,
              IndexFails, IndexFailureUnrecorded, Cancel, CancelRejected, CancelCleanup,
              CancelCleanupFails
<1>4. CASE Delete(r)
  BY <1>4 DEF Delete, DeleteBegin, DeleteRejected, DeleteVectors, DeleteOriginal,
              DeleteSnapshot, DeleteRows, DeleteFails, DeleteFailureUnrecorded
<1> QED BY <1>1, <1>2, <1>3, <1>4 DEF Step

\* Every step is one that writes the operations or leaves them alone.
LEMMA OperationFrame ==
  ASSUME TypeOK, NEW r \in Requests, Step(r)
  PROVE  OperationStep(r) \/ NoOperationStep(r)
<1> USE DEF OperationStep, NoOperationStep, InIndex, InDelete, IndexSteps, DeleteSteps,
            Goto, Return, Idle, TypeOK, Request, database, external, history
<1>1. CASE Parse(r)
  BY <1>1 DEF Parse, ParseRead, ParseRejected, ParseWriteFile, ParseFailed, ParseCommit,
              ParseRollback
<1>2. CASE DraftStep(r)
  BY <1>2 DEF DraftStep, ManualDraft, ManualDraftRejected, SuggestLock, SuggestRejected,
              SuggestStore, SuggestFails, RecordSuggestionFailure, RegenerateRead,
              RegenerateStore, RegenerateRejected, UpdateRead, UpdateRejected,
              UpdateConflict, UpdateWrite
<1>3. CASE PublicationStep(r)
  BY <1>3 DEF PublicationStep, Confirm, ConfirmRejected, ConfirmRefresh,
              IndexRejected, IndexBuild, IndexUpsert,
              IndexFailureUnrecorded, Cancel, CancelRejected, CancelCleanup,
              CancelCleanupFails
<1>4. CASE Delete(r)
  BY <1>4 DEF Delete, DeleteRejected, DeleteVectors, DeleteOriginal,
              DeleteSnapshot, DeleteFailureUnrecorded
<1> QED BY <1>1, <1>2, <1>3, <1>4 DEF Step

\* The steps that write the draft, the version or the approval.
RowStep(r) ==
    \/ ManualDraft(r) \/ SuggestStore(r) \/ RegenerateStore(r)
    \/ \E f \in Fields, checked \in BOOLEAN : UpdateWrite(r, f, checked)
    \/ Confirm(r) \/ Cancel(r) \/ DeleteRows(r)

NoRowStep(r) ==
    /\ UNCHANGED <<draft, approved>> /\ archive'.version = archive.version
    /\ archive'.status = "CONFIRMED" => archive.status = "CONFIRMED"

\* Every step is one that writes the draft, the version or the approval, or
\* leaves them alone and confirms nothing.
LEMMA RowFrame ==
  ASSUME TypeOK, NEW r \in Requests, Step(r)
  PROVE  RowStep(r) \/ NoRowStep(r)
<1> USE DEF RowStep, NoRowStep, TypeOK, ArchiveDocument, database, external, history
<1>1. CASE Parse(r)
  BY <1>1 DEF Parse, ParseRead, ParseRejected, ParseWriteFile, ParseFailed, ParseCommit,
              ParseRollback
<1>2. CASE DraftStep(r)
  BY <1>2 DEF DraftStep, ManualDraftRejected, SuggestLock, SuggestRejected, SuggestFails,
              RecordSuggestionFailure, RegenerateRead, RegenerateRejected, UpdateRead,
              UpdateRejected, UpdateConflict
<1>3. CASE PublicationStep(r)
  BY <1>3 DEF PublicationStep, ConfirmReplay, ConfirmRejected, ConfirmRefresh,
              IndexBegin, IndexRejected, IndexBuild, IndexUpsert, IndexRecord,
              IndexFails, IndexFailureUnrecorded, CancelRejected, CancelCleanup,
              CancelCleanupFails
<1>4. CASE Delete(r)
  BY <1>4 DEF Delete, DeleteBegin, DeleteRejected, DeleteVectors, DeleteOriginal,
              DeleteSnapshot, DeleteFails, DeleteFailureUnrecorded
<1> QED BY <1>1, <1>2, <1>3, <1>4 DEF Step

\* The steps that remove something, or put chunks into the collection.
StoreStep(r) ==
    \/ IndexUpsert(r) \/ DeleteVectors(r) \/ DeleteOriginal(r) \/ DeleteSnapshot(r)
    \/ DeleteRows(r)

NoStoreStep(r) ==
    /\ files'.original = files.original /\ deletions' = deletions
    /\ vectors' \in {vectors, 0}
    /\ req'[r].at \notin {"deleteOriginal", "deleteSnapshot", "deleteRows"}

\* Every step is one that works on the stores for an INDEX or a DELETE, or
\* adds neither a chunk nor an original.
LEMMA StoreFrame ==
  ASSUME TypeOK, NEW r \in Requests, Step(r)
  PROVE  StoreStep(r) \/ NoStoreStep(r)
<1> USE DEF StoreStep, NoStoreStep, TypeOK, Goto, Return, Idle, Request, database, external,
            history
<1>1. CASE Parse(r)
  BY <1>1 DEF Parse, ParseRead, ParseRejected, ParseWriteFile, ParseFailed, ParseCommit,
              ParseRollback
<1>2. CASE DraftStep(r)
  BY <1>2 DEF DraftStep, ManualDraft, ManualDraftRejected, SuggestLock, SuggestRejected,
              SuggestStore, SuggestFails, RecordSuggestionFailure, RegenerateRead,
              RegenerateStore, RegenerateRejected, UpdateRead, UpdateRejected,
              UpdateConflict, UpdateWrite
<1>3. CASE PublicationStep(r)
  BY <1>3 DEF PublicationStep, Confirm, ConfirmReplay, ConfirmRejected, ConfirmRefresh,
              StartIndex, IndexBegin, IndexRejected, IndexBuild, IndexRecord,
              IndexFails, IndexFailureUnrecorded, Cancel, CancelRejected, CancelCleanup,
              CancelCleanupFails
<1>4. CASE Delete(r)
  BY <1>4 DEF Delete, DeleteBegin, DeleteRejected, DeleteFails, DeleteFailureUnrecorded
<1> QED BY <1>1, <1>2, <1>3, <1>4 DEF Step

-----------------------------------------------------------------------------

\* Calls, crashes and idling start no step of a handler.
LEMMA EnvironmentFrame ==
  ASSUME TypeOK, [Next]_vars, \A r \in Requests : ~Step(r)
  PROVE  /\ UNCHANGED <<database, external, approved, deletions>>
         /\ \A r \in Requests : req'[r] = req[r] \/ req'[r].at \in {"idle", "start"}
<1>1. CASE UNCHANGED vars
  BY <1>1 DEF vars, database, external
<1>2. CASE Crash
  BY <1>2 DEF Crash, Idle
<1>3. ASSUME NEW r \in Requests, NEW op \in Operations, Call(r, op)
      PROVE  /\ UNCHANGED <<database, external, approved, deletions>>
             /\ \A s \in Requests : req'[s] = req[s] \/ req'[s].at \in {"idle", "start"}
  BY <1>3 DEF Call, TypeOK, Idle, history
<1> QED BY <1>1, <1>2, <1>3 DEF Next, Rest

\* The RUNNING row of the operations table keeps external work exclusive.
LEMMA ExclusiveStep ==
  ASSUME TypeOK, ExclusiveExternalWork, NEW r \in Requests, Step(r)
  PROVE  ExclusiveExternalWork'
<1> USE OtherRequestsStay
    DEF ExclusiveExternalWork, InIndex, InDelete, IndexSteps, DeleteSteps, Exists, Goto, Return,
        Idle, TypeOK
<1>1. CASE NoOperationStep(r)
  BY <1>1 DEF NoOperationStep
<1>2. CASE ConfirmReplay(r) \/ IndexBegin(r)
  <2>1. /\ Exists /\ ~RunningOperation /\ StartIndex(r)
        /\ UNCHANGED documentStatus
    BY <1>2 DEF ConfirmReplay, IndexBegin, MayIndex
  <2>2. \A s \in Requests : ~InIndex(s) /\ ~InDelete(s)
    BY <2>1 DEF RunningOperation
  <2>3. operations'.index = "RUNNING" /\ operations'.delete # "RUNNING"
    BY <2>1 DEF RunningOperation, StartIndex
  <2>4. req'[r].at = "buildIndex"
    BY <2>1 DEF StartIndex
  <2>5. \A s \in Requests : s # r => req'[s] = req[s]
    OBVIOUS
  <2> QED BY <2>1, <2>2, <2>3, <2>4, <2>5
<1>3. CASE IndexRecord(r)
  BY <1>3 DEF IndexRecord
<1>4. CASE IndexFails(r)
  BY <1>4 DEF IndexFails
<1>5. CASE DeleteBegin(r)
  BY <1>5 DEF DeleteBegin, DeletingStatus, MayDelete, RunningOperation
<1>6. CASE DeleteRows(r)
  BY <1>6 DEF DeleteRows
<1>7. CASE DeleteFails(r)
  BY <1>7 DEF DeleteFails
<1> QED BY <1>1, <1>2, <1>3, <1>4, <1>5, <1>6, <1>7, OperationFrame DEF OperationStep

\* So do calls, crashes and idling.
LEMMA ExclusiveNext == TypeOK /\ ExclusiveExternalWork /\ [Next]_vars => ExclusiveExternalWork'
<1> SUFFICES ASSUME TypeOK, ExclusiveExternalWork, [Next]_vars
             PROVE  ExclusiveExternalWork'
  OBVIOUS
<1>1. CASE \A r \in Requests : ~Step(r)
  BY <1>1, EnvironmentFrame
  DEF ExclusiveExternalWork, InIndex, InDelete, IndexSteps, DeleteSteps, Exists, database
<1>2. CASE \E r \in Requests : Step(r)
  BY <1>2, ExclusiveStep
<1> QED BY <1>1, <1>2

\* However many requests run and wherever the server crashes, INDEX and DELETE
\* never work on the stores at the same time.
THEOREM ExternalWorkIsExclusive == Spec => []ExclusiveExternalWork
<1>1. Init => ExclusiveExternalWork
  BY DEF Init, ExclusiveExternalWork, InIndex, InDelete, IndexSteps, DeleteSteps, Idle
<1>2. TypeOK /\ ExclusiveExternalWork /\ [Next]_vars => ExclusiveExternalWork'
  BY ExclusiveNext
<1> QED BY <1>1, <1>2, TypeCorrect, PTL DEF Spec

-----------------------------------------------------------------------------

\* Requests stay on the path of their handler.
LEMMA OnOwnPathStep ==
  ASSUME TypeOK, OnOwnPath, NEW r \in Requests, Step(r)
  PROVE  OnOwnPath'
<1> USE OtherRequestsStay
    DEF OnOwnPath, InDelete, DeleteSteps, Goto, Return, Idle, TypeOK, Request
<1>1. CASE Parse(r)
  BY <1>1 DEF Parse, ParseRead, ParseRejected, ParseWriteFile, ParseFailed, ParseCommit,
              ParseRollback
<1>2. CASE DraftStep(r)
  BY <1>2 DEF DraftStep, ManualDraft, ManualDraftRejected, SuggestLock, SuggestRejected,
              SuggestStore, SuggestFails, RecordSuggestionFailure, RegenerateRead,
              RegenerateStore, RegenerateRejected, UpdateRead, UpdateRejected,
              UpdateConflict, UpdateWrite, StartsSuggestion, Starts
<1>3. CASE PublicationStep(r)
  BY <1>3 DEF PublicationStep, Confirm, ConfirmReplay, ConfirmRejected, ConfirmRefresh,
              StartIndex, IndexBegin, IndexRejected, IndexBuild, IndexUpsert, IndexRecord,
              IndexFails, IndexFailureUnrecorded, Cancel, CancelRejected, CancelCleanup,
              CancelCleanupFails
<1>4. CASE Delete(r)
  <2>1. CASE DeleteBegin(r)
    BY <2>1 DEF DeleteBegin, Starts
  <2>2. CASE ~DeleteBegin(r)
    BY <1>4, <2>2 DEF Delete, DeleteRejected, DeleteVectors, DeleteOriginal, DeleteSnapshot,
                      DeleteRows, DeleteFails, DeleteFailureUnrecorded
  <2> QED BY <2>1, <2>2
<1> QED BY <1>1, <1>2, <1>3, <1>4 DEF Step

\* Whoever writes the draft or removes the document holds the row lock alone.
LEMMA ModelCallStep ==
  ASSUME TypeOK, ModelCallHoldsRow, RevisionsGrow, ExclusiveExternalWork,
         NEW r \in Requests, Step(r)
  PROVE  ModelCallHoldsRow'
<1> USE OtherRequestsStay
    DEF ModelCallHoldsRow, RowUnlocked, Exists, TypeOK, Request, Goto, Return, Idle
<1>1. CASE SuggestLock(r)
  BY <1>1 DEF SuggestLock, MaySuggest, RevisionsGrow, DraftExists, database
<1>2. CASE SuggestStore(r)
  BY <1>2 DEF SuggestStore, ReplaceDraft
<1>3. CASE SuggestFails(r)
  BY <1>3 DEF SuggestFails, database
<1>4. ASSUME ~SuggestLock(r), ~SuggestStore(r), ~SuggestFails(r)
      PROVE  /\ req'[r].at # "callModel"
             /\ RowUnlocked \/ UNCHANGED <<documentStatus, draft>>
                            \/ (UNCHANGED draft /\ documentStatus' # "GONE")
  <2>1. CASE Parse(r)
    BY <2>1 DEF Parse, ParseRead, ParseRejected, ParseWriteFile, ParseFailed, ParseCommit,
                ParseRollback, database
  <2>2. CASE DraftStep(r)
    BY <1>4, <2>2 DEF DraftStep, ManualDraft, ManualDraftRejected, SuggestRejected,
                RecordSuggestionFailure, RegenerateRead,
                RegenerateStore, RegenerateRejected, UpdateRead, UpdateRejected,
                UpdateConflict, UpdateWrite, database
  <2>3. CASE PublicationStep(r)
    BY <2>3 DEF PublicationStep, Confirm, ConfirmReplay, ConfirmRejected, ConfirmRefresh,
                StartIndex, IndexBegin, IndexRejected, IndexBuild, IndexUpsert, IndexRecord,
                IndexFails, IndexFailureUnrecorded, Cancel, CancelRejected, CancelCleanup,
                CancelCleanupFails, database
  <2>4. CASE Delete(r)
    BY <2>4 DEF Delete, DeleteBegin, DeleteRejected, DeleteVectors, DeleteOriginal,
                DeleteSnapshot, DeleteRows, DeleteFails, DeleteFailureUnrecorded, database
  <2> QED BY <2>1, <2>2, <2>3, <2>4 DEF Step
<1>5. CASE ~SuggestLock(r) /\ ~SuggestStore(r) /\ ~SuggestFails(r)
  BY <1>4, <1>5
<1> QED BY <1>1, <1>2, <1>3, <1>5

\* Drafts are stamped with the version that wrote them, approvals with drafts.
LEMMA RevisionsStep ==
  ASSUME TypeOK, RevisionsGrow, NEW r \in Requests, Step(r)
  PROVE  RevisionsGrow'
<1> DEFINE v == archive.version
<1>0. /\ v \in Nat /\ draft.revision \in Nat /\ approved \in Nat
      /\ draft.revision <= v /\ approved <= v
      /\ draft.revision > 0 => approved <= draft.revision
      /\ draft.edited => draft.revision > 0
  BY DEF TypeOK, ArchiveDocument, Draft, RevisionsGrow, DraftExists
<1>1. CASE NoRowStep(r)
  BY <1>1 DEF NoRowStep, RevisionsGrow, DraftExists
<1>2. CASE \/ ManualDraft(r) \/ SuggestStore(r) \/ RegenerateStore(r)
           \/ \E f \in Fields, checked \in BOOLEAN : UpdateWrite(r, f, checked)
  <2>1. approved' = approved
    BY <1>2 DEF ManualDraft, SuggestStore, RegenerateStore, UpdateWrite, history
  <2> USE DEF TypeOK, ArchiveDocument
  <2>2. ASSUME ManualDraft(r) \/ SuggestStore(r) \/ RegenerateStore(r)
        PROVE  draft'.revision = v + 1 /\ archive'.version = v + 1
    <3>1. ReplaceDraft
      BY <2>2 DEF ManualDraft, SuggestStore, RegenerateStore
    <3> QED BY <3>1 DEF ReplaceDraft
  <2>3. ASSUME NEW f \in Fields, NEW checked \in BOOLEAN, UpdateWrite(r, f, checked)
        PROVE  draft'.revision = v + 1 /\ archive'.version = v + 1
    BY <2>3 DEF UpdateWrite
  <2>4. draft'.revision = v + 1 /\ archive'.version = v + 1
    BY <1>2, <2>2, <2>3
  <2> QED BY <1>0, <2>1, <2>4 DEF RevisionsGrow, DraftExists
<1>3. CASE Confirm(r) \/ Cancel(r)
  <2>1. /\ draft' = draft /\ archive'.version = v + 1
        /\ approved' = approved \/ (draft.revision > 0 /\ approved' = draft.revision)
    BY <1>3 DEF Confirm, MayConfirm, DraftExists, Cancel, history, TypeOK, ArchiveDocument
  <2> QED BY <1>0, <2>1 DEF RevisionsGrow, DraftExists
<1>4. CASE DeleteRows(r)
  <2>1. draft' = NoDraft /\ archive'.version = v /\ approved' = approved
    BY <1>4 DEF DeleteRows, TypeOK, ArchiveDocument
  <2> QED BY <1>0, <2>1 DEF RevisionsGrow, DraftExists, NoDraft
<1> QED BY <1>1, <1>2, <1>3, <1>4, RowFrame DEF RowStep

\* What is confirmed stays as it was confirmed, or stops being confirmed.
LEMMA ConfirmedStep ==
  ASSUME TypeOK, ConfirmedAsApproved, ExclusiveExternalWork, NEW r \in Requests, Step(r)
  PROVE  ConfirmedAsApproved'
<1> USE DEF ConfirmedAsApproved, Exists, DraftExists, TypeOK, ArchiveDocument
<1>1. Exists' => Exists
  BY OperationFrame
  DEF OperationStep, NoOperationStep, ConfirmReplay, IndexBegin, IndexRecord, IndexFails,
      DeleteBegin, MayDelete, DeleteRows, DeleteFails, ExclusiveExternalWork, InDelete
<1>2. CASE NoRowStep(r)
  BY <1>1, <1>2 DEF NoRowStep
<1>3. CASE ManualDraft(r) \/ SuggestStore(r) \/ RegenerateStore(r)
  BY <1>3 DEF ManualDraft, SuggestStore, RegenerateStore, ReplaceDraft
<1>4. CASE \E f \in Fields, checked \in BOOLEAN : UpdateWrite(r, f, checked)
  BY <1>4 DEF UpdateWrite, StatusAfterUpdate
<1>5. CASE Confirm(r)
  BY <1>5 DEF Confirm, MayConfirm
<1>6. CASE Cancel(r)
  BY <1>6 DEF Cancel
<1>7. CASE DeleteRows(r)
  BY <1>7 DEF DeleteRows
<1> QED BY <1>2, <1>3, <1>4, <1>5, <1>6, <1>7, RowFrame DEF RowStep

\* Only an INDEX puts chunks back, and none runs beside a deletion or after it.
LEMMA DeletionStep ==
  ASSUME TypeOK, DeletionProgress, ExclusiveExternalWork, NEW r \in Requests, Step(r)
  PROVE  DeletionProgress'
<1> USE OtherRequestsStay DEF DeletionProgress, DeletedLeavesNothing, Exists, TypeOK, Request
<1>1. CASE DeleteRows(r)
  BY <1>1 DEF DeleteRows, Return, Idle, ExclusiveExternalWork, InDelete, DeleteSteps, external
<1>2. ~DeleteRows(r) => documentStatus' = documentStatus \/ (Exists /\ Exists')
  BY OperationFrame
  DEF OperationStep, NoOperationStep, ConfirmReplay, IndexBegin, IndexRecord, IndexFails,
      DeleteBegin, DeletingStatus, MayDelete, DeleteFails, ExclusiveExternalWork, InDelete
<1>3. CASE NoStoreStep(r) /\ ~DeleteRows(r)
  BY <1>2, <1>3 DEF NoStoreStep
<1>4. CASE IndexUpsert(r)
  BY <1>4
  DEF IndexUpsert, Goto, ExclusiveExternalWork, InIndex, InDelete, IndexSteps, DeleteSteps,
      database, history
<1>5. CASE DeleteVectors(r)
  BY <1>5 DEF DeleteVectors, Goto, ExclusiveExternalWork, InDelete, DeleteSteps, database, history
<1>6. CASE DeleteOriginal(r)
  BY <1>6 DEF DeleteOriginal, database, history
<1>7. CASE DeleteSnapshot(r)
  BY <1>7 DEF DeleteSnapshot, Goto, database, history
<1> QED BY <1>1, <1>3, <1>4, <1>5, <1>6, <1>7, StoreFrame DEF StoreStep

\* The upload establishes the inductive invariant.
LEMMA InvariantInit == Init => InductiveInvariant
  BY TypeOKInit
  DEF Init, InductiveInvariant, OnOwnPath, ModelCallHoldsRow, ExclusiveExternalWork,
      RevisionsGrow, ConfirmedAsApproved, DeletionProgress, DeletedLeavesNothing, InIndex,
      InDelete, IndexSteps, DeleteSteps, Idle, NoDraft, Exists, DraftExists

\* Every step maintains the inductive invariant.
LEMMA InvariantNext == InductiveInvariant /\ [Next]_vars => InductiveInvariant'
<1> SUFFICES ASSUME InductiveInvariant, [Next]_vars
             PROVE  InductiveInvariant'
  OBVIOUS
<1>1. TypeOK' /\ ExclusiveExternalWork'
  BY TypeOKNext, ExclusiveNext DEF InductiveInvariant
<1>2. CASE \E r \in Requests : Step(r)
  BY <1>1, <1>2, OnOwnPathStep, ModelCallStep, RevisionsStep, ConfirmedStep, DeletionStep
  DEF InductiveInvariant
<1>3. CASE \A r \in Requests : ~Step(r)
  <2>1. /\ UNCHANGED <<database, external, approved, deletions>>
        /\ \A r \in Requests : req'[r] = req[r] \/ req'[r].at \in {"idle", "start"}
    BY <1>3, EnvironmentFrame DEF InductiveInvariant
  <2>2. OnOwnPath'
    BY <2>1 DEF InductiveInvariant, OnOwnPath, InDelete, DeleteSteps
  <2>3. ModelCallHoldsRow'
    BY <2>1 DEF InductiveInvariant, ModelCallHoldsRow, Exists, database
  <2>4. RevisionsGrow' /\ ConfirmedAsApproved'
    BY <2>1 DEF InductiveInvariant, RevisionsGrow, ConfirmedAsApproved, Exists, DraftExists,
                database
  <2>5. DeletionProgress'
    BY <2>1 DEF InductiveInvariant, DeletionProgress, DeletedLeavesNothing, Exists, database,
                external
  <2> QED BY <1>1, <2>2, <2>3, <2>4, <2>5 DEF InductiveInvariant
<1> QED BY <1>2, <1>3

\* The inductive invariant holds in every reachable state.
THEOREM InvariantHolds == Spec => []InductiveInvariant
<1>1. Init => InductiveInvariant
  BY InvariantInit
<1>2. InductiveInvariant /\ [Next]_vars => InductiveInvariant'
  BY InvariantNext
<1> QED BY <1>1, <1>2, PTL DEF Spec

\* Readers of the formal archive only see approved content (confirm_document,
\* update_field, the suggestion handlers).
THEOREM VisibleContentIsApproved == Spec => []FormalContentApproved
<1>1. InductiveInvariant => FormalContentApproved
  BY DEF InductiveInvariant, ConfirmedAsApproved, FormalContentApproved, FormallyVisible
<1> QED BY <1>1, InvariantHolds, PTL

\* A deleted document leaves neither chunks nor its original, after any
\* failures, retries and crashes (delete_archive_document).
THEOREM DeletionIsComplete == Spec => []DeletedLeavesNothing
<1>1. InductiveInvariant => DeletedLeavesNothing
  BY DEF InductiveInvariant, DeletionProgress
<1> QED BY <1>1, InvariantHolds, PTL
=============================================================================
