-------------------------- MODULE LegacyChat_proofs --------------------------
(***************************************************************************)
(* Proofs about LegacyDocuments and LegacyChat, for any number of requests, *)
(* questions and crashes.                                                  *)
(***************************************************************************)
EXTENDS LegacyChat, FiniteSetTheorems, FunctionTheorems, TLAPS

\* The initial state satisfies the invariant.
LEMMA LegacyInitial == DocumentInit => LegacyInvariant
<1> SUFFICES ASSUME DocumentInit PROVE LegacyInvariant
  OBVIOUS
<1>1. DocumentTypeOK
  <2>1. Idle \in [op : {"NONE", "UPLOAD", "PROCESS", "DELETE"},
                 at : {"idle", "begin", "clear", "parse", "insert", "finish", "file", "fail"},
                 seen : Rows \union {"NONE"}]
    BY DEF Idle
  <2>2. work \in [Workers -> [op : {"NONE", "UPLOAD", "PROCESS", "DELETE"},
                 at : {"idle", "begin", "clear", "parse", "insert", "finish", "file", "fail"},
                 seen : Rows \union {"NONE"}]]
    BY <2>1 DEF DocumentInit
  <2>3. faults \in 0 .. MaxFaults
    BY LegacyAssumption DEF DocumentInit
  <2>4. /\ file \in BOOLEAN /\ vectors \in BOOLEAN /\ overlapped \in BOOLEAN
        /\ undeclared \in BOOLEAN
    BY Zenon DEF DocumentInit
  <2>5. status \in Rows \union {"NONE", "GONE"}
    BY DEF DocumentInit
  <2> QED
    BY <2>2, <2>3, <2>4, <2>5, Zenon DEF DocumentTypeOK
<1>2. ASSUME NEW w \in Workers PROVE RequestHolds(w) /\ UndisturbedHolds(w) /\ ~Working(w)
  BY DEF DocumentInit, RequestHolds, UndisturbedHolds, Working, At, Idle
<1>3. OneUpload /\ StoresMatchStatus
  BY DEF DocumentInit, OneUpload, StoresMatchStatus, ReadyMeansSearchable, DeletedLeavesNothing,
         Idle
<1> QED
  BY <1>1, <1>2, <1>3 DEF LegacyInvariant, ProcessingIsAlone

\* A request that begins without an overlap finds no processing under way; when it
\* processes, it finds no other work at all.
LEMMA BeginsAlone ==
    ASSUME NEW w \in Workers, NEW op \in {"PROCESS", "DELETE"}, NEW newStatus,
           LegacyInvariant, At(w, op, "begin"), Begin(w, newStatus), ~overlapped'
    PROVE  \A v \in Workers \ {w} : Working(v) => op = "DELETE" /\ work[v].op = "DELETE"
<1> SUFFICES ASSUME NEW v \in Workers \ {w}, Working(v)
             PROVE  op = "DELETE" /\ work[v].op = "DELETE"
  OBVIOUS
<1>1. ~overlapped /\ ~BeginsAmongOthers(w) /\ work[w].op = op
  BY DEF Begin, At
<1>2. work[w].seen # "PROCESSING"
  BY DEF LegacyInvariant, RequestHolds, At
<1>3. work[v].op \in {"PROCESS", "DELETE"}
  BY DEF LegacyInvariant, DocumentTypeOK, RequestHolds, Working
<1>4. work[v].op # "PROCESS"
  <2> SUFFICES ASSUME work[v].op = "PROCESS" PROVE FALSE
    OBVIOUS
  <2>1. status = "PROCESSING"
    BY <1>1 DEF LegacyInvariant, UndisturbedHolds
  <2> QED
    BY <1>1, <1>2, <2>1 DEF BeginsAmongOthers
<1> QED
  BY <1>1, <1>3, <1>4 DEF BeginsAmongOthers

\* Each step of a request keeps the invariant: the parts in turn.
LEMMA LegacyWorkStep ==
    ASSUME NEW w \in Workers, LegacyInvariant, WorkStep(w)
    PROVE  LegacyInvariant'
<1> USE LegacyAssumption DEF LegacyInvariant
<1>1. CASE UploadFile(w)
  <2>1. DocumentTypeOK'
    BY <1>1 DEF UploadFile, DocumentTypeOK, Rows, Idle, At, Exists
  <2>2. \A v \in Workers : RequestHolds(v)'
    BY <1>1 DEF UploadFile, DocumentTypeOK, Rows, Idle, At, Exists, RequestHolds,
       OneUpload, Working, StoresMatchStatus, ReadyMeansSearchable, DeletedLeavesNothing
  <2>3. OneUpload'
    BY <1>1 DEF UploadFile, DocumentTypeOK, Idle, At, Exists, Rows, RequestHolds,
       OneUpload
  <2>4. ~overlapped' => ProcessingIsAlone'
    BY <1>1 DEF UploadFile, DocumentTypeOK, Rows, Idle, At, Exists, RequestHolds,
       ProcessingIsAlone, UndisturbedHolds, Working
  <2>5. ~overlapped' => \A v \in Workers : UndisturbedHolds(v)'
    BY <1>1 DEF UploadFile, DocumentTypeOK, Rows, Idle, At, Exists, RequestHolds,
       ProcessingIsAlone, UndisturbedHolds, Working, StoresMatchStatus,
       ReadyMeansSearchable, DeletedLeavesNothing
  <2>6. StoresMatchStatus'
    BY <1>1 DEF UploadFile, DocumentTypeOK, Rows, Idle, At, Exists, RequestHolds,
       UndisturbedHolds, ProcessingIsAlone, Working, StoresMatchStatus,
       ReadyMeansSearchable, DeletedLeavesNothing
  <2> QED
    BY <2>1, <2>2, <2>3, <2>4, <2>5, <2>6
<1>2. CASE UploadCommit(w)
  <2>1. DocumentTypeOK'
    BY <1>2 DEF UploadCommit, Return, DocumentTypeOK, Rows, Idle, At, Exists
  <2>2. \A v \in Workers : RequestHolds(v)'
    BY <1>2 DEF UploadCommit, Return, DocumentTypeOK, Rows, Idle, At, Exists,
       RequestHolds, OneUpload, Working, StoresMatchStatus, ReadyMeansSearchable,
       DeletedLeavesNothing
  <2>3. OneUpload'
    BY <1>2 DEF UploadCommit, Return, DocumentTypeOK, Idle, At, Exists, Rows,
       RequestHolds, OneUpload
  <2>4. ~overlapped' => ProcessingIsAlone'
    BY <1>2 DEF UploadCommit, Return, DocumentTypeOK, Rows, Idle, At, Exists,
       RequestHolds, ProcessingIsAlone, UndisturbedHolds, Working
  <2>5. ~overlapped' => \A v \in Workers : UndisturbedHolds(v)'
    BY <1>2 DEF UploadCommit, Return, DocumentTypeOK, Rows, Idle, At, Exists,
       RequestHolds, ProcessingIsAlone, UndisturbedHolds, Working, StoresMatchStatus,
       ReadyMeansSearchable, DeletedLeavesNothing
  <2>6. StoresMatchStatus'
    BY <1>2 DEF UploadCommit, Return, DocumentTypeOK, Rows, Idle, At, Exists,
       RequestHolds, UndisturbedHolds, ProcessingIsAlone, Working, StoresMatchStatus,
       ReadyMeansSearchable, DeletedLeavesNothing
  <2> QED
    BY <2>1, <2>2, <2>3, <2>4, <2>5, <2>6
<1>3. CASE UploadFails(w)
  <2>1. DocumentTypeOK'
    BY <1>3 DEF UploadFails, Return, DocumentTypeOK, Rows, Idle, At, Exists
  <2>2. \A v \in Workers : RequestHolds(v)'
    BY <1>3 DEF UploadFails, Return, DocumentTypeOK, Rows, Idle, At, Exists,
       RequestHolds, OneUpload, Working, StoresMatchStatus, ReadyMeansSearchable,
       DeletedLeavesNothing
  <2>3. OneUpload'
    BY <1>3 DEF UploadFails, Return, DocumentTypeOK, Idle, At, Exists, Rows,
       RequestHolds, OneUpload
  <2>4. ~overlapped' => ProcessingIsAlone'
    BY <1>3 DEF UploadFails, Return, DocumentTypeOK, Rows, Idle, At, Exists,
       RequestHolds, ProcessingIsAlone, UndisturbedHolds, Working
  <2>5. ~overlapped' => \A v \in Workers : UndisturbedHolds(v)'
    BY <1>3 DEF UploadFails, Return, DocumentTypeOK, Rows, Idle, At, Exists,
       RequestHolds, ProcessingIsAlone, UndisturbedHolds, Working, StoresMatchStatus,
       ReadyMeansSearchable, DeletedLeavesNothing
  <2>6. StoresMatchStatus'
    BY <1>3 DEF UploadFails, Return, DocumentTypeOK, Rows, Idle, At, Exists,
       RequestHolds, UndisturbedHolds, ProcessingIsAlone, Working, StoresMatchStatus,
       ReadyMeansSearchable, DeletedLeavesNothing
  <2> QED
    BY <2>1, <2>2, <2>3, <2>4, <2>5, <2>6
<1>4. CASE \E op \in {"PROCESS", "DELETE"} : Load(w, op)
  <2>1. DocumentTypeOK'
    BY <1>4 DEF Load, MayBegin, DocumentTypeOK, Rows, Idle, At, Exists
  <2>2. \A v \in Workers : RequestHolds(v)'
    BY <1>4 DEF Load, MayBegin, DocumentTypeOK, Rows, Idle, At, Exists, RequestHolds,
       OneUpload, Working, StoresMatchStatus, ReadyMeansSearchable, DeletedLeavesNothing
  <2>3. OneUpload'
    BY <1>4 DEF Load, MayBegin, DocumentTypeOK, Idle, At, Exists, Rows, RequestHolds,
       OneUpload
  <2>4. ~overlapped' => ProcessingIsAlone'
    BY <1>4 DEF Load, MayBegin, DocumentTypeOK, Rows, Idle, At, Exists, RequestHolds,
       ProcessingIsAlone, UndisturbedHolds, Working
  <2>5. ~overlapped' => \A v \in Workers : UndisturbedHolds(v)'
    BY <1>4 DEF Load, MayBegin, DocumentTypeOK, Rows, Idle, At, Exists, RequestHolds,
       ProcessingIsAlone, UndisturbedHolds, Working, StoresMatchStatus,
       ReadyMeansSearchable, DeletedLeavesNothing
  <2>6. StoresMatchStatus'
    BY <1>4 DEF Load, MayBegin, DocumentTypeOK, Rows, Idle, At, Exists, RequestHolds,
       UndisturbedHolds, ProcessingIsAlone, Working, StoresMatchStatus,
       ReadyMeansSearchable, DeletedLeavesNothing
  <2> QED
    BY <2>1, <2>2, <2>3, <2>4, <2>5, <2>6
<1>5. CASE BeginFails(w)
  <2>1. DocumentTypeOK'
    BY <1>5 DEF BeginFails, Return, DocumentTypeOK, Rows, Idle, At, Exists
  <2>2. \A v \in Workers : RequestHolds(v)'
    BY <1>5 DEF BeginFails, Return, DocumentTypeOK, Rows, Idle, At, Exists,
       RequestHolds, OneUpload, Working, StoresMatchStatus, ReadyMeansSearchable,
       DeletedLeavesNothing
  <2>3. OneUpload'
    BY <1>5 DEF BeginFails, Return, DocumentTypeOK, Idle, At, Exists, Rows,
       RequestHolds, OneUpload
  <2>4. ~overlapped' => ProcessingIsAlone'
    BY <1>5 DEF BeginFails, Return, DocumentTypeOK, Rows, Idle, At, Exists,
       RequestHolds, ProcessingIsAlone, UndisturbedHolds, Working
  <2>5. ~overlapped' => \A v \in Workers : UndisturbedHolds(v)'
    BY <1>5 DEF BeginFails, Return, DocumentTypeOK, Rows, Idle, At, Exists,
       RequestHolds, ProcessingIsAlone, UndisturbedHolds, Working, StoresMatchStatus,
       ReadyMeansSearchable, DeletedLeavesNothing
  <2>6. StoresMatchStatus'
    BY <1>5 DEF BeginFails, Return, DocumentTypeOK, Rows, Idle, At, Exists,
       RequestHolds, UndisturbedHolds, ProcessingIsAlone, Working, StoresMatchStatus,
       ReadyMeansSearchable, DeletedLeavesNothing
  <2> QED
    BY <2>1, <2>2, <2>3, <2>4, <2>5, <2>6
<1>6. CASE ProcessBegin(w)
  <2>1. DocumentTypeOK'
    BY <1>6 DEF ProcessBegin, Begin, BeginsAmongOthers, DocumentTypeOK, Rows, Idle, At,
       Exists
  <2>2. \A v \in Workers : RequestHolds(v)'
    BY <1>6 DEF ProcessBegin, Begin, BeginsAmongOthers, DocumentTypeOK, Rows, Idle, At,
       Exists, RequestHolds, OneUpload, Working, StoresMatchStatus, ReadyMeansSearchable,
       DeletedLeavesNothing
  <2>3. OneUpload'
    BY <1>6 DEF ProcessBegin, Begin, BeginsAmongOthers, DocumentTypeOK, Idle, At,
       Exists, Rows, RequestHolds, OneUpload
  <2>4. ~overlapped' => ProcessingIsAlone'
    <3> SUFFICES ASSUME ~overlapped', NEW u \in Workers, NEW v \in Workers,
                        Working(u)', Working(v)', work'[u].op = "PROCESS"
                 PROVE  u = v
      BY DEF ProcessingIsAlone
    <3>1. \A x \in Workers \ {w} : Working(x) =>
              work[w].op = "DELETE" /\ work[x].op = "DELETE"
      BY <1>6, BeginsAlone DEF ProcessBegin, At
    <3>2. work'[u].op = work[u].op /\ (u # w => Working(u)) /\ (v # w => Working(v))
      BY <1>6 DEF ProcessBegin, Begin, DocumentTypeOK, Working
    <3> QED
      BY <1>6, <3>1, <3>2 DEF ProcessBegin, At
  <2>5. ~overlapped' => \A v \in Workers : UndisturbedHolds(v)'
    <3> SUFFICES ASSUME ~overlapped', NEW v \in Workers PROVE UndisturbedHolds(v)'
      OBVIOUS
    <3>1. CASE v = w
      BY <1>6, <3>1 DEF ProcessBegin, Begin, At, DocumentTypeOK, UndisturbedHolds, Working
    <3>2. CASE v # w
      <4>1. Working(v) => work[w].op = "DELETE" /\ work[v].op = "DELETE"
        BY <1>6, <3>2, BeginsAlone DEF ProcessBegin, At
      <4>2. UndisturbedHolds(v) /\ work'[v] = work[v]
        BY <1>6, <3>2 DEF ProcessBegin, Begin, DocumentTypeOK
      <4> QED
        BY <1>6, <4>1, <4>2 DEF ProcessBegin, Begin, At, UndisturbedHolds, Working
    <3> QED
      BY <3>1, <3>2
  <2>6. StoresMatchStatus'
    BY <1>6 DEF ProcessBegin, Begin, BeginsAmongOthers, DocumentTypeOK, Rows, Idle, At,
       Exists, RequestHolds, UndisturbedHolds, ProcessingIsAlone, Working,
       StoresMatchStatus, ReadyMeansSearchable, DeletedLeavesNothing
  <2> QED
    BY <2>1, <2>2, <2>3, <2>4, <2>5, <2>6
<1>7. CASE ProcessClear(w)
  <2>1. DocumentTypeOK'
    BY <1>7 DEF ProcessClear, ClearChunks, Go, DocumentTypeOK, Rows, Idle, At, Exists
  <2>2. \A v \in Workers : RequestHolds(v)'
    BY <1>7 DEF ProcessClear, ClearChunks, Go, DocumentTypeOK, Rows, Idle, At, Exists,
       RequestHolds, OneUpload, Working, StoresMatchStatus, ReadyMeansSearchable,
       DeletedLeavesNothing
  <2>3. OneUpload'
    BY <1>7 DEF ProcessClear, ClearChunks, Go, DocumentTypeOK, Idle, At, Exists, Rows,
       RequestHolds, OneUpload
  <2>4. ~overlapped' => ProcessingIsAlone'
    BY <1>7 DEF ProcessClear, ClearChunks, Go, DocumentTypeOK, Rows, Idle, At, Exists,
       RequestHolds, ProcessingIsAlone, UndisturbedHolds, Working
  <2>5. ~overlapped' => \A v \in Workers : UndisturbedHolds(v)'
    BY <1>7 DEF ProcessClear, ClearChunks, Go, DocumentTypeOK, Rows, Idle, At, Exists,
       RequestHolds, ProcessingIsAlone, UndisturbedHolds, Working, StoresMatchStatus,
       ReadyMeansSearchable, DeletedLeavesNothing
  <2>6. StoresMatchStatus'
    BY <1>7 DEF ProcessClear, ClearChunks, Go, DocumentTypeOK, Rows, Idle, At, Exists,
       RequestHolds, UndisturbedHolds, ProcessingIsAlone, Working, StoresMatchStatus,
       ReadyMeansSearchable, DeletedLeavesNothing
  <2> QED
    BY <2>1, <2>2, <2>3, <2>4, <2>5, <2>6
<1>8. CASE ProcessParse(w)
  <2>1. DocumentTypeOK'
    BY <1>8 DEF ProcessParse, Go, DocumentTypeOK, Rows, Idle, At, Exists
  <2>2. \A v \in Workers : RequestHolds(v)'
    BY <1>8 DEF ProcessParse, Go, DocumentTypeOK, Rows, Idle, At, Exists, RequestHolds,
       OneUpload, Working, StoresMatchStatus, ReadyMeansSearchable, DeletedLeavesNothing
  <2>3. OneUpload'
    BY <1>8 DEF ProcessParse, Go, DocumentTypeOK, Idle, At, Exists, Rows, RequestHolds,
       OneUpload
  <2>4. ~overlapped' => ProcessingIsAlone'
    BY <1>8 DEF ProcessParse, Go, DocumentTypeOK, Rows, Idle, At, Exists, RequestHolds,
       ProcessingIsAlone, UndisturbedHolds, Working
  <2>5. ~overlapped' => \A v \in Workers : UndisturbedHolds(v)'
    BY <1>8 DEF ProcessParse, Go, DocumentTypeOK, Rows, Idle, At, Exists, RequestHolds,
       ProcessingIsAlone, UndisturbedHolds, Working, StoresMatchStatus,
       ReadyMeansSearchable, DeletedLeavesNothing
  <2>6. StoresMatchStatus'
    BY <1>8 DEF ProcessParse, Go, DocumentTypeOK, Rows, Idle, At, Exists, RequestHolds,
       UndisturbedHolds, ProcessingIsAlone, Working, StoresMatchStatus,
       ReadyMeansSearchable, DeletedLeavesNothing
  <2> QED
    BY <2>1, <2>2, <2>3, <2>4, <2>5, <2>6
<1>9. CASE ProcessInsert(w)
  <2>1. DocumentTypeOK'
    BY <1>9 DEF ProcessInsert, Go, DocumentTypeOK, Rows, Idle, At, Exists
  <2>2. \A v \in Workers : RequestHolds(v)'
    BY <1>9 DEF ProcessInsert, Go, DocumentTypeOK, Rows, Idle, At, Exists, RequestHolds,
       OneUpload, Working, StoresMatchStatus, ReadyMeansSearchable, DeletedLeavesNothing
  <2>3. OneUpload'
    BY <1>9 DEF ProcessInsert, Go, DocumentTypeOK, Idle, At, Exists, Rows, RequestHolds,
       OneUpload
  <2>4. ~overlapped' => ProcessingIsAlone'
    BY <1>9 DEF ProcessInsert, Go, DocumentTypeOK, Rows, Idle, At, Exists, RequestHolds,
       ProcessingIsAlone, UndisturbedHolds, Working
  <2>5. ~overlapped' => \A v \in Workers : UndisturbedHolds(v)'
    BY <1>9 DEF ProcessInsert, Go, DocumentTypeOK, Rows, Idle, At, Exists, RequestHolds,
       ProcessingIsAlone, UndisturbedHolds, Working, StoresMatchStatus,
       ReadyMeansSearchable, DeletedLeavesNothing
  <2>6. StoresMatchStatus'
    BY <1>9 DEF ProcessInsert, Go, DocumentTypeOK, Rows, Idle, At, Exists, RequestHolds,
       UndisturbedHolds, ProcessingIsAlone, Working, StoresMatchStatus,
       ReadyMeansSearchable, DeletedLeavesNothing
  <2> QED
    BY <2>1, <2>2, <2>3, <2>4, <2>5, <2>6
<1>10. CASE ProcessFinish(w)
  <2>1. DocumentTypeOK'
    BY <1>10 DEF ProcessFinish, Return, DocumentTypeOK, Rows, Idle, At, Exists
  <2>2. \A v \in Workers : RequestHolds(v)'
    BY <1>10 DEF ProcessFinish, Return, DocumentTypeOK, Rows, Idle, At, Exists,
       RequestHolds, OneUpload, Working, StoresMatchStatus, ReadyMeansSearchable,
       DeletedLeavesNothing
  <2>3. OneUpload'
    BY <1>10 DEF ProcessFinish, Return, DocumentTypeOK, Idle, At, Exists, Rows,
       RequestHolds, OneUpload
  <2>4. ~overlapped' => ProcessingIsAlone'
    BY <1>10 DEF ProcessFinish, Return, DocumentTypeOK, Rows, Idle, At, Exists,
       RequestHolds, ProcessingIsAlone, UndisturbedHolds, Working
  <2>5. ~overlapped' => \A v \in Workers : UndisturbedHolds(v)'
    BY <1>10 DEF ProcessFinish, Return, DocumentTypeOK, Rows, Idle, At, Exists,
       RequestHolds, ProcessingIsAlone, UndisturbedHolds, Working, StoresMatchStatus,
       ReadyMeansSearchable, DeletedLeavesNothing
  <2>6. StoresMatchStatus'
    BY <1>10 DEF ProcessFinish, Return, DocumentTypeOK, Rows, Idle, At, Exists,
       RequestHolds, UndisturbedHolds, ProcessingIsAlone, Working, StoresMatchStatus,
       ReadyMeansSearchable, DeletedLeavesNothing
  <2> QED
    BY <2>1, <2>2, <2>3, <2>4, <2>5, <2>6
<1>11. CASE ProcessFails(w)
  <2>1. DocumentTypeOK'
    BY <1>11 DEF ProcessFails, Go, DocumentTypeOK, Rows, Idle, At, Exists
  <2>2. \A v \in Workers : RequestHolds(v)'
    BY <1>11 DEF ProcessFails, Go, DocumentTypeOK, Rows, Idle, At, Exists, RequestHolds,
       OneUpload, Working, StoresMatchStatus, ReadyMeansSearchable, DeletedLeavesNothing
  <2>3. OneUpload'
    BY <1>11 DEF ProcessFails, Go, DocumentTypeOK, Idle, At, Exists, Rows, RequestHolds,
       OneUpload
  <2>4. ~overlapped' => ProcessingIsAlone'
    BY <1>11 DEF ProcessFails, Go, DocumentTypeOK, Rows, Idle, At, Exists, RequestHolds,
       ProcessingIsAlone, UndisturbedHolds, Working
  <2>5. ~overlapped' => \A v \in Workers : UndisturbedHolds(v)'
    BY <1>11 DEF ProcessFails, Go, DocumentTypeOK, Rows, Idle, At, Exists, RequestHolds,
       ProcessingIsAlone, UndisturbedHolds, Working, StoresMatchStatus,
       ReadyMeansSearchable, DeletedLeavesNothing
  <2>6. StoresMatchStatus'
    BY <1>11 DEF ProcessFails, Go, DocumentTypeOK, Rows, Idle, At, Exists, RequestHolds,
       UndisturbedHolds, ProcessingIsAlone, Working, StoresMatchStatus,
       ReadyMeansSearchable, DeletedLeavesNothing
  <2> QED
    BY <2>1, <2>2, <2>3, <2>4, <2>5, <2>6
<1>12. CASE ProcessRecordFailure(w)
  <2>1. DocumentTypeOK'
    BY <1>12 DEF ProcessRecordFailure, Return, DocumentTypeOK, Rows, Idle, At, Exists
  <2>2. \A v \in Workers : RequestHolds(v)'
    BY <1>12 DEF ProcessRecordFailure, Return, DocumentTypeOK, Rows, Idle, At, Exists,
       RequestHolds, OneUpload, Working, StoresMatchStatus, ReadyMeansSearchable,
       DeletedLeavesNothing
  <2>3. OneUpload'
    BY <1>12 DEF ProcessRecordFailure, Return, DocumentTypeOK, Idle, At, Exists, Rows,
       RequestHolds, OneUpload
  <2>4. ~overlapped' => ProcessingIsAlone'
    BY <1>12 DEF ProcessRecordFailure, Return, DocumentTypeOK, Rows, Idle, At, Exists,
       RequestHolds, ProcessingIsAlone, UndisturbedHolds, Working
  <2>5. ~overlapped' => \A v \in Workers : UndisturbedHolds(v)'
    BY <1>12 DEF ProcessRecordFailure, Return, DocumentTypeOK, Rows, Idle, At, Exists,
       RequestHolds, ProcessingIsAlone, UndisturbedHolds, Working, StoresMatchStatus,
       ReadyMeansSearchable, DeletedLeavesNothing
  <2>6. StoresMatchStatus'
    BY <1>12 DEF ProcessRecordFailure, Return, DocumentTypeOK, Rows, Idle, At, Exists,
       RequestHolds, UndisturbedHolds, ProcessingIsAlone, Working, StoresMatchStatus,
       ReadyMeansSearchable, DeletedLeavesNothing
  <2> QED
    BY <2>1, <2>2, <2>3, <2>4, <2>5, <2>6
<1>13. CASE DeleteBegin(w)
  <2>1. DocumentTypeOK'
    BY <1>13 DEF DeleteBegin, Begin, BeginsAmongOthers, DocumentTypeOK, Rows, Idle, At,
       Exists
  <2>2. \A v \in Workers : RequestHolds(v)'
    BY <1>13 DEF DeleteBegin, Begin, BeginsAmongOthers, DocumentTypeOK, Rows, Idle, At,
       Exists, RequestHolds, OneUpload, Working, StoresMatchStatus, ReadyMeansSearchable,
       DeletedLeavesNothing
  <2>3. OneUpload'
    BY <1>13 DEF DeleteBegin, Begin, BeginsAmongOthers, DocumentTypeOK, Idle, At,
       Exists, Rows, RequestHolds, OneUpload
  <2>4. ~overlapped' => ProcessingIsAlone'
    <3> SUFFICES ASSUME ~overlapped', NEW u \in Workers, NEW v \in Workers,
                        Working(u)', Working(v)', work'[u].op = "PROCESS"
                 PROVE  u = v
      BY DEF ProcessingIsAlone
    <3>1. \A x \in Workers \ {w} : Working(x) =>
              work[w].op = "DELETE" /\ work[x].op = "DELETE"
      BY <1>13, BeginsAlone DEF DeleteBegin, At
    <3>2. work'[u].op = work[u].op /\ (u # w => Working(u)) /\ (v # w => Working(v))
      BY <1>13 DEF DeleteBegin, Begin, DocumentTypeOK, Working
    <3> QED
      BY <1>13, <3>1, <3>2 DEF DeleteBegin, At
  <2>5. ~overlapped' => \A v \in Workers : UndisturbedHolds(v)'
    <3> SUFFICES ASSUME ~overlapped', NEW v \in Workers PROVE UndisturbedHolds(v)'
      OBVIOUS
    <3>1. CASE v = w
      BY <1>13, <3>1 DEF DeleteBegin, Begin, At, DocumentTypeOK, UndisturbedHolds, Working
    <3>2. CASE v # w
      <4>1. Working(v) => work[w].op = "DELETE" /\ work[v].op = "DELETE"
        BY <1>13, <3>2, BeginsAlone DEF DeleteBegin, At
      <4>2. UndisturbedHolds(v) /\ work'[v] = work[v]
        BY <1>13, <3>2 DEF DeleteBegin, Begin, DocumentTypeOK
      <4> QED
        BY <1>13, <4>1, <4>2 DEF DeleteBegin, Begin, At, UndisturbedHolds, Working
    <3> QED
      BY <3>1, <3>2
  <2>6. StoresMatchStatus'
    BY <1>13 DEF DeleteBegin, Begin, BeginsAmongOthers, DocumentTypeOK, Rows, Idle, At,
       Exists, RequestHolds, UndisturbedHolds, ProcessingIsAlone, Working,
       StoresMatchStatus, ReadyMeansSearchable, DeletedLeavesNothing
  <2> QED
    BY <2>1, <2>2, <2>3, <2>4, <2>5, <2>6
<1>14. CASE DeleteChunks(w)
  <2>1. DocumentTypeOK'
    BY <1>14 DEF DeleteChunks, ClearChunks, Go, DocumentTypeOK, Rows, Idle, At, Exists
  <2>2. \A v \in Workers : RequestHolds(v)'
    BY <1>14 DEF DeleteChunks, ClearChunks, Go, DocumentTypeOK, Rows, Idle, At, Exists,
       RequestHolds, OneUpload, Working, StoresMatchStatus, ReadyMeansSearchable,
       DeletedLeavesNothing
  <2>3. OneUpload'
    BY <1>14 DEF DeleteChunks, ClearChunks, Go, DocumentTypeOK, Idle, At, Exists, Rows,
       RequestHolds, OneUpload
  <2>4. ~overlapped' => ProcessingIsAlone'
    BY <1>14 DEF DeleteChunks, ClearChunks, Go, DocumentTypeOK, Rows, Idle, At, Exists,
       RequestHolds, ProcessingIsAlone, UndisturbedHolds, Working
  <2>5. ~overlapped' => \A v \in Workers : UndisturbedHolds(v)'
    BY <1>14 DEF DeleteChunks, ClearChunks, Go, DocumentTypeOK, Rows, Idle, At, Exists,
       RequestHolds, ProcessingIsAlone, UndisturbedHolds, Working, StoresMatchStatus,
       ReadyMeansSearchable, DeletedLeavesNothing
  <2>6. StoresMatchStatus'
    BY <1>14 DEF DeleteChunks, ClearChunks, Go, DocumentTypeOK, Rows, Idle, At, Exists,
       RequestHolds, UndisturbedHolds, ProcessingIsAlone, Working, StoresMatchStatus,
       ReadyMeansSearchable, DeletedLeavesNothing
  <2> QED
    BY <2>1, <2>2, <2>3, <2>4, <2>5, <2>6
<1>15. CASE DeleteFile(w)
  <2>1. DocumentTypeOK'
    BY <1>15 DEF DeleteFile, Go, DocumentTypeOK, Rows, Idle, At, Exists
  <2>2. \A v \in Workers : RequestHolds(v)'
    BY <1>15 DEF DeleteFile, Go, DocumentTypeOK, Rows, Idle, At, Exists, RequestHolds,
       OneUpload, Working, StoresMatchStatus, ReadyMeansSearchable, DeletedLeavesNothing
  <2>3. OneUpload'
    BY <1>15 DEF DeleteFile, Go, DocumentTypeOK, Idle, At, Exists, Rows, RequestHolds,
       OneUpload
  <2>4. ~overlapped' => ProcessingIsAlone'
    BY <1>15 DEF DeleteFile, Go, DocumentTypeOK, Rows, Idle, At, Exists, RequestHolds,
       ProcessingIsAlone, UndisturbedHolds, Working
  <2>5. ~overlapped' => \A v \in Workers : UndisturbedHolds(v)'
    BY <1>15 DEF DeleteFile, Go, DocumentTypeOK, Rows, Idle, At, Exists, RequestHolds,
       ProcessingIsAlone, UndisturbedHolds, Working, StoresMatchStatus,
       ReadyMeansSearchable, DeletedLeavesNothing
  <2>6. StoresMatchStatus'
    BY <1>15 DEF DeleteFile, Go, DocumentTypeOK, Rows, Idle, At, Exists, RequestHolds,
       UndisturbedHolds, ProcessingIsAlone, Working, StoresMatchStatus,
       ReadyMeansSearchable, DeletedLeavesNothing
  <2> QED
    BY <2>1, <2>2, <2>3, <2>4, <2>5, <2>6
<1>16. CASE DeleteRow(w)
  <2>1. DocumentTypeOK'
    BY <1>16 DEF DeleteRow, Return, DocumentTypeOK, Rows, Idle, At, Exists
  <2>2. \A v \in Workers : RequestHolds(v)'
    BY <1>16 DEF DeleteRow, Return, DocumentTypeOK, Rows, Idle, At, Exists,
       RequestHolds, OneUpload, Working, StoresMatchStatus, ReadyMeansSearchable,
       DeletedLeavesNothing
  <2>3. OneUpload'
    BY <1>16 DEF DeleteRow, Return, DocumentTypeOK, Idle, At, Exists, Rows,
       RequestHolds, OneUpload
  <2>4. ~overlapped' => ProcessingIsAlone'
    BY <1>16 DEF DeleteRow, Return, DocumentTypeOK, Rows, Idle, At, Exists,
       RequestHolds, ProcessingIsAlone, UndisturbedHolds, Working
  <2>5. ~overlapped' => \A v \in Workers : UndisturbedHolds(v)'
    BY <1>16 DEF DeleteRow, Return, DocumentTypeOK, Rows, Idle, At, Exists,
       RequestHolds, ProcessingIsAlone, UndisturbedHolds, Working, StoresMatchStatus,
       ReadyMeansSearchable, DeletedLeavesNothing
  <2>6. StoresMatchStatus'
    BY <1>16 DEF DeleteRow, Return, DocumentTypeOK, Rows, Idle, At, Exists,
       RequestHolds, UndisturbedHolds, ProcessingIsAlone, Working, StoresMatchStatus,
       ReadyMeansSearchable, DeletedLeavesNothing
  <2> QED
    BY <2>1, <2>2, <2>3, <2>4, <2>5, <2>6
<1>17. CASE DeleteFails(w)
  <2>1. DocumentTypeOK'
    BY <1>17 DEF DeleteFails, Go, DocumentTypeOK, Rows, Idle, At, Exists
  <2>2. \A v \in Workers : RequestHolds(v)'
    BY <1>17 DEF DeleteFails, Go, DocumentTypeOK, Rows, Idle, At, Exists, RequestHolds,
       OneUpload, Working, StoresMatchStatus, ReadyMeansSearchable, DeletedLeavesNothing
  <2>3. OneUpload'
    BY <1>17 DEF DeleteFails, Go, DocumentTypeOK, Idle, At, Exists, Rows, RequestHolds,
       OneUpload
  <2>4. ~overlapped' => ProcessingIsAlone'
    BY <1>17 DEF DeleteFails, Go, DocumentTypeOK, Rows, Idle, At, Exists, RequestHolds,
       ProcessingIsAlone, UndisturbedHolds, Working
  <2>5. ~overlapped' => \A v \in Workers : UndisturbedHolds(v)'
    BY <1>17 DEF DeleteFails, Go, DocumentTypeOK, Rows, Idle, At, Exists, RequestHolds,
       ProcessingIsAlone, UndisturbedHolds, Working, StoresMatchStatus,
       ReadyMeansSearchable, DeletedLeavesNothing
  <2>6. StoresMatchStatus'
    BY <1>17 DEF DeleteFails, Go, DocumentTypeOK, Rows, Idle, At, Exists, RequestHolds,
       UndisturbedHolds, ProcessingIsAlone, Working, StoresMatchStatus,
       ReadyMeansSearchable, DeletedLeavesNothing
  <2> QED
    BY <2>1, <2>2, <2>3, <2>4, <2>5, <2>6
<1>18. CASE DeleteRecordFailure(w)
  <2>1. DocumentTypeOK'
    BY <1>18 DEF DeleteRecordFailure, Return, DocumentTypeOK, Rows, Idle, At, Exists
  <2>2. \A v \in Workers : RequestHolds(v)'
    BY <1>18 DEF DeleteRecordFailure, Return, DocumentTypeOK, Rows, Idle, At, Exists,
       RequestHolds, OneUpload, Working, StoresMatchStatus, ReadyMeansSearchable,
       DeletedLeavesNothing
  <2>3. OneUpload'
    BY <1>18 DEF DeleteRecordFailure, Return, DocumentTypeOK, Idle, At, Exists, Rows,
       RequestHolds, OneUpload
  <2>4. ~overlapped' => ProcessingIsAlone'
    BY <1>18 DEF DeleteRecordFailure, Return, DocumentTypeOK, Rows, Idle, At, Exists,
       RequestHolds, ProcessingIsAlone, UndisturbedHolds, Working
  <2>5. ~overlapped' => \A v \in Workers : UndisturbedHolds(v)'
    BY <1>18 DEF DeleteRecordFailure, Return, DocumentTypeOK, Rows, Idle, At, Exists,
       RequestHolds, ProcessingIsAlone, UndisturbedHolds, Working, StoresMatchStatus,
       ReadyMeansSearchable, DeletedLeavesNothing
  <2>6. StoresMatchStatus'
    BY <1>18 DEF DeleteRecordFailure, Return, DocumentTypeOK, Rows, Idle, At, Exists,
       RequestHolds, UndisturbedHolds, ProcessingIsAlone, Working, StoresMatchStatus,
       ReadyMeansSearchable, DeletedLeavesNothing
  <2> QED
    BY <2>1, <2>2, <2>3, <2>4, <2>5, <2>6
<1> QED
  BY <1>1, <1>2, <1>3, <1>4, <1>5, <1>6, <1>7, <1>8, <1>9, <1>10, <1>11, <1>12, <1>13,
     <1>14, <1>15, <1>16, <1>17, <1>18 DEF WorkStep

\* A crash leaves the rows and the stores alone, and every request forgotten.
LEMMA LegacyCrash == LegacyInvariant /\ Crash => LegacyInvariant'
<1> SUFFICES ASSUME LegacyInvariant, Crash PROVE LegacyInvariant'
  OBVIOUS
<1>1. Idle \in [op : {"NONE", "UPLOAD", "PROCESS", "DELETE"},
               at : {"idle", "begin", "clear", "parse", "insert", "finish", "file", "fail"},
               seen : Rows \union {"NONE"}]
  BY DEF Idle
<1>2. DocumentTypeOK'
  <2>1. work' \in [Workers -> [op : {"NONE", "UPLOAD", "PROCESS", "DELETE"},
               at : {"idle", "begin", "clear", "parse", "insert", "finish", "file", "fail"},
               seen : Rows \union {"NONE"}]]
    BY <1>1 DEF Crash
  <2> QED
    BY <2>1, LegacyAssumption DEF LegacyInvariant, Crash, DocumentTypeOK
<1>3. \A w \in Workers : work'[w] = Idle
  BY DEF Crash
<1>4. \A w \in Workers : RequestHolds(w)' /\ UndisturbedHolds(w)' /\ ~Working(w)'
  BY <1>3 DEF RequestHolds, UndisturbedHolds, Working, At, Idle
<1>5. OneUpload' /\ ProcessingIsAlone'
  BY <1>3, <1>4 DEF OneUpload, ProcessingIsAlone, Idle
<1>6. StoresMatchStatus'
  BY DEF LegacyInvariant, Crash, StoresMatchStatus, ReadyMeansSearchable, DeletedLeavesNothing
<1> QED
  BY <1>2, <1>4, <1>5, <1>6 DEF LegacyInvariant

LEMMA LegacyStutters == LegacyInvariant /\ UNCHANGED documentVars => LegacyInvariant'
  BY DEF documentVars, LegacyInvariant, DocumentTypeOK, RequestHolds, UndisturbedHolds,
         OneUpload, ProcessingIsAlone, StoresMatchStatus, ReadyMeansSearchable,
         DeletedLeavesNothing, Working, At

\* The invariant holds in every behaviour.
THEOREM LegacyInvariantHolds == DocumentSpec => []LegacyInvariant
<1>1. LegacyInvariant /\ [DocumentNext]_documentVars => LegacyInvariant'
  BY LegacyStutters, LegacyWorkStep, LegacyCrash DEF DocumentNext
<1> QED
  BY LegacyInitial, <1>1, PTL DEF DocumentSpec

\* Every value a document, its stores and the requests take has its type.
THEOREM DocumentTypes == DocumentSpec => []DocumentTypeOK
<1>1. LegacyInvariant => DocumentTypeOK
  BY DEF LegacyInvariant
<1> QED
  BY LegacyInvariantHolds, <1>1, PTL

\* A READY document has its chunks and its original, unless work on it overlapped
\* (process_document commits the status after Chroma) or the deletion that began
\* last did not write DELETING (delete_document, from a copy that said so already).
THEOREM ReadyIsSearchable == DocumentSpec => []ReadyMeansSearchable
<1>1. LegacyInvariant => ReadyMeansSearchable
  BY DEF LegacyInvariant, StoresMatchStatus
<1> QED
  BY LegacyInvariantHolds, <1>1, PTL

\* A deleted document leaves no original and, unless work on it overlapped, no chunks
\* (delete_document removes the row last).
THEOREM DeletionLeavesNothing == DocumentSpec => []DeletedLeavesNothing
<1>1. LegacyInvariant => DeletedLeavesNothing
  BY DEF LegacyInvariant, StoresMatchStatus
<1> QED
  BY LegacyInvariantHolds, <1>1, PTL

-----------------------------------------------------------------------------
\* Questions beside the document.

\* Chat changes nothing of the document: what holds of documents alone holds
\* beside questions.
THEOREM ChatLeavesDocuments == Spec => DocumentSpec
<1>1. Init => DocumentInit
  BY DEF Init
<1>2. [Next]_vars => [DocumentNext]_documentVars
  <2>1. ASSUME NEW c \in Askers, AskStep(c)
        PROVE  UNCHANGED documentVars
    BY <2>1 DEF AskStep, ReadHistory, Retrieve, AskModel, AskFails, SaveExchange
  <2> QED BY <2>1 DEF Next, DocumentNext, vars
<1> QED BY <1>1, <1>2, PTL DEF Spec, DocumentSpec

\* The parts of a question.
AsksFormed ==
    ask = [c \in Askers |-> [at |-> ask[c].at, history |-> ask[c].history,
                             found |-> ask[c].found, late |-> ask[c].late]]

\* Who asked after the deletion finds chunks only if work overlapped.
LateQuestions ==
    \A c \in Askers : ask[c].late => status = "GONE" /\ (ask[c].found => overlapped)

LateInvariant == AsksFormed /\ LateQuestions /\ AnswersCiteNoDeletedDocument

\* A deleted document does not come back, and an overlap is not forgotten.
LEMMA GoneStays ==
  ASSUME LegacyInvariant, [DocumentNext]_documentVars
  PROVE  /\ status = "GONE" => status' = "GONE"
         /\ overlapped => overlapped'
<1>1. CASE UNCHANGED documentVars \/ Crash
  BY <1>1 DEF documentVars, Crash
<1>2. ASSUME NEW w \in Workers, WorkStep(w)
      PROVE  status = "GONE" => status' = "GONE"
  <2>1. CASE UploadFile(w) \/ UploadCommit(w) \/ UploadFails(w)
    BY <2>1 DEF UploadFile, UploadCommit, UploadFails, LegacyInvariant, RequestHolds, At
  <2>2. CASE \/ \E op \in {"PROCESS", "DELETE"} : Load(w, op)
             \/ BeginFails(w) \/ ProcessBegin(w) \/ DeleteBegin(w)
    BY <2>2 DEF Load, BeginFails, ProcessBegin, DeleteBegin, Exists, Rows
  <2>3. CASE \/ ProcessClear(w) \/ ProcessParse(w) \/ ProcessInsert(w) \/ ProcessFinish(w)
             \/ ProcessFails(w) \/ ProcessRecordFailure(w)
    BY <2>3 DEF ProcessClear, ProcessParse, ProcessInsert, ProcessFinish, ProcessFails,
                ProcessRecordFailure, ClearChunks, Exists, Rows
  <2>4. CASE DeleteChunks(w) \/ DeleteFile(w) \/ DeleteRow(w) \/ DeleteFails(w)
    BY <2>4 DEF DeleteChunks, DeleteFile, DeleteRow, DeleteFails, ClearChunks
  <2>5. CASE DeleteRecordFailure(w)
    BY <2>5 DEF DeleteRecordFailure, Exists, Rows
  <2> QED BY <1>2, <2>1, <2>2, <2>3, <2>4, <2>5 DEF WorkStep
<1>3. ASSUME NEW w \in Workers, WorkStep(w), overlapped
      PROVE  overlapped'
  <2>1. CASE ProcessBegin(w) \/ DeleteBegin(w)
    BY <1>3, <2>1, Zenon DEF ProcessBegin, DeleteBegin, Begin
  <2>3. CASE UploadFile(w) \/ UploadCommit(w) \/ UploadFails(w)
    BY <1>3, <2>3 DEF UploadFile, UploadCommit, UploadFails
  <2>4. CASE (\E op \in {"PROCESS", "DELETE"} : Load(w, op)) \/ BeginFails(w)
    BY <1>3, <2>4 DEF Load, BeginFails
  <2>5. CASE \/ ProcessClear(w) \/ ProcessParse(w) \/ ProcessInsert(w) \/ ProcessFinish(w)
             \/ ProcessFails(w) \/ ProcessRecordFailure(w)
    BY <1>3, <2>5 DEF ProcessClear, ProcessParse, ProcessInsert, ProcessFinish, ProcessFails,
                      ProcessRecordFailure, ClearChunks
  <2>6. CASE \/ DeleteChunks(w) \/ DeleteFile(w) \/ DeleteRow(w) \/ DeleteFails(w)
             \/ DeleteRecordFailure(w)
    BY <1>3, <2>6 DEF DeleteChunks, DeleteFile, DeleteRow, DeleteFails, DeleteRecordFailure,
                      ClearChunks
  <2> QED BY <1>3, <2>1, <2>3, <2>4, <2>5, <2>6 DEF WorkStep
<1> QED BY <1>1, <1>2, <1>3 DEF DocumentNext

LEMMA LateStep ==
  ASSUME LegacyInvariant, [DocumentNext]_documentVars, LateInvariant, [Next]_vars
  PROVE  LateInvariant'
<1>1. (status = "GONE" => status' = "GONE") /\ (overlapped => overlapped')
  BY GoneStays
<1>2. CASE UNCHANGED <<messages, ask>>
  BY <1>1, <1>2 DEF LateInvariant, AsksFormed, LateQuestions, AnswersCiteNoDeletedDocument
<1>3. CASE ask' = [c \in Askers |-> NoQuestion] /\ UNCHANGED messages
  BY <1>1, <1>3 DEF LateInvariant, AsksFormed, LateQuestions, AnswersCiteNoDeletedDocument, NoQuestion
<1>4. ASSUME NEW c \in Askers, AskStep(c), NEW at, NEW history, NEW found, NEW late,
             ask' = [ask EXCEPT ![c] = [at |-> at, history |-> history, found |-> found, late |-> late]],
             late => status = "GONE" /\ (found => overlapped)
      PROVE  AsksFormed' /\ LateQuestions'
  <2>1. UNCHANGED documentVars
    BY <1>4 DEF AskStep, ReadHistory, Retrieve, AskModel, AskFails, SaveExchange
  <2>2. AsksFormed'
    BY <1>4 DEF LateInvariant, AsksFormed
  <2>3. LateQuestions'
    BY <1>4, <2>1 DEF LateInvariant, AsksFormed, LateQuestions, documentVars
  <2> QED BY <2>2, <2>3
<1>5. ASSUME NEW c \in Askers, AskStep(c)
      PROVE  LateInvariant'
  <2>1. UNCHANGED documentVars
    BY <1>5 DEF AskStep, ReadHistory, Retrieve, AskModel, AskFails, SaveExchange
  <2>2. ask[c] = [at |-> ask[c].at, history |-> ask[c].history,
                  found |-> ask[c].found, late |-> ask[c].late]
    BY DEF LateInvariant, AsksFormed
  <2>3. ask[c].late => status = "GONE" /\ (ask[c].found => overlapped)
    BY DEF LateInvariant, LateQuestions
  <2>4. AsksFormed' /\ LateQuestions'
    <3>1. CASE ReadHistory(c)
      <4>1. ask' = [ask EXCEPT ![c] = [at |-> "retrieve", history |-> RecentMessages,
                                       found |-> FALSE, late |-> status = "GONE"]]
        BY <3>1 DEF ReadHistory
      <4> HIDE DEF RecentMessages
      <4> QED BY <1>4, <1>5, <4>1
    <3>2. CASE Retrieve(c)
      <4>1. PICK found \in {FALSE, vectors} :
              ask' = [ask EXCEPT ![c].found = found, ![c].at = IF found THEN "model" ELSE "save"]
        BY <3>2 DEF Retrieve
      <4> DEFINE next == IF found THEN "model" ELSE "save"
      <4> HIDE DEF next
      <4>3. ask' = [ask EXCEPT ![c] = [at |-> next, history |-> ask[c].history, found |-> found,
                                       late |-> ask[c].late]]
        <5>1. [ask[c] EXCEPT !.found = found, !.at = next] =
                [at |-> next, history |-> ask[c].history, found |-> found, late |-> ask[c].late]
          <6> DEFINE r == [ask[c] EXCEPT !.found = found]
          <6>1. r = [at |-> ask[c].at, history |-> ask[c].history, found |-> found,
                     late |-> ask[c].late]
            BY <2>2
          <6>2. [ask[c] EXCEPT !.found = found, !.at = next] = [r EXCEPT !.at = next]
            BY <2>2
          <6> HIDE DEF r
          <6> QED BY <6>1, <6>2
        <5>2. ask' = [ask EXCEPT ![c] = [ask[c] EXCEPT !.found = found, !.at = next]]
          BY <1>5, <4>1 DEF next, LateInvariant, AsksFormed
        <5> QED BY <5>1, <5>2
      <4>2. ask[c].late /\ found => overlapped
        BY <2>3 DEF LegacyInvariant, StoresMatchStatus, DeletedLeavesNothing
      <4>4. ask[c].late => status = "GONE" /\ (found => overlapped)
        BY <2>3, <4>2, Zenon
      <4> QED BY <1>4, <1>5, <4>3, <4>4
    <3>3. CASE AskModel(c)
      <4>1. ask' = [ask EXCEPT ![c] = [at |-> "save", history |-> ask[c].history,
                                       found |-> ask[c].found, late |-> ask[c].late]]
        <5>1. [ask[c] EXCEPT !.at = "save"] =
                [at |-> "save", history |-> ask[c].history, found |-> ask[c].found, late |-> ask[c].late]
          BY <2>2
        <5>2. ask' = [ask EXCEPT ![c] = [ask[c] EXCEPT !.at = "save"]]
          BY <3>3 DEF AskModel, LateInvariant, AsksFormed
        <5> QED BY <5>1, <5>2
      <4> QED BY <1>4, <1>5, <2>3, <4>1
    <3>4. CASE AskFails(c) \/ SaveExchange(c)
      BY <1>4, <1>5, <3>4 DEF AskFails, SaveExchange, NoQuestion
    <3> QED BY <1>5, <3>1, <3>2, <3>3, <3>4 DEF AskStep
  <2>5. AnswersCiteNoDeletedDocument'
    <3>1. CASE SaveExchange(c)
      <4>1. \A t : \A m \in Exchange(t, ask[c]) :
              m.sources /\ m.late => ask[c].found /\ ask[c].late
        BY DEF Exchange, Message
      <4>2. PICK t : messages' = messages \union Exchange(t, ask[c])
        BY <3>1 DEF SaveExchange
      <4> QED BY <2>1, <2>3, <4>1, <4>2 DEF LateInvariant, AnswersCiteNoDeletedDocument, documentVars
    <3>2. CASE UNCHANGED messages
      BY <2>1, <3>2 DEF LateInvariant, AnswersCiteNoDeletedDocument, documentVars
    <3> QED BY <1>5, <3>1, <3>2 DEF AskStep, ReadHistory, Retrieve, AskModel, AskFails
  <2> QED BY <2>4, <2>5 DEF LateInvariant
<1> QED BY <1>2, <1>3, <1>5 DEF Next, vars

LEMMA LateInvariantHolds == Spec => []LateInvariant
<1>1. Init => LateInvariant
  BY DEF Init, LateInvariant, AsksFormed, LateQuestions, AnswersCiteNoDeletedDocument,
         NoQuestion, Message
<1>2. Spec => [][DocumentNext]_documentVars /\ []LegacyInvariant
  BY ChatLeavesDocuments, LegacyInvariantHolds, PTL DEF DocumentSpec
<1> QED BY <1>1, <1>2, LateStep, PTL DEF Spec

\* Unless work on the document overlapped, no answer to a question asked after
\* its deletion cites it, though retrieve_chunks does not look at the row.
THEOREM DeletedIsNotCited == Spec => []AnswersCiteNoDeletedDocument
<1>1. LateInvariant => AnswersCiteNoDeletedDocument
  BY DEF LateInvariant
<1> QED BY LateInvariantHolds, <1>1, PTL

-----------------------------------------------------------------------------
\* The history of a prompt.

\* Exchanges are stored whole, one question and one answer each, the answer a
\* microsecond after the question.
ExchangesWhole ==
    /\ IsFiniteSet(messages)
    /\ \A m \in messages :
         /\ m.exchange \in Nat /\ m.role \in Roles
         /\ m.time = m.exchange + (IF m.role = "USER" THEN 0 ELSE 1)
         /\ \E n \in messages : n.exchange = m.exchange /\ n.role # m.role
    /\ \A m, n \in messages : m.exchange = n.exchange /\ m.role = n.role => m = n

\* The order of the messages is that of their numbers.
Number(m) == 2 * m.exchange + (IF m.role = "USER" THEN 1 ELSE 2)

LEMMA OrderIsNumber ==
  ASSUME ExchangesWhole, NEW m \in messages, NEW n \in messages
  PROVE  /\ Number(m) \in Nat
         /\ Before(m, n) <=> Number(m) < Number(n)
         /\ Number(m) = Number(n) => m = n
<1>1. /\ m.exchange \in Nat /\ n.exchange \in Nat /\ m.role \in Roles /\ n.role \in Roles
      /\ m.time = m.exchange + (IF m.role = "USER" THEN 0 ELSE 1)
      /\ n.time = n.exchange + (IF n.role = "USER" THEN 0 ELSE 1)
      /\ m.exchange = n.exchange /\ m.role = n.role => m = n
  BY DEF ExchangesWhole
<1> QED BY <1>1 DEF Number, Before, RolesDescending, Roles

Earlier(m) == {n \in messages : Before(n, m)}

\* Positions count from one to the number of messages.
LEMMA PositionCounts ==
  ASSUME ExchangesWhole, NEW m \in messages
  PROVE  /\ IsFiniteSet(Earlier(m)) /\ Cardinality(Earlier(m)) \in Nat
         /\ Position(m) = 1 + Cardinality(Earlier(m))
         /\ Position(m) \in 1 .. Cardinality(messages)
<1>1. IsFiniteSet(messages) /\ Cardinality(messages) \in Nat
  BY FS_CardinalityType DEF ExchangesWhole
<1>2. ~Before(m, m)
  BY OrderIsNumber
<1>3. Earlier(m) \subseteq messages \ {m}
  BY <1>2 DEF Earlier
<1>4. IsFiniteSet(messages \ {m}) /\ Cardinality(messages \ {m}) = Cardinality(messages) - 1
  BY <1>1, FS_RemoveElement
<1>5. IsFiniteSet(Earlier(m)) /\ Cardinality(Earlier(m)) <= Cardinality(messages) - 1
  BY <1>3, <1>4, FS_Subset
<1>6. Cardinality(Earlier(m)) \in Nat
  BY <1>5, FS_CardinalityType
<1>7. Position(m) = 1 + Cardinality(Earlier(m))
  BY DEF Position, Earlier
<1> QED BY <1>1, <1>5, <1>6, <1>7

LEMMA PositionsFollowOrder ==
  ASSUME ExchangesWhole, NEW m \in messages, NEW n \in messages, Before(m, n)
  PROVE  Position(m) < Position(n)
<1>1. m \notin Earlier(m)
  BY OrderIsNumber DEF Earlier
<1>2. Earlier(m) \union {m} \subseteq Earlier(n)
  <2>1. ASSUME NEW o \in messages, Before(o, m) PROVE Before(o, n)
    <3>1. Number(o) \in Nat /\ Number(m) \in Nat /\ Number(n) \in Nat
      BY OrderIsNumber
    <3>2. Number(o) < Number(m) /\ Number(m) < Number(n)
      BY <2>1, OrderIsNumber
    <3>3. Number(o) < Number(n)
      BY <3>1, <3>2
    <3> QED BY <3>3, OrderIsNumber
  <2> QED BY <2>1 DEF Earlier
<1>3. IsFiniteSet(Earlier(m)) /\ IsFiniteSet(Earlier(n)) /\ Cardinality(Earlier(m)) \in Nat
  BY PositionCounts
<1>4. Cardinality(Earlier(m) \union {m}) = Cardinality(Earlier(m)) + 1
  BY <1>1, <1>3, FS_AddElement
<1>5. Cardinality(Earlier(m) \union {m}) <= Cardinality(Earlier(n))
  BY <1>2, <1>3, FS_Subset
<1>6. Cardinality(Earlier(n)) \in Nat
  BY PositionCounts
<1>7. Position(m) = 1 + Cardinality(Earlier(m)) /\ Position(n) = 1 + Cardinality(Earlier(n))
  BY PositionCounts
<1> QED BY <1>3, <1>4, <1>5, <1>6, <1>7

\* No two messages share a position.
LEMMA PositionsDiffer ==
  ASSUME ExchangesWhole, NEW m \in messages, NEW n \in messages, Position(m) = Position(n)
  PROVE  m = n
<1>1. Position(m) \in Nat /\ Position(n) \in Nat
  <2>1. Position(m) \in 1 .. Cardinality(messages) /\ Position(n) \in 1 .. Cardinality(messages)
    BY PositionCounts
  <2>2. Cardinality(messages) \in Nat
    BY FS_CardinalityType DEF ExchangesWhole
  <2> QED BY <2>1, <2>2
<1>2. ~Before(m, n) /\ ~Before(n, m)
  BY <1>1, PositionsFollowOrder
<1>3. Number(m) \in Nat /\ Number(n) \in Nat
  BY OrderIsNumber
<1>4. ~(Number(m) < Number(n)) /\ ~(Number(n) < Number(m))
  BY <1>2, OrderIsNumber
<1>5. Number(m) = Number(n)
  BY <1>3, <1>4
<1> QED BY <1>5, OrderIsNumber

\* Every position is taken.
LEMMA PositionsTaken ==
  ASSUME ExchangesWhole, NEW p \in 1 .. Cardinality(messages)
  PROVE  \E m \in messages : Position(m) = p
<1> DEFINE count == Cardinality(messages)
           f == [m \in messages |-> Position(m)]
<1>1. IsFiniteSet(messages) /\ count \in Nat
  BY FS_CardinalityType DEF ExchangesWhole
<1>2. f \in [messages -> 1 .. count]
  BY PositionCounts
<1>3. f \in Injection(messages, 1 .. count)
  <2>1. \A m, n \in messages : f[m] = f[n] => m = n
    BY PositionsDiffer
  <2> HIDE DEF f
  <2> QED BY <1>2, <2>1, Fun_IsInj
<1>4. IsFiniteSet(1 .. count) /\ Cardinality(1 .. count) = count
  BY <1>1, FS_Interval
<1> HIDE DEF f
<1>5. f \in Surjection(messages, 1 .. count)
  BY <1>3, <1>4, FS_Injection
<1>6. \E m \in messages : f[m] = p
  BY <1>5 DEF Surjection
<1> QED BY <1>6 DEF f

\* Half of the messages of a set of exchanges are questions.
LEMMA MessagesAreEven ==
  ASSUME ExchangesWhole, NEW X
  PROVE  Cardinality({m \in messages : m.exchange \in X}) % 2 = 0
<1> DEFINE questions == {m \in messages : m.exchange \in X /\ m.role = "USER"}
           answers == {m \in messages : m.exchange \in X /\ m.role = "ASSISTANT"}
           Partner(m) == CHOOSE n \in messages : n.exchange = m.exchange /\ n.role # m.role
           f == [m \in questions |-> Partner(m)]
<1>1. ASSUME NEW m \in messages
      PROVE  /\ m.role \in Roles
             /\ Partner(m) \in messages
             /\ Partner(m).exchange = m.exchange /\ Partner(m).role # m.role
             /\ Partner(m).role \in Roles
  BY DEF ExchangesWhole
<1> HIDE DEF Partner
<1>2. f \in [questions -> answers]
  BY <1>1 DEF Roles
<1>3. f \in Injection(questions, answers)
  <2>1. \A m, n \in questions : f[m] = f[n] => m = n
    BY <1>1 DEF ExchangesWhole
  <2> HIDE DEF f, questions, answers
  <2> QED BY <1>2, <2>1, Fun_IsInj
<1>4. f \in Surjection(questions, answers)
  <2>1. ASSUME NEW n \in answers PROVE \E m \in questions : f[m] = n
    <3>1. Partner(n) \in questions
      BY <1>1 DEF Roles
    <3>2. Partner(Partner(n)) = n
      <4>1. /\ Partner(n) \in messages /\ Partner(Partner(n)) \in messages
            /\ Partner(Partner(n)).exchange = n.exchange
            /\ Partner(Partner(n)).role = n.role
        BY <1>1 DEF Roles
      <4> QED BY <4>1 DEF ExchangesWhole
    <3> QED BY <3>1, <3>2
  <2> HIDE DEF f, questions, answers
  <2> QED BY <1>2, <2>1, Fun_IsSurj
<1>5. f \in Bijection(questions, answers)
  BY <1>3, <1>4 DEF Bijection
<1>6. IsFiniteSet(questions)
  <2>1. questions \in SUBSET messages
    OBVIOUS
  <2> HIDE DEF questions
  <2> QED BY <2>1, FS_Subset DEF ExchangesWhole
<1> HIDE DEF f
<1>7. IsFiniteSet(answers) /\ Cardinality(answers) = Cardinality(questions)
  <2>1. ExistsBijection(questions, answers)
    BY <1>5 DEF ExistsBijection
  <2> HIDE DEF questions, answers
  <2> QED BY <1>6, <2>1, FS_Bijection
<1>8. questions \intersect answers = {}
  OBVIOUS
<1>9. {m \in messages : m.exchange \in X} = questions \union answers
  BY <1>1 DEF Roles
<1> HIDE DEF questions, answers
<1>10. /\ Cardinality(questions) \in Nat
       /\ Cardinality(questions \intersect answers) = 0
  BY <1>6, <1>8, FS_CardinalityType, FS_EmptySet
<1>11. Cardinality(questions \union answers) = 2 * Cardinality(questions)
  <2>1. Cardinality(questions \union answers) =
          Cardinality(questions) + Cardinality(answers) - Cardinality(questions \intersect answers)
    BY <1>6, <1>7, FS_Union
  <2> QED BY <1>7, <1>10, <2>1
<1>12. (2 * Cardinality(questions)) % 2 = 0
  BY <1>10
<1> QED BY <1>9, <1>11, <1>12

\* Questions stand at odd positions, each directly before its answer.
LEMMA AnswerFollowsQuestion ==
  ASSUME ExchangesWhole, NEW q \in messages, NEW a \in messages,
         q.role = "USER", a.role = "ASSISTANT", a.exchange = q.exchange
  PROVE  Position(q) % 2 = 1 /\ Position(a) = Position(q) + 1
<1>1. q.exchange \in Nat /\ \A m \in messages : m.exchange \in Nat /\ m.role \in Roles
  BY DEF ExchangesWhole
<1>2. \A m \in messages : Before(m, q) <=> m.exchange \in 0 .. q.exchange - 1
  <2>1. ASSUME NEW m \in messages PROVE Before(m, q) <=> m.exchange \in 0 .. q.exchange - 1
    <3>1. Before(m, q) <=> Number(m) < Number(q)
      BY OrderIsNumber
    <3> QED BY <1>1, <3>1 DEF Number, Roles
  <2> QED BY <2>1
<1>3. \A m \in messages : Before(m, a) <=> Before(m, q) \/ m = q
  <2>1. ASSUME NEW m \in messages PROVE Before(m, a) <=> Before(m, q) \/ m = q
    <3>1. /\ Before(m, q) <=> Number(m) < Number(q)
          /\ Before(m, a) <=> Number(m) < Number(a)
          /\ Number(m) = Number(q) => m = q
          /\ Number(m) \in Nat /\ Number(q) \in Nat
      BY OrderIsNumber
    <3>2. Number(a) = Number(q) + 1
      BY <1>1 DEF Number
    <3> QED BY <3>1, <3>2
  <2> QED BY <2>1
<1>4. Earlier(q) = {m \in messages : m.exchange \in 0 .. q.exchange - 1}
  BY <1>2 DEF Earlier
<1>5. Cardinality(Earlier(q)) % 2 = 0
  <2> DEFINE X == 0 .. q.exchange - 1
  <2>1. Earlier(q) = {m \in messages : m.exchange \in X}
    BY <1>4
  <2> HIDE DEF X
  <2> QED BY <2>1, MessagesAreEven
<1>6. Earlier(a) = Earlier(q) \union {q} /\ q \notin Earlier(q)
  BY <1>1, <1>2, <1>3 DEF Earlier
<1>7. IsFiniteSet(Earlier(q)) /\ Cardinality(Earlier(q)) \in Nat
  BY PositionCounts
<1>8. Cardinality(Earlier(a)) = Cardinality(Earlier(q)) + 1
  BY <1>6, <1>7, FS_AddElement
<1>9. Position(q) = 1 + Cardinality(Earlier(q)) /\ Position(a) = 1 + Cardinality(Earlier(a))
  BY PositionCounts
<1> QED BY <1>5, <1>7, <1>8, <1>9

\* A history is sound when question and answer alternate.
Alternates(history) ==
    /\ Len(history) % 2 = 0
    /\ \A i \in DOMAIN history : i % 2 = 1 =>
         /\ history[i].role = "USER" /\ history[i + 1].role = "ASSISTANT"
         /\ history[i].exchange = history[i + 1].exchange

LEMMA RecentMessagesAlternate ==
  ASSUME ExchangesWhole, HistoryLimit % 2 = 0
  PROVE  Alternates(RecentMessages)
<1> DEFINE count == Cardinality(messages)
           skipped == IF count > HistoryLimit THEN count - HistoryLimit ELSE 0
           Placed(p) == CHOOSE m \in messages : Position(m) = p
           recent == [i \in 1 .. count - skipped |-> Placed(skipped + i)]
<1>1. count \in Nat /\ HistoryLimit \in Nat
  BY FS_CardinalityType, ChatAssumption DEF ExchangesWhole
<1>2. count % 2 = 0
  <2>1. messages = {m \in messages : m.exchange \in Nat}
    BY DEF ExchangesWhole
  <2> QED BY <2>1, MessagesAreEven
<1>3. /\ skipped \in Nat /\ count - skipped \in Nat
      /\ skipped % 2 = 0 /\ (count - skipped) % 2 = 0
  <2> HIDE DEF count
  <2>1. CASE count > HistoryLimit
    <3>1. skipped = count - HistoryLimit /\ count - skipped = HistoryLimit
      BY <1>1, <2>1
    <3>2. (count - HistoryLimit) % 2 = 0
      BY <1>1, <1>2, <2>1
    <3> HIDE DEF skipped
    <3> QED BY <1>1, <2>1, <3>1, <3>2
  <2>2. CASE ~(count > HistoryLimit)
    <3>1. skipped = 0 /\ count - skipped = count
      BY <1>1, <2>2
    <3> HIDE DEF skipped
    <3> QED BY <1>1, <1>2, <3>1
  <2> QED BY <2>1, <2>2
<1>4. RecentMessages = recent
  BY DEF RecentMessages
<1> HIDE DEF count, skipped
<1>5. ASSUME NEW p \in 1 .. count
      PROVE  Placed(p) \in messages /\ Position(Placed(p)) = p
  BY PositionsTaken DEF count
<1>6. Len(recent) = count - skipped
  BY <1>3
<1>7. ASSUME NEW i \in 1 .. count - skipped, i % 2 = 1
      PROVE  /\ recent[i].role = "USER" /\ recent[i + 1].role = "ASSISTANT"
             /\ recent[i].exchange = recent[i + 1].exchange
  <2> DEFINE p == skipped + i
  <2>1. i + 1 \in 1 .. count - skipped
    BY <1>3, <1>7
  <2>2. p \in 1 .. count /\ p % 2 = 1 /\ p + 1 \in 1 .. count
    BY <1>1, <1>3, <1>7, <2>1
  <2>3. recent[i] = Placed(p) /\ recent[i + 1] = Placed(p + 1)
    <3>1. skipped + (i + 1) = p + 1
      BY <1>3
    <3>2. recent[i + 1] = Placed(skipped + (i + 1))
      BY <2>1
    <3> QED BY <3>1, <3>2
  <2> HIDE DEF p
  <2>4. Placed(p) \in messages /\ Position(Placed(p)) = p
    BY <1>5, <2>2
  <2>5. Placed(p + 1) \in messages /\ Position(Placed(p + 1)) = p + 1
    BY <1>5, <2>2
  <2> HIDE DEF Placed, recent
  <2>6. PICK n \in messages : n.exchange = Placed(p).exchange /\ n.role # Placed(p).role
    BY <2>4 DEF ExchangesWhole
  <2>7. Placed(p).role \in Roles /\ n.role \in Roles
    BY <2>4 DEF ExchangesWhole
  <2>8. Placed(p).role = "USER"
    <3>1. CASE Placed(p).role = "ASSISTANT"
      <4>1. n.role = "USER"
        BY <2>6, <2>7, <3>1 DEF Roles
      <4>2. Position(n) % 2 = 1 /\ Position(Placed(p)) = Position(n) + 1
        BY <2>4, <2>6, <3>1, <4>1, AnswerFollowsQuestion
      <4>3. Position(n) \in Nat
        BY PositionCounts
      <4> QED BY <2>2, <2>4, <4>2, <4>3
    <3> QED BY <2>7, <3>1 DEF Roles
  <2>9. n.role = "ASSISTANT"
    BY <2>6, <2>7, <2>8 DEF Roles
  <2>10. Position(n) = p + 1
    BY <2>4, <2>6, <2>8, <2>9, AnswerFollowsQuestion
  <2>11. Placed(p + 1) = n
    BY <2>5, <2>10, PositionsDiffer
  <2> QED BY <2>3, <2>6, <2>8, <2>9, <2>11
<1>8. DOMAIN recent = 1 .. count - skipped
  OBVIOUS
<1> HIDE DEF recent
<1>9. Alternates(recent)
  BY <1>3, <1>6, <1>7, <1>8 DEF Alternates
<1> QED BY <1>4, <1>9

\* The inductive invariant of the history.
HistoryInvariant == AsksFormed /\ ExchangesWhole /\ \A c \in Askers : Alternates(ask[c].history)

LEMMA NoHistoryAlternates == Alternates(NoQuestion.history)
<1>1. NoQuestion.history = <<>>
  BY DEF NoQuestion
<1>2. Len(<<>>) = 0 /\ DOMAIN <<>> = {}
  OBVIOUS
<1> QED BY <1>1, <1>2 DEF Alternates

\* A new exchange is whole.
LEMMA ExchangeKeepsWhole ==
  ASSUME ExchangesWhole, NEW question, NEW t \in Times \ {m.exchange : m \in messages},
         messages' = messages \union Exchange(t, question)
  PROVE  ExchangesWhole'
<1>1. t \in Nat /\ \A m \in messages : m.exchange # t
  BY ChatAssumption
<1> DEFINE asked == Message(t, "USER", t, FALSE, question.late)
           answered == Message(t, "ASSISTANT", t + 1, question.found, question.late)
<1>2. /\ asked.exchange = t /\ asked.role = "USER" /\ asked.time = t
      /\ answered.exchange = t /\ answered.role = "ASSISTANT" /\ answered.time = t + 1
  BY DEF Message
<1>3. messages' = (messages \union {asked}) \union {answered}
  BY DEF Exchange
<1> HIDE DEF asked, answered
<1>4. IsFiniteSet(messages')
  <2>1. IsFiniteSet(messages \union {asked})
    BY FS_AddElement DEF ExchangesWhole
  <2> QED BY <1>3, <2>1, FS_AddElement
<1>5. ASSUME NEW m \in messages'
      PROVE  /\ m.exchange \in Nat /\ m.role \in Roles
             /\ m.time = m.exchange + (IF m.role = "USER" THEN 0 ELSE 1)
             /\ \E n \in messages' : n.exchange = m.exchange /\ n.role # m.role
  <2>1. CASE m \in messages
    BY <1>3, <2>1 DEF ExchangesWhole
  <2>2. CASE m = asked
    BY <1>1, <1>2, <1>3, <2>2 DEF Roles
  <2>3. CASE m = answered
    BY <1>1, <1>2, <1>3, <2>3 DEF Roles
  <2> QED BY <1>3, <2>1, <2>2, <2>3
<1>6. ASSUME NEW m \in messages', NEW n \in messages', m.exchange = n.exchange, m.role = n.role
      PROVE  m = n
  BY <1>1, <1>2, <1>3, <1>6 DEF ExchangesWhole
<1> QED BY <1>4, <1>5, <1>6 DEF ExchangesWhole

LEMMA HistoryStep ==
  ASSUME HistoryLimit % 2 = 0, AsksFormed', HistoryInvariant, [Next]_vars
  PROVE  HistoryInvariant'
<1>1. CASE UNCHANGED <<messages, ask>>
  BY <1>1 DEF HistoryInvariant, ExchangesWhole
<1>2. CASE ask' = [c \in Askers |-> NoQuestion] /\ UNCHANGED messages
  BY <1>2, NoHistoryAlternates DEF HistoryInvariant, ExchangesWhole
<1>3. ASSUME NEW c \in Askers, AskStep(c)
      PROVE  HistoryInvariant'
  <2>1. ExchangesWhole'
    <3>1. CASE SaveExchange(c)
      BY <3>1, ExchangeKeepsWhole DEF SaveExchange, HistoryInvariant
    <3>2. CASE UNCHANGED messages
      BY <3>2 DEF HistoryInvariant, ExchangesWhole
    <3> QED BY <1>3, <3>1, <3>2 DEF AskStep, ReadHistory, Retrieve, AskModel, AskFails
  <2>2. \A d \in Askers : Alternates(ask'[d].history)
    <3> DOMAIN ask = Askers
      BY DEF HistoryInvariant, AsksFormed
    <3>1. CASE ReadHistory(c)
      <4>1. Alternates(RecentMessages)
        BY RecentMessagesAlternate DEF HistoryInvariant
      <4>2. ask'[c].history = RecentMessages /\ \A d \in Askers \ {c} : ask'[d] = ask[d]
        <5> HIDE DEF RecentMessages
        <5> QED BY <3>1 DEF ReadHistory, HistoryInvariant, AsksFormed
      <4> QED BY <4>1, <4>2 DEF HistoryInvariant
    <3>2. CASE Retrieve(c) \/ AskModel(c)
      <4>1. \A d \in Askers : ask'[d].history = ask[d].history
        BY <3>2 DEF Retrieve, AskModel, HistoryInvariant, AsksFormed
      <4> QED BY <4>1 DEF HistoryInvariant
    <3>3. CASE AskFails(c) \/ SaveExchange(c)
      <4>1. ask'[c] = NoQuestion /\ \A d \in Askers \ {c} : ask'[d] = ask[d]
        BY <3>3 DEF AskFails, SaveExchange, HistoryInvariant, AsksFormed
      <4> QED BY <4>1, NoHistoryAlternates DEF HistoryInvariant
    <3> QED BY <1>3, <3>1, <3>2, <3>3 DEF AskStep
  <2> QED BY <2>1, <2>2 DEF HistoryInvariant
<1> QED BY <1>1, <1>2, <1>3 DEF Next, vars

\* Once every exchange is stored with two times and a prompt takes an even number
\* of messages (20 in the code), the history given to the model is whole exchanges,
\* whatever other questions are stored meanwhile.
THEOREM HistoryIsWhole ==
  ASSUME OldExchanges = {}, HistoryLimit % 2 = 0
  PROVE  Spec => []HistoryInWholeExchanges
<1>1. Init => HistoryInvariant
  <2> SUFFICES ASSUME Init PROVE HistoryInvariant
    OBVIOUS
  <2>1. messages = {}
    BY DEF Init
  <2>2. ExchangesWhole
    BY <2>1, FS_EmptySet DEF ExchangesWhole
  <2>3. AsksFormed
    BY DEF Init, AsksFormed, NoQuestion
  <2>4. \A c \in Askers : ask[c] = NoQuestion
    BY DEF Init
  <2> QED BY <2>2, <2>3, <2>4, NoHistoryAlternates DEF HistoryInvariant
<1>2. Spec => []LateInvariant
  BY LateInvariantHolds
<1>3. HistoryInvariant /\ LateInvariant' /\ [Next]_vars => HistoryInvariant'
  BY HistoryStep DEF LateInvariant
<1>4. HistoryInvariant => HistoryInWholeExchanges
  BY DEF HistoryInvariant, HistoryInWholeExchanges, Alternates
<1> QED BY <1>1, <1>2, <1>3, <1>4, PTL DEF Spec
=============================================================================
