----------------------- MODULE ProjectCapacity_proofs -----------------------
(***************************************************************************)
(* The invariants of ProjectCapacity for any number of requests and of     *)
(* documents.  The inductive invariant says who holds the row lock while a *)
(* file is saved, and which deletion removes which document.               *)
(***************************************************************************)
EXTENDS ProjectCapacity, FiniteSetTheorems, TLAPS

\* An empty project satisfies the invariant.
LEMMA InvariantInit == Init => InductiveInvariant
<1> SUFFICES ASSUME Init PROVE InductiveInvariant
  OBVIOUS
<1>1. IsFiniteSet({}) /\ Cardinality({}) = 0
  BY FS_EmptySet
<1>2. NoUpload \in Upload /\ NoWork \in Work
  BY DEF NoUpload, NoWork, Upload, Work
<1>3. 0 \in 0 .. Capacity /\ 1 \in Nat
  BY CapacityAssumption
<1>4. project \in [exists : BOOLEAN, count : 0 .. Capacity, version : Nat]
  BY <1>3 DEF Init
<1>5. TypeOK
  BY <1>2, <1>4 DEF Init, TypeOK
<1> QED
  BY <1>1, <1>3, <1>5
  DEF Init, InductiveInvariant, AcceptedStillFits, CountExactUnlessStale,
      NoDocumentWithoutProject, NoDuplicateItem, NoUpload, NoWork, InDeletion

\* A step that moves one upload and perhaps the lock: it saves a file only with
\* the lock and the checks, and takes the lock from no upload that saves one.
LEMMA UploadMoves ==
  ASSUME InductiveInvariant, NEW u \in Uploads, NEW work \in Upload,
         upload' = [upload EXCEPT ![u] = work],
         work.at # "idle" => work.content \in Contents,
         work.at = "save" => /\ projectLock' = u
                             /\ MayStore(work.content) /\ work.seen = project.count,
         \A v \in Uploads \ {u} : upload[v].at = "save" => projectLock' = v,
         projectLock' \in Uploads \union {Nobody}, loop' \in Uploads \union {Nobody},
         UNCHANGED <<project, documents, thread, staleCount, creations>>
  PROVE  InductiveInvariant'
<1>1. TypeOK'
  BY DEF InductiveInvariant, TypeOK
<1>2. \A v \in Uploads : upload'[v] = IF v = u THEN work ELSE upload[v]
  BY DEF InductiveInvariant, TypeOK
<1>3. AcceptedStillFits'
  BY <1>2 DEF InductiveInvariant, AcceptedStillFits, MayStore
<1>4. CountExactUnlessStale' /\ NoDocumentWithoutProject'
  BY <1>2 DEF InductiveInvariant, CountExactUnlessStale, NoDocumentWithoutProject, MayStore
<1>5. \A v \in Uploads : /\ upload'[v].at # "idle" => upload'[v].content \in Contents
                         /\ upload'[v].at = "save" => projectLock' = v
  BY <1>2 DEF InductiveInvariant
<1> QED
  BY <1>1, <1>3, <1>4, <1>5 DEF InductiveInvariant, InDeletion, NoDuplicateItem

\* A step that moves one thread, and nothing the other requests look at; the
\* thread keeps the document it deletes, or has none.
LEMMA ThreadMoves ==
  ASSUME InductiveInvariant, NEW t \in Threads, NEW work \in Work,
         thread' = [thread EXCEPT ![t] = work],
         work.seen \in 0 .. Capacity \/ work.at \in VersionWork,
         work.at \notin {"deleteStores", "deleteRows"} => work.document = Nobody,
         work.at \in {"deleteStores", "deleteRows"} =>
           /\ work.document \in documents
           /\ \A s \in Threads \ {t} : thread[s].document # work.document,
         UNCHANGED <<project, documents, projectLock, loop, upload, staleCount, creations>>
  PROVE  InductiveInvariant'
<1>1. TypeOK'
  BY DEF InductiveInvariant, TypeOK
<1>2. \A s \in Threads : thread'[s] = IF s = t THEN work ELSE thread[s]
  BY DEF InductiveInvariant, TypeOK
<1>3. AcceptedStillFits' /\ CountExactUnlessStale' /\ NoDocumentWithoutProject'
  BY DEF InductiveInvariant, AcceptedStillFits, MayStore, CountExactUnlessStale,
         NoDocumentWithoutProject
<1>4. \A s \in Threads : thread'[s].seen \in 0 .. Capacity \/ thread'[s].at \in VersionWork
  BY <1>2 DEF InductiveInvariant
<1>5. \A s \in Threads : IF InDeletion(s)' THEN thread'[s].document \in documents'
                                           ELSE thread'[s].document = Nobody
  BY <1>2 DEF InductiveInvariant, InDeletion
<1>6. \A s, w \in Threads :
        InDeletion(s)' /\ thread'[s].document = thread'[w].document => s = w
  <2> SUFFICES ASSUME NEW s \in Threads, NEW w \in Threads, InDeletion(s)',
                      thread'[s].document = thread'[w].document, s # w
               PROVE  FALSE
    OBVIOUS
  <2>1. CASE s = t
    BY <1>2, <2>1 DEF InDeletion
  <2>2. CASE w = t
    <3>1. thread[s].document = work.document /\ InDeletion(s)
      BY <1>2, <2>2 DEF InDeletion
    <3>2. work.document \in documents
      BY <3>1 DEF InductiveInvariant
    <3>3. work.document # Nobody
      BY <3>2, CapacityAssumption DEF InductiveInvariant, TypeOK
    <3> QED BY <2>2, <3>1, <3>3
  <2>3. CASE s # t /\ w # t
    BY <1>2, <2>3 DEF InDeletion, InductiveInvariant
  <2> QED BY <2>1, <2>2, <2>3
<1> QED
  BY <1>1, <1>3, <1>4, <1>5, <1>6 DEF InductiveInvariant, NoDuplicateItem

\* Nobody holds the row lock, so no upload is saving a file.
LEMMA UnlockedMeansNoSave ==
  ASSUME InductiveInvariant, ProjectUnlocked
  PROVE  \A u \in Uploads : upload[u].at # "save"
  BY CapacityAssumption DEF InductiveInvariant, ProjectUnlocked

-----------------------------------------------------------------------------

\* What an upload does before it commits, and how it ends without committing.
LEMMA UploadStepsKeep ==
  ASSUME InductiveInvariant, NEW u \in Uploads,
         \/ \E c \in Contents : UploadCall(u, c)
         \/ UploadAsksLock(u) \/ UploadLocks(u) \/ UploadRefused(u)
         \/ UploadFails(u) \/ UploadUnwinds(u)
  PROVE  InductiveInvariant'
<1> DEFINE At(step) == [upload[u] EXCEPT !.at = step]
<1>0. /\ upload[u] \in Upload /\ project.count \in Nat /\ NoUpload \in Upload
      /\ loop \in Uploads \union {Nobody} /\ projectLock \in Uploads \union {Nobody}
      /\ \A v \in Uploads : upload[v].at = "save" => projectLock = v
      /\ upload[u].at # "idle" => upload[u].content \in Contents
  BY CapacityAssumption DEF InductiveInvariant, TypeOK, NoUpload, Upload
<1>1. CASE \E c \in Contents : UploadCall(u, c)
  <2>1. PICK c \in Contents : UploadCall(u, c)
    BY <1>1
  <2> DEFINE work == [NoUpload EXCEPT !.at = "hash", !.content = c]
  <2>2. work \in Upload /\ work.at = "hash" /\ work.content = c
    BY DEF NoUpload, Upload
  <2> QED BY <1>0, <2>1, <2>2, UploadMoves DEF UploadCall
<1>2. CASE UploadAsksLock(u)
  <2>1. upload' = [upload EXCEPT ![u] = At("lock")]
    BY <1>2 DEF UploadAsksLock
  <2>2. At("lock") \in Upload /\ At("lock").at = "lock" /\ At("lock").content = upload[u].content
    BY <1>0 DEF Upload
  <2> HIDE DEF At
  <2> QED BY <1>0, <1>2, <2>1, <2>2, UploadMoves DEF UploadAsksLock
<1>3. CASE UploadLocks(u)
  <2> DEFINE work == [upload[u] EXCEPT !.at = "save", !.seen = project.count]
  <2>1. upload' = [upload EXCEPT ![u] = work]
    BY <1>3 DEF UploadLocks
  <2>2. /\ work \in Upload /\ work.at = "save" /\ work.content = upload[u].content
        /\ work.seen = project.count
    BY <1>0 DEF Upload
  <2>3. \A v \in Uploads : upload[v].at # "save"
    BY <1>3, UnlockedMeansNoSave DEF UploadLocks
  <2> HIDE DEF work
  <2> QED BY <1>0, <1>3, <2>1, <2>2, <2>3, UploadMoves DEF UploadLocks
<1>4. CASE UploadRefused(u)
  <2>1. upload' = [upload EXCEPT ![u] = At("unwind")]
    BY <1>4 DEF UploadRefused
  <2>2. /\ At("unwind") \in Upload /\ At("unwind").at = "unwind"
        /\ At("unwind").content = upload[u].content
    BY <1>0 DEF Upload
  <2>3. \A v \in Uploads : upload[v].at # "save"
    BY <1>4, UnlockedMeansNoSave DEF UploadRefused
  <2> HIDE DEF At
  <2> QED BY <1>0, <1>4, <2>1, <2>2, <2>3, UploadMoves DEF UploadRefused
<1>5. CASE UploadFails(u)
  <2>1. upload' = [upload EXCEPT ![u] = At("unwind")]
    BY <1>5 DEF UploadFails
  <2>2. /\ At("unwind") \in Upload /\ At("unwind").at = "unwind"
        /\ At("unwind").content = upload[u].content
    BY <1>0 DEF Upload
  <2> HIDE DEF At
  <2> QED BY <1>0, <1>5, <2>1, <2>2, UploadMoves DEF UploadFails
<1>6. CASE UploadUnwinds(u)
  <2>1. NoUpload.at = "idle"
    BY DEF NoUpload
  <2>2. \A v \in Uploads \ {u} : upload[v].at = "save" => projectLock' = v
    BY <1>0, <1>6 DEF UploadUnwinds
  <2> QED BY <1>0, <1>6, <2>1, <2>2, CapacityAssumption, UploadMoves DEF UploadUnwinds
<1> QED BY <1>1, <1>2, <1>3, <1>4, <1>5, <1>6

\* The row locked since the checks is the row the commit writes.
LEMMA UploadCommitKeeps ==
  ASSUME InductiveInvariant, NEW u \in Uploads, UploadCommit(u)
  PROVE  InductiveInvariant'
<1> DEFINE c == upload[u].content
<1>0. /\ c \in Contents /\ c \notin documents /\ project.exists
      /\ project.count \in 0 .. Capacity /\ project.count < Capacity
      /\ upload[u].seen = project.count /\ projectLock = u
      /\ IsFiniteSet(documents) /\ Capacity \in Nat
  BY CapacityAssumption
  DEF UploadCommit, InductiveInvariant, TypeOK, AcceptedStillFits, MayStore
<1>1. /\ IsFiniteSet(documents')
      /\ Cardinality(documents') = Cardinality(documents) + 1
  BY <1>0, FS_AddElement DEF UploadCommit
<1>2. project' = [project EXCEPT !.count = project.count + 1]
  BY <1>0 DEF UploadCommit
<1>3. project.count + 1 \in 0 .. Capacity
  BY <1>0
<1>4. TypeOK'
  <2>1. project' \in [exists : BOOLEAN, count : 0 .. Capacity, version : Nat]
    BY <1>2, <1>3 DEF InductiveInvariant, TypeOK
  <2>2. NoUpload \in Upload
    BY DEF NoUpload, Upload
  <2> QED BY <1>0, <2>1, <2>2 DEF UploadCommit, InductiveInvariant, TypeOK
<1>5. \A v \in Uploads : upload'[v] = IF v = u THEN NoUpload ELSE upload[v]
  BY DEF UploadCommit, InductiveInvariant, TypeOK
<1>6. \A v \in Uploads : upload'[v].at # "save"
  BY <1>0, <1>5 DEF NoUpload, InductiveInvariant
<1>7. \A v \in Uploads : upload'[v].at # "idle" => upload'[v].content \in Contents
  BY <1>5 DEF NoUpload, InductiveInvariant
<1>8. CountExactUnlessStale'
  BY <1>1, <1>2 DEF UploadCommit, InductiveInvariant, TypeOK, CountExactUnlessStale
<1>9. AcceptedStillFits' /\ NoDocumentWithoutProject'
  BY <1>0, <1>2, <1>6
  DEF AcceptedStillFits, NoDocumentWithoutProject, InductiveInvariant, TypeOK
<1> QED
  BY <1>0, <1>1, <1>4, <1>6, <1>7, <1>8, <1>9, <1>2
  DEF UploadCommit, InductiveInvariant, InDeletion, NoDuplicateItem, TypeOK

-----------------------------------------------------------------------------

\* What a thread does before its last transaction, and how it ends without one.
LEMMA ThreadStepsKeep ==
  ASSUME InductiveInvariant, NEW t \in Threads,
         \/ \E d \in documents : DeleteStart(t, d)
         \/ DeleteReadCount(t) \/ DeleteFails(t)
         \/ UpdateStart(t) \/ CreateItemPage(t) \/ CreateItemRefused(t)
         \/ ProjectDeleteStart(t) \/ ProjectWriteFails(t)
  PROVE  InductiveInvariant'
<1>0. /\ thread[t] \in Work /\ project.version \in Nat
      /\ project.count \in 0 .. Capacity /\ project.count \in Nat
      /\ 0 \in 0 .. Capacity /\ NoWork \in Work
  BY CapacityAssumption DEF InductiveInvariant, TypeOK, NoWork, Work
<1>1. CASE DeleteFails(t) \/ ProjectWriteFails(t) \/ CreateItemRefused(t)
  <2>1. NoWork.at = "idle" /\ NoWork.document = Nobody /\ NoWork.seen = 0
    BY DEF NoWork
  <2> QED BY <1>0, <1>1, <2>1, ThreadMoves
    DEF DeleteFails, ProjectWriteFails, CreateItemRefused, MoveThread
<1>2. CASE \E d \in documents : DeleteStart(t, d)
  <2>1. PICK d \in documents : DeleteStart(t, d)
    BY <1>2
  <2> DEFINE work == [at |-> "deleteStores", document |-> d, seen |-> 0]
  <2>2. work \in Work
    BY DEF Work, InductiveInvariant, TypeOK
  <2> QED BY <1>0, <2>1, <2>2, ThreadMoves DEF DeleteStart, MoveThread
<1>3. CASE DeleteReadCount(t)
  <2> DEFINE work == [thread[t] EXCEPT !.at = "deleteRows", !.seen = project.count]
  <2>1. /\ work \in Work /\ work.at = "deleteRows" /\ work.seen = project.count
        /\ work.document = thread[t].document
    BY <1>0 DEF Work
  <2>2. /\ InDeletion(t) /\ thread[t].document \in documents
        /\ \A s \in Threads \ {t} : thread[s].document # thread[t].document
    BY <1>3 DEF DeleteReadCount, InDeletion, InductiveInvariant
  <2>3. thread' = [thread EXCEPT ![t] = work]
    BY <1>3 DEF DeleteReadCount, MoveThread
  <2> HIDE DEF work
  <2> QED BY <1>0, <1>3, <2>1, <2>2, <2>3, ThreadMoves DEF DeleteReadCount
<1>4. CASE UpdateStart(t)
  <2> DEFINE work == [NoWork EXCEPT !.at = "updateProject", !.seen = project.version]
  <2>1. work \in Work /\ work.at = "updateProject" /\ work.document = Nobody
    BY <1>0 DEF NoWork, Work, VersionWork
  <2>2. thread' = [thread EXCEPT ![t] = work]
    BY <1>4 DEF UpdateStart, MoveThread
  <2> HIDE DEF work
  <2> QED BY <1>4, <2>1, <2>2, ThreadMoves DEF UpdateStart, VersionWork
<1>5. CASE ProjectDeleteStart(t)
  <2> DEFINE work == [NoWork EXCEPT !.at = "deleteProject"]
  <2>1. /\ work \in Work /\ work.at = "deleteProject" /\ work.document = Nobody
        /\ work.seen = 0
    BY <1>0 DEF NoWork, Work
  <2>2. thread' = [thread EXCEPT ![t] = work]
    BY <1>5 DEF ProjectDeleteStart, MoveThread
  <2> HIDE DEF work
  <2> QED BY <1>0, <1>5, <2>1, <2>2, ThreadMoves DEF ProjectDeleteStart
<1>6. CASE CreateItemPage(t)
  <2> DEFINE work == [NoWork EXCEPT !.at = "createItem", !.seen = project.version]
  <2>1. work \in Work /\ work.at = "createItem" /\ work.document = Nobody
    BY <1>0 DEF NoWork, Work, VersionWork
  <2>2. thread' = [thread EXCEPT ![t] = work]
    BY <1>6 DEF CreateItemPage, MoveThread
  <2> HIDE DEF work
  <2> QED BY <1>6, <2>1, <2>2, ThreadMoves DEF CreateItemPage, VersionWork
<1> QED BY <1>1, <1>2, <1>3, <1>4, <1>5, <1>6

\* The last transaction of a thread: it leaves the thread without a document
\* and the deletions of the others with theirs.
LEMMA ThreadEnds ==
  ASSUME InductiveInvariant, NEW t \in Threads, MoveThread(t, NoWork),
         \A s \in Threads \ {t} : InDeletion(s) => thread[s].document \in documents'
  PROVE  /\ thread' \in [Threads -> Work]
         /\ \A s \in Threads :
              /\ thread'[s].seen \in 0 .. Capacity \/ thread'[s].at \in VersionWork
              /\ IF InDeletion(s)' THEN thread'[s].document \in documents'
                                   ELSE thread'[s].document = Nobody
         /\ \A s, w \in Threads :
              InDeletion(s)' /\ thread'[s].document = thread'[w].document => s = w
<1>1. NoWork \in Work /\ NoWork.at = "idle" /\ NoWork.document = Nobody /\ NoWork.seen = 0
  BY DEF NoWork, Work
<1>2. thread' \in [Threads -> Work]
  BY <1>1 DEF MoveThread, InductiveInvariant, TypeOK
<1>3. \A s \in Threads : thread'[s] = IF s = t THEN NoWork ELSE thread[s]
  BY DEF MoveThread, InductiveInvariant, TypeOK
<1>4. \A s \in Threads :
        /\ thread'[s].seen \in 0 .. Capacity \/ thread'[s].at \in VersionWork
        /\ IF InDeletion(s)' THEN thread'[s].document \in documents'
                             ELSE thread'[s].document = Nobody
  BY <1>1, <1>3, CapacityAssumption DEF InductiveInvariant, InDeletion
<1>5. ASSUME NEW s \in Threads, NEW w \in Threads, InDeletion(s)',
             thread'[s].document = thread'[w].document
      PROVE  s = w
  <2>1. s # t /\ InDeletion(s) /\ thread[s].document \in documents
    BY <1>1, <1>3, <1>5 DEF InDeletion, InductiveInvariant
  <2>2. thread[s].document # Nobody
    BY <2>1, CapacityAssumption DEF InductiveInvariant, TypeOK
  <2> QED BY <1>1, <1>3, <1>5, <2>1, <2>2 DEF InductiveInvariant
<1> QED BY <1>2, <1>4, <1>5

\* A deletion that read an exact count writes an exact count.
LEMMA DeleteCommitKeeps ==
  ASSUME InductiveInvariant, NEW t \in Threads, DeleteCommit(t)
  PROVE  InductiveInvariant'
<1> DEFINE d == thread[t].document
           seen == thread[t].seen
<1>0. /\ InDeletion(t) /\ d \in documents /\ IsFiniteSet(documents)
      /\ seen \in 0 .. Capacity /\ project.count \in 0 .. Capacity
      /\ \A u \in Uploads : upload[u].at # "save"
      /\ Capacity \in Nat
  BY UnlockedMeansNoSave, CapacityAssumption
  DEF DeleteCommit, InDeletion, VersionWork, InductiveInvariant, TypeOK
<1>1. /\ IsFiniteSet(documents') /\ Cardinality(documents) \in Nat
      /\ Cardinality(documents') = Cardinality(documents) - 1
  BY <1>0, FS_RemoveElement, FS_CardinalityType DEF DeleteCommit
<1>2. CountAfterDelete(seen) \in 0 .. Capacity
  BY <1>0 DEF CountAfterDelete
<1>3. project' = [project EXCEPT !.count = CountAfterDelete(seen)]
  BY DEF DeleteCommit
<1>4. \A s \in Threads \ {t} : InDeletion(s) => thread[s].document \in documents'
  BY <1>0 DEF DeleteCommit, InductiveInvariant
<1>5. TypeOK'
  <2>1. project' \in [exists : BOOLEAN, count : 0 .. Capacity, version : Nat]
    BY <1>2, <1>3 DEF InductiveInvariant, TypeOK
  <2>2. staleCount' \in BOOLEAN
    BY DEF DeleteCommit
  <2> QED BY <1>4, <2>1, <2>2, ThreadEnds DEF DeleteCommit, InductiveInvariant, TypeOK
<1>6. CountExactUnlessStale'
  <2> SUFFICES ASSUME ~staleCount' PROVE project'.count = Cardinality(documents')
    BY DEF CountExactUnlessStale
  <2>1. ~staleCount /\ seen = project.count
    BY DEF DeleteCommit, InductiveInvariant, TypeOK
  <2>2. seen = Cardinality(documents) /\ documents # {}
    BY <1>0, <2>1 DEF InductiveInvariant, CountExactUnlessStale
  <2>3. seen # 0
    BY <1>0, <2>2, FS_EmptySet
  <2>4. project'.count = seen - 1
    BY <1>3, <2>3 DEF CountAfterDelete, InductiveInvariant, TypeOK
  <2> QED BY <1>1, <2>2, <2>4
<1>7. AcceptedStillFits' /\ NoDocumentWithoutProject'
  BY <1>0, <1>3
  DEF DeleteCommit, AcceptedStillFits, NoDocumentWithoutProject, InductiveInvariant, TypeOK
<1> QED
  BY <1>0, <1>1, <1>3, <1>4, <1>5, <1>6, <1>7, ThreadEnds
  DEF DeleteCommit, InductiveInvariant, NoDuplicateItem, TypeOK

\* The row lock keeps a project with an upload from being deleted, the foreign
\* key one with documents, and an item admitted by a version moves the project
\* past that version.
LEMMA ProjectCommitsKeep ==
  ASSUME InductiveInvariant, NEW t \in Threads,
         UpdateCommit(t) \/ CreateItemCommit(t) \/ ProjectDeleteCommit(t)
  PROVE  InductiveInvariant'
<1>0. /\ documents' = documents /\ MoveThread(t, NoWork)
      /\ UNCHANGED <<projectLock, loop, upload, staleCount>>
      /\ \A u \in Uploads : upload[u].at # "save"
      /\ thread[t].seen \in Nat /\ project.version \in Nat
      /\ creations \in [versions : SUBSET Nat, twice : BOOLEAN, stale : BOOLEAN]
      /\ project \in [exists : BOOLEAN, count : 0 .. Capacity, version : Nat]
  BY UnlockedMeansNoSave
  DEF UpdateCommit, CreateItemCommit, ProjectDeleteCommit, InductiveInvariant, TypeOK, Work
<1>1. /\ project' \in [exists : BOOLEAN, count : 0 .. Capacity, version : Nat]
      /\ project'.count = project.count
      /\ ~project'.exists => documents = {}
  <2>1. \A n \in Nat :
          /\ [project EXCEPT !.version = n + 1] \in
               [exists : BOOLEAN, count : 0 .. Capacity, version : Nat]
          /\ [project EXCEPT !.version = n + 1].count = project.count
          /\ [project EXCEPT !.version = n + 1].exists = project.exists
    BY <1>0
  <2>2. CASE UpdateCommit(t)
    BY <1>0, <2>1, <2>2 DEF UpdateCommit
  <2>3. CASE CreateItemCommit(t)
    BY <1>0, <2>1, <2>3 DEF CreateItemCommit, ProjectAsExpected
  <2>4. CASE ProjectDeleteCommit(t)
    BY <1>0, <2>4 DEF ProjectDeleteCommit
  <2> QED BY <2>2, <2>3, <2>4
<1>2. /\ creations' \in [versions : SUBSET Nat, twice : BOOLEAN, stale : BOOLEAN]
      /\ ~creations'.stale =>
           ~creations'.twice /\ \A v \in creations'.versions : v < project'.version
  <2>0. ~creations.stale =>
          ~creations.twice /\ \A v \in creations.versions : v < project.version
    BY DEF InductiveInvariant, NoDuplicateItem
  <2>1. CASE UpdateCommit(t)
    <3>1. /\ creations'.stale = (creations.stale \/ thread[t].seen # project.version)
          /\ creations'.twice = creations.twice /\ creations'.versions = creations.versions
          /\ creations' \in [versions : SUBSET Nat, twice : BOOLEAN, stale : BOOLEAN]
      BY <1>0, <2>1 DEF UpdateCommit
    <3>2. project'.version = thread[t].seen + 1
      BY <1>0, <2>1 DEF UpdateCommit
    <3> QED BY <1>0, <2>0, <3>1, <3>2
  <2>2. CASE CreateItemCommit(t)
    <3> DEFINE seen == thread[t].seen
    <3>1. /\ creations'.stale = creations.stale
          /\ creations'.twice = (creations.twice \/ seen \in creations.versions)
          /\ creations'.versions = creations.versions \union {seen}
          /\ creations' \in [versions : SUBSET Nat, twice : BOOLEAN, stale : BOOLEAN]
      BY <1>0, <2>2 DEF CreateItemCommit
    <3>2. project.version = seen /\ project'.version = seen + 1
      BY <1>0, <2>2 DEF CreateItemCommit, ProjectAsExpected
    <3>3. \A v \in creations.versions : v \in Nat
      BY <1>0
    <3> QED BY <1>0, <2>0, <3>1, <3>2, <3>3
  <2>3. CASE ProjectDeleteCommit(t)
    BY <1>0, <2>0, <2>3 DEF ProjectDeleteCommit
  <2> QED BY <2>1, <2>2, <2>3
<1>3. TypeOK'
  BY <1>0, <1>1, <1>2, ThreadEnds DEF InductiveInvariant, TypeOK
<1>4. AcceptedStillFits' /\ NoDocumentWithoutProject' /\ CountExactUnlessStale'
  BY <1>0, <1>1
  DEF AcceptedStillFits, NoDocumentWithoutProject, CountExactUnlessStale, InductiveInvariant
<1> QED
  BY <1>0, <1>2, <1>3, <1>4, ThreadEnds DEF InductiveInvariant, NoDuplicateItem

\* Every step keeps the invariant.
LEMMA StepKeepsInvariant == InductiveInvariant /\ [Next]_vars => InductiveInvariant'
<1> SUFFICES ASSUME InductiveInvariant, [Next]_vars PROVE InductiveInvariant'
  OBVIOUS
<1>1. CASE UNCHANGED vars
  BY <1>1
  DEF vars, InductiveInvariant, TypeOK, AcceptedStillFits, MayStore, CountExactUnlessStale,
      NoDocumentWithoutProject, InDeletion, NoDuplicateItem
<1>2. CASE \E u \in Uploads, c \in Contents : UploadCall(u, c)
  BY <1>2, UploadStepsKeep
<1>3. CASE \E u \in Uploads : UploadStep(u)
  BY <1>3, UploadStepsKeep, UploadCommitKeeps DEF UploadStep
<1>4. CASE \E t \in Threads : ThreadStart(t) \/ ThreadStep(t)
  BY <1>4, ThreadStepsKeep, DeleteCommitKeeps, ProjectCommitsKeep DEF ThreadStart, ThreadStep
<1> QED BY <1>1, <1>2, <1>3, <1>4 DEF Next, Rest

-----------------------------------------------------------------------------

\* The inductive invariant holds in every reachable state.
THEOREM CapacityInvariantHolds == Spec => []InductiveInvariant
  BY InvariantInit, StepKeepsInvariant, PTL DEF Spec

\* The row and the requests are well typed: no commit breaks the CHECK
\* constraint on active_document_count (models/project.py).
THEOREM CapacityTypeCorrect == Spec => []TypeOK
<1>1. InductiveInvariant => TypeOK
  BY DEF InductiveInvariant
<1> QED BY <1>1, CapacityInvariantHolds, PTL

\* Whatever an upload found under the row lock is still so when it commits
\* (create_project_uploaded_document).
THEOREM ChecksHoldUntilCommit == Spec => []AcceptedStillFits
<1>1. InductiveInvariant => AcceptedStillFits
  BY DEF InductiveInvariant
<1> QED BY <1>1, CapacityInvariantHolds, PTL

\* The count of a project can only be wrong after a deletion that wrote a
\* count it had read before another commit (delete_archive_document).
THEOREM CountWrongOnlyWhenStale == Spec => []CountExactUnlessStale
<1>1. InductiveInvariant => CountExactUnlessStale
  BY DEF InductiveInvariant
<1> QED BY <1>1, CapacityInvariantHolds, PTL

\* The capacity is only exceeded after such a deletion.
THEOREM CapacityUnlessStale == Spec => [](~staleCount => CapacityRespected)
<1>1. InductiveInvariant => (~staleCount => CapacityRespected)
  <2> SUFFICES ASSUME InductiveInvariant, ~staleCount PROVE CapacityRespected
    OBVIOUS
  <2>1. project.count = Cardinality(documents) /\ project.count \in 0 .. Capacity
    BY DEF InductiveInvariant, TypeOK, CountExactUnlessStale
  <2>2. project.count <= Capacity
    BY <2>1, CapacityAssumption
  <2> QED BY <2>1, <2>2 DEF CapacityRespected
<1> QED BY <1>1, CapacityInvariantHolds, PTL

\* Deleting an empty project never strands an upload to it (delete_empty_project).
THEOREM UploadsKeepTheirProject == Spec => []NoDocumentWithoutProject
<1>1. InductiveInvariant => NoDocumentWithoutProject
  BY DEF InductiveInvariant
<1> QED BY <1>1, CapacityInvariantHolds, PTL

\* One page of the project yields at most one new checklist item, as long as no
\* project update wrote an old version back (create_checklist_item).
THEOREM ItemsNotDuplicated == Spec => []NoDuplicateItem
<1>1. InductiveInvariant => NoDuplicateItem
  BY DEF InductiveInvariant
<1> QED BY <1>1, CapacityInvariantHolds, PTL
=============================================================================
