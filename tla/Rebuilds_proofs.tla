---------------------------- MODULE Rebuilds_proofs ----------------------------
(* Proofs about the two rebuild scripts, for any documents and any number of starts. *)
EXTENDS PolicyRebuild, FormalRebuild, TLAPS

\* While the script applies the service is down and there is nothing to lose;
\* what the later steps know of the collection is what the earlier ones did.
PolicyStepFacts ==
    /\ ~Stopped => service = "down" /\ ready = {} /\ collection.entries \subseteq {Canary}
    /\ script \in {"verify", "deleteCanary", "count"} => collection.dimension = "768"

PolicyInvariant == PolicyTypeOK /\ ReadyKeepsVectors /\ EndsAsPromised /\ PolicyStepFacts

\* Deleting entries undoes no outcome.
LEMMA RemovedKeepsOutcome ==
    ASSUME PolicyTypeOK, EndsAsPromised, NEW d, Removed(d), UNCHANGED script
    PROVE  EndsAsPromised'
<1>1. collection'.entries \subseteq collection.entries
  BY DEF Removed, Opened, PolicyTypeOK
<1>2. collection.dimension # "none" => collection'.dimension = collection.dimension
  BY DEF Removed, Opened, PolicyTypeOK
<1>3. collection' = [dimension |-> collection'.dimension, entries |-> collection'.entries]
  BY DEF Removed, Opened, PolicyTypeOK
<1>4. CASE script = "restored"
  <2>1. collection.dimension = "512" /\ collection.entries = {}
    BY <1>4 DEF EndsAsPromised, Empty512
  <2>2. QED
    BY <1>1, <1>2, <1>3, <1>4, <2>1 DEF EndsAsPromised, Empty512
<1>5. CASE script # "restored"
  BY <1>1, <1>2, <1>5 DEF EndsAsPromised
<1>6. QED
  BY <1>4, <1>5

LEMMA PolicyInitially == PolicyInit => PolicyInvariant
  BY PolicyAssumption DEF PolicyInit, PolicyInvariant, PolicyTypeOK, ReadyKeepsVectors, EndsAsPromised,
         PolicyStepFacts, Stopped, Opened, Absent, Empty512, Dimensions

LEMMA PolicyStutters == PolicyInvariant /\ UNCHANGED policyVars => PolicyInvariant'
  BY DEF policyVars, PolicyInvariant, PolicyTypeOK, ReadyKeepsVectors, EndsAsPromised,
         PolicyStepFacts, Stopped, Opened, Absent, Empty512, Dimensions

\* The service moves only while the script does not.
LEMMA PolicyServiceSteps ==
    ASSUME PolicyInvariant,
           StartOrStop \/ \E d \in Documents : Process(d) \/ ProcessBreaks(d) \/ Delete(d)
    PROVE  PolicyInvariant'
<1> USE PolicyAssumption DEF PolicyInvariant, PolicyTypeOK, ReadyKeepsVectors, EndsAsPromised,
            PolicyStepFacts, Stopped, Opened, Absent, Empty512, Dimensions
<1>1. CASE StartOrStop
  BY <1>1 DEF StartOrStop
<1>2. ASSUME NEW d \in Documents, Process(d) PROVE PolicyInvariant'
  <2>1. PolicyTypeOK' /\ ReadyKeepsVectors'
    BY <1>2 DEF Process, Stored
  <2>2. EndsAsPromised'
    BY <1>2 DEF Process, Stored
  <2>3. PolicyStepFacts'
    BY <1>2 DEF Process, Stored
  <2>4. QED
    BY <2>1, <2>2, <2>3
<1>3. ASSUME NEW d \in Documents, ProcessBreaks(d) PROVE PolicyInvariant'
  <2>1. CASE Stored(d)
    <3>1. PolicyTypeOK' /\ ReadyKeepsVectors'
      BY <1>3, <2>1 DEF ProcessBreaks, Stored
    <3>2. EndsAsPromised'
      BY <1>3, <2>1 DEF ProcessBreaks, Stored
    <3>3. PolicyStepFacts'
      BY <1>3, <2>1 DEF ProcessBreaks, Stored
    <3>4. QED
      BY <3>1, <3>2, <3>3
  <2>2. CASE Removed(d)
    <3>1. PolicyTypeOK'
      BY <1>3, <2>2 DEF ProcessBreaks, Removed
    <3>2. ReadyKeepsVectors'
      BY <1>3, <2>2 DEF ProcessBreaks, Removed
    <3>3. EndsAsPromised'
      BY <1>3, <2>2, RemovedKeepsOutcome DEF ProcessBreaks
    <3>4. PolicyStepFacts'
      BY <1>3, <2>2 DEF ProcessBreaks, Removed
    <3>5. QED
      BY <3>1, <3>2, <3>3, <3>4
  <2>3. CASE UNCHANGED collection
    BY <1>3, <2>3 DEF ProcessBreaks
  <2>4. QED
    BY <1>3, <2>1, <2>2, <2>3 DEF ProcessBreaks
<1>4. ASSUME NEW d \in Documents, Delete(d) PROVE PolicyInvariant'
  <2>1. PolicyTypeOK'
    BY <1>4 DEF Delete, Removed
  <2>2. ReadyKeepsVectors'
    BY <1>4 DEF Delete, Removed
  <2>3. EndsAsPromised'
    BY <1>4, RemovedKeepsOutcome DEF Delete
  <2>4. PolicyStepFacts'
    BY <1>4 DEF Delete, Removed
  <2>5. QED
    BY <2>1, <2>2, <2>3, <2>4
<1>5. QED
  BY <1>1, <1>2, <1>3, <1>4

LEMMA PolicyApplySteps ==
    ASSUME PolicyInvariant,
           Apply \/ DeleteCollection \/ CreateCollection \/ WriteCanary \/ VerifyCanary
           \/ DeleteCanary \/ CountEntries \/ ScriptDies
    PROVE  PolicyInvariant'
<1> USE PolicyAssumption DEF PolicyInvariant, PolicyTypeOK, ReadyKeepsVectors, EndsAsPromised,
            PolicyStepFacts, Stopped, Opened, Absent, Empty512, Dimensions
<1>1. CASE Apply
  BY <1>1 DEF Apply, RebuildRequired, Accepts
<1>2. CASE DeleteCollection
  BY <1>2 DEF DeleteCollection, Call
<1>3. CASE CreateCollection
  BY <1>3 DEF CreateCollection, Call
<1>4. CASE WriteCanary
  BY <1>4 DEF WriteCanary, Call
<1>5. CASE VerifyCanary
  BY <1>5 DEF VerifyCanary, Call
<1>6. CASE DeleteCanary
  BY <1>6 DEF DeleteCanary, Call, WithoutCanary
<1>7. CASE CountEntries
  BY <1>7 DEF CountEntries
<1>8. CASE ScriptDies
  BY <1>8 DEF ScriptDies
<1>9. QED
  BY <1>1, <1>2, <1>3, <1>4, <1>5, <1>6, <1>7, <1>8

LEMMA PolicyRestoreSteps ==
    ASSUME PolicyInvariant,
           RestoreDelete \/ RestoreCreate \/ RestoreWrite \/ RestoreRefused
           \/ RestoreClean \/ RestoreCheck
    PROVE  PolicyInvariant'
<1> USE DEF PolicyInvariant, PolicyTypeOK, ReadyKeepsVectors, EndsAsPromised,
            PolicyStepFacts, Stopped, Opened, Absent, Empty512, Dimensions
<1>1. CASE RestoreDelete
  BY <1>1 DEF RestoreDelete
<1>2. CASE RestoreCreate
  BY <1>2 DEF RestoreCreate, RestoreCall
<1>3. CASE RestoreWrite
  BY <1>3 DEF RestoreWrite, RestoreCall
<1>4. CASE RestoreRefused
  BY <1>4 DEF RestoreRefused
<1>5. CASE RestoreClean
  BY <1>5 DEF RestoreClean, RestoreCall, WithoutCanary
<1>6. CASE RestoreCheck
  BY <1>6 DEF RestoreCheck
<1>7. QED
  BY <1>1, <1>2, <1>3, <1>4, <1>5, <1>6

LEMMA PolicyInductive == PolicyInvariant /\ [PolicyNext]_policyVars => PolicyInvariant'
  BY PolicyStutters, PolicyServiceSteps, PolicyApplySteps, PolicyRestoreSteps
     DEF PolicyNext, PolicyScript

LEMMA PolicyInvariantHolds == PolicySpec => []PolicyInvariant
  BY PolicyInitially, PolicyInductive, PTL DEF PolicySpec

\* No rebuild, failed rebuild or death of the script costs a READY document its
\* vectors (run_preflight, run_apply).
THEOREM ReadyVectorsSurvive == PolicySpec => []ReadyKeepsVectors
  BY PolicyInvariantHolds, PTL DEF PolicyInvariant

\* A reported success or recovery is what the service finds (run_apply and
\* _restore_512_empty_collection).
THEOREM PolicyOutcomeIsTrue == PolicySpec => []EndsAsPromised
  BY PolicyInvariantHolds, PTL DEF PolicyInvariant

-----------------------------------------------------------------------------
\* The formal collection: past the check the script works on what was empty.

NothingToLose == alone /\ ~Ended /\ at # "check" => before = {}

EntriesInvariant == RebuildKeepsEntries /\ NothingToLose

\* The steps of the script that follow the check.
LaterScript ==
    \/ DeleteOld \/ CreateNew \/ WriteFormalCanary \/ RemoveFormalCanary \/ ListConfirmed
    \/ ChooseNext \/ InsertChosen \/ RebuildFails \/ VerifyEntries \/ RestoreEmpty
    \/ CheckRestored

LEMMA EntriesInitially == FormalInit => EntriesInvariant
  BY DEF FormalInit, EntriesInvariant, RebuildKeepsEntries, NothingToLose, Ended,
         NoCollection

LEMMA ServiceLeavesScript == FormalService => UNCHANGED at /\ alone' = FALSE
  BY DEF FormalService, ConfirmArchive, IndexArchive, CancelArchive, CleanArchive,
         DeleteArchiveBegin, DeleteArchiveVectors, DeleteArchiveRows, ServiceWrites

\* A new start knows the entries as they are.
LEMMA StartBeginsHistory == StartRebuild => EntriesInvariant'
  BY DEF StartRebuild, EntriesInvariant, RebuildKeepsEntries, NothingToLose

\* An empty collection passes the check; any other ends the script.
LEMMA CheckLosesNothing ==
    ASSUME EntriesInvariant, CheckEmpty
    PROVE  EntriesInvariant'
<1>1. UNCHANGED <<formal, before, alone>>
  BY DEF CheckEmpty, Step, Script
<1>2. CASE formal.entries = {}
  BY <1>1, <1>2 DEF EntriesInvariant, RebuildKeepsEntries, NothingToLose
<1>3. CASE formal.entries # {}
  <2>1. at' = "refused"
    BY <1>3 DEF CheckEmpty, Step, Script
  <2>2. QED
    BY <1>1, <2>1 DEF EntriesInvariant, RebuildKeepsEntries, NothingToLose, Ended
<1>4. QED
  BY <1>2, <1>3

LEMMA DeathLosesNothing ==
    ASSUME EntriesInvariant, RebuildDies
    PROVE  EntriesInvariant'
<1>1. at' = "died" /\ UNCHANGED <<formal, before, alone>>
  BY DEF RebuildDies, Script
<1>2. QED
  BY <1>1 DEF EntriesInvariant, RebuildKeepsEntries, NothingToLose, Ended

\* Past the check there is nothing to lose.
LEMMA AfterCheck == LaterScript => ~Ended /\ at # "check" /\ UNCHANGED <<before, alone>>
<1> USE DEF Ended, Step, Script
<1>1. CASE DeleteOld \/ CreateNew
  BY <1>1 DEF DeleteOld, CreateNew
<1>2. CASE WriteFormalCanary \/ RemoveFormalCanary \/ ListConfirmed
  BY <1>2 DEF WriteFormalCanary, RemoveFormalCanary, ListConfirmed, Attempt
<1>3. CASE ChooseNext \/ InsertChosen \/ RebuildFails \/ VerifyEntries
  BY <1>3 DEF ChooseNext, InsertChosen, RebuildFails, VerifyEntries
<1>4. CASE RestoreEmpty \/ CheckRestored
  BY <1>4 DEF RestoreEmpty, CheckRestored
<1>5. QED
  BY <1>1, <1>2, <1>3, <1>4 DEF LaterScript

LEMMA LaterLosesNothing == EntriesInvariant /\ LaterScript => EntriesInvariant'
  BY AfterCheck DEF EntriesInvariant, RebuildKeepsEntries, NothingToLose

LEMMA EntriesInductive ==
    EntriesInvariant /\ [FormalNext]_formalVars => EntriesInvariant'
<1> SUFFICES ASSUME EntriesInvariant, [FormalNext]_formalVars
             PROVE  EntriesInvariant'
  OBVIOUS
<1>1. CASE FormalService
  BY <1>1, ServiceLeavesScript DEF EntriesInvariant, RebuildKeepsEntries, NothingToLose
<1>2. CASE FormalScript
  BY <1>2, StartBeginsHistory, CheckLosesNothing, DeathLosesNothing, LaterLosesNothing
     DEF FormalScript, LaterScript
<1>3. CASE UNCHANGED formalVars
  BY <1>3 DEF formalVars, EntriesInvariant, RebuildKeepsEntries, NothingToLose, Ended
<1>4. QED
  BY <1>1, <1>2, <1>3 DEF FormalNext

\* No rebuild loses a chunk that was there when it was started, if the service
\* did not write meanwhile (prepare_empty_formal_collection).
THEOREM StartedEntriesSurvive == FormalSpec => []RebuildKeepsEntries
<1>1. EntriesInvariant => RebuildKeepsEntries
  BY DEF EntriesInvariant
<1>2. QED
  BY <1>1, EntriesInitially, EntriesInductive, PTL DEF FormalSpec

-----------------------------------------------------------------------------
\* The formal collection again: what a rebuild that nothing disturbs puts there.

Collections == [exists : BOOLEAN, entries : SUBSET (Archives \union {FormalCanary})]

FormalTyped ==
    /\ formal \in Collections
    /\ progress \in [deleted : BOOLEAN, todo : SUBSET Archives, chosen : SUBSET Archives,
                     inserted : Nat]

Confirmed == {d \in Archives : archives[d] = "CONFIRMED"}

\* Every confirmed document is indexed, being embedded, or still to be read,
\* and no other is indexed.
CopiesConfirmed ==
    /\ formal.entries \subseteq Confirmed /\ progress.chosen \subseteq Confirmed
    /\ Confirmed \subseteq formal.entries \union progress.chosen \union progress.todo
    /\ \A d \in progress.todo : d \in Confirmed \/ Blocked(d)
    /\ \A c, d \in progress.chosen : c = d

Preparing == {"check", "delete", "create", "canary", "removeCanary", "list"}

\* What the steps before left for the next one, undisturbed.
Undisturbed ==
    /\ at \in Preparing \ {"check", "removeCanary"} => formal.entries = {}
    /\ at = "removeCanary" => formal.entries \subseteq {FormalCanary}
    /\ at = "insert" => CopiesConfirmed

CopyInvariant ==
    /\ FormalTyped
    /\ at \in Preparing => progress.todo = {} /\ progress.chosen = {}
    /\ alone => Undisturbed
    /\ RebuildLeavesWholeSet

\* The collections that one call may leave behind.
LEMMA CollectionsTyped ==
    ASSUME FormalTyped
    PROVE  /\ NoCollection \in Collections /\ NoCollection.entries = {}
           /\ OpenedFormal \in Collections /\ OpenedFormal.entries = formal.entries
           /\ OpenedFormal.exists = TRUE
           /\ \A d \in Archives \union {FormalCanary} :
                /\ With(d) \in Collections /\ With(d).entries = formal.entries \union {d}
                /\ Without(d) \in Collections /\ Without(d).entries = formal.entries \ {d}
                /\ Cleared(d) \in Collections
                /\ [exists |-> TRUE, entries |-> formal.entries \union {d}] \in Collections
  BY DEF FormalTyped, Collections, NoCollection, OpenedFormal, With, Without, Cleared

LEMMA CopyInitially ==
    ASSUME FormalInit
    PROVE  CopyInvariant
<1>1. formal \in Collections
  <2>1. CASE formal = NoCollection
    BY <2>1 DEF NoCollection, Collections
  <2>2. CASE \E entries \in SUBSET Archives : formal = [exists |-> TRUE, entries |-> entries]
    BY <2>2 DEF Collections
  <2> QED BY <2>1, <2>2 DEF FormalInit
<1>2. progress \in [deleted : BOOLEAN, todo : SUBSET Archives, chosen : SUBSET Archives,
                    inserted : Nat]
  BY DEF FormalInit, NoProgress
<1> QED BY <1>1, <1>2 DEF FormalInit, CopyInvariant, FormalTyped, Undisturbed, Preparing,
                          RebuildLeavesWholeSet

\* The service ends what is said of a rebuild that it leaves alone.
LEMMA CopyServiceSteps ==
    ASSUME CopyInvariant, FormalService
    PROVE  CopyInvariant'
<1>1. PICK d \in Archives :
        \/ ConfirmArchive(d) \/ IndexArchive(d) \/ CancelArchive(d)
        \/ CleanArchive(d) \/ DeleteArchiveBegin(d)
        \/ DeleteArchiveVectors(d) \/ DeleteArchiveRows(d)
  BY DEF FormalService
<1>2. /\ UNCHANGED <<at, progress>> /\ alone' = FALSE
      /\ formal' \in {formal, Cleared(d), [exists |-> TRUE, entries |-> formal.entries \union {d}]}
  BY <1>1 DEF ConfirmArchive, IndexArchive, CancelArchive, CleanArchive,
              DeleteArchiveBegin, DeleteArchiveVectors, DeleteArchiveRows, ServiceWrites
<1>3. /\ formal \in Collections /\ Cleared(d) \in Collections
      /\ [exists |-> TRUE, entries |-> formal.entries \union {d}] \in Collections
  BY CollectionsTyped DEF CopyInvariant, FormalTyped
<1> QED BY <1>2, <1>3 DEF CopyInvariant, FormalTyped, RebuildLeavesWholeSet, Preparing

LEMMA CopyPreparingSteps ==
    ASSUME CopyInvariant,
           StartRebuild \/ CheckEmpty \/ DeleteOld \/ CreateNew \/ WriteFormalCanary
           \/ RemoveFormalCanary
    PROVE  CopyInvariant'
<1>a. /\ NoCollection \in Collections /\ NoCollection.entries = {}
      /\ OpenedFormal \in Collections /\ OpenedFormal.entries = formal.entries
      /\ With(FormalCanary) \in Collections /\ Without(FormalCanary) \in Collections
      /\ With(FormalCanary).entries = formal.entries \union {FormalCanary}
      /\ Without(FormalCanary).entries = formal.entries \ {FormalCanary}
  BY CollectionsTyped DEF CopyInvariant
<1> USE DEF CopyInvariant, FormalTyped, Undisturbed, Preparing, RebuildLeavesWholeSet, Step, Script
<1>1. CASE StartRebuild
  BY <1>1 DEF StartRebuild, NoProgress
<1>2. CASE CheckEmpty
  BY <1>2 DEF CheckEmpty
<1>3. CASE DeleteOld
  BY <1>a, <1>3 DEF DeleteOld
<1>4. CASE CreateNew
  BY <1>a, <1>4 DEF CreateNew
<1>5. CASE WriteFormalCanary
  BY <1>a, <1>5 DEF WriteFormalCanary, Attempt
<1>6. CASE RemoveFormalCanary
  BY <1>a, <1>6 DEF RemoveFormalCanary, Attempt
<1> QED BY <1>1, <1>2, <1>3, <1>4, <1>5, <1>6

LEMMA CopyInsertingSteps ==
    ASSUME CopyInvariant, ListConfirmed \/ ChooseNext \/ InsertChosen \/ RebuildFails \/ VerifyEntries
    PROVE  CopyInvariant'
<1> USE DEF CopyInvariant, FormalTyped, Undisturbed, Preparing, RebuildLeavesWholeSet, Step, Script
<1>1. CASE ListConfirmed
  BY <1>1 DEF ListConfirmed, CopiesConfirmed, Confirmed, Blocked, InDeletion
<1>2. CASE ChooseNext
  <2>1. PICK d \in progress.todo :
          /\ at = "insert" /\ progress.chosen = {} /\ archives[d] # "GONE"
          /\ Script("insert", [progress EXCEPT !.todo = @ \ {d},
                                               !.chosen = IF Blocked(d) THEN {} ELSE {d}], formal)
    BY <1>2 DEF ChooseNext
  <2>2. FormalTyped'
    BY <2>1
  <2>3. d \in Confirmed => ~Blocked(d)
    BY DEF Confirmed, Blocked, InDeletion
  <2>4. /\ Confirmed' = Confirmed /\ formal' = formal
        /\ progress'.todo = progress.todo \ {d}
        /\ progress'.chosen = IF Blocked(d) THEN {} ELSE {d}
    BY <2>1 DEF Confirmed
  <2>5. \A c \in Archives : Blocked(c)' <=> Blocked(c)
    BY <2>1 DEF Blocked
  <2>6. alone => CopiesConfirmed'
    BY <2>1, <2>2, <2>3, <2>4, <2>5 DEF CopiesConfirmed
  <2> QED BY <2>1, <2>2, <2>6
<1>3. CASE InsertChosen
  <2>1. PICK d \in progress.chosen :
          /\ at = "insert"
          /\ Script("insert", [progress EXCEPT !.chosen = {}, !.inserted = @ + 1], With(d))
    BY <1>3 DEF InsertChosen
  <2>2. FormalTyped'
    <3>1. With(d) \in Collections
      BY <2>1, CollectionsTyped
    <3>2. progress.inserted + 1 \in Nat
      OBVIOUS
    <3> QED BY <2>1, <3>1, <3>2
  <2>3. alone => CopiesConfirmed'
    <3>1. With(d).entries = formal.entries \union {d}
      BY <2>1, CollectionsTyped
    <3> QED BY <2>1, <2>2, <3>1 DEF CopiesConfirmed, Confirmed, Blocked
  <2> QED BY <2>1, <2>2, <2>3
<1>4. CASE RebuildFails
  <2>1. \A d \in progress.chosen : With(d) \in Collections
    BY CollectionsTyped
  <2>2. /\ formal' \in Collections /\ at' = "restoreDelete"
        /\ UNCHANGED <<archives, progress, before, alone, runs>>
    BY <1>4, <2>1 DEF RebuildFails
  <2> QED BY <2>2
<1>5. CASE VerifyEntries
  BY <1>5 DEF VerifyEntries, CopiesConfirmed, Confirmed
<1> QED BY <1>1, <1>2, <1>3, <1>4, <1>5

LEMMA CopyRestoringSteps ==
    ASSUME CopyInvariant, RestoreEmpty \/ CheckRestored \/ RebuildDies
    PROVE  CopyInvariant'
<1> USE DEF CopyInvariant, FormalTyped, Undisturbed, Preparing, RebuildLeavesWholeSet, Step, Script
<1>1. CASE RestoreEmpty
  BY <1>1, CollectionsTyped DEF RestoreEmpty
<1>2. CASE CheckRestored
  BY <1>2, CollectionsTyped DEF CheckRestored, EmptyCollection, Collections
<1>3. CASE RebuildDies
  BY <1>3 DEF RebuildDies
<1> QED BY <1>1, <1>2, <1>3

LEMMA CopyInductive == CopyInvariant /\ [FormalNext]_formalVars => CopyInvariant'
<1> SUFFICES ASSUME CopyInvariant, [FormalNext]_formalVars
             PROVE  CopyInvariant'
  OBVIOUS
<1>1. CASE UNCHANGED formalVars
  BY <1>1 DEF formalVars, CopyInvariant, FormalTyped, Undisturbed, CopiesConfirmed, Confirmed,
              Blocked, Preparing, RebuildLeavesWholeSet
<1> QED BY <1>1, CopyServiceSteps, CopyPreparingSteps, CopyInsertingSteps, CopyRestoringSteps
           DEF FormalNext, FormalScript

\* A rebuild the service leaves alone either indexes every confirmed document
\* outside deletion and nothing else, or has left the collection empty for the
\* next one, if it reports so (run_rebuild).
THEOREM RebuildIsComplete == FormalSpec => []RebuildLeavesWholeSet
<1>1. CopyInvariant => RebuildLeavesWholeSet
  BY DEF CopyInvariant
<1> QED BY <1>1, CopyInitially, CopyInductive, PTL DEF FormalSpec
=============================================================================
