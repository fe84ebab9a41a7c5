---------------------------- MODULE FormalRebuild ----------------------------
(***************************************************************************)
(* The script that fills an empty formal collection with the chunks of all *)
(* confirmed documents, beside a service that confirms, indexes, withdraws *)
(* and deletes documents and that nothing stops.                           *)
(***************************************************************************)
EXTENDS FiniteSets, Naturals

CONSTANTS
    Archives,       \* archive documents
    FormalCanary,   \* the entry the script writes to try the collection
    MaxFormalRuns   \* bound on the starts of the script

ASSUME FormalAssumption == IsFiniteSet(Archives) /\ FormalCanary \notin Archives /\ MaxFormalRuns \in Nat

VARIABLES
    archives,  \* status of each document; while a confirmed one is being
               \* deleted HIDDEN, then CLEARED of its chunks
    formal,    \* the collection: whether it exists, its entries
    at,        \* the next step of the script, or how it ended
    progress,  \* what it knows
    before,    \* history: entries when the script was started
    alone,     \* history: the service wrote nothing since
    runs       \* starts of the script so far

formalVars == <<archives, formal, at, progress, before, alone, runs>>

NoCollection == [exists |-> FALSE, entries |-> {}]

EmptyCollection == [exists |-> TRUE, entries |-> {}]

\* deleted: the script has removed a collection; todo: confirmed documents it
\* has still to read; chosen: those it is embedding; inserted: its own count.
NoProgress == [deleted |-> FALSE, todo |-> {}, chosen |-> {}, inserted |-> 0]

FormalInit ==
    /\ archives \in [Archives -> {"DRAFT", "CONFIRMED", "HIDDEN", "CLEARED"}]
    /\ \/ formal = NoCollection
       \/ \E entries \in SUBSET Archives : formal = [exists |-> TRUE, entries |-> entries]
    /\ at = "idle" /\ progress = NoProgress
    /\ before = formal.entries /\ alone = TRUE /\ runs = 0

Ended == at \in {"idle", "succeeded", "refused", "restored", "stuck", "died"}

-----------------------------------------------------------------------------
\* The service: confirmation, its index, withdrawal and deletion.  A step on
\* the vectors opens or creates the collection.

ServiceWrites(d, status, collection) ==
    /\ archives' = [archives EXCEPT ![d] = status]
    /\ formal' = collection
    /\ alone' = FALSE
    /\ UNCHANGED <<at, progress, before, runs>>

ConfirmArchive(d) ==
    /\ archives[d] = "DRAFT"
    /\ ServiceWrites(d, "CONFIRMED", formal)

IndexArchive(d) ==
    /\ archives[d] = "CONFIRMED"
    /\ ServiceWrites(d, "CONFIRMED", [exists |-> TRUE, entries |-> formal.entries \union {d}])

CancelArchive(d) ==
    /\ archives[d] = "CONFIRMED"
    /\ ServiceWrites(d, "DRAFT", formal)

DeleteArchiveBegin(d) ==
    /\ archives[d] = "CONFIRMED"
    /\ ServiceWrites(d, "HIDDEN", formal)

Cleared(d) == [exists |-> TRUE, entries |-> formal.entries \ {d}]

CleanArchive(d) ==
    /\ archives[d] = "DRAFT"
    /\ ServiceWrites(d, "DRAFT", Cleared(d))

DeleteArchiveVectors(d) ==
    /\ archives[d] = "HIDDEN"
    /\ ServiceWrites(d, "CLEARED", Cleared(d))

DeleteArchiveRows(d) ==
    /\ archives[d] = "CLEARED"
    /\ ServiceWrites(d, "GONE", formal)

-----------------------------------------------------------------------------
\* prepare_empty_formal_collection

Script(next, changes, collection) ==
    /\ at' = next /\ progress' = changes
    /\ formal' = collection
    /\ UNCHANGED <<archives, before, alone, runs>>

Step(step, next, collection) ==
    at = step /\ Script(next, progress, collection)

StartRebuild ==
    /\ Ended /\ runs < MaxFormalRuns /\ runs' = runs + 1
    /\ at' = "check" /\ progress' = NoProgress
    /\ before' = formal.entries /\ alone' = TRUE
    /\ UNCHANGED <<archives, formal>>

\* Faulty variant: a collection with entries is replaced as well.
FaultyCheckEmpty ==
    Step("check", IF formal.exists THEN "delete" ELSE "create", formal)

\* A collection that is not empty is refused.
CheckEmpty ==
    \/ /\ formal.entries = {}
       /\ Step("check", IF formal.exists THEN "delete" ELSE "create", formal)
    \/ Step("check", "refused", formal)

\* While the old collection is there a failure ends the script.
DeleteOld ==
    \/ /\ at = "delete"
       /\ Script("create", [progress EXCEPT !.deleted = TRUE], NoCollection)
    \/ \E collection \in {formal, NoCollection} : Step("delete", "stuck", collection)

OpenedFormal == [formal EXCEPT !.exists = TRUE]

CreateNew ==
    \/ Step("create", "canary", OpenedFormal)
    \/ \E collection \in {formal, OpenedFormal} :
           Step("create", IF progress.deleted THEN "restoreDelete" ELSE "stuck", collection)

-----------------------------------------------------------------------------
\* run_progress.  From here on every failure restores the empty collection; a
\* call that failed may have taken effect.

Attempt(step, next, collection) ==
    \/ Step(step, next, collection)
    \/ \E reached \in {formal, collection} : Step(step, "restoreDelete", reached)

With(entry) == [formal EXCEPT !.entries = @ \union {entry}]

Without(entry) == [formal EXCEPT !.entries = @ \ {entry}]

\* _verify_canary_dimension: write, find, delete, find no more.
WriteFormalCanary == Attempt("canary", "removeCanary", With(FormalCanary))

RemoveFormalCanary == Attempt("removeCanary", "list", Without(FormalCanary))

InDeletion == {"HIDDEN", "CLEARED"}

\* rebuild_confirmed_documents lists once, the documents in deletion included.
ListConfirmed ==
    \/ /\ at = "list"
       /\ LET confirmed == {d \in Archives : archives[d] \in {"CONFIRMED"} \union InDeletion}
          IN Script("insert", [progress EXCEPT !.todo = confirmed], formal)
    \/ Step("list", "restoreDelete", formal)

\* Faulty variant: the documents in deletion are indexed too.
FaultyBlocked(d) == FALSE

Blocked(d) == archives[d] \in InDeletion

\* A hidden document is passed over and a deleted one fails the rebuild; one
\* withdrawn since the listing is indexed, as the session still holds its row.
ChooseNext ==
    /\ at = "insert" /\ progress.chosen = {}
    /\ \E d \in progress.todo :
           /\ archives[d] # "GONE"
           /\ Script("insert", [progress EXCEPT !.todo = @ \ {d},
                                               !.chosen = IF Blocked(d) THEN {} ELSE {d}], formal)

InsertChosen ==
    /\ at = "insert"
    /\ \E d \in progress.chosen :
           Script("insert", [progress EXCEPT !.chosen = {}, !.inserted = @ + 1], With(d))

RebuildFails ==
    \/ Step("insert", "restoreDelete", formal)
    \/ \E d \in progress.chosen : Step("insert", "restoreDelete", With(d))

\* No canary, and as many entries as were inserted.
VerifyEntries ==
    /\ progress.todo = {} /\ progress.chosen = {}
    /\ FormalCanary \notin formal.entries
    /\ Cardinality(formal.entries) = progress.inserted
    /\ Step("insert", "succeeded", formal)

-----------------------------------------------------------------------------
\* _restore_empty_formal_collection

\* Only a missing collection is tolerated.
RestoreEmpty ==
    \/ Step("restoreDelete", "restoreCreate", NoCollection)
    \/ \E collection \in {formal, NoCollection} : Step("restoreDelete", "stuck", collection)

CheckRestored ==
    \/ formal.entries = {} /\ Step("restoreCreate", "restored", OpenedFormal)
    \/ \E collection \in {formal, OpenedFormal} : Step("restoreCreate", "stuck", collection)

RebuildDies == ~Ended /\ Script("died", progress, formal)

FormalScript ==
    \/ StartRebuild \/ CheckEmpty \/ DeleteOld \/ CreateNew \/ WriteFormalCanary
    \/ RemoveFormalCanary \/ ListConfirmed \/ ChooseNext \/ InsertChosen \/ RebuildFails
    \/ VerifyEntries \/ RestoreEmpty \/ CheckRestored \/ RebuildDies

FormalService ==
    \E d \in Archives :
        \/ ConfirmArchive(d) \/ IndexArchive(d) \/ CancelArchive(d)
        \/ CleanArchive(d) \/ DeleteArchiveBegin(d)
        \/ DeleteArchiveVectors(d) \/ DeleteArchiveRows(d)

FormalNext == FormalScript \/ FormalService

FormalSpec == FormalInit /\ [][FormalNext]_formalVars

-----------------------------------------------------------------------------

\* Unless the service wrote meanwhile, a rebuild that reports success has left
\* the chunks of exactly the confirmed documents outside deletion, and one that
\* failed and recovered has left the collection empty and ready for the next
\* (run_rebuild).
RebuildLeavesWholeSet ==
    alone =>
        /\ at = "succeeded" =>
               formal.entries = {d \in Archives : archives[d] = "CONFIRMED"}
        /\ at = "restored" => formal = EmptyCollection

\* Unless the service wrote meanwhile, no chunk that was there when the script
\* started is lost, however it fails or ends (prepare_empty_formal_collection).
RebuildKeepsEntries == alone => before \subseteq formal.entries
=============================================================================
