---------------------------- MODULE PolicyRebuild ----------------------------
(***************************************************************************)
(* The script that replaces the empty collection of 512 dimensions by one  *)
(* of 768 under the same name, beside the service that stores documents in *)
(* it.  The service is stopped while the script applies (--apply demands   *)
(* it of the operator).                                                    *)
(***************************************************************************)
EXTENDS Naturals

CONSTANTS
    Documents,      \* documents of the knowledge bases outside the archive
    Canary,         \* the entry the script writes to try a collection
    MaxPolicyRuns   \* bound on the starts of the script

ASSUME PolicyAssumption == Canary \notin Documents /\ MaxPolicyRuns \in Nat

VARIABLES
    collection,  \* the collection in Chroma
    ready,       \* documents with status READY
    service,     \* up or down
    script,      \* the next step of the script, or how it ended
    starts       \* starts of the script so far

policyVars == <<collection, ready, service, script, starts>>

\* Chroma fixes the dimension at the first upsert: a collection is "open" until
\* then.  "none": there is no collection.
Dimensions == {"none", "open", "512", "768"}

Absent == [dimension |-> "none", entries |-> {}]

Empty512 == [dimension |-> "512", entries |-> {}]

Accepts(dimension) == collection.dimension \in {"open", dimension}

\* get_or_create_collection
Opened == [collection EXCEPT !.dimension = IF @ = "none" THEN "open" ELSE @]

\* A collection of 512 dimensions from before the change of model.
PolicyInit ==
    /\ ready \in SUBSET Documents
    /\ collection = [dimension |-> "512", entries |-> ready]
    /\ service = "up" /\ script = "idle" /\ starts = 0

-----------------------------------------------------------------------------
\* The service, with the model of 768 dimensions.

Stopped == script \in {"idle", "succeeded", "restored", "stuck", "died"}

StartOrStop ==
    /\ Stopped
    /\ service' = IF service = "up" THEN "down" ELSE "up"
    /\ UNCHANGED <<collection, ready, script, starts>>

\* The collection is opened or created; one of 512 dimensions refuses.
Stored(d) ==
    /\ collection.dimension # "512"
    /\ collection' = [dimension |-> "768", entries |-> collection.entries \union {d}]

Removed(d) == collection' = [Opened EXCEPT !.entries = @ \ {d}]

Process(d) ==
    /\ service = "up" /\ d \notin ready
    /\ Stored(d)
    /\ ready' = ready \union {d}
    /\ UNCHANGED <<service, script, starts>>

\* A processing or deletion that fails, or dies, anywhere between its first commit
\* and its last.
ProcessBreaks(d) ==
    /\ service = "up"
    /\ Stored(d) \/ Removed(d) \/ UNCHANGED collection
    /\ ready' = ready \ {d}
    /\ UNCHANGED <<service, script, starts>>

Delete(d) ==
    /\ service = "up" /\ d \in ready
    /\ Removed(d)
    /\ ready' = ready \ {d}
    /\ UNCHANGED <<service, script, starts>>

-----------------------------------------------------------------------------
\* Faulty variant: neither entries nor documents stop the rebuild.
FaultyRebuildRequired == Accepts("512") /\ ~Accepts("768")

\* run_preflight returns rebuild_required; in every other case the script ends
\* and nothing is changed.
RebuildRequired ==
    /\ collection.entries = {} /\ ready = {}
    /\ Accepts("512") /\ ~Accepts("768")

Apply ==
    /\ Stopped /\ service = "down" /\ starts < MaxPolicyRuns
    /\ RebuildRequired
    /\ script' = "delete" /\ starts' = starts + 1
    /\ UNCHANGED <<collection, ready, service>>

\* A call to Chroma takes effect and the script goes on; or it fails, with or
\* without effect, and the script restores.
Call(step, next, after) ==
    /\ script = step
    /\ \/ collection' = after /\ script' = next
       \/ collection' \in {collection, after} /\ script' = "restoreDelete"
    /\ UNCHANGED <<ready, service, starts>>

DeleteCollection == Call("delete", "create", Absent)

CreateCollection == Call("create", "write", Opened)

WriteCanary == Call("write", "verify", [dimension |-> "768", entries |-> collection.entries \union {Canary}])

\* _verify_canary only reads.
VerifyCanary == Call("verify", "deleteCanary", collection)

WithoutCanary == [collection EXCEPT !.entries = @ \ {Canary}]

\* A filter that matches nothing deletes nothing.
DeleteCanary ==
    \/ Call("deleteCanary", "count", WithoutCanary)
    \/ Call("deleteCanary", "count", collection)

\* Faulty variant: the entries are not counted at the end.
FaultyCountEntries ==
    /\ script = "count"
    /\ script' = "succeeded"
    /\ UNCHANGED <<collection, ready, service, starts>>

\* The count may fail as well.
CountEntries ==
    /\ script = "count"
    /\ \/ collection.entries = {} /\ script' = "succeeded"
       \/ script' = "restoreDelete"
    /\ UNCHANGED <<collection, ready, service, starts>>

-----------------------------------------------------------------------------
\* _restore_512_empty_collection

\* Any failure to delete is swallowed.
RestoreDelete ==
    /\ script = "restoreDelete"
    /\ collection' \in {collection, Absent}
    /\ script' = "restoreCreate"
    /\ UNCHANGED <<ready, service, starts>>

\* A later call that fails is not tried again: RESTORE_FAILED.
RestoreCall(step, next, after) ==
    /\ script = step
    /\ \/ collection' = after /\ script' = next
       \/ collection' \in {collection, after} /\ script' = "stuck"
    /\ UNCHANGED <<ready, service, starts>>

RestoreCreate ==
    RestoreCall("restoreCreate", "restoreWrite", Opened)

\* A collection that was not deleted may refuse the vector.
RestoreWrite ==
    /\ Accepts("512")
    /\ RestoreCall("restoreWrite", "restoreClean",
                   [dimension |-> "512", entries |-> collection.entries \union {Canary}])

RestoreRefused ==
    /\ script = "restoreWrite" /\ ~Accepts("512")
    /\ script' = "stuck"
    /\ UNCHANGED <<collection, ready, service, starts>>

RestoreClean == RestoreCall("restoreClean", "restoreCheck", WithoutCanary)

RestoreCheck ==
    /\ script = "restoreCheck"
    /\ \/ collection = Empty512 /\ script' = "restored"
       \/ script' = "stuck"
    /\ UNCHANGED <<collection, ready, service, starts>>

\* The script is killed.
ScriptDies ==
    /\ ~Stopped
    /\ script' = "died"
    /\ UNCHANGED <<collection, ready, service, starts>>

PolicyScript ==
    \/ Apply \/ DeleteCollection \/ CreateCollection \/ WriteCanary \/ VerifyCanary
    \/ DeleteCanary \/ CountEntries \/ RestoreDelete \/ RestoreCreate \/ RestoreWrite
    \/ RestoreRefused \/ RestoreClean \/ RestoreCheck \/ ScriptDies

PolicyNext == PolicyScript \/ StartOrStop \/ \E d \in Documents : Process(d) \/ ProcessBreaks(d) \/ Delete(d)

PolicySpec == PolicyInit /\ [][PolicyNext]_policyVars

-----------------------------------------------------------------------------

PolicyTypeOK ==
    /\ collection \in [dimension : Dimensions, entries : SUBSET (Documents \union {Canary})]
    /\ ready \subseteq Documents
    /\ service \in {"up", "down"}
    /\ script \in {"idle", "delete", "create", "write", "verify", "deleteCanary", "count",
                   "restoreDelete", "restoreCreate", "restoreWrite", "restoreClean",
                   "restoreCheck", "succeeded", "restored", "stuck", "died"}
    /\ starts \in 0 .. MaxPolicyRuns

\* A document the service calls READY can be searched, through rebuilds, failed
\* rebuilds, deaths of the script and restarts of the service (run_preflight
\* refuses to rebuild over entries or READY documents).
ReadyKeepsVectors == ready \subseteq collection.entries

\* What the service finds after a success is a collection of 768 dimensions
\* without the canary, and after a failure the script recovered from the empty
\* one of 512 again (run_apply, _restore_512_empty_collection).
EndsAsPromised ==
    /\ script = "succeeded" => collection.dimension = "768" /\ Canary \notin collection.entries
    /\ script = "restored" => collection = Empty512
=============================================================================
