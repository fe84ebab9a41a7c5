------------------------------ MODULE Checklists ------------------------------
(***************************************************************************)
(* The checklist of one project: its items, the archive documents and the  *)
(* links a person confirms between them.  A handler is one transaction of  *)
(* several statements; each statement takes the row locks it needs, and a  *)
(* transaction keeps its locks until it commits or fails.  Writes become   *)
(* visible, and are made here, at the commit.                              *)
(***************************************************************************)
EXTENDS Integers, FiniteSets, Functions

CONSTANTS
    Requests,    \* concurrent requests, one database session each
    Items,       \* checklist items; an id is never used twice
    Documents,   \* archive documents of the project
    Criteria,    \* values of the matching fields (name, type, stage)
    MaxVersion,  \* bound: no row is changed from this version on
    Nobody

ASSUME ChecklistAssumption ==
    /\ MaxVersion \in Nat
    /\ IsFiniteSet(Requests)
    /\ Items \intersect Documents = {}
    /\ Nobody \notin Items \union Documents \union Criteria
    /\ (Documents \X Items) \intersect (Items \union Documents) = {}

VARIABLES
    items,      \* the checklist_items rows; "unborn" before, "gone" after their life
    documents,  \* status and version of the archive_documents rows
    links,      \* the checklist_links row of a document and an item
    held,       \* the rows a request's transaction has locked
    req,        \* what each request does, and what it read or its client saw
    reused      \* history: an update wrote an item version a second time

vars == <<items, documents, links, held, req, reused>>

Pairs == Documents \X Items
Rows  == Documents \union Items \union Pairs

NoLink    == [status |-> "NONE", on |-> Nobody, seen |-> TRUE]
NoRequest == [at |-> "idle", document |-> Nobody, item |-> Nobody,
              documentVersion |-> 0, itemVersion |-> 0, criteria |-> Nobody,
              new |-> Nobody]

Init ==
    /\ items = [i \in Items |-> [state |-> "unborn", version |-> 1, criteria |-> Nobody]]
    /\ documents = [d \in Documents |-> [status |-> "PENDING", version |-> 1]]
    /\ links = [p \in Pairs |-> NoLink]
    /\ held = [r \in Requests |-> {}]
    /\ req = [r \in Requests |-> NoRequest]
    /\ reused = FALSE

ItemDeletion     == {"dropItemLinks", "dropItem", "cascadeItem"}
DocumentDeletion == {"dropDocumentLinks", "dropDocument", "cascadeDocument"}

Present(i) == items[i].state = "present"

LinksOf(rows) == {p \in rows : links[p].status # "NONE"}
ConfirmedLinksOf(i) == {p \in Documents \X {i} : links[p].status = "CONFIRMED"}

\* The rows the next statement of a request has to lock.
Wanted(r) ==
    LET at == req[r].at  d == req[r].document  i == req[r].item IN
    CASE at = "lockDocument"      -> {d}
      [] at = "lockItem"          -> {i}
      [] at = "lockLink"          -> LinksOf({<<d, i>>})
      [] at = "dropLink"          -> LinksOf({<<d, i>>})
      [] at = "flushItem"         -> {i}
      [] at = "invalidate"        -> ConfirmedLinksOf(i)
      [] at = "dropItemLinks"     -> LinksOf(Documents \X {i})
      [] at = "dropItem"          -> {i}
      [] at = "cascadeItem"       -> LinksOf(Documents \X {i})
      [] at = "dropDocumentLinks" -> LinksOf({d} \X Items)
      [] at = "dropDocument"      -> {d}
      [] at = "cascadeDocument"   -> LinksOf({d} \X Items)
      [] OTHER                    -> {}

LockedBy(s, rows) == held[s] \intersect rows # {}

\* The statement does not have to wait.
Granted(r) == \A s \in Requests \ {r} : ~LockedBy(s, Wanted(r))

\* The transaction goes on with more rows locked, or ends and frees them.
Continue(r, at) ==
    /\ req' = [req EXCEPT ![r].at = at]
    /\ held' = [held EXCEPT ![r] = @ \union Wanted(r)]

End(r) ==
    /\ req' = [req EXCEPT ![r] = NoRequest]
    /\ held' = [held EXCEPT ![r] = {}]

\* No transaction has locked the row.
RowFree(row) == \A s \in Requests : row \notin held[s]

Call(r, request) ==
    /\ req[r].at = "idle"
    /\ req' = [req EXCEPT ![r] = request]
    /\ UNCHANGED <<items, documents, links, held, reused>>

-----------------------------------------------------------------------------
\* Items.

CreateItem(i, c) ==
    /\ items[i].state = "unborn"
    /\ items' = [items EXCEPT ![i] = [state |-> "present", version |-> 1, criteria |-> c]]
    /\ UNCHANGED <<documents, links, held, req, reused>>

\* The item is read, and its version compared, without a lock; new is the
\* value the client sent for the matching fields.
UpdateItemRead(r, i, new) ==
    /\ Present(i) /\ items[i].version < MaxVersion
    /\ Call(r, [NoRequest EXCEPT !.at = "flushItem", !.item = i, !.new = new,
                    !.itemVersion = items[i].version, !.criteria = items[i].criteria])

\* Whether the update writes matching fields, judged by what was read.
MatchingFieldsChanged(r) == req[r].new # req[r].criteria

\* The row as the update leaves it: the version after the one that was read, and
\* of the fields only those that differ from what was read.
UpdatedItem(r) ==
    [items[req[r].item] EXCEPT
        !.version = req[r].itemVersion + 1,
        !.criteria = IF MatchingFieldsChanged(r) THEN req[r].new ELSE @]

NoteReuse(r) == reused' = (reused \/ items[req[r].item].version # req[r].itemVersion)

\* UPDATE checklist_links flushes the pending UPDATE of the item first.
FlushItem(r) ==
    /\ req[r].at = "flushItem" /\ MatchingFieldsChanged(r)
    /\ Granted(r)
    /\ Present(req[r].item)
    /\ Continue(r, "invalidate")
    /\ UNCHANGED <<items, documents, links, reused>>

\* Faulty variant: the update forgets the links of the item.
FaultyInvalidate(r) ==
    /\ req[r].at = "invalidate"
    /\ req' = [req EXCEPT ![r].at = "commitItem"]
    /\ UNCHANGED <<items, documents, links, held, reused>>

\* UPDATE checklist_links locks the confirmed links it finds.
Invalidate(r) ==
    /\ req[r].at = "invalidate"
    /\ Granted(r)
    /\ Continue(r, "commitItem")
    /\ UNCHANGED <<items, documents, links, reused>>

CommitItem(r) ==
    /\ req[r].at = "commitItem"
    /\ links' = [p \in Pairs |-> IF p \in held[r]
                                 THEN [links[p] EXCEPT !.status = "INVALIDATED"]
                                 ELSE links[p]]
    /\ items' = [items EXCEPT ![req[r].item] = UpdatedItem(r)]
    /\ NoteReuse(r)
    /\ End(r)
    /\ UNCHANGED documents

\* Only the description, or nothing that matches, changed: one UPDATE.
UpdateItemOnly(r) ==
    /\ req[r].at = "flushItem" /\ ~MatchingFieldsChanged(r)
    /\ Granted(r)
    /\ Present(req[r].item)
    /\ items' = [items EXCEPT ![req[r].item] = UpdatedItem(r)]
    /\ NoteReuse(r)
    /\ End(r)
    /\ UNCHANGED <<documents, links>>

\* The item was deleted after it was read: the UPDATE matches no row (500).
UpdateItemFails(r) ==
    /\ req[r].at = "flushItem"
    /\ Granted(r)
    /\ ~Present(req[r].item)
    /\ End(r)
    /\ UNCHANGED <<items, documents, links, reused>>

DeleteItemRead(r, i) ==
    /\ Present(i)
    /\ Call(r, [NoRequest EXCEPT !.at = "dropItemLinks", !.item = i])

\* DELETE FROM checklist_links comes first and locks the links.
DropItemLinks(r) ==
    /\ req[r].at = "dropItemLinks"
    /\ Granted(r)
    /\ Continue(r, "dropItem")
    /\ UNCHANGED <<items, documents, links, reused>>

\* DELETE of the item locks its row ...
DropItem(r) ==
    /\ req[r].at = "dropItem"
    /\ Granted(r)
    /\ Continue(r, "cascadeItem")
    /\ UNCHANGED <<items, documents, links, reused>>

\* Faulty variant: only the links the first statement saw are deleted, and no
\* foreign key removes the others.
FaultyCascadeItem(r) ==
    /\ req[r].at = "cascadeItem"
    /\ Granted(r)
    /\ items' = [items EXCEPT ![req[r].item].state = "gone"]
    /\ links' = [p \in Pairs |-> IF p \in held[r] THEN NoLink ELSE links[p]]
    /\ End(r)
    /\ UNCHANGED <<documents, reused>>

\* ... and the foreign key removes the links made since; commit.
CascadeItem(r) ==
    /\ req[r].at = "cascadeItem"
    /\ Granted(r)
    /\ items' = [items EXCEPT ![req[r].item].state = "gone"]
    /\ links' = [p \in Pairs |-> IF p[2] = req[r].item THEN NoLink ELSE links[p]]
    /\ End(r)
    /\ UNCHANGED <<documents, reused>>

-----------------------------------------------------------------------------
\* Links.

\* The client decides on a page that shows the document and the item.
CreateLinkPage(r, d, i) ==
    /\ documents[d].status = "CONFIRMED" /\ Present(i)
    /\ Call(r, [NoRequest EXCEPT !.at = "lockDocument", !.document = d, !.item = i,
                    !.documentVersion = documents[d].version,
                    !.itemVersion = items[i].version, !.criteria = items[i].criteria])

DocumentAsExpected(r) ==
    /\ documents[req[r].document].status = "CONFIRMED"
    /\ documents[req[r].document].version = req[r].documentVersion

\* Faulty variant: the link is locked together with the document, before the item.
FaultyLinkLocksDocument(r) ==
    LET link == LinksOf({<<req[r].document, req[r].item>>}) IN
    /\ req[r].at = "lockDocument"
    /\ Granted(r) /\ \A s \in Requests \ {r} : ~LockedBy(s, link)
    /\ DocumentAsExpected(r)
    /\ req' = [req EXCEPT ![r].at = "lockItem"]
    /\ held' = [held EXCEPT ![r] = link \union Wanted(r)]
    /\ UNCHANGED <<items, documents, links, reused>>

LinkLocksDocument(r) ==
    /\ req[r].at = "lockDocument"
    /\ Granted(r)
    /\ DocumentAsExpected(r)
    /\ Continue(r, "lockItem")
    /\ UNCHANGED <<items, documents, links, reused>>

\* Faulty variant: the version of the item is not compared.
FaultyItemAsExpected(r) == Present(req[r].item)

ItemAsExpected(r) ==
    /\ Present(req[r].item)
    /\ items[req[r].item].version = req[r].itemVersion

LinkLocksItem(r) ==
    /\ req[r].at = "lockItem"
    /\ Granted(r)
    /\ ItemAsExpected(r)
    /\ Continue(r, "lockLink")
    /\ UNCHANGED <<items, documents, links, reused>>

\* Faulty variant: the answer 409 or 404 leaves the transaction open.
FaultyLinkRefused(r) ==
    /\ \/ req[r].at = "lockDocument" /\ ~DocumentAsExpected(r)
       \/ req[r].at = "lockItem" /\ ~ItemAsExpected(r)
       \/ req[r].at = "lockLink" /\ links[<<req[r].document, req[r].item>>].status = "CONFIRMED"
    /\ Granted(r)
    /\ req' = [req EXCEPT ![r] = NoRequest]
    /\ UNCHANGED <<items, documents, links, held, reused>>

\* A check under its lock fails: the session is closed and the locks are freed.
LinkRefused(r) ==
    /\ \/ req[r].at = "lockDocument" /\ ~DocumentAsExpected(r)
       \/ req[r].at = "lockItem" /\ ~ItemAsExpected(r)
       \/ req[r].at = "lockLink" /\ links[<<req[r].document, req[r].item>>].status = "CONFIRMED"
    /\ Granted(r)
    /\ End(r)
    /\ UNCHANGED <<items, documents, links, reused>>

\* The person saw the document and the item as they are.
AsSeen(r) == DocumentAsExpected(r) /\ items[req[r].item].criteria = req[r].criteria

\* A new link, or an invalidated one confirmed again.
LinkCommit(r) ==
    LET p == <<req[r].document, req[r].item>> IN
    /\ req[r].at = "lockLink"
    /\ Granted(r)
    /\ links[p].status # "CONFIRMED"
    /\ links' = [links EXCEPT ![p] = [status |-> "CONFIRMED", seen |-> AsSeen(r),
                                      on |-> items[req[r].item].criteria]]
    /\ End(r)
    /\ UNCHANGED <<items, documents, reused>>

DeleteLinkRead(r, d, i) ==
    /\ links[<<d, i>>].status # "NONE"
    /\ Call(r, [NoRequest EXCEPT !.at = "dropLink", !.document = d, !.item = i])

\* A link that is gone by now is not missed.
DropLink(r) ==
    /\ req[r].at = "dropLink"
    /\ Granted(r)
    /\ links' = [links EXCEPT ![<<req[r].document, req[r].item>>] = NoLink]
    /\ End(r)
    /\ UNCHANGED <<items, documents, reused>>

-----------------------------------------------------------------------------
\* Documents, as far as links depend on them.

\* Confirmation, edit and cancellation: one conditional UPDATE of the row.
MoveDocument(d) ==
    /\ documents[d].status # "GONE" /\ documents[d].version < MaxVersion
    /\ RowFree(d)
    /\ documents' = [documents EXCEPT
           ![d] = [status |-> IF @.status = "PENDING" THEN "CONFIRMED" ELSE "PENDING",
                   version |-> @.version + 1]]
    /\ UNCHANGED <<items, links, held, req, reused>>

\* The last transaction of a deletion; the exclusion of two deletions of a
\* document by their operation is modelled in ArchiveDeletion.
DeleteDocumentStart(r, d) ==
    /\ documents[d].status # "GONE"
    /\ \A s \in Requests : req[s].at \notin DocumentDeletion \/ req[s].document # d
    /\ Call(r, [NoRequest EXCEPT !.at = "dropDocumentLinks", !.document = d])

DropDocumentLinks(r) ==
    /\ req[r].at = "dropDocumentLinks"
    /\ Granted(r)
    /\ Continue(r, "dropDocument")
    /\ UNCHANGED <<items, documents, links, reused>>

DropDocument(r) ==
    /\ req[r].at = "dropDocument"
    /\ Granted(r)
    /\ Continue(r, "cascadeDocument")
    /\ UNCHANGED <<items, documents, links, reused>>

CascadeDocument(r) ==
    /\ req[r].at = "cascadeDocument"
    /\ Granted(r)
    /\ documents' = [documents EXCEPT ![req[r].document].status = "GONE"]
    /\ links' = [p \in Pairs |-> IF p[1] = req[r].document THEN NoLink ELSE links[p]]
    /\ End(r)
    /\ UNCHANGED <<items, reused>>

-----------------------------------------------------------------------------
\* Deadlocks.

WaitsFor(r, s) == r # s /\ LockedBy(s, Wanted(r))

\* The requests on circles, among the given ones, in which each waits for the next.
InCircle(among) ==
    UNION {circle \in SUBSET among :
             \E next \in Bijection(circle, circle) : \A r \in circle : WaitsFor(r, next[r])}

\* PostgreSQL fails one transaction of the circle; the handler rolls back (500).
DeadlockVictim(r) ==
    /\ ~Granted(r)
    /\ r \in InCircle(Requests)
    /\ End(r)
    /\ UNCHANGED <<items, documents, links, reused>>

-----------------------------------------------------------------------------

Step(r) ==
    \/ FlushItem(r) \/ Invalidate(r) \/ CommitItem(r) \/ UpdateItemOnly(r) \/ UpdateItemFails(r)
    \/ DropItemLinks(r) \/ DropItem(r) \/ CascadeItem(r)
    \/ LinkLocksDocument(r) \/ LinkLocksItem(r) \/ LinkCommit(r) \/ LinkRefused(r)
    \/ DropLink(r)
    \/ DropDocumentLinks(r) \/ DropDocument(r) \/ CascadeDocument(r)
    \/ DeadlockVictim(r)

Start(r) ==
    \/ \E i \in Items, c \in Criteria : UpdateItemRead(r, i, c)
    \/ \E i \in Items : DeleteItemRead(r, i)
    \/ \E d \in Documents, i \in Items : CreateLinkPage(r, d, i) \/ DeleteLinkRead(r, d, i)
    \/ \E d \in Documents : DeleteDocumentStart(r, d)

\* No request runs, and nobody has to call again.
Rest == (\A r \in Requests : req[r].at = "idle") /\ UNCHANGED vars

Next ==
    \/ \E i \in Items, c \in Criteria : CreateItem(i, c)
    \/ \E d \in Documents : MoveDocument(d)
    \/ \E r \in Requests : Start(r) \/ Step(r)
    \/ Rest

Spec == Init /\ [][Next]_vars

\* Threads are scheduled, PostgreSQL grants locks in turn and breaks deadlocks.
FairSpec == Spec /\ \A r \in Requests : SF_vars(Step(r))

-----------------------------------------------------------------------------

Request == [at : {"idle", "flushItem", "invalidate", "commitItem", "lockDocument", "lockItem", "lockLink",
                  "dropLink"} \union ItemDeletion \union DocumentDeletion,
            document : Documents \union {Nobody}, item : Items \union {Nobody},
            documentVersion : Nat, itemVersion : Nat,
            criteria : Criteria \union {Nobody}, new : Criteria \union {Nobody}]

TypeOK ==
    /\ items \in [Items -> [state : {"unborn", "present", "gone"}, version : Nat,
                            criteria : Criteria \union {Nobody}]]
    /\ \A i \in Items : items[i].state # "unborn" => items[i].criteria \in Criteria
    /\ documents \in [Documents -> [status : {"PENDING", "CONFIRMED", "GONE"},
                                    version : Nat]]
    /\ links \in [Pairs -> [status : {"NONE", "CONFIRMED", "INVALIDATED"},
                            on : Criteria \union {Nobody}, seen : BOOLEAN]]
    /\ held \in [Requests -> SUBSET Rows]
    /\ req \in [Requests -> Request]
    /\ reused \in BOOLEAN

\* However updates of the item overlap, a confirmed link was confirmed on the
\* matching fields the item has now: an update that changes them invalidates it
\* (the comment in update_checklist_item).
LinkFitsItem ==
    \A p \in Pairs : links[p].status = "CONFIRMED" => links[p].on = items[p[2]].criteria

\* No link survives its item or its document, even one made while they were
\* being deleted.
NoDanglingLink ==
    \A p \in Pairs : links[p].status # "NONE" =>
        Present(p[2]) /\ documents[p[1]].status # "GONE"

\* A person confirms what the page showed (the versions create_document_link
\* compares), unless overlapping updates gave one version to two contents.
ConfirmedAsSeen ==
    ~reused => \A p \in Pairs : links[p].status = "CONFIRMED" => links[p].seen

\* A row is locked by one transaction at a time.
RowsExclusive == \A r, s \in Requests : r # s => held[r] \intersect held[s] = {}

\* What the locks of a transaction keep true until it ends.
StepHolds(r) ==
    LET at == req[r].at  i == req[r].item  d == req[r].document IN
    /\ at \in {"flushItem", "invalidate", "commitItem", "lockDocument", "lockItem",
              "lockLink"} \union ItemDeletion => i \in Items /\ items[i].state # "unborn"
    /\ at = "dropLink" => i \in Items
    /\ at \in {"lockDocument", "lockItem", "lockLink", "dropLink"} \union DocumentDeletion
         => d \in Documents
    /\ at \in {"flushItem", "invalidate", "commitItem"} => req[r].new \in Criteria
    /\ at \in {"invalidate", "commitItem"} => i \in held[r] /\ Present(i)
                                             /\ MatchingFieldsChanged(r)
    /\ at = "invalidate" => held[r] \intersect Pairs = {}
    /\ at = "commitItem" => held[r] \intersect Pairs = ConfirmedLinksOf(i)
    /\ at \in {"lockItem", "lockLink"} => d \in held[r] /\ DocumentAsExpected(r)
    /\ at = "lockLink" => i \in held[r] /\ ItemAsExpected(r)
    /\ at = "cascadeItem" => i \in held[r]
    /\ at = "cascadeDocument" => d \in held[r]
    /\ at \in {"idle", "flushItem"} => held[r] = {}

\* As long as no version was used twice, a version tells the content.
PagesTrue ==
    ~reused => \A r \in Requests :
        req[r].at \in {"flushItem", "invalidate", "commitItem", "lockDocument", "lockItem",
                      "lockLink"} =>
            /\ items[req[r].item].version >= req[r].itemVersion
            /\ items[req[r].item].version = req[r].itemVersion =>
                 items[req[r].item].criteria = req[r].criteria

InductiveInvariant ==
    /\ TypeOK
    /\ RowsExclusive
    /\ \A r \in Requests : StepHolds(r)
    /\ PagesTrue
    /\ LinkFitsItem
    /\ NoDanglingLink
    /\ ConfirmedAsSeen

\* Item updates, new links and removed links lock in one order: a deadlock
\* takes the deletion of an item or of a document.
DeadlockNeedsDeletion ==
    InCircle({r \in Requests : req[r].at \notin ItemDeletion \union DocumentDeletion}) = {}

\* Every request is answered, by success, refusal or as the victim of a deadlock.
EveryRequestEnds == \A r \in Requests : req[r].at # "idle" ~> req[r].at = "idle"
=============================================================================
