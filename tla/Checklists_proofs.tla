--------------------------- MODULE Checklists_proofs ---------------------------
(***************************************************************************)
(* The invariants of Checklists for any number of requests, items and      *)
(* documents.  The inductive invariant says what the row locks of a        *)
(* transaction keep true until it commits, and that a version names one    *)
(* content as long as it was not used twice; a second one, OrderInvariant, *)
(* says in which order the rows are locked.                                *)
(***************************************************************************)
EXTENDS Checklists, TLAPS

\* The empty checklist satisfies the invariant.
LEMMA InvariantInit == Init => InductiveInvariant
<1> SUFFICES ASSUME Init PROVE InductiveInvariant
  OBVIOUS
<1>1. NoRequest \in Request /\ NoLink \in [status : {"NONE", "CONFIRMED", "INVALIDATED"},
          on : Criteria \union {Nobody}, seen : BOOLEAN]
  BY DEF NoRequest, NoLink, Request
<1>2. TypeOK
  BY <1>1 DEF Init, TypeOK
<1>3. RowsExclusive /\ PagesTrue /\ \A r \in Requests : StepHolds(r)
  BY DEF Init, RowsExclusive, PagesTrue, StepHolds, NoRequest, ItemDeletion, DocumentDeletion
<1>4. LinkFitsItem /\ NoDanglingLink /\ ConfirmedAsSeen
  BY DEF Init, LinkFitsItem, NoDanglingLink, ConfirmedAsSeen, NoLink
<1> QED
  BY <1>2, <1>3, <1>4 DEF InductiveInvariant

\* A step that only moves one request and its locks keeps the invariant, if the
\* locks are its own and what the next step relies on holds.
LEMMA RequestMoves ==
  ASSUME InductiveInvariant, NEW r \in Requests, NEW work \in Request,
         NEW rows \in SUBSET Rows,
         req' = [req EXCEPT ![r] = work], held' = [held EXCEPT ![r] = rows],
         UNCHANGED <<items, documents, links, reused>>,
         \A s \in Requests \ {r} : held[s] \intersect rows = {},
         StepHolds(r)',
         ~reused /\ work.at \in {"flushItem", "invalidate", "commitItem", "lockDocument",
                                 "lockItem", "lockLink"} =>
           /\ items[work.item].version >= work.itemVersion
           /\ items[work.item].version = work.itemVersion =>
                items[work.item].criteria = work.criteria
  PROVE  InductiveInvariant'
<1>1. TypeOK'
  BY DEF InductiveInvariant, TypeOK
<1>2. \A s \in Requests : /\ req'[s] = IF s = r THEN work ELSE req[s]
                          /\ held'[s] = IF s = r THEN rows ELSE held[s]
  BY DEF InductiveInvariant, TypeOK
<1>3. RowsExclusive'
  BY <1>2 DEF InductiveInvariant, RowsExclusive
<1>4. ASSUME NEW s \in Requests PROVE StepHolds(s)'
  <2>1. CASE s = r
    BY <2>1
  <2>2. CASE s # r
    <3>1. req'[s] = req[s] /\ held'[s] = held[s] /\ StepHolds(s)
      BY <1>2, <2>2 DEF InductiveInvariant
    <3> QED
      BY <3>1 DEF StepHolds, Present, MatchingFieldsChanged, ConfirmedLinksOf,
                  DocumentAsExpected, ItemAsExpected
  <2> QED
    BY <2>1, <2>2
<1>5. PagesTrue'
  BY <1>2 DEF InductiveInvariant, PagesTrue
<1>6. LinkFitsItem' /\ NoDanglingLink' /\ ConfirmedAsSeen'
  BY DEF InductiveInvariant, LinkFitsItem, NoDanglingLink, ConfirmedAsSeen, Present
<1> QED
  BY <1>1, <1>3, <1>4, <1>5, <1>6 DEF InductiveInvariant

\* A new call holds no row; it has read, or its client saw, the rows as they are.
LEMMA CallMoves ==
  ASSUME InductiveInvariant, NEW r \in Requests, NEW work \in Request, Call(r, work),
         work.at \in {"flushItem", "dropItemLinks", "lockDocument", "dropLink",
                      "dropDocumentLinks"},
         work.at \in {"flushItem", "dropItemLinks", "lockDocument"} =>
           work.item \in Items /\ items[work.item].state # "unborn",
         work.at = "dropLink" => work.item \in Items,
         work.at \in {"lockDocument", "dropLink", "dropDocumentLinks"} =>
           work.document \in Documents,
         work.at = "flushItem" => work.new \in Criteria,
         work.at \in {"flushItem", "lockDocument"} =>
           /\ items[work.item].version = work.itemVersion
           /\ items[work.item].criteria = work.criteria
  PROVE  InductiveInvariant'
<1>1. req[r].at = "idle" /\ held[r] = {} /\ held = [held EXCEPT ![r] = {}]
  BY DEF Call, InductiveInvariant, StepHolds, TypeOK
<1>2. held' = [held EXCEPT ![r] = {}] /\ req' = [req EXCEPT ![r] = work]
  BY <1>1 DEF Call
<1>3. req'[r] = work /\ held'[r] = {} /\ items' = items
  BY <1>2 DEF Call, InductiveInvariant, TypeOK
<1>4. StepHolds(r)'
  BY <1>3 DEF StepHolds, ItemDeletion, DocumentDeletion
<1>5. work.at \in {"flushItem", "invalidate", "commitItem", "lockDocument", "lockItem",
                    "lockLink"} =>
        /\ items[work.item].version >= work.itemVersion
        /\ items[work.item].version = work.itemVersion =>
             items[work.item].criteria = work.criteria
  BY DEF Request
<1>6. UNCHANGED <<items, documents, links, reused>>
  BY DEF Call
<1>7. {} \in SUBSET Rows /\ \A s \in Requests \ {r} : held[s] \intersect {} = {}
  OBVIOUS
<1> QED
  BY <1>2, <1>4, <1>5, <1>6, <1>7, RequestMoves

\* A transaction that ends with nothing written: a refusal, or a deadlock.
LEMMA EndMoves ==
  ASSUME InductiveInvariant, NEW r \in Requests, End(r),
         UNCHANGED <<items, documents, links, reused>>
  PROVE  InductiveInvariant'
<1>1. NoRequest \in Request
  BY DEF NoRequest, Request
<1>2. req'[r] = NoRequest /\ held'[r] = {}
  BY DEF End, InductiveInvariant, TypeOK
<1>3. StepHolds(r)'
  BY <1>2 DEF StepHolds, NoRequest, ItemDeletion, DocumentDeletion
<1> QED
  BY <1>1, <1>3, RequestMoves DEF End, NoRequest

\* A statement that is granted its locks shares none of them.
LEMMA GrantedExclusive ==
  ASSUME InductiveInvariant, NEW r \in Requests, Granted(r), Wanted(r) \in SUBSET Rows
  PROVE  /\ held[r] \union Wanted(r) \in SUBSET Rows
         /\ \A s \in Requests \ {r} : held[s] \intersect (held[r] \union Wanted(r)) = {}
  BY DEF InductiveInvariant, TypeOK, RowsExclusive, Granted, LockedBy

\* What a statement locks are rows.
LEMMA WantedAreRows ==
  ASSUME InductiveInvariant, NEW r \in Requests
  PROVE  Wanted(r) \in SUBSET Rows
<1>1. StepHolds(r) /\ req[r] \in Request
  BY DEF InductiveInvariant, TypeOK
<1>2. CASE req[r].at = "lockDocument"
  <2>1. Wanted(r) = {req[r].document}
    BY <1>2 DEF Wanted
  <2> QED
    BY <1>1, <1>2, <2>1 DEF StepHolds, Rows, Pairs, LinksOf, ConfirmedLinksOf,
                            ItemDeletion, DocumentDeletion
<1>3. CASE req[r].at = "dropDocument"
  <2>1. Wanted(r) = {req[r].document}
    BY <1>3 DEF Wanted
  <2> QED
    BY <1>1, <1>3, <2>1 DEF StepHolds, Rows, Pairs, LinksOf, ConfirmedLinksOf,
                            ItemDeletion, DocumentDeletion
<1>4. CASE req[r].at = "lockItem"
  <2>1. Wanted(r) = {req[r].item}
    BY <1>4 DEF Wanted
  <2> QED
    BY <1>1, <1>4, <2>1 DEF StepHolds, Rows, Pairs, LinksOf, ConfirmedLinksOf,
                            ItemDeletion, DocumentDeletion
<1>5. CASE req[r].at = "flushItem"
  <2>1. Wanted(r) = {req[r].item}
    BY <1>5 DEF Wanted
  <2> QED
    BY <1>1, <1>5, <2>1 DEF StepHolds, Rows, Pairs, LinksOf, ConfirmedLinksOf,
                            ItemDeletion, DocumentDeletion
<1>6. CASE req[r].at = "dropItem"
  <2>1. Wanted(r) = {req[r].item}
    BY <1>6 DEF Wanted
  <2> QED
    BY <1>1, <1>6, <2>1 DEF StepHolds, Rows, Pairs, LinksOf, ConfirmedLinksOf,
                            ItemDeletion, DocumentDeletion
<1>7. CASE req[r].at = "lockLink"
  <2>1. Wanted(r) = LinksOf({<<req[r].document, req[r].item>>})
    BY <1>7 DEF Wanted
  <2> QED
    BY <1>1, <1>7, <2>1 DEF StepHolds, Rows, Pairs, LinksOf, ConfirmedLinksOf,
                            ItemDeletion, DocumentDeletion
<1>8. CASE req[r].at = "dropLink"
  <2>1. Wanted(r) = LinksOf({<<req[r].document, req[r].item>>})
    BY <1>8 DEF Wanted
  <2> QED
    BY <1>1, <1>8, <2>1 DEF StepHolds, Rows, Pairs, LinksOf, ConfirmedLinksOf,
                            ItemDeletion, DocumentDeletion
<1>9. CASE req[r].at = "invalidate"
  <2>1. Wanted(r) = ConfirmedLinksOf(req[r].item)
    BY <1>9 DEF Wanted
  <2> QED
    BY <1>1, <1>9, <2>1 DEF StepHolds, Rows, Pairs, LinksOf, ConfirmedLinksOf,
                            ItemDeletion, DocumentDeletion
<1>10. CASE req[r].at = "dropItemLinks"
  <2>1. Wanted(r) = LinksOf(Documents \X {req[r].item})
    BY <1>10 DEF Wanted
  <2> QED
    BY <1>1, <1>10, <2>1 DEF StepHolds, Rows, Pairs, LinksOf, ConfirmedLinksOf,
                            ItemDeletion, DocumentDeletion
<1>11. CASE req[r].at = "cascadeItem"
  <2>1. Wanted(r) = LinksOf(Documents \X {req[r].item})
    BY <1>11 DEF Wanted
  <2> QED
    BY <1>1, <1>11, <2>1 DEF StepHolds, Rows, Pairs, LinksOf, ConfirmedLinksOf,
                            ItemDeletion, DocumentDeletion
<1>12. CASE req[r].at = "dropDocumentLinks"
  <2>1. Wanted(r) = LinksOf({req[r].document} \X Items)
    BY <1>12 DEF Wanted
  <2> QED
    BY <1>1, <1>12, <2>1 DEF StepHolds, Rows, Pairs, LinksOf, ConfirmedLinksOf,
                            ItemDeletion, DocumentDeletion
<1>13. CASE req[r].at = "cascadeDocument"
  <2>1. Wanted(r) = LinksOf({req[r].document} \X Items)
    BY <1>13 DEF Wanted
  <2> QED
    BY <1>1, <1>13, <2>1 DEF StepHolds, Rows, Pairs, LinksOf, ConfirmedLinksOf,
                            ItemDeletion, DocumentDeletion
<1>14. CASE req[r].at = "idle"
  <2>1. Wanted(r) = {}
    BY <1>14 DEF Wanted
  <2> QED
    BY <1>1, <1>14, <2>1 DEF StepHolds, Rows, Pairs, LinksOf, ConfirmedLinksOf,
                            ItemDeletion, DocumentDeletion
<1>15. CASE req[r].at = "commitItem"
  <2>1. Wanted(r) = {}
    BY <1>15 DEF Wanted
  <2> QED
    BY <1>1, <1>15, <2>1 DEF StepHolds, Rows, Pairs, LinksOf, ConfirmedLinksOf,
                            ItemDeletion, DocumentDeletion
<1> QED
  BY <1>1, <1>2, <1>3, <1>4, <1>5, <1>6, <1>7, <1>8, <1>9, <1>10, <1>11, <1>12, <1>13, <1>14, <1>15 DEF Request, ItemDeletion, DocumentDeletion

\* A statement in the middle of a transaction: the next step is the one named,
\* the rows it wanted are locked, and the rest is as it was.
LEMMA ContinueMoves ==
  ASSUME InductiveInvariant, NEW r \in Requests, Granted(r),
         NEW at \in {"invalidate", "commitItem", "lockItem", "lockLink"}
                       \union ItemDeletion \union DocumentDeletion,
         Continue(r, at), UNCHANGED <<items, documents, links, reused>>,
         at \in {"invalidate", "commitItem", "lockItem", "lockLink"} =>
           req[r].at \in {"flushItem", "invalidate", "lockDocument", "lockItem"},
         StepHolds(r)'
  PROVE  InductiveInvariant'
<1> DEFINE work == [req[r] EXCEPT !.at = at]
           rows == held[r] \union Wanted(r)
<1>1. req[r] \in Request
  BY DEF InductiveInvariant, TypeOK
<1>2. work \in Request /\ work.at = at /\ work.item = req[r].item
        /\ work.itemVersion = req[r].itemVersion /\ work.criteria = req[r].criteria
  BY <1>1 DEF Request
<1>3. rows \in SUBSET Rows /\ \A s \in Requests \ {r} : held[s] \intersect rows = {}
  BY GrantedExclusive, WantedAreRows
<1>4. req' = [req EXCEPT ![r] = work] /\ held' = [held EXCEPT ![r] = rows]
  BY DEF Continue, InductiveInvariant, TypeOK
<1>5. ~reused /\ at \in {"flushItem", "invalidate", "commitItem", "lockDocument",
                          "lockItem", "lockLink"} =>
        /\ items[work.item].version >= work.itemVersion
        /\ items[work.item].version = work.itemVersion =>
             items[work.item].criteria = work.criteria
  BY <1>2 DEF InductiveInvariant, PagesTrue, ItemDeletion, DocumentDeletion
<1> HIDE DEF work, rows
<1> QED
  BY <1>2, <1>3, <1>4, <1>5, RequestMoves

\* What a request has after it continued.
LEMMA AfterContinue ==
  ASSUME InductiveInvariant, NEW r \in Requests, NEW at, Continue(r, at),
         UNCHANGED <<items, documents, links, reused>>
  PROVE  /\ req'[r].at = at /\ held'[r] = held[r] \union Wanted(r)
         /\ req'[r].item = req[r].item /\ req'[r].document = req[r].document
         /\ req'[r].new = req[r].new /\ req'[r].criteria = req[r].criteria
         /\ req'[r].itemVersion = req[r].itemVersion
         /\ req'[r].documentVersion = req[r].documentVersion
<1>1. req[r] \in Request /\ req' = [req EXCEPT ![r].at = at] /\ DOMAIN req = Requests
        /\ held' = [held EXCEPT ![r] = @ \union Wanted(r)] /\ DOMAIN held = Requests
  BY DEF Continue, InductiveInvariant, TypeOK
<1> QED
  BY <1>1 DEF Request

\* The statements of an item update before its commit.
LEMMA ItemStatements ==
  ASSUME InductiveInvariant, NEW r \in Requests, FlushItem(r) \/ Invalidate(r)
  PROVE  InductiveInvariant'
<1>0. StepHolds(r)
  BY DEF InductiveInvariant
<1>1. CASE FlushItem(r)
  <2>1. Granted(r) /\ Continue(r, "invalidate") /\ req[r].at = "flushItem"
          /\ UNCHANGED <<items, documents, links, reused>>
    BY <1>1 DEF FlushItem
  <2>2. Wanted(r) = {req[r].item}
    BY <2>1 DEF Wanted
  <2>3. held'[r] = {req[r].item} /\ {req[r].item} \intersect Pairs = {}
    BY <1>0, <2>1, <2>2, AfterContinue, ChecklistAssumption DEF StepHolds, Pairs
  <2>4. StepHolds(r)'
    BY <1>0, <1>1, <2>1, <2>3, AfterContinue
    DEF StepHolds, FlushItem, Present, MatchingFieldsChanged, ItemDeletion, DocumentDeletion
  <2> QED
    BY <2>1, <2>4, ContinueMoves
<1>2. CASE Invalidate(r)
  <2>1. Granted(r) /\ Continue(r, "commitItem") /\ req[r].at = "invalidate"
          /\ UNCHANGED <<items, documents, links, reused>>
    BY <1>2 DEF Invalidate
  <2>2. Wanted(r) = ConfirmedLinksOf(req[r].item) /\ Wanted(r) \subseteq Pairs
    BY <1>0, <2>1 DEF Wanted, ConfirmedLinksOf, Pairs, StepHolds
  <2>3. held'[r] = held[r] \union Wanted(r) /\ req'[r].item = req[r].item
    BY <2>1, AfterContinue
  <2>4. (held[r] \union Wanted(r)) \intersect Pairs = ConfirmedLinksOf(req[r].item)
    BY <1>0, <2>1, <2>2 DEF StepHolds
  <2>5. ConfirmedLinksOf(req[r].item)' = ConfirmedLinksOf(req[r].item)
    BY <2>1, <2>3 DEF ConfirmedLinksOf
  <2>6. StepHolds(r)'
    BY <1>0, <2>1, <2>3, <2>4, <2>5, AfterContinue
    DEF StepHolds, Present, MatchingFieldsChanged, ItemDeletion, DocumentDeletion
  <2> QED
    BY <2>1, <2>6, ContinueMoves
<1> QED
  BY <1>1, <1>2

\* The statements of the two deletions before their commit.
LEMMA DeletionStatements ==
  ASSUME InductiveInvariant, NEW r \in Requests,
         DropItemLinks(r) \/ DropItem(r) \/ DropDocumentLinks(r) \/ DropDocument(r)
  PROVE  InductiveInvariant'
<1>0. StepHolds(r)
  BY DEF InductiveInvariant
<1>1. CASE DropItemLinks(r)
  <2>1. Granted(r) /\ Continue(r, "dropItem") /\ req[r].at = "dropItemLinks"
          /\ UNCHANGED <<items, documents, links, reused>>
    BY <1>1 DEF DropItemLinks
  <2>2. StepHolds(r)'
    BY <1>0, <2>1, AfterContinue DEF StepHolds, ItemDeletion, DocumentDeletion
  <2> QED
    BY <2>1, <2>2, ContinueMoves DEF ItemDeletion
<1>2. CASE DropItem(r)
  <2>1. Granted(r) /\ Continue(r, "cascadeItem") /\ req[r].at = "dropItem"
          /\ UNCHANGED <<items, documents, links, reused>>
    BY <1>2 DEF DropItem
  <2>2. Wanted(r) = {req[r].item}
    BY <2>1 DEF Wanted
  <2>3. StepHolds(r)'
    BY <1>0, <2>1, <2>2, AfterContinue DEF StepHolds, ItemDeletion, DocumentDeletion
  <2> QED
    BY <2>1, <2>3, ContinueMoves DEF ItemDeletion
<1>3. CASE DropDocumentLinks(r)
  <2>1. Granted(r) /\ Continue(r, "dropDocument") /\ req[r].at = "dropDocumentLinks"
          /\ UNCHANGED <<items, documents, links, reused>>
    BY <1>3 DEF DropDocumentLinks
  <2>2. StepHolds(r)'
    BY <1>0, <2>1, AfterContinue DEF StepHolds, ItemDeletion, DocumentDeletion
  <2> QED
    BY <2>1, <2>2, ContinueMoves DEF DocumentDeletion
<1>4. CASE DropDocument(r)
  <2>1. Granted(r) /\ Continue(r, "cascadeDocument") /\ req[r].at = "dropDocument"
          /\ UNCHANGED <<items, documents, links, reused>>
    BY <1>4 DEF DropDocument
  <2>2. Wanted(r) = {req[r].document}
    BY <2>1 DEF Wanted
  <2>3. StepHolds(r)'
    BY <1>0, <2>1, <2>2, AfterContinue DEF StepHolds, ItemDeletion, DocumentDeletion
  <2> QED
    BY <2>1, <2>3, ContinueMoves DEF DocumentDeletion
<1> QED
  BY <1>1, <1>2, <1>3, <1>4

\* The checks of a new link under the locks of the document and the item.
LEMMA LinkStatements ==
  ASSUME InductiveInvariant, NEW r \in Requests, LinkLocksDocument(r) \/ LinkLocksItem(r)
  PROVE  InductiveInvariant'
<1>0. StepHolds(r)
  BY DEF InductiveInvariant
<1>1. CASE LinkLocksDocument(r)
  <2>1. Granted(r) /\ Continue(r, "lockItem") /\ req[r].at = "lockDocument"
          /\ UNCHANGED <<items, documents, links, reused>> /\ DocumentAsExpected(r)
    BY <1>1 DEF LinkLocksDocument
  <2>2. Wanted(r) = {req[r].document}
    BY <2>1 DEF Wanted
  <2>3. StepHolds(r)'
    BY <1>0, <2>1, <2>2, AfterContinue
    DEF StepHolds, DocumentAsExpected, ItemDeletion, DocumentDeletion
  <2> QED
    BY <2>1, <2>3, ContinueMoves
<1>2. CASE LinkLocksItem(r)
  <2>1. Granted(r) /\ Continue(r, "lockLink") /\ req[r].at = "lockItem"
          /\ UNCHANGED <<items, documents, links, reused>> /\ ItemAsExpected(r)
    BY <1>2 DEF LinkLocksItem
  <2>2. Wanted(r) = {req[r].item}
    BY <2>1 DEF Wanted
  <2>3. StepHolds(r)'
    BY <1>0, <2>1, <2>2, AfterContinue
    DEF StepHolds, DocumentAsExpected, ItemAsExpected, Present, ItemDeletion, DocumentDeletion
  <2> QED
    BY <2>1, <2>3, ContinueMoves
<1> QED
  BY <1>1, <1>2

\* A commit changes only rows that no other transaction has locked; what the
\* other transactions rely on stays true.
LEMMA CommitKeepsOthers ==
  ASSUME InductiveInvariant, NEW r \in Requests, End(r),
         \A i \in Items : items'[i].state = "unborn" => items[i].state = "unborn",
         \A i \in Items : items'[i] # items[i] =>
           \A s \in Requests \ {r} : i \notin held[s],
         \A d \in Documents : documents'[d] # documents[d] =>
           \A s \in Requests \ {r} : d \notin held[s],
         \A p \in Pairs : links'[p].status # links[p].status =>
           \A s \in Requests \ {r} : /\ req[s].at = "commitItem" => p \notin held[s]
                                     /\ links'[p].status = "CONFIRMED" => p[2] \notin held[s]
  PROVE  RowsExclusive' /\ (\A s \in Requests : StepHolds(s)')
<1>1. \A s \in Requests : /\ req'[s] = IF s = r THEN NoRequest ELSE req[s]
                          /\ held'[s] = IF s = r THEN {} ELSE held[s]
  BY DEF End, InductiveInvariant, TypeOK
<1>2. RowsExclusive'
  BY <1>1 DEF InductiveInvariant, RowsExclusive
<1>3. ASSUME NEW s \in Requests PROVE StepHolds(s)'
  <2>1. CASE s = r
    BY <1>1, <2>1 DEF StepHolds, NoRequest, ItemDeletion, DocumentDeletion
  <2>2. CASE s # r
    <3> DEFINE i == req[s].item
               d == req[s].document
    <3>1. req'[s] = req[s] /\ held'[s] = held[s] /\ StepHolds(s)
      BY <1>1, <2>2 DEF InductiveInvariant
    <3>2. i \in Items /\ i \in held[s] => items'[i] = items[i]
      BY <2>2
    <3>3. d \in Documents /\ d \in held[s] => documents'[d] = documents[d]
      BY <2>2
    <3>4. i \in Items /\ items[i].state # "unborn" => items'[i].state # "unborn"
      OBVIOUS
    <3>5. req[s].at = "commitItem" => ConfirmedLinksOf(i)' = ConfirmedLinksOf(i)
      <4> SUFFICES ASSUME req[s].at = "commitItem" PROVE ConfirmedLinksOf(i)' = ConfirmedLinksOf(i)
        OBVIOUS
      <4>1. i \in Items /\ i \in held[s] /\ held[s] \intersect Pairs = ConfirmedLinksOf(i)
        BY <3>1 DEF StepHolds
      <4>2. ASSUME NEW p \in Documents \X {i}
            PROVE  links'[p].status = "CONFIRMED" <=> links[p].status = "CONFIRMED"
        <5>1. p \in Pairs /\ p[2] = i
          BY <4>1 DEF Pairs
        <5>2. CASE links'[p].status = links[p].status
          BY <5>2
        <5>3. CASE links'[p].status # links[p].status
          <6>1. p \notin held[s] /\ links'[p].status # "CONFIRMED"
            BY <2>2, <4>1, <5>1, <5>3
          <6>2. links[p].status # "CONFIRMED"
            BY <4>1, <5>1, <6>1 DEF ConfirmedLinksOf
          <6> QED
            BY <6>1, <6>2
        <5> QED
          BY <5>2, <5>3
      <4> QED
        BY <3>1, <4>2 DEF ConfirmedLinksOf
    <3> QED
      BY <3>1, <3>2, <3>3, <3>4, <3>5
      DEF StepHolds, Present, MatchingFieldsChanged, DocumentAsExpected, ItemAsExpected,
          ItemDeletion, DocumentDeletion
  <2> QED
    BY <2>1, <2>2
<1> QED
  BY <1>2, <1>3

\* A commit that leaves the items alone leaves the pages right.
LEMMA CommitKeepsPages ==
  ASSUME InductiveInvariant, NEW r \in Requests, End(r), UNCHANGED reused,
         \A i \in Items : /\ items'[i].version = items[i].version
                          /\ items'[i].criteria = items[i].criteria
  PROVE  PagesTrue'
<1>1. \A s \in Requests : req'[s] = IF s = r THEN NoRequest ELSE req[s]
  BY DEF End, InductiveInvariant, TypeOK
<1>2. \A s \in Requests : StepHolds(s)
  BY DEF InductiveInvariant
<1> QED
  BY <1>1, <1>2 DEF InductiveInvariant, PagesTrue, NoRequest, StepHolds

\* The commit of an update that no version check had to stop: it writes a
\* version higher than any a client has seen, or notes the reuse.
LEMMA UpdateKeepsPages ==
  ASSUME InductiveInvariant, NEW r \in Requests, End(r), NoteReuse(r),
         req[r].at \in {"flushItem", "commitItem"},
         items' = [items EXCEPT ![req[r].item] = UpdatedItem(r)]
  PROVE  PagesTrue'
<1>1. \A s \in Requests : req'[s] = IF s = r THEN NoRequest ELSE req[s]
  BY DEF End, InductiveInvariant, TypeOK
<1>2. \A s \in Requests : StepHolds(s) /\ req[s] \in Request
  BY DEF InductiveInvariant, TypeOK
<1>3. req[r].item \in Items
  BY <1>2 DEF StepHolds
<1> SUFFICES ASSUME ~reused', NEW s \in Requests,
                    req'[s].at \in {"flushItem", "invalidate", "commitItem", "lockDocument",
                                   "lockItem", "lockLink"}
             PROVE  /\ items'[req'[s].item].version >= req'[s].itemVersion
                    /\ items'[req'[s].item].version = req'[s].itemVersion =>
                         items'[req'[s].item].criteria = req'[s].criteria
  BY DEF PagesTrue
<1>4. s # r /\ req'[s] = req[s] /\ req[s].item \in Items
  BY <1>1, <1>2 DEF NoRequest, StepHolds
<1>5. ~reused /\ items[req[r].item].version = req[r].itemVersion
  BY DEF NoteReuse
<1>6. items[req[s].item].version >= req[s].itemVersion
  BY <1>4, <1>5 DEF InductiveInvariant, PagesTrue
<1>7. CASE req[s].item = req[r].item
  <2>1. items'[req[s].item].version = req[r].itemVersion + 1
    BY <1>3, <1>7 DEF UpdatedItem, InductiveInvariant, TypeOK
  <2>2. req[r].itemVersion \in Nat /\ req[s].itemVersion \in Nat
    BY <1>2 DEF Request
  <2> QED
    BY <1>4, <1>5, <1>6, <1>7, <2>1, <2>2
<1>8. CASE req[s].item # req[r].item
  <2>1. items'[req[s].item] = items[req[s].item]
    BY <1>3, <1>4, <1>8 DEF InductiveInvariant, TypeOK
  <2> QED
    BY <1>4, <1>5, <2>1 DEF InductiveInvariant, PagesTrue
<1> QED
  BY <1>7, <1>8

\* The row an update writes has its type, and keeps its life.
LEMMA UpdatedItemType ==
  ASSUME InductiveInvariant, NEW r \in Requests, req[r].at \in {"flushItem", "commitItem"},
         Present(req[r].item)
  PROVE  /\ req[r].item \in Items
         /\ UpdatedItem(r) \in [state : {"unborn", "present", "gone"}, version : Nat,
                                criteria : Criteria \union {Nobody}]
         /\ UpdatedItem(r).criteria \in Criteria
         /\ UpdatedItem(r).state = "present"
         /\ UpdatedItem(r).criteria = IF MatchingFieldsChanged(r) THEN req[r].new
                                      ELSE items[req[r].item].criteria
<1>1. req[r] \in Request /\ StepHolds(r) /\ req[r].new \in Criteria /\ req[r].item \in Items
  BY DEF InductiveInvariant, TypeOK, StepHolds
<1>2. /\ items[req[r].item] \in [state : {"unborn", "present", "gone"}, version : Nat,
                                 criteria : Criteria \union {Nobody}]
      /\ items[req[r].item].criteria \in Criteria /\ items[req[r].item].state = "present"
  BY <1>1 DEF InductiveInvariant, TypeOK, Present
<1>3. req[r].itemVersion + 1 \in Nat
  BY <1>1 DEF Request
<1> QED
  BY <1>1, <1>2, <1>3 DEF UpdatedItem

LEMMA CommitItemKeeps ==
  ASSUME InductiveInvariant, NEW r \in Requests, CommitItem(r)
  PROVE  InductiveInvariant'
<1> DEFINE i == req[r].item
<1>1. /\ req[r].at = "commitItem" /\ i \in Items /\ i \in held[r] /\ Present(i)
      /\ MatchingFieldsChanged(r) /\ held[r] \intersect Pairs = ConfirmedLinksOf(i)
      /\ End(r) /\ NoteReuse(r) /\ documents' = documents
      /\ items' = [items EXCEPT ![i] = UpdatedItem(r)]
  BY DEF CommitItem, InductiveInvariant, StepHolds
<1>2. \A p \in Pairs : links'[p] = IF p \in ConfirmedLinksOf(i)
                                   THEN [links[p] EXCEPT !.status = "INVALIDATED"] ELSE links[p]
  BY <1>1 DEF CommitItem
<1>3. TypeOK'
  <2>1. items' \in [Items -> [state : {"unborn", "present", "gone"}, version : Nat,
                             criteria : Criteria \union {Nobody}]]
        /\ \A j \in Items : items'[j].state # "unborn" => items'[j].criteria \in Criteria
    BY <1>1, UpdatedItemType DEF InductiveInvariant, TypeOK
  <2>2. links' \in [Pairs -> [status : {"NONE", "CONFIRMED", "INVALIDATED"},
                             on : Criteria \union {Nobody}, seen : BOOLEAN]]
    BY DEF CommitItem, InductiveInvariant, TypeOK
  <2>3. req' \in [Requests -> Request] /\ held' \in [Requests -> SUBSET Rows]
    BY <1>1 DEF End, NoRequest, Request, InductiveInvariant, TypeOK
  <2>4. reused' \in BOOLEAN
    BY <1>1 DEF NoteReuse
  <2> QED
    BY <1>1, <2>1, <2>2, <2>3, <2>4 DEF InductiveInvariant, TypeOK
<1>4. \A s \in Requests \ {r} : \A row \in held[r] : row \notin held[s]
  BY DEF InductiveInvariant, RowsExclusive
<1>5. \A j \in Items : items'[j] = IF j = i THEN UpdatedItem(r) ELSE items[j]
  BY <1>1 DEF InductiveInvariant, TypeOK
<1>6. UpdatedItem(r).state = "present"
  BY <1>1, UpdatedItemType
<1>7. RowsExclusive' /\ (\A s \in Requests : StepHolds(s)')
  <2>1. \A j \in Items : /\ items'[j].state = "unborn" => items[j].state = "unborn"
                         /\ items'[j] # items[j] => \A s \in Requests \ {r} : j \notin held[s]
    BY <1>1, <1>4, <1>5, <1>6
  <2>2. \A p \in Pairs : links'[p].status # links[p].status =>
           p \in held[r] /\ links'[p].status # "CONFIRMED"
    BY <1>1, <1>2 DEF InductiveInvariant, TypeOK
  <2> QED
    BY <1>1, <1>4, <2>1, <2>2, CommitKeepsOthers
<1>8. PagesTrue'
  BY <1>1, UpdateKeepsPages
<1>9. \A p \in Pairs : links'[p].status = "CONFIRMED" =>
        p[2] # i /\ links[p].status = "CONFIRMED" /\ links'[p] = links[p]
  BY <1>2 DEF InductiveInvariant, TypeOK, ConfirmedLinksOf, Pairs
<1>10. LinkFitsItem'
  BY <1>5, <1>9 DEF InductiveInvariant, LinkFitsItem, Pairs
<1>11. NoDanglingLink'
  <2>1. \A p \in Pairs : links'[p].status # "NONE" => links[p].status # "NONE"
    BY <1>2 DEF ConfirmedLinksOf
  <2> QED
    BY <1>1, <1>5, <1>6, <2>1 DEF InductiveInvariant, NoDanglingLink, Present, Pairs
<1>12. ConfirmedAsSeen'
  BY <1>1, <1>9 DEF InductiveInvariant, ConfirmedAsSeen, NoteReuse
<1> QED
  BY <1>3, <1>7, <1>8, <1>10, <1>11, <1>12 DEF InductiveInvariant

LEMMA UpdateItemOnlyKeeps ==
  ASSUME InductiveInvariant, NEW r \in Requests, UpdateItemOnly(r)
  PROVE  InductiveInvariant'
<1> DEFINE i == req[r].item
<1>1. /\ req[r].at = "flushItem" /\ i \in Items /\ Present(i) /\ Granted(r)
      /\ ~MatchingFieldsChanged(r) /\ End(r) /\ NoteReuse(r)
      /\ UNCHANGED <<documents, links>> /\ items' = [items EXCEPT ![i] = UpdatedItem(r)]
  BY DEF UpdateItemOnly, InductiveInvariant, StepHolds
<1>2. Wanted(r) = {i}
  BY <1>1 DEF Wanted
<1>3. \A s \in Requests \ {r} : i \notin held[s]
  BY <1>1, <1>2, GrantedExclusive, WantedAreRows
<1>4. \A j \in Items : items'[j] = IF j = i THEN UpdatedItem(r) ELSE items[j]
  BY <1>1 DEF InductiveInvariant, TypeOK
<1>5. UpdatedItem(r).state = "present" /\ UpdatedItem(r).criteria = items[i].criteria
  BY <1>1, UpdatedItemType
<1>6. TypeOK'
  <2>1. items' \in [Items -> [state : {"unborn", "present", "gone"}, version : Nat,
                             criteria : Criteria \union {Nobody}]]
        /\ \A j \in Items : items'[j].state # "unborn" => items'[j].criteria \in Criteria
    BY <1>1, UpdatedItemType DEF InductiveInvariant, TypeOK
  <2>2. req' \in [Requests -> Request] /\ held' \in [Requests -> SUBSET Rows]
    BY <1>1 DEF End, NoRequest, Request, InductiveInvariant, TypeOK
  <2>3. reused' \in BOOLEAN
    BY <1>1 DEF NoteReuse
  <2> QED
    BY <1>1, <2>1, <2>2, <2>3 DEF InductiveInvariant, TypeOK
<1>7. RowsExclusive' /\ (\A s \in Requests : StepHolds(s)')
  <2>1. \A j \in Items : /\ items'[j].state = "unborn" => items[j].state = "unborn"
                         /\ items'[j] # items[j] => \A s \in Requests \ {r} : j \notin held[s]
    BY <1>3, <1>4, <1>5
  <2> QED
    BY <1>1, <2>1, CommitKeepsOthers
<1>8. PagesTrue'
  BY <1>1, UpdateKeepsPages
<1>9. LinkFitsItem' /\ NoDanglingLink'
  BY <1>1, <1>4, <1>5 DEF InductiveInvariant, LinkFitsItem, NoDanglingLink, Present, Pairs
<1>10. ConfirmedAsSeen'
  BY <1>1 DEF InductiveInvariant, ConfirmedAsSeen, NoteReuse
<1> QED
  BY <1>6, <1>7, <1>8, <1>9, <1>10 DEF InductiveInvariant

\* The commits that remove links, with their item or document or alone.
LEMMA RemovalKeeps ==
  ASSUME InductiveInvariant, NEW r \in Requests, NEW removed \in SUBSET Pairs, End(r),
         UNCHANGED reused,
         links' = [p \in Pairs |-> IF p \in removed THEN NoLink ELSE links[p]],
         \A p \in removed : links[p].status # "NONE" =>
           \A s \in Requests \ {r} : p \notin held[s],
         \/ UNCHANGED items
         \/ \E i \in Items : /\ i \in held[r] /\ Documents \X {i} \subseteq removed
                             /\ items[i].state # "unborn"
                             /\ items' = [items EXCEPT ![i].state = "gone"],
         \/ UNCHANGED documents
         \/ \E d \in Documents : /\ d \in held[r] /\ {d} \X Items \subseteq removed
                                 /\ documents' = [documents EXCEPT ![d].status = "GONE"]
  PROVE  InductiveInvariant'
<1>1. \A p \in Pairs : links'[p] = IF p \in removed THEN NoLink ELSE links[p]
  OBVIOUS
<1>2. \A i \in Items : /\ items'[i].version = items[i].version
                       /\ items'[i].criteria = items[i].criteria
                       /\ items'[i] # items[i] => /\ i \in held[r]
                                                 /\ Documents \X {i} \subseteq removed
                                                 /\ items[i].state # "unborn"
                                                 /\ items'[i].state = "gone"
  BY DEF InductiveInvariant, TypeOK
<1>3. \A d \in Documents : documents'[d] # documents[d] =>
        d \in held[r] /\ {d} \X Items \subseteq removed
  BY DEF InductiveInvariant, TypeOK
<1>4. TypeOK'
  <2>1. items' \in [Items -> [state : {"unborn", "present", "gone"}, version : Nat,
                             criteria : Criteria \union {Nobody}]]
    BY DEF InductiveInvariant, TypeOK
  <2>5. \A j \in Items : items'[j].state # "unborn" => items'[j].criteria \in Criteria
    <3>1. \A j \in Items : items[j].state # "unborn" => items[j].criteria \in Criteria
      BY DEF InductiveInvariant, TypeOK
    <3> QED
      BY <1>2, <3>1
  <2>2. documents' \in [Documents -> [status : {"PENDING", "CONFIRMED", "GONE"}, version : Nat]]
    BY DEF InductiveInvariant, TypeOK
  <2>3. links' \in [Pairs -> [status : {"NONE", "CONFIRMED", "INVALIDATED"},
                             on : Criteria \union {Nobody}, seen : BOOLEAN]]
    BY DEF NoLink, InductiveInvariant, TypeOK
  <2>4. req' \in [Requests -> Request] /\ held' \in [Requests -> SUBSET Rows]
    BY DEF End, NoRequest, Request, InductiveInvariant, TypeOK
  <2> QED
    BY <2>1, <2>2, <2>3, <2>4, <2>5 DEF InductiveInvariant, TypeOK
<1>5. \A s \in Requests \ {r} : \A row \in held[r] : row \notin held[s]
  BY DEF InductiveInvariant, RowsExclusive
<1>6. RowsExclusive' /\ (\A s \in Requests : StepHolds(s)')
  <2>1. \A p \in Pairs : links'[p].status # links[p].status =>
          \A s \in Requests \ {r} : /\ req[s].at = "commitItem" => p \notin held[s]
                                    /\ links'[p].status = "CONFIRMED" => p[2] \notin held[s]
    BY <1>1 DEF NoLink
  <2>2. \A i \in Items : /\ items'[i].state = "unborn" => items[i].state = "unborn"
                         /\ items'[i] # items[i] => \A s \in Requests \ {r} : i \notin held[s]
    BY <1>2, <1>5
  <2>3. \A d \in Documents : documents'[d] # documents[d] =>
          \A s \in Requests \ {r} : d \notin held[s]
    BY <1>3, <1>5
  <2> QED
    BY <2>1, <2>2, <2>3, CommitKeepsOthers
<1>7. PagesTrue'
  BY <1>2, CommitKeepsPages
<1>8. LinkFitsItem' /\ ConfirmedAsSeen'
  BY <1>1, <1>2 DEF InductiveInvariant, LinkFitsItem, ConfirmedAsSeen, NoLink, Pairs
<1>9. NoDanglingLink'
  <2> SUFFICES ASSUME NEW p \in Pairs, links'[p].status # "NONE"
               PROVE  Present(p[2])' /\ documents'[p[1]].status # "GONE"
    BY DEF NoDanglingLink
  <2>1. p \notin removed /\ links'[p] = links[p] /\ p[1] \in Documents /\ p[2] \in Items
          /\ p \in Documents \X {p[2]} /\ p \in {p[1]} \X Items
    BY <1>1 DEF NoLink, Pairs
  <2>2. items'[p[2]] = items[p[2]] /\ documents'[p[1]] = documents[p[1]]
    BY <1>2, <1>3, <2>1
  <2> QED
    BY <2>1, <2>2 DEF InductiveInvariant, NoDanglingLink, Present
<1> QED
  BY <1>4, <1>6, <1>7, <1>8, <1>9 DEF InductiveInvariant

\* A deleted item or document takes its links along, and a link is removed alone.
LEMMA RemovalsKeep ==
  ASSUME InductiveInvariant, NEW r \in Requests,
         CascadeItem(r) \/ CascadeDocument(r) \/ DropLink(r)
  PROVE  InductiveInvariant'
<1>0. StepHolds(r) /\ links \in [Pairs -> [status : {"NONE", "CONFIRMED", "INVALIDATED"},
                                         on : Criteria \union {Nobody}, seen : BOOLEAN]]
  BY DEF InductiveInvariant, TypeOK
<1>1. CASE CascadeItem(r)
  <2> DEFINE i == req[r].item
             removed == {p \in Pairs : p[2] = i}
  <2>1. /\ req[r].at = "cascadeItem" /\ Granted(r) /\ End(r) /\ UNCHANGED <<documents, reused>>
        /\ i \in Items /\ items[i].state # "unborn" /\ i \in held[r]
    BY <1>0, <1>1 DEF CascadeItem, StepHolds, ItemDeletion
  <2>2. Wanted(r) = LinksOf(Documents \X {i})
    BY <2>1 DEF Wanted
  <2>3. \A p \in removed : links[p].status # "NONE" => p \in Wanted(r)
    BY <2>2 DEF LinksOf, Pairs
  <2>4. \A p \in removed : links[p].status # "NONE" => \A s \in Requests \ {r} : p \notin held[s]
    BY <2>1, <2>3, GrantedExclusive, WantedAreRows
  <2>5. links' = [p \in Pairs |-> IF p \in removed THEN NoLink ELSE links[p]]
    BY <1>1 DEF CascadeItem
  <2>6. Documents \X {i} \subseteq removed /\ removed \in SUBSET Pairs
    BY <2>1 DEF Pairs
  <2>7. items' = [items EXCEPT ![i].state = "gone"]
    BY <1>1 DEF CascadeItem
  <2> HIDE DEF removed
  <2> QED
    BY <2>1, <2>4, <2>5, <2>6, <2>7, RemovalKeeps
<1>2. CASE CascadeDocument(r)
  <2> DEFINE d == req[r].document
             removed == {p \in Pairs : p[1] = d}
  <2>1. /\ req[r].at = "cascadeDocument" /\ Granted(r) /\ End(r) /\ UNCHANGED <<items, reused>>
        /\ d \in Documents /\ d \in held[r]
    BY <1>0, <1>2 DEF CascadeDocument, StepHolds, DocumentDeletion
  <2>2. Wanted(r) = LinksOf({d} \X Items)
    BY <2>1 DEF Wanted
  <2>3. \A p \in removed : links[p].status # "NONE" => p \in Wanted(r)
    BY <2>2 DEF LinksOf, Pairs
  <2>4. \A p \in removed : links[p].status # "NONE" => \A s \in Requests \ {r} : p \notin held[s]
    BY <2>1, <2>3, GrantedExclusive, WantedAreRows
  <2>5. links' = [p \in Pairs |-> IF p \in removed THEN NoLink ELSE links[p]]
    BY <1>2 DEF CascadeDocument
  <2>6. {d} \X Items \subseteq removed /\ removed \in SUBSET Pairs
    BY <2>1 DEF Pairs
  <2>7. documents' = [documents EXCEPT ![d].status = "GONE"]
    BY <1>2 DEF CascadeDocument
  <2> HIDE DEF removed
  <2> QED
    BY <2>1, <2>4, <2>5, <2>6, <2>7, RemovalKeeps
<1>3. CASE DropLink(r)
  <2> DEFINE p == <<req[r].document, req[r].item>>
             removed == {p}
  <2>1. /\ req[r].at = "dropLink" /\ Granted(r) /\ End(r)
        /\ UNCHANGED <<items, documents, reused>> /\ links' = [links EXCEPT ![p] = NoLink]
    BY <1>3 DEF DropLink
  <2>2. Wanted(r) = LinksOf({p})
    BY <2>1 DEF Wanted
  <2>3. links[p].status # "NONE" => p \in Wanted(r)
    BY <2>2 DEF LinksOf
  <2>4. p \in Pairs
    BY <1>0, <2>1 DEF StepHolds, Pairs
  <2>5. links' = [q \in Pairs |-> IF q \in removed THEN NoLink ELSE links[q]]
    BY <1>0, <2>1, <2>4
  <2>6. \A q \in removed : links[q].status # "NONE" => \A s \in Requests \ {r} : q \notin held[s]
    BY <2>1, <2>3, GrantedExclusive, WantedAreRows
  <2>7. removed \in SUBSET Pairs
    BY <2>4
  <2> HIDE DEF removed
  <2> QED
    BY <2>1, <2>5, <2>6, <2>7, RemovalKeeps
<1> QED
  BY <1>1, <1>2, <1>3

\* A link is confirmed on a document and an item that stay as the page showed
\* them, because both rows are locked.
LEMMA LinkCommitKeeps ==
  ASSUME InductiveInvariant, NEW r \in Requests, LinkCommit(r)
  PROVE  InductiveInvariant'
<1> DEFINE d == req[r].document
           i == req[r].item
           p == <<d, i>>
           link == [status |-> "CONFIRMED", seen |-> AsSeen(r), on |-> items[i].criteria]
<1>1. /\ req[r].at = "lockLink" /\ Granted(r) /\ links[p].status # "CONFIRMED"
      /\ End(r) /\ UNCHANGED <<items, documents, reused>> /\ links' = [links EXCEPT ![p] = link]
  BY DEF LinkCommit
<1>2. /\ i \in Items /\ d \in Documents /\ p \in Pairs /\ d \in held[r] /\ i \in held[r]
      /\ DocumentAsExpected(r) /\ ItemAsExpected(r) /\ req[r] \in Request
  BY <1>1 DEF InductiveInvariant, TypeOK, StepHolds, Pairs
<1>3. items[i].criteria \in Criteria
  BY <1>2 DEF InductiveInvariant, TypeOK, ItemAsExpected, Present
<1>4. AsSeen(r) \in BOOLEAN
  BY DEF AsSeen, DocumentAsExpected
<1>5. ~reused => AsSeen(r)
  BY <1>1, <1>2 DEF InductiveInvariant, PagesTrue, AsSeen, ItemAsExpected
<1>6. \A q \in Pairs : links'[q] = IF q = p THEN link ELSE links[q]
  BY <1>1, <1>2 DEF InductiveInvariant, TypeOK
<1>7. TypeOK'
  <2>1. links' \in [Pairs -> [status : {"NONE", "CONFIRMED", "INVALIDATED"},
                             on : Criteria \union {Nobody}, seen : BOOLEAN]]
    BY <1>1, <1>2, <1>3, <1>4 DEF InductiveInvariant, TypeOK
  <2>2. req' \in [Requests -> Request] /\ held' \in [Requests -> SUBSET Rows]
    BY <1>1 DEF End, NoRequest, Request, InductiveInvariant, TypeOK
  <2> QED
    BY <1>1, <2>1, <2>2 DEF InductiveInvariant, TypeOK
<1>8. RowsExclusive' /\ (\A s \in Requests : StepHolds(s)')
  <2>1. ASSUME NEW s \in Requests \ {r}
        PROVE  i \notin held[s] /\ (req[s].at = "commitItem" => p \notin held[s])
    <3>1. i \notin held[s]
      BY <1>2 DEF InductiveInvariant, RowsExclusive
    <3>2. req[s].at = "commitItem" => held[s] \intersect Pairs = ConfirmedLinksOf(req[s].item)
      BY DEF InductiveInvariant, StepHolds
    <3> QED
      BY <1>1, <1>2, <3>1, <3>2 DEF ConfirmedLinksOf
  <2>2. \A q \in Pairs : links'[q].status # links[q].status =>
          \A s \in Requests \ {r} : /\ req[s].at = "commitItem" => q \notin held[s]
                                    /\ links'[q].status = "CONFIRMED" => q[2] \notin held[s]
    BY <1>6, <2>1
  <2> QED
    BY <1>1, <2>2, CommitKeepsOthers
<1>9. PagesTrue'
  BY <1>1, CommitKeepsPages
<1>10. LinkFitsItem' /\ ConfirmedAsSeen'
  BY <1>1, <1>2, <1>5, <1>6 DEF InductiveInvariant, LinkFitsItem, ConfirmedAsSeen
<1>11. NoDanglingLink'
  BY <1>1, <1>2, <1>6 DEF InductiveInvariant, NoDanglingLink, Present, DocumentAsExpected,
                          ItemAsExpected
<1> QED
  BY <1>7, <1>8, <1>9, <1>10, <1>11 DEF InductiveInvariant

\* What happens outside the requests: a new item, and the life of a document
\* whose row nobody has locked.
LEMMA OutsideKeeps ==
  ASSUME InductiveInvariant,
         \/ \E i \in Items, c \in Criteria : CreateItem(i, c)
         \/ \E d \in Documents : MoveDocument(d)
  PROVE  InductiveInvariant'
<1>1. ASSUME NEW i \in Items, NEW c \in Criteria, CreateItem(i, c) PROVE InductiveInvariant'
  <2>1. /\ items[i].state = "unborn" /\ UNCHANGED <<documents, links, held, req, reused>>
        /\ \A j \in Items : items'[j] =
             IF j = i THEN [state |-> "present", version |-> 1, criteria |-> c] ELSE items[j]
    BY <1>1 DEF CreateItem, InductiveInvariant, TypeOK
  <2>2. TypeOK'
    BY <1>1 DEF CreateItem, InductiveInvariant, TypeOK
  <2>3. \A s \in Requests : StepHolds(s)'
    BY <2>1 DEF InductiveInvariant, StepHolds, Present, MatchingFieldsChanged, ConfirmedLinksOf,
                DocumentAsExpected, ItemAsExpected, ItemDeletion, DocumentDeletion
  <2>4. PagesTrue'
    BY <2>1 DEF InductiveInvariant, PagesTrue, StepHolds
  <2>5. \A p \in Pairs : links[p].status # "NONE" => p[2] # i /\ p[2] \in Items
    BY <2>1 DEF InductiveInvariant, NoDanglingLink, Present, Pairs
  <2>6. LinkFitsItem' /\ NoDanglingLink' /\ ConfirmedAsSeen'
    BY <2>1, <2>5 DEF InductiveInvariant, LinkFitsItem, NoDanglingLink, ConfirmedAsSeen, Present
  <2> QED
    BY <2>1, <2>2, <2>3, <2>4, <2>6 DEF InductiveInvariant, RowsExclusive
<1>2. ASSUME NEW d \in Documents, MoveDocument(d) PROVE InductiveInvariant'
  <2>1. /\ UNCHANGED <<items, links, held, req, reused>> /\ documents[d].status # "GONE"
        /\ \A s \in Requests : d \notin held[s]
        /\ \A e \in Documents : documents'[e] = IF e = d
             THEN [status |-> IF documents[d].status = "PENDING" THEN "CONFIRMED" ELSE "PENDING",
                   version |-> documents[d].version + 1] ELSE documents[e]
    BY <1>2 DEF MoveDocument, RowFree, InductiveInvariant, TypeOK
  <2>2. TypeOK'
    BY <1>2 DEF MoveDocument, InductiveInvariant, TypeOK
  <2>3. \A s \in Requests : StepHolds(s)'
    BY <2>1 DEF InductiveInvariant, StepHolds, Present, MatchingFieldsChanged, ConfirmedLinksOf,
                DocumentAsExpected, ItemAsExpected, ItemDeletion, DocumentDeletion
  <2>4. PagesTrue' /\ LinkFitsItem' /\ ConfirmedAsSeen'
    BY <2>1 DEF InductiveInvariant, PagesTrue, LinkFitsItem, ConfirmedAsSeen
  <2>5. NoDanglingLink'
    BY <2>1 DEF InductiveInvariant, NoDanglingLink, Present, Pairs
  <2> QED
    BY <2>1, <2>2, <2>3, <2>4, <2>5 DEF InductiveInvariant, RowsExclusive
<1> QED
  BY <1>1, <1>2

\* Every call starts as CallMoves asks.
LEMMA StartKeeps ==
  ASSUME InductiveInvariant, NEW r \in Requests, Start(r)
  PROVE  InductiveInvariant'
<1>0. /\ items \in [Items -> [state : {"unborn", "present", "gone"}, version : Nat,
                              criteria : Criteria \union {Nobody}]]
      /\ documents \in [Documents -> [status : {"PENDING", "CONFIRMED", "GONE"}, version : Nat]]
  BY DEF InductiveInvariant, TypeOK
<1>1. ASSUME NEW i \in Items, NEW c \in Criteria, UpdateItemRead(r, i, c)
      PROVE  InductiveInvariant'
  <2> DEFINE work == [NoRequest EXCEPT !.at = "flushItem", !.item = i, !.new = c,
                          !.itemVersion = items[i].version, !.criteria = items[i].criteria]
  <2>1. work \in Request /\ work.at = "flushItem" /\ work.item = i /\ work.new = c
          /\ work.itemVersion = items[i].version /\ work.criteria = items[i].criteria
    BY <1>0 DEF NoRequest, Request
  <2>2. Call(r, work) /\ items[i].state # "unborn"
    BY <1>1 DEF UpdateItemRead, Present
  <2> HIDE DEF work
  <2> QED
    BY <2>1, <2>2, CallMoves
<1>2. ASSUME NEW i \in Items, DeleteItemRead(r, i) PROVE InductiveInvariant'
  <2> DEFINE work == [NoRequest EXCEPT !.at = "dropItemLinks", !.item = i]
  <2>1. work \in Request /\ work.at = "dropItemLinks" /\ work.item = i
    BY DEF NoRequest, Request, ItemDeletion
  <2>2. Call(r, work) /\ items[i].state # "unborn"
    BY <1>2 DEF DeleteItemRead, Present
  <2> HIDE DEF work
  <2> QED
    BY <2>1, <2>2, CallMoves
<1>3. ASSUME NEW d \in Documents, NEW i \in Items, CreateLinkPage(r, d, i)
      PROVE  InductiveInvariant'
  <2> DEFINE work == [NoRequest EXCEPT !.at = "lockDocument", !.document = d, !.item = i,
                          !.documentVersion = documents[d].version,
                          !.itemVersion = items[i].version, !.criteria = items[i].criteria]
  <2>1. work \in Request /\ work.at = "lockDocument" /\ work.item = i /\ work.document = d
          /\ work.itemVersion = items[i].version /\ work.criteria = items[i].criteria
    BY <1>0 DEF NoRequest, Request
  <2>2. Call(r, work) /\ items[i].state # "unborn"
    BY <1>3 DEF CreateLinkPage, Present
  <2> HIDE DEF work
  <2> QED
    BY <2>1, <2>2, CallMoves
<1>4. ASSUME NEW d \in Documents, NEW i \in Items, DeleteLinkRead(r, d, i)
      PROVE  InductiveInvariant'
  <2> DEFINE work == [NoRequest EXCEPT !.at = "dropLink", !.document = d, !.item = i]
  <2>1. work \in Request /\ work.at = "dropLink" /\ work.item = i /\ work.document = d
    BY DEF NoRequest, Request
  <2>2. Call(r, work)
    BY <1>4 DEF DeleteLinkRead
  <2> HIDE DEF work
  <2> QED
    BY <2>1, <2>2, CallMoves
<1>5. ASSUME NEW d \in Documents, DeleteDocumentStart(r, d) PROVE InductiveInvariant'
  <2> DEFINE work == [NoRequest EXCEPT !.at = "dropDocumentLinks", !.document = d]
  <2>1. work \in Request /\ work.at = "dropDocumentLinks" /\ work.document = d
    BY DEF NoRequest, Request, DocumentDeletion
  <2>2. Call(r, work)
    BY <1>5 DEF DeleteDocumentStart
  <2> HIDE DEF work
  <2> QED
    BY <2>1, <2>2, CallMoves
<1> QED
  BY <1>1, <1>2, <1>3, <1>4, <1>5 DEF Start

\* Every step keeps the invariant.
LEMMA InvariantStep == InductiveInvariant /\ [Next]_vars => InductiveInvariant'
<1> SUFFICES ASSUME InductiveInvariant, [Next]_vars PROVE InductiveInvariant'
  OBVIOUS
<1>1. CASE \/ \E i \in Items, c \in Criteria : CreateItem(i, c)
           \/ \E d \in Documents : MoveDocument(d)
  BY <1>1, OutsideKeeps
<1>2. ASSUME NEW r \in Requests, Start(r) PROVE InductiveInvariant'
  BY <1>2, StartKeeps
<1>3. ASSUME NEW r \in Requests, Step(r) PROVE InductiveInvariant'
  <2>1. CASE UpdateItemFails(r) \/ LinkRefused(r) \/ DeadlockVictim(r)
    BY <2>1, EndMoves DEF UpdateItemFails, LinkRefused, DeadlockVictim
  <2> QED
    BY <1>3, <2>1, ItemStatements, CommitItemKeeps, UpdateItemOnlyKeeps, DeletionStatements,
       RemovalsKeep, LinkStatements, LinkCommitKeeps DEF Step
<1>4. CASE UNCHANGED vars
  BY <1>4 DEF vars, InductiveInvariant, TypeOK, RowsExclusive, StepHolds, PagesTrue,
              LinkFitsItem, NoDanglingLink, ConfirmedAsSeen, Present, MatchingFieldsChanged,
              ConfirmedLinksOf, DocumentAsExpected, ItemAsExpected
<1> QED
  BY <1>1, <1>2, <1>3, <1>4 DEF Next, Rest

\* The checklist keeps its inductive invariant.
THEOREM ChecklistInvariantHolds == Spec => []InductiveInvariant
<1> QED
  BY InvariantInit, InvariantStep, PTL DEF Spec

\* All variables of the checklist keep their types; items keep their fields.
THEOREM ChecklistTypeCorrect == Spec => []TypeOK
<1>1. InductiveInvariant => TypeOK
  BY DEF InductiveInvariant
<1> QED
  BY <1>1, ChecklistInvariantHolds, PTL

\* update_checklist_item leaves no confirmed link behind on fields it changed,
\* however many updates, links and deletions overlap.
THEOREM LinksFitTheirItems == Spec => []LinkFitsItem
<1>1. InductiveInvariant => LinkFitsItem
  BY DEF InductiveInvariant
<1> QED
  BY <1>1, ChecklistInvariantHolds, PTL

\* Deleting an item or a document leaves no link, not even one confirmed
\* between the statements of the deletion.
THEOREM LinksDieWithTheirEnds == Spec => []NoDanglingLink
<1>1. InductiveInvariant => NoDanglingLink
  BY DEF InductiveInvariant
<1> QED
  BY <1>1, ChecklistInvariantHolds, PTL

\* create_document_link confirms what its client saw, as long as no two item
\* updates shared a version.
THEOREM LinksConfirmedAsSeen == Spec => []ConfirmedAsSeen
<1>1. InductiveInvariant => ConfirmedAsSeen
  BY DEF InductiveInvariant
<1> QED
  BY <1>1, ChecklistInvariantHolds, PTL

-----------------------------------------------------------------------------
\* Deadlocks.

\* A request that is not a deletion locks the document, then the item, then links.
LocksInOrder(r) ==
    LET at == req[r].at IN
    /\ at \in {"idle", "flushItem", "lockDocument", "dropLink"} => held[r] = {}
    /\ at = "lockItem" => held[r] \subseteq Documents
    /\ at \in {"lockLink", "invalidate"} => held[r] \subseteq Documents \union Items

OrderInvariant == \A r \in Requests : LocksInOrder(r)

\* A request that ends, or that moves on in the order, keeps it.
LEMMA OrderMoves ==
  ASSUME InductiveInvariant, OrderInvariant, NEW r \in Requests, NEW work, NEW rows,
         req' = [req EXCEPT ![r] = work], held' = [held EXCEPT ![r] = rows],
         work.at \in {"idle", "flushItem", "lockDocument", "dropLink"} => rows = {},
         work.at = "lockItem" => rows \subseteq Documents,
         work.at \in {"lockLink", "invalidate"} => rows \subseteq Documents \union Items
  PROVE  OrderInvariant'
<1>1. \A s \in Requests : /\ req'[s] = IF s = r THEN work ELSE req[s]
                          /\ held'[s] = IF s = r THEN rows ELSE held[s]
  BY DEF InductiveInvariant, TypeOK
<1> QED
  BY <1>1 DEF OrderInvariant, LocksInOrder

LEMMA OrderStep == InductiveInvariant /\ OrderInvariant /\ [Next]_vars => OrderInvariant'
<1> SUFFICES ASSUME InductiveInvariant, OrderInvariant, [Next]_vars PROVE OrderInvariant'
  OBVIOUS
<1>1. CASE UNCHANGED <<req, held>>
  BY <1>1 DEF OrderInvariant, LocksInOrder
<1>2. ASSUME NEW r \in Requests, End(r) PROVE OrderInvariant'
  BY <1>2, OrderMoves DEF End, NoRequest
<1>3. ASSUME NEW r \in Requests, NEW work, Call(r, work) PROVE OrderInvariant'
  <2>1. held[r] = {} /\ held' = [held EXCEPT ![r] = {}]
    BY <1>3 DEF Call, OrderInvariant, LocksInOrder, InductiveInvariant, TypeOK
  <2>2. {} \subseteq Documents /\ {} \subseteq Documents \union Items
    OBVIOUS
  <2> QED
    BY <1>3, <2>1, <2>2, OrderMoves DEF Call
<1>4. ASSUME NEW r \in Requests, NEW at, Continue(r, at),
             at \notin {"idle", "flushItem", "lockDocument", "dropLink"},
             at = "lockItem" => held[r] \union Wanted(r) \subseteq Documents,
             at \in {"lockLink", "invalidate"} =>
               held[r] \union Wanted(r) \subseteq Documents \union Items
      PROVE  OrderInvariant'
  <2> DEFINE work == [req[r] EXCEPT !.at = at]
             rows == held[r] \union Wanted(r)
  <2>1. req' = [req EXCEPT ![r] = work] /\ held' = [held EXCEPT ![r] = rows]
    BY <1>4 DEF Continue, InductiveInvariant, TypeOK
  <2>2. work.at = at
    BY DEF InductiveInvariant, TypeOK, Request
  <2> HIDE DEF work, rows
  <2>3. /\ at = "lockItem" => rows \subseteq Documents
        /\ at \in {"lockLink", "invalidate"} => rows \subseteq Documents \union Items
    BY <1>4 DEF rows
  <2> QED
    BY <1>4, <2>1, <2>2, <2>3, OrderMoves
<1>5. ASSUME NEW r \in Requests, Start(r) PROVE OrderInvariant'
  BY <1>3, <1>5 DEF Start, UpdateItemRead, DeleteItemRead, CreateLinkPage, DeleteLinkRead,
                    DeleteDocumentStart
<1>6. ASSUME NEW r \in Requests, Step(r) PROVE OrderInvariant'
  <2> StepHolds(r) /\ LocksInOrder(r)
    BY DEF InductiveInvariant, OrderInvariant
  <2>1. CASE \/ CommitItem(r) \/ UpdateItemOnly(r) \/ UpdateItemFails(r) \/ CascadeItem(r)
             \/ LinkCommit(r) \/ LinkRefused(r) \/ DropLink(r) \/ CascadeDocument(r)
             \/ DeadlockVictim(r)
    BY <1>2, <2>1 DEF CommitItem, UpdateItemOnly, UpdateItemFails, CascadeItem, LinkCommit,
                      LinkRefused, DropLink, CascadeDocument, DeadlockVictim
  <2>2. CASE FlushItem(r)
    <3>1. held[r] = {} /\ Wanted(r) = {req[r].item} /\ req[r].item \in Items
      BY <2>2 DEF FlushItem, LocksInOrder, Wanted, StepHolds
    <3> QED BY <1>4, <2>2, <3>1 DEF FlushItem
  <2>3. CASE Invalidate(r) \/ DropItemLinks(r) \/ DropItem(r) \/ DropDocumentLinks(r) \/ DropDocument(r)
    BY <1>4, <2>3 DEF Invalidate, DropItemLinks, DropItem, DropDocumentLinks, DropDocument
  <2>4. CASE LinkLocksDocument(r)
    <3>1. held[r] = {} /\ Wanted(r) = {req[r].document} /\ req[r].document \in Documents
      BY <2>4 DEF LinkLocksDocument, LocksInOrder, Wanted, StepHolds
    <3> QED BY <1>4, <2>4, <3>1 DEF LinkLocksDocument
  <2>5. CASE LinkLocksItem(r)
    <3>1. held[r] \subseteq Documents /\ Wanted(r) = {req[r].item} /\ req[r].item \in Items
      BY <2>5 DEF LinkLocksItem, LocksInOrder, Wanted, StepHolds
    <3> QED BY <1>4, <2>5, <3>1 DEF LinkLocksItem
  <2> QED
    BY <1>6, <2>1, <2>2, <2>3, <2>4, <2>5 DEF Step
<1> QED
  BY <1>1, <1>5, <1>6 DEF Next, vars, CreateItem, MoveDocument, Rest

\* What a request that is not a deletion waits for: documents come first, links last.
Rank(r) ==
    LET at == req[r].at IN
    IF at = "lockDocument" THEN 1 ELSE IF at \in {"flushItem", "lockItem"} THEN 2 ELSE 3

\* Among such requests, each waits for one that waits for something later in the
\* order, and what comes last is held by nobody who waits.
LEMMA WaitsRise ==
  ASSUME InductiveInvariant, OrderInvariant, NEW r \in Requests, NEW s \in Requests,
         req[r].at \notin ItemDeletion \union DocumentDeletion,
         req[s].at \notin ItemDeletion \union DocumentDeletion,
         WaitsFor(r, s), ~Granted(s)
  PROVE  Rank(r) < Rank(s)
<1>1. /\ StepHolds(r) /\ req[r] \in Request /\ req[s] \in Request /\ LocksInOrder(s)
      /\ Wanted(r) \in SUBSET Rows
  BY WantedAreRows DEF InductiveInvariant, TypeOK, OrderInvariant
<1>2. PICK row : row \in held[s] /\ row \in Wanted(r)
  BY DEF WaitsFor, LockedBy
<1>3. req[s].at \in {"lockItem", "lockLink", "invalidate"}
  <2>1. req[s].at \notin {"idle", "flushItem", "lockDocument", "dropLink"}
    BY <1>1, <1>2 DEF LocksInOrder
  <2>2. req[s].at # "commitItem"
    <3>1. CASE req[s].at = "commitItem"
      <4>1. Wanted(s) = {}
        BY <3>1 DEF Wanted
      <4> QED BY <4>1 DEF Granted, LockedBy
    <3> QED BY <3>1
  <2> QED BY <1>1, <2>1, <2>2 DEF Request
<1>4. row \in Documents \union Items /\ (req[s].at = "lockItem" => row \in Documents)
  BY <1>1, <1>2, <1>3 DEF LocksInOrder
<1>5. \/ req[r].at = "lockDocument" /\ row \in Documents
      \/ req[r].at \in {"flushItem", "lockItem"} /\ row \in Items
  <2>1. req[r].at \notin {"idle", "commitItem"}
    <3>1. CASE req[r].at \in {"idle", "commitItem"}
      <4>1. Wanted(r) = {}
        BY <3>1 DEF Wanted
      <4> QED BY <1>2, <4>1
    <3> QED BY <3>1
  <2>2. row \notin Pairs
    BY <1>4, ChecklistAssumption DEF Pairs
  <2>3. CASE req[r].at \in {"lockLink", "dropLink", "invalidate"}
    <3>1. Wanted(r) \subseteq Pairs
      BY <1>1, <2>3 DEF Wanted, LinksOf, ConfirmedLinksOf, StepHolds, Pairs, MatchingFieldsChanged
    <3> QED BY <1>2, <2>2, <3>1
  <2>4. CASE req[r].at = "lockDocument"
    BY <1>1, <1>2, <2>4 DEF Wanted, StepHolds
  <2>5. CASE req[r].at \in {"flushItem", "lockItem"}
    BY <1>1, <1>2, <2>5 DEF Wanted, StepHolds
  <2> QED BY <1>1, <2>1, <2>3, <2>4, <2>5 DEF Request
<1>6. row \in Items => row \notin Documents
  BY ChecklistAssumption
<1> QED
  BY <1>3, <1>4, <1>5, <1>6 DEF Rank

\* Without a deletion no circle closes: in a circle the rank would rise for ever,
\* but it is three at most.
LEMMA OrderAvoidsCircles == InductiveInvariant /\ OrderInvariant => DeadlockNeedsDeletion
<1> SUFFICES ASSUME InductiveInvariant, OrderInvariant PROVE DeadlockNeedsDeletion
  OBVIOUS
<1> DEFINE among == {r \in Requests : req[r].at \notin ItemDeletion \union DocumentDeletion}
<1>1. ASSUME NEW circle \in SUBSET among, NEW next \in Bijection(circle, circle),
             \A r \in circle : WaitsFor(r, next[r]), NEW r \in circle
      PROVE  FALSE
  <2>1. next \in [circle -> circle]
    BY DEF Bijection, Injection
  <2>2. \A s \in circle : ~Granted(s)
    BY <1>1, <2>1 DEF WaitsFor, Granted
  <2>3. \A s \in circle : Rank(s) < Rank(next[s])
    BY <1>1, <2>1, <2>2, WaitsRise
  <2>4. \A s \in circle : Rank(s) \in 1 .. 3
    BY DEF Rank
  <2> HIDE DEF among
  <2>5. next[r] \in circle /\ next[next[r]] \in circle /\ next[next[next[r]]] \in circle
    BY <2>1
  <2>6. /\ Rank(r) < Rank(next[r]) /\ Rank(next[r]) < Rank(next[next[r]])
        /\ Rank(next[next[r]]) < Rank(next[next[next[r]]])
    BY <2>3, <2>5
  <2> QED BY <2>4, <2>5, <2>6
<1>2. InCircle(among) = {}
  BY <1>1 DEF InCircle
<1> QED BY <1>2 DEF DeadlockNeedsDeletion

\* Updates of items, new links and removed links never wait for each other in a
\* circle, since all of them lock document, item and links in this order.
THEOREM DeadlocksTakeDeletions == Spec => []DeadlockNeedsDeletion
<1>1. Init => OrderInvariant
  BY DEF Init, OrderInvariant, LocksInOrder, NoRequest
<1> QED
  BY <1>1, OrderStep, OrderAvoidsCircles, ChecklistInvariantHolds, PTL DEF Spec
=============================================================================
