----------------------------- MODULE ArchiveReads -----------------------------
(***************************************************************************)
(* Reads of the archive while it changes: the catalogue and its detail     *)
(* page, the draft page, formal retrieval, its diagnosis and questions.  A *)
(* read is a sequence of statements under READ COMMITTED, of calls to      *)
(* Chroma and to the models, each of which sees the documents as they are  *)
(* by then.                                                                *)
(***************************************************************************)
EXTENDS Integers, Sequences, FiniteSets, Functions

CONSTANTS
    Readers,     \* concurrent read requests
    Documents,
    Operations,  \* what the readers ask for in this instance
    Chunks,      \* ids of Final Chunks; ids are ordered
    DocumentOf,  \* the document of each chunk
    Distance,    \* the distance of each chunk to the question, by Chroma
    Scores,      \* scores the reranker may give
    Threshold,   \* archive_reranker_score_threshold
    CandidateK,  \* archive_reranker_candidate_k
    TopK,        \* chunks the client asked for
    MaxVersion,  \* bound: no document changes from this version on
    Nowhere

SearchOperations == {"RETRIEVE", "DIAGNOSE", "ASK"}
PageOperations   == {"LIST", "DETAIL", "DRAFT", "PROCESS_LIST"}
FormalOperations == SearchOperations \union {"LIST", "DETAIL"}

ASSUME ReadsAssumption ==
    /\ Operations \subseteq SearchOperations \union PageOperations
    /\ Chunks \subseteq Int /\ IsFiniteSet(Chunks)
    /\ DocumentOf \in [Chunks -> Documents]
    /\ Distance \in [Chunks -> Int] /\ Scores \subseteq Int /\ Threshold \in Int
    /\ CandidateK \in Nat /\ TopK \in Nat
    /\ MaxVersion \in Nat
    /\ Nowhere \notin Documents

VARIABLES
    documents,  \* the rows of each document, as far as readers look at them
    read        \* what each reader asks for and what it has read

vars == <<documents, read>>

\* fields: the version that last wrote the field values, 0 for none; rows: the
\* version that created their rows; approved: the fields last confirmed.
NewDocument == [status |-> "PENDING", blocked |-> FALSE, version |-> 1,
                fields |-> 1, rows |-> 1, approved |-> 0]

NoRead == [op |-> "NONE", at |-> "idle", target |-> Nowhere,
           hidden |-> {}, confirmed |-> {}, blocked |-> {},
           version |-> [d \in Documents |-> 0], todo |-> {},
           fields |-> [d \in Documents |-> 0], rows |-> 0,
           hits |-> <<>>, score |-> [c \in Chunks |-> 0],
           items |-> <<>>, answer |-> "NONE", citations |-> <<>>]

Init ==
    /\ documents = [d \in Documents |-> NewDocument]
    /\ read = [r \in Readers |-> NoRead]

Exists(d) == documents[d].status # "GONE"
IsConfirmed(d) == documents[d].status = "CONFIRMED"
Confirmed == {d \in Documents : IsConfirmed(d)}
Blocked   == {d \in Documents : documents[d].blocked}

-----------------------------------------------------------------------------
\* What becomes of the documents (ArchiveDrafts, ArchivePublication and
\* ArchiveDeletion have the details).

MayChange(d) == Exists(d) /\ documents[d].version < MaxVersion

WriteDraft(d) ==
    /\ MayChange(d)
    /\ documents' = [documents EXCEPT ![d].status = "PENDING", ![d].version = @ + 1,
                                      ![d].fields = documents[d].version + 1]
    /\ UNCHANGED read

\* A regeneration deletes the field rows and inserts new ones.
ReplaceDraft(d) ==
    /\ MayChange(d) /\ ~IsConfirmed(d)
    /\ documents' = [documents EXCEPT ![d].version = @ + 1,
                                      ![d].fields = documents[d].version + 1,
                                      ![d].rows = documents[d].version + 1]
    /\ UNCHANGED read

\* Confirmation does not ask whether a deletion has begun.
Confirm(d) ==
    /\ MayChange(d) /\ ~IsConfirmed(d)
    /\ documents' = [documents EXCEPT ![d].status = "CONFIRMED", ![d].version = @ + 1,
                                      ![d].approved = documents[d].fields]
    /\ read' = [r \in Readers |-> IF read[r].at = "idle" THEN read[r]
                                  ELSE [read[r] EXCEPT !.confirmed = @ \union {d}]]

Cancel(d) ==
    /\ MayChange(d) /\ IsConfirmed(d)
    /\ documents' = [documents EXCEPT ![d].status = "PENDING", ![d].version = @ + 1]
    /\ UNCHANGED read

\* The blocking DELETE operation, which stays until the deletion succeeds.
BeginDelete(d) ==
    /\ Exists(d) /\ ~documents[d].blocked
    /\ documents' = [documents EXCEPT ![d].blocked = TRUE]
    /\ UNCHANGED read

\* Faulty variant: the operation is removed, the rows are not.
FaultyEndDelete(d) ==
    /\ Exists(d) /\ documents[d].blocked
    /\ documents' = [documents EXCEPT ![d].blocked = FALSE]
    /\ UNCHANGED read

\* The last transaction removes the rows of the document and the operation.
EndDelete(d) ==
    /\ Exists(d) /\ documents[d].blocked
    /\ documents' = [documents EXCEPT ![d].status = "GONE", ![d].blocked = FALSE,
                                      ![d].fields = 0, ![d].rows = 0]
    /\ UNCHANGED read

DocumentStep(d) ==
    \/ WriteDraft(d) \/ ReplaceDraft(d) \/ Confirm(d) \/ Cancel(d)
    \/ BeginDelete(d) \/ EndDelete(d)

-----------------------------------------------------------------------------
\* Steps the reads share.

Move(r, record) == read' = [read EXCEPT ![r] = record] /\ UNCHANGED documents

\* A read begins; hidden and confirmed are history: the documents that are in
\* deletion or deleted already, and those confirmed at some moment of the read.
Ask(r, op, d) ==
    /\ read[r].at = "idle" /\ op \in Operations
    /\ op \in {"DETAIL", "DRAFT"} => Exists(d)
    /\ Move(r, [NoRead EXCEPT
                  !.op = op, !.target = IF op \in {"DETAIL", "DRAFT"} THEN d ELSE Nowhere,
                  !.at = IF op \in SearchOperations \union {"LIST"} THEN "readBlocked"
                                                                  ELSE "readRows",
                  !.hidden = {e \in Documents : ~Exists(e) \/ documents[e].blocked},
                  !.confirmed = Confirmed])

\* An error answer: 404, 409, 422, 500 or 503.
Fail(r) == Move(r, [NoRead EXCEPT !.op = read[r].op, !.at = "answered", !.answer = "ERROR"])

ReadFails(r) == read[r].at \notin {"idle", "answered"} /\ Fail(r)

Close(r) == read[r].at = "answered" /\ Move(r, NoRead)

\* Faulty variant: operations that failed no longer hide their document.
FaultyReadBlocked(r) ==
    /\ read[r].at = "readBlocked"
    /\ read[r].op # "DETAIL"
    /\ Move(r, [read[r] EXCEPT !.at = "readRows"])

\* list_visibility_blocked_document_ids, before the rows.
ReadBlocked(r) ==
    /\ read[r].at = "readBlocked"
    /\ read[r].op # "DETAIL"
    /\ Move(r, [read[r] EXCEPT !.blocked = Blocked, !.at = "readRows"])

-----------------------------------------------------------------------------
\* Pages: a statement for the rows, then one for the fields of each document.

\* The versions of the rows the page shows.
VersionsOf(shown) ==
    [d \in Documents |-> IF d \in shown THEN documents[d].version ELSE 0]

ListRows(r) ==
    LET shown == IF read[r].op = "LIST" THEN Confirmed \ read[r].blocked
                                        ELSE {d \in Documents : Exists(d)} IN
    /\ read[r].at = "readRows" /\ read[r].op \in {"LIST", "PROCESS_LIST"}
    /\ Move(r, [read[r] EXCEPT !.version = VersionsOf(shown), !.todo = shown,
                               !.at = "readFields"])

\* A detail page reads the row first and the operations after it.
DetailRow(r) ==
    /\ read[r].at = "readRows" /\ read[r].op = "DETAIL"
    /\ IsConfirmed(read[r].target)
    /\ Move(r, [read[r] EXCEPT !.version = VersionsOf({read[r].target}), !.at = "readBlocked"])

DetailBlocked(r) ==
    /\ read[r].at = "readBlocked" /\ read[r].op = "DETAIL"
    /\ IF read[r].target \in Blocked
         THEN Fail(r)
         ELSE Move(r, [read[r] EXCEPT !.todo = {read[r].target}, !.at = "readFields"])

DraftRow(r) ==
    /\ read[r].at = "readRows" /\ read[r].op = "DRAFT"
    /\ Exists(read[r].target)
    /\ Move(r, [read[r] EXCEPT !.version = VersionsOf({read[r].target}),
                               !.todo = {read[r].target}, !.at = "readFields"])

\* The document is no longer confirmed, or no longer there: 404.
RowMissing(r) ==
    /\ read[r].at = "readRows"
    /\ \/ read[r].op = "DETAIL" /\ ~IsConfirmed(read[r].target)
       \/ read[r].op = "DRAFT" /\ ~Exists(read[r].target)
    /\ Fail(r)

\* list_archive_field_values for the next document of the page; a draft page
\* needs fields.
ReadFields(r, d) ==
    /\ read[r].at = "readFields" /\ d \in read[r].todo
    /\ IF read[r].op = "DRAFT" /\ documents[d].fields = 0
         THEN Fail(r)
         ELSE Move(r, [read[r] EXCEPT !.fields[d] = documents[d].fields,
                                      !.rows = documents[d].rows, !.todo = @ \ {d}])

\* Faulty variant: the row is refreshed when the fields have been read.
FaultyPageDone(r) ==
    /\ read[r].at = "readFields" /\ read[r].todo = {}
    /\ Move(r, [read[r] EXCEPT !.version = VersionsOf({d \in Documents : @[d] > 0}),
                               !.at = "answered"])

\* A detail page reads the fields again; rows the session has loaded keep the
\* values it loaded.
PageDone(r) ==
    LET d == read[r].target IN
    /\ read[r].at = "readFields" /\ read[r].todo = {}
    /\ Move(r, IF read[r].op = "DETAIL" /\ documents[d].rows # read[r].rows
                 THEN [read[r] EXCEPT !.fields[d] = documents[d].fields, !.at = "answered"]
                 ELSE [read[r] EXCEPT !.at = "answered"])

-----------------------------------------------------------------------------
\* Search: rows, then Chroma, then the reranker, then perhaps the model.

\* version holds the formal documents of the search, as it does of a page.
FormalDocuments(r) == {d \in Documents : read[r].version[d] > 0}

FormalRows(r) ==
    LET formal == Confirmed \ read[r].blocked IN
    /\ read[r].at = "readRows" /\ read[r].op \in SearchOperations
    /\ Move(r, [read[r] EXCEPT
                  !.version = VersionsOf(formal),
                  !.at = IF formal = {} THEN "answered" ELSE "search",
                  !.answer = IF formal = {} THEN "REFUSED" ELSE @])

\* Columns of Chroma's answer.
Columns == UNION {{s \in [1 .. n -> Chunks] : IsInjective(s)} :
                   n \in 0 .. (IF CandidateK < Cardinality(Chunks)
                               THEN CandidateK ELSE Cardinality(Chunks))}

\* The scope is sent to Chroma, but what comes back is not taken to respect it.
Search(r) ==
    /\ read[r].at = "search"
    /\ \E hits \in Columns : Move(r, [read[r] EXCEPT !.hits = hits, !.at = "rerank"])

\* Faulty variant: what Chroma returns is taken to be within the scope.
FaultyValidated(r) == Range(read[r].hits)

\* _build_validated_candidates: chunks outside the formal set are skipped.
Validated(r) == {c \in Range(read[r].hits) : DocumentOf[c] \in FormalDocuments(r)}

\* The elements of s at some of its places, in an order of these places.
Arranged(s, places, before) ==
    LET place == [i \in places |-> 1 + Cardinality({j \in places : <<j, i>> \in before})]
    IN  [p \in 1 .. Cardinality(places) |-> s[CHOOSE i \in places : place[i] = p]]

\* The elements of a sequence that are in a set, as they follow each other.
Kept(s, set) ==
    LET places == {i \in DOMAIN s : s[i] \in set}
    IN  Arranged(s, places, {p \in places \X places : p[1] < p[2]})

Candidates(r) == Kept(read[r].hits, Validated(r))

\* Faulty variant: chunks of one score and distance stay in Chroma's order.
FaultyBefore(score, a, b) ==
    \/ score[a] > score[b]
    \/ score[a] = score[b] /\ Distance[a] < Distance[b]

\* The sort key (-score, distance, chunk id).
Before(score, a, b) ==
    \/ score[a] > score[b]
    \/ score[a] = score[b] /\ Distance[a] < Distance[b]
    \/ score[a] = score[b] /\ Distance[a] = Distance[b] /\ a < b

DenseBefore(a, b) ==
    \/ Distance[a] < Distance[b]
    \/ Distance[a] = Distance[b] /\ a < b

\* The stable sort of a sequence by a strict order on its elements.
StableOrder(s, less) ==
    LET places == DOMAIN s
    IN  {p \in places \X places : \/ <<s[p[1]], s[p[2]]>> \in less
                                  \/ <<s[p[2]], s[p[1]]>> \notin less /\ p[1] < p[2]}

Sorted(s, less) == Arranged(s, DOMAIN s, StableOrder(s, less))

ByScore(score) == {p \in Chunks \X Chunks : Before(score, p[1], p[2])}
ByDistance     == {p \in Chunks \X Chunks : DenseBefore(p[1], p[2])}

Scored(hits, score) == Sorted(hits, ByScore(score))

\* Faulty variant: a score at the threshold is not enough.
FaultyPassesThreshold(score, c) == score[c] > Threshold

PassesThreshold(score, c) == score[c] >= Threshold

Passing(score) == {c \in Chunks : PassesThreshold(score, c)}

\* Faulty variant: the client's limit is not applied after the reranker.
FaultyReranked(hits, score) == Kept(Scored(hits, score), Passing(score))

Reranked(hits, score) ==
    LET passing == Kept(Scored(hits, score), Passing(score))
    IN  SubSeq(passing, 1, IF Len(passing) < TopK THEN Len(passing) ELSE TopK)

\* The rank of a chunk in the two orders a diagnosis reports.
RerankerRank(hits, score, c) == CHOOSE n \in DOMAIN hits : Scored(hits, score)[n] = c
DenseRank(hits, c) == CHOOSE n \in DOMAIN hits : Sorted(hits, ByDistance)[n] = c

\* An empty candidate list is not sent to the model, and answers nothing.
Rerank(r) ==
    /\ read[r].at = "rerank"
    /\ \E some \in [Validated(r) -> Scores] :
         LET score == [c \in Chunks |-> IF c \in DOMAIN some THEN some[c] ELSE 0]
             items == IF read[r].op = "DIAGNOSE" THEN <<>> ELSE Reranked(Candidates(r), score) IN
         Move(r, [read[r] EXCEPT
                    !.score = score, !.items = items,
                    !.at = IF read[r].op = "ASK" /\ items # <<>> THEN "askModel" ELSE "answered",
                    !.answer = IF read[r].op = "ASK" /\ items = <<>> THEN "REFUSED" ELSE @])

\* The JSON a model may return, as far as the parser tells it apart.
Decisions(n) ==
    [wellFormed : BOOLEAN, decision : {"ANSWERED", "REFUSED"}, blank : BOOLEAN,
     citations : {<<>>} \union [{1} -> 0 .. n + 1] \union [{1, 2} -> 0 .. n + 1]]

\* Faulty variant: citation numbers may repeat.
FaultyAccepted(d, n) ==
    /\ d.wellFormed
    /\ d.decision = "REFUSED" => d.citations = <<>>
    /\ d.decision = "ANSWERED" => /\ ~d.blank /\ d.citations # <<>>
                                  /\ Range(d.citations) \subseteq 1 .. n

\* _parse_model_decision
Accepted(d, n) ==
    /\ d.wellFormed
    /\ d.decision = "REFUSED" => d.citations = <<>>
    /\ d.decision = "ANSWERED" => /\ ~d.blank /\ d.citations # <<>>
                                  /\ IsInjective(d.citations)
                                  /\ Range(d.citations) \subseteq 1 .. n

AskModel(r) ==
    LET items == read[r].items IN
    /\ read[r].at = "askModel"
    /\ \E d \in Decisions(Len(items)) :
         IF Accepted(d, Len(items))
           THEN Move(r, [read[r] EXCEPT
                           !.answer = d.decision, !.at = "answered",
                           !.citations = [k \in DOMAIN d.citations |-> items[d.citations[k]]]])
           ELSE Fail(r)

ReadStep(r) ==
    \/ ReadFails(r) \/ ReadBlocked(r)
    \/ ListRows(r) \/ DetailRow(r) \/ DetailBlocked(r) \/ DraftRow(r) \/ RowMissing(r)
    \/ PageDone(r) \/ \E d \in Documents : ReadFields(r, d)
    \/ FormalRows(r) \/ Search(r) \/ Rerank(r) \/ AskModel(r)

Next ==
    \/ \E d \in Documents : DocumentStep(d)
    \/ \E r \in Readers, op \in Operations, d \in Documents : Ask(r, op, d)
    \/ \E r \in Readers : ReadStep(r) \/ Close(r)

Spec == Init /\ [][Next]_vars

-----------------------------------------------------------------------------

Read == [op : {"NONE"} \union SearchOperations \union PageOperations,
         at : {"idle", "readBlocked", "readRows", "readFields", "search", "rerank",
               "askModel", "answered"},
         target : Documents \union {Nowhere},
         hidden : SUBSET Documents, confirmed : SUBSET Documents, blocked : SUBSET Documents,
         version : [Documents -> Nat], todo : SUBSET Documents,
         fields : [Documents -> Nat], rows : Nat,
         hits : Seq(Chunks), score : [Chunks -> Int], items : Seq(Chunks),
         answer : {"NONE", "ERROR", "ANSWERED", "REFUSED"}, citations : Seq(Chunks)]

TypeOK ==
    /\ documents \in [Documents -> [status : {"PENDING", "CONFIRMED", "GONE"},
                                    blocked : BOOLEAN, version : Nat, fields : Nat,
                                    rows : Nat, approved : Nat]]
    /\ read \in [Readers -> Read]
    /\ \A r \in Readers : Len(read[r].items) <= TopK

\* The documents whose fields or text a read has to show.
Shown(r) == {d \in Documents : read[r].fields[d] > 0}
            \union {DocumentOf[c] : c \in Validated(r)}

\* Nothing of a document is shown by the catalogue, retrieval or answers if it
\* was not confirmed at any moment of the read, or was in deletion when the read
\* began (list_visibility_blocked_document_ids, the status filter, and
\* _build_validated_candidates).
OnlyFormalContentShown ==
    \A r \in Readers : read[r].op \in FormalOperations =>
        Shown(r) \subseteq read[r].confirmed \ read[r].hidden

\* A page whose version is still the current one shows the current fields: what
\* a client sends with that version was decided on what it will change
\* (build_archive_draft_read, list_formal_archives).
CurrentPageIsTrue ==
    \A r \in Readers, d \in Documents :
        /\ read[r].op \in PageOperations
        /\ read[r].at \in {"readFields", "answered"} /\ d \notin read[r].todo
        /\ Exists(d) /\ read[r].version[d] = documents[d].version
        => read[r].fields[d] = documents[d].fields

ScoresGiven(r) == read[r].op \in SearchOperations /\ read[r].at \in {"askModel", "answered"}

\* The order of the evidence does not depend on the order of Chroma's answer
\* (the comment in _score_and_order_candidates).
RankingReproducible ==
    \A r \in Readers : ScoresGiven(r) =>
        \A order \in {s \in [DOMAIN Candidates(r) -> Validated(r)] : IsInjective(s)} :
            Reranked(order, read[r].score) = Reranked(Candidates(r), read[r].score)

\* A diagnosis tells which candidates a retrieval returns: those at most at rank
\* top_k whose score reaches the threshold (retrieve_archive_diagnostics).
DiagnosisExplainsRetrieval ==
    \A r \in Readers : ScoresGiven(r) =>
        LET candidates == Candidates(r)  score == read[r].score IN
        /\ {DenseRank(candidates, c) : c \in Validated(r)} = DOMAIN candidates
        /\ Range(Reranked(candidates, score)) =
             {c \in Validated(r) : /\ RerankerRank(candidates, score, c) <= TopK
                                   /\ score[c] >= Threshold}

\* An answer cites at least one piece of evidence, none twice, each retrieved by
\* this question from a formal document; a refusal cites nothing
\* (_parse_model_decision).
AnswersRestOnEvidence ==
    \A r \in Readers :
        LET cited == read[r].citations IN
        /\ read[r].answer = "ANSWERED" =>
             /\ cited # <<>> /\ IsInjective(cited)
             /\ Range(cited) \subseteq Range(read[r].items) \intersect Validated(r)
             /\ \A c \in Range(cited) : /\ read[r].score[c] >= Threshold
                                         /\ DocumentOf[c] \in read[r].confirmed \ read[r].hidden
        /\ read[r].answer = "REFUSED" => cited = <<>>

\* The documents follow the abstract archive: what is said here of their readers
\* holds of any archive that implements it.
Phase(d) ==
    IF ~Exists(d) THEN "GONE"
    ELSE IF documents[d].blocked THEN "HIDDEN"
    ELSE IF IsConfirmed(d) THEN "FORMAL" ELSE "DRAFT"

Archive(d) == INSTANCE FormalArchive WITH phase <- Phase(d), content <- documents[d].approved

DocumentsFollowFormalArchive ==
    /\ \A d \in Documents : Archive(d)!Init
    /\ [][\A d \in Documents :
             Archive(d)!Next \/ UNCHANGED <<Phase(d), documents[d].approved>>]_vars
=============================================================================
