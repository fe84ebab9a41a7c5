---------------------------- MODULE ArchiveIntake ----------------------------
(***************************************************************************)
(* Parsing: from the stored file to the parsed snapshot.  Parsing takes no *)
(* row lock and no operation lock.  All parses of a document write the     *)
(* same snapshot path; the unique document_id of the snapshot row lets one *)
(* of them commit.                                                         *)
(***************************************************************************)
EXTENDS ArchiveStore

\* The status from which each of the two entry points starts.
ParseSource(op) == IF op = "PARSE" THEN "UPLOADED" ELSE "PARSE_FAILED"

MayParse(r) == Exists /\ archive.status = ParseSource(req[r].op)

StartsParse(r) == Starts(r, "PARSE") \/ Starts(r, "RETRY_PARSE")

ParseRead(r) ==
    /\ StartsParse(r)
    /\ MayParse(r)
    /\ Goto(r, "parse")
    /\ UNCHANGED <<database, external, history>>

ParseRejected(r) ==
    /\ StartsParse(r)
    /\ ~MayParse(r)
    /\ Return(r)
    /\ UNCHANGED <<database, external, history>>

\* The parser read the original; the snapshot file is written first.
ParseWriteFile(r) ==
    /\ req[r].at = "parse"
    /\ files.original
    /\ files' = [files EXCEPT !.snapshot = TRUE]
    /\ Goto(r, "commitSnapshot")
    /\ UNCHANGED <<database, vectors, history>>

\* The parser raised: the file is missing, unreadable or has no text.  Only
\* the first parse changes the status attribute, so only it writes it.
ParseFailed(r) ==
    /\ req[r].at = "parse"
    /\ RowUnlocked
    /\ archive' = IF Exists /\ req[r].op = "PARSE"
                  THEN [archive EXCEPT !.status = "PARSE_FAILED"] ELSE archive
    /\ Return(r)
    /\ UNCHANGED <<documentStatus, draft, operations, external, history>>

ParseCommit(r) ==
    /\ req[r].at = "commitSnapshot"
    /\ RowUnlocked
    /\ Exists /\ ~archive.snapshot
    /\ archive' = [archive EXCEPT !.snapshot = TRUE, !.status = "PARSED"]
    /\ Return(r)
    /\ UNCHANGED <<documentStatus, draft, operations, external, history>>

\* The insert violated the foreign key or the unique document_id.
ParseRollback(r) ==
    /\ req[r].at = "commitSnapshot"
    /\ RowUnlocked
    /\ ~Exists \/ archive.snapshot
    /\ files' = [files EXCEPT !.snapshot = FALSE]
    /\ Return(r)
    /\ UNCHANGED <<database, vectors, history>>

Parse(r) ==
    \/ ParseRead(r) \/ ParseRejected(r) \/ ParseWriteFile(r)
    \/ ParseFailed(r) \/ ParseCommit(r) \/ ParseRollback(r)
=============================================================================
