---------------------------- MODULE MCArchiveReads ----------------------------
(* An instance of ArchiveReads for TLC: the first document has two chunks at
   the same distance from the question. *)
EXTENDS ArchiveReads

CONSTANTS d1, d2

MCDocumentOf == [c \in Chunks |-> IF c = 3 THEN d2 ELSE d1]
MCDistance == [c \in Chunks |-> IF c = 3 THEN 1 ELSE 2]
=============================================================================
