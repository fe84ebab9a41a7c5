---------------------------- MODULE MCChecklists ----------------------------
(* Instances of Checklists for TLC: symmetric requests, documents, fields. *)
EXTENDS Checklists, TLC

ChecklistSymmetry ==
    Permutations(Requests) \union Permutations(Documents) \union Permutations(Criteria)
=============================================================================
