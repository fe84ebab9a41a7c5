----------------------------- MODULE MCLegacyChat -----------------------------
(* An instance of LegacyChat for TLC.  No definition tells one request or one
   question from another, and the runs check invariants only. *)
EXTENDS LegacyChat, TLC

CONSTANTS w1, w2, c1, c2

Symmetry == Permutations({w1, w2}) \union Permutations({c1, c2})
=============================================================================
