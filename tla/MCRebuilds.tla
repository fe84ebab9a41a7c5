------------------------------ MODULE MCRebuilds ------------------------------
(* The two rebuild scripts for TLC.  They share no variable, so their          *)
(* interleavings add nothing: one stays where it began while the other runs.   *)
EXTENDS PolicyRebuild, FormalRebuild, TLC

RebuildInit == PolicyInit /\ FormalInit

RebuildNext ==
    \/ PolicyNext /\ FormalInit /\ UNCHANGED formalVars
    \/ FormalNext /\ PolicyInit /\ UNCHANGED policyVars

RebuildSpec == RebuildInit /\ [][RebuildNext]_<<policyVars, formalVars>>

Interchangeable == Permutations(Archives) \union Permutations(Documents)
=============================================================================
