--------------------------- MODULE MCAgentSessions ---------------------------
(***************************************************************************)
(* Instances of AgentSessions for TLC.                                     *)
(***************************************************************************)
EXTENDS AgentSessions, TLC

RequestSymmetry == Permutations(Requests)
=============================================================================
