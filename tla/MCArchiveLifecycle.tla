-------------------------- MODULE MCArchiveLifecycle --------------------------
(* Instances of the archive lifecycle for TLC: the operations offered and symmetry. *)
EXTENDS ArchiveInvariant, TLC

RequestSymmetry == Permutations(Requests)

OperationsWithoutCancel == AllOperations \ {"CANCEL"}
=============================================================================
