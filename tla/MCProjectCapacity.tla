-------------------------- MODULE MCProjectCapacity --------------------------
(* Instances of ProjectCapacity for TLC: symmetric requests. *)
EXTENDS ProjectCapacity, TLC

RequestSymmetry == Permutations(Uploads) \union Permutations(Threads)
=============================================================================
