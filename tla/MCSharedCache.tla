--------------------------- MODULE MCSharedCache ---------------------------
(* Replicas and callers are interchangeable. *)
EXTENDS SharedCache, TLC

Interchangeable == Permutations(Replicas) \cup Permutations(Callers)
=============================================================================
