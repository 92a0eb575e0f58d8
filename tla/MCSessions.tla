----------------------------- MODULE MCSessions -----------------------------
(* Replicas are interchangeable, and so are connections. *)
EXTENDS Sessions, TLC

Interchangeable == Permutations(Replicas) \cup Permutations(Connections)
=============================================================================
