------------------------------- MODULE MCRules -------------------------------
(* A recipe that writes two issues, and one that writes one. *)
EXTENDS Rules, TLC

WritesOf == <<2, 1>>
Granted == <<2, 1>>
Interchangeable == Permutations(Roots)
=============================================================================
