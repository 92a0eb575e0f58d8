---------------------------- MODULE MCAuditFleet ----------------------------
(* Replicas and events are interchangeable, as far as safety goes. *)
EXTENDS AuditFleet, TLC

Interchangeable == Permutations(Replicas) \cup Permutations(Events)
=============================================================================
