---------------------------- MODULE MCScheduler ----------------------------
(* A job with an interval and one with a cron, on two interchangeable replicas. *)
EXTENDS Scheduler, TLC

Registry ==
  [j \in Jobs |-> IF j = 1 THEN [kind |-> "interval", period |-> 3]
                           ELSE [kind |-> "cron", minutes |-> {2}]]
Interchangeable == Permutations(Replicas)
=============================================================================
