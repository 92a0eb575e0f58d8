-------------------------------- MODULE Rules --------------------------------
(***************************************************************************)
(* The rules engine of one replica: domain events, the dispatcher that     *)
(* runs the matching recipes, and the grants their writes need             *)
(* (lib/rules-dispatcher.ts, lib/domain-event.ts, lib/autonomous-grant.ts).*)
(* A recipe's write emits a follow-on event that may set off more recipes; *)
(* three guards are to stop a runaway: no chain of events grows past a     *)
(* depth, no recipe runs twice down a chain, and a budget limits the runs  *)
(* that one original event may set off.  A dispatch awaits every proposal  *)
(* and every write, and dispatches of other events go on in between.       *)
(***************************************************************************)
EXTENDS Integers, Sequences, FiniteSets

CONSTANTS
  Rules,       \* the recipes, numbered in the order they are stored
  Writes,      \* how many issues a run of each writes; 0 when it only informs
  Matching,    \* the sets of recipes that an event may match
  Roots,       \* direct writes, each the origin of a cascade
  MaxDepth,    \* CASCADE_MAX_DEPTH
  MaxFanout,   \* CASCADE_MAX_FANOUT
  FanoutSize,  \* entries the budget's map may hold before it is cleared (4096)
  Restored,    \* the grants at boot: the maxWrites of each recipe's actor, 0 for no grant
  Caps,        \* those an admin declares later
  MaxGrants,   \* bound: times grants are declared
  MaxLoose,    \* bound: runs without an event
  NoRoot

ASSUME RulesAssumption ==
  /\ Rules \subseteq Nat \ {0}
  /\ Writes \in [Rules -> Nat] /\ Matching \subseteq SUBSET Rules
  /\ IsFiniteSet(Roots) /\ NoRoot \notin Roots
  /\ {MaxDepth, MaxFanout, FanoutSize, MaxGrants, MaxLoose} \subseteq Nat
  /\ Restored \in [Rules -> Nat] /\ Caps \subseteq Nat

VARIABLES
  tasks,      \* events emitted, and runs without an event, with what is left of each
  fanout,     \* per-root run counter; 0 when the map has no entry
  grant,      \* GRANTS: the cap each recipe's actor may write up to
  counts,     \* writeCounts
  declared, loose, \* counters of the bounds
  started,    \* history: recipe runs the budget let through, per root
  wiped,      \* history: how often a root's counter was cleared
  landed,     \* history: writes that reached the backend, per recipe
  most        \* history: the largest cap ever granted, per recipe

config == <<grant, declared, most>>
ledger == <<counts, landed>>
budget == <<fanout, started, wiped>>
vars == <<tasks, budget, config, ledger, loose>>

NoRun == [rule |-> 0, left |-> 0, sent |-> FALSE]
Run == [rule : Rules, left : Nat, sent : BOOLEAN]

Task == [root : Roots \cup {NoRoot}, from : Nat, by : Rules \cup {0}, path : Seq(Rules),
         queued : BOOLEAN, todo : SUBSET Rules, run : Run \cup {NoRun}]

RunOf(r) == [rule |-> r, left |-> Writes[r], sent |-> FALSE]

\* makeDomainEvent: nothing of the event has been dispatched.
Event(root, from, by, path) ==
  [root |-> root, from |-> from, by |-> by, path |-> path,
   queued |-> TRUE, todo |-> {}, run |-> NoRun]

\* A direct write is the root of its own cascade.
Direct(root) == Event(root, 0, 0, <<>>)

\* A run without a triggering event: nothing follows from it.
Loose(r) == [root |-> NoRoot, from |-> 0, by |-> 0, path |-> <<>>,
             queued |-> FALSE, todo |-> {}, run |-> RunOf(r)]

Running(i) == tasks[i].run # NoRun

-----------------------------------------------------------------------------
\* The grants are restored from the sealed file; everything else is in memory.
Init ==
  /\ tasks = <<>> /\ fanout = [q \in Roots |-> 0]
  /\ grant = Restored /\ counts = [r \in Rules |-> 0]
  /\ declared = 0 /\ loose = 0
  /\ started = [q \in Roots |-> 0] /\ wiped = [q \in Roots |-> 0]
  /\ landed = [r \in Rules |-> 0] /\ most = grant

\* A request writes an entity (emitEntityWrite).
Emit(root) ==
  /\ \A i \in DOMAIN tasks : tasks[i].root # root
  /\ tasks' = Append(tasks, Direct(root))
  /\ UNCHANGED <<budget, config, ledger, loose>>

\* setImmediate hands the events over in the order they were emitted.  Too deep an event is
\* dropped; otherwise the enabled recipes whose trigger, scope and
\* condition match are come to in turn.
Deliver(i) ==
  /\ tasks[i].queued /\ \A j \in 1..(i - 1) : ~tasks[j].queued
  /\ \E matching \in Matching :
       tasks' = [tasks EXCEPT ![i].queued = FALSE,
                   ![i].todo = IF Len(tasks[i].path) > MaxDepth THEN {} ELSE matching]
  /\ UNCHANGED <<budget, config, ledger, loose>>

\* The dispatch of event i comes to recipe r.
ComesTo(i, r) ==
  /\ ~Running(i)
  /\ r \in tasks[i].todo /\ \A q \in tasks[i].todo : r <= q

Without(i, r) == [tasks EXCEPT ![i].todo = @ \ {r}]

OnPath(i, r) == \E k \in DOMAIN tasks[i].path : tasks[i].path[k] = r

\* The recipe has already run in this chain.
SkipCycle(i, r) ==
  /\ ComesTo(i, r) /\ OnPath(i, r)
  /\ tasks' = Without(i, r)
  /\ UNCHANGED <<budget, config, ledger, loose>>

Overfull == Cardinality({q \in Roots : fanout[q] > 0}) > FanoutSize

\* bumpFanout: a map grown large is cleared wholesale before the count goes up.
bumpFanout(root) ==
  IF Overfull
    THEN /\ fanout' = [q \in Roots |-> IF q = root THEN 1 ELSE 0]
         /\ wiped' = [q \in Roots |-> wiped[q] + 1]
    ELSE /\ fanout' = [fanout EXCEPT ![root] = @ + 1]
         /\ UNCHANGED wiped

\* The budget is spent.
SkipFanout(i, r) ==
  /\ ComesTo(i, r) /\ ~OnPath(i, r)
  /\ bumpFanout(tasks[i].root) /\ fanout'[tasks[i].root] > MaxFanout
  /\ tasks' = Without(i, r)
  /\ UNCHANGED <<started, config, ledger, loose>>

\* Mutation: the count is compared before it goes up.
AdmittedByOldCount(i, r) ==
  /\ ComesTo(i, r) /\ ~OnPath(i, r)
  /\ bumpFanout(tasks[i].root) /\ fanout[tasks[i].root] <= MaxFanout
  /\ started' = [started EXCEPT ![tasks[i].root] = @ + 1]

\* The budget allows the run.
Admitted(i, r) ==
  /\ ComesTo(i, r) /\ ~OnPath(i, r)
  /\ bumpFanout(tasks[i].root) /\ fanout'[tasks[i].root] <= MaxFanout
  /\ started' = [started EXCEPT ![tasks[i].root] = @ + 1]

\* The recipe only informs, is held for an approval chain, or fails before it writes.
RunWithoutWrites(i, r) ==
  /\ Admitted(i, r)
  /\ tasks' = Without(i, r)
  /\ UNCHANGED <<config, ledger, loose>>

RunAutonomously(i, r) ==
  /\ Writes[r] > 0 /\ Admitted(i, r)
  /\ tasks' = [Without(i, r) EXCEPT ![i].run = RunOf(r)]
  /\ UNCHANGED <<config, ledger, loose>>

\* A run without an event: one that was held is approved (ensureRuleExecutor), or the
\* schedule has come to it (runScheduledRecipe).
RunLoose(r) ==
  /\ Writes[r] > 0 /\ loose < MaxLoose /\ loose' = loose + 1
  /\ tasks' = Append(tasks, Loose(r))
  /\ UNCHANGED <<budget, config, ledger>>

-----------------------------------------------------------------------------
\* A run's next write is under way to the guarded broker.
Ready(i) == Running(i) /\ tasks[i].run.left > 0 /\ ~tasks[i].run.sent

\* Mutation: only writes that have returned count against the cap.
AuthorizeUncounted(i) ==
  /\ Ready(i) /\ counts[tasks[i].run.rule] < grant[tasks[i].run.rule]
  /\ tasks' = [tasks EXCEPT ![i].run.sent = TRUE]
  /\ counts' = [counts EXCEPT ![tasks[i].run.rule] = landed[tasks[i].run.rule]]
  /\ UNCHANGED <<budget, config, landed, loose>>

\* authorizeAutonomousWrite: the check and the count, and then the write goes out.
Authorize(i) ==
  LET r == tasks[i].run.rule IN
  /\ Ready(i) /\ counts[r] < grant[r]
  /\ tasks' = [tasks EXCEPT ![i].run.sent = TRUE]
  /\ counts' = [counts EXCEPT ![r] = @ + 1]
  /\ UNCHANGED <<budget, config, landed, loose>>

\* No grant, its cap reached, or one of its other conditions unmet (the kill switch, a stale
\* session, the scope): the run is over, and nothing follows from what it has written.
Deny(i) ==
  /\ Ready(i)
  /\ tasks' = [tasks EXCEPT ![i].run = NoRun]
  /\ UNCHANGED <<budget, config, ledger, loose>>

Land(r) == landed' = [landed EXCEPT ![r] = @ + 1]

NextWrite(run) == [rule |-> run.rule, left |-> run.left - 1, sent |-> FALSE]

\* Mutation: a run goes on to its next write without looking whether there is one.
WriteReturnsBlindly(i) ==
  /\ tasks[i].run.sent
  /\ tasks' = [tasks EXCEPT ![i].run = NextWrite(@)]
  /\ Land(tasks[i].run.rule)
  /\ UNCHANGED <<budget, config, counts, loose>>

\* One write of several has returned.
WriteReturns(i) ==
  /\ tasks[i].run.sent /\ tasks[i].run.left > 1
  /\ tasks' = [tasks EXCEPT ![i].run = NextWrite(@)]
  /\ Land(tasks[i].run.rule)
  /\ UNCHANGED <<budget, config, counts, loose>>

\* Mutation: the follow-on event carries no path.
FollowOnAnew(i) == Event(tasks[i].root, i, tasks[i].run.rule, <<>>)

\* childCausation: one deeper, same root, the recipe appended to the path.
FollowOn(i) ==
  Event(tasks[i].root, i, tasks[i].run.rule, Append(tasks[i].path, tasks[i].run.rule))

\* The last write has returned: a run that an event set off announces what it wrote, but for
\* what the broker returned nothing of.
RunEnds(i) ==
  LET r == tasks[i].run.rule
      after == [tasks EXCEPT ![i].run = NoRun]
  IN  /\ tasks[i].run.sent /\ tasks[i].run.left = 1
      /\ \E n \in 0..Writes[r] :
           /\ tasks[i].root = NoRoot => n = 0
           /\ tasks' = after \o [k \in 1..n |-> FollowOn(i)]
      /\ Land(r)
      /\ UNCHANGED <<budget, config, counts, loose>>

\* The broker reports an error, whether or not the write was made.
WriteFails(i) ==
  /\ tasks[i].run.sent
  /\ tasks' = [tasks EXCEPT ![i].run = NoRun]
  /\ Land(tasks[i].run.rule) \/ UNCHANGED landed
  /\ UNCHANGED <<budget, config, counts, loose>>

\* setAutonomousGrants: the grants are replaced, the counts of their writes stay.
SetGrant(r, cap) ==
  /\ declared < MaxGrants /\ declared' = declared + 1
  /\ grant' = [grant EXCEPT ![r] = cap]
  /\ most' = [most EXCEPT ![r] = IF cap > @ THEN cap ELSE @]
  /\ UNCHANGED <<tasks, budget, ledger, loose>>

Dispatch(i) ==
  \/ Deliver(i)
  \/ \E r \in Rules : \/ SkipCycle(i, r) \/ SkipFanout(i, r) \/ RunWithoutWrites(i, r)
                      \/ RunAutonomously(i, r)
  \/ Authorize(i) \/ Deny(i) \/ WriteReturns(i) \/ RunEnds(i) \/ WriteFails(i)

Next ==
  \/ \E root \in Roots : Emit(root)
  \/ \E i \in DOMAIN tasks : Dispatch(i)
  \/ \E r \in Rules : RunLoose(r)
  \/ \E r \in Rules, cap \in Caps : SetGrant(r, cap)

Spec == Init /\ [][Next]_vars

-----------------------------------------------------------------------------
\* The engine's maps and tasks keep their shapes.  Only a task that has been handed over has
\* recipes to come to or a run, and every write under way is one of a run that expects it.
TypeOK ==
  /\ tasks \in Seq(Task)
  /\ fanout \in [Roots -> Nat] /\ started \in [Roots -> Nat] /\ wiped \in [Roots -> Nat]
  /\ grant \in [Rules -> Nat] /\ counts \in [Rules -> Nat]
  /\ landed \in [Rules -> Nat] /\ most \in [Rules -> Nat]
  /\ declared \in Nat /\ loose \in Nat
  /\ \A i \in DOMAIN tasks :
       /\ tasks[i].queued => tasks[i].todo = {} /\ ~Running(i)
       /\ tasks[i].root = NoRoot => tasks[i].todo = {}
       /\ Running(i) => tasks[i].run.left \in 1..Writes[tasks[i].run.rule]

\* An "emergent A->B->A... chain (or a deep fan) can't run forever" (rules-dispatcher.ts:154):
\* down the events that really set each other off, no recipe runs twice and none runs past
\* the depth.
ChainsEnd ==
  \A i \in DOMAIN tasks : tasks[i].by # 0 =>
    LET e == tasks[i]  p == tasks[e.from] IN
      /\ e.from < i /\ e.root = p.root
      /\ e.path = Append(p.path, e.by)
      /\ ~OnPath(e.from, e.by)
      /\ Len(p.path) <= MaxDepth

\* "Fan-out caps the total rule-runs traceable to one originating event" (:16).  The counters
\* are cleared wholesale once there are many, so it is once more for every time that was done
\* while the cascade ran, however its dispatches interleave.
FanoutIsBudgeted ==
  \A q \in Roots : started[q] <= MaxFanout * (wiped[q] + 1)

\* "Per-process cap on writes under this grant (a runaway/looping guard)"
\* (autonomous-grant.ts:40): whatever runs of a recipe overlap, by events, schedule or
\* approval, and however its grant is replaced meanwhile, its actor writes no more than the
\* largest cap an admin gave it.
WritesWithinCap == \A r \in Rules : landed[r] <= most[r]
=============================================================================
