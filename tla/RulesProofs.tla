----------------------------- MODULE RulesProofs -----------------------------
(***************************************************************************)
(* Proofs about Rules, for any recipes, bounds, grants and direct writes.  *)
(* A chain of events is broken off because whatever runs was compared with *)
(* the path it continues; the budget is kept because no counter goes down  *)
(* but when all are cleared; the caps are kept because writes under way    *)
(* have been counted before they were sent.                                *)
(***************************************************************************)
EXTENDS Rules, FiniteSetTheorems, TLAPS

\* What is to come and what runs may continue the task's path.
Good(t) ==
  /\ t.queued => t.todo = {} /\ t.run = NoRun /\ t.root # NoRoot
  /\ t.root = NoRoot => t.todo = {}
  /\ t.todo # {} => Len(t.path) <= MaxDepth
  /\ t.run # NoRun =>
       /\ t.run.left \in 1..Writes[t.run.rule]
       /\ t.root # NoRoot =>
            /\ Len(t.path) <= MaxDepth
            /\ \A k \in DOMAIN t.path : t.path[k] # t.run.rule

\* Task e was set off by a run of recipe e.by in task p.
Follows(e, p) ==
  /\ e.root = p.root
  /\ e.path = Append(p.path, e.by)
  /\ \A k \in DOMAIN p.path : p.path[k] # e.by
  /\ Len(p.path) <= MaxDepth

SoundTasks(ts) ==
  /\ ts \in Seq(Task)
  /\ \A i \in DOMAIN ts :
       /\ Good(ts[i])
       /\ ts[i].by # 0 => ts[i].from \in 1..(i - 1) /\ Follows(ts[i], ts[ts[i].from])

TasksSound == SoundTasks(tasks)

CountersType ==
  /\ fanout \in [Roots -> Nat] /\ started \in [Roots -> Nat] /\ wiped \in [Roots -> Nat]
  /\ grant \in [Rules -> Nat] /\ counts \in [Rules -> Nat]
  /\ landed \in [Rules -> Nat] /\ most \in [Rules -> Nat]
  /\ declared \in Nat /\ loose \in Nat

\* A root's runs since the counters were last cleared are at most its counter.
BudgetSound ==
  \A q \in Roots : /\ started[q] <= MaxFanout * wiped[q] + fanout[q]
                   /\ started[q] <= MaxFanout * wiped[q] + MaxFanout

\* The writes of a recipe that are under way.
UnderWay(r) == {i \in DOMAIN tasks : tasks[i].run.sent /\ tasks[i].run.rule = r}

WritesSound ==
  \A r \in Rules : /\ IsFiniteSet(UnderWay(r))
                   /\ landed[r] + Cardinality(UnderWay(r)) <= counts[r]
                   /\ counts[r] <= most[r] /\ grant[r] <= most[r]

IInv == TasksSound /\ CountersType /\ BudgetSound /\ WritesSound

USE RulesAssumption

LEMMA Bounds == MaxDepth \in Nat /\ MaxFanout \in Nat /\ \A r \in Rules : Writes[r] \in Nat /\ r # 0
OBVIOUS

-----------------------------------------------------------------------------
(* How the tasks may change. *)

LEMMA Put ==
  ASSUME NEW ts \in Seq(Task), NEW i \in DOMAIN ts, NEW t \in Task
  PROVE  LET us == [ts EXCEPT ![i] = t] IN
           /\ us \in Seq(Task) /\ DOMAIN us = DOMAIN ts
           /\ us[i] = t /\ \A j \in DOMAIN ts : j # i => us[j] = ts[j]
OBVIOUS

\* A task goes on without changing where it comes from.
LEMMA PutKeeps ==
  ASSUME NEW ts, SoundTasks(ts), NEW i \in DOMAIN ts, NEW t \in Task, Good(t),
         t.root = ts[i].root, t.from = ts[i].from, t.by = ts[i].by, t.path = ts[i].path
  PROVE  SoundTasks([ts EXCEPT ![i] = t])
<1> DEFINE us == [ts EXCEPT ![i] = t]
<1>1. /\ us \in Seq(Task) /\ DOMAIN us = DOMAIN ts /\ DOMAIN ts = 1..Len(ts)
      /\ us[i] = t /\ \A j \in DOMAIN ts : j # i => us[j] = ts[j]
  BY Put DEF SoundTasks
<1> HIDE DEF us
<1>2. \A j \in DOMAIN ts : /\ us[j].root = ts[j].root /\ us[j].from = ts[j].from
                           /\ us[j].by = ts[j].by /\ us[j].path = ts[j].path
                           /\ Good(us[j])
  BY <1>1 DEF SoundTasks
<1>3. ASSUME NEW j \in DOMAIN ts, ts[j].by # 0
      PROVE  ts[j].from \in 1..(j - 1) /\ Follows(us[j], us[ts[j].from])
  <2>1. ts[j].from \in 1..(j - 1) /\ Follows(ts[j], ts[ts[j].from])
    BY <1>3 DEF SoundTasks
  <2>2. ts[j].from \in DOMAIN ts
    BY <1>1, <2>1
  <2>. QED BY <1>2, <2>1, <2>2 DEF Follows
<1>4. \A j \in DOMAIN ts : us[j].by # 0 => us[j].from \in 1..(j - 1) /\ Follows(us[j], us[us[j].from])
  BY <1>2, <1>3
<1>5. SoundTasks(us)
  BY <1>1, <1>2, <1>4 DEF SoundTasks
<1>. QED BY <1>5 DEF us

\* Tasks are added, each of them one that nothing led to or one that follows from a task.
LEMMA AddKeeps ==
  ASSUME NEW ts, SoundTasks(ts), NEW more \in Seq(Task),
         \A k \in DOMAIN more : Good(more[k]),
         \A k \in DOMAIN more : more[k].by # 0 =>
           more[k].from \in DOMAIN ts /\ Follows(more[k], ts[more[k].from])
  PROVE  SoundTasks(ts \o more)
<1> DEFINE us == ts \o more
<1>1. /\ us \in Seq(Task) /\ DOMAIN ts = 1..Len(ts) /\ Len(ts) \in Nat
      /\ DOMAIN us = 1..(Len(ts) + Len(more)) /\ DOMAIN more = 1..Len(more) /\ Len(more) \in Nat
      /\ \A j \in DOMAIN ts : us[j] = ts[j]
      /\ \A j \in DOMAIN us \ DOMAIN ts :
           j - Len(ts) \in DOMAIN more /\ us[j] = more[j - Len(ts)]
  BY DEF SoundTasks
<1> HIDE DEF us
<1>2. ASSUME NEW j \in DOMAIN us
      PROVE  /\ Good(us[j])
             /\ us[j].by # 0 => us[j].from \in 1..(j - 1) /\ Follows(us[j], us[us[j].from])
  <2>1. CASE j \in DOMAIN ts
    <3>1. us[j] = ts[j] /\ Good(ts[j])
      BY <1>1, <2>1 DEF SoundTasks
    <3>2. ASSUME ts[j].by # 0
          PROVE  ts[j].from \in 1..(j - 1) /\ Follows(ts[j], us[ts[j].from])
      <4>1. ts[j].from \in 1..(j - 1) /\ Follows(ts[j], ts[ts[j].from])
        BY <2>1, <3>2 DEF SoundTasks
      <4>2. ts[j].from \in DOMAIN ts
        BY <1>1, <2>1, <4>1
      <4>. QED BY <1>1, <4>1, <4>2
    <3>. QED BY <3>1, <3>2
  <2>2. CASE j \notin DOMAIN ts
    <3>1. PICK k \in DOMAIN more : us[j] = more[k]
      BY <1>1, <2>2
    <3>2. ASSUME more[k].by # 0
          PROVE  more[k].from \in 1..(j - 1) /\ Follows(more[k], us[more[k].from])
      <4>1. more[k].from \in DOMAIN ts /\ Follows(more[k], ts[more[k].from])
        BY <3>2
      <4>. QED BY <1>1, <2>2, <4>1, SMTT(30)
    <3>. QED BY <3>1, <3>2
  <2>. QED BY <2>1, <2>2
<1>3. SoundTasks(us)
  BY <1>1, <1>2 DEF SoundTasks
<1>. QED BY <1>3 DEF us

\* The writes under way only depend on the runs.
LEMMA SameWrites ==
  ASSUME tasks \in Seq(Task), tasks' \in Seq(Task), DOMAIN tasks \subseteq DOMAIN tasks',
         \A j \in DOMAIN tasks : tasks'[j].run = tasks[j].run \/ ~(tasks'[j].run.sent \/ tasks[j].run.sent),
         \A j \in DOMAIN tasks' \ DOMAIN tasks : ~tasks'[j].run.sent
  PROVE  \A r \in Rules : UnderWay(r)' = UnderWay(r)
BY DEF UnderWay

LEMMA SameWritesSound ==
  ASSUME WritesSound, \A r \in Rules : UnderWay(r)' = UnderWay(r), UNCHANGED <<config, ledger>>
  PROVE  WritesSound'
BY DEF WritesSound, config, ledger

\* What an update of a task's run leaves.
LEMMA NewRun ==
  ASSUME NEW x \in Task, NEW u \in Run \cup {NoRun}
  PROVE  LET y == [x EXCEPT !.run = u] IN
           /\ y \in Task /\ y.root = x.root /\ y.from = x.from /\ y.by = x.by
           /\ y.path = x.path /\ y.run = u /\ y.queued = x.queued /\ y.todo = x.todo
BY DEF Task

\* A write that is sent stays the run's next write.
LEMMA SentRun ==
  ASSUME NEW u \in Run
  PROVE  LET y == [u EXCEPT !.sent = TRUE] IN
           y \in Run /\ y.rule = u.rule /\ y.left = u.left
BY DEF Run

\* Where a dispatch comes to a recipe, there is a root, and the path may grow.
LEMMA AtRecipe ==
  ASSUME TasksSound, NEW i \in DOMAIN tasks, NEW r \in Rules, ComesTo(i, r)
  PROVE  /\ tasks[i] \in Task /\ Good(tasks[i]) /\ tasks[i].root \in Roots
         /\ tasks[i].run = NoRun /\ ~tasks[i].queued /\ Len(tasks[i].path) <= MaxDepth
<1>1. tasks[i] \in Task /\ Good(tasks[i]) /\ tasks[i].run = NoRun /\ tasks[i].todo # {}
  BY DEF TasksSound, SoundTasks, ComesTo, Running
<1>2. ~tasks[i].queued /\ tasks[i].root # NoRoot /\ Len(tasks[i].path) <= MaxDepth
  BY <1>1 DEF Good
<1>. QED BY <1>1, <1>2 DEF Task

\* A write under way, or to come, is one of a recipe's run.
LEMMA AtRun ==
  ASSUME TasksSound, NEW i \in DOMAIN tasks, Ready(i) \/ tasks[i].run.sent
  PROVE  /\ tasks[i] \in Task /\ Good(tasks[i]) /\ tasks[i].run \in Run /\ tasks[i].run # NoRun
         /\ tasks[i].run.rule \in Rules
         /\ tasks[i].run.left \in 1..Writes[tasks[i].run.rule] /\ ~tasks[i].queued
<1>1. tasks[i] \in Task /\ Good(tasks[i])
  BY DEF TasksSound, SoundTasks
<1>2. tasks[i].run # NoRun
  BY DEF Ready, Running, NoRun
<1>3. tasks[i].run \in Run /\ tasks[i].run.rule \in Rules
  BY <1>1, <1>2 DEF Task, Run
<1>. QED BY <1>1, <1>2, <1>3 DEF Good

\* What a run announces: events that are all the same in what follows.
LEMMA FollowOns ==
  ASSUME TasksSound, NEW i \in DOMAIN tasks, tasks[i].run.sent, NEW n \in Nat
  PROVE  LET more == [k \in 1..n |-> FollowOn(i)] IN
           /\ FollowOn(i) \in Task /\ FollowOn(i).run = NoRun /\ FollowOn(i).from = i
           /\ more \in Seq(Task) /\ \A k \in DOMAIN more : more[k] = FollowOn(i)
<1>1. tasks[i] \in Task /\ tasks[i].run.rule \in Rules /\ Writes[tasks[i].run.rule] \in Nat
  BY AtRun, Bounds
<1>2. i \in Nat
  BY DEF TasksSound, SoundTasks
<1> DEFINE e == FollowOn(i)
<1>3. e \in Task /\ e.run = NoRun /\ e.from = i
  BY <1>1, <1>2 DEF FollowOn, Event, Task
<1> HIDE DEF e
<1>4. [k \in 1..n |-> e] \in Seq(Task) /\ \A k \in 1..n : [j \in 1..n |-> e][k] = e
  BY <1>3
<1>. QED BY <1>3, <1>4 DEF e

LEMMA Joined ==
  ASSUME NEW a \in Seq(Task), NEW b \in Seq(Task)
  PROVE  /\ DOMAIN a \subseteq DOMAIN (a \o b) /\ \A j \in DOMAIN a : (a \o b)[j] = a[j]
         /\ \A j \in DOMAIN (a \o b) \ DOMAIN a : \E k \in DOMAIN b : (a \o b)[j] = b[k]
<1>1. \A j \in DOMAIN (a \o b) \ DOMAIN a :
        j - Len(a) \in DOMAIN b /\ (a \o b)[j] = b[j - Len(a)]
  OBVIOUS
<1>. QED BY <1>1

LEMMA OneMore ==
  ASSUME tasks \in Seq(Task), NEW t \in Task
  PROVE  <<t>> \in Seq(Task) /\ DOMAIN <<t>> = {1} /\ <<t>>[1] = t
         /\ Append(tasks, t) = tasks \o <<t>>
BY SMTT(30)

\* A run goes on or is over.
LEMMA RunKeeps ==
  ASSUME TasksSound, NEW i \in DOMAIN tasks, tasks[i].run # NoRun, NEW u \in Run \cup {NoRun},
         u # NoRun => u.rule = tasks[i].run.rule /\ u.left \in 1..Writes[u.rule]
  PROVE  SoundTasks([tasks EXCEPT ![i] = [tasks[i] EXCEPT !.run = u]])
<1>1. tasks[i] \in Task /\ Good(tasks[i])
  BY DEF TasksSound, SoundTasks
<1> DEFINE y == [tasks[i] EXCEPT !.run = u]
<1>2. /\ y \in Task /\ y.root = tasks[i].root /\ y.from = tasks[i].from /\ y.by = tasks[i].by
      /\ y.path = tasks[i].path /\ y.run = u /\ y.queued = tasks[i].queued
      /\ y.todo = tasks[i].todo
  BY <1>1, NewRun
<1> HIDE DEF y
<1>3. Good(y)
  BY <1>1, <1>2 DEF Good
<1>4. SoundTasks([tasks EXCEPT ![i] = y])
  BY <1>2, <1>3, PutKeeps DEF TasksSound
<1>. QED BY <1>4 DEF y

\* The recipe is done with.
LEMMA SkipKeeps ==
  ASSUME TasksSound, NEW i \in DOMAIN tasks, NEW r \in Rules, ComesTo(i, r),
         tasks' = Without(i, r)
  PROVE  TasksSound'
<1> DEFINE y == [tasks[i] EXCEPT !.todo = @ \ {r}]
<1>1. /\ tasks[i] \in Task /\ Good(tasks[i]) /\ ~tasks[i].queued
  BY AtRecipe
<1>2. /\ y \in Task /\ y.root = tasks[i].root /\ y.from = tasks[i].from /\ y.by = tasks[i].by
      /\ y.path = tasks[i].path /\ y.run = tasks[i].run /\ ~y.queued
      /\ y.todo \subseteq tasks[i].todo
  BY <1>1 DEF Task
<1>3. tasks' = [tasks EXCEPT ![i] = y]
  BY DEF Without, TasksSound
<1> HIDE DEF y
<1>4. Good(y)
  BY <1>1, <1>2 DEF Good
<1>5. SoundTasks([tasks EXCEPT ![i] = y])
  BY <1>2, <1>4, PutKeeps DEF TasksSound
<1>. QED BY <1>3, <1>5 DEF TasksSound

LEMMA InitSound == Init => IInv
<1> SUFFICES ASSUME Init PROVE IInv
  OBVIOUS
<1>1. TasksSound
  <2>1. tasks \in Seq(Task) /\ DOMAIN tasks = {}
    BY DEF Init
  <2>. QED BY <2>1 DEF TasksSound, SoundTasks
<1>2. CountersType
  BY DEF Init, CountersType
<1>3. BudgetSound
  BY DEF Init, BudgetSound
<1>4. \A r \in Rules : UnderWay(r) = {}
  BY DEF Init, UnderWay
<1>5. IsFiniteSet({}) /\ Cardinality({}) = 0
  BY FS_EmptySet
<1>6. ASSUME NEW r \in Rules
      PROVE  /\ IsFiniteSet(UnderWay(r)) /\ Cardinality(UnderWay(r)) = 0
             /\ landed[r] = 0 /\ counts[r] = 0 /\ most[r] = grant[r] /\ grant[r] \in Nat
  BY <1>4, <1>5 DEF Init
<1>7. WritesSound
  BY <1>6 DEF WritesSound
<1>. QED BY <1>1, <1>2, <1>3, <1>7 DEF IInv

\* Every step keeps what the tasks may do next, and where they come from.
LEMMA NextTasks == TasksSound /\ [Next]_vars => TasksSound'
<1> SUFFICES ASSUME TasksSound, [Next]_vars PROVE TasksSound'
  OBVIOUS
<1>0. tasks \in Seq(Task)
  BY DEF TasksSound, SoundTasks
<1>1. ASSUME NEW root \in Roots, Emit(root) PROVE TasksSound'
  <2>1. Direct(root) \in Task /\ Good(Direct(root)) /\ Direct(root).by = 0
    BY DEF Direct, Event, Task, Good
  <2> DEFINE more == <<Direct(root)>>
  <2>2. more \in Seq(Task) /\ DOMAIN more = {1} /\ more[1] = Direct(root) /\ tasks' = tasks \o more
    BY <1>0, <1>1, <2>1, OneMore DEF Emit
  <2> HIDE DEF more
  <2>3. /\ \A k \in DOMAIN more : Good(more[k])
        /\ \A k \in DOMAIN more : more[k].by # 0 =>
             more[k].from \in DOMAIN tasks /\ Follows(more[k], tasks[more[k].from])
    BY <2>1, <2>2
  <2>. QED BY <2>2, <2>3, AddKeeps DEF TasksSound
<1>2. ASSUME NEW r \in Rules, RunLoose(r) PROVE TasksSound'
  <2>1. /\ Loose(r) \in Task /\ Loose(r).by = 0 /\ Good(Loose(r))
    BY <1>2 DEF Loose, Task, Run, RunOf, RunLoose, Good
  <2> DEFINE more == <<Loose(r)>>
  <2>2. more \in Seq(Task) /\ DOMAIN more = {1} /\ more[1] = Loose(r) /\ tasks' = tasks \o more
    BY <1>0, <1>2, <2>1, OneMore DEF RunLoose
  <2> HIDE DEF more
  <2>3. /\ \A k \in DOMAIN more : Good(more[k])
        /\ \A k \in DOMAIN more : more[k].by # 0 =>
             more[k].from \in DOMAIN tasks /\ Follows(more[k], tasks[more[k].from])
    BY <2>1, <2>2
  <2>. QED BY <2>2, <2>3, AddKeeps DEF TasksSound
<1>3. ASSUME NEW r \in Rules, NEW cap \in Caps, SetGrant(r, cap) PROVE TasksSound'
  BY <1>3 DEF SetGrant, TasksSound
<1>4. ASSUME NEW i \in DOMAIN tasks, Dispatch(i) PROVE TasksSound'
  <2>0. tasks[i] \in Task /\ Good(tasks[i])
    BY DEF TasksSound, SoundTasks
  <2>1. CASE Deliver(i)
    <3>1. PICK m \in SUBSET Rules :
            tasks' = [tasks EXCEPT ![i].queued = FALSE,
                        ![i].todo = IF Len(tasks[i].path) > MaxDepth THEN {} ELSE m]
      BY <2>1 DEF Deliver
    <3>2. PICK d \in SUBSET Rules :
            /\ tasks' = [tasks EXCEPT ![i].queued = FALSE, ![i].todo = d]
            /\ d # {} => Len(tasks[i].path) <= MaxDepth
      <4>1. CASE Len(tasks[i].path) > MaxDepth
        BY <3>1, <4>1
      <4>2. CASE ~(Len(tasks[i].path) > MaxDepth)
        <5>1. Len(tasks[i].path) \in Nat
          BY <2>0 DEF Task
        <5>2. tasks' = [tasks EXCEPT ![i].queued = FALSE, ![i].todo = m]
          BY <3>1, <4>2
        <5>3. Len(tasks[i].path) <= MaxDepth
          BY <4>2, <5>1, Bounds
        <5>. QED BY <5>2, <5>3
      <4>. QED BY <4>1, <4>2
    <3> DEFINE y == [tasks[i] EXCEPT !.queued = FALSE, !.todo = d]
    <3>3. /\ y \in Task /\ y.root = tasks[i].root /\ y.from = tasks[i].from /\ y.by = tasks[i].by
          /\ y.path = tasks[i].path /\ y.run = tasks[i].run /\ ~y.queued /\ y.todo = d
      BY <2>0 DEF Task
    <3>4. tasks' = [tasks EXCEPT ![i] = y]
      BY <1>0, <3>2
    <3> HIDE DEF y
    <3>5. tasks[i].run = NoRun
      BY <2>0, <2>1 DEF Deliver, Good
    <3>6. d # {} => tasks[i].root # NoRoot
      BY <2>0, <2>1 DEF Deliver, Good
    <3>7. Good(y)
      BY <3>2, <3>3, <3>5, <3>6 DEF Good
    <3>. QED BY <3>3, <3>4, <3>7, PutKeeps DEF TasksSound
  <2>2. ASSUME NEW r \in Rules, ComesTo(i, r), tasks' = Without(i, r) PROVE TasksSound'
    BY <2>2, SkipKeeps
  <2>3. ASSUME NEW r \in Rules, RunAutonomously(i, r) PROVE TasksSound'
    <3>1. /\ tasks[i].root \in Roots /\ tasks[i].run = NoRun /\ ~tasks[i].queued
          /\ Len(tasks[i].path) <= MaxDepth /\ ~OnPath(i, r) /\ Writes[r] > 0
      BY <2>3, AtRecipe DEF RunAutonomously, Admitted
    <3> DEFINE x == [tasks[i] EXCEPT !.todo = @ \ {r}]
               y == [x EXCEPT !.run = RunOf(r)]
    <3>2. RunOf(r) \in Run /\ RunOf(r).rule = r /\ RunOf(r).left \in 1..Writes[r]
      BY <3>1 DEF RunOf, Run
    <3>3. /\ x \in Task /\ x.root = tasks[i].root /\ x.from = tasks[i].from /\ x.by = tasks[i].by
          /\ x.path = tasks[i].path /\ ~x.queued
      BY <2>0, <3>1 DEF Task
    <3>4. tasks' = [tasks EXCEPT ![i] = y]
      BY <1>0, <2>3 DEF RunAutonomously, Without
    <3> HIDE DEF x
    <3>5. /\ y \in Task /\ y.root = x.root /\ y.from = x.from /\ y.by = x.by
          /\ y.path = x.path /\ ~y.queued /\ y.run = RunOf(r)
      BY <3>2, <3>3, NewRun
    <3> HIDE DEF y
    <3>6. y.root # NoRoot
      BY <3>1, <3>3, <3>5
    <3>7. Good(y)
      BY <3>1, <3>2, <3>3, <3>5, <3>6 DEF Good, OnPath
    <3>. QED BY <3>3, <3>4, <3>5, <3>7, PutKeeps DEF TasksSound
  <2>4. CASE Authorize(i)
    <3>0. tasks[i].run \in Run
      BY <2>4, AtRun DEF Authorize
    <3>1. [tasks[i].run EXCEPT !.sent = TRUE] \in Run
          /\ [tasks[i].run EXCEPT !.sent = TRUE].rule = tasks[i].run.rule
          /\ [tasks[i].run EXCEPT !.sent = TRUE].left = tasks[i].run.left
      BY <3>0, SentRun
    <3>2. tasks' = [tasks EXCEPT ![i] = [tasks[i] EXCEPT !.run = [tasks[i].run EXCEPT !.sent = TRUE]]]
      BY <1>0, <2>4 DEF Authorize
    <3> DEFINE u == [tasks[i].run EXCEPT !.sent = TRUE]
    <3>3. /\ tasks[i].run # NoRun /\ tasks[i].run.left \in 1..Writes[tasks[i].run.rule]
      BY <2>4, AtRun DEF Authorize
    <3> HIDE DEF u
    <3>4. SoundTasks([tasks EXCEPT ![i] = [tasks[i] EXCEPT !.run = u]])
      BY <3>1, <3>3, RunKeeps DEF u
    <3>. QED BY <3>2, <3>4 DEF TasksSound, u
  <2>5. CASE Deny(i) \/ WriteFails(i)
    <3>1. tasks' = [tasks EXCEPT ![i] = [tasks[i] EXCEPT !.run = NoRun]]
      BY <1>0, <2>5 DEF Deny, WriteFails
    <3>. QED BY <2>5, <3>1, AtRun, RunKeeps DEF Deny, WriteFails, TasksSound
  <2>6. CASE WriteReturns(i)
    <3>1. /\ tasks[i].run \in Run /\ tasks[i].run # NoRun
          /\ tasks[i].run.left \in 1..Writes[tasks[i].run.rule] /\ tasks[i].run.left > 1
          /\ tasks[i].run.rule \in Rules
      BY <2>6, AtRun DEF WriteReturns
    <3>0. tasks[i].run.left - 1 \in 1..Writes[tasks[i].run.rule]
      <4>1. tasks[i].run.left \in Nat /\ Writes[tasks[i].run.rule] \in Nat
        BY <3>1, Bounds DEF Run
      <4>. QED BY <3>1, <4>1
    <3>2. /\ NextWrite(tasks[i].run) \in Run /\ NextWrite(tasks[i].run).rule = tasks[i].run.rule
          /\ NextWrite(tasks[i].run).left \in 1..Writes[tasks[i].run.rule]
      BY <3>0, <3>1 DEF NextWrite, Run
    <3>3. tasks' = [tasks EXCEPT ![i] = [tasks[i] EXCEPT !.run = NextWrite(tasks[i].run)]]
      BY <1>0, <2>6 DEF WriteReturns
    <3>. QED BY <3>1, <3>2, <3>3, RunKeeps DEF TasksSound
  <2>7. CASE RunEnds(i)
    <3>1. /\ tasks[i].run \in Run /\ tasks[i].run # NoRun /\ tasks[i].run.rule \in Rules
      BY <2>7, AtRun DEF RunEnds
    <3> DEFINE after == [tasks EXCEPT ![i] = [tasks[i] EXCEPT !.run = NoRun]]
               r == tasks[i].run.rule
    <3>2. after = [tasks EXCEPT ![i].run = NoRun]
      BY <1>0
    <3>5. PICK n \in 0..Writes[r] :
            /\ tasks[i].root = NoRoot => n = 0
            /\ tasks' = after \o [k \in 1..n |-> FollowOn(i)]
      BY <2>7, <3>2 DEF RunEnds
    <3>6. n \in Nat
      BY <3>1, <3>5, Bounds
    <3> DEFINE more == [k \in 1..n |-> FollowOn(i)]
    <3>7. SoundTasks(after) /\ DOMAIN after = DOMAIN tasks
      BY <3>1, RunKeeps DEF TasksSound
    <3>3. CASE tasks[i].root = NoRoot
      <4>1. more = <<>>
        BY <3>3, <3>5
      <4>2. tasks' = after
        <5>1. after \in Seq(Task) /\ tasks' = after \o more
          BY <3>5, <3>7 DEF SoundTasks
        <5> HIDE DEF after, more
        <5>. QED BY <4>1, <5>1
      <4>. QED BY <3>7, <4>2 DEF TasksSound
    <3>4. CASE tasks[i].root # NoRoot
      <4>1. tasks' = after \o more
        BY <3>5
      <4>2. SoundTasks(after) /\ DOMAIN after = DOMAIN tasks
        BY <3>7
      <4>3. /\ after[i].root = tasks[i].root /\ after[i].path = tasks[i].path
        BY <1>0, <2>0 DEF Task
      <4>4. /\ Len(tasks[i].path) <= MaxDepth /\ \A k \in DOMAIN tasks[i].path : tasks[i].path[k] # r
        BY <2>0, <3>1, <3>4 DEF Good
      <4>5. FollowOn(i) \in Task /\ Good(FollowOn(i)) /\ FollowOn(i).from = i
        BY <2>7, <3>4, <3>6, FollowOns DEF RunEnds, FollowOn, Event, Good
      <4>6. Follows(FollowOn(i), after[i])
        BY <4>3, <4>4 DEF Follows, FollowOn, Event
      <4>7. /\ more \in Seq(Task) /\ \A k \in DOMAIN more : more[k] = FollowOn(i)
        BY <2>7, <3>6, FollowOns DEF RunEnds
      <4> HIDE DEF after, more
      <4>8. /\ \A k \in DOMAIN more : Good(more[k])
            /\ \A k \in DOMAIN more : more[k].by # 0 =>
                 more[k].from \in DOMAIN after /\ Follows(more[k], after[more[k].from])
        BY <4>2, <4>5, <4>6, <4>7
      <4>. QED BY <4>1, <4>2, <4>7, <4>8, AddKeeps DEF TasksSound
    <3>. QED BY <3>3, <3>4
  <2>8. ASSUME NEW r \in Rules, SkipCycle(i, r) \/ SkipFanout(i, r) \/ RunWithoutWrites(i, r)
        PROVE  TasksSound'
    BY <2>2, <2>8 DEF SkipCycle, SkipFanout, RunWithoutWrites, Admitted
  <2>. QED BY <1>4, <2>1, <2>3, <2>4, <2>5, <2>6, <2>7, <2>8 DEF Dispatch
<1>5. CASE UNCHANGED vars
  BY <1>5 DEF vars, TasksSound
<1>. QED BY <1>1, <1>2, <1>3, <1>4, <1>5 DEF Next

-----------------------------------------------------------------------------
(* The budget. *)

\* Whether the counters are cleared or not, a root's runs since then stay accounted for.
LEMMA BumpKeeps ==
  ASSUME CountersType, BudgetSound, NEW q \in Roots, bumpFanout(q)
  PROVE  /\ fanout' \in [Roots -> Nat] /\ wiped' \in [Roots -> Nat]
         /\ fanout'[q] >= 1
         /\ started[q] + 1 <= MaxFanout * wiped'[q] + fanout'[q]
         /\ \A p \in Roots : /\ started[p] <= MaxFanout * wiped'[p] + fanout'[p]
                             /\ started[p] <= MaxFanout * wiped'[p] + MaxFanout
<1>0. MaxFanout \in Nat
  BY Bounds
<1>1. CASE Overfull
  <2>1. /\ fanout' = [p \in Roots |-> IF p = q THEN 1 ELSE 0]
        /\ wiped' = [p \in Roots |-> wiped[p] + 1]
    BY <1>1 DEF bumpFanout
  <2>2. ASSUME NEW p \in Roots
        PROVE  /\ MaxFanout * wiped'[p] = MaxFanout * wiped[p] + MaxFanout
               /\ started[p] <= MaxFanout * wiped'[p] /\ MaxFanout * wiped'[p] \in Nat
    <3>1. wiped[p] \in Nat /\ wiped'[p] = wiped[p] + 1 /\ started[p] \in Nat
      BY <2>1 DEF CountersType
    <3>2. MaxFanout * (wiped[p] + 1) = MaxFanout * wiped[p] + MaxFanout
      BY <1>0, <3>1
    <3>3. MaxFanout * (wiped[p] + 1) \in Nat
      BY <1>0, <3>1
    <3>. QED BY <3>1, <3>2, <3>3 DEF BudgetSound
  <2>3. fanout' \in [Roots -> Nat] /\ wiped' \in [Roots -> Nat] /\ fanout'[q] = 1
    BY <2>1 DEF CountersType
  <2>4. \A p \in Roots : fanout'[p] \in Nat /\ started[p] \in Nat
    BY <2>3 DEF CountersType
  <2>. QED BY <1>0, <2>2, <2>3, <2>4
<1>2. CASE ~Overfull
  <2>1. fanout' = [fanout EXCEPT ![q] = @ + 1] /\ wiped' = wiped
    BY <1>2 DEF bumpFanout
  <2>2. ASSUME NEW p \in Roots
        PROVE  fanout[p] \in Nat /\ fanout'[p] >= fanout[p] /\ started[p] \in Nat /\ fanout'[p] \in Nat
               /\ MaxFanout * wiped[p] \in Nat
    <3>1. wiped[p] \in Nat /\ fanout[p] \in Nat /\ started[p] \in Nat
      BY DEF CountersType
    <3>2. MaxFanout * wiped[p] \in Nat
      BY <1>0, <3>1
    <3>. QED BY <2>1, <3>1, <3>2 DEF CountersType
  <2>3. fanout'[q] = fanout[q] + 1 /\ fanout' \in [Roots -> Nat]
    BY <2>1 DEF CountersType
  <2>4. \A p \in Roots : /\ started[p] <= MaxFanout * wiped[p] + fanout[p]
                         /\ started[p] <= MaxFanout * wiped[p] + MaxFanout
    BY DEF BudgetSound
  <2>. QED BY <2>1, <2>2, <2>3, <2>4 DEF CountersType
<1>. QED BY <1>1, <1>2

\* Every step keeps the counters.
LEMMA NextCounters == IInv /\ [Next]_vars => CountersType' /\ BudgetSound'
<1> SUFFICES ASSUME IInv, [Next]_vars PROVE CountersType' /\ BudgetSound'
  OBVIOUS
<1> USE DEF IInv
<1>1. ASSUME UNCHANGED budget, UNCHANGED config, UNCHANGED ledger, loose' \in Nat
      PROVE  CountersType' /\ BudgetSound'
  BY <1>1 DEF budget, config, ledger, CountersType, BudgetSound
<1>2. ASSUME NEW root \in Roots, Emit(root) PROVE CountersType' /\ BudgetSound'
  BY <1>1, <1>2 DEF Emit, CountersType
<1>3. ASSUME NEW r \in Rules, RunLoose(r) PROVE CountersType' /\ BudgetSound'
  <2>1. UNCHANGED budget /\ UNCHANGED config /\ UNCHANGED ledger
    BY <1>3 DEF RunLoose
  <2>2. loose' \in Nat
    BY <1>3 DEF RunLoose, CountersType
  <2>. QED BY <1>1, <2>1, <2>2
<1>4. ASSUME NEW r \in Rules, NEW cap \in Caps, SetGrant(r, cap) PROVE CountersType' /\ BudgetSound'
  <2>1. cap \in Nat /\ most[r] \in Nat
    BY DEF CountersType
  <2>2. UNCHANGED <<fanout, started, wiped, counts, landed, loose>>
    BY <1>4 DEF SetGrant, budget, ledger
  <2>3. grant' \in [Rules -> Nat] /\ declared' \in Nat
    BY <1>4, <2>1 DEF SetGrant, CountersType
  <2>4. most' \in [Rules -> Nat]
    <3>1. CASE cap > most[r]
      BY <1>4, <2>1, <3>1 DEF SetGrant, CountersType
    <3>2. CASE ~(cap > most[r])
      BY <1>4, <2>1, <3>2 DEF SetGrant, CountersType
    <3>. QED BY <3>1, <3>2
  <2>. QED BY <2>2, <2>3, <2>4 DEF CountersType, BudgetSound
<1>5. ASSUME NEW i \in DOMAIN tasks, NEW r \in Rules,
             SkipFanout(i, r) \/ RunWithoutWrites(i, r) \/ RunAutonomously(i, r)
      PROVE  CountersType' /\ BudgetSound'
  <2> DEFINE q == tasks[i].root
  <2>1. q \in Roots
    BY <1>5, AtRecipe DEF SkipFanout, RunWithoutWrites, RunAutonomously, Admitted
  <2>2. /\ bumpFanout(q) /\ UNCHANGED <<config, ledger, loose>>
        /\ \/ started' = started
           \/ started' = [started EXCEPT ![q] = @ + 1] /\ fanout'[q] <= MaxFanout
    BY <1>5 DEF SkipFanout, RunWithoutWrites, RunAutonomously, Admitted
  <2> HIDE DEF q
  <2>3. /\ fanout' \in [Roots -> Nat] /\ wiped' \in [Roots -> Nat]
        /\ started[q] + 1 <= MaxFanout * wiped'[q] + fanout'[q]
        /\ \A p \in Roots : /\ started[p] <= MaxFanout * wiped'[p] + fanout'[p]
                            /\ started[p] <= MaxFanout * wiped'[p] + MaxFanout
    BY <2>1, <2>2, BumpKeeps
  <2>4. CountersType'
    BY <2>1, <2>2, <2>3 DEF CountersType, config, ledger
  <2>5. CASE started' = started
    BY <2>3, <2>4, <2>5 DEF BudgetSound
  <2>6. CASE started' = [started EXCEPT ![q] = @ + 1] /\ fanout'[q] <= MaxFanout
    <3>1. started'[q] = started[q] + 1 /\ \A p \in Roots : p # q => started'[p] = started[p]
      BY <2>1, <2>6 DEF CountersType
    <3>2. MaxFanout * wiped'[q] \in Nat /\ fanout'[q] \in Nat /\ MaxFanout \in Nat
      BY <2>1, <2>3, Bounds
    <3>3. started[q] + 1 <= MaxFanout * wiped'[q] + MaxFanout
      <4> DEFINE n == MaxFanout * wiped'[q]
      <4>1. n \in Nat /\ started[q] + 1 <= n + fanout'[q] /\ started[q] \in Nat
        BY <2>1, <2>3, <3>2 DEF CountersType
      <4> HIDE DEF n
      <4>2. started[q] + 1 <= n + MaxFanout
        BY <2>6, <3>2, <4>1
      <4>. QED BY <4>2 DEF n
    <3>4. ASSUME NEW p \in Roots
          PROVE  /\ started'[p] <= MaxFanout * wiped'[p] + fanout'[p]
                 /\ started'[p] <= MaxFanout * wiped'[p] + MaxFanout
      <4>1. CASE p = q
        BY <2>3, <3>1, <3>3, <4>1
      <4>2. CASE p # q
        BY <2>3, <3>1, <4>2
      <4>. QED BY <4>1, <4>2
    <3>5. BudgetSound'
      BY <3>4 DEF BudgetSound
    <3>. QED BY <2>4, <3>5
  <2>. QED BY <2>2, <2>4, <2>5, <2>6
<1>6. ASSUME NEW i \in DOMAIN tasks, Dispatch(i) PROVE CountersType' /\ BudgetSound'
  <2>1. ASSUME NEW r \in Rules, SkipCycle(i, r) PROVE CountersType' /\ BudgetSound'
    BY <1>1, <2>1 DEF SkipCycle, CountersType
  <2>2. CASE Deliver(i) \/ Deny(i)
    BY <1>1, <2>2 DEF Deliver, Deny, CountersType
  <2>3. CASE Authorize(i)
    BY <2>3, AtRun DEF Authorize, CountersType, BudgetSound, budget, config
  <2>4. CASE WriteReturns(i) \/ RunEnds(i) \/ WriteFails(i)
    <3>1. tasks[i].run.rule \in Rules
      BY <2>4, AtRun DEF WriteReturns, RunEnds, WriteFails
    <3>2. UNCHANGED <<fanout, started, wiped, grant, declared, most, counts, loose>>
      BY <2>4 DEF WriteReturns, RunEnds, WriteFails, budget, config
    <3>3. Land(tasks[i].run.rule) \/ landed' = landed
      BY <2>4 DEF WriteReturns, RunEnds, WriteFails
    <3>4. landed' \in [Rules -> Nat]
      BY <3>1, <3>3 DEF Land, CountersType
    <3>. QED BY <3>2, <3>4 DEF CountersType, BudgetSound
  <2>. QED BY <1>5, <1>6, <2>1, <2>2, <2>3, <2>4 DEF Dispatch
<1>7. CASE UNCHANGED vars
  BY <1>1, <1>7 DEF vars, CountersType
<1>. QED BY <1>2, <1>3, <1>4, <1>6, <1>7 DEF Next

-----------------------------------------------------------------------------
(* The caps. *)

\* Every write has been counted before it is sent, and no count exceeds a cap given.
LEMMA NextWrites == IInv /\ [Next]_vars => WritesSound'
<1> SUFFICES ASSUME IInv, [Next]_vars PROVE WritesSound'
  OBVIOUS
<1> USE DEF IInv
<1>0. tasks \in Seq(Task) /\ tasks' \in Seq(Task) /\ NoRun.sent = FALSE
  BY NextTasks DEF TasksSound, SoundTasks, NoRun
<1>1. ASSUME NEW root \in Roots, Emit(root) PROVE WritesSound'
  <2>1. Direct(root).run = NoRun
    BY DEF Direct, Event
  <2>2. /\ DOMAIN tasks \subseteq DOMAIN tasks' /\ \A j \in DOMAIN tasks : tasks'[j] = tasks[j]
        /\ \A j \in DOMAIN tasks' \ DOMAIN tasks : tasks'[j] = Direct(root)
    BY <1>0, <1>1 DEF Emit
  <2>3. \A r \in Rules : UnderWay(r)' = UnderWay(r)
    BY <1>0, <2>1, <2>2, SameWrites
  <2>. QED BY <1>1, <2>3, SameWritesSound DEF Emit
<1>2. ASSUME NEW r \in Rules, RunLoose(r) PROVE WritesSound'
  <2>1. Loose(r).run.sent = FALSE
    BY DEF Loose, RunOf
  <2>2. /\ DOMAIN tasks \subseteq DOMAIN tasks' /\ \A j \in DOMAIN tasks : tasks'[j] = tasks[j]
        /\ \A j \in DOMAIN tasks' \ DOMAIN tasks : tasks'[j] = Loose(r)
    BY <1>0, <1>2 DEF RunLoose
  <2>3. \A q \in Rules : UnderWay(q)' = UnderWay(q)
    BY <1>0, <2>1, <2>2, SameWrites
  <2>. QED BY <1>2, <2>3, SameWritesSound DEF RunLoose
<1>3. ASSUME NEW r \in Rules, NEW cap \in Caps, SetGrant(r, cap) PROVE WritesSound'
  <2>1. \A q \in Rules : UnderWay(q)' = UnderWay(q)
    BY <1>3 DEF SetGrant, UnderWay
  <2>2. UNCHANGED <<counts, landed>>
    BY <1>3 DEF SetGrant, ledger
  <2>3. \A q \in Rules : counts[q] \in Nat /\ grant[q] \in Nat /\ most[q] \in Nat /\ cap \in Nat
    BY DEF CountersType
  <2>4. ASSUME NEW q \in Rules PROVE counts[q] <= most'[q] /\ grant'[q] <= most'[q]
    <3>1. counts[q] <= most[q] /\ grant[q] <= most[q]
      BY DEF WritesSound
    <3>2. grant \in [Rules -> Nat] /\ most \in [Rules -> Nat]
      BY DEF CountersType
    <3>3. /\ grant' = [grant EXCEPT ![r] = cap]
          /\ most' = [most EXCEPT ![r] = IF cap > most[r] THEN cap ELSE most[r]]
      BY <1>3, Zenon DEF SetGrant
    <3>4. q # r => grant'[q] = grant[q] /\ most'[q] = most[q]
      BY <3>2, <3>3
    <3>5. q = r => grant'[q] = cap /\ most'[q] = IF cap > most[q] THEN cap ELSE most[q]
      BY <3>2, <3>3
    <3> HIDE DEF IInv
    <3>6. CASE q = r
      BY <2>3, <3>1, <3>5, <3>6
    <3>7. CASE q # r
      BY <3>1, <3>4, <3>7
    <3>. QED BY <3>6, <3>7
  <2>5. ASSUME NEW q \in Rules
        PROVE  /\ IsFiniteSet(UnderWay(q)')
               /\ landed'[q] + Cardinality(UnderWay(q)') <= counts'[q]
               /\ counts'[q] <= most'[q] /\ grant'[q] <= most'[q]
    <3>1. UnderWay(q)' = UnderWay(q) /\ landed'[q] = landed[q] /\ counts'[q] = counts[q]
      BY <2>1, <2>2
    <3>. QED BY <2>4, <3>1 DEF WritesSound
  <2>. QED BY <2>5 DEF WritesSound
<1>4. ASSUME NEW i \in DOMAIN tasks, Dispatch(i) PROVE WritesSound'
  <2>1. ASSUME NEW r \in Rules, ComesTo(i, r), UNCHANGED <<config, ledger>>,
               \/ tasks' = Without(i, r)
               \/ tasks' = [Without(i, r) EXCEPT ![i].run = RunOf(r)]
        PROVE  WritesSound'
    <3>1. tasks[i].run = NoRun /\ tasks[i] \in Task
      BY <2>1, AtRecipe
    <3>2. /\ DOMAIN tasks' = DOMAIN tasks /\ \A j \in DOMAIN tasks : j # i => tasks'[j] = tasks[j]
          /\ tasks'[i].run \in {NoRun, RunOf(r)}
      <4> DEFINE x == [tasks[i] EXCEPT !.todo = @ \ {r}]
                 y == [x EXCEPT !.run = RunOf(r)]
      <4>1. x.run = NoRun /\ x \in Task
        BY <3>1 DEF Task
      <4>2. y.run = RunOf(r)
        BY <4>1 DEF Task
      <4>3. tasks' = [tasks EXCEPT ![i] = x] \/ tasks' = [tasks EXCEPT ![i] = y]
        BY <1>0, <2>1 DEF Without
      <4> HIDE DEF x, y
      <4>. QED BY <1>0, <4>1, <4>2, <4>3
    <3>3. ~tasks'[i].run.sent /\ ~tasks[i].run.sent
      BY <3>1, <3>2 DEF RunOf, NoRun
    <3>4. \A q \in Rules : UnderWay(q)' = UnderWay(q)
      BY <1>0, <3>2, <3>3, SameWrites
    <3>. QED BY <2>1, <3>4, SameWritesSound
  <2>2. ASSUME NEW r \in Rules, \/ SkipCycle(i, r) \/ SkipFanout(i, r)
                                \/ RunWithoutWrites(i, r) \/ RunAutonomously(i, r)
        PROVE  WritesSound'
    BY <2>1, <2>2 DEF SkipCycle, SkipFanout, RunWithoutWrites, RunAutonomously, Admitted
  <2>3. CASE Deliver(i)
    <3>1. PICK d : tasks' = [tasks EXCEPT ![i].queued = FALSE, ![i].todo = d]
      BY <2>3 DEF Deliver
    <3>2. /\ DOMAIN tasks' = DOMAIN tasks /\ \A j \in DOMAIN tasks : tasks'[j].run = tasks[j].run
      <4>1. tasks[i] \in Task
        BY <1>0
      <4> DEFINE y == [tasks[i] EXCEPT !.queued = FALSE, !.todo = d]
      <4>2. y.run = tasks[i].run
        BY <4>1 DEF Task
      <4>3. tasks' = [tasks EXCEPT ![i] = y]
        BY <1>0, <3>1
      <4> HIDE DEF y
      <4>. QED BY <1>0, <4>2, <4>3
    <3>3. \A q \in Rules : UnderWay(q)' = UnderWay(q)
      BY <1>0, <3>2, SameWrites
    <3>. QED BY <2>3, <3>3, SameWritesSound DEF Deliver
  <2>4. CASE Deny(i)
    <3>1. ~tasks[i].run.sent
      BY <2>4 DEF Deny, Ready
    <3>2. /\ DOMAIN tasks' = DOMAIN tasks /\ \A j \in DOMAIN tasks : j # i => tasks'[j] = tasks[j]
          /\ tasks'[i].run = NoRun
      BY <1>0, <2>4 DEF Deny, Task
    <3>3. \A q \in Rules : UnderWay(q)' = UnderWay(q)
      BY <1>0, <3>1, <3>2, SameWrites
    <3>. QED BY <2>4, <3>3, SameWritesSound DEF Deny
  <2>5. CASE Authorize(i)
    <3>0. tasks[i].run.rule \in Rules
      BY <2>5, AtRun DEF Authorize
    <3> PICK r \in Rules : r = tasks[i].run.rule
      BY <3>0
    <3>1. r \in Rules /\ tasks[i] \in Task /\ tasks[i].run \in Run /\ ~tasks[i].run.sent
      BY <2>5, AtRun DEF Authorize, Ready
    <3>2. /\ DOMAIN tasks' = DOMAIN tasks /\ \A j \in DOMAIN tasks : j # i => tasks'[j] = tasks[j]
          /\ tasks'[i].run.sent /\ tasks'[i].run.rule = r
      BY <1>0, <2>5, <3>1 DEF Authorize, Task, Run
    <3>3. /\ UnderWay(r)' = UnderWay(r) \cup {i} /\ i \notin UnderWay(r)
          /\ \A q \in Rules : q # r => UnderWay(q)' = UnderWay(q)
      BY <3>1, <3>2 DEF UnderWay
    <3>4. /\ counts[r] < grant[r] /\ counts' = [counts EXCEPT ![r] = @ + 1]
          /\ UNCHANGED <<grant, most, landed>>
      BY <2>5 DEF Authorize, config
    <3>5. /\ IsFiniteSet(UnderWay(r)') /\ Cardinality(UnderWay(r)') = Cardinality(UnderWay(r)) + 1
          /\ Cardinality(UnderWay(r)) \in Nat
      <4>1. IsFiniteSet(UnderWay(r)) /\ Cardinality(UnderWay(r)) \in Nat
        BY FS_CardinalityType DEF WritesSound
      <4>2. /\ IsFiniteSet(UnderWay(r) \cup {i})
            /\ Cardinality(UnderWay(r) \cup {i}) = Cardinality(UnderWay(r)) + 1
        BY <3>3, <4>1, FS_AddElement
      <4>. QED BY <3>3, <4>1, <4>2
    <3>6. ASSUME NEW q \in Rules
          PROVE  /\ IsFiniteSet(UnderWay(q)')
                 /\ landed'[q] + Cardinality(UnderWay(q)') <= counts'[q]
                 /\ counts'[q] <= most'[q] /\ grant'[q] <= most'[q]
      <4>1. /\ counts[q] \in Nat /\ grant[q] \in Nat /\ most[q] \in Nat /\ landed[q] \in Nat
            /\ IsFiniteSet(UnderWay(q)) /\ landed[q] + Cardinality(UnderWay(q)) <= counts[q]
            /\ counts[q] <= most[q] /\ grant[q] <= most[q]
        BY DEF CountersType, WritesSound
      <4>2. CASE q = r
        <5>1. counts'[q] = counts[q] + 1 /\ landed'[q] = landed[q]
          BY <3>4, <4>2 DEF CountersType
        <5>. QED BY <3>4, <3>5, <4>1, <4>2, <5>1
      <4>3. CASE q # r
        <5>1. counts'[q] = counts[q] /\ landed'[q] = landed[q]
          BY <3>4, <4>3 DEF CountersType
        <5>2. UnderWay(q)' = UnderWay(q)
          BY <3>3, <4>3
        <5>. QED BY <3>4, <4>1, <5>1, <5>2
      <4>. QED BY <4>2, <4>3
    <3>. QED BY <3>6 DEF WritesSound
  <2>6. CASE WriteReturns(i) \/ RunEnds(i) \/ WriteFails(i)
    <3>0. tasks[i].run.rule \in Rules
      BY <2>6, AtRun DEF WriteReturns, RunEnds, WriteFails
    <3> PICK r \in Rules : r = tasks[i].run.rule
      BY <3>0
    <3>1. r \in Rules /\ tasks[i] \in Task /\ tasks[i].run \in Run /\ tasks[i].run.sent
      BY <2>6, AtRun DEF WriteReturns, RunEnds, WriteFails
    <3>2. /\ DOMAIN tasks \subseteq DOMAIN tasks'
          /\ \A j \in DOMAIN tasks : j # i => tasks'[j] = tasks[j]
          /\ ~tasks'[i].run.sent
          /\ \A j \in DOMAIN tasks' \ DOMAIN tasks : ~tasks'[j].run.sent
      <4>1. CASE WriteReturns(i)
        BY <1>0, <3>1, <4>1 DEF WriteReturns, NextWrite, Task
      <4>2. CASE WriteFails(i)
        BY <1>0, <3>1, <4>2 DEF WriteFails, Task
      <4>3. CASE RunEnds(i)
        <5> DEFINE after == [tasks EXCEPT ![i].run = NoRun]
        <5>0. PICK n \in 0..Writes[r] : tasks' = after \o [k \in 1..n |-> FollowOn(i)]
          BY <4>3 DEF RunEnds
        <5>6. n \in Nat
          BY <3>1, <5>0, Bounds
        <5> DEFINE more == [k \in 1..n |-> FollowOn(i)]
        <5>1. tasks' = after \o more
          BY <5>0
        <5>2. /\ DOMAIN after = DOMAIN tasks /\ \A j \in DOMAIN tasks : j # i => after[j] = tasks[j]
              /\ after[i].run = NoRun /\ after \in Seq(Task)
          <6> DEFINE y == [tasks[i] EXCEPT !.run = NoRun]
          <6>1. y.run = NoRun /\ y \in Task
            BY <3>1, NewRun
          <6>2. after = [tasks EXCEPT ![i] = y]
            BY <1>0
          <6> HIDE DEF after, y
          <6>. QED BY <1>0, <6>1, <6>2
        <5>3. more \in Seq(Task) /\ \A k \in DOMAIN more : more[k].run = NoRun
          BY <4>3, <5>6, FollowOns DEF RunEnds
        <5> HIDE DEF after, more
        <5>4. /\ DOMAIN after \subseteq DOMAIN tasks' /\ \A j \in DOMAIN after : tasks'[j] = after[j]
              /\ \A j \in DOMAIN tasks' \ DOMAIN after : \E k \in DOMAIN more : tasks'[j] = more[k]
          <6>1. /\ DOMAIN after \subseteq DOMAIN (after \o more)
                /\ \A j \in DOMAIN after : (after \o more)[j] = after[j]
                /\ \A j \in DOMAIN (after \o more) \ DOMAIN after :
                      \E k \in DOMAIN more : (after \o more)[j] = more[k]
            BY <5>2, <5>3, Joined, Zenon
          <6>. QED BY <5>1, <6>1, Zenon
        <5>5. ASSUME NEW j \in DOMAIN tasks
              PROVE  j \in DOMAIN tasks' /\ (j # i => tasks'[j] = tasks[j])
          BY <5>2, <5>4
        <5>7. tasks'[i].run = NoRun
          BY <5>2, <5>4, <1>0
        <5>8. ASSUME NEW j \in DOMAIN tasks' \ DOMAIN tasks
              PROVE  tasks'[j].run = NoRun
          BY <5>2, <5>3, <5>4
        <5>. QED BY <1>0, <5>5, <5>7, <5>8
      <4>. QED BY <2>6, <4>1, <4>2, <4>3
    <3>3. /\ UnderWay(r)' = UnderWay(r) \ {i} /\ i \in UnderWay(r)
          /\ \A q \in Rules : q # r => UnderWay(q)' = UnderWay(q)
      BY <3>1, <3>2 DEF UnderWay
    <3>4. /\ landed' \in {landed, [landed EXCEPT ![r] = @ + 1]}
          /\ UNCHANGED <<grant, most, counts>>
      BY <2>6 DEF WriteReturns, RunEnds, WriteFails, Land, config
    <3>5. /\ IsFiniteSet(UnderWay(r)') /\ Cardinality(UnderWay(r)') = Cardinality(UnderWay(r)) - 1
          /\ Cardinality(UnderWay(r)) \in Nat
      <4>1. IsFiniteSet(UnderWay(r)) /\ Cardinality(UnderWay(r)) \in Nat
        BY FS_CardinalityType DEF WritesSound
      <4>2. /\ IsFiniteSet(UnderWay(r) \ {i})
            /\ Cardinality(UnderWay(r) \ {i}) = Cardinality(UnderWay(r)) - 1
        BY <3>3, <4>1, FS_RemoveElement
      <4>. QED BY <3>3, <4>1, <4>2
    <3>6. ASSUME NEW q \in Rules
          PROVE  /\ IsFiniteSet(UnderWay(q)')
                 /\ landed'[q] + Cardinality(UnderWay(q)') <= counts'[q]
                 /\ counts'[q] <= most'[q] /\ grant'[q] <= most'[q]
      <4>1. /\ counts[q] \in Nat /\ grant[q] \in Nat /\ most[q] \in Nat /\ landed[q] \in Nat
            /\ IsFiniteSet(UnderWay(q)) /\ landed[q] + Cardinality(UnderWay(q)) <= counts[q]
            /\ counts[q] <= most[q] /\ grant[q] <= most[q]
        BY DEF CountersType, WritesSound
      <4>2. CASE q = r
        <5>1. counts'[q] = counts[q] /\ landed'[q] \in {landed[q], landed[q] + 1}
          BY <3>4, <4>2 DEF CountersType
        <5>. QED BY <3>4, <3>5, <4>1, <4>2, <5>1
      <4>3. CASE q # r
        <5>1. counts'[q] = counts[q] /\ landed'[q] = landed[q]
          BY <3>4, <4>3 DEF CountersType
        <5>2. UnderWay(q)' = UnderWay(q)
          BY <3>3, <4>3
        <5>. QED BY <3>4, <4>1, <5>1, <5>2
      <4>. QED BY <4>2, <4>3
    <3>. QED BY <3>6 DEF WritesSound
  <2>. QED BY <1>4, <2>2, <2>3, <2>4, <2>5, <2>6 DEF Dispatch
<1>5. CASE UNCHANGED vars
  BY <1>5, SameWritesSound DEF vars, UnderWay
<1>. QED BY <1>1, <1>2, <1>3, <1>4, <1>5 DEF Next

-----------------------------------------------------------------------------
\* Where every task came from, the budget and the count of writes are kept for good.
THEOREM Invariance == Spec => []IInv
<1>1. IInv /\ [Next]_vars => IInv'
  BY NextTasks, NextCounters, NextWrites DEF IInv
<1>. QED BY InitSound, <1>1, PTL DEF Spec

\* The engine's tasks and maps keep their shapes.
THEOREM TypeCorrect == Spec => []TypeOK
<1>1. IInv => TypeOK
  BY DEF IInv, TasksSound, SoundTasks, Good, CountersType, TypeOK, Running
<1>. QED BY <1>1, Invariance, PTL

\* No chain of events goes on for ever.
THEOREM ChainsAreBroken == Spec => []ChainsEnd
<1>1. IInv => ChainsEnd
  <2> SUFFICES ASSUME IInv, NEW i \in DOMAIN tasks, tasks[i].by # 0
               PROVE  /\ tasks[i].from < i /\ Follows(tasks[i], tasks[tasks[i].from])
    BY DEF ChainsEnd, Follows, OnPath
  <2>1. tasks[i].from \in 1..(i - 1) /\ Follows(tasks[i], tasks[tasks[i].from]) /\ i \in Nat
    BY DEF IInv, TasksSound, SoundTasks
  <2>. QED BY <2>1
<1>. QED BY <1>1, Invariance, PTL

\* A cascade stays within its budget, once more for every time the counters were cleared.
THEOREM BudgetIsKept == Spec => []FanoutIsBudgeted
<1>1. IInv => FanoutIsBudgeted
  <2> SUFFICES ASSUME IInv, NEW q \in Roots PROVE started[q] <= MaxFanout * (wiped[q] + 1)
    BY DEF FanoutIsBudgeted
  <2>1. wiped[q] \in Nat /\ started[q] <= MaxFanout * wiped[q] + MaxFanout
    BY DEF IInv, CountersType, BudgetSound
  <2>2. MaxFanout * (wiped[q] + 1) = MaxFanout * wiped[q] + MaxFanout
    BY <2>1, Bounds
  <2>. QED BY <2>1, <2>2
<1>. QED BY <1>1, Invariance, PTL

\* No recipe writes more than it was ever granted.
THEOREM CapsAreKept == Spec => []WritesWithinCap
<1>1. IInv => WritesWithinCap
  <2> SUFFICES ASSUME IInv, NEW r \in Rules PROVE landed[r] <= most[r]
    BY DEF WritesWithinCap
  <2>1. /\ landed[r] + Cardinality(UnderWay(r)) <= counts[r] /\ counts[r] <= most[r]
        /\ landed[r] \in Nat /\ counts[r] \in Nat /\ most[r] \in Nat
        /\ Cardinality(UnderWay(r)) \in Nat
    BY FS_CardinalityType DEF IInv, WritesSound, CountersType
  <2>. QED BY <2>1
<1>. QED BY <1>1, Invariance, PTL
=============================================================================
