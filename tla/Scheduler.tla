----------------------------- MODULE Scheduler -----------------------------
(***************************************************************************)
(* The job scheduler (lib/job-scheduler.ts): every replica's heartbeat     *)
(* looks at the window since its last tick, claims each occurrence that    *)
(* fell due by compare-and-set, and runs those it won.  A tick that awaits *)
(* its claims and runs does not keep the next tick from starting.          *)
(*                                                                         *)
(* A replica is on Redis or keeps its claims in its own memory             *)
(* (lib/shared-state.ts).  Clocks agree, and are finer than a minute: what *)
(* a cron matches is a whole minute, while a tick comes at any time.       *)
(***************************************************************************)
EXTENDS Integers, FiniteSets

CONSTANTS
  Replicas,
  OnRedis,   \* replicas whose shared store is Redis
  Jobs,      \* positions in the registry
  Schedule,  \* of each job
  Minute,    \* steps of the clock in a minute
  LookBack,  \* (maxMinutes - 1) * 60_000: how far back a tick looks at the minutes of a cron
  ClaimTtl,  \* CLAIM_TTL_MS
  MaxGap,    \* between two ticks of a replica: its heartbeat, and how late the timer fires
  MaxLag,    \* how long a tick takes over its claims and runs
  MaxTime    \* bound: the length of a behaviour

WholeMinutes == {t \in Nat : t % Minute = 0}

Schedules ==
  [kind : {"interval"}, period : Nat \ {0}] \cup [kind : {"cron"}, minutes : SUBSET WholeMinutes]

ASSUME SchedulerAssumption ==
  /\ OnRedis \subseteq Replicas
  /\ Jobs \subseteq Nat
  /\ Minute \in Nat \ {0} /\ Schedule \in [Jobs -> Schedules]
  /\ LookBack \in Nat /\ ClaimTtl \in Nat /\ MaxGap \in Nat /\ MaxLag \in Nat /\ MaxTime \in Nat
  /\ "redis" \notin Replicas

VARIABLES
  now,
  up,
  last,   \* lastRunMs of each replica
  boot,   \* history: when each replica started
  ticks,  \* ticks under way
  claims, \* when each claim of each store lapses; 0 for no claim
  fired,  \* history: how often each occurrence ran, on the claims of each store
  passed  \* history: what each replica left aside since it started: disabled, or its claim failed

vars == <<now, up, last, boot, ticks, claims, fired, passed>>

Times == 0 .. MaxTime
Occurrences == Jobs \X Times
Stores == Replicas \cup {"redis"}
StoreOf(r) == IF r \in OnRedis THEN "redis" ELSE r
TickOf == [owner : Replicas, since : Times, at : Times, todo : SUBSET Occurrences, won : BOOLEAN]

Init ==
  /\ now = 0
  /\ up = [r \in Replicas |-> FALSE]
  /\ last = [r \in Replicas |-> 0]
  /\ boot = [r \in Replicas |-> 0]
  /\ ticks = {}
  /\ claims = [s \in Stores |-> [x \in Occurrences |-> 0]]
  /\ fired = [s \in Stores |-> [x \in Occurrences |-> 0]]
  /\ passed = [r \in Replicas |-> {}]

-----------------------------------------------------------------------------
\* Boundaries are counted from the epoch.
Boundary(j, b) == \E k \in 0 .. b : b = k * Schedule[j].period

\* Mutation: the look back is a minute short.
OccurrencesInShortWindow(j, since, at) ==
  IF Schedule[j].kind = "interval"
    THEN {b \in since + 1 .. at : Boundary(j, b) /\ b + Schedule[j].period > at}
    ELSE {t \in Schedule[j].minutes : since < t /\ t <= at /\ t >= at - LookBack + Minute}

\* The latest boundary of an interval in (since, at]; the minutes a cron matches there, from
\* the first whole one of the look back on.
OccurrencesInWindow(j, since, at) ==
  IF Schedule[j].kind = "interval"
    THEN {b \in since + 1 .. at : Boundary(j, b) /\ b + Schedule[j].period > at}
    ELSE {t \in Schedule[j].minutes : since < t /\ t <= at /\ t >= at - LookBack}

DueFor(js, since, at) ==
  {x \in js \X Times : x[2] \in OccurrencesInWindow(x[1], since, at)}

\* Nothing keeps a replica from ticking late, or a tick from dragging on, but the two limits.
Advance ==
  /\ now < MaxTime
  /\ \A r \in Replicas : up[r] => now - last[r] < MaxGap
  /\ \A t \in ticks : now - t.at < MaxLag
  /\ now' = now + 1
  /\ UNCHANGED <<up, last, boot, ticks, claims, fired, passed>>

Boot(r) ==
  /\ ~up[r]
  /\ up' = [up EXCEPT ![r] = TRUE]
  /\ last' = [last EXCEPT ![r] = now]
  /\ boot' = [boot EXCEPT ![r] = now]
  /\ UNCHANGED <<now, ticks, claims, fired, passed>>

\* Mutation: ticks go on without their replica.
CrashWithoutTicks(r) ==
  /\ up[r]
  /\ up' = [up EXCEPT ![r] = FALSE]
  /\ last' = [last EXCEPT ![r] = 0]
  /\ boot' = [boot EXCEPT ![r] = 0]
  /\ claims' = [claims EXCEPT ![r] = [x \in Occurrences |-> 0]]
  /\ passed' = [passed EXCEPT ![r] = {}]
  /\ UNCHANGED <<now, ticks, fired>>

\* Its ticks end wherever they are, and claims in its memory are gone.
Crash(r) ==
  /\ up[r]
  /\ up' = [up EXCEPT ![r] = FALSE]
  /\ last' = [last EXCEPT ![r] = 0]
  /\ boot' = [boot EXCEPT ![r] = 0]
  /\ ticks' = {t \in ticks : t.owner # r}
  /\ claims' = [claims EXCEPT ![r] = [x \in Occurrences |-> 0]]
  /\ passed' = [passed EXCEPT ![r] = {}]
  /\ UNCHANGED <<now, fired>>

WithWork(t) == IF t.todo = {} THEN {} ELSE {t}

\* A job that is disabled, or whose schedule does not resolve, is passed over.
Tick(r) ==
  /\ up[r] /\ last[r] < now
  /\ \E live \in SUBSET Jobs :
       /\ ticks' = ticks \cup WithWork(
            [owner |-> r, since |-> last[r], at |-> now, todo |-> DueFor(live, last[r], now),
             won |-> FALSE])
       /\ passed' = [passed EXCEPT ![r] = @ \cup DueFor(Jobs \ live, last[r], now)]
  /\ last' = [last EXCEPT ![r] = now]
  /\ UNCHANGED <<now, up, boot, claims, fired>>

\* Jobs in the order of the registry, and a job's occurrences in the order of time.
Before(x, y) == x[1] < y[1] \/ (x[1] = y[1] /\ x[2] <= y[2])
IsNext(t, x) == x \in t.todo /\ \A y \in t.todo : Before(x, y)

Without(t, x) == [t EXCEPT !.todo = @ \ {x}, !.won = FALSE]
Replace(t, u) == ticks' = (ticks \ {t}) \cup WithWork(u)

Claimed(s, x) == claims[s][x] > now

\* Mutation: the claim is written whatever is there.
ClaimBlindly(t, x) ==
  /\ IsNext(t, x) /\ ~t.won
  /\ claims' = [claims EXCEPT ![StoreOf(t.owner)][x] = now + ClaimTtl]
  /\ Replace(t, [t EXCEPT !.won = TRUE])
  /\ UNCHANGED <<now, up, last, boot, fired, passed>>

\* cas(key, null, "1"): won, where nobody holds the claim.
WinClaim(t, x) ==
  /\ IsNext(t, x) /\ ~t.won
  /\ ~Claimed(StoreOf(t.owner), x)
  /\ claims' = [claims EXCEPT ![StoreOf(t.owner)][x] = now + ClaimTtl]
  /\ Replace(t, [t EXCEPT !.won = TRUE])
  /\ UNCHANGED <<now, up, last, boot, fired, passed>>

\* Somebody holds it, be it by this very claim, sent before.
LoseClaim(t, x) ==
  /\ IsNext(t, x) /\ ~t.won
  /\ Claimed(StoreOf(t.owner), x)
  /\ Replace(t, Without(t, x))
  /\ UNCHANGED <<now, up, last, boot, claims, fired, passed>>

\* The claim is written, but the connection drops before the reply: the client sends it again.
ClaimUnheard(t, x) ==
  /\ IsNext(t, x) /\ ~t.won
  /\ t.owner \in OnRedis /\ ~Claimed("redis", x)
  /\ claims' = [claims EXCEPT !["redis"][x] = now + ClaimTtl]
  /\ UNCHANGED <<now, up, last, boot, ticks, fired, passed>>

\* The call throws, which counts as lost.
FailClaim(t, x) ==
  /\ IsNext(t, x) /\ ~t.won
  /\ t.owner \in OnRedis
  /\ Replace(t, Without(t, x))
  /\ passed' = [passed EXCEPT ![t.owner] = @ \cup {x}]
  /\ UNCHANGED <<now, up, last, boot, claims, fired>>

\* The run settles; whether it threw makes no difference to the tick.
Run(t, x) ==
  /\ IsNext(t, x) /\ t.won
  /\ fired' = [fired EXCEPT ![StoreOf(t.owner)][x] = @ + 1]
  /\ Replace(t, Without(t, x))
  /\ UNCHANGED <<now, up, last, boot, claims, passed>>

Work(t) ==
  \E x \in t.todo :
    WinClaim(t, x) \/ LoseClaim(t, x) \/ ClaimUnheard(t, x) \/ FailClaim(t, x) \/ Run(t, x)

Next ==
  \/ Advance
  \/ \E r \in Replicas : Boot(r) \/ Crash(r) \/ Tick(r)
  \/ \E t \in ticks : Work(t)

Spec == Init /\ [][Next]_vars

-----------------------------------------------------------------------------
\* The shapes of ticks and claims.
TypeOK ==
  /\ now \in Times
  /\ up \in [Replicas -> BOOLEAN]
  /\ last \in [Replicas -> Times] /\ boot \in [Replicas -> Times]
  /\ ticks \subseteq TickOf
  /\ \A t \in ticks : up[t.owner] /\ t.todo # {}
  /\ claims \in [Stores -> [Occurrences -> Nat]]
  /\ fired \in [Stores -> [Occurrences -> Nat]]
  /\ passed \in [Replicas -> SUBSET Occurrences]

\* "overlapping ticks or multiple replicas fire each occurrence exactly once" (job-scheduler.ts:20):
\* at most once, crashes, restarts and claims sent twice included, and per replica where there
\* is no Redis.  A claim is written once and lapses; that no tick reaches an occurrence after its
\* claim lapsed takes MaxGap + MaxLag <= ClaimTtl (job-scheduler.ts:108-110).
FiresAtMostOnce ==
  MaxGap + MaxLag <= ClaimTtl => \A s \in Stores, x \in Occurrences : fired[s][x] <= 1

Handled(r, x) ==
  \/ claims[StoreOf(r)][x] > 0 \/ x \in passed[r]
  \/ \E t \in ticks : t.owner = r /\ x \in t.todo

FellDue(r, j) ==
  LET seen == {b \in boot[r] + 1 .. last[r] :
                 IF Schedule[j].kind = "interval" THEN Boundary(j, b)
                                                  ELSE b \in Schedule[j].minutes}
  IN  IF Schedule[j].kind = "interval" THEN {b \in seen : \A c \in seen : c <= b} ELSE seen

\* "computes each job's occurrences due in the window since the last tick" (job-scheduler.ts:10-11):
\* of all that fell due while a replica was up, up to its last tick, nothing falls between two
\* windows: every minute of a cron and the latest boundary of an interval has been claimed,
\* waits in a tick of the replica's, or was given up for a reason.
NoneOverlooked ==
  MaxGap <= LookBack =>
    \A r \in Replicas, j \in Jobs : up[r] => \A b \in FellDue(r, j) : Handled(r, <<j, b>>)
=============================================================================
