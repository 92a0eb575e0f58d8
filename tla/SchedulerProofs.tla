-------------------------- MODULE SchedulerProofs --------------------------
(***************************************************************************)
(* Proofs about Scheduler, for any fleet, registry and schedules.  That an *)
(* occurrence runs once is an argument about time: whoever reaches an      *)
(* occurrence reaches it before the first claim of it can have lapsed, or, *)
(* in memory that was lost, in a window that begins after it.              *)
(***************************************************************************)
EXTENDS Scheduler, TLAPS

Timely == MaxGap + MaxLag <= ClaimTtl

\* Windows end by now and are no longer than MaxGap; ticks are no older than MaxLag.
TimesSound ==
  /\ \A r \in Replicas : last[r] <= now /\ boot[r] <= last[r] /\ (up[r] => now - last[r] <= MaxGap)
  /\ \A t \in ticks :
       /\ t.at <= now /\ now - t.at <= MaxLag /\ t.at - t.since <= MaxGap
       /\ \A x \in t.todo : t.since < x[2] /\ x[2] <= t.at

\* Whoever has won a claim holds it.
Winner(t, x) == t.won /\ IsNext(t, x)

WinnersClaimed ==
  \A t \in ticks, x \in Occurrences :
    Winner(t, x) => claims[StoreOf(t.owner)][x] >= x[2] + ClaimTtl

\* One winner at a time, and none of what ran.
WinnersAlone ==
  \A t \in ticks, x \in Occurrences : Winner(t, x) =>
    /\ fired[StoreOf(t.owner)][x] = 0
    /\ \A u \in ticks : Winner(u, x) /\ StoreOf(u.owner) = StoreOf(t.owner) => u = t

\* A claim that was lost with a replica's memory is of an occurrence it will not look at again.
Forgotten(s, x) ==
  /\ s \in Replicas
  /\ up[s] => x[2] <= last[s]
  /\ \A t \in ticks : t.owner = s => x[2] <= t.since

FiredSound ==
  \A s \in Stores, x \in Occurrences :
    /\ fired[s][x] <= 1
    /\ fired[s][x] = 1 =>
         x[2] <= now /\ (claims[s][x] >= x[2] + ClaimTtl \/ Forgotten(s, x))

IInv == TypeOK /\ TimesSound /\ WinnersClaimed

Once == WinnersAlone /\ FiredSound

USE SchedulerAssumption

\* An occurrence is a job and a time.
LEMMA Pairs ==
  \A x \in Occurrences : /\ x = <<x[1], x[2]>> /\ x[1] \in Nat /\ x[2] \in Nat
                         /\ x[1] \in Jobs /\ x[2] \in Times
<1>1. \A x \in Jobs \X Times : x = <<x[1], x[2]>> /\ x[1] \in Jobs /\ x[2] \in Times
  OBVIOUS
<1>2. Jobs \subseteq Nat /\ Times \subseteq Nat
  BY DEF Times
<1>. QED BY <1>1, <1>2 DEF Occurrences

LEMMA StoreType == \A r \in Replicas : StoreOf(r) \in Stores
BY DEF StoreOf, Stores

\* What writing one claim, or counting one run, does to a table of them.
LEMMA Update ==
  ASSUME NEW f \in [Stores -> [Occurrences -> Nat]], NEW s \in Stores, NEW x \in Occurrences,
         NEW n \in Nat
  PROVE  /\ [f EXCEPT ![s][x] = n] \in [Stores -> [Occurrences -> Nat]]
         /\ \A q \in Stores, y \in Occurrences :
              [f EXCEPT ![s][x] = n][q][y] = IF q = s /\ y = x THEN n ELSE f[q][y]
OBVIOUS

\* What a tick finds due lies in its window.
LEMMA DueInWindow ==
  ASSUME NEW js \in SUBSET Jobs, NEW since \in Times, NEW at \in Times
  PROVE  /\ DueFor(js, since, at) \in SUBSET Occurrences
         /\ \A x \in DueFor(js, since, at) : since < x[2] /\ x[2] <= at
<1>1. \A x \in DueFor(js, since, at) :
        x \in Jobs \X Times /\ x[2] \in OccurrencesInWindow(x[1], since, at)
  BY DEF DueFor
<1>2. \A j \in Jobs, b \in Times : b \in OccurrencesInWindow(j, since, at) => since < b /\ b <= at
  BY DEF OccurrencesInWindow, Times
<1>. QED BY <1>1, <1>2 DEF Occurrences

-----------------------------------------------------------------------------
\* The shapes hold initially.
LEMMA InitType == Init => TypeOK
BY DEF Init, TypeOK, Times

\* A tick that goes on with less to do keeps its shape.
LEMMA ReplaceType ==
  ASSUME TypeOK, NEW t \in ticks, NEW x \in t.todo,
         Replace(t, Without(t, x)) \/ Replace(t, [t EXCEPT !.won = TRUE])
  PROVE  /\ ticks' \subseteq TickOf
         /\ \A u \in ticks' : up[u.owner] /\ u.todo # {}
<1>1. t \in TickOf /\ up[t.owner] /\ t.todo # {}
  BY DEF TypeOK
<1>2. Without(t, x) \in TickOf /\ Without(t, x).owner = t.owner
  BY <1>1 DEF Without, TickOf
<1>3. /\ [t EXCEPT !.won = TRUE] \in TickOf /\ [t EXCEPT !.won = TRUE].owner = t.owner
      /\ [t EXCEPT !.won = TRUE].todo = t.todo
  BY <1>1 DEF TickOf
<1>. QED BY <1>1, <1>2, <1>3 DEF Replace, WithWork, TypeOK

\* What claims one more, whoever hears of it.
LEMMA ClaimUnheardWrites ==
  ASSUME TypeOK, NEW t \in ticks, NEW x \in t.todo, ClaimUnheard(t, x)
  PROVE  /\ claims' \in [Stores -> [Occurrences -> Nat]]
         /\ \A s \in Stores, y \in Occurrences :
              claims'[s][y] = claims[s][y] \/ (y = x /\ claims'[s][y] = now + ClaimTtl)
         /\ UNCHANGED <<now, up, last, boot, ticks, fired, passed>>
<1>1. x \in Occurrences /\ "redis" \in Stores /\ now + ClaimTtl \in Nat
  BY DEF TypeOK, TickOf, Times, Stores
<1>2. claims' = [claims EXCEPT !["redis"][x] = now + ClaimTtl]
  BY DEF ClaimUnheard
<1>3. /\ claims' \in [Stores -> [Occurrences -> Nat]]
      /\ \A s \in Stores, y \in Occurrences :
           claims'[s][y] = IF s = "redis" /\ y = x THEN now + ClaimTtl ELSE claims[s][y]
  BY <1>1, <1>2, Update DEF TypeOK
<1>. QED BY <1>3 DEF ClaimUnheard

\* Every step keeps the shapes.
LEMMA NextType == TypeOK /\ [Next]_vars => TypeOK'
<1> SUFFICES ASSUME TypeOK, [Next]_vars PROVE TypeOK'
  OBVIOUS
<1>1. CASE Advance
  BY <1>1 DEF Advance, TypeOK, Times
<1>2. ASSUME NEW r \in Replicas, Boot(r) PROVE TypeOK'
  BY <1>2 DEF Boot, TypeOK, Times
<1>3. ASSUME NEW r \in Replicas, Crash(r) PROVE TypeOK'
  <2>1. claims' \in [Stores -> [Occurrences -> Nat]]
    BY <1>3 DEF Crash, TypeOK
  <2>2. passed' \in [Replicas -> SUBSET Occurrences]
    BY <1>3 DEF Crash, TypeOK
  <2>3. 0 \in Times
    BY DEF Times
  <2>4. \A t \in ticks' : t \in TickOf /\ up'[t.owner] /\ t.todo # {}
    BY <1>3 DEF Crash, TypeOK, TickOf
  <2>. QED BY <1>3, <2>1, <2>2, <2>3, <2>4 DEF Crash, TypeOK
<1>4. ASSUME NEW r \in Replicas, Tick(r) PROVE TypeOK'
  <2>0. PICK live \in SUBSET Jobs :
          /\ ticks' = ticks \cup WithWork(
               [owner |-> r, since |-> last[r], at |-> now, todo |-> DueFor(live, last[r], now),
                won |-> FALSE])
          /\ passed' = [passed EXCEPT ![r] = @ \cup DueFor(Jobs \ live, last[r], now)]
    BY <1>4 DEF Tick
  <2>1. up[r] /\ last' = [last EXCEPT ![r] = now] /\ UNCHANGED <<now, up, boot, claims, fired>>
    BY <1>4 DEF Tick
  <2>2. /\ DueFor(live, last[r], now) \in SUBSET Occurrences
        /\ DueFor(Jobs \ live, last[r], now) \in SUBSET Occurrences
    BY DueInWindow DEF TypeOK
  <2> DEFINE new == [owner |-> r, since |-> last[r], at |-> now,
                     todo |-> DueFor(live, last[r], now), won |-> FALSE]
  <2>5. new \in TickOf /\ new.owner = r
    BY <2>2 DEF TypeOK, TickOf
  <2>6. ticks' = ticks \cup WithWork(new)
    BY <2>0
  <2> HIDE DEF new
  <2>3. ticks' \subseteq TickOf /\ \A t \in ticks' : up[t.owner] /\ t.todo # {}
    BY <2>1, <2>5, <2>6 DEF TypeOK, WithWork
  <2>4. passed' \in [Replicas -> SUBSET Occurrences]
    BY <2>0, <2>2 DEF TypeOK
  <2>. QED BY <2>1, <2>3, <2>4 DEF TypeOK
<1>5. ASSUME NEW t \in ticks, NEW x \in t.todo,
             WinClaim(t, x) \/ LoseClaim(t, x) \/ FailClaim(t, x) \/ Run(t, x)
      PROVE  TypeOK'
  <2>1. t \in TickOf /\ t.owner \in Replicas /\ x \in Occurrences
    BY DEF TypeOK, TickOf
  <2>2. StoreOf(t.owner) \in Stores /\ "redis" \in Stores /\ now + ClaimTtl \in Nat
    BY <2>1, StoreType DEF TypeOK, Times, Stores
  <2>3. ticks' \subseteq TickOf /\ \A u \in ticks' : up[u.owner] /\ u.todo # {}
    BY <1>5, ReplaceType DEF WinClaim, LoseClaim, FailClaim, Run
  <2>4. claims' \in [Stores -> [Occurrences -> Nat]]
    <3>1. CASE claims' = claims
      BY <3>1 DEF TypeOK
    <3>2. CASE claims' = [claims EXCEPT ![StoreOf(t.owner)][x] = now + ClaimTtl]
      BY <2>1, <2>2, <3>2, Update DEF TypeOK
    <3>3. CASE WinClaim(t, x)
      BY <3>2, <3>3 DEF WinClaim
    <3>4. CASE LoseClaim(t, x) \/ FailClaim(t, x) \/ Run(t, x)
      BY <3>1, <3>4 DEF LoseClaim, FailClaim, Run
    <3>. QED BY <1>5, <3>3, <3>4
  <2>5. fired' \in [Stores -> [Occurrences -> Nat]]
    <3>1. fired[StoreOf(t.owner)][x] + 1 \in Nat
      BY <2>1, <2>2 DEF TypeOK
    <3>2. CASE fired' = fired
      BY <3>2 DEF TypeOK
    <3>3. CASE fired' = [fired EXCEPT ![StoreOf(t.owner)][x] = fired[StoreOf(t.owner)][x] + 1]
      BY <2>1, <2>2, <3>1, <3>3, Update DEF TypeOK
    <3>4. \/ fired' = fired
          \/ fired' = [fired EXCEPT ![StoreOf(t.owner)][x] = fired[StoreOf(t.owner)][x] + 1]
      BY <1>5 DEF WinClaim, LoseClaim, FailClaim, Run
    <3>. QED BY <3>2, <3>3, <3>4
  <2>6. passed' \in [Replicas -> SUBSET Occurrences]
    BY <1>5, <2>1 DEF WinClaim, LoseClaim, FailClaim, Run, TypeOK
  <2>7. UNCHANGED <<now, up, last, boot>>
    BY <1>5 DEF WinClaim, LoseClaim, FailClaim, Run
  <2>. QED BY <2>3, <2>4, <2>5, <2>6, <2>7 DEF TypeOK
<1>6. ASSUME NEW t \in ticks, NEW x \in t.todo, ClaimUnheard(t, x) PROVE TypeOK'
  <2>1. /\ claims' \in [Stores -> [Occurrences -> Nat]]
        /\ UNCHANGED <<now, up, last, boot, ticks, fired, passed>>
    BY <1>6, ClaimUnheardWrites
  <2>. QED BY <2>1 DEF TypeOK
<1>7. CASE UNCHANGED vars
  BY <1>7 DEF vars, TypeOK
<1>. QED BY <1>1, <1>2, <1>3, <1>4, <1>5, <1>6, <1>7 DEF Next, Work

\* The shapes of ticks and claims, for any fleet and registry.
THEOREM TypeCorrect == Spec => []TypeOK
BY InitType, NextType, PTL DEF Spec

-----------------------------------------------------------------------------
\* The ways a tick goes on leave its window alone and never add to its list.
LEMMA WorkTicks ==
  ASSUME TypeOK, NEW t \in ticks, NEW x \in t.todo,
         WinClaim(t, x) \/ LoseClaim(t, x) \/ FailClaim(t, x) \/ Run(t, x)
  PROVE  /\ UNCHANGED <<now, up, last, boot>>
         /\ \A v \in ticks' : \E w \in ticks :
              v.owner = w.owner /\ v.since = w.since /\ v.at = w.at /\ v.todo \subseteq w.todo
<1>1. t \in TickOf
  BY DEF TypeOK
<1>2. LET u == Without(t, x) IN
        u.owner = t.owner /\ u.since = t.since /\ u.at = t.at /\ u.todo \subseteq t.todo
  BY <1>1 DEF Without, TickOf
<1>3. LET u == [t EXCEPT !.won = TRUE] IN
        u.owner = t.owner /\ u.since = t.since /\ u.at = t.at /\ u.todo \subseteq t.todo
  BY <1>1 DEF TickOf
<1>4. Replace(t, Without(t, x)) \/ Replace(t, [t EXCEPT !.won = TRUE])
  BY DEF WinClaim, LoseClaim, FailClaim, Run
<1>5. UNCHANGED <<now, up, last, boot>>
  BY DEF WinClaim, LoseClaim, FailClaim, Run
<1>. QED BY <1>2, <1>3, <1>4, <1>5 DEF Replace, WithWork

\* Who has won a claim after a step that wins none had won it before, and is not the tick.
LEMMA FewerWinners ==
  ASSUME TypeOK, NEW t \in ticks, NEW x \in t.todo, Replace(t, Without(t, x))
  PROVE  \A v \in ticks' : \A y : Winner(v, y) => v \in ticks /\ v # t
<1>1. t \in TickOf
  BY DEF TypeOK
<1>2. ~Without(t, x).won
  BY <1>1 DEF Without, TickOf
<1>. QED BY <1>2 DEF Replace, WithWork, Winner

\* What each step writes, entry by entry.
LEMMA WinClaimWrites ==
  ASSUME TypeOK, NEW t \in ticks, NEW x \in t.todo, WinClaim(t, x)
  PROVE  \A s \in Stores, y \in Occurrences :
           claims'[s][y] = IF s = StoreOf(t.owner) /\ y = x THEN now + ClaimTtl ELSE claims[s][y]
<1>1. x \in Occurrences /\ StoreOf(t.owner) \in Stores /\ now + ClaimTtl \in Nat
  BY StoreType DEF TypeOK, TickOf, Times
<1>. QED BY <1>1, Update DEF WinClaim, TypeOK

LEMMA RunWrites ==
  ASSUME TypeOK, NEW t \in ticks, NEW x \in t.todo, Run(t, x)
  PROVE  \A s \in Stores, y \in Occurrences :
           fired'[s][y] = IF s = StoreOf(t.owner) /\ y = x THEN fired[s][y] + 1 ELSE fired[s][y]
<1>1. x \in Occurrences /\ StoreOf(t.owner) \in Stores
  BY StoreType DEF TypeOK, TickOf
<1>2. fired[StoreOf(t.owner)][x] + 1 \in Nat
  BY <1>1 DEF TypeOK
<1>3. fired' = [fired EXCEPT ![StoreOf(t.owner)][x] = fired[StoreOf(t.owner)][x] + 1]
  BY DEF Run
<1>4. \A s \in Stores, y \in Occurrences :
        fired'[s][y] = IF s = StoreOf(t.owner) /\ y = x THEN fired[StoreOf(t.owner)][x] + 1
                       ELSE fired[s][y]
  BY <1>1, <1>2, <1>3, Update DEF TypeOK
<1>. QED BY <1>4

\* A new tick looks at the window since the last one.
LEMMA TickAdds ==
  ASSUME TypeOK, NEW r \in Replicas, Tick(r)
  PROVE  \A t \in ticks' : t \in ticks \/
           /\ t.owner = r /\ t.since = last[r] /\ t.at = now /\ ~t.won
           /\ \A x \in t.todo : t.since < x[2] /\ x[2] <= t.at
<1>1. PICK live \in SUBSET Jobs :
        ticks' = ticks \cup WithWork(
          [owner |-> r, since |-> last[r], at |-> now, todo |-> DueFor(live, last[r], now),
           won |-> FALSE])
  BY DEF Tick
<1>2. \A x \in DueFor(live, last[r], now) : last[r] < x[2] /\ x[2] <= now
  BY DueInWindow DEF TypeOK
<1>. QED BY <1>1, <1>2 DEF WithWork

-----------------------------------------------------------------------------
\* The windows, initially and in every step.
LEMMA InitTimes == Init => TimesSound /\ WinnersClaimed
BY DEF Init, TimesSound, WinnersClaimed

LEMMA NextTimes == TypeOK /\ TimesSound /\ [Next]_vars => TimesSound'
<1> SUFFICES ASSUME TypeOK, TimesSound, [Next]_vars PROVE TimesSound'
  OBVIOUS
<1>0. /\ now \in Nat /\ \A r \in Replicas : last[r] \in Nat /\ boot[r] \in Nat
      /\ \A t \in ticks : t.owner \in Replicas /\ t.since \in Nat /\ t.at \in Nat
  BY DEF TypeOK, Times, TickOf
<1>1. CASE Advance
  BY <1>0, <1>1 DEF Advance, TimesSound, TypeOK
<1>2. ASSUME NEW r \in Replicas, Boot(r) PROVE TimesSound'
  BY <1>0, <1>2 DEF Boot, TimesSound, TypeOK
<1>3. ASSUME NEW r \in Replicas, Crash(r) PROVE TimesSound'
  BY <1>0, <1>3 DEF Crash, TimesSound, TypeOK
<1>4. ASSUME NEW r \in Replicas, Tick(r) PROVE TimesSound'
  <2>1. /\ up[r] /\ last' = [last EXCEPT ![r] = now]
        /\ UNCHANGED <<now, up, boot>>
    BY <1>4 DEF Tick
  <2>2. \A q \in Replicas :
          last'[q] <= now /\ boot[q] <= last'[q] /\ (up[q] => now - last'[q] <= MaxGap)
    BY <1>0, <2>1 DEF TimesSound, TypeOK
  <2>3. now - last[r] <= MaxGap
    BY <2>1 DEF TimesSound
  <2>4. \A t \in ticks' :
          /\ t.at <= now /\ now - t.at <= MaxLag /\ t.at - t.since <= MaxGap
          /\ \A x \in t.todo : t.since < x[2] /\ x[2] <= t.at
    BY <1>0, <1>4, <2>3, TickAdds DEF TimesSound
  <2>. QED BY <2>1, <2>2, <2>4 DEF TimesSound
<1>5. ASSUME NEW t \in ticks, NEW x \in t.todo,
             WinClaim(t, x) \/ LoseClaim(t, x) \/ FailClaim(t, x) \/ Run(t, x)
      PROVE  TimesSound'
  BY <1>5, WorkTicks DEF TimesSound
<1>6. CASE UNCHANGED <<now, up, last, boot, ticks>>
  BY <1>6 DEF TimesSound
<1>. QED BY <1>1, <1>2, <1>3, <1>4, <1>5, <1>6 DEF Next, Work, ClaimUnheard, vars

\* An occurrence a tick has yet to see to lies between its window's start and now.
LEMMA TodoTimes ==
  ASSUME TypeOK, TimesSound, NEW t \in ticks, NEW x \in t.todo
  PROVE  /\ x \in Occurrences /\ x[2] \in Nat /\ now \in Nat /\ t.since \in Nat
         /\ t.since < x[2] /\ x[2] <= now /\ now < x[2] + MaxGap + MaxLag
<1>1. t.since \in Nat /\ t.at \in Nat /\ now \in Nat /\ x \in Occurrences
  BY DEF TypeOK, TickOf, Times
<1>2. x[2] \in Nat
  BY <1>1 DEF Occurrences, Times
<1>. QED BY <1>1, <1>2 DEF TimesSound

LEMMA NextClaimed == TypeOK /\ TimesSound /\ WinnersClaimed /\ [Next]_vars => WinnersClaimed'
<1> SUFFICES ASSUME TypeOK, TimesSound, WinnersClaimed, [Next]_vars,
                    NEW v \in ticks', NEW y \in Occurrences, Winner(v, y)
             PROVE  claims'[StoreOf(v.owner)][y] >= y[2] + ClaimTtl
  BY DEF WinnersClaimed, Winner, IsNext, Before
<1>0. /\ y[2] \in Nat /\ now \in Nat
      /\ \A t \in ticks : t.owner \in Replicas /\ StoreOf(t.owner) \in Stores
  BY StoreType DEF TypeOK, TickOf, Times, Occurrences
<1>1. CASE Advance \/ (\E r \in Replicas : Boot(r)) \/ UNCHANGED vars
  BY <1>1 DEF Advance, Boot, vars, WinnersClaimed
<1>2. ASSUME NEW r \in Replicas, Crash(r)
      PROVE  claims'[StoreOf(v.owner)][y] >= y[2] + ClaimTtl
  <2>1. v \in ticks /\ v.owner # r
    BY <1>2 DEF Crash
  <2>2. StoreOf(v.owner) # r
    BY <2>1 DEF StoreOf
  <2>3. claims'[StoreOf(v.owner)] = claims[StoreOf(v.owner)]
    BY <1>0, <1>2, <2>1, <2>2 DEF Crash, TypeOK
  <2>. QED BY <2>1, <2>3 DEF WinnersClaimed
<1>3. ASSUME NEW r \in Replicas, Tick(r)
      PROVE  claims'[StoreOf(v.owner)][y] >= y[2] + ClaimTtl
  <2>1. v \in ticks
    BY <1>3, TickAdds DEF Winner
  <2>. QED BY <1>3, <2>1 DEF Tick, WinnersClaimed
<1>4. ASSUME NEW t \in ticks, NEW x \in t.todo, WinClaim(t, x)
      PROVE  claims'[StoreOf(v.owner)][y] >= y[2] + ClaimTtl
  <2>0. (v \in ticks /\ v # t) \/ v = [t EXCEPT !.won = TRUE]
    BY <1>4 DEF WinClaim, Replace, WithWork
  <2>1. x[2] <= now
    BY TodoTimes
  <2>2. CASE v \in ticks /\ v # t
    <3>1. claims[StoreOf(v.owner)][y] >= y[2] + ClaimTtl
      BY <2>2 DEF WinnersClaimed
    <3>. QED BY <1>0, <1>4, <2>1, <2>2, <3>1, WinClaimWrites
  <2>3. CASE v = [t EXCEPT !.won = TRUE]
    <3>1. t \in TickOf
      BY DEF TypeOK
    <3>2. v.owner = t.owner /\ v.todo = t.todo
      BY <2>3, <3>1 DEF TickOf
    <3>3. y = x
      <4>1. x \in Occurrences /\ y \in t.todo /\ Before(x, y) /\ Before(y, x)
        BY <1>4, <3>2, TodoTimes DEF WinClaim, IsNext, Winner
      <4>2. /\ x = <<x[1], x[2]>> /\ y = <<y[1], y[2]>>
            /\ x[1] \in Nat /\ x[2] \in Nat /\ y[1] \in Nat /\ y[2] \in Nat
        BY <4>1, Pairs
      <4>3. x[1] = y[1] /\ x[2] = y[2]
        BY <4>1, <4>2 DEF Before
      <4>. QED BY <4>2, <4>3
    <3>. QED BY <1>0, <1>4, <2>1, <3>2, <3>3, WinClaimWrites
  <2>. QED BY <2>0, <2>2, <2>3
<1>5. ASSUME NEW t \in ticks, NEW x \in t.todo, LoseClaim(t, x) \/ FailClaim(t, x) \/ Run(t, x)
      PROVE  claims'[StoreOf(v.owner)][y] >= y[2] + ClaimTtl
  <2>1. v \in ticks
    BY <1>5, FewerWinners DEF LoseClaim, FailClaim, Run
  <2>. QED BY <1>5, <2>1 DEF LoseClaim, FailClaim, Run, WinnersClaimed
<1>6. ASSUME NEW t \in ticks, NEW x \in t.todo, ClaimUnheard(t, x)
      PROVE  claims'[StoreOf(v.owner)][y] >= y[2] + ClaimTtl
  <2>1. v \in ticks
    BY <1>6, ClaimUnheardWrites
  <2>2. x[2] <= now
    BY TodoTimes
  <2>3. claims[StoreOf(v.owner)][y] >= y[2] + ClaimTtl
    BY <2>1 DEF WinnersClaimed
  <2>. QED BY <1>0, <1>6, <2>1, <2>2, <2>3, ClaimUnheardWrites
<1>. QED BY <1>1, <1>2, <1>3, <1>4, <1>5, <1>6 DEF Next, Work

-----------------------------------------------------------------------------
\* Nothing that ran, and nothing that is won, can be claimed again.
LEMMA TooEarly ==
  ASSUME Timely, IInv, Once, NEW t \in ticks, NEW x \in t.todo, ~Claimed(StoreOf(t.owner), x)
  PROVE  /\ fired[StoreOf(t.owner)][x] = 0
         /\ \A u \in ticks : StoreOf(u.owner) = StoreOf(t.owner) => ~Winner(u, x)
<1> DEFINE s == StoreOf(t.owner)
<1>0. /\ x \in Occurrences /\ x[2] \in Nat /\ now \in Nat /\ t.since \in Nat
      /\ t.since < x[2] /\ now < x[2] + MaxGap + MaxLag
  BY TodoTimes DEF IInv
<1>1. t.owner \in Replicas /\ s \in Stores
  BY StoreType DEF IInv, TypeOK, TickOf
<1>2. claims[s][x] \in Nat /\ fired[s][x] \in Nat
  BY <1>0, <1>1 DEF IInv, TypeOK
<1>3. ~(claims[s][x] >= x[2] + ClaimTtl)
  BY <1>0, <1>2 DEF Timely, Claimed
<1>4. ~Forgotten(s, x)
  <2>1. s \in Replicas => t.owner = s
    BY <1>1 DEF StoreOf
  <2>. QED BY <1>0, <2>1 DEF Forgotten
<1>5. fired[s][x] = 0
  BY <1>0, <1>1, <1>2, <1>3, <1>4 DEF Once, FiredSound
<1>6. \A u \in ticks : StoreOf(u.owner) = s => ~Winner(u, x)
  BY <1>0, <1>3 DEF IInv, WinnersClaimed
<1>. QED BY <1>5, <1>6

\* A lost memory stays forgotten as long as the step touches neither the windows' starts nor
\* who is up.
LEMMA ForgottenStays ==
  ASSUME UNCHANGED <<up, last>>, NEW s, NEW x, Forgotten(s, x),
         \A v \in ticks' : \E w \in ticks : v.owner = w.owner /\ v.since = w.since
  PROVE  Forgotten(s, x)'
BY DEF Forgotten

LEMMA NextOnce ==
  ASSUME Timely, IInv, Once, [Next]_vars
  PROVE  Once'
<1> USE DEF IInv, Once
<1>0. /\ now \in Nat /\ \A x \in Occurrences : x[2] \in Nat
      /\ \A s \in Stores, x \in Occurrences : claims[s][x] \in Nat /\ fired[s][x] \in Nat
      /\ \A t \in ticks : t.owner \in Replicas /\ StoreOf(t.owner) \in Stores
      /\ \A r \in Replicas : last[r] \in Nat /\ last[r] <= now
  BY StoreType, Pairs DEF TypeOK, TickOf, Times, TimesSound
<1>1. CASE Advance \/ UNCHANGED vars
  <2>1. /\ UNCHANGED <<up, last, ticks, claims, fired>> /\ now' >= now /\ now' \in Nat
    BY <1>0, <1>1 DEF Advance, vars
  <2>2. WinnersAlone'
    BY <2>1 DEF WinnersAlone, Winner, IsNext
  <2>3. FiredSound'
    BY <1>0, <2>1 DEF FiredSound, Forgotten
  <2>. QED BY <2>2, <2>3
<1>2. ASSUME NEW r \in Replicas, Boot(r) PROVE Once'
  <2>1. /\ UNCHANGED <<now, ticks, claims, fired>>
        /\ up' = [up EXCEPT ![r] = TRUE] /\ last' = [last EXCEPT ![r] = now]
    BY <1>2 DEF Boot
  <2>2. WinnersAlone'
    BY <2>1 DEF WinnersAlone, Winner, IsNext
  <2>3. \A s \in Stores, x \in Occurrences : x[2] <= now /\ Forgotten(s, x) => Forgotten(s, x)'
    BY <1>0, <2>1 DEF Forgotten, TypeOK
  <2>. QED BY <2>1, <2>2, <2>3 DEF FiredSound
<1>3. ASSUME NEW r \in Replicas, Crash(r) PROVE Once'
  <2>1. /\ UNCHANGED <<now, fired>> /\ up' = [up EXCEPT ![r] = FALSE]
        /\ last' = [last EXCEPT ![r] = 0]
        /\ ticks' = {t \in ticks : t.owner # r}
        /\ claims' = [claims EXCEPT ![r] = [x \in Occurrences |-> 0]]
    BY <1>3 DEF Crash
  <2>2. WinnersAlone'
    BY <2>1 DEF WinnersAlone, Winner, IsNext
  <2>3. \A x \in Occurrences : Forgotten(r, x)'
    BY <2>1 DEF Forgotten, TypeOK
  <2>4. \A s \in Stores, x \in Occurrences : s # r =>
          claims'[s][x] = claims[s][x] /\ (Forgotten(s, x) => Forgotten(s, x)')
    BY <2>1 DEF Forgotten, TypeOK
  <2>5. FiredSound'
    BY <2>1, <2>3, <2>4 DEF FiredSound
  <2>. QED BY <2>2, <2>5
<1>4. ASSUME NEW r \in Replicas, Tick(r) PROVE Once'
  <2>1. UNCHANGED <<now, up, claims, fired>> /\ last' = [last EXCEPT ![r] = now] /\ up[r]
    BY <1>4 DEF Tick
  <2>2. \A t \in ticks' : \A x : Winner(t, x) => t \in ticks
    BY <1>4, TickAdds DEF Winner
  <2>3. WinnersAlone'
    BY <2>1, <2>2 DEF WinnersAlone, Winner, IsNext
  <2>4. \A s \in Stores, x \in Occurrences :
          x[2] <= now /\ Forgotten(s, x) => Forgotten(s, x)'
    BY <1>0, <1>4, <2>1, TickAdds DEF Forgotten, TypeOK
  <2>5. FiredSound'
    BY <2>1, <2>4 DEF FiredSound
  <2>. QED BY <2>3, <2>5
<1>5. ASSUME NEW t \in ticks, NEW x \in t.todo,
             WinClaim(t, x) \/ LoseClaim(t, x) \/ FailClaim(t, x) \/ Run(t, x)
      PROVE  Once'
  <2>0. /\ UNCHANGED <<now, up, last>>
        /\ \A s \in Stores, y \in Occurrences : Forgotten(s, y) => Forgotten(s, y)'
    BY <1>5, WorkTicks, ForgottenStays
  <2>1. x \in Occurrences /\ x[2] \in Nat /\ x[2] <= now
    BY TodoTimes
  <2>2. CASE WinClaim(t, x)
    <3>1. UNCHANGED fired
      BY <2>2 DEF WinClaim
    <3>2. /\ fired[StoreOf(t.owner)][x] = 0
          /\ \A u \in ticks : StoreOf(u.owner) = StoreOf(t.owner) => ~Winner(u, x)
      BY <2>2, TooEarly DEF WinClaim
    <3>3. FiredSound'
      BY <1>0, <2>0, <2>1, <2>2, <3>1, WinClaimWrites DEF FiredSound
    <3> DEFINE w == [t EXCEPT !.won = TRUE]
    <3>4. t \in TickOf
      BY DEF TypeOK
    <3>5. w.owner = t.owner /\ w.todo = t.todo
      BY <3>4 DEF TickOf
    <3>6. \A v \in ticks' : v = w \/ v \in ticks
      BY <2>2 DEF WinClaim, Replace, WithWork
    <3> HIDE DEF w
    <3>7. \A y \in Occurrences : Winner(w, y) => y = x
      <4> SUFFICES ASSUME NEW y \in Occurrences, Winner(w, y) PROVE y = x
        OBVIOUS
      <4>1. Before(x, y) /\ Before(y, x)
        BY <2>2, <3>5 DEF WinClaim, IsNext, Winner
      <4>2. /\ x = <<x[1], x[2]>> /\ y = <<y[1], y[2]>>
            /\ x[1] \in Nat /\ x[2] \in Nat /\ y[1] \in Nat /\ y[2] \in Nat
        BY <2>1, Pairs
      <4>3. x[1] = y[1] /\ x[2] = y[2]
        BY <4>1, <4>2 DEF Before
      <4>. QED BY <4>2, <4>3
    <3>8. WinnersAlone'
      <4> SUFFICES ASSUME NEW v \in ticks', NEW y \in Occurrences, Winner(v, y)
                   PROVE  /\ fired[StoreOf(v.owner)][y] = 0
                          /\ \A u \in ticks' :
                               Winner(u, y) /\ StoreOf(u.owner) = StoreOf(v.owner) => u = v
        BY <3>1 DEF WinnersAlone, Winner, IsNext
      <4>1. CASE v = w
        BY <3>2, <3>5, <3>6, <3>7, <4>1
      <4>2. CASE v \in ticks /\ v # w
        BY <3>2, <3>5, <3>6, <3>7, <4>2 DEF WinnersAlone
      <4>. QED BY <3>6, <4>1, <4>2
    <3>. QED BY <3>3, <3>8
  <2>3. CASE LoseClaim(t, x) \/ FailClaim(t, x)
    <3>1. UNCHANGED <<claims, fired>>
      BY <2>3 DEF LoseClaim, FailClaim
    <3>2. \A v \in ticks' : \A y : Winner(v, y) => v \in ticks
      BY <2>3, FewerWinners DEF LoseClaim, FailClaim
    <3>3. WinnersAlone'
      BY <3>1, <3>2 DEF WinnersAlone, Winner, IsNext
    <3>4. FiredSound'
      BY <2>0, <3>1 DEF FiredSound
    <3>. QED BY <3>3, <3>4
  <2>4. CASE Run(t, x)
    <3>1. UNCHANGED claims /\ Winner(t, x)
      BY <2>4 DEF Run, Winner
    <3>2. \A v \in ticks' : \A y : Winner(v, y) => v \in ticks /\ v # t
      BY <2>4, FewerWinners DEF Run
    <3>3. \A s \in Stores, y \in Occurrences :
            fired'[s][y] = IF s = StoreOf(t.owner) /\ y = x THEN fired[s][y] + 1 ELSE fired[s][y]
      BY <2>4, RunWrites
    <3>4. fired[StoreOf(t.owner)][x] = 0 /\ claims[StoreOf(t.owner)][x] >= x[2] + ClaimTtl
      BY <2>1, <3>1 DEF WinnersAlone, WinnersClaimed
    <3>5. WinnersAlone'
      <4> SUFFICES ASSUME NEW v \in ticks', NEW y \in Occurrences, Winner(v, y)
                   PROVE  /\ fired'[StoreOf(v.owner)][y] = 0
                          /\ \A u \in ticks' :
                               Winner(u, y) /\ StoreOf(u.owner) = StoreOf(v.owner) => u = v
        BY DEF WinnersAlone, Winner, IsNext
      <4>1. v \in ticks /\ v # t
        BY <3>2
      <4>2. ~(StoreOf(v.owner) = StoreOf(t.owner) /\ y = x)
        BY <2>1, <3>1, <4>1 DEF WinnersAlone
      <4>. QED BY <1>0, <3>2, <3>3, <4>1, <4>2 DEF WinnersAlone
    <3>6. FiredSound'
      BY <1>0, <2>0, <2>1, <3>1, <3>3, <3>4 DEF FiredSound
    <3>. QED BY <3>5, <3>6
  <2>. QED BY <1>5, <2>2, <2>3, <2>4
<1>6. ASSUME NEW t \in ticks, NEW x \in t.todo, ClaimUnheard(t, x) PROVE Once'
  <2>1. /\ UNCHANGED <<now, up, last, ticks, fired>>
        /\ \A s \in Stores, y \in Occurrences :
             claims'[s][y] = claims[s][y] \/ (y = x /\ claims'[s][y] = now + ClaimTtl)
    BY <1>6, ClaimUnheardWrites
  <2>2. x \in Occurrences /\ x[2] \in Nat /\ x[2] <= now
    BY TodoTimes
  <2>3. WinnersAlone'
    BY <2>1 DEF WinnersAlone, Winner, IsNext
  <2>4. \A s \in Stores, y \in Occurrences : Forgotten(s, y) => Forgotten(s, y)'
    BY <2>1, ForgottenStays
  <2>5. FiredSound'
    BY <1>0, <2>1, <2>2, <2>4 DEF FiredSound
  <2>. QED BY <2>3, <2>5
<1>. QED BY <1>1, <1>2, <1>3, <1>4, <1>5, <1>6 DEF Next, Work

LEMMA InitOnce == Init => Once
BY DEF Init, Once, WinnersAlone, FiredSound

LEMMA Invariance == Spec => []IInv
<1>1. Init => IInv
  BY InitType, InitTimes DEF IInv
<1>2. IInv /\ [Next]_vars => IInv'
  BY NextType, NextTimes, NextClaimed DEF IInv
<1>. QED BY <1>1, <1>2, PTL DEF Spec

\* "Overlapping ticks or multiple replicas fire each occurrence exactly once"
\* (job-scheduler.ts:20), as far as at most once goes: for any fleet, with Redis or without,
\* through crashes, restarts and claims that lapse, if no tick outlives its claims.
THEOREM OccurrencesFireOnce == Spec => []FiresAtMostOnce
<1>1. CASE Timely
  <2>1. Init => Once
    BY InitOnce
  <2>2. IInv /\ Once /\ [Next]_vars => Once'
    BY <1>1, NextOnce
  <2>3. Once => FiresAtMostOnce
    BY DEF Once, FiredSound, FiresAtMostOnce
  <2>. QED BY <2>1, <2>2, <2>3, Invariance, PTL DEF Spec
<1>2. CASE ~Timely
  <2>1. FiresAtMostOnce
    BY <1>2 DEF Timely, FiresAtMostOnce
  <2>. QED BY <2>1, PTL
<1>. QED BY <1>1, <1>2

-----------------------------------------------------------------------------
\* The next boundary of an interval.
LEMMA NextBoundary ==
  ASSUME NEW j \in Jobs, Schedule[j].period \in Nat \ {0}, NEW b \in Nat, Boundary(j, b)
  PROVE  Boundary(j, b + Schedule[j].period)
<1> DEFINE p == Schedule[j].period
<1>1. PICK k \in 0 .. b : b = k * p
  BY DEF Boundary
<1>2. p \in Nat /\ p >= 1 /\ k \in Nat
  OBVIOUS
<1> HIDE DEF p
<1>3. b + p = (k + 1) * p /\ k + 1 \in 0 .. b + p
  BY <1>1, <1>2
<1>. QED BY <1>3 DEF Boundary, p

\* What is due in a tick's window and what fell due since are the same, for a window that is
\* not longer than the look back.
LEMMA WindowIsCovered ==
  ASSUME TypeOK, TimesSound, MaxGap <= LookBack, NEW r \in Replicas, NEW j \in Jobs,
         Tick(r), NEW b \in FellDue(r, j)', b > last[r]
  PROVE  b \in OccurrencesInWindow(j, last[r], now)
<1>0. /\ last[r] \in Nat /\ boot[r] \in Nat /\ boot[r] <= last[r] /\ now \in Nat
      /\ now - last[r] <= MaxGap
  BY DEF TypeOK, TimesSound, Times, Tick
<1>1. boot' = boot /\ last'[r] = now
  BY DEF Tick, TypeOK
<1>2. b \in boot[r] + 1 .. now
  BY <1>1 DEF FellDue
<1>3. CASE Schedule[j].kind = "interval"
  <2> DEFINE p == Schedule[j].period
  <2>1. p \in Nat \ {0}
    BY <1>3 DEF Schedules
  <2>2. Boundary(j, b) /\ \A c \in boot[r] + 1 .. now : Boundary(j, c) => c <= b
    BY <1>1, <1>3 DEF FellDue
  <2>3. Boundary(j, b + p)
    BY <1>0, <1>2, <2>1, <2>2, NextBoundary
  <2>4. b + p > now
    BY <1>0, <1>2, <2>1, <2>2, <2>3
  <2>5. b \in last[r] + 1 .. now
    BY <1>0, <1>2
  <2>. QED BY <1>3, <2>2, <2>4, <2>5 DEF OccurrencesInWindow
<1>4. CASE Schedule[j].kind # "interval"
  <2>1. b \in Schedule[j].minutes
    BY <1>4 DEF FellDue
  <2>2. b >= now - LookBack /\ last[r] < b /\ b <= now
    BY <1>0, <1>2
  <2>. QED BY <1>4, <2>1, <2>2 DEF OccurrencesInWindow
<1>. QED BY <1>3, <1>4

\* What was handled stays handled while the replica is up.
LEMMA WorkKeepsHandled ==
  ASSUME IInv, NEW t \in ticks, NEW x \in t.todo,
         WinClaim(t, x) \/ LoseClaim(t, x) \/ FailClaim(t, x) \/ Run(t, x),
         NEW r \in Replicas, NEW y \in Occurrences, Handled(r, y)
  PROVE  Handled(r, y)'
<1> USE DEF IInv
<1>0. /\ x \in Occurrences /\ now \in Nat /\ now > 0 /\ x[2] \in Nat /\ x[2] > 0
      /\ \A q \in Replicas : StoreOf(q) \in Stores
      /\ \A s \in Stores, z \in Occurrences : claims[s][z] \in Nat
      /\ t \in TickOf /\ t.owner \in Replicas
  BY TodoTimes, StoreType DEF TypeOK, TickOf
<1>1. \A s \in Stores, z \in Occurrences : claims[s][z] > 0 => claims'[s][z] > 0
  <2>1. CASE WinClaim(t, x)
    BY <1>0, <2>1, WinClaimWrites
  <2>2. CASE LoseClaim(t, x) \/ FailClaim(t, x) \/ Run(t, x)
    BY <2>2 DEF LoseClaim, FailClaim, Run
  <2>. QED BY <2>1, <2>2
<1>2. \A q \in Replicas : passed[q] \subseteq passed'[q]
  BY DEF WinClaim, LoseClaim, FailClaim, Run, TypeOK
<1>3. claims'[StoreOf(t.owner)][x] > 0 \/ x \in passed'[t.owner]
  <2>1. CASE WinClaim(t, x)
    BY <1>0, <2>1, WinClaimWrites
  <2>2. CASE FailClaim(t, x)
    BY <1>0, <2>2 DEF FailClaim, TypeOK
  <2>3. CASE LoseClaim(t, x)
    BY <1>0, <2>3 DEF LoseClaim, Claimed
  <2>4. CASE Run(t, x)
    BY <1>0, <2>4 DEF Run, WinnersClaimed, Winner
  <2>. QED BY <2>1, <2>2, <2>3, <2>4
<1>4. ASSUME NEW u \in ticks, u.owner = r, y \in u.todo
      PROVE  Handled(r, y)'
  <2>1. CASE u # t
    <3>1. u \in ticks'
      BY <2>1 DEF WinClaim, LoseClaim, FailClaim, Run, Replace
    <3>. QED BY <1>4, <3>1 DEF Handled
  <2>2. CASE u = t /\ y = x
    BY <1>3, <1>4, <2>2 DEF Handled
  <2>3. CASE u = t /\ y # x
    <3>1. /\ Without(t, x).owner = t.owner /\ y \in Without(t, x).todo
          /\ [t EXCEPT !.won = TRUE].owner = t.owner /\ y \in [t EXCEPT !.won = TRUE].todo
      BY <1>0, <1>4, <2>3 DEF Without, TickOf
    <3>2. Without(t, x) \in ticks' \/ [t EXCEPT !.won = TRUE] \in ticks'
      BY <3>1 DEF WinClaim, LoseClaim, FailClaim, Run, Replace, WithWork
    <3>. QED BY <1>4, <2>3, <3>1, <3>2 DEF Handled
  <2>. QED BY <2>1, <2>2, <2>3
<1>. QED BY <1>0, <1>1, <1>2, <1>4 DEF Handled

LEMMA NextOverlooksNone ==
  ASSUME IInv, NoneOverlooked, [Next]_vars
  PROVE  NoneOverlooked'
<1> SUFFICES ASSUME MaxGap <= LookBack, NEW r \in Replicas, NEW j \in Jobs, up'[r],
                    NEW b \in FellDue(r, j)'
             PROVE  Handled(r, <<j, b>>)'
  BY DEF NoneOverlooked
<1> USE DEF IInv
<1> DEFINE y == <<j, b>>
<1>0. /\ last[r] \in Times /\ boot[r] \in Times /\ now \in Times /\ StoreOf(r) \in Stores
      /\ last[r] <= now
  BY StoreType DEF TypeOK, TimesSound
<1>1. ASSUME UNCHANGED <<last, boot>>, up[r]
      PROVE  y \in Occurrences /\ Handled(r, y)
  <2>1. b \in FellDue(r, j)
    BY <1>1 DEF FellDue
  <2>2. b \in Times
    BY <1>0, <2>1 DEF FellDue, Times
  <2>. QED BY <1>1, <2>1, <2>2 DEF NoneOverlooked, Occurrences
<1>2. CASE Advance \/ UNCHANGED vars
  BY <1>1, <1>2 DEF Advance, vars, Handled
<1>3. ASSUME NEW q \in Replicas, Boot(q) PROVE Handled(r, y)'
  <2>1. CASE q = r
    <3>1. boot'[r] = now /\ last'[r] = now
      BY <1>3, <2>1 DEF Boot, TypeOK
    <3>2. FellDue(r, j)' = {}
      BY <1>0, <3>1 DEF FellDue, Times
    <3>. QED BY <3>2
  <2>2. CASE q # r
    <3>1. last'[r] = last[r] /\ boot'[r] = boot[r] /\ up[r]
      BY <1>3, <2>2 DEF Boot, TypeOK
    <3>2. b \in FellDue(r, j)
      BY <3>1 DEF FellDue
    <3>. QED BY <1>3, <3>1, <3>2 DEF NoneOverlooked, Handled, Boot
  <2>. QED BY <2>1, <2>2
<1>4. ASSUME NEW q \in Replicas, Crash(q) PROVE Handled(r, y)'
  <2>1. q # r /\ up[r] /\ last'[r] = last[r] /\ boot'[r] = boot[r]
    BY <1>4 DEF Crash, TypeOK
  <2>2. StoreOf(r) # q
    BY <2>1 DEF StoreOf
  <2>3. claims'[StoreOf(r)] = claims[StoreOf(r)] /\ passed'[r] = passed[r]
    BY <1>0, <1>4, <2>1, <2>2 DEF Crash, TypeOK
  <2>4. b \in FellDue(r, j)
    BY <2>1 DEF FellDue
  <2>5. Handled(r, y)
    BY <2>1, <2>4 DEF NoneOverlooked
  <2>6. \A t \in ticks : t.owner = r => t \in ticks'
    BY <1>4, <2>1 DEF Crash
  <2>. QED BY <2>3, <2>5, <2>6 DEF Handled
<1>5. ASSUME NEW q \in Replicas, Tick(q) PROVE Handled(r, y)'
  <2>1. /\ boot' = boot /\ up' = up /\ claims' = claims /\ ticks \subseteq ticks'
        /\ passed[r] \subseteq passed'[r]
        /\ r # q => last'[r] = last[r]
    BY <1>5 DEF Tick, TypeOK
  <2>2. Handled(r, y) => Handled(r, y)'
    BY <2>1 DEF Handled
  <2>3. CASE r # q
    <3>1. b \in FellDue(r, j)
      BY <2>1, <2>3 DEF FellDue
    <3>. QED BY <2>1, <2>2, <3>1 DEF NoneOverlooked
  <2>4. CASE r = q /\ b <= last[r]
    <3>1. last'[r] = now
      BY <1>5, <2>4 DEF Tick, TypeOK
    <3>2. b \in FellDue(r, j)
      BY <1>0, <2>1, <2>4, <3>1 DEF FellDue, Times
    <3>. QED BY <2>1, <2>2, <3>2 DEF NoneOverlooked
  <2>5. CASE r = q /\ ~(b <= last[r])
    <3>1. last'[r] = now
      BY <1>5, <2>5 DEF Tick, TypeOK
    <3>2. b \in Times /\ b > last[r]
      BY <1>0, <2>1, <2>5, <3>1 DEF FellDue, Times
    <3>3. b \in OccurrencesInWindow(j, last[r], now)
      BY <1>5, <2>5, <3>2, WindowIsCovered
    <3>4. PICK live \in SUBSET Jobs :
            /\ ticks' = ticks \cup WithWork(
                 [owner |-> r, since |-> last[r], at |-> now,
                  todo |-> DueFor(live, last[r], now), won |-> FALSE])
            /\ passed' = [passed EXCEPT ![r] = @ \cup DueFor(Jobs \ live, last[r], now)]
      BY <1>5, <2>5 DEF Tick
    <3>5. CASE j \in live
      <4>1. y \in DueFor(live, last[r], now)
        BY <3>2, <3>3, <3>5 DEF DueFor
      <4>2. [owner |-> r, since |-> last[r], at |-> now,
             todo |-> DueFor(live, last[r], now), won |-> FALSE] \in ticks'
        BY <3>4, <4>1 DEF WithWork
      <4>. QED BY <4>1, <4>2 DEF Handled
    <3>6. CASE j \notin live
      <4>1. y \in DueFor(Jobs \ live, last[r], now)
        BY <3>2, <3>3, <3>6 DEF DueFor
      <4>2. y \in passed'[r]
        BY <3>4, <4>1 DEF TypeOK
      <4>. QED BY <4>2 DEF Handled
    <3>. QED BY <3>5, <3>6
  <2>. QED BY <2>3, <2>4, <2>5
<1>6. ASSUME NEW t \in ticks, NEW x \in t.todo,
             WinClaim(t, x) \/ LoseClaim(t, x) \/ FailClaim(t, x) \/ Run(t, x)
      PROVE  Handled(r, y)'
  <2>1. UNCHANGED <<last, boot, up>>
    BY <1>6, WorkTicks
  <2>2. y \in Occurrences /\ Handled(r, y)
    BY <1>1, <2>1
  <2> HIDE DEF y
  <2>. QED BY <1>6, <2>2, WorkKeepsHandled
<1>7. ASSUME NEW t \in ticks, NEW x \in t.todo, ClaimUnheard(t, x) PROVE Handled(r, y)'
  <2>1. UNCHANGED <<last, boot, up, ticks, passed>>
    BY <1>7, ClaimUnheardWrites
  <2>2. y \in Occurrences /\ Handled(r, y)
    BY <1>1, <2>1
  <2>3. claims[StoreOf(r)][y] > 0 => claims'[StoreOf(r)][y] > 0
    <3>1. x \in Occurrences /\ x[2] \in Nat /\ now \in Nat /\ now > 0
      BY TodoTimes
    <3> HIDE DEF y
    <3>. QED BY <1>0, <1>7, <2>2, <3>1, ClaimUnheardWrites
  <2> HIDE DEF y
  <2>. QED BY <2>1, <2>2, <2>3 DEF Handled
<1>. QED BY <1>2, <1>3, <1>4, <1>5, <1>6, <1>7 DEF Next, Work

\* "Computes each job's occurrences due in the window since the last tick"
\* (job-scheduler.ts:10-11): for any registry and fleet, nothing falls between two windows, if
\* no window is longer than what a tick looks back at.
THEOREM NothingFallsBetween == Spec => []NoneOverlooked
<1>1. Init => NoneOverlooked
  BY DEF Init, NoneOverlooked
<1>2. IInv /\ NoneOverlooked /\ [Next]_vars => NoneOverlooked'
  BY NextOverlooksNone
<1>. QED BY <1>1, <1>2, Invariance, PTL DEF Spec
=============================================================================
