# Formal models of OmniProject's API gateway

OmniProject is a gateway in front of the project-management backends an organisation already
runs: a TypeScript API server (`src/artifacts/api-server`) that reads and writes through a
*broker*, keeps almost nothing at rest, and adds what backends lack: approvals, dual control, a
tamper-evident audit trail, automation, sessions. It runs as one process or as several replicas
that share a Redis (`src/docs/ops/MULTI-REPLICA.md`).

This directory holds TLA+ models of its core logic, the TLC configurations that check them on
small instances, and proofs, checked by TLAPS, that the most important properties hold for all
values of the constants. Paths below are relative to `src/artifacts/api-server/src` unless they
start with `src/`.

    tlc -workers 2 -config MCReadPath.cfg ReadPath      # a run: configuration, then module
    tlapm ReadPathProofs.tla                            # the proofs of one component

## 1. The system and its hard parts

| Component | State it keeps | Operations | What is hard about it |
|---|---|---|---|
| Approval-chain engine, `lib/approval-chain.ts` | none: a pure function of (definition, state, decision) | start, decide, redirect, bypass | send-backs keep earlier decisions on record |
| Approval service, `lib/approval-service.ts`, challenges of `lib/passkey.ts` | proposals `ac:prop:*`, challenges `pk:chal:*` in the shared store | create, challenge, submit, redirect, bypass | load, several awaits, whole-value save: requests of two replicas overlap; a crash between save and executor |
| Dual control, `lib/dual-control.ts` | queue `dc:prop:*` in the shared store | propose, approve, reject | the executor is awaited between check and save |
| Audit chain, `lib/audit-chain.ts`, `lib/full-backup.ts`, `lib/sealed-file.ts` | chain head, evidence log, their files, backups | seal, flush, dispose, back up, restore | head and log are persisted at different times; restores of old backups |
| The same in a fleet, and the sink of `lib/audit.ts` | one head in the shared store; a buffer per replica | seal by compare-and-set, enqueue, flush | lost races, compare-and-sets that are served twice or late, batches that come back |
| Read path, `broker/cache.ts`, `broker/single-flight.ts`, `broker/index.ts` | cache map, in-flight map, broker singleton | read, write, raw command, reset | fills race clears, joins race writes, resets race reads |
| Shared store, `lib/shared-state.ts` | keys with TTLs, in process or in Redis | get, set, del, cas, incr, list | one `await` each; only cas and incr are read-modify-write; the Redis client resends what was not answered |
| Fleet-wide read cache, `broker/shared-cache.ts` | generation counter and entries in the shared store | read, write | the generation is read, and bumped, in steps of their own |
| Job scheduler, `lib/job-scheduler.ts` | claims in the shared store, `lastRunMs` per replica | tick | claim, then crash; claims that are resent; windows that meet at any moment, minutes that are whole |
| Sessions, `lib/session-registry.ts`, `routes/auth.ts` | sequence marks, session directory, per replica and mirrored | issue, check, slide, revoke | parallel requests with one cookie, each checked again after it slid; fire-and-forget publication and reconciliation |
| Built-in store, `broker/builtin/omnistore.ts` | event log and its projection | commands, replay | applied in memory before it is persisted |
| Rules and automation, `lib/rules-dispatcher.ts`, `lib/domain-event.ts`, autonomous grants of `lib/autonomous-grant.ts` | fan-out budgets, grants and their write counts | emit, dispatch, hold, run, authorize, declare | cascades whose dispatches interleave, budgets that are reset, runs that fail midway |
| Everything else | settings, definition stores, identity, routes, web client, services, generated clients | | mostly pure checks, transforms of rows, files written last-wins, or external protocols |

How they interact. A route builds an actor (`routes/approvals.ts actorFor`) and calls a service;
the services keep their state in the shared store, and each `await` on it is a point where other
requests run, on this replica or another. Executors registered at boot carry approved actions out,
often by writing through the broker. `getBroker()` builds one stack of wrappers around a backend
(autonomous guard, retention capture, key guard, meter, vendor profile, sanitizer, single-flight,
cache, provenance, scope guard, trace) and hands the same stack to every request until
`resetBroker()` drops it. Everything of note is sealed into the audit chain, whose head and log
travel in encrypted backups.

The hazards this code is exposed to are listed in `PROJECT.json`, at their lines; the properties
below are aimed at them.

## 2. What is modelled

| Module | Models | Proofs |
|---|---|---|
| `ApprovalChain` | the engine, as operators | |
| `ApprovalService` | proposals, challenges, requests in flight, crashes, TTLs | `ApprovalProofs` |
| `ApprovalPromise` | the abstract promise of an approval flow | |
| `MCApprovalService` | the people and chains of the TLC instances | |
| `DualControl` | maker-checker | `AdminProofs` |
| `AuditChain` | head, log, files, backups | `AuditChainProofs` |
| `ReadPath` | cache over single-flight over the backend | `ReadPathProofs` |
| `SharedCache` | the fleet-wide cache, over the single-flight of each replica | `SharedCacheProofs` |
| `Scheduler` | heartbeats, windows and claims of several replicas | `SchedulerProofs` |
| `AuditFleet` | the shared chain head, and each replica's sink | `AuditFleetProofs` |
| `AuditLog` | the abstract log that sealing amounts to | |
| `Sessions` | the rotating sequence number of one browser's session | `AdminProofs` |
| `Rules` | events, dispatcher, cascade guards, grants and their caps | `RulesProofs` |

Each `MC` module beside them gives its model the definitions and the symmetry of its instance.

Each operation of the code is an action, cut where the code awaits. An operator that a configured
run compares against the code is called a *mutation*, and its comment says so: it is a plausible
bug of the definition that follows it, and no action of the model refers to it.

### Approvals

`ApprovalChain` splits each engine function that throws into the predicate that says when it does
not throw (`MayDecide`, one conjunct per refusal) and the state it returns. A stage id is its
position in the chain, since ids are unique in a chain and no operation reorders stages; `0` is
the pseudo stage `"bypass"` of an override.

`ApprovalService` keeps `proposals` and `challenges` (the shared store) and, for every request in
flight, `pc`, its arguments in `call` and the proposal it loaded in `copy`. A decision runs

    SubmitDecision -> GetChallenge -> DelChallenge -> GetCredential -> SaveDecision
                   -> RunExecutor -> RecordOutcome          (the last two when approved)

`BypassProposal` joins the same path and stops after `RunExecutor`, since the code records no
outcome; `RedirectProposal` goes straight to `SaveDecision`. A save writes the *whole copy*, so a
later writer overwrites what others wrote since it loaded. `Crash` ends a request between any two
steps and leaves the store as it is. TTLs are `LapseChallenge` and `ExpireProposal`.

Abstractions:

- Left open, as a refusal that may happen at `GetCredential`: whether a passkey is enrolled and the
  assertion verifies. Left open at `SubmitDecision`: whether a responsibility acceptance covers an
  AI's approval of a workflow run (any other AI approval is refused by the model, as in the code).
- A caller presents the challenge stored for it when its request starts. Any other one is refused
  by `consumeChallenge` whatever happens next, because challenges are random and never reissued.
- Reading a proposal and writing its challenge are one step: the challenge's key names the stage,
  so an issue that is overtaken leaves what an issue just before would leave.
- A proposal does not expire under a request in flight (30 days against seconds).
- With the in-process store an `await` of it only yields to other callbacks, but it does yield:
  the interleavings are those of one replica too, and with Redis those of several.

`ApprovalPromise` is the abstract specification: a proposal is settled once, decisions only
accumulate, and its effect is set off at most once and only after approval. `KeepsPromise` says
`ApprovalService` implements it, with `phase` read off the stored status, `hands` the decisions on
record and `effects` the executor count.

### Dual control

`queue` is the shared store; `LoadForApprove`, `RunExecutor` and `Save` are `approve` cut at its
awaits, `LoadForReject` and `Save` are `reject`. The executor may throw, which ends `approve` and
leaves the proposal pending. `started` and `applied` are history variables. An id is used once
(`randomUUID`). Malformed entries (`sanitizeProposal`) are read as absent ones.

### Audit chain

One instance, with `AUDIT_CHAIN_FILE` and a config directory set. `Seal` advances the head, writes
it to its file and appends to the log in memory; `FlushLog` is the debounced write. `Restart`
keeps what is in the files: a crash is a `Restart`, a graceful stop a `FlushLog` and a `Restart`.
`TakeBackup` and `Restore` are `buildFullBackup` and `applyExtraStores` (the log first, then the
head). The audit event that a backup or restore route writes of itself is a `Seal` of its own.

A hash is the sequence of everything that went into it, which is what an injective hash is for.
The retention window leaves a suffix of the log, since events age in the order they were sealed;
how long it is, is left open. Writes of sealed files are atomic (temporary file and rename) and
are taken to succeed.

### Read path

`flight` maps each broker stack and key to the upstream call in flight; `BackendReads` is the
moment the backend looks at its data, `FlightEnds` the arrival of its reply or a rejection. Those
who share a flight run on one at a time (`Deliver`), each through its own cache layer, which fills
the cache once more. A write (`BeginWrite`: `createProject`, `updateProject`, `writeIssue`,
`createTaskItem`, `addRaid`, or a raw command) clears the cache and is then sent: it may be applied
(`ApplyWrite`), refused, or given up on and applied later (`ApplyLate`). `resetBroker` moves on to a new
stack with
an empty cache and no flights, while those who wait on the old one still do.

The backend's data is the number of writes it has applied, so every write may matter to every
key. A key is identity, scope, method and arguments. The victim of an eviction is any entry (the
code takes the oldest). An adaptive TTL that declines to cache is the branch of `Deliver` that
leaves the store alone. Changes made to the backend by others are left out: no layer here could
notice them before the TTL. The optional mutators that are not in `WRITE_METHODS` (`updateTask`,
`addTaskComment`, `writeWikiDoc` and the like, `broker/cache.ts:29-31`, `115-116`) are such changes,
since they are passed through without clearing the cache; `StaleOnlyByOverlap` does not speak of them.

`overlapped` in an answer is a history bit: a write was under way at some moment between the
sending of its upstream call and its delivery.

### Fleet-wide read cache

`gen` and `entry` are the shared store's generation counter and the answers filed under each
generation; `fills` are `set` calls nobody waits for. A read takes the generation
(`TakeGeneration`), looks its entry up (`Hit`, `Miss`), and on a miss joins or starts an upstream
call on its own replica: `broker/index.ts:82-92` puts single-flight beneath this cache. A write
bumps the generation after it has returned. `SilentWrite` is a change the cache does not hear of: a
raw command (`brokerCommand` clears only the other cache), a mutator that is not in `WRITE_METHODS`,
or one made to the backend by others. One
key is modelled, since keys never meet. `visible`, `floor` and `joined` are history: what the
bumps so far make visible, what a read could know of, and whether its answer came out of a call that
was sent before.

### Job scheduler

`Tick` is the timer's callback: it moves `last` on and leaves a tick with the occurrences of its
window, which claims and runs them one by one (`WinClaim`, `LoseClaim`, `FailClaim`, `Run`) while
later ticks may start. `claims` holds, per store, when each claim lapses; a replica without Redis is
a store of its own. `ClaimUnheard` is a claim that is written while the connection drops before the
reply: `new Redis(url)` (`lib/shared-state.ts:201`) keeps the client's default of sending such a
command again, so the next step finds the claim held, or the call throws.

`Advance` is the clock, whose steps are parts of a minute: a cron matches whole minutes (multiples of
`Minute`), a replica boots and ticks at any step. `LookBack` is `(maxMinutes - 1) * 60_000` in those
steps, and a tick takes the matching minutes from the first whole one at or after `now - LookBack`
(`lib/cron-match.ts:108-110`). Ticks come at most `MaxGap` apart and take at most `MaxLag`, which are
parameters and not guards of the code. Clocks are taken to agree. Which jobs are live is chosen anew
at each tick.

### Audit trail of a fleet

`Record` is `recordAudit`, whose sealing goes on in the background: `ReadHead`, then a
compare-and-set that succeeds (`WinHead`), loses (`LoseHead`) or throws (`FailSeal`). The head is the
sequence of what was linked, as in `AuditChain`. An event that was sealed is emitted and put into its
replica's `buffer`; a full batch is posted at once, otherwise by `Flush`. `PostFails` puts events back
one by one to the front, so in reverse, while there is room. The store is taken not to lose the head.

A compare-and-set may be served without anybody hearing of it (`ServeUnheard`). Either the connection
drops before the reply and the client sends the command again, in which case the sealing goes on: what
was sent again finds a head it does not expect, so `LoseHead` follows and the event is linked *once
more* (`lib/audit-chain.ts:183` takes it for another replica's progress). Or the call had thrown, or
its replica died, with the command on its way (stage `cut`), in which case it may still be served, once.

`AuditLog` is the abstract specification, and it is an at-least-once log: an event that is asked for
may be linked several times, each time in one step to everything before it; the link that ends the
asking hands out the only receipt (`Keep`); an asking that is given up for contention leaves nothing
behind that could still be linked (`End`), one that fails or dies in the midst of a request leaves at
most that one (`Abandon`, `LinkLate`). `SealsAsOneLog` says that `AuditFleet` implements it, with `log`
the shared head, `status` read off `pc` and `receipts` off what was emitted.

### Sessions

One browser, honest: each connection sends the cookie in the jar (`Send`), and whichever response
comes in last sets it (`Receive`), unless it is lost (`Lose`). On arrival a request meets
`checkSequence` on some replica, in `slideSession`: it is let through with its cookie (`Accept`), let
through with a new one when its own is older than the throttle (`Slide`), or taken for a replay
(`Fork`), which ends the session. `slideSession` runs before the body is parsed
(`app.ts:214`, `228`), and every later `getSession`, `getRealSession` or `requireRole` of the request
checks the cookie it *came with* again. `serving` are the requests a replica let through and may look
at again; `Fork` is open to them at any moment until they are done. A later look that passes is not a
step of its own, because it changes nothing: the mark is no lower than the request's number any more.
The audit middleware looks once more when the response is finished
(`routes/audit-middleware.ts:19-20`), so the browser may already have the new cookie: `ReceiveEarly`.

A handler may seal the cookie anew (`Reseal`): impersonation, and the step-ups, of which the passkey's
awaits between its look and its seal (`routes/auth.ts:763-790`) and so may start a killed entry again.
At first sight of the session a replica looks the fleet's mark up (`Reconcile`); marks are published
without being awaited, so it may find any number issued so far, or none. Requests take at most
`MaxDelay`, from being sent to the last look at their cookie; a stream that looks at its session long
after it was opened is outside the premise of `GraceAbsorbs`. `resealed` and `behind` are history: the
cookies sealed by handlers, and the numbers that were issued by a replica which had not caught up with
the fleet, so at or below the highest number issued.

### Rules and grants

`tasks` is the list of events emitted so far, in order, each with what is left of its dispatch
(`todo`) and the run under way. `Deliver` is the `setImmediate` callback with the depth guard; what
matches an event is any set in `Matching`. Then the loop comes to each recipe: `SkipCycle`,
`SkipFanout`, `RunWithoutWrites` (it informs, is held for approval, or fails before it writes) or
`RunAutonomously`, whose writes pass `Authorize` or `Deny` one after the other. A run that ends
announces what it wrote (`FollowOn`); one that is denied or fails announces nothing. `RunLoose` is a
run without an event: a schedule's, or one that was held and approved. `SetGrant` replaces grants
and leaves the counts, as `setAutonomousGrants` does. A grant without `maxWrites` is one with a cap
no run reaches. Events and counters are in memory; nothing of a crash is modelled, since nothing
but the grants would be left.

## 3. What the runs check

| Run | Instance | Checks | Result |
|---|---|---|---|
| `approvals_concurrent` | 2 requests, 3 people (one an AI), 2 chains, 3 challenges | `TypeOK`, `ApprovedChainsStand`, `DistinctHands`, `EffectOnlyWhenApproved` | holds, about 1 million states up to the names of the two requests |
| `approvals_serial` | 1 request at a time, 3 chains, 2 proposers, 4 challenges | `ApprovedChainsStand`, `KeepsPromise` | holds, about 290,000 states |
| `approvals_twice` | 2 requests, one one-stage chain | `ExecutesAtMostOnce` | violated |
| `dual_control` | 3 calls, 3 admins, 2 executor runs | `TypeOK`, `ExecutedByAnother`, `ApprovedMeansApplied`, `SettledStaysSettled` | holds, about 39,000 states |
| `audit_chain` | 5 seals, a log of 3, 2 backups | `TypeOK`, `EmittedIsOneChain`, `EvidenceIsInOrder`, `AdvanceOnly` | holds, about 10,000 states |
| `read_path` | 2 callers, 2 keys, 1 cache entry, 2 writes, 1 reset, weak fairness | `TypeOK`, `AnswersAreOwn`, `StaleOnlyByOverlap`, `EveryReadEnds` | holds, about 190,000 states |
| `shared_cache` | 2 replicas, 2 callers, 2 writes, 2 fills under way | `TypeOK`, `StaleOnlyByJoining` | holds, about 1.5 million states up to names |
| `scheduler` | 2 replicas on one Redis, an interval and a cron job, 3 minutes of two steps each | `TypeOK`, `FiresAtMostOnce`, `NoneOverlooked` | holds, 337,992 states up to names |
| `audit_fleet` | 2 replicas, 2 events, 3 attempts, a buffer and batches of 1 | `TypeOK`, `OneChain`, `GivesUpOnlyToGrowth`, `LinkedOncePerAttempt`, `NothingVanishes`, `SealsAsOneLog` | holds, 108,976 states up to names |
| `sessions` | 2 replicas, 2 connections, a grace of 3, a throttle of 3, 1 lost response, 1 re-seal, 9 moments | `SessionTypeOK`, `GraceAbsorbs` | holds, 3,152,035 states up to names |
| `sessions_busy` | 1 replica, 4 connections, the default grace of 5, nothing lost or re-sealed | `NeverFalseKills` | violated |
| `rules` | 2 recipes, 2 cascades, depth 1, budget 2, a map of 1, 1 loose run, 1 revocation | `TypeOK`, `ChainsEnd`, `FanoutIsBudgeted`, `WritesWithinCap` | holds, about 1.3 million states up to names |

What the properties say:

- `ApprovedChainsStand`: a chain on record as approved, and not overridden, has every stage
  standing: the last word on it is an approval by somebody who is entitled to it under the
  approvers the chain names *now*, and who is not the proposer. It has to survive send-backs,
  redirects that change a stage's approvers, and requests that write back stale copies.
- `DistinctHands`: under `requireDistinctApprovers` nobody appears twice among the decisions on
  record, and a dual-control chain is never overridden by one person.
- `EffectOnlyWhenApproved`: a step that invokes an executor belongs to a request whose own copy
  has every stage standing, or carries a PMO's override. Under overlap it speaks of the request's
  copy, not of the store: that the store may meanwhile say something else is what
  `ExecutesAtMostOnce` shows.
- `KeepsPromise`: as long as no two requests are under way on one proposal, crashes and TTLs
  included, the service implements the abstract promise. It does not under overlap, as
  `approvals_twice` shows. The run checks one request at a time; the proof covers any number of
  them on different proposals.
- `ExecutedByAnother`, `ApprovedMeansApplied`, `SettledStaysSettled`: four eyes, no approval on
  record without an executor run of the checker on record, and no way back to pending.
- `EmittedIsOneChain`: until a restore moves the head back, all events emitted since the first
  form one chain without gap or fork. `EvidenceIsInOrder`: the log holds emitted events in chain
  order and never runs ahead of the head. `AdvanceOnly`: while the log reaches the head, no step
  moves the position back.
- `AnswersAreOwn`: an answer was fetched for the very key, and on the very stack, of the read it
  answers. `StaleOnlyByOverlap`: an answer older than the backend was when it was asked for was
  fetched while a write was under way. `EveryReadEnds`: everybody who shares a call is told.
- `StaleOnlyByJoining`: under the fleet-wide cache an answer is at least as new as the last write
  whose bump had landed when its read began, on whatever replica, unless it came out of an upstream
  call that was sent before that bump (and is then cached for everybody), or its reader could not
  learn the generation.
- `FiresAtMostOnce`: no occurrence runs twice on the claims of one store, provided
  `MaxGap + MaxLag <= ClaimTtl`: a heartbeat and a tick together must not outlast a claim. It is about
  double runs only: an occurrence that is lost between claim and run, or because its claim was resent,
  does not break it.
  `NoneOverlooked`: provided `MaxGap <= LookBack`, whatever fell due since a replica started, up
  to its last tick, was claimed, waits in a tick, or was given up for a reason (the job was disabled,
  or the claim call failed). With ticks one minute further apart than that it fails: ticks practically
  never come on a whole minute, so a tick finds one whole minute less than `maxMinutes` counts.
  At the default of 1440 a heartbeat of 1440 minutes is too long, and its timer may not be late either.
  What was claimed may still be lost, and what falls due while no replica is up is not in any window:
  both are how the code is meant.
- `OneChain`: every emitted event continues a prefix of one chain, no two the same one, whatever
  links were left unemitted between. `GivesUpOnlyToGrowth`: a sealing that gives up has seen the chain
  grow by as many links as it made attempts; they may be links of its own that it did not hear of.
  `LinkedOncePerAttempt`: an event is linked at most once per attempt at sealing it, however often the
  same compare-and-set is sent or how late it is served, and not before it was recorded. Once at most,
  over all, is not what the code gives: see the divergences below.
  `NothingVanishes`: what was emitted has been collected, is held by its replica, or was dropped at a
  full buffer or by a crash. It says nothing of the order in which the collector gets events, nor of
  batches it gets twice. `SealsAsOneLog`: replicas that race, fail and crash, over a store that serves
  without answering, still advance one log that is never rewritten; a caller hears of one link at most,
  which is the last of its event; and a sealing that was refused for contention is not linked later.
- `NeverFalseKills` is the comment's claim for the grace; `GraceAbsorbs` is what a grace does give.
  Provided a request takes at most a third of the throttle (`3 * MaxDelay <= Throttle`; the throttle
  is 60 s, `routes/auth.ts:90`), an honest browser is taken for a replay only where the grace is
  smaller than `Absorbed`: two for each connection beyond the first and one for the request that looks
  at its old cookie, whose own slide counts against it; one for each lost response and each cookie
  sealed by a handler; and, with three connections or more, `Connections - 2` for each number issued by
  a replica that had not caught up. So the default grace of five absorbs three requests at a time as
  long as nothing is lost or re-sealed and no replica is behind, or two at a time with two losses or
  re-seals; four at a time are too many. TLC finds false kills where the grace is one less than the
  bound: two connections with a grace of 2 and nothing lost, or of 3 and one response lost or one cookie
  re-sealed; three with a grace of 4 on one replica.
  The property is about false alarms alone: a replay that goes unnoticed, because a mark was published
  late or a killed entry started again, takes a second holder of the cookie, who is not modelled.
- `ChainsEnd`: down the events that really set each other off, no recipe runs twice and none past
  the depth. `FanoutIsBudgeted`: one event sets off at most the budget of runs, and once more for every
  clearing of the counters while its cascade ran. `WritesWithinCap`: the writes of a recipe's actor,
  in whatever overlapping runs, never exceed the largest cap it was granted.

Why the bounds are enough. Two overlapping requests are what every race of the approval service
and its store needs: a third adds writers, not kinds of overlap, and the proofs cover any number.
Three people make one proposer and two approvers, one of them an AI, one of them a PMO; the chains
are the dual-control form, a send-back form whose second stage has one approver, the single-admin
form, and a one-stage form. Three challenges are enough for two stages and an override, four for a
send-back with its retries. In dual control the third call lets a retry follow a pair that
overlapped. A log of three with five seals and two backups is cut by the cap, outlived by the head
and restored both ways. One cache entry for two keys makes every fill an eviction, two writes let
one be late while another runs, one reset leaves flights on a dead stack.

In the fleet-wide cache two replicas and two callers give every race of a fill with a bump and of a
join with a send; two writes let one land while the other is unheard of. The scheduler's ticks come up
to two steps apart, on a whole minute or halfway between two, look back two steps and overlap by one, so
every limit of the two premises is met exactly; seven moments hold two boundaries of the interval, the
minute of the cron and a restart. Two sealings with three attempts each let one give up to the other, to
its own unheard links, or to both; two events overflow a buffer of one. In `sessions` requests take up to
a third of the throttle, so the premise is met exactly; a clock to 8 makes the cookie stale twice, the
grace of 3 is what the bound asks for two connections with nothing lost, and one lost response or one
re-seal lifts the bound just above it, so false kills do happen in the run and the bound is tight. In
`rules` a depth of one lets a chain be cut by depth and by cycle, two runs spend a
budget, and two roots overfill a map of one.

The requests of `approvals_concurrent`, the replicas, callers, events and connections of the fleet's
runs and the roots of `rules` are interchangeable, so those runs use their permutations as symmetry
sets; they check safety only, for which this is sound.

Bounds in guards: `MaxChallenges`, `MaxRuns` (executor runs of a proposal), `MaxSeals`,
`MaxBackups`, `MaxWrites`, `MaxResets`, `MaxFills`, `MaxTime`, `MaxDelay`, `MaxLost`, `MaxReseals`,
`MaxGrants`,
`MaxLoose`. `LogCap`, `MaxEntries`, `ClaimTtl`, `LookBack`, `MaxAttempts`, `MaxBuffer`, `BatchSize`,
`Grace`, `Throttle`, `MaxDepth`, `MaxFanout` and `FanoutSize` are limits of the code itself.
`CHECK_DEADLOCK FALSE` is set where the system may stop: when proposals are settled and the bounded
challenges, or runs, are used up, the clock has run out, or every event has been dealt with.

Fairness. `ReadPath!FairSpec` has weak fairness of `FlightEnds`, because every upstream call carries
a ten-second abort signal (`broker/reference-broker/index.ts:294`) and so settles, and of `Deliver`,
because a settled promise's callbacks run. Nothing is assumed of `BackendReads` or of writes. The
other models are checked for safety only: what they wait for, a job's own run, a write under a
rule, a store without a timeout, the code does not bound.

For each property of a passing run `PROJECT.json` names a mutation under which TLC finds it
violated: guards that are missing or ask about the wrong thing (`EligibleAnywhere`,
`NotProposerDropped`, `AnyAdmin`, `UnchallengedDecision`), orders that are swapped
(`ExecuteBeforeSave`), writes that are left out (`SealUnpersisted`, `WriteAround`), counts that are
compared too early (`AdmittedByOldCount`), and so on.

### What the violated runs show

1. **One decision, two executions** (`approvals_twice`). `consumeChallenge` reads the challenge
   and deletes it in two awaits; `submitDecision` loads the proposal before and saves it after.
   Two overlapping submissions of one signed decision, or of two eligible approvers of the last
   stage, both get through and both run the executor. `passkey.ts:113` says the challenge "is
   deleted so it can be used ONCE".
2. **A busy browser taken for a replay** (`sessions_busy`). Parallel requests with one stale cookie
   each issue a number, and each is checked again later in its request. Six at once, or a burst of three
   and a later one of four, put the mark more than five past a cookie that is still being looked at, and
   all the user's sessions are revoked.
   `session-registry.ts:80-81` says the grace "never false-kills".

### Other places where code and documentation part

The models show these too, each in a short behaviour; they are not runs of their own, since a
property that says what the documentation says would only restate the line at fault.

- *An override leaves no outcome.* `bypassProposal` never sets `execution` (in `ApprovalService` its
  path stops after `RunExecutor`), so a failed apply of an overridden proposal is the "silent
  approved-but-unexecuted proposal" that `approval-service.ts:45-46` means to rule out.
- *Rejected, and executed.* In `DualControl` a `reject` that overlaps an `approve` saves last: both
  return ok, the record says rejected, the action has been applied, against
  `dual-control.test.ts:42`.
- *A restore that rewinds.* `importAuditLog` compares the backup with the tip of the local log, not
  with the head. In `AuditChain`, after a crash that lost the log's last flush, an older backup can
  move the head back, which `audit-chain.ts:280-282` says must never happen. `AdvanceOnly` is what
  holds.
- *A read after a write that sees the data from before.* A read joins a flight that was sent before
  the write its caller has just seen acknowledged, whereas `single-flight.ts:12-13` says coalescing
  introduces no staleness. Beneath the fleet-wide cache such an answer is then served to the whole
  fleet for a TTL, whereas `shared-cache.ts:18-20` says a write is visible immediately.
- *A fan-out that starts afresh.* `rules-dispatcher.ts:16` says the budget caps the runs traceable to
  one event; clearing the counters (line 22) grants it once more.
- *Put back, and put back again.* `audit.ts:123` says a failed batch is re-buffered once; it is
  re-buffered whenever it fails, each time in reverse.
- *Exactly once.* `job-scheduler.ts:20` says each occurrence fires exactly once; a crash between claim
  and run, or a claim that was served but not answered (the client sends it again and is refused by its
  own claim), loses it. `FiresAtMostOnce` is what holds.
- *Another replica's progress.* `audit-chain.ts:183` says of a lost compare-and-set "another replica
  advanced the head". It may have been this very one, resent by the client: the event is then linked
  again, and the chain has a link that no sink ever saw. `LinkedOncePerAttempt` is what holds.
- *Any write.* `broker/cache.ts:17` says any write through the broker clears the cache, and
  `shared-cache.ts:18` that any broker write bumps the generation; the mutators that are not in
  `WRITE_METHODS` do neither.

## 4. What is proved

Each proof module extends its component's module and TLAPS, and states, for every value of the
constants that meets the named assumptions (`ChainAssumption`, `ServiceAssumption`,
`EntryAssumption`, `DualControlAssumption`, `AuditAssumption`, `ReadPathAssumption`,
`SharedCacheAssumption`, `SchedulerAssumption`, `FleetAssumption`, `SessionsAssumption`,
`RulesAssumption`), that the
specification implies the property. All use one pattern: an inductive invariant `IInv`, that `Init`
implies it (`InitInv`), that every action preserves it (one lemma or step per action, gathered in
`NextInv`), and `Invariance == Spec => []IInv`; the listed theorems follow. The definitions of `Sessions`
carry the prefix `Session`, since they share a proof module with `DualControl`.

- `ApprovalProofs`: `TypeCorrect`, `StagesStand`, `HandsAreDistinct`, `EffectIsApproved`. The
  properties are not inductive: a pending chain says nothing of its earlier stages, and a save may
  write any copy. `IInv` therefore demands soundness of every stored proposal *and* every copy in
  flight: an unfinished chain has all stages *before the current one* standing, decisions are
  distinct where the chain demands it, an override comes from a PMO on a chain that is not under
  dual control. Since soundness is a property of one proposal value, writing back a stale but
  sound copy keeps it: that is why the races of section 3 can repeat an effect and never approve
  a chain that lacks a stage. The lemmas `StartSound`, `DecideSound`, `RedirectSound` and
  `BypassSound` say that each engine operation preserves soundness; redirecting is sound because
  it changes only the current stage, which does not have to stand yet.
  The second part proves the refinement. `ImplementsPromise` is `Spec /\ []NoOverlap => KeepsPromise`,
  where `NoOverlap` says that no two requests are under way on one proposal: the code does not
  guarantee this, and without it the promise is broken (`approvals_twice`), so it is a hypothesis and
  not a lemma. `SerialServiceKeepsPromise` discharges it for a service that deals with one request at
  a time, and `ExecutesOnceWithoutOverlap` says that overlap is all it takes for two executions. The
  invariant `PInv` adds to `IInv` that a copy in flight has the decisions of the stored proposal and
  at most the one its own request adds (`CopiesCurrent`), and that an effect happened at most once and
  to an approved proposal (`EffectsCounted`). A save of a copy is then a step of the promise that adds
  one hand and may settle; an expiry forgets; a redirect, a challenge and a crash are stutters.
- `AdminProofs`, dual control: `TypeCorrect`, `FourEyesHold`, `ApprovalIsApplied`,
  `SettlementIsFinal`. `IInv` says of every copy of a proposal, in the queue or in flight, that it
  agrees with the others on the proposer, that the proposer never set the executor off, and that an
  approved copy was applied by its checker; and that a call about to run an executor was made by
  somebody else.
- `AdminProofs`, sessions: `SessionTypeCorrect`, `FalseKillsAreBounded`. `SessionInv` counts, for every
  number that may still be presented, how far the session has moved on past it, together with the
  connections that may yet move it on (`LagsSound`): the cookie in the jar, the cookie of every request
  until the server is done with it (so its later looks are covered, its own slide counted), and the new
  cookie of every response under way. A connection that slides leaves the set of those that may (`Due`),
  and it comes back only if its response is lost, since the cookie of that response is too fresh to be
  renewed again while the older number is in use: this is where `3 * MaxDelay <= Throttle` is needed. A
  loss and a re-seal raise `Absorbed` by the one they cost. That a later look which passes changes nothing
  is part of `SessionTypeOK`: a request in service is never ahead of its replica's mark.
- `AuditChainProofs`: `TypeCorrect`, `OneChain`, `GenuineEvidence`, `RestoreAdvances`. `IInv` says
  of memory, files and every backup that their logs are genuine, in order and not ahead of the
  head they are kept with, and that every head is a position the chain was once at; that the head
  file equals the head; and, until a rewind, that the head is the end of the emitted chain.
  `LastEventsProperties` says what a cut log keeps.
- `ReadPathProofs`: `TypeCorrect`, `OwnAnswers`, `BoundedStaleness`. `IInv` follows an
  answer through the three places it can be in, an upstream call, the hands of those who shared
  it, and the cache: in each it is marked `overlapped`, or no write is under way and it is what
  the backend holds. Clearing the cache as a write begins is what keeps this true of entries.

- `SharedCacheProofs`: `TypeCorrect`, `StalenessIsJoined`. `IInv` follows an answer from an upstream
  call through the callers' hands, the fills under way and the entries: an answer filed under a
  generation was fetched for a reader who took that generation, so it is at least as new as what was
  visible there, or it was joined, or the generation was a guess.
- `SchedulerProofs`: `TypeCorrect`, `OccurrencesFireOnce`, `NothingFallsBetween`. For the first, a
  claim, once there, lapses no sooner than `ClaimTtl` after its occurrence fell due, while a tick
  that still has the occurrence to do is younger than that; so whoever finds no claim is the first,
  and winners and runs together are at most one; a claim that was written unheard leaves no winner. For
  the second, the windows of a replica's ticks meet without a gap where `MaxGap <= LookBack`, wherever
  ticks fall between whole minutes, and what is in a window is handled. The replicas without Redis, which
  the run leaves out,
  are covered here.
- `AuditFleetProofs`: `TypeCorrect`, `ChainIsOne`, `ContentionIsProgress`, `AccountedFor`,
  `LinkedPerAttempt`, `FleetSealsAsOneLog`. `IInv` says that the head a sealing has read is a prefix of
  the chain at least as long as what its attempts have seen, and that emitted events are links of the
  chain. `LinksSound` adds the count: a sealing that is reading has linked its event at most once per
  lost attempt, and one that is linking may have done so once more only if the head is no longer the one
  it read: a head never recurs, so the same compare-and-set is served once at most. `FleetSealsAsOneLog` is
  the
  refinement: a won compare-and-set is the step that hands out the receipt, one served unheard a link
  without one, a lost one a stutter or the end, and a failure or a crash abandons sealings, each with the
  request it had under way, if any.
- `RulesProofs`: `TypeCorrect`, `ChainsAreBroken`, `BudgetIsKept`, `CapsAreKept`. `IInv` says that
  paths have no recipe twice and no more than the depth allows, that started runs are at most the
  counter plus the budget for each clearing, and that writes under way and landed together are at most
  the count, which is at most the largest cap.

Only model-checked: `EveryReadEnds` (fairness and ENABLED are beyond the prover), and the
counterexamples. Theorems range
over any number of people, chains, requests, admins, events, keys, callers, replicas, jobs and
recipes; what the modules abstract stays abstracted.

## 5. Not modelled, and why

`PROJECT.json` lists every component with its status and the reason. Of the system's own logic these
are left out:

- *OmniStore*: one synchronous writer that appends an event and folds it into the state. Its replay
  is the same fold; what could go wrong is a failing disk, which is one line.
- *The session directory*, its revoke markers, concurrent-session caps and timeouts; how a revocation
  spreads through the key registry.
- *Just-in-time grants of agentic batches* (`lib/agentic-batch-run.ts`). When grants converge from
  the fleet, `setAutonomousGrants` replaces them all, the one of a batch that is running included, so
  the rest of the batch is denied.
- *A held run and its approval* are two runs in `Rules`; the link between them is
  `ApprovalService`, which does not compose with it.
- *The envelope's replay window*, a set with a cap and one synchronous check.
- *Other commands served twice or late.* What the client of the shared store resends is modelled for
  compare-and-sets, where it changes the answer. A `set`, `del` or `incr` is served once in the models. A
  second `incr` of the cache's generation only drops more entries. A second `set` writes the same value
  again; it could undo what somebody else wrote before the connection was back, for instance reset a
  proposal to pending that was listed and decided before its creation was answered, so `KeepsPromise` and
  `SettledStaysSettled` are about a connection that does not drop in the midst of such a write.

Worth doing next: the composition of held runs with the approval service, and the directory of
sessions across replicas.

Out of reach or of little use here: cryptography and WebAuthn, OIDC and other external protocols,
row transforms of the broker's data layers, HTTP routing, the web client, generated clients.
