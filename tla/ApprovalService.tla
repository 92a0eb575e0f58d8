--------------------------- MODULE ApprovalService ---------------------------
(***************************************************************************)
(* The approval service (lib/approval-service.ts) over the shared          *)
(* key-value store (lib/shared-state.ts) and the one-time challenges of    *)
(* lib/passkey.ts.                                                         *)
(*                                                                         *)
(* A request is one call of submitDecision, bypassProposal or              *)
(* redirectProposal.  Each `await` of the shared store is a step of its    *)
(* own, so requests served by different replicas (or by one replica while  *)
(* another request awaits the store) interleave between them.  A request   *)
(* keeps the proposal it loaded in `copy` and writes the whole proposal    *)
(* back, which is what the code does.  A call that the code refuses        *)
(* changes nothing; it ends the request.                                   *)
(***************************************************************************)
EXTENDS ApprovalChain

CONSTANTS
  Proposals,     \* proposal ids (UUIDs)
  RunProposals,  \* those whose action is a workflow run ("workflow.run:<id>")
  Proposers,     \* who raises proposals
  Requests,      \* concurrent calls in flight
  Defs,          \* the chain definitions a proposal may be raised under
  Redirects,     \* the approver sets a PMO may redirect a stage to
  PmoRole,       \* the role requireRole("pmo") asks for
  StageIds,      \* 0 (the bypass scope) and every stage position of the definitions
  MaxChallenges, \* bound: challenges issued in one behaviour
  MayCrash,      \* whether a replica may die in the middle of a request
  Unraised,      \* store entry of a proposal that was never created
  Expired        \* store entry of a proposal whose TTL ran out

ASSUME ServiceAssumption ==
  /\ RunProposals \subseteq Proposals
  /\ Proposers \subseteq Subs
  /\ Defs \subseteq {d \in ChainDef : d.stages # <<>>}
  /\ Redirects \subseteq (SUBSET ApproverRef) \ {{}}
  /\ PmoRole \in Roles
  /\ StageIds \subseteq Nat
  /\ BypassStage \in StageIds
  /\ \A d \in Defs : DOMAIN d.stages \subseteq StageIds
  /\ MaxChallenges \in Nat
  /\ MayCrash \in BOOLEAN

StoredProposal == [def : ChainDef, state : ChainState,
                   execution : {"none", "executed", "no-executor", "failed"}]

ASSUME EntryAssumption ==
  /\ Unraised \notin StoredProposal
  /\ Expired \notin StoredProposal
  /\ Unraised # Expired

VARIABLES
  proposals,   \* ac:prop:<id> in the shared store
  challenges,  \* pk:chal:<proposal>:<stage>:<sub>; 0 when there is none
  nonce,       \* challenges issued so far; the next one is nonce + 1
  pc,          \* where each request is
  call,        \* its arguments
  copy,        \* the proposal it loaded, as it will write it back
  invoked      \* history: how often each proposal's executor was invoked

vars == <<proposals, challenges, nonce, pc, call, copy, invoked>>
requestVars == <<pc, call, copy>>

Pc == {"idle", "getChallenge", "delChallenge", "getCredential", "save", "execute", "record"}

Call == [kind : {"decide"}, id : Proposals, by : Subs, decision : {"approve", "reject"},
         presented : 1 .. MaxChallenges]
        \cup [kind : {"bypass"}, id : Proposals, by : Subs, presented : 1 .. MaxChallenges]
        \cup [kind : {"redirect"}, id : Proposals]

NoCall == [kind |-> "none"]

\* The store key a request's challenge lives under.
ScopeOf(r) ==
  <<call[r].id,
    IF call[r].kind = "bypass" THEN BypassStage ELSE copy[r].state.currentStage,
    call[r].by>>

Raised(id) == proposals[id] \notin {Unraised, Expired}

isDualControl(def) == def.requireDistinctApprovers /\ Len(def.stages) >= 2

Bypassable(id) ==
  /\ proposals[id].state.status = "pending"
  /\ ~isDualControl(proposals[id].def)

\* The request ends: its locals are gone.
Finish(r) ==
  /\ pc' = [pc EXCEPT ![r] = "idle"]
  /\ call' = [call EXCEPT ![r] = NoCall]
  /\ copy' = [copy EXCEPT ![r] = Unraised]

GoTo(r, step) == pc' = [pc EXCEPT ![r] = step]

\* The first await of every handler: loadProposal.  `loaded` is what the handler makes of
\* the proposal before its next await.
Load(r, args, loaded, step) ==
  /\ pc[r] = "idle"
  /\ GoTo(r, step)
  /\ call' = [call EXCEPT ![r] = args]
  /\ copy' = [copy EXCEPT ![r] = loaded]
  /\ UNCHANGED <<proposals, challenges, nonce, invoked>>

-----------------------------------------------------------------------------
Init ==
  /\ proposals = [id \in Proposals |-> Unraised]
  /\ challenges = [sc \in Proposals \X StageIds \X Subs |-> 0]
  /\ nonce = 0
  /\ pc = [r \in Requests |-> "idle"]
  /\ call = [r \in Requests |-> NoCall]
  /\ copy = [r \in Requests |-> Unraised]
  /\ invoked = [id \in Proposals |-> 0]

\* createProposal: snapshot the definition, start the chain, one write.
CreateProposal(id, def, by) ==
  /\ proposals[id] = Unraised
  /\ proposals' = [proposals EXCEPT ![id] =
       [def |-> def, state |-> startChain(by), execution |-> "none"]]
  /\ UNCHANGED <<challenges, nonce, requestVars, invoked>>

\* challengeForStage / challengeForBypass: the load and the write of the challenge are
\* one step, because the key names the stage: a challenge written after the stage moved
\* on is the one that an issue just before the move leaves behind.
IssueChallenge(sc) ==
  /\ nonce < MaxChallenges
  /\ nonce' = nonce + 1
  /\ challenges' = [challenges EXCEPT ![sc] = nonce']
  /\ UNCHANGED <<proposals, requestVars, invoked>>

ChallengeForStage(id, who) ==
  /\ Raised(id)
  /\ HasActiveStage(proposals[id].def, proposals[id].state)
  /\ IssueChallenge(<<id, proposals[id].state.currentStage, who>>)

ChallengeForBypass(id, who) ==
  /\ PmoRole \in RolesOf[who]
  /\ Raised(id) /\ Bypassable(id)
  /\ IssueChallenge(<<id, BypassStage, who>>)

-----------------------------------------------------------------------------
\* Mutation: a decision is taken up although no challenge was issued to the caller.
UnchallengedDecision(r, id, who, verdict) ==
  LET p == proposals[id]
      c == challenges[<<id, p.state.currentStage, who>>]
  IN  /\ Raised(id) /\ HasActiveStage(p.def, p.state)
      /\ Load(r, [kind |-> "decide", id |-> id, by |-> who, decision |-> verdict,
                  presented |-> c], p, "getChallenge")

\* submitDecision up to the challenge: the proposal has an active stage, and an AI may
\* approve only a workflow run (under an acceptance, whose lookup may also refuse).  The
\* caller presents the challenge that is stored for it now: one that is not stored any
\* more is refused whatever happens next, since challenges are never reissued.
SubmitDecision(r, id, who, verdict) ==
  LET p == proposals[id]
      c == challenges[<<id, p.state.currentStage, who>>]
  IN  /\ Raised(id) /\ HasActiveStage(p.def, p.state)
      /\ (Via(who) = "ai" /\ verdict = "approve") => id \in RunProposals
      /\ c # 0
      /\ Load(r, [kind |-> "decide", id |-> id, by |-> who, decision |-> verdict,
                  presented |-> c], p, "getChallenge")

\* bypassProposal up to the challenge.  Only the human surface reaches it (actorFor).
BypassProposal(r, id, who) ==
  LET c == challenges[<<id, BypassStage, who>>] IN
  /\ PmoRole \in RolesOf[who] /\ who \notin AiSubs
  /\ Raised(id) /\ Bypassable(id)
  /\ c # 0
  /\ Load(r, [kind |-> "bypass", id |-> id, by |-> who, presented |-> c],
          proposals[id], "getChallenge")

\* redirectProposal up to its write: the stage's approvers change in the loaded copy.
\* Any PMO may ask for it; who did is kept in the audit log only.
RedirectProposal(r, id, newApprovers) ==
  LET p == proposals[id] IN
  /\ Raised(id) /\ HasActiveStage(p.def, p.state)
  /\ Load(r, [kind |-> "redirect", id |-> id],
          [p EXCEPT !.def = redirectStage(p.def, p.state, newApprovers)], "save")

\* consumeChallenge reads the stored challenge and, in a later call, deletes the key.
GetChallenge(r) ==
  /\ pc[r] = "getChallenge"
  /\ IF challenges[ScopeOf(r)] = call[r].presented
       THEN GoTo(r, "delChallenge") /\ UNCHANGED <<call, copy>>
       ELSE Finish(r)
  /\ UNCHANGED <<proposals, challenges, nonce, invoked>>

DelChallenge(r) ==
  /\ pc[r] = "delChallenge"
  /\ challenges' = [challenges EXCEPT ![ScopeOf(r)] = 0]
  /\ GoTo(r, "getCredential")
  /\ UNCHANGED <<proposals, nonce, call, copy, invoked>>

\* What the request will write: the engine applied to the copy loaded at the start.
Decided(r) ==
  LET p == copy[r] IN
  IF call[r].kind = "bypass"
    THEN [p EXCEPT !.state = bypassChain(p.state, call[r].by)]
    ELSE [p EXCEPT !.state = applyDecision(p.def, p.state, call[r].by, call[r].decision)]

EngineAccepts(r) ==
  call[r].kind = "decide" =>
    MayDecide(copy[r].def, copy[r].state, call[r].by, call[r].decision)

\* getCredential, the signature check, and the engine.  Any of them may refuse: whether
\* the passkey is (still) enrolled and the assertion verifies is left open.
GetCredential(r) ==
  /\ pc[r] = "getCredential"
  /\ \/ Finish(r)
     \/ /\ EngineAccepts(r)
        /\ GoTo(r, "save")
        /\ copy' = [copy EXCEPT ![r] = Decided(r)]
        /\ UNCHANGED call
  /\ UNCHANGED <<proposals, challenges, nonce, invoked>>

\* Mutation: the executor runs first and the decision is saved afterwards.
ExecuteBeforeSave(r) ==
  /\ pc[r] = "save"
  /\ IF copy[r].state.status = "approved"
       THEN /\ GoTo(r, "execute") /\ UNCHANGED <<proposals, call, copy>>
       ELSE /\ proposals' = [proposals EXCEPT ![call[r].id] = copy[r]] /\ Finish(r)
  /\ UNCHANGED <<challenges, nonce, invoked>>

\* Mutation: every saved decision goes on to the executor, not only the last one.
ExecuteEveryDecision(r) ==
  /\ pc[r] = "save"
  /\ proposals' = [proposals EXCEPT ![call[r].id] = copy[r]]
  /\ GoTo(r, "execute")
  /\ UNCHANGED <<challenges, nonce, call, copy, invoked>>

\* saveProposal of the whole copy; an approved chain goes on to its executor.
SaveDecision(r) ==
  /\ pc[r] = "save"
  /\ proposals' = [proposals EXCEPT ![call[r].id] = copy[r]]
  /\ IF copy[r].state.status = "approved"
       THEN GoTo(r, "execute") /\ UNCHANGED <<call, copy>>
       ELSE Finish(r)
  /\ UNCHANGED <<challenges, nonce, invoked>>

\* After the executor, submitDecision records its outcome; bypassProposal does not.
AfterExecutor(r, outcome) ==
  IF call[r].kind = "decide"
    THEN /\ GoTo(r, "record")
         /\ copy' = [copy EXCEPT ![r].execution = outcome]
         /\ UNCHANGED call
    ELSE Finish(r)

\* runExecutor: an executor that is registered runs and succeeds or throws.
RunExecutor(r) ==
  /\ pc[r] = "execute"
  /\ \/ /\ invoked' = [invoked EXCEPT ![call[r].id] = @ + 1]
        /\ \E outcome \in {"executed", "failed"} : AfterExecutor(r, outcome)
     \/ /\ AfterExecutor(r, "no-executor")
        /\ UNCHANGED invoked
  /\ UNCHANGED <<proposals, challenges, nonce>>

RecordOutcome(r) ==
  /\ pc[r] = "record"
  /\ proposals' = [proposals EXCEPT ![call[r].id] = copy[r]]
  /\ Finish(r)
  /\ UNCHANGED <<challenges, nonce, invoked>>

-----------------------------------------------------------------------------
\* The replica serving a request dies: the request is gone, the store is not.
Crash(r) ==
  /\ MayCrash
  /\ pc[r] # "idle"
  /\ Finish(r)
  /\ UNCHANGED <<proposals, challenges, nonce, invoked>>

\* A challenge's TTL (5 minutes) runs out.
LapseChallenge(sc) ==
  /\ challenges[sc] # 0
  /\ challenges' = [challenges EXCEPT ![sc] = 0]
  /\ UNCHANGED <<proposals, nonce, requestVars, invoked>>

\* A proposal's TTL (30 days, renewed by every save) runs out.  A request takes seconds,
\* so no request is assumed to straddle the expiry of the proposal it loaded.
ExpireProposal(id) ==
  /\ Raised(id)
  /\ \A r \in Requests : pc[r] # "idle" => call[r].id # id
  /\ proposals' = [proposals EXCEPT ![id] = Expired]
  /\ UNCHANGED <<challenges, nonce, requestVars, invoked>>

RequestStep(r) ==
  \/ GetChallenge(r) \/ DelChallenge(r) \/ GetCredential(r)
  \/ SaveDecision(r) \/ RunExecutor(r) \/ RecordOutcome(r)

NewRequest(r) ==
  \E id \in Proposals :
    \/ \E who \in Subs, verdict \in {"approve", "reject"} : SubmitDecision(r, id, who, verdict)
    \/ \E who \in Subs : BypassProposal(r, id, who)
    \/ \E newApprovers \in Redirects : RedirectProposal(r, id, newApprovers)

Next ==
  \/ \E id \in Proposals, def \in Defs, by \in Proposers : CreateProposal(id, def, by)
  \/ \E id \in Proposals, who \in Subs : ChallengeForStage(id, who)
  \/ \E id \in Proposals, who \in Subs : ChallengeForBypass(id, who)
  \/ \E r \in Requests : NewRequest(r)
  \/ \E r \in Requests : RequestStep(r)
  \/ \E r \in Requests : Crash(r)
  \/ \E sc \in DOMAIN challenges : LapseChallenge(sc)
  \/ \E id \in Proposals : ExpireProposal(id)

Spec == Init /\ [][Next]_vars

-----------------------------------------------------------------------------
\* The shapes of the store entries and of the requests in flight.
TypeOK ==
  /\ proposals \in [Proposals -> StoredProposal \cup {Unraised, Expired}]
  /\ challenges \in [Proposals \X StageIds \X Subs -> 0 .. MaxChallenges]
  /\ nonce \in 0 .. MaxChallenges
  /\ pc \in [Requests -> Pc]
  /\ call \in [Requests -> Call \cup {NoCall}]
  /\ copy \in [Requests -> StoredProposal \cup {Unraised}]
  /\ invoked \in [Proposals -> Nat]

Approved(p) == p.state.status = "approved"

\* A chain that is recorded as approved, and was not overridden, has every stage standing:
\* the last word on each is an approval by an eligible person who did not raise the
\* proposal (approval-chain.ts, applyDecision).  It must survive send-backs, redirects
\* that change a stage's approvers, and requests that write back a stale copy.
ApprovedChainsStand ==
  \A id \in Proposals :
    (Raised(id) /\ Approved(proposals[id]) /\ ~Bypassed(proposals[id].state)) =>
      \A i \in DOMAIN proposals[id].def.stages :
        StageStands(proposals[id].def, proposals[id].state, i)

\* "N stages mean N DISTINCT humans": under requireDistinctApprovers nobody appears twice
\* among the decisions on record, and a dual-control chain is never overridden
\* (approval-chain.ts:35-38, approval-service.ts isDualControl).
DistinctHands ==
  \A id \in Proposals :
    (Raised(id) /\ proposals[id].def.requireDistinctApprovers) =>
      LET ds == proposals[id].state.decisions IN
        /\ \A j, k \in DOMAIN ds : j # k => ds[j].by # ds[k].by
        /\ isDualControl(proposals[id].def) => ~Bypassed(proposals[id].state)

\* An executor is invoked only by a request that carries the chain through: its own copy
\* is approved with every stage standing, or a PMO's override is on record
\* (approval-service.ts, submitDecision and bypassProposal).
EffectOnlyWhenApproved ==
  [][\A id \in Proposals : invoked'[id] # invoked[id] =>
       \E r \in Requests :
         /\ pc[r] = "execute" /\ call[r].id = id
         /\ Approved(copy[r])
         /\ \/ \A i \in DOMAIN copy[r].def.stages :
                 StageStands(copy[r].def, copy[r].state, i)
            \/ \E k \in DOMAIN copy[r].state.decisions :
                 LET d == copy[r].state.decisions[k] IN
                   d.stage = BypassStage /\ PmoRole \in RolesOf[d.by]]_vars

\* The flow keeps the abstract promise.  It does when requests do not overlap.
PromisePhase(id) ==
  CASE proposals[id] = Unraised -> "none"
    [] proposals[id] = Expired -> "gone"
    [] OTHER -> proposals[id].state.status

PromiseHands(id) == IF Raised(id) THEN proposals[id].state.decisions ELSE <<>>

PromiseHand == [stage : StageIds, by : Subs, via : {"human", "ai"},
                decision : {"approve", "reject"}]

Promise == INSTANCE ApprovalPromise WITH
  Hand <- PromiseHand,
  phase <- [id \in Proposals |-> PromisePhase(id)],
  hands <- [id \in Proposals |-> PromiseHands(id)],
  effects <- invoked

\* With one request at a time, and replicas that may die between any two steps, the service
\* implements the promise: settled once, no decision lost, executed at most once.
KeepsPromise == Promise!Spec

\* "full signed chain drives to approved and runs the executor exactly once"
\* (approval-service.test.ts:78), also when two signers decide at the same time.
ExecutesAtMostOnce == \A id \in Proposals : invoked[id] <= 1
=============================================================================
