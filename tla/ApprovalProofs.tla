---------------------------- MODULE ApprovalProofs ----------------------------
(***************************************************************************)
(* Proofs about the approval engine and service, for any chains, people,   *)
(* proposals and concurrent requests.                                      *)
(*                                                                         *)
(* Requests write back whole proposals they loaded earlier, so the stored  *)
(* proposal may be replaced by an older one at any time.  What survives    *)
(* this is whatever holds of every copy on its own: the engine's lemmas    *)
(* say that each operation keeps a copy Sound, and the invariant of the    *)
(* service says that every copy, stored or in flight, is Sound.            *)
(*                                                                         *)
(* The second part proves that the service implements ApprovalPromise as   *)
(* long as no two requests are under way on one proposal.                  *)
(***************************************************************************)
EXTENDS ApprovalService, SequenceTheorems, TLAPS

USE ChainAssumption, ServiceAssumption, EntryAssumption

-----------------------------------------------------------------------------
(* One copy of a proposal.                                                 *)

\* A pending chain waits at one of its stages and is not overridden; a chain of one stage
\* is pending only as long as nobody has decided.
Waiting(def, st) ==
  st.status = "pending" =>
    /\ st.currentStage \in DOMAIN def.stages
    /\ ~Bypassed(st)
    /\ Len(def.stages) = 1 => st.decisions = <<>>

\* Every stage before the current one stands; once approved, every stage stands.
Standing(def, st) ==
  /\ st.status = "pending" =>
       \A i \in DOMAIN def.stages : i < st.currentStage => StageStands(def, st, i)
  /\ (st.status = "approved" /\ ~Bypassed(st)) =>
       \A i \in DOMAIN def.stages : StageStands(def, st, i)

\* Nobody decides twice where hands must be distinct; such a chain of two or more stages
\* is not overridden; an override is a PMO's.
Distinct(def, st) ==
  /\ def.requireDistinctApprovers =>
       \A j, k \in DOMAIN st.decisions : j # k => st.decisions[j].by # st.decisions[k].by
  /\ isDualControl(def) => ~Bypassed(st)
  /\ \A k \in DOMAIN st.decisions :
       st.decisions[k].stage = BypassStage => PmoRole \in RolesOf[st.decisions[k].by]

Sound(def, st) ==
  /\ def.stages # <<>>
  /\ Waiting(def, st) /\ Standing(def, st) /\ Distinct(def, st)

\* A fresh chain is sound.
LEMMA StartSound ==
  ASSUME NEW def \in ChainDef, def.stages # <<>>, NEW by \in Subs
  PROVE  startChain(by) \in ChainState /\ Sound(def, startChain(by))
<1>1. startChain(by) \in ChainState
  BY DEF startChain, ChainState
<1>2. def.stages \in Seq(Stage) /\ Len(def.stages) \in Nat \ {0}
  BY EmptySeq DEF ChainDef
<1>. QED BY <1>1, <1>2
     DEF Sound, Waiting, Standing, Distinct, Bypassed, startChain

\* A verdict the engine accepts keeps the chain sound (applyDecision).
LEMMA DecideSound ==
  ASSUME NEW def \in ChainDef, NEW st \in ChainState, Sound(def, st),
         NEW who \in Subs, NEW verdict \in {"approve", "reject"},
         MayDecide(def, st, who, verdict)
  PROVE  /\ applyDecision(def, st, who, verdict) \in ChainState
         /\ Sound(def, applyDecision(def, st, who, verdict))
<1> DEFINE n == Len(st.decisions)
           d == [stage |-> st.currentStage, by |-> who, via |-> Via(who),
                 decision |-> verdict]
           ds == Append(st.decisions, d)
           nx == applyDecision(def, st, who, verdict)
<1>1. /\ st.decisions \in Seq(Decision) /\ n \in Nat
      /\ def.stages \in Seq(Stage) /\ Len(def.stages) \in Nat
      /\ st.status = "pending" /\ st.currentStage \in 1 .. Len(def.stages)
      /\ st.proposedBy \in Subs
  BY DEF ChainState, ChainDef, MayDecide, HasActiveStage
<1>2. d \in Decision
  BY <1>1 DEF Decision, Via
<1>3. /\ ds \in Seq(Decision) /\ Len(ds) = n + 1 /\ DOMAIN ds = 1 .. n + 1
      /\ ds[n + 1] = d
      /\ \A k \in 1 .. n : ds[k] = st.decisions[k]
      /\ DOMAIN st.decisions = 1 .. n
  BY <1>1, <1>2
<1>4. /\ nx \in ChainState
      /\ nx.decisions = ds /\ nx.proposedBy = st.proposedBy
      /\ \/ /\ verdict = "reject" /\ nx.status = "pending"
            /\ st.currentStage > 1 /\ nx.currentStage = st.currentStage - 1
         \/ verdict = "reject" /\ nx.status = "rejected"
         \/ /\ verdict = "approve" /\ nx.status = "approved"
            /\ st.currentStage = Len(def.stages)
         \/ /\ verdict = "approve" /\ nx.status = "pending"
            /\ st.currentStage < Len(def.stages)
            /\ nx.currentStage = st.currentStage + 1
  <2> DEFINE st1 == [st EXCEPT !.decisions = ds]
  <2>1. nx = IF verdict = "reject" THEN AfterReject(def, st1) ELSE AfterApprove(def, st1)
    BY DEF applyDecision
  <2> HIDE DEF d, ds, nx
  <2>2. /\ st1 \in ChainState /\ st1.decisions = ds /\ st1.proposedBy = st.proposedBy
        /\ st1.status = "pending" /\ st1.currentStage = st.currentStage
    BY <1>1, <1>3 DEF ChainState
  <2> HIDE DEF st1
  <2>3. CASE verdict = "reject"
    <3>1. nx = IF def.rejectionPolicy = "send-back" /\ st.currentStage > 1
                 THEN [st1 EXCEPT !.currentStage = st.currentStage - 1]
                 ELSE [st1 EXCEPT !.status = "rejected"]
      BY <2>1, <2>2, <2>3 DEF AfterReject
    <3>. QED BY <3>1, <2>2, <2>3, <1>1 DEF ChainState
  <2>4. CASE verdict = "approve"
    <3>1. nx = IF st.currentStage + 1 > Len(def.stages)
                 THEN [st1 EXCEPT !.status = "approved"]
                 ELSE [st1 EXCEPT !.currentStage = st.currentStage + 1]
      BY <2>1, <2>2, <2>4 DEF AfterApprove
    <3>. QED BY <3>1, <2>2, <2>4, <1>1, SMTT(30) DEF ChainState
  <2>. QED BY <2>3, <2>4
<1> HIDE DEF nx
<1>5. Waiting(def, nx)
  BY <1>1, <1>3, <1>4 DEF Sound, Waiting, Bypassed, BypassStage
<1>6. Distinct(def, nx)
  <2>1. ASSUME def.requireDistinctApprovers, NEW j \in 1 .. n
        PROVE  st.decisions[j].by # who
    BY <2>1, <1>3 DEF MayDecide, DistinctFromEarlier
  <2>. QED BY <1>1, <1>3, <1>4, <2>1 DEF Sound, Distinct, Bypassed, BypassStage
<1>7. ASSUME NEW i \in DOMAIN def.stages, i # st.currentStage, StageStands(def, st, i)
      PROVE  StageStands(def, nx, i)
  <2>1. PICK k \in DOMAIN st.decisions :
          /\ st.decisions[k].stage = i /\ st.decisions[k].decision = "approve"
          /\ isEligible(def.stages[i], st.decisions[k].by)
          /\ def.allowSelfApproval \/ st.decisions[k].by # st.proposedBy
          /\ def.stages[i].humanOnly => st.decisions[k].via = "human"
          /\ \A j \in DOMAIN st.decisions : j > k => st.decisions[j].stage # i
    BY <1>7 DEF StageStands
  <2>2. k \in DOMAIN nx.decisions /\ nx.decisions[k] = st.decisions[k]
        /\ \A j \in DOMAIN nx.decisions : j > k => nx.decisions[j].stage # i
    BY <2>1, <1>1, <1>3, <1>4, <1>7
  <2>. QED BY <2>1, <2>2, <1>4 DEF StageStands
<1>8. ASSUME verdict = "approve" PROVE StageStands(def, nx, st.currentStage)
  <2>1. n + 1 \in DOMAIN nx.decisions /\ nx.decisions[n + 1] = d
        /\ \A j \in DOMAIN nx.decisions : ~(j > n + 1)
    BY <1>1, <1>3, <1>4
  <2>2. /\ isEligible(def.stages[st.currentStage], d.by)
        /\ def.allowSelfApproval \/ d.by # st.proposedBy
        /\ def.stages[st.currentStage].humanOnly => d.via = "human"
    BY <1>8 DEF MayDecide, EligibleNow, NotProposer, HumanWhereRequired, activeStage
  <2>. QED BY <1>8, <2>1, <2>2, <1>4 DEF StageStands
<1>9. Standing(def, nx)
  <2>1. ~Bypassed(st)
    BY <1>1 DEF Sound, Waiting
  <2>2. ASSUME NEW i \in DOMAIN def.stages, i < st.currentStage
        PROVE  StageStands(def, nx, i)
    BY <2>2, <1>1, <1>7 DEF Sound, Standing
  <2>. QED BY <1>1, <1>4, <1>8, <2>2 DEF Standing
<1>. QED BY <1>4, <1>5, <1>6, <1>9 DEF Sound, nx

\* Redirecting the current stage keeps the chain sound: no stage that stands is touched.
LEMMA RedirectSound ==
  ASSUME NEW def \in ChainDef, NEW st \in ChainState, Sound(def, st),
         HasActiveStage(def, st), NEW newApprovers \in SUBSET ApproverRef
  PROVE  /\ redirectStage(def, st, newApprovers) \in ChainDef
         /\ DOMAIN redirectStage(def, st, newApprovers).stages = DOMAIN def.stages
         /\ Sound(redirectStage(def, st, newApprovers), st)
<1> DEFINE cur == st.currentStage
           stage == [approvers |-> newApprovers, humanOnly |-> def.stages[cur].humanOnly]
           stages == [def.stages EXCEPT ![cur] = stage]
           nd == redirectStage(def, st, newApprovers)
<1>1. /\ def.stages \in Seq(Stage) /\ cur \in DOMAIN def.stages
      /\ st.status = "pending"
  BY DEF ChainDef, HasActiveStage
<1>2. stage \in Stage
  <2>1. def.stages[cur] \in Stage
    BY <1>1
  <2>2. def.stages[cur].humanOnly \in BOOLEAN
    BY <2>1 DEF Stage
  <2>. QED BY <2>2 DEF Stage
<1>3. stages \in Seq(Stage) /\ DOMAIN stages = DOMAIN def.stages
      /\ Len(stages) = Len(def.stages)
      /\ \A i \in DOMAIN def.stages : i # cur => stages[i] = def.stages[i]
  <2> HIDE DEF stage
  <2>. QED BY <1>1, <1>2
<1>4. /\ nd \in ChainDef /\ nd.stages = stages
      /\ nd.requireDistinctApprovers = def.requireDistinctApprovers
      /\ nd.allowSelfApproval = def.allowSelfApproval
  <2>1. nd = [def EXCEPT !.stages = stages]
    BY DEF redirectStage
  <2> HIDE DEF stages, nd
  <2>. QED BY <1>3, <2>1 DEF ChainDef
<1> HIDE DEF nd, stages
<1>5. Waiting(nd, st)
  BY <1>3, <1>4 DEF Sound, Waiting
<1>6. Distinct(nd, st)
  BY <1>3, <1>4 DEF Sound, Distinct, isDualControl
<1>7. ASSUME NEW i \in DOMAIN def.stages, i # cur, StageStands(def, st, i)
      PROVE  StageStands(nd, st, i)
  BY <1>3, <1>4, <1>7 DEF StageStands
<1>8. Standing(nd, st)
  <2>1. cur \in Nat
    BY <1>1
  <2>. QED BY <1>1, <1>3, <1>4, <1>7, <2>1 DEF Sound, Standing
<1>9. nd.stages # <<>>
  BY <1>1, <1>3, <1>4
<1>. QED BY <1>3, <1>4, <1>5, <1>6, <1>8, <1>9 DEF Sound, nd

\* An override keeps the chain sound, where the service lets it through.
LEMMA BypassSound ==
  ASSUME NEW def \in ChainDef, NEW st \in ChainState, Sound(def, st),
         st.status = "pending", ~isDualControl(def),
         NEW who \in Subs, PmoRole \in RolesOf[who]
  PROVE  /\ bypassChain(st, who) \in ChainState
         /\ Sound(def, bypassChain(st, who))
         /\ bypassChain(st, who).status = "approved"
<1> DEFINE n == Len(st.decisions)
           d == [stage |-> BypassStage, by |-> who, via |-> "human", decision |-> "approve"]
           ds == Append(st.decisions, d)
           nx == bypassChain(st, who)
<1>1. st.decisions \in Seq(Decision) /\ n \in Nat /\ def.stages \in Seq(Stage)
      /\ Len(def.stages) \in Nat /\ def.stages # <<>>
  BY DEF ChainState, ChainDef, Sound
<1>2. d \in Decision /\ d.by = who /\ d.stage = BypassStage
  BY DEF Decision, BypassStage
<1>3. /\ ds \in Seq(Decision) /\ DOMAIN ds = 1 .. n + 1 /\ ds[n + 1] = d
      /\ \A k \in 1 .. n : ds[k] = st.decisions[k]
      /\ DOMAIN st.decisions = 1 .. n
  <2> HIDE DEF d
  <2>. QED BY <1>1, <1>2
<1>4. nx = [st EXCEPT !.status = "approved", !.decisions = ds]
  BY DEF bypassChain
<1> HIDE DEF d, ds, nx
<1>5. nx \in ChainState /\ nx.status = "approved" /\ nx.decisions = ds
  BY <1>3, <1>4 DEF ChainState
<1>6. Bypassed(nx)
  BY <1>1, <1>2, <1>3, <1>5 DEF Bypassed
<1>7. Waiting(def, nx) /\ Standing(def, nx)
  BY <1>5, <1>6 DEF Waiting, Standing
<1>8. Distinct(def, nx)
  <2>1. def.requireDistinctApprovers => n = 0
    <3>1. Len(def.stages) # 0
      BY <1>1, EmptySeq
    <3>2. def.requireDistinctApprovers => ~(Len(def.stages) >= 2)
      BY Zenon DEF isDualControl
    <3>3. ~(Len(def.stages) >= 2) => Len(def.stages) = 1
      <4>1. \A k \in Nat : k # 0 => k >= 2 \/ k = 1
        OBVIOUS
      <4>. QED BY <3>1, <4>1, <1>1, Zenon
    <3>4. Len(def.stages) = 1 => n = 0
      BY DEF Sound, Waiting
    <3>. QED BY <3>2, <3>3, <3>4
  <2>2. def.requireDistinctApprovers =>
          \A j, k \in DOMAIN ds : j # k => ds[j].by # ds[k].by
    BY <2>1, <1>3
  <2>3. ASSUME NEW k \in DOMAIN ds, ds[k].stage = BypassStage
        PROVE  PmoRole \in RolesOf[ds[k].by]
    BY <2>3, <1>1, <1>2, <1>3 DEF Sound, Distinct
  <2>. QED BY <1>5, <2>2, <2>3 DEF Distinct
<1>. QED BY <1>5, <1>7, <1>8 DEF Sound, nx

-----------------------------------------------------------------------------
(* The service.                                                            *)

Good(p) ==
  /\ p \in StoredProposal
  /\ DOMAIN p.def.stages \subseteq StageIds
  /\ Sound(p.def, p.state)

StoreGood ==
  \A id \in Proposals : proposals[id] \in {Unraised, Expired} \/ Good(proposals[id])

\* What a request that still has to decide knows about its copy.
Undecided(r) ==
  /\ call[r] \in Call
  /\ call[r].kind \in {"decide", "bypass"}
  /\ Good(copy[r])
  /\ copy[r].state.status = "pending"
  /\ call[r].kind = "bypass" =>
       ~isDualControl(copy[r].def) /\ PmoRole \in RolesOf[call[r].by]

RequestGood(r) ==
  \/ pc[r] = "idle" /\ call[r] = NoCall /\ copy[r] = Unraised
  \/ pc[r] \in {"getChallenge", "delChallenge", "getCredential"} /\ Undecided(r)
  \/ pc[r] = "save" /\ call[r] \in Call /\ Good(copy[r])
  \/ pc[r] \in {"execute", "record"} /\ call[r] \in Call /\ Good(copy[r])
       /\ Approved(copy[r])

RequestsGood == \A r \in Requests : RequestGood(r)

IInv == TypeOK /\ StoreGood /\ RequestsGood

\* The fields of a call that decides or overrides.
LEMMA CallFields ==
  ASSUME NEW c \in Call
  PROVE  /\ c.id \in Proposals
         /\ c.kind \in {"decide", "bypass"} => c.by \in Subs
         /\ c.kind = "decide" => c.decision \in {"approve", "reject"}
<1>. QED BY DEF Call

\* A step that leaves every other request alone keeps RequestsGood if it does for r.
LEMMA OneRequest ==
  ASSUME NEW r \in Requests, TypeOK, RequestsGood, RequestGood(r)',
         \A q \in Requests : q # r =>
           pc'[q] = pc[q] /\ call'[q] = call[q] /\ copy'[q] = copy[q]
  PROVE  RequestsGood'
<1>1. ASSUME NEW q \in Requests, q # r PROVE RequestGood(q)'
  <2>1. RequestGood(q)
    BY DEF RequestsGood
  <2>2. pc'[q] = pc[q] /\ call'[q] = call[q] /\ copy'[q] = copy[q]
    BY <1>1
  <2>. QED BY <2>1, <2>2 DEF RequestGood, Undecided, Good, Approved
<1>. QED BY <1>1 DEF RequestsGood

\* Ending a request keeps the invariant of the requests.
LEMMA FinishGood ==
  ASSUME NEW r \in Requests, TypeOK, RequestsGood, Finish(r)
  PROVE  /\ RequestsGood'
         /\ pc' \in [Requests -> Pc]
         /\ call' \in [Requests -> Call \cup {NoCall}]
         /\ copy' \in [Requests -> StoredProposal \cup {Unraised}]
<1>1. pc'[r] = "idle" /\ call'[r] = NoCall /\ copy'[r] = Unraised
  BY DEF Finish, TypeOK
<1>2. RequestGood(r)'
  BY <1>1 DEF RequestGood
<1>3. \A q \in Requests : q # r =>
        pc'[q] = pc[q] /\ call'[q] = call[q] /\ copy'[q] = copy[q]
  BY DEF Finish, TypeOK
<1>4. RequestsGood'
  BY <1>2, <1>3, OneRequest
<1>5. pc' \in [Requests -> Pc]
  BY DEF Finish, TypeOK, Pc
<1>. QED BY <1>4, <1>5 DEF Finish, TypeOK

\* Loading a proposal starts a request with a good copy.
LEMMA LoadGood ==
  ASSUME NEW r \in Requests, NEW args \in Call, NEW loaded, NEW step, IInv,
         Load(r, args, loaded, step), Good(loaded),
         \/ step = "save"
         \/ /\ step = "getChallenge"
            /\ args.kind \in {"decide", "bypass"} /\ loaded.state.status = "pending"
            /\ args.kind = "bypass" =>
                 ~isDualControl(loaded.def) /\ PmoRole \in RolesOf[args.by]
  PROVE  IInv'
<1>1. pc'[r] = step /\ call'[r] = args /\ copy'[r] = loaded
  BY DEF Load, GoTo, IInv, TypeOK
<1>2. RequestGood(r)'
  BY <1>1 DEF RequestGood, Undecided, Good
<1>3. \A q \in Requests : q # r =>
        pc'[q] = pc[q] /\ call'[q] = call[q] /\ copy'[q] = copy[q]
  BY DEF Load, GoTo, IInv, TypeOK
<1>4. RequestsGood'
  BY <1>2, <1>3, OneRequest DEF IInv
<1>5. TypeOK'
  BY DEF Load, GoTo, IInv, TypeOK, Pc, Good
<1>6. StoreGood'
  BY DEF Load, IInv, StoreGood, Good
<1>. QED BY <1>4, <1>5, <1>6 DEF IInv

\* The invariant holds initially.
LEMMA InitInv == Init => IInv
<1> SUFFICES ASSUME Init PROVE IInv
  OBVIOUS
<1>1. TypeOK
  BY DEF Init, TypeOK, Pc
<1>2. StoreGood /\ RequestsGood
  BY DEF Init, StoreGood, RequestsGood, RequestGood
<1>. QED BY <1>1, <1>2 DEF IInv

\* Steps that create, expire or challenge leave the requests alone.
LEMMA StoreStep ==
  ASSUME IInv, UNCHANGED requestVars, TypeOK', StoreGood'
  PROVE  IInv'
<1>. QED BY DEF IInv, requestVars, RequestsGood, RequestGood, Undecided, Good, Approved

\* Every step of a request keeps the invariant.
LEMMA RequestStepInv ==
  ASSUME IInv, NEW r \in Requests, RequestStep(r) \/ Crash(r)
  PROVE  IInv'
<1> USE DEF IInv
<1>0. /\ RequestGood(r)
      /\ copy[r] \in StoredProposal \cup {Unraised}
  BY DEF RequestsGood, TypeOK
<1>1. ASSUME GetChallenge(r) PROVE IInv'
  <2>1. StoreGood' /\ UNCHANGED <<proposals, challenges, nonce, invoked>>
    BY <1>1 DEF GetChallenge, StoreGood, Good
  <2>2. CASE Finish(r)
    BY <2>1, <2>2, FinishGood DEF TypeOK
  <2>3. CASE GoTo(r, "delChallenge") /\ UNCHANGED <<call, copy>>
    <3>1. pc'[r] = "delChallenge" /\ \A q \in Requests : q # r => pc'[q] = pc[q]
      BY <2>3 DEF GoTo, TypeOK
    <3>2. RequestGood(r)'
      BY <1>0, <1>1, <2>3, <3>1 DEF GetChallenge, RequestGood, Undecided, Good
    <3>3. RequestsGood'
      BY <2>3, <3>1, <3>2, OneRequest
    <3>. QED BY <2>1, <2>3, <3>3 DEF GoTo, TypeOK, Pc
  <2>. QED BY <1>1, <2>2, <2>3 DEF GetChallenge
<1>2. ASSUME DelChallenge(r) PROVE IInv'
  <2>1. pc'[r] = "getCredential" /\ \A q \in Requests : q # r => pc'[q] = pc[q]
    BY <1>2 DEF DelChallenge, GoTo, TypeOK
  <2>2. RequestGood(r)'
    BY <1>0, <1>2, <2>1 DEF DelChallenge, RequestGood, Undecided, Good
  <2>3. RequestsGood'
    BY <1>2, <2>1, <2>2, OneRequest DEF DelChallenge
  <2>4. challenges' \in [Proposals \X StageIds \X Subs -> 0 .. MaxChallenges]
    <3>1. 0 \in 0 .. MaxChallenges
      OBVIOUS
    <3>. QED BY <1>2, <3>1, Zenon DEF DelChallenge, TypeOK
  <2>. QED BY <1>2, <2>3, <2>4 DEF DelChallenge, GoTo, TypeOK, Pc, StoreGood, Good
<1>3. ASSUME GetCredential(r) PROVE IInv'
  <2>1. StoreGood' /\ UNCHANGED <<proposals, challenges, nonce, invoked>>
    BY <1>3 DEF GetCredential, StoreGood, Good
  <2>2. CASE Finish(r)
    BY <2>1, <2>2, FinishGood DEF TypeOK
  <2>3. CASE /\ EngineAccepts(r) /\ GoTo(r, "save")
             /\ copy' = [copy EXCEPT ![r] = Decided(r)] /\ UNCHANGED call
    <3> DEFINE p == copy[r]
    <3>1. Undecided(r) /\ p \in StoredProposal /\ p.def \in ChainDef
          /\ p.state \in ChainState /\ DOMAIN p.def.stages \subseteq StageIds
      BY <1>0, <1>3 DEF GetCredential, RequestGood, Undecided, Good, StoredProposal
    <3>2. Good(Decided(r))
      <4>1. CASE call[r].kind = "bypass"
        <5>1. Decided(r) = [p EXCEPT !.state = bypassChain(p.state, call[r].by)]
          BY <4>1 DEF Decided
        <5>2. bypassChain(p.state, call[r].by) \in ChainState
              /\ Sound(p.def, bypassChain(p.state, call[r].by))
          BY <3>1, <4>1, CallFields, BypassSound DEF Undecided, Good
        <5>. QED BY <3>1, <5>1, <5>2 DEF Good, StoredProposal
      <4>2. CASE call[r].kind = "decide"
        <5> DEFINE st == applyDecision(p.def, p.state, call[r].by, call[r].decision)
        <5>1. Decided(r) = [p EXCEPT !.state = st]
          BY <4>2 DEF Decided
        <5>2. st \in ChainState /\ Sound(p.def, st)
          BY <2>3, <3>1, <4>2, CallFields, DecideSound DEF Undecided, Good, EngineAccepts
        <5> HIDE DEF st
        <5>. QED BY <3>1, <5>1, <5>2 DEF Good, StoredProposal
      <4>. QED BY <3>1, <4>1, <4>2 DEF Undecided
    <3>3. /\ pc'[r] = "save" /\ call'[r] = call[r] /\ copy'[r] = Decided(r)
          /\ \A q \in Requests : q # r =>
               pc'[q] = pc[q] /\ call'[q] = call[q] /\ copy'[q] = copy[q]
      BY <2>3 DEF GoTo, TypeOK
    <3>4. RequestGood(r)'
      BY <3>1, <3>2, <3>3 DEF RequestGood, Undecided, Good
    <3>5. RequestsGood'
      BY <3>3, <3>4, OneRequest
    <3>6. copy' \in [Requests -> StoredProposal \cup {Unraised}]
      BY <2>3, <3>2 DEF TypeOK, Good
    <3>. QED BY <2>1, <2>3, <3>5, <3>6 DEF GoTo, TypeOK, Pc
  <2>. QED BY <1>3, <2>2, <2>3 DEF GetCredential
<1>4. ASSUME SaveDecision(r) PROVE IInv'
  <2>1. call[r] \in Call /\ Good(copy[r])
    BY <1>0, <1>4 DEF SaveDecision, RequestGood
  <2>2. /\ proposals' = [proposals EXCEPT ![call[r].id] = copy[r]]
        /\ UNCHANGED <<challenges, nonce, invoked>>
    BY <1>4 DEF SaveDecision
  <2>3. StoreGood' /\ proposals' \in [Proposals -> StoredProposal \cup {Unraised, Expired}]
    BY <2>1, <2>2 DEF StoreGood, Good, TypeOK
  <2>4. CASE Finish(r)
    BY <2>2, <2>3, <2>4, FinishGood DEF TypeOK
  <2>5. CASE Approved(copy[r]) /\ GoTo(r, "execute") /\ UNCHANGED <<call, copy>>
    <3>1. pc'[r] = "execute" /\ \A q \in Requests : q # r => pc'[q] = pc[q]
      BY <2>5 DEF GoTo, TypeOK
    <3>2. RequestGood(r)'
      BY <2>1, <2>5, <3>1 DEF RequestGood, Good, Approved
    <3>3. RequestsGood'
      BY <2>5, <3>1, <3>2, OneRequest
    <3>. QED BY <2>2, <2>3, <2>5, <3>3 DEF GoTo, TypeOK, Pc
  <2>. QED BY <1>4, <2>4, <2>5 DEF SaveDecision, Approved
<1>5. ASSUME RunExecutor(r) PROVE IInv'
  <2>1. call[r] \in Call /\ Good(copy[r]) /\ Approved(copy[r])
    BY <1>0, <1>5 DEF RunExecutor, RequestGood
  <2>2. StoreGood' /\ UNCHANGED <<proposals, challenges, nonce>>
    BY <1>5 DEF RunExecutor, StoreGood, Good
  <2>3. invoked' \in [Proposals -> Nat]
    <3>1. call[r].id \in Proposals
      BY <2>1, CallFields
    <3>2. invoked[call[r].id] + 1 \in Nat
      BY <3>1 DEF TypeOK
    <3>3. \/ invoked' = invoked
          \/ invoked' = [invoked EXCEPT ![call[r].id] = invoked[call[r].id] + 1]
      BY <1>5, Zenon DEF RunExecutor
    <3>. QED BY <3>2, <3>3, Zenon DEF TypeOK
  <2>4. CASE Finish(r)
    BY <2>2, <2>3, <2>4, FinishGood DEF TypeOK
  <2>5. ASSUME NEW outcome \in {"executed", "failed", "no-executor"},
               GoTo(r, "record"), copy' = [copy EXCEPT ![r].execution = outcome],
               UNCHANGED call
        PROVE  IInv'
    <3> DEFINE new == [copy[r] EXCEPT !.execution = outcome]
    <3>1. Good(new) /\ Approved(new)
      BY <2>1, <2>5 DEF Good, Approved, StoredProposal
    <3>2. copy' = [copy EXCEPT ![r] = new]
      BY <2>5
    <3> HIDE DEF new
    <3>3. /\ pc'[r] = "record" /\ call'[r] = call[r] /\ copy'[r] = new
          /\ \A q \in Requests : q # r =>
               pc'[q] = pc[q] /\ call'[q] = call[q] /\ copy'[q] = copy[q]
      BY <2>5, <3>2 DEF GoTo, TypeOK
    <3>4. RequestGood(r)'
      BY <2>1, <3>1, <3>3 DEF RequestGood, Good, Approved
    <3>5. RequestsGood'
      BY <3>3, <3>4, OneRequest
    <3>6. copy' \in [Requests -> StoredProposal \cup {Unraised}]
      BY <3>1, <3>2 DEF TypeOK, Good
    <3>. QED BY <2>2, <2>3, <2>5, <3>5, <3>6 DEF GoTo, TypeOK, Pc
  <2>. QED BY <1>5, <2>4, <2>5 DEF RunExecutor, AfterExecutor
<1>6. ASSUME RecordOutcome(r) PROVE IInv'
  <2>1. call[r] \in Call /\ Good(copy[r])
    BY <1>0, <1>6 DEF RecordOutcome, RequestGood
  <2>2. /\ proposals' = [proposals EXCEPT ![call[r].id] = copy[r]]
        /\ Finish(r) /\ UNCHANGED <<challenges, nonce, invoked>>
    BY <1>6 DEF RecordOutcome
  <2>3. StoreGood' /\ proposals' \in [Proposals -> StoredProposal \cup {Unraised, Expired}]
    BY <2>1, <2>2 DEF StoreGood, Good, TypeOK
  <2>. QED BY <2>2, <2>3, FinishGood DEF TypeOK
<1>7. ASSUME Crash(r) PROVE IInv'
  <2>1. StoreGood' /\ Finish(r) /\ UNCHANGED <<proposals, challenges, nonce, invoked>>
    BY <1>7 DEF Crash, StoreGood, Good
  <2>. QED BY <2>1, FinishGood DEF TypeOK
<1>. QED BY <1>1, <1>2, <1>3, <1>4, <1>5, <1>6, <1>7 DEF RequestStep

\* A request that starts keeps the invariant.
LEMMA NewRequestInv ==
  ASSUME IInv, NEW r \in Requests, NewRequest(r)
  PROVE  IInv'
<1> USE DEF IInv
<1>1. ASSUME NEW id \in Proposals, Raised(id)
      PROVE  /\ Good(proposals[id])
             /\ proposals[id].def \in ChainDef /\ proposals[id].state \in ChainState
             /\ DOMAIN proposals[id].def.stages \subseteq StageIds
  BY <1>1 DEF StoreGood, Raised, Good, StoredProposal
<1>2. ASSUME NEW sc \in Proposals \X StageIds \X Subs, challenges[sc] # 0
      PROVE  challenges[sc] \in 1 .. MaxChallenges
  <2>1. challenges[sc] \in 0 .. MaxChallenges
    BY DEF TypeOK
  <2>. QED BY <2>1, <1>2
<1>3. ASSUME NEW id \in Proposals, NEW who \in Subs,
             NEW verdict \in {"approve", "reject"}, SubmitDecision(r, id, who, verdict)
      PROVE  IInv'
  <2> DEFINE p == proposals[id]
             c == challenges[<<id, p.state.currentStage, who>>]
             args == [kind |-> "decide", id |-> id, by |-> who, decision |-> verdict,
                      presented |-> c]
  <2>1. /\ Raised(id) /\ HasActiveStage(p.def, p.state) /\ c # 0
        /\ Load(r, args, p, "getChallenge")
    BY <1>3 DEF SubmitDecision
  <2>2. Good(p) /\ p.state.status = "pending"
    BY <1>1, <2>1 DEF HasActiveStage
  <2>3. args \in Call
    <3>1. <<id, p.state.currentStage, who>> \in Proposals \X StageIds \X Subs
      BY <1>1, <2>1 DEF HasActiveStage
    <3>2. c \in 1 .. MaxChallenges
      BY <1>2, <2>1, <3>1
    <3> HIDE DEF c
    <3>. QED BY <3>2 DEF Call
  <2>4. args.kind = "decide"
    OBVIOUS
  <2> HIDE DEF args, p
  <2>. QED BY <2>1, <2>2, <2>3, <2>4, LoadGood
<1>4. ASSUME NEW id \in Proposals, NEW who \in Subs, BypassProposal(r, id, who)
      PROVE  IInv'
  <2> DEFINE p == proposals[id]
             c == challenges[<<id, BypassStage, who>>]
             args == [kind |-> "bypass", id |-> id, by |-> who, presented |-> c]
  <2>1. /\ Raised(id) /\ p.state.status = "pending" /\ ~isDualControl(p.def)
        /\ PmoRole \in RolesOf[who] /\ c # 0
        /\ Load(r, args, p, "getChallenge")
    BY <1>4 DEF BypassProposal, Bypassable
  <2>2. Good(p)
    BY <1>1, <2>1
  <2>3. args \in Call
    <3>1. c \in 1 .. MaxChallenges
      BY <1>2, <2>1
    <3> HIDE DEF c
    <3>. QED BY <3>1 DEF Call
  <2>4. args.kind = "bypass" /\ args.by = who
    OBVIOUS
  <2> HIDE DEF args, p
  <2>. QED BY <2>1, <2>2, <2>3, <2>4, LoadGood
<1>5. ASSUME NEW id \in Proposals, NEW newApprovers \in Redirects,
             RedirectProposal(r, id, newApprovers)
      PROVE  IInv'
  <2> DEFINE p == proposals[id]
             nd == redirectStage(p.def, p.state, newApprovers)
             args == [kind |-> "redirect", id |-> id]
             loaded == [p EXCEPT !.def = nd]
  <2>1. /\ Raised(id) /\ HasActiveStage(p.def, p.state)
        /\ Load(r, args, loaded, "save")
    BY <1>5 DEF RedirectProposal
  <2>2. Good(p) /\ p.def \in ChainDef /\ p.state \in ChainState
    BY <1>1, <2>1
  <2>3. /\ nd \in ChainDef /\ Sound(nd, p.state)
        /\ DOMAIN nd.stages = DOMAIN p.def.stages /\ DOMAIN nd.stages \subseteq StageIds
    BY <2>1, <2>2, RedirectSound DEF Good
  <2>4. args \in Call
    BY DEF Call
  <2> HIDE DEF nd, args
  <2>5. Good(loaded)
    BY <2>2, <2>3 DEF Good, StoredProposal
  <2> HIDE DEF loaded
  <2>. QED BY <2>1, <2>4, <2>5, LoadGood
<1>. QED BY <1>3, <1>4, <1>5 DEF NewRequest

-----------------------------------------------------------------------------
\* Every step keeps the invariant.
LEMMA NextInv == IInv /\ [Next]_vars => IInv'
<1> SUFFICES ASSUME IInv, [Next]_vars PROVE IInv'
  OBVIOUS
<1> USE DEF IInv
<1>1. ASSUME NEW id \in Proposals, NEW def \in Defs, NEW by \in Proposers,
             CreateProposal(id, def, by)
      PROVE  IInv'
  <2> DEFINE fresh == [def |-> def, state |-> startChain(by), execution |-> "none"]
  <2>1. /\ def \in ChainDef /\ def.stages # <<>> /\ by \in Subs
        /\ DOMAIN def.stages \subseteq StageIds
    OBVIOUS
  <2>2. startChain(by) \in ChainState /\ Sound(def, startChain(by))
    BY <2>1, StartSound
  <2>3. Good(fresh)
    BY <2>1, <2>2 DEF Good, StoredProposal
  <2>4. proposals' = [proposals EXCEPT ![id] = fresh]
        /\ UNCHANGED <<challenges, nonce, requestVars, invoked>>
    BY <1>1 DEF CreateProposal
  <2> HIDE DEF fresh
  <2>5. StoreGood'
    BY <2>3, <2>4 DEF StoreGood, Good, TypeOK
  <2>6. TypeOK'
    BY <2>3, <2>4 DEF TypeOK, requestVars, Good
  <2>. QED BY <2>4, <2>5, <2>6, StoreStep
<1>2. ASSUME NEW sc \in Proposals \X StageIds \X Subs, IssueChallenge(sc)
      PROVE  IInv'
  <2>1. nonce' \in 0 .. MaxChallenges
    BY <1>2 DEF IssueChallenge, TypeOK
  <2>2. challenges' \in [Proposals \X StageIds \X Subs -> 0 .. MaxChallenges]
    BY <1>2, <2>1, Zenon DEF IssueChallenge, TypeOK
  <2>3. UNCHANGED <<proposals, requestVars, invoked>>
    BY <1>2 DEF IssueChallenge
  <2>4. TypeOK' /\ StoreGood'
    BY <2>1, <2>2, <2>3 DEF TypeOK, StoreGood, Good, requestVars
  <2>. QED BY <2>3, <2>4, StoreStep
<1>3. ASSUME NEW id \in Proposals, NEW who \in Subs, ChallengeForStage(id, who)
      PROVE  IInv'
  <2>1. <<id, proposals[id].state.currentStage, who>> \in Proposals \X StageIds \X Subs
    BY <1>3 DEF ChallengeForStage, HasActiveStage, StoreGood, Raised, Good
  <2>. QED BY <1>2, <1>3, <2>1 DEF ChallengeForStage
<1>4. ASSUME NEW id \in Proposals, NEW who \in Subs, ChallengeForBypass(id, who)
      PROVE  IInv'
  BY <1>2, <1>4 DEF ChallengeForBypass
<1>5. ASSUME NEW sc \in DOMAIN challenges, LapseChallenge(sc) PROVE IInv'
  <2>1. 0 \in 0 .. MaxChallenges
    OBVIOUS
  <2>2. challenges' \in [Proposals \X StageIds \X Subs -> 0 .. MaxChallenges]
    BY <1>5, <2>1, Zenon DEF LapseChallenge, TypeOK
  <2>3. UNCHANGED <<proposals, nonce, requestVars, invoked>>
    BY <1>5 DEF LapseChallenge
  <2>4. TypeOK' /\ StoreGood'
    BY <2>2, <2>3 DEF TypeOK, StoreGood, Good, requestVars
  <2>. QED BY <2>3, <2>4, StoreStep
<1>6. ASSUME NEW id \in Proposals, ExpireProposal(id) PROVE IInv'
  <2>1. proposals' = [proposals EXCEPT ![id] = Expired]
        /\ UNCHANGED <<challenges, nonce, requestVars, invoked>>
    BY <1>6 DEF ExpireProposal
  <2>2. TypeOK' /\ StoreGood'
    BY <2>1 DEF TypeOK, StoreGood, Good, requestVars
  <2>. QED BY <2>1, <2>2, StoreStep
<1>7. ASSUME UNCHANGED vars PROVE IInv'
  <2>1. TypeOK' /\ StoreGood' /\ UNCHANGED requestVars
    BY <1>7 DEF vars, requestVars, TypeOK, StoreGood, Good
  <2>. QED BY <2>1, StoreStep
<1>. QED BY <1>1, <1>3, <1>4, <1>5, <1>6, <1>7, NewRequestInv, RequestStepInv DEF Next

\* IInv is an invariant of the service.
THEOREM Invariance == Spec => []IInv
<1>. QED BY InitInv, NextInv, PTL DEF Spec

\* The store entries and the requests in flight keep their shapes.
THEOREM TypeCorrect == Spec => []TypeOK
<1>1. IInv => TypeOK
  BY DEF IInv
<1>. QED BY Invariance, <1>1, PTL

\* An approved chain has every stage standing, whatever redirects, send-backs and stale
\* writes came before.
THEOREM StagesStand == Spec => []ApprovedChainsStand
<1>1. IInv => ApprovedChainsStand
  BY DEF IInv, StoreGood, Good, Sound, Standing, ApprovedChainsStand, Raised, Approved
<1>. QED BY Invariance, <1>1, PTL

\* N stages take N distinct people, and a dual-control chain is never overridden.
THEOREM HandsAreDistinct == Spec => []DistinctHands
<1>1. IInv => DistinctHands
  BY DEF IInv, StoreGood, Good, Sound, Distinct, DistinctHands, Raised
<1>. QED BY Invariance, <1>1, PTL

\* No request invokes an executor unless its own copy is approved on its own evidence.
THEOREM EffectIsApproved == Spec => EffectOnlyWhenApproved
<1>1. ASSUME IInv, [Next]_vars, NEW id \in Proposals, invoked'[id] # invoked[id]
      PROVE  \E r \in Requests :
               /\ pc[r] = "execute" /\ call[r].id = id
               /\ Approved(copy[r])
               /\ \/ \A i \in DOMAIN copy[r].def.stages :
                       StageStands(copy[r].def, copy[r].state, i)
                  \/ \E k \in DOMAIN copy[r].state.decisions :
                       LET d == copy[r].state.decisions[k] IN
                         d.stage = BypassStage /\ PmoRole \in RolesOf[d.by]
  <2>1. invoked' # invoked
    BY <1>1
  <2>2. PICK r \in Requests : RunExecutor(r)
    <3>1. \A id1 \in Proposals, def \in Defs, by \in Proposers :
            CreateProposal(id1, def, by) => UNCHANGED invoked
      BY DEF CreateProposal
    <3>2. \A id1 \in Proposals, who \in Subs :
            ChallengeForStage(id1, who) \/ ChallengeForBypass(id1, who) => UNCHANGED invoked
      BY DEF ChallengeForStage, ChallengeForBypass, IssueChallenge
    <3>3. \A r \in Requests : NewRequest(r) => UNCHANGED invoked
      <4>1. \A r, args, loaded, step : Load(r, args, loaded, step) => UNCHANGED invoked
        BY DEF Load
      <4>2. \A r \in Requests, id1 \in Proposals, who \in Subs, verdict \in {"approve", "reject"} :
              SubmitDecision(r, id1, who, verdict) => UNCHANGED invoked
        BY <4>1, Zenon DEF SubmitDecision
      <4>3. \A r \in Requests, id1 \in Proposals, who \in Subs :
              BypassProposal(r, id1, who) => UNCHANGED invoked
        BY <4>1, Zenon DEF BypassProposal
      <4>4. \A r \in Requests, id1 \in Proposals, newApprovers \in Redirects :
              RedirectProposal(r, id1, newApprovers) => UNCHANGED invoked
        BY <4>1, Zenon DEF RedirectProposal
      <4>. QED BY <4>2, <4>3, <4>4 DEF NewRequest
    <3>4. \A r \in Requests : RequestStep(r) /\ ~RunExecutor(r) => UNCHANGED invoked
      BY DEF RequestStep, GetChallenge, DelChallenge, GetCredential, SaveDecision, RecordOutcome
    <3>5. \A r \in Requests : Crash(r) => UNCHANGED invoked
      BY DEF Crash
    <3>6. (\E sc \in DOMAIN challenges : LapseChallenge(sc))
            \/ (\E id1 \in Proposals : ExpireProposal(id1)) => UNCHANGED invoked
      BY DEF LapseChallenge, ExpireProposal, requestVars
    <3>7. ~UNCHANGED vars
      BY <2>1 DEF vars
    <3>. QED BY <1>1, <2>1, <3>1, <3>2, <3>3, <3>4, <3>5, <3>6, <3>7 DEF Next
  <2>3. pc[r] = "execute" /\ call[r].id = id
    BY <1>1, <2>1, <2>2 DEF RunExecutor, IInv, TypeOK
  <2>4. Good(copy[r]) /\ Approved(copy[r])
    BY <1>1, <2>3 DEF IInv, RequestsGood, RequestGood
  <2>5. CASE ~Bypassed(copy[r].state)
    BY <2>3, <2>4, <2>5 DEF Good, Sound, Standing, Approved
  <2>6. CASE Bypassed(copy[r].state)
    BY <2>3, <2>4, <2>6 DEF Good, Sound, Distinct, Bypassed
  <2>. QED BY <2>5, <2>6
<1>2. IInv /\ [Next]_vars =>
        [\A id \in Proposals : invoked'[id] # invoked[id] =>
           \E r \in Requests :
             /\ pc[r] = "execute" /\ call[r].id = id
             /\ Approved(copy[r])
             /\ \/ \A i \in DOMAIN copy[r].def.stages :
                     StageStands(copy[r].def, copy[r].state, i)
                \/ \E k \in DOMAIN copy[r].state.decisions :
                     LET d == copy[r].state.decisions[k] IN
                       d.stage = BypassStage /\ PmoRole \in RolesOf[d.by]]_vars
  BY <1>1
<1>. QED BY Invariance, <1>2, PTL DEF Spec, EffectOnlyWhenApproved

-----------------------------------------------------------------------------
(* The refinement.  Requests that overlap on one proposal may overwrite    *)
(* each other's decisions, so the service keeps the promise only as long   *)
(* as no two of them do; requests on different proposals may overlap in    *)
(* any way.                                                                *)

\* No two requests are under way on one proposal.
NoOverlap ==
  \A r, s \in Requests :
    (pc[r] # "idle" /\ pc[s] # "idle" /\ call[r].id = call[s].id) => r = s

\* A copy has the decisions of a stored proposal, and at most one more.
AddsOneHand(stored, p) ==
  \/ p.state = stored.state
  \/ \E d \in PromiseHand : p.state.decisions = Append(stored.state.decisions, d)

\* What a request holds is what is stored, up to the one decision it is about to add.
Current(r) ==
  LET id == call[r].id IN
  /\ Raised(id)
  /\ pc[r] \in {"getChallenge", "delChallenge", "getCredential"} => proposals[id] = copy[r]
  /\ pc[r] = "save" =>
       proposals[id].state.status = "pending" /\ AddsOneHand(proposals[id], copy[r])
  /\ pc[r] = "execute" => proposals[id] = copy[r] /\ invoked[id] = 0
  /\ pc[r] = "record" => proposals[id].state = copy[r].state

CopiesCurrent == \A r \in Requests : pc[r] # "idle" => Current(r)

\* An effect happened once at most, and to an approved proposal.
EffectsCounted ==
  \A id \in Proposals :
    /\ invoked[id] \in {0, 1}
    /\ invoked[id] = 1 => proposals[id] = Expired \/ (Raised(id) /\ Approved(proposals[id]))

PInv == IInv /\ CopiesCurrent /\ EffectsCounted

\* The promise's view of the service.
Phases == [id \in Proposals |-> PromisePhase(id)]
Hands == [id \in Proposals |-> PromiseHands(id)]

LEMMA PhaseOf ==
  ASSUME NEW id \in Proposals
  PROVE  /\ Raised(id) => PromisePhase(id) = proposals[id].state.status
                            /\ PromiseHands(id) = proposals[id].state.decisions
         /\ proposals[id] = Unraised => PromisePhase(id) = "none" /\ PromiseHands(id) = <<>>
         /\ proposals[id] = Expired => PromisePhase(id) = "gone" /\ PromiseHands(id) = <<>>
BY DEF Raised, PromisePhase, PromiseHands

LEMMA PhaseOfNext ==
  ASSUME NEW id \in Proposals
  PROVE  /\ Raised(id)' => PromisePhase(id)' = proposals'[id].state.status
                             /\ PromiseHands(id)' = proposals'[id].state.decisions
         /\ proposals'[id] = Expired => PromisePhase(id)' = "gone" /\ PromiseHands(id)' = <<>>
BY DEF Raised, PromisePhase, PromiseHands

\* A step that leaves what the promise sees of each proposal is a stutter.
LEMMA Stutter ==
  ASSUME \A id \in Proposals : PromisePhase(id)' = PromisePhase(id)
                               /\ PromiseHands(id)' = PromiseHands(id),
         UNCHANGED invoked
  PROVE  UNCHANGED Promise!pvars
BY DEF Promise!pvars

\* A step that changes one proposal changes one entry of the promise's view.
LEMMA OneProposal ==
  ASSUME NEW i \in Proposals, \A id \in Proposals \ {i} : proposals'[id] = proposals[id]
  PROVE  /\ Phases' = [Phases EXCEPT ![i] = PromisePhase(i)']
         /\ Hands' = [Hands EXCEPT ![i] = PromiseHands(i)']
<1>1. \A id \in Proposals \ {i} : PromisePhase(id)' = PromisePhase(id)
                                  /\ PromiseHands(id)' = PromiseHands(id)
  BY DEF PromisePhase, PromiseHands, Raised
<1>. QED BY <1>1 DEF Phases, Hands

\* A step that touches one proposal leaves the requests on others current.
LEMMA OthersCurrent ==
  ASSUME CopiesCurrent, NEW r \in Requests,
         \A q \in Requests \ {r} :
           /\ pc'[q] = pc[q] /\ call'[q] = call[q] /\ copy'[q] = copy[q]
           /\ pc[q] # "idle" => proposals'[call[q].id] = proposals[call[q].id]
                                /\ invoked'[call[q].id] = invoked[call[q].id],
         pc'[r] # "idle" => Current(r)'
  PROVE  CopiesCurrent'
<1>1. ASSUME NEW q \in Requests, q # r, pc'[q] # "idle" PROVE Current(q)'
  <2>1. /\ pc'[q] = pc[q] /\ call'[q] = call[q] /\ copy'[q] = copy[q]
        /\ proposals'[call[q].id] = proposals[call[q].id]
        /\ invoked'[call[q].id] = invoked[call[q].id]
        /\ Current(q)
    BY <1>1 DEF CopiesCurrent
  <2>. QED BY <2>1 DEF Current, Raised
<1>. QED BY <1>1 DEF CopiesCurrent

\* Steps outside the requests touch no proposal that a request is under way on.
LEMMA IdleCurrent ==
  ASSUME CopiesCurrent, UNCHANGED <<requestVars, invoked>>,
         \A r \in Requests : pc[r] # "idle" => proposals'[call[r].id] = proposals[call[r].id]
  PROVE  CopiesCurrent'
<1>1. ASSUME NEW r \in Requests, pc'[r] # "idle" PROVE Current(r)'
  <2>1. pc' = pc /\ call' = call /\ copy' = copy /\ invoked' = invoked
    BY DEF requestVars
  <2>2. Current(r) /\ proposals'[call[r].id] = proposals[call[r].id]
    BY <1>1, <2>1 DEF CopiesCurrent
  <2>. QED BY <2>1, <2>2 DEF Current, Raised
<1>. QED BY <1>1 DEF CopiesCurrent

\* What a request knows of its call and its proposal.
LEMMA UnderWay ==
  ASSUME IInv, CopiesCurrent, NEW r \in Requests, pc[r] # "idle"
  PROVE  /\ call[r] \in Call /\ call[r].id \in Proposals
         /\ Raised(call[r].id) /\ proposals[call[r].id] \in StoredProposal
         /\ copy[r] \in StoredProposal /\ Good(copy[r]) /\ Current(r)
<1>1. call[r] \in Call /\ Good(copy[r])
  BY DEF IInv, RequestsGood, RequestGood, Undecided
<1>2. call[r].id \in Proposals
  BY <1>1, CallFields
<1>3. Current(r) /\ Raised(call[r].id)
  BY DEF CopiesCurrent, Current
<1>. QED BY <1>1, <1>2, <1>3 DEF IInv, TypeOK, Raised, Good

\* A request that ends, and one that moves on, leave the others as they are.
LEMMA OthersAlone ==
  ASSUME IInv, NEW r \in Requests
  PROVE  /\ Finish(r) =>
              /\ pc'[r] = "idle"
              /\ \A q \in Requests \ {r} :
                   pc'[q] = pc[q] /\ call'[q] = call[q] /\ copy'[q] = copy[q]
         /\ \A step : GoTo(r, step) =>
              pc'[r] = step /\ \A q \in Requests \ {r} : pc'[q] = pc[q]
BY DEF IInv, TypeOK, Finish, GoTo

\* What the engine adds to the record (applyDecision, bypassChain).
LEMMA OneHandMore ==
  ASSUME IInv, NEW r \in Requests, pc[r] = "getCredential", EngineAccepts(r)
  PROVE  /\ Decided(r).def = copy[r].def /\ Decided(r).state \in ChainState
         /\ \E d \in PromiseHand :
              Decided(r).state.decisions = Append(copy[r].state.decisions, d)
<1> DEFINE p == copy[r]
           st == p.state
           who == call[r].by
<1>1. /\ Undecided(r) /\ p \in StoredProposal /\ st \in ChainState /\ p.def \in ChainDef
      /\ who \in Subs /\ DOMAIN p.def.stages \subseteq StageIds
      /\ st.decisions \in Seq(Decision) /\ Sound(p.def, st) /\ st.status = "pending"
  <2>1. Undecided(r) /\ Good(p)
    BY DEF IInv, RequestsGood, RequestGood, Undecided
  <2>2. p \in StoredProposal /\ st \in ChainState /\ p.def \in ChainDef
    BY <2>1 DEF Good, StoredProposal
  <2>3. who \in Subs
    BY <2>1, CallFields DEF Undecided
  <2>. QED BY <2>1, <2>2, <2>3 DEF Undecided, Good, ChainState
<1>2. CASE call[r].kind = "bypass"
  <2> DEFINE d == [stage |-> BypassStage, by |-> who, via |-> "human", decision |-> "approve"]
  <2>1. d \in PromiseHand
    BY <1>1 DEF PromiseHand
  <2>2. Decided(r) = [p EXCEPT !.state = bypassChain(st, who)]
    BY <1>2 DEF Decided
  <2>3. bypassChain(st, who) = [st EXCEPT !.status = "approved",
                                          !.decisions = Append(st.decisions, d)]
    BY DEF bypassChain
  <2>4. bypassChain(st, who) \in ChainState
    BY <1>1, <1>2, BypassSound DEF Undecided
  <2> HIDE DEF d
  <2>5. bypassChain(st, who).decisions = Append(st.decisions, d)
    BY <1>1, <2>3 DEF ChainState
  <2>. QED BY <1>1, <2>1, <2>2, <2>4, <2>5 DEF StoredProposal
<1>3. CASE call[r].kind = "decide"
  <2> DEFINE verdict == call[r].decision
             d == [stage |-> st.currentStage, by |-> who, via |-> Via(who), decision |-> verdict]
             st1 == [st EXCEPT !.decisions = Append(st.decisions, d)]
             nx == applyDecision(p.def, st, who, verdict)
  <2>1. MayDecide(p.def, st, who, verdict) /\ verdict \in {"approve", "reject"}
    BY <1>1, <1>3, CallFields DEF EngineAccepts, Undecided
  <2>2. st.currentStage \in StageIds
    BY <1>1, <2>1 DEF MayDecide, HasActiveStage
  <2>3. d \in PromiseHand
    BY <1>1, <2>1, <2>2 DEF PromiseHand, Via
  <2>4. nx \in ChainState
    BY <1>1, <2>1, DecideSound
  <2>5. Decided(r) = [p EXCEPT !.state = nx]
    BY <1>3 DEF Decided
  <2>6. nx = IF verdict = "reject" THEN AfterReject(p.def, st1) ELSE AfterApprove(p.def, st1)
    BY DEF applyDecision
  <2> HIDE DEF d, nx
  <2>7. st1.decisions = Append(st.decisions, d) /\ st1 = [st1 EXCEPT !.status = st1.status]
    BY <1>1 DEF ChainState
  <2>8. DOMAIN st1 = DOMAIN st /\ DOMAIN st = {"proposedBy", "status", "currentStage", "decisions"}
    BY <1>1 DEF ChainState
  <2> HIDE DEF st1
  <2>9. nx.decisions = st1.decisions
    BY <2>6, <2>8 DEF AfterReject, AfterApprove
  <2>. QED BY <1>1, <2>3, <2>4, <2>5, <2>7, <2>9 DEF StoredProposal
<1>. QED BY <1>1, <1>2, <1>3 DEF Undecided

-----------------------------------------------------------------------------
(* Each step of the service is a step of the promise, or a stutter.        *)

PromiseStep == CopiesCurrent' /\ EffectsCounted' /\ [Promise!Next]_(Promise!pvars)

\* A step that changes neither a proposal nor an effect.
LEMMA QuietStep ==
  ASSUME EffectsCounted, UNCHANGED <<proposals, invoked>>, CopiesCurrent'
  PROVE  PromiseStep
<1>1. EffectsCounted'
  BY DEF EffectsCounted, Raised, Approved
<1>2. UNCHANGED Promise!pvars
  BY Stutter DEF PromisePhase, PromiseHands, Raised
<1>. QED BY <1>1, <1>2 DEF PromiseStep

\* A step of the promise on one proposal, by what it changes.
LEMMA PromiseSteps ==
  ASSUME NEW i \in Proposals
  PROVE  /\ (/\ Phases[i] = "none" /\ Phases' = [Phases EXCEPT ![i] = "pending"]
             /\ Hands' = Hands /\ invoked' = invoked) => Promise!Next
         /\ (/\ Phases[i] = "pending"
             /\ \E d \in PromiseHand : Hands' = [Hands EXCEPT ![i] = Append(Hands[i], d)]
             /\ \E next \in {"pending", "approved", "rejected"} :
                  Phases' = [Phases EXCEPT ![i] = next]
             /\ invoked' = invoked) => Promise!Next
         /\ (/\ Phases[i] = "approved" /\ invoked[i] = 0
             /\ invoked' = [invoked EXCEPT ![i] = 1]
             /\ Phases' = Phases /\ Hands' = Hands) => Promise!Next
         /\ (/\ Phases[i] \in {"pending", "approved", "rejected"}
             /\ Phases' = [Phases EXCEPT ![i] = "gone"]
             /\ Hands' = [Hands EXCEPT ![i] = <<>>] /\ invoked' = invoked) => Promise!Next
<1>1. (/\ Phases[i] = "none" /\ Phases' = [Phases EXCEPT ![i] = "pending"]
       /\ Hands' = Hands /\ invoked' = invoked) => Promise!Raise(i)
  BY DEF Promise!Raise, Phases, Hands
<1>2. (/\ Phases[i] = "pending"
       /\ \E d \in PromiseHand : Hands' = [Hands EXCEPT ![i] = Append(Hands[i], d)]
       /\ \E next \in {"pending", "approved", "rejected"} :
            Phases' = [Phases EXCEPT ![i] = next]
       /\ invoked' = invoked) => Promise!Decide(i)
  BY DEF Promise!Decide, Phases, Hands
<1>3. (/\ Phases[i] = "approved" /\ invoked[i] = 0
       /\ invoked' = [invoked EXCEPT ![i] = 1]
       /\ Phases' = Phases /\ Hands' = Hands) => Promise!Effect(i)
  BY DEF Promise!Effect, Phases, Hands
<1>4. (/\ Phases[i] \in {"pending", "approved", "rejected"}
       /\ Phases' = [Phases EXCEPT ![i] = "gone"]
       /\ Hands' = [Hands EXCEPT ![i] = <<>>] /\ invoked' = invoked) => Promise!Forget(i)
  BY DEF Promise!Forget, Phases, Hands
<1>. QED BY <1>1, <1>2, <1>3, <1>4 DEF Promise!Next

\* A request's last write, or its only one: the whole copy is stored.
LEMMA StoreStates ==
  ASSUME IInv, NEW i \in Proposals, NEW p \in StoredProposal,
         proposals' = [proposals EXCEPT ![i] = p]
  PROVE  /\ proposals'[i] = p /\ Raised(i)'
         /\ \A id \in Proposals \ {i} : proposals'[id] = proposals[id]
         /\ PromisePhase(i)' = p.state.status /\ PromiseHands(i)' = p.state.decisions
<1>1. proposals'[i] = p /\ \A id \in Proposals \ {i} : proposals'[id] = proposals[id]
  BY DEF IInv, TypeOK
<1>2. Raised(i)'
  BY <1>1 DEF Raised
<1>. QED BY <1>1, <1>2, PhaseOfNext

LEMMA SameView ==
  ASSUME NEW i \in Proposals, \A id \in Proposals \ {i} : proposals'[id] = proposals[id],
         Raised(i), Raised(i)', proposals'[i].state = proposals[i].state
  PROVE  \A id \in Proposals : PromisePhase(id)' = PromisePhase(id)
                               /\ PromiseHands(id)' = PromiseHands(id)
<1>1. PromisePhase(i)' = PromisePhase(i) /\ PromiseHands(i)' = PromiseHands(i)
  BY PhaseOf, PhaseOfNext
<1>2. \A id \in Proposals \ {i} : PromisePhase(id)' = PromisePhase(id)
                                  /\ PromiseHands(id)' = PromiseHands(id)
  BY DEF PromisePhase, PromiseHands, Raised
<1>. QED BY <1>1, <1>2

LEMMA RequestKeepsPromise ==
  ASSUME PInv, NoOverlap, NEW r \in Requests, RequestStep(r) \/ Crash(r)
  PROVE  PromiseStep
<1>0. /\ IInv /\ CopiesCurrent /\ EffectsCounted
  BY DEF PInv
<1>1. pc[r] # "idle"
  BY DEF RequestStep, GetChallenge, DelChallenge, GetCredential, SaveDecision, RunExecutor,
         RecordOutcome, Crash
<1>i. PICK i \in Proposals : i = call[r].id
  BY <1>0, <1>1, UnderWay
<1>2. /\ Raised(i) /\ proposals[i] \in StoredProposal
      /\ copy[r] \in StoredProposal /\ Good(copy[r]) /\ Current(r) /\ RequestGood(r)
  BY <1>0, <1>1, <1>i, UnderWay DEF IInv, RequestsGood
<1>3. \A q \in Requests \ {r} : pc[q] # "idle" => call[q].id # i
  BY <1>1, <1>i DEF NoOverlap
<1>4. ASSUME Finish(r), \A id \in Proposals \ {i} : /\ proposals'[id] = proposals[id]
                                                   /\ invoked'[id] = invoked[id]
      PROVE  CopiesCurrent'
  <2>1. \A q \in Requests \ {r} : pc[q] # "idle" => call[q].id \in Proposals \ {i}
    BY <1>0, <1>3, UnderWay
  <2>. QED BY <1>0, <1>4, <2>1, OthersAlone, OthersCurrent
<1>5. ASSUME NEW step, GoTo(r, step), UNCHANGED call, Current(r)',
             \A q \in Requests \ {r} : copy'[q] = copy[q],
             \A id \in Proposals \ {i} : /\ proposals'[id] = proposals[id]
                                         /\ invoked'[id] = invoked[id]
      PROVE  CopiesCurrent'
  <2>1. \A q \in Requests \ {r} : pc[q] # "idle" => call[q].id \in Proposals \ {i}
    BY <1>0, <1>3, UnderWay
  <2>2. \A q \in Requests \ {r} : pc'[q] = pc[q] /\ call'[q] = call[q]
    BY <1>0, <1>5, OthersAlone
  <2>. QED BY <1>0, <1>5, <2>1, <2>2, OthersCurrent
<1>6. ASSUME Finish(r), UNCHANGED <<proposals, invoked>> PROVE PromiseStep
  <2>1. CopiesCurrent'
    BY <1>4, <1>6
  <2>. QED BY <1>0, <1>6, <2>1, QuietStep
<1>7. CASE GetChallenge(r) \/ DelChallenge(r)
  <2>1. ASSUME NEW step \in {"delChallenge", "getCredential"},
               GoTo(r, step), UNCHANGED <<proposals, invoked, call, copy>>
        PROVE  PromiseStep
    <3>1. pc'[r] = step /\ proposals[i] = copy[r]
      BY <1>0, <1>i, <1>2, <1>7, <2>1, OthersAlone DEF Current, GetChallenge, DelChallenge, IInv, TypeOK, GoTo
    <3>2. Current(r)'
      BY <1>i, <1>2, <2>1, <3>1 DEF Current, Raised
    <3>3. CopiesCurrent'
      BY <1>5, <2>1, <3>2
    <3>. QED BY <1>0, <2>1, <3>3, QuietStep
  <2>. QED BY <1>6, <1>7, <2>1 DEF GetChallenge, DelChallenge
<1>8. CASE GetCredential(r)
  <2>1. UNCHANGED <<proposals, invoked>>
    BY <1>8 DEF GetCredential
  <2>2. ASSUME EngineAccepts(r), GoTo(r, "save"), copy' = [copy EXCEPT ![r] = Decided(r)],
               UNCHANGED call
        PROVE  PromiseStep
    <3>1. /\ pc[r] = "getCredential" /\ proposals[i] = copy[r]
          /\ copy[r].state.status = "pending"
      BY <1>i, <1>2, <1>8 DEF GetCredential, Current, RequestGood, Undecided
    <3>2. AddsOneHand(copy[r], Decided(r))
      BY <1>0, <2>2, <3>1, OneHandMore DEF AddsOneHand
    <3>3. pc'[r] = "save" /\ copy'[r] = Decided(r) /\ \A q \in Requests \ {r} : copy'[q] = copy[q]
      BY <1>0, <2>2 DEF GoTo, IInv, TypeOK
    <3>4. Current(r)'
      BY <1>i, <1>2, <2>1, <2>2, <3>1, <3>2, <3>3 DEF Current, Raised
    <3>5. CopiesCurrent'
      BY <1>5, <2>1, <2>2, <3>3, <3>4
    <3>. QED BY <1>0, <2>1, <3>5, QuietStep
  <2>. QED BY <1>6, <1>8, <2>1, <2>2 DEF GetCredential
<1>9. CASE SaveDecision(r)
  <2>p. PICK p \in StoredProposal : p = copy[r]
    BY <1>2
  <2>1. /\ pc[r] = "save" /\ proposals' = [proposals EXCEPT ![i] = p] /\ UNCHANGED invoked
    BY <1>9, <1>i, <2>p DEF SaveDecision
  <2>2. /\ proposals'[i] = p /\ Raised(i)'
        /\ \A id \in Proposals \ {i} : proposals'[id] = proposals[id]
        /\ PromisePhase(i)' = p.state.status /\ PromiseHands(i)' = p.state.decisions
    BY <1>0, <2>1, StoreStates
  <2>3. proposals[i].state.status = "pending" /\ AddsOneHand(proposals[i], p)
    BY <1>i, <1>2, <2>p, <2>1 DEF Current
  <2>4. invoked[i] = 0
    BY <1>0, <1>i, <1>2, <2>3 DEF EffectsCounted, Raised, Approved
  <2>5. CopiesCurrent'
    <3>1. CASE Finish(r)
      BY <1>4, <2>1, <2>2, <3>1
    <3>2. CASE GoTo(r, "execute") /\ UNCHANGED <<call, copy>>
      <4>1. pc'[r] = "execute"
        BY <1>0, <3>2, OthersAlone DEF GoTo, IInv, TypeOK
      <4>2. Current(r)'
        BY <1>i, <2>p, <2>1, <2>2, <2>4, <3>2, <4>1 DEF Current
      <4>. QED BY <1>5, <2>1, <2>2, <3>2, <4>2
    <3>. QED BY <1>9, <3>1, <3>2 DEF SaveDecision
  <2>6. EffectsCounted'
    BY <1>0, <2>1, <2>2, <2>4 DEF EffectsCounted, Raised, Approved
  <2>7. [Promise!Next]_(Promise!pvars)
    <3>1. CASE p.state = proposals[i].state
      BY <1>i, <1>2, <2>1, <2>2, <3>1, SameView, Stutter
    <3>2. CASE p.state # proposals[i].state
      <4>1. PICK d \in PromiseHand :
              p.state.decisions = Append(proposals[i].state.decisions, d)
        BY <2>3, <3>2 DEF AddsOneHand
      <4>2. Phases[i] = "pending" /\ Hands[i] = proposals[i].state.decisions
        BY <1>2, <2>3, PhaseOf DEF Phases, Hands
      <4>3. /\ Phases' = [Phases EXCEPT ![i] = p.state.status]
            /\ Hands' = [Hands EXCEPT ![i] = Append(Hands[i], d)]
        BY <2>2, <4>1, <4>2, OneProposal
      <4>4. p.state.status \in {"pending", "approved", "rejected"}
        BY DEF StoredProposal, ChainState
      <4>5. Promise!Next
        BY <1>i, <1>2, <2>1, <4>2, <4>3, <4>4, PromiseSteps
      <4>. QED BY <4>5
    <3>. QED BY <3>1, <3>2
  <2>. QED BY <2>5, <2>6, <2>7 DEF PromiseStep
<1>10. CASE RunExecutor(r)
  <2>1. /\ pc[r] = "execute" /\ UNCHANGED proposals
        /\ proposals[i] = copy[r] /\ invoked[i] = 0 /\ Approved(copy[r])
    BY <1>i, <1>2, <1>10 DEF RunExecutor, Current, RequestGood
  <2>2. \/ UNCHANGED invoked
        \/ invoked' = [invoked EXCEPT ![i] = 1]
    BY <1>0, <1>i, <1>2, <1>10, <2>1 DEF RunExecutor, IInv, TypeOK
  <2>3. /\ \A id \in Proposals \ {i} : proposals'[id] = proposals[id] /\ invoked'[id] = invoked[id]
        /\ invoked'[i] \in {0, 1}
    BY <1>0, <1>i, <1>2, <2>1, <2>2 DEF IInv, TypeOK
  <2>4. CopiesCurrent'
    <3>1. PICK outcome \in {"executed", "failed", "no-executor"} : AfterExecutor(r, outcome)
      BY <1>10 DEF RunExecutor
    <3>2. CASE Finish(r)
      BY <1>4, <2>3, <3>2
    <3>3. CASE /\ GoTo(r, "record") /\ copy' = [copy EXCEPT ![r].execution = outcome]
               /\ UNCHANGED call
      <4>1. /\ pc'[r] = "record" /\ copy'[r] = [copy[r] EXCEPT !.execution = outcome]
            /\ \A q \in Requests \ {r} : copy'[q] = copy[q]
        BY <1>0, <3>3 DEF GoTo, IInv, TypeOK
      <4>2. copy'[r].state = copy[r].state
        BY <1>i, <1>2, <4>1 DEF StoredProposal
      <4>3. Current(r)'
        BY <1>i, <1>2, <2>1, <3>3, <4>1, <4>2 DEF Current, Raised
      <4>. QED BY <1>5, <2>3, <3>3, <4>1, <4>3
    <3>. QED BY <3>1, <3>2, <3>3 DEF AfterExecutor
  <2>5. EffectsCounted'
    BY <1>0, <1>i, <1>2, <2>1, <2>3 DEF EffectsCounted, Raised, Approved
  <2>6. \A id \in Proposals : PromisePhase(id)' = PromisePhase(id)
                              /\ PromiseHands(id)' = PromiseHands(id)
    BY <2>1 DEF PromisePhase, PromiseHands, Raised
  <2>7. [Promise!Next]_(Promise!pvars)
    <3>1. CASE UNCHANGED invoked
      BY <2>6, <3>1, Stutter
    <3>2. CASE invoked' = [invoked EXCEPT ![i] = 1]
      <4>1. Phases[i] = "approved"
        BY <1>i, <1>2, <2>1, PhaseOf DEF Phases, Approved
      <4>2. Phases' = Phases /\ Hands' = Hands
        BY <2>6 DEF Phases, Hands
      <4>. QED BY <1>i, <1>2, <2>1, <3>2, <4>1, <4>2, PromiseSteps
    <3>. QED BY <2>2, <3>1, <3>2
  <2>. QED BY <2>4, <2>5, <2>7 DEF PromiseStep
<1>11. CASE RecordOutcome(r)
  <2>1. /\ pc[r] = "record" /\ proposals' = [proposals EXCEPT ![i] = copy[r]] /\ Finish(r)
        /\ UNCHANGED invoked
    BY <1>11, <1>i DEF RecordOutcome
  <2>2. /\ proposals'[i] = copy[r] /\ Raised(i)'
        /\ \A id \in Proposals \ {i} : proposals'[id] = proposals[id]
    <3>1. PICK p \in StoredProposal : p = copy[r]
      BY <1>2
    <3>. QED BY <1>0, <2>1, <3>1, StoreStates
  <2>3. copy[r].state = proposals[i].state
    BY <1>i, <1>2, <2>1 DEF Current
  <2>4. CopiesCurrent'
    BY <1>4, <2>1, <2>2
  <2>5. EffectsCounted'
    BY <1>0, <1>i, <1>2, <2>1, <2>2, <2>3 DEF EffectsCounted, Raised, Approved
  <2>6. UNCHANGED Promise!pvars
    BY <1>i, <1>2, <2>1, <2>2, <2>3, SameView, Stutter
  <2>. QED BY <2>4, <2>5, <2>6 DEF PromiseStep
<1>12. CASE Crash(r)
  BY <1>6, <1>12 DEF Crash
<1>. QED BY <1>7, <1>8, <1>9, <1>10, <1>11, <1>12 DEF RequestStep

\* A request that starts holds what is stored.
LEMMA NewRequestKeepsPromise ==
  ASSUME PInv, NEW r \in Requests, NewRequest(r)
  PROVE  PromiseStep
<1>0. /\ IInv /\ CopiesCurrent /\ EffectsCounted
  BY DEF PInv
<1>1. ASSUME NEW args, NEW loaded, NEW step, Load(r, args, loaded, step),
             Raised(args.id),
             \/ step = "getChallenge" /\ loaded = proposals[args.id]
             \/ /\ step = "save" /\ loaded.state = proposals[args.id].state
                /\ proposals[args.id].state.status = "pending"
      PROVE  PromiseStep
  <2>1. /\ pc'[r] = step /\ call'[r] = args /\ copy'[r] = loaded
        /\ \A q \in Requests \ {r} :
             pc'[q] = pc[q] /\ call'[q] = call[q] /\ copy'[q] = copy[q]
        /\ UNCHANGED <<proposals, invoked>>
    BY <1>0, <1>1 DEF Load, GoTo, IInv, TypeOK
  <2>2. step = "save" => AddsOneHand(proposals[args.id], loaded)
    BY <1>1 DEF AddsOneHand
  <2>3. Current(r)'
    BY <1>1, <2>1, <2>2 DEF Current, Raised
  <2>4. CopiesCurrent'
    BY <1>0, <2>1, <2>3, OthersCurrent
  <2>. QED BY <1>0, <2>1, <2>4, QuietStep
<1>2. ASSUME NEW id \in Proposals, NEW who \in Subs,
             NEW verdict \in {"approve", "reject"}, SubmitDecision(r, id, who, verdict)
      PROVE  PromiseStep
  <2> DEFINE args == [kind |-> "decide", id |-> id, by |-> who, decision |-> verdict,
                      presented |-> challenges[<<id, proposals[id].state.currentStage, who>>]]
  <2>1. args.id = id /\ Raised(id) /\ Load(r, args, proposals[id], "getChallenge")
    BY <1>2 DEF SubmitDecision
  <2> HIDE DEF args
  <2>. QED BY <1>1, <2>1
<1>3. ASSUME NEW id \in Proposals, NEW who \in Subs, BypassProposal(r, id, who)
      PROVE  PromiseStep
  <2> DEFINE args == [kind |-> "bypass", id |-> id, by |-> who,
                      presented |-> challenges[<<id, BypassStage, who>>]]
  <2>1. args.id = id /\ Raised(id) /\ Load(r, args, proposals[id], "getChallenge")
    BY <1>3 DEF BypassProposal
  <2> HIDE DEF args
  <2>. QED BY <1>1, <2>1
<1>4. ASSUME NEW id \in Proposals, NEW newApprovers \in Redirects,
             RedirectProposal(r, id, newApprovers)
      PROVE  PromiseStep
  <2> DEFINE p == proposals[id]
             args == [kind |-> "redirect", id |-> id]
             loaded == [p EXCEPT !.def = redirectStage(p.def, p.state, newApprovers)]
  <2>1. /\ args.id = id /\ Raised(id) /\ p.state.status = "pending"
        /\ Load(r, args, loaded, "save")
    BY <1>4 DEF RedirectProposal, HasActiveStage
  <2>2. p \in StoredProposal
    BY <1>0, <2>1 DEF IInv, TypeOK, Raised
  <2>3. loaded.state = p.state
    BY <2>2 DEF StoredProposal
  <2> HIDE DEF args, loaded
  <2>. QED BY <1>1, <2>1, <2>3
<1>. QED BY <1>2, <1>3, <1>4 DEF NewRequest

LEMMA NextKeepsPromise ==
  ASSUME PInv, NoOverlap, [Next]_vars
  PROVE  PromiseStep
<1>0. /\ IInv /\ CopiesCurrent /\ EffectsCounted
  BY DEF PInv
<1>1. \A r \in Requests : pc[r] # "idle" => call[r].id \in Proposals /\ Raised(call[r].id)
  BY <1>0, UnderWay
<1>2. ASSUME NEW id \in Proposals, NEW def \in Defs, NEW by \in Proposers,
             CreateProposal(id, def, by)
      PROVE  PromiseStep
  <2> DEFINE fresh == [def |-> def, state |-> startChain(by), execution |-> "none"]
  <2>1. /\ proposals[id] = Unraised /\ proposals' = [proposals EXCEPT ![id] = fresh]
        /\ UNCHANGED <<requestVars, invoked>>
    BY <1>2 DEF CreateProposal
  <2>2. fresh \in StoredProposal
    <3>1. def \in ChainDef /\ def.stages # <<>> /\ by \in Subs
      OBVIOUS
    <3>2. startChain(by) \in ChainState
      BY <3>1, StartSound
    <3>. QED BY <3>1, <3>2 DEF StoredProposal
  <2>3. fresh.state.status = "pending" /\ fresh.state.decisions = <<>>
    BY DEF startChain
  <2> HIDE DEF fresh
  <2>4. /\ proposals'[id] = fresh /\ Raised(id)'
        /\ \A other \in Proposals \ {id} : proposals'[other] = proposals[other]
        /\ PromisePhase(id)' = "pending" /\ PromiseHands(id)' = <<>>
    BY <1>0, <2>1, <2>2, <2>3, StoreStates
  <2>5. CopiesCurrent'
    <3>1. \A r \in Requests : pc[r] # "idle" => proposals'[call[r].id] = proposals[call[r].id]
      BY <1>1, <2>1, <2>4 DEF Raised
    <3>. QED BY <1>0, <2>1, <3>1, IdleCurrent
  <2>6. EffectsCounted'
    <3>1. invoked[id] = 0
      BY <1>0, <2>1 DEF EffectsCounted, Raised
    <3>. QED BY <1>0, <2>1, <2>4, <3>1 DEF EffectsCounted, Raised, Approved
  <2>7. Phases[id] = "none" /\ Hands[id] = <<>>
    BY <2>1, PhaseOf DEF Phases, Hands
  <2>8. Phases' = [Phases EXCEPT ![id] = "pending"] /\ Hands' = Hands
    <3>1. Hands' = [Hands EXCEPT ![id] = <<>>]
      BY <2>4, OneProposal
    <3>2. Hands' = Hands
      BY <2>7, <3>1 DEF Hands
    <3>. QED BY <2>4, <3>2, OneProposal
  <2>9. Promise!Next
    BY <2>1, <2>7, <2>8, PromiseSteps
  <2>. QED BY <2>5, <2>6, <2>9 DEF PromiseStep
<1>3. ASSUME NEW id \in Proposals, ExpireProposal(id) PROVE PromiseStep
  <2>1. /\ Raised(id) /\ proposals' = [proposals EXCEPT ![id] = Expired]
        /\ \A r \in Requests : pc[r] # "idle" => call[r].id # id
        /\ UNCHANGED <<requestVars, invoked>>
    BY <1>3 DEF ExpireProposal
  <2>2. /\ proposals'[id] = Expired
        /\ \A other \in Proposals \ {id} : proposals'[other] = proposals[other]
    BY <1>0, <2>1 DEF IInv, TypeOK
  <2>3. CopiesCurrent'
    BY <1>0, <1>1, <2>1, <2>2, IdleCurrent
  <2>4. EffectsCounted'
    BY <1>0, <2>1, <2>2 DEF EffectsCounted, Raised, Approved
  <2>5. Phases[id] \in {"pending", "approved", "rejected"}
    <3>1. proposals[id] \in StoredProposal
      BY <1>0, <2>1 DEF IInv, TypeOK, Raised
    <3>2. proposals[id].state.status \in {"pending", "approved", "rejected"}
      BY <3>1 DEF StoredProposal, ChainState
    <3>. QED BY <2>1, <3>2, PhaseOf DEF Phases
  <2>6. PromisePhase(id)' = "gone" /\ PromiseHands(id)' = <<>>
    BY <2>2, PhaseOfNext
  <2>7. Promise!Next
    BY <2>1, <2>2, <2>5, <2>6, OneProposal, PromiseSteps
  <2>. QED BY <2>3, <2>4, <2>7 DEF PromiseStep
<1>4. ASSUME UNCHANGED <<proposals, requestVars, invoked>> PROVE PromiseStep
  <2>1. CopiesCurrent'
    BY <1>0, <1>4, IdleCurrent
  <2>. QED BY <1>0, <1>4, <2>1, QuietStep
<1>5. ASSUME NEW id \in Proposals, NEW who \in Subs,
             ChallengeForStage(id, who) \/ ChallengeForBypass(id, who)
      PROVE  PromiseStep
  BY <1>4, <1>5 DEF ChallengeForStage, ChallengeForBypass, IssueChallenge
<1>6. ASSUME NEW sc \in DOMAIN challenges, LapseChallenge(sc) PROVE PromiseStep
  BY <1>4, <1>6 DEF LapseChallenge
<1>7. CASE UNCHANGED vars
  BY <1>4, <1>7 DEF vars, requestVars
<1>. QED BY <1>2, <1>3, <1>5, <1>6, <1>7, NewRequestKeepsPromise, RequestKeepsPromise DEF Next

LEMMA InitKeepsPromise == Init => PInv /\ Promise!Init
<1> SUFFICES ASSUME Init PROVE PInv /\ Promise!Init
  OBVIOUS
<1>1. CopiesCurrent /\ EffectsCounted
  BY DEF Init, CopiesCurrent, EffectsCounted
<1>2. \A id \in Proposals : PromisePhase(id) = "none" /\ PromiseHands(id) = <<>>
  BY PhaseOf DEF Init
<1>3. Promise!Init
  BY <1>2 DEF Promise!Init, Init
<1>. QED BY <1>1, <1>3, InitInv DEF PInv

\* The inductive invariant of the refinement.
LEMMA PromiseInvariance == Spec /\ []NoOverlap => []PInv
<1>1. PInv /\ NoOverlap /\ [Next]_vars => PInv'
  BY NextInv, NextKeepsPromise DEF PInv, PromiseStep
<1>. QED BY <1>1, InitKeepsPromise, PTL DEF Spec

\* For any people, chains and requests: as long as no two requests are under way on one
\* proposal, the service implements the promise, through send-backs, redirects, overrides,
\* crashes and expiry (approval-service.ts, submitDecision, bypassProposal, redirectProposal).
THEOREM ImplementsPromise == Spec /\ []NoOverlap => KeepsPromise
<1>1. PInv /\ NoOverlap /\ [Next]_vars => [Promise!Next]_(Promise!pvars)
  BY NextKeepsPromise DEF PromiseStep
<1>. QED BY <1>1, InitKeepsPromise, PromiseInvariance, PTL DEF Spec, KeepsPromise, Promise!Spec

\* In particular, where the service takes one request at a time.
THEOREM SerialServiceKeepsPromise ==
  (\A r, s \in Requests : r = s) => (Spec => KeepsPromise)
<1> SUFFICES ASSUME \A r, s \in Requests : r = s PROVE Spec => KeepsPromise
  OBVIOUS
<1>1. NoOverlap
  BY DEF NoOverlap
<1>. QED BY <1>1, ImplementsPromise, PTL

\* And then the executor of a proposal runs once at most ("runs the executor exactly once",
\* approval-service.test.ts:78).
THEOREM ExecutesOnceWithoutOverlap == Spec /\ []NoOverlap => []ExecutesAtMostOnce
<1>1. PInv => ExecutesAtMostOnce
  BY DEF PInv, EffectsCounted, ExecutesAtMostOnce
<1>. QED BY <1>1, PromiseInvariance, PTL
=============================================================================
