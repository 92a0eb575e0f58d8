---------------------------- MODULE ApprovalChain ----------------------------
(***************************************************************************)
(* The approval-chain engine (lib/approval-chain.ts): the pure state       *)
(* machine of one N-stage approval.  It keeps no state of its own; the     *)
(* approval service feeds it verified decisions.                           *)
(*                                                                         *)
(* A stage's id is its position in the chain (stage ids are unique within  *)
(* a chain and no operation reorders stages); the pseudo stage id "bypass" *)
(* of an override is BypassStage.  An operation that throws in the code    *)
(* is split into the predicate that says when it does not throw and the    *)
(* state it then returns.                                                  *)
(***************************************************************************)
EXTENDS Naturals, Sequences

CONSTANTS
  Subs,     \* identities of people and AI principals
  Roles,    \* RBAC roles
  RolesOf,  \* the roles each identity holds (hierarchy already resolved)
  AiSubs    \* the identities that are AI principals

ASSUME ChainAssumption ==
  /\ RolesOf \in [Subs -> SUBSET Roles]
  /\ AiSubs \subseteq Subs

BypassStage == 0

ApproverRef == Subs \cup Roles

Stage == [approvers : SUBSET ApproverRef, humanOnly : BOOLEAN]

ChainDef == [stages : Seq(Stage),
             rejectionPolicy : {"abort", "send-back"},
             requireDistinctApprovers : BOOLEAN,
             allowSelfApproval : BOOLEAN]

Decision == [stage : Nat, by : Subs, via : {"human", "ai"},
             decision : {"approve", "reject"}]

ChainState == [proposedBy : Subs,
               status : {"pending", "approved", "rejected"},
               currentStage : Nat,
               decisions : Seq(Decision)]

Via(who) == IF who \in AiSubs THEN "ai" ELSE "human"

startChain(by) ==
  [proposedBy |-> by, status |-> "pending", currentStage |-> 1, decisions |-> <<>>]

isEligible(stage, who) ==
  \E a \in stage.approvers : a = who \/ a \in RolesOf[who]

HasActiveStage(def, st) ==
  st.status = "pending" /\ st.currentStage \in DOMAIN def.stages

activeStage(def, st) == def.stages[st.currentStage]

-----------------------------------------------------------------------------
(* The guards of applyDecision, one operator per refusal.                  *)

\* Mutations of the guards: the check is missing, or asks about the wrong thing.
NotProposerDropped(def, st, who) == TRUE
DistinctPerStageOnly(def, st, who) ==
  def.requireDistinctApprovers =>
    \A k \in DOMAIN st.decisions :
      st.decisions[k].stage = st.currentStage => st.decisions[k].by # who
EligibleAnywhere(def, st, who) ==
  \E i \in DOMAIN def.stages : isEligible(def.stages[i], who)

NotProposer(def, st, who) ==
  def.allowSelfApproval \/ who # st.proposedBy

EligibleNow(def, st, who) == isEligible(activeStage(def, st), who)

NotYetOnStage(def, st, who) ==
  \A k \in DOMAIN st.decisions :
    st.decisions[k].stage = st.currentStage => st.decisions[k].by # who

DistinctFromEarlier(def, st, who) ==
  def.requireDistinctApprovers =>
    \A k \in DOMAIN st.decisions : st.decisions[k].by # who

HumanWhereRequired(def, st, who, verdict) ==
  (verdict = "approve" /\ activeStage(def, st).humanOnly) => Via(who) = "human"

MayDecide(def, st, who, verdict) ==
  /\ HasActiveStage(def, st)
  /\ NotProposer(def, st, who)
  /\ EligibleNow(def, st, who)
  /\ NotYetOnStage(def, st, who)
  /\ DistinctFromEarlier(def, st, who)
  /\ HumanWhereRequired(def, st, who, verdict)

(* What applyDecision returns once no guard refused. *)

AfterReject(def, st) ==
  IF def.rejectionPolicy = "send-back" /\ st.currentStage > 1
    THEN [st EXCEPT !.currentStage = @ - 1]
    ELSE [st EXCEPT !.status = "rejected"]

AfterApprove(def, st) ==
  IF st.currentStage + 1 > Len(def.stages)
    THEN [st EXCEPT !.status = "approved"]
    ELSE [st EXCEPT !.currentStage = @ + 1]

applyDecision(def, st, who, verdict) ==
  LET d  == [stage |-> st.currentStage, by |-> who, via |-> Via(who), decision |-> verdict]
      st1 == [st EXCEPT !.decisions = Append(@, d)]
  IN  IF verdict = "reject" THEN AfterReject(def, st1) ELSE AfterApprove(def, st1)

(* The PMO escape hatches. *)
redirectStage(def, st, newApprovers) ==
  [def EXCEPT !.stages =
    [@ EXCEPT ![st.currentStage] =
      [approvers |-> newApprovers, humanOnly |-> def.stages[st.currentStage].humanOnly]]]

bypassChain(st, who) ==
  [st EXCEPT !.status = "approved",
             !.decisions = Append(@, [stage |-> BypassStage, by |-> who,
                                      via |-> "human", decision |-> "approve"])]

-----------------------------------------------------------------------------
(* What a chain state means, for the properties.                           *)

Bypassed(st) == \E k \in DOMAIN st.decisions : st.decisions[k].stage = BypassStage

\* Stage i stands approved: the last word on it is an approval by somebody who was
\* entitled to give it under the approvers the chain names for the stage now.
StageStands(def, st, i) ==
  \E k \in DOMAIN st.decisions :
    LET d == st.decisions[k] IN
      /\ d.stage = i
      /\ d.decision = "approve"
      /\ isEligible(def.stages[i], d.by)
      /\ def.allowSelfApproval \/ d.by # st.proposedBy
      /\ def.stages[i].humanOnly => d.via = "human"
      /\ \A j \in DOMAIN st.decisions : j > k => st.decisions[j].stage # i
=============================================================================
