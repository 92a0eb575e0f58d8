-------------------------- MODULE MCApprovalService --------------------------
(***************************************************************************)
(* Small instances of ApprovalService for TLC.                             *)
(***************************************************************************)
EXTENDS ApprovalService, TLC

CONSTANTS ann, bob, cyd, pm, pmo

MCRolesOf == (ann :> {pm}) @@ (bob :> {pm}) @@ (cyd :> {pm, pmo})

NoPmo == (ann :> {pm}) @@ (bob :> {pm}) @@ (cyd :> {pm})

StageFor(approvers, humanOnly) == [approvers |-> approvers, humanOnly |-> humanOnly]

Chain(stages, policy, distinct, self) ==
  [stages |-> stages, rejectionPolicy |-> policy,
   requireDistinctApprovers |-> distinct, allowSelfApproval |-> self]

\* A dual-control chain: any project manager, then any project manager again.
DualControl ==
  Chain(<<StageFor({pm}, FALSE), StageFor({pm}, TRUE)>>, "abort", TRUE, FALSE)

\* A chain that is sent back a stage on a rejection.
SendBack ==
  Chain(<<StageFor({pm}, FALSE), StageFor({cyd}, TRUE)>>, "send-back", FALSE, FALSE)

\* The single-admin degrade: one stage that the proposer may sign.
SoloAdmin == Chain(<<StageFor({pmo}, TRUE)>>, "abort", FALSE, TRUE)

\* One stage that any project manager may sign.
OneStage == Chain(<<StageFor({pm}, FALSE)>>, "abort", FALSE, FALSE)

OneStageDefs == {OneStage}
MCDefs == {DualControl, SendBack}
SerialDefs == {DualControl, SendBack, SoloAdmin}
MCRedirects == {{bob}}

\* Requests differ in nothing but their names.
RequestSymmetry == Permutations(Requests)
=============================================================================
