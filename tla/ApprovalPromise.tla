--------------------------- MODULE ApprovalPromise ---------------------------
(***************************************************************************)
(* What an approval flow promises, whatever store and engine implement it  *)
(* (lib/approval-service.ts, header comment and tests): a proposal is      *)
(* pending until it is settled once, decisions accumulate and are never    *)
(* taken back, and its effect happens at most once and only after it was   *)
(* approved.                                                               *)
(***************************************************************************)
EXTENDS Naturals, Sequences

CONSTANTS Proposals, Hand    \* Hand: the decisions people can record

VARIABLES
  phase,    \* "none", "pending", "approved", "rejected", "gone"
  hands,    \* the decisions on record, in the order they were made
  effects   \* how often the proposal's effect was set off

pvars == <<phase, hands, effects>>

Init ==
  /\ phase = [id \in Proposals |-> "none"]
  /\ hands = [id \in Proposals |-> <<>>]
  /\ effects = [id \in Proposals |-> 0]

Raise(id) ==
  /\ phase[id] = "none"
  /\ phase' = [phase EXCEPT ![id] = "pending"]
  /\ UNCHANGED <<hands, effects>>

Decide(id) ==
  /\ phase[id] = "pending"
  /\ \E d \in Hand : hands' = [hands EXCEPT ![id] = Append(@, d)]
  /\ \E next \in {"pending", "approved", "rejected"} :
       phase' = [phase EXCEPT ![id] = next]
  /\ UNCHANGED effects

Effect(id) ==
  /\ phase[id] = "approved"
  /\ effects[id] = 0
  /\ effects' = [effects EXCEPT ![id] = 1]
  /\ UNCHANGED <<phase, hands>>

\* A proposal's record is kept for a while and then forgotten, with its decisions.
Forget(id) ==
  /\ phase[id] \in {"pending", "approved", "rejected"}
  /\ phase' = [phase EXCEPT ![id] = "gone"]
  /\ hands' = [hands EXCEPT ![id] = <<>>]
  /\ UNCHANGED effects

Next == \E id \in Proposals : Raise(id) \/ Decide(id) \/ Effect(id) \/ Forget(id)

Spec == Init /\ [][Next]_pvars
=============================================================================
