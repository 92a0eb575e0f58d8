----------------------------- MODULE DualControl -----------------------------
(***************************************************************************)
(* Maker-checker dual control (lib/dual-control.ts): one admin proposes a  *)
(* sensitive action, a different admin approves it, and the registered     *)
(* executor then runs.  The queue is in the shared store; approve and      *)
(* reject read it, and write the whole proposal back after an await, so    *)
(* requests of several replicas interleave.                                *)
(*                                                                         *)
(* A call the code refuses changes nothing and is not a step.              *)
(***************************************************************************)
EXTENDS Naturals, Sequences

CONSTANTS
  Proposals,  \* proposal ids (UUIDs)
  Admins,     \* identities that may propose and decide
  Requests,   \* concurrent calls in flight
  NoEntry,    \* store entry of an id that was never proposed, or whose TTL ran out
  MaxRuns     \* bound: executor runs started per proposal

Proposal == [proposedBy : Admins, status : {"pending", "approved", "rejected"},
             decidedBy : Admins \cup {"nobody"}]

ASSUME DualControlAssumption == MaxRuns \in Nat \ {0} /\ NoEntry \notin Proposal

VARIABLES
  queue,    \* dc:prop:<id> in the shared store
  raised,   \* ids that were used: randomUUID never repeats one
  pc,       \* where each call is: "idle", "run", "save"
  call,     \* what it was asked to do, and by whom
  copy,     \* the proposal it loaded, as it will write it back
  started,  \* history: who set off the executor of each proposal, in order
  applied   \* history: the proposals whose executor ran to its end

vars == <<queue, raised, pc, call, copy, started, applied>>

Call == [kind : {"approve", "reject"}, id : Proposals, by : Admins]

NoCall == [kind |-> "none"]

IsPending(id) == queue[id] # NoEntry /\ queue[id].status = "pending"

Finish(r) ==
  /\ pc' = [pc EXCEPT ![r] = "idle"]
  /\ call' = [call EXCEPT ![r] = NoCall]
  /\ copy' = [copy EXCEPT ![r] = NoEntry]

Init ==
  /\ queue = [id \in Proposals |-> NoEntry]
  /\ raised = {}
  /\ pc = [r \in Requests |-> "idle"]
  /\ call = [r \in Requests |-> NoCall]
  /\ copy = [r \in Requests |-> NoEntry]
  /\ started = [id \in Proposals |-> <<>>]
  /\ applied = {}

\* Mutation: the proposal is stored without the session's subject.
ProposeUnattributed(id, who) ==
  /\ id \notin raised
  /\ raised' = raised \cup {id}
  /\ queue' = [queue EXCEPT ![id] =
       [proposedBy |-> "nobody", status |-> "pending", decidedBy |-> "nobody"]]
  /\ UNCHANGED <<pc, call, copy, started, applied>>

propose(id, who) ==
  /\ id \notin raised
  /\ raised' = raised \cup {id}
  /\ queue' = [queue EXCEPT ![id] =
       [proposedBy |-> who, status |-> "pending", decidedBy |-> "nobody"]]
  /\ UNCHANGED <<pc, call, copy, started, applied>>

\* Mutation: the checker may be the maker.
AnyAdmin(id, who) == TRUE

FourEyes(id, who) == queue[id].proposedBy # who

\* approve and reject begin alike: load the proposal, refuse what is not pending; reject
\* marks its copy at once, approve has the executor to run first.
LoadForApprove(r, id, who) ==
  /\ pc[r] = "idle"
  /\ IsPending(id)
  /\ FourEyes(id, who)
  /\ pc' = [pc EXCEPT ![r] = "run"]
  /\ call' = [call EXCEPT ![r] = [kind |-> "approve", id |-> id, by |-> who]]
  /\ copy' = [copy EXCEPT ![r] = queue[id]]
  /\ UNCHANGED <<queue, raised, started, applied>>

LoadForReject(r, id, who) ==
  /\ pc[r] = "idle"
  /\ IsPending(id)
  /\ pc' = [pc EXCEPT ![r] = "save"]
  /\ call' = [call EXCEPT ![r] = [kind |-> "reject", id |-> id, by |-> who]]
  /\ copy' = [copy EXCEPT ![r] = [queue[id] EXCEPT !.status = "rejected", !.decidedBy = who]]
  /\ UNCHANGED <<queue, raised, started, applied>>

\* Mutation: the proposal is marked and saved although its executor threw.
SaveWhateverHappened(r) ==
  /\ pc[r] = "run"
  /\ Len(started[call[r].id]) < MaxRuns
  /\ started' = [started EXCEPT ![call[r].id] = Append(@, call[r].by)]
  /\ pc' = [pc EXCEPT ![r] = "save"]
  /\ copy' = [copy EXCEPT ![r].status = "approved", ![r].decidedBy = call[r].by]
  /\ applied' \in {applied, applied \cup {call[r].id}}
  /\ UNCHANGED <<queue, raised, call>>

\* Mutation: a failed run writes the loaded proposal back, to renew its TTL.
RequeueOnFailure(r) ==
  /\ pc[r] = "run"
  /\ Len(started[call[r].id]) < MaxRuns
  /\ started' = [started EXCEPT ![call[r].id] = Append(@, call[r].by)]
  /\ pc' = [pc EXCEPT ![r] = "save"]
  /\ UNCHANGED <<queue, raised, call, copy, applied>>

\* approve runs the executor; it throws (and approve with it, leaving the proposal
\* pending), or it ends and approve marks its copy.
RunExecutor(r) ==
  /\ pc[r] = "run"
  /\ Len(started[call[r].id]) < MaxRuns
  /\ started' = [started EXCEPT ![call[r].id] = Append(@, call[r].by)]
  /\ \/ Finish(r) /\ UNCHANGED applied
     \/ /\ applied' = applied \cup {call[r].id}
        /\ pc' = [pc EXCEPT ![r] = "save"]
        /\ copy' = [copy EXCEPT ![r].status = "approved", ![r].decidedBy = call[r].by]
        /\ UNCHANGED call
  /\ UNCHANGED <<queue, raised>>

\* saveProposal writes the whole copy.
Save(r) ==
  /\ pc[r] = "save"
  /\ queue' = [queue EXCEPT ![call[r].id] = copy[r]]
  /\ Finish(r)
  /\ UNCHANGED <<raised, started, applied>>

\* The replica serving a call dies; the queue survives it.
Crash(r) ==
  /\ pc[r] # "idle"
  /\ Finish(r)
  /\ UNCHANGED <<queue, raised, started, applied>>

\* PROP_TTL_MS: a stale proposal leaves the queue.
Expire(id) ==
  /\ queue[id] # NoEntry
  /\ queue' = [queue EXCEPT ![id] = NoEntry]
  /\ UNCHANGED <<raised, pc, call, copy, started, applied>>

Next ==
  \/ \E id \in Proposals, who \in Admins : propose(id, who)
  \/ \E r \in Requests, id \in Proposals, who \in Admins :
       LoadForApprove(r, id, who) \/ LoadForReject(r, id, who)
  \/ \E r \in Requests : RunExecutor(r) \/ Save(r) \/ Crash(r)
  \/ \E id \in Proposals : Expire(id)

Spec == Init /\ [][Next]_vars

-----------------------------------------------------------------------------
TypeOK ==
  /\ queue \in [Proposals -> Proposal \cup {NoEntry}]
  /\ raised \subseteq Proposals
  /\ pc \in [Requests -> {"idle", "run", "save"}]
  /\ call \in [Requests -> Call \cup {NoCall}]
  /\ copy \in [Requests -> Proposal \cup {NoEntry}]
  /\ started \in [Proposals -> Seq(Admins)]
  /\ applied \subseteq Proposals

\* Four eyes: whoever set off the executor of a proposal on record is not its proposer,
\* however the calls of several admins interleave (dual-control.ts, approve).
ExecutedByAnother ==
  \A id \in Proposals : queue[id] # NoEntry =>
    \A i \in DOMAIN started[id] : started[id][i] # queue[id].proposedBy

\* A proposal recorded as approved was applied, and the admin on record as its checker is
\* one who set its executor off: approval is recorded after the executor ended, never in
\* advance (dual-control.ts, approve).
ApprovedMeansApplied ==
  \A id \in Proposals : (queue[id] # NoEntry /\ queue[id].status = "approved") =>
    /\ id \in applied
    /\ \E i \in DOMAIN started[id] : started[id][i] = queue[id].decidedBy

\* A decided proposal never returns to the queue of pending ones, whatever stale copy a
\* late request writes back (dual-control.ts, approve and reject).
SettledStaysSettled ==
  [][\A id \in Proposals :
       (queue[id] # NoEntry /\ queue[id].status # "pending")
         => ~(queue'[id] # NoEntry /\ queue'[id].status = "pending")]_vars
=============================================================================
