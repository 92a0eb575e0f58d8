------------------------------- MODULE AuditLog -------------------------------
(***************************************************************************)
(* What sealing an audit event promises when the store may serve a request *)
(* whose answer is lost (sealAuditEventShared in lib/audit-chain.ts): one  *)
(* log that only grows, link by link.  It is an at-least-once log: an      *)
(* event may be linked several times while it is asked for, but a receipt  *)
(* is handed out once, for the link that ends the asking.                  *)
(***************************************************************************)
EXTENDS Naturals, Sequences

CONSTANT Events

VARIABLES
  log,     \* the events linked, in order
  status,  \* of each event: "none", "asked", "kept", "doubtful", "ended"
  receipts \* what callers were handed: an event, and the log it was linked to

logVars == <<log, status, receipts>>

Init ==
  /\ log = <<>>
  /\ status = [e \in Events |-> "none"]
  /\ receipts = {}

Ask(e) ==
  /\ status[e] = "none"
  /\ status' = [status EXCEPT ![e] = "asked"]
  /\ UNCHANGED <<log, receipts>>

Keep(e) ==
  /\ status[e] = "asked"
  /\ log' = Append(log, e)
  /\ status' = [status EXCEPT ![e] = "kept"]
  /\ receipts' = receipts \cup {[ev |-> e, prev |-> log]}

\* Linked, and nobody hears of it.
LinkUnheard(e) ==
  /\ status[e] = "asked"
  /\ log' = Append(log, e)
  /\ UNCHANGED <<status, receipts>>

\* Given up on: no link of it is made any more.
End(e) ==
  /\ status[e] = "asked"
  /\ status' = [status EXCEPT ![e] = "ended"]
  /\ UNCHANGED <<log, receipts>>

\* Given up on in the midst of a request for each event of D, and between two for those of S.
Abandon(S, D) ==
  /\ \A e \in S \cup D : status[e] = "asked"
  /\ status' = [e \in Events |->
       IF e \in D THEN "doubtful" ELSE IF e \in S THEN "ended" ELSE status[e]]
  /\ UNCHANGED <<log, receipts>>

\* The one request that was under way may still be served.
LinkLate(e) ==
  /\ status[e] = "doubtful"
  /\ log' = Append(log, e)
  /\ status' = [status EXCEPT ![e] = "ended"]
  /\ UNCHANGED receipts

Next ==
  \/ \E e \in Events : Ask(e) \/ Keep(e) \/ LinkUnheard(e) \/ End(e) \/ LinkLate(e)
  \/ \E S, D \in SUBSET Events : Abandon(S, D)

Spec == Init /\ [][Next]_logVars
=============================================================================
