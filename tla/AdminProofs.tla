----------------------------- MODULE AdminProofs -----------------------------
(***************************************************************************)
(* Proofs about the two guards an administrator's action passes.           *)
(*                                                                         *)
(* DualControl, for any number of proposals, admins and concurrent calls.  *)
(* A proposal may exist in several copies at once: in the queue and in the *)
(* locals of calls in flight, any of which may be written back later.  The *)
(* inductive invariant says what holds of every copy, wherever it is held. *)
(*                                                                         *)
(* Sessions, for any number of connections and replicas, any grace, any    *)
(* number of lost responses and re-sealed cookies and any length of a      *)
(* session.  The inductive invariant counts, for each number that may      *)
(* still be presented, how far the session has moved on past it together   *)
(* with the connections that may yet move it on: a connection that does so *)
(* leaves that set, and it comes back only if its response is lost, for    *)
(* the cookie that response carries would be too fresh to be renewed       *)
(* again.  A request keeps its number, and its lag, until it is done.      *)
(***************************************************************************)
EXTENDS DualControl, Sessions, SequenceTheorems, FiniteSetTheorems, TLAPS

-----------------------------------------------------------------------------
(* DualControl.                                                            *)

\* p is one of the copies of proposal id that exist now.
Holds(id, p) ==
  /\ p \in Proposal
  /\ \/ queue[id] = p
     \/ \E r \in Requests : pc[r] # "idle" /\ call[r].id = id /\ copy[r] = p

\* Each request is idle with no locals, or has a call and the copy it loaded; one that is
\* about to run an executor holds a pending copy proposed by somebody else.
RequestsOK ==
  \A r \in Requests :
    \/ pc[r] = "idle" /\ call[r] = NoCall /\ copy[r] = NoEntry
    \/ pc[r] = "run" /\ call[r] \in Call /\ copy[r] \in Proposal
         /\ copy[r].status = "pending" /\ copy[r].proposedBy # call[r].by
    \/ pc[r] = "save" /\ call[r] \in Call /\ copy[r] \in Proposal
         /\ copy[r].status # "pending"

\* What is known of every copy: it belongs to a raised proposal, agrees with the others on
\* the proposer, the proposer never set the executor off, and an approved copy was applied.
CopiesOK ==
  \A id \in Proposals :
    /\ started[id] # <<>> => id \in raised
    /\ \A p \in Proposal : Holds(id, p) =>
         /\ id \in raised
         /\ \A q \in Proposal : Holds(id, q) => p.proposedBy = q.proposedBy
         /\ \A i \in DOMAIN started[id] : started[id][i] # p.proposedBy
         /\ p.status = "approved" =>
              id \in applied /\ \E i \in DOMAIN started[id] : started[id][i] = p.decidedBy

IInv == TypeOK /\ RequestsOK /\ CopiesOK

USE DualControlAssumption

\* The invariant holds initially.
LEMMA InitInv == Init => IInv
<1> SUFFICES ASSUME Init PROVE IInv
  OBVIOUS
<1>1. TypeOK
  BY DEF Init, TypeOK
<1>2. RequestsOK
  BY DEF Init, RequestsOK
<1>3. CopiesOK
  BY DEF Init, CopiesOK, Holds
<1>. QED BY <1>1, <1>2, <1>3 DEF IInv

\* Every step keeps it.
LEMMA NextInv == IInv /\ [Next]_vars => IInv'
<1> SUFFICES ASSUME IInv, [Next]_vars PROVE IInv'
  OBVIOUS
<1> USE DEF IInv
<1>1. ASSUME NEW id \in Proposals, NEW who \in Admins, propose(id, who)
      PROVE  IInv'
  <2>1. TypeOK'
    BY <1>1 DEF propose, TypeOK, Proposal
  <2>2. RequestsOK'
    BY <1>1 DEF propose, RequestsOK
  <2>3. CopiesOK'
    BY <1>1 DEF propose, TypeOK, CopiesOK, Holds, Proposal
  <2>. QED BY <2>1, <2>2, <2>3
<1>2. ASSUME NEW r \in Requests, NEW id \in Proposals, NEW who \in Admins,
             LoadForApprove(r, id, who)
      PROVE  IInv'
  <2>1. TypeOK'
    BY <1>2 DEF LoadForApprove, TypeOK, Call
  <2>2. RequestsOK'
    BY <1>2 DEF LoadForApprove, RequestsOK, TypeOK, Call, IsPending, FourEyes
  <2>3. ASSUME NEW i \in Proposals, NEW p \in Proposal, Holds(i, p)' PROVE Holds(i, p)
    BY <1>2, <2>3 DEF LoadForApprove, Holds, TypeOK
  <2>4. CopiesOK'
    BY <1>2, <2>3 DEF LoadForApprove, CopiesOK
  <2>. QED BY <2>1, <2>2, <2>4
<1>3. ASSUME NEW r \in Requests, NEW id \in Proposals, NEW who \in Admins,
             LoadForReject(r, id, who)
      PROVE  IInv'
  <2> DEFINE new == [queue[id] EXCEPT !.status = "rejected", !.decidedBy = who]
  <2>3. queue[id] \in Proposal /\ Holds(id, queue[id])
    BY <1>3 DEF LoadForReject, IsPending, TypeOK, Holds
  <2>a. new \in Proposal /\ new.status = "rejected"
    BY <2>3 DEF Proposal
  <2>b. [kind |-> "reject", id |-> id, by |-> who] \in Call
    BY DEF Call
  <2>1. TypeOK'
    BY <1>3, <2>a, <2>b DEF LoadForReject, TypeOK
  <2>2. RequestsOK'
    BY <1>3, <2>a, <2>b DEF LoadForReject, RequestsOK, TypeOK
  <2>4. ASSUME NEW i \in Proposals, NEW p \in Proposal, Holds(i, p)'
        PROVE  Holds(i, p) \/ (i = id /\ p.proposedBy = queue[id].proposedBy
                                 /\ p.status = "rejected")
    BY <1>3, <2>3, <2>4 DEF LoadForReject, Holds, TypeOK, Proposal
  <2>5. CopiesOK'
    BY <1>3, <2>3, <2>4 DEF LoadForReject, CopiesOK
  <2>. QED BY <2>1, <2>2, <2>5
<1>4. ASSUME NEW r \in Requests, RunExecutor(r)
      PROVE  IInv'
  <2> DEFINE id == call[r].id
  <2>1. id \in Proposals /\ call[r].by \in Admins /\ copy[r] \in Proposal
        /\ Holds(id, copy[r]) /\ copy[r].proposedBy # call[r].by
    BY <1>4 DEF RunExecutor, RequestsOK, Call, Holds
  <2>2. /\ started' = [started EXCEPT ![id] = Append(@, call[r].by)]
        /\ started'[id] = Append(started[id], call[r].by)
        /\ started'[id] \in Seq(Admins)
    BY <1>4, <2>1 DEF RunExecutor, TypeOK
  <2>3. /\ \A i \in DOMAIN started'[id] :
             started'[id][i] = call[r].by
               \/ (i \in DOMAIN started[id] /\ started'[id][i] = started[id][i])
        /\ \A i \in DOMAIN started[id] :
             i \in DOMAIN started'[id] /\ started'[id][i] = started[id][i]
        /\ \E i \in DOMAIN started'[id] : started'[id][i] = call[r].by
    <3>1. started[id] \in Seq(Admins)
      BY <2>1 DEF TypeOK
    <3>2. Len(started'[id]) = Len(started[id]) + 1
          /\ started'[id][Len(started[id]) + 1] = call[r].by
          /\ \A i \in 1 .. Len(started[id]) : started'[id][i] = started[id][i]
      BY <3>1, <2>1, <2>2
    <3>. QED BY <3>1, <3>2, <2>2
  <2> DEFINE new == [copy[r] EXCEPT !.status = "approved", !.decidedBy = call[r].by]
  <2>a. new \in Proposal /\ new.status = "approved"
    BY <2>1 DEF Proposal
  <2>b. \/ pc' = [pc EXCEPT ![r] = "idle"] /\ call' = [call EXCEPT ![r] = NoCall]
           /\ copy' = [copy EXCEPT ![r] = NoEntry]
        \/ pc' = [pc EXCEPT ![r] = "save"] /\ call' = call
           /\ copy' = [copy EXCEPT ![r] = new]
    BY <1>4 DEF RunExecutor, Finish, TypeOK
  <2>c. started' \in [Proposals -> Seq(Admins)]
    BY <2>2 DEF TypeOK
  <2>d. queue' = queue /\ raised' = raised /\ applied' \subseteq Proposals
    BY <1>4, <2>1 DEF RunExecutor, TypeOK
  <2>4. TypeOK'
    <3> HIDE DEF new
    <3>. QED BY <2>a, <2>b, <2>c, <2>d DEF TypeOK
  <2>5. RequestsOK'
    <3>1. CASE pc' = [pc EXCEPT ![r] = "idle"] /\ call' = [call EXCEPT ![r] = NoCall]
                 /\ copy' = [copy EXCEPT ![r] = NoEntry]
      BY <3>1 DEF RequestsOK, TypeOK
    <3>2. CASE pc' = [pc EXCEPT ![r] = "save"] /\ call' = call
                 /\ copy' = [copy EXCEPT ![r] = new]
      <4>1. call[r] \in Call
        BY <1>4 DEF RunExecutor, RequestsOK
      <4> HIDE DEF new
      <4>. QED BY <3>2, <4>1, <2>a DEF RequestsOK, TypeOK
    <3>. QED BY <2>b, <3>1, <3>2
  <2>6. ASSUME NEW i \in Proposals, NEW p \in Proposal, Holds(i, p)'
        PROVE  \/ Holds(i, p)
               \/ /\ i = id /\ p.proposedBy = copy[r].proposedBy
                  /\ p.decidedBy = call[r].by /\ id \in applied'
    BY <1>4, <2>1, <2>6, SMTT(30) DEF RunExecutor, Finish, Holds, TypeOK, Proposal
  <2>7. applied \subseteq applied' /\ raised' = raised
    BY <1>4 DEF RunExecutor
  <2>8. ASSUME NEW i \in Proposals, i # id PROVE started'[i] = started[i]
    BY <2>2, <2>8 DEF TypeOK
  <2>9. CopiesOK'
    <3> SUFFICES ASSUME NEW i \in Proposals
                 PROVE  /\ started'[i] # <<>> => i \in raised'
                        /\ \A p \in Proposal : Holds(i, p)' =>
                             /\ i \in raised'
                             /\ \A q \in Proposal : Holds(i, q)' => p.proposedBy = q.proposedBy
                             /\ \A k \in DOMAIN started'[i] : started'[i][k] # p.proposedBy
                             /\ p.status = "approved" =>
                                  i \in applied' /\ \E k \in DOMAIN started'[i] :
                                                       started'[i][k] = p.decidedBy
      BY DEF CopiesOK
    <3>1. CASE i # id
      BY <3>1, <2>6, <2>7, <2>8 DEF CopiesOK
    <3>2. CASE i = id
      BY <3>2, <2>1, <2>3, <2>6, <2>7 DEF CopiesOK
    <3>. QED BY <3>1, <3>2
  <2>. QED BY <2>4, <2>5, <2>9
<1>5. ASSUME NEW r \in Requests, Save(r)
      PROVE  IInv'
  <2>1. call[r].id \in Proposals /\ copy[r] \in Proposal /\ Holds(call[r].id, copy[r])
    BY <1>5 DEF Save, RequestsOK, Call, Holds
  <2>2. TypeOK'
    BY <1>5, <2>1 DEF Save, Finish, TypeOK
  <2>3. RequestsOK'
    BY <1>5 DEF Save, Finish, RequestsOK, TypeOK
  <2>4. ASSUME NEW i \in Proposals, NEW p \in Proposal, Holds(i, p)' PROVE Holds(i, p)
    BY <1>5, <2>1, <2>4 DEF Save, Finish, Holds, TypeOK
  <2>5. CopiesOK'
    BY <1>5, <2>4 DEF Save, CopiesOK
  <2>. QED BY <2>2, <2>3, <2>5
<1>6. ASSUME NEW r \in Requests, Crash(r)
      PROVE  IInv'
  <2>1. TypeOK'
    BY <1>6 DEF Crash, Finish, TypeOK
  <2>2. RequestsOK'
    BY <1>6 DEF Crash, Finish, RequestsOK, TypeOK
  <2>3. ASSUME NEW i \in Proposals, NEW p \in Proposal, Holds(i, p)' PROVE Holds(i, p)
    BY <1>6, <2>3 DEF Crash, Finish, Holds, TypeOK
  <2>4. CopiesOK'
    BY <1>6, <2>3 DEF Crash, CopiesOK
  <2>. QED BY <2>1, <2>2, <2>4
<1>7. ASSUME NEW id \in Proposals, Expire(id)
      PROVE  IInv'
  <2>1. TypeOK'
    BY <1>7 DEF Expire, TypeOK
  <2>2. RequestsOK'
    BY <1>7 DEF Expire, RequestsOK
  <2>3. ASSUME NEW i \in Proposals, NEW p \in Proposal, Holds(i, p)' PROVE Holds(i, p)
    BY <1>7, <2>3 DEF Expire, Holds, TypeOK
  <2>4. CopiesOK'
    BY <1>7, <2>3 DEF Expire, CopiesOK
  <2>. QED BY <2>1, <2>2, <2>4
<1>8. CASE UNCHANGED vars
  BY <1>8 DEF vars, TypeOK, RequestsOK, CopiesOK, Holds
<1>. QED BY <1>1, <1>2, <1>3, <1>4, <1>5, <1>6, <1>7, <1>8 DEF Next

\* The invariant holds throughout.
THEOREM Invariance == Spec => []IInv
<1>. QED BY InitInv, NextInv, PTL DEF Spec

\* Type correctness of the queue and of the calls in flight.
THEOREM TypeCorrect == Spec => []TypeOK
<1>1. IInv => TypeOK
  BY DEF IInv
<1>. QED BY <1>1, Invariance, PTL

\* Four eyes hold however the admins' calls interleave (dual-control.ts, approve).
THEOREM FourEyesHold == Spec => []ExecutedByAnother
<1>1. IInv => ExecutedByAnother
  BY DEF IInv, CopiesOK, ExecutedByAnother, Holds, TypeOK
<1>. QED BY <1>1, Invariance, PTL

\* Approval is recorded only of what was applied (dual-control.ts, approve).
THEOREM ApprovalIsApplied == Spec => []ApprovedMeansApplied
<1>1. IInv => ApprovedMeansApplied
  BY DEF IInv, CopiesOK, ApprovedMeansApplied, Holds, TypeOK
<1>. QED BY <1>1, Invariance, PTL

\* A decided proposal never becomes pending again (dual-control.ts, approve and reject).
THEOREM SettlementIsFinal == Spec => SettledStaysSettled
<1>1. IInv /\ [Next]_vars =>
        [\A id \in Proposals :
           (queue[id] # NoEntry /\ queue[id].status # "pending")
             => ~(queue'[id] # NoEntry /\ queue'[id].status = "pending")]_vars
  <2> SUFFICES ASSUME IInv, Next, NEW id \in Proposals,
                      queue[id] # NoEntry, queue[id].status # "pending"
               PROVE  ~(queue'[id] # NoEntry /\ queue'[id].status = "pending")
    OBVIOUS
  <2> USE DEF IInv, TypeOK
  <2>1. ASSUME NEW i \in Proposals, NEW who \in Admins, propose(i, who)
        PROVE  queue'[id] = queue[id]
    BY <2>1 DEF propose, CopiesOK, Holds
  <2>2. ASSUME NEW r \in Requests, Save(r)
        PROVE  queue'[id] = queue[id] \/ queue'[id].status # "pending"
    BY <2>2 DEF Save, RequestsOK
  <2>3. ASSUME NEW i \in Proposals, Expire(i)
        PROVE  queue'[id] = queue[id] \/ queue'[id] = NoEntry
    BY <2>3 DEF Expire
  <2>. QED BY <2>1, <2>2, <2>3 DEF Next, LoadForApprove, LoadForReject, RunExecutor, Crash
<1>. QED BY <1>1, Invariance, PTL DEF Spec, SettledStaysSettled

-----------------------------------------------------------------------------
(* Sessions: the inductive invariant.                                      *)

\* A response under way with a new cookie.
Renews(c) == conn[c].stage = "served" /\ conn[c].reply # Unchanged

\* A request under way that may be late enough to slide.
MayAge(c) == conn[c].stage = "sent" /\ conn[c].cookie.seen + Throttle < conn[c].at + MaxDelay

\* The connections that may yet slide while k's request is under way.
Due(k) ==
  {c \in Connections :
    \/ MayAge(c)
    \/ c # k /\ ~Renews(c) /\ jar.seen + MaxDelay < conn[k].at}

\* Those that may yet slide with the cookie in the jar.
Bearers == {c \in Connections : ~Renews(c)}

\* Those that may yet slide at this instant.
DueNow ==
  {c \in Connections :
    \/ conn[c].stage = "sent" /\ Outdated(conn[c].cookie)
    \/ ~Renews(c) /\ Outdated(jar)}

\* No request is older than MaxDelay; the cookie of one that has not been let through is the
\* jar's or was replaced by one that was issued at most MaxDelay before the request was sent.
ConnectionsSound ==
  /\ jar.seq <= top
  /\ \A c \in Connections : conn[c] # Idle =>
       /\ conn[c].at <= now /\ now <= conn[c].at + MaxDelay
       /\ conn[c].cookie.seq <= top
       /\ conn[c].reply # Unchanged =>
            conn[c].reply.seq <= top /\ conn[c].at <= conn[c].reply.seen
       /\ conn[c].stage = "sent" =>
            /\ conn[c].reply = Unchanged
            /\ jar.seen = conn[c].cookie.seen \/ conn[c].at <= jar.seen + MaxDelay

\* How far the session has moved on past each cookie that may still be presented, with the
\* connections that may yet move it on.
LagsSound ==
  /\ top - jar.seq + Cardinality(Bearers) <= Absorbed
  /\ \A c \in Connections : conn[c] # Idle =>
       /\ top - conn[c].cookie.seq + Cardinality(Due(c)) <= Absorbed
       /\ Renews(c) =>
            top - conn[c].reply.seq + Cardinality(Due(c)) + Cardinality(Connections) <= Absorbed
  /\ \A r \in Replicas : looking[r] # None =>
       top - looking[r] + Cardinality(DueNow) <= Absorbed
  /\ killed # {} => Grace < Absorbed

SessionInv ==
  /\ SessionTypeOK
  /\ ConnectionsSound
  /\ 3 * MaxDelay <= Throttle => LagsSound

USE SessionsAssumption

-----------------------------------------------------------------------------
(* Lemmas on sets of connections.                                          *)

LEMMA FewConnections ==
  ASSUME NEW S \in SUBSET Connections, NEW T \in SUBSET S
  PROVE  Cardinality(T) \in Nat /\ Cardinality(S) \in Nat /\ Cardinality(T) <= Cardinality(S)
<1>1. IsFiniteSet(S) /\ IsFiniteSet(T)
  BY FS_Subset
<1>. QED BY <1>1, FS_Subset, FS_CardinalityType

LEMMA OneConnectionLess ==
  ASSUME NEW S \in SUBSET Connections, NEW c \in S, NEW T \in SUBSET (S \ {c})
  PROVE  Cardinality(T) \in Nat /\ Cardinality(S) \in Nat /\ Cardinality(T) + 1 <= Cardinality(S)
<1>1. IsFiniteSet(S) /\ IsFiniteSet(S \ {c})
  BY FS_Subset
<1>2. Cardinality(S \ {c}) = Cardinality(S) - 1
  BY <1>1, FS_RemoveElement
<1>3. Cardinality(S) \in Nat
  BY <1>1, FS_CardinalityType
<1>4. Cardinality(T) \in Nat /\ Cardinality(T) <= Cardinality(S \ {c})
  BY FewConnections
<1>. QED BY <1>2, <1>3, <1>4

LEMMA OneConnectionMore ==
  ASSUME NEW S \in SUBSET Connections, NEW c \in Connections, NEW T \in SUBSET (S \cup {c})
  PROVE  Cardinality(T) \in Nat /\ Cardinality(S) \in Nat /\ Cardinality(T) <= Cardinality(S) + 1
<1>1. IsFiniteSet(S) /\ Cardinality(S) \in Nat
  BY FS_Subset, FS_CardinalityType
<1>0. Cardinality(S \cup {c}) = IF c \in S THEN Cardinality(S) ELSE Cardinality(S) + 1
  BY <1>1, FS_AddElement
<1>2. Cardinality(S \cup {c}) <= Cardinality(S) + 1 /\ Cardinality(S \cup {c}) \in Nat
  BY <1>0, <1>1
<1>3. Cardinality(T) \in Nat /\ Cardinality(T) <= Cardinality(S \cup {c})
  BY FewConnections
<1>. QED BY <1>1, <1>2, <1>3

LEMMA SeveralConnections ==
  Cardinality(Connections) \in Nat /\ Cardinality(Connections) >= 2
BY FS_CardinalityType

\* What is absorbed only grows.
LEMMA AbsorbedType ==
  SessionTypeOK => Absorbed \in Nat /\ Absorbed >= 2 * Cardinality(Connections) - 1
<1> SUFFICES ASSUME SessionTypeOK
             PROVE  Absorbed \in Nat /\ Absorbed >= 2 * Cardinality(Connections) - 1
  OBVIOUS
<1> DEFINE w == Cardinality(Connections)
<1>1. w \in Nat /\ w >= 2 /\ w - 2 \in Nat /\ behind \in Nat /\ lost \in Nat /\ resealed \in Nat
  BY SeveralConnections DEF SessionTypeOK
<1>2. \A a, b \in Nat : a * b \in Nat
  OBVIOUS
<1> HIDE DEF w
<1>3. behind * (w - 2) \in Nat
  BY <1>1, <1>2
<1>4. 2 * w - 1 + lost + resealed + behind * (w - 2) \in Nat
      /\ 2 * w - 1 + lost + resealed + behind * (w - 2) >= 2 * w - 1
  BY <1>1, <1>3
<1>. QED BY <1>4 DEF Absorbed, w

LEMMA AbsorbedNext ==
  ASSUME SessionTypeOK, SessionTypeOK', NEW l \in Nat, NEW n \in Nat,
         lost' = lost + l, resealed' = resealed + n, behind' \in {behind, behind + 1}
  PROVE  /\ Absorbed' \in Nat
         /\ behind' = behind => Absorbed' = Absorbed + l + n
         /\ behind' = behind + 1 => Absorbed' = Absorbed + l + n + Cardinality(Connections) - 2
<1> DEFINE w == Cardinality(Connections)
<1>1. /\ w \in Nat /\ w >= 2 /\ w - 2 \in Nat /\ behind \in Nat /\ behind' \in Nat
      /\ lost \in Nat /\ resealed \in Nat /\ lost' \in Nat /\ resealed' \in Nat
  BY SeveralConnections DEF SessionTypeOK
<1>2. \A a, b \in Nat : a * b \in Nat /\ (a + 1) * b = a * b + b
  OBVIOUS
<1> DEFINE base == 2 * w - 1
           old == behind * (w - 2)
           new == behind' * (w - 2)
<1>3. Absorbed = base + lost + resealed + old /\ Absorbed' = base + lost' + resealed' + new
  BY DEF Absorbed
<1> HIDE DEF w
<1>4. base \in Nat /\ old \in Nat /\ (behind + 1) * (w - 2) = old + (w - 2)
  BY <1>1, <1>2
<1>5. /\ behind' = behind => new = old
      /\ behind' = behind + 1 => new = old + (w - 2)
  BY <1>4
<1> HIDE DEF base, old, new
<1>6. CASE behind' = behind
  <2>1. new = old /\ ~(behind' = behind + 1)
    BY <1>1, <1>5, <1>6
  <2>. QED BY <1>1, <1>3, <1>4, <1>6, <2>1
<1>7. CASE behind' = behind + 1
  <2>1. new = old + (w - 2) /\ ~(behind' = behind)
    BY <1>1, <1>5, <1>7
  <2>2. Absorbed' \in Nat /\ Absorbed' = Absorbed + l + n + w - 2
    BY <1>1, <1>3, <1>4, <2>1
  <2>. QED BY <1>7, <2>1, <2>2 DEF w
<1>. QED BY <1>6, <1>7

-----------------------------------------------------------------------------
(* Types, and the ages of the requests.                                    *)

LEMMA SessionInitInv == SessionInit => SessionInv
<1> SUFFICES ASSUME SessionInit PROVE SessionInv
  OBVIOUS
<1>1. PICK r \in Replicas :
        /\ now = 0 /\ lost = 0 /\ jar = [seq |-> 1, seen |-> 0]
        /\ conn = [c \in Connections |-> Idle] /\ serving = [q \in Replicas |-> {}]
        /\ high = [q \in Replicas |-> IF q = r THEN 1 ELSE None] /\ top = 1
        /\ looking = [q \in Replicas |-> None]
        /\ killed = {} /\ over = FALSE /\ resealed = 0 /\ behind = 0
  BY DEF SessionInit
<1>2. SessionTypeOK
  <2>1. /\ jar \in Cookie /\ now \in Nat /\ lost \in 0..MaxLost /\ resealed \in 0..MaxReseals
        /\ top \in Nat /\ behind \in Nat
    BY <1>1 DEF Cookie
  <2>2. conn \in [Connections -> Busy \cup {Idle}]
    BY <1>1, Zenon
  <2>3. /\ high \in [Replicas -> Nat \cup {None}] /\ looking \in [Replicas -> Nat \cup {None}]
        /\ \A q \in Replicas : high[q] <= top /\ looking[q] = None
    BY <1>1 DEF None
  <2>4. /\ killed \subseteq Replicas /\ over \in BOOLEAN
        /\ serving \in [Replicas -> SUBSET Connections] /\ \A q \in Replicas : serving[q] = {}
    BY <1>1
  <2>. QED BY <2>1, <2>2, <2>3, <2>4 DEF SessionTypeOK
<1>3. ConnectionsSound
  BY <1>1 DEF ConnectionsSound
<1>4. LagsSound
  <2>1. Cardinality(Bearers) \in Nat /\ Cardinality(Bearers) <= Cardinality(Connections)
    BY FewConnections DEF Bearers
  <2>2. Absorbed \in Nat /\ Absorbed >= 2 * Cardinality(Connections) - 1
    BY <1>2, AbsorbedType
  <2>3. top - jar.seq + Cardinality(Bearers) <= Absorbed
    BY <1>1, <2>1, <2>2, SeveralConnections
  <2>. QED BY <1>1, <2>3 DEF LagsSound
<1>. QED BY <1>2, <1>3, <1>4 DEF SessionInv

\* What a connection holds, by its stage.
LEMMA Connected ==
  ASSUME SessionTypeOK, NEW c \in Connections
  PROVE  /\ conn[c] = Idle => conn[c].stage = "idle" /\ ~Renews(c)
         /\ conn[c].stage \in {"sent", "served"} => conn[c] # Idle
         /\ conn[c] # Idle =>
              /\ conn[c] \in Busy /\ conn[c].stage \in {"sent", "served"} /\ conn[c].at \in Nat
              /\ conn[c].cookie \in Cookie /\ conn[c].cookie.seq \in Nat
              /\ conn[c].cookie.seen \in Nat /\ conn[c].reply \in Cookie \cup {Unchanged}
              /\ conn[c].reply # Unchanged =>
                   conn[c].reply.seq \in Nat /\ conn[c].reply.seen \in Nat
         /\ conn[c].stage = "sent" => ~Renews(c)
         /\ Renews(c) => conn[c] # Idle /\ ~MayAge(c)
<1>1. conn[c] \in Busy \cup {Idle}
  BY DEF SessionTypeOK
<1>2. conn[c] = Idle => conn[c].stage = "idle" /\ ~Renews(c)
  BY DEF Idle, Renews
<1>3. conn[c] \in Busy =>
        /\ conn[c].stage \in {"sent", "served"} /\ conn[c].at \in Nat
        /\ conn[c].cookie \in Cookie /\ conn[c].reply \in Cookie \cup {Unchanged}
  BY DEF Busy
<1>4. \A x \in Cookie : x.seq \in Nat /\ x.seen \in Nat
  BY DEF Cookie
<1>. QED BY <1>1, <1>2, <1>3, <1>4 DEF Renews, MayAge

\* A connection whose request is served, with a response that has the cookie reply.
ServedAs(c, reply) ==
  [stage |-> "served", at |-> conn[c].at, cookie |-> conn[c].cookie, reply |-> reply]

LEMMA Served ==
  ASSUME SessionTypeOK, NEW c \in Connections, conn[c] # Idle,
         NEW reply \in Cookie \cup {Unchanged}, conn' = [conn EXCEPT ![c] = ServedAs(c, reply)]
  PROVE  /\ conn' \in [Connections -> Busy \cup {Idle}]
         /\ conn'[c] # Idle /\ conn'[c].stage = "served" /\ conn'[c].at = conn[c].at
         /\ conn'[c].cookie = conn[c].cookie /\ conn'[c].reply = reply
         /\ \A d \in Connections : d # c => conn'[d] = conn[d]
<1>1. ServedAs(c, reply) \in Busy
  BY Connected DEF ServedAs, Busy
<1>2. ServedAs(c, reply) # Idle
  BY DEF ServedAs, Idle
<1>3. /\ ServedAs(c, reply).stage = "served" /\ ServedAs(c, reply).at = conn[c].at
      /\ ServedAs(c, reply).cookie = conn[c].cookie /\ ServedAs(c, reply).reply = reply
  BY DEF ServedAs
<1>. QED BY <1>1, <1>2, <1>3 DEF SessionTypeOK

\* The steps that have a request served, or change its response.
LEMMA Serves ==
  ASSUME SessionTypeOK, ConnectionsSound, NEW c \in Connections
  PROVE  /\ \A r \in Replicas : \A reply : conn[c].stage = "sent" /\ Serve(c, r, reply) =>
              conn' = [conn EXCEPT ![c] = ServedAs(c, reply)]
         /\ \A r \in Replicas : Fork(c, r) =>
              conn[c] # Idle /\ conn' = [conn EXCEPT ![c] = ServedAs(c, conn[c].reply)]
         /\ \A r \in Replicas : Reseal(c, r) =>
              conn' = [conn EXCEPT ![c] = ServedAs(c, [seq |-> high[r] + 1, seen |-> now])]
         /\ ReceiveEarly(c) => conn' = [conn EXCEPT ![c] = ServedAs(c, Unchanged)]
<1> USE DEF ServedAs
<1>1. ASSUME conn[c] # Idle, NEW reply
      PROVE  /\ [[conn[c] EXCEPT !.stage = "served"] EXCEPT !.reply = reply] = ServedAs(c, reply)
             /\ conn[c].stage = "served" =>
                  [conn[c] EXCEPT !.reply = reply] = ServedAs(c, reply)
             /\ [conn[c] EXCEPT !.stage = "served"] = ServedAs(c, conn[c].reply)
  <2>1. conn[c] \in Busy
    BY <1>1, Connected
  <2>2. [[conn[c] EXCEPT !.stage = "served"] EXCEPT !.reply = reply] = ServedAs(c, reply)
    <3> DEFINE x == [conn[c] EXCEPT !.stage = "served"]
    <3>1. x \in Busy /\ x.stage = "served" /\ x.at = conn[c].at /\ x.cookie = conn[c].cookie
      BY <2>1 DEF Busy
    <3> HIDE DEF x
    <3>2. [x EXCEPT !.reply = reply] = ServedAs(c, reply)
      BY <3>1 DEF Busy
    <3>. QED BY <3>2 DEF x
  <2>3. conn[c].stage = "served" => [conn[c] EXCEPT !.reply = reply] = ServedAs(c, reply)
    BY <2>1 DEF Busy
  <2>4. [conn[c] EXCEPT !.stage = "served"] = ServedAs(c, conn[c].reply)
    BY <2>1 DEF Busy
  <2>. QED BY <2>2, <2>3, <2>4
<1>2. conn = [d \in Connections |-> conn[d]]
  BY DEF SessionTypeOK
<1> HIDE DEF ServedAs
<1>3. ASSUME NEW r \in Replicas, NEW reply, conn[c].stage = "sent", Serve(c, r, reply)
      PROVE  conn' = [conn EXCEPT ![c] = ServedAs(c, reply)]
  <2>1. conn' = [conn EXCEPT ![c] = [[conn[c] EXCEPT !.stage = "served"] EXCEPT !.reply = reply]]
    BY <1>2, <1>3 DEF Serve
  <2>. QED BY <1>1, <1>3, <2>1, Connected
<1>4. ASSUME NEW r \in Replicas, Fork(c, r)
      PROVE  conn[c] # Idle /\ conn' = [conn EXCEPT ![c] = ServedAs(c, conn[c].reply)]
  <2>1. conn[c] # Idle
    BY <1>4, Connected DEF Fork, SessionTypeOK
  <2>2. conn' = [conn EXCEPT ![c] = [conn[c] EXCEPT !.stage = "served"]]
    BY <1>4 DEF Fork
  <2>. QED BY <1>1, <2>1, <2>2
<1>5. ASSUME NEW r \in Replicas, Reseal(c, r)
      PROVE  conn' = [conn EXCEPT ![c] = ServedAs(c, [seq |-> high[r] + 1, seen |-> now])]
  <2>1. conn[c].stage = "served" /\ conn[c] # Idle
    BY <1>5, Connected DEF Reseal, SessionTypeOK
  <2>2. conn' = [conn EXCEPT ![c] = [conn[c] EXCEPT !.reply = [seq |-> high[r] + 1, seen |-> now]]]
    BY <1>5 DEF Reseal
  <2>. QED BY <1>1, <2>1, <2>2
<1>6. ASSUME ReceiveEarly(c)
      PROVE  conn' = [conn EXCEPT ![c] = ServedAs(c, Unchanged)]
  <2>1. conn[c].stage = "served" /\ conn[c] # Idle
    BY <1>6, Connected DEF ReceiveEarly
  <2>2. conn' = [conn EXCEPT ![c] = [conn[c] EXCEPT !.reply = Unchanged]]
    BY <1>6 DEF ReceiveEarly
  <2>. QED BY <1>1, <2>1, <2>2
<1>. QED BY <1>3, <1>4, <1>5, <1>6

\* What is known of a request under way.
LEMMA UnderWay ==
  ASSUME SessionTypeOK, ConnectionsSound, NEW c \in Connections, conn[c] # Idle
  PROVE  /\ conn[c].at \in Nat /\ conn[c].at <= now /\ now <= conn[c].at + MaxDelay
         /\ conn[c].cookie \in Cookie /\ conn[c].cookie.seq \in Nat /\ conn[c].cookie.seen \in Nat
         /\ conn[c].cookie.seq <= top
         /\ conn[c].reply \in Cookie \cup {Unchanged}
         /\ conn[c].stage = "sent" =>
              /\ conn[c].reply = Unchanged
              /\ jar.seen = conn[c].cookie.seen \/ conn[c].at <= jar.seen + MaxDelay
         /\ jar.seen \in Nat /\ jar.seq \in Nat /\ now \in Nat /\ top \in Nat
<1>1. jar.seen \in Nat /\ jar.seq \in Nat /\ now \in Nat /\ top \in Nat
  BY DEF SessionTypeOK, Cookie
<1>. QED BY <1>1, Connected DEF ConnectionsSound

\* The mark a replica has once it has seen a number that was issued.
LEMMA SeenMark ==
  ASSUME SessionTypeOK, NEW r \in Replicas, NEW seq \in Nat, seq <= top
  PROVE  /\ Seen(r, seq) \in Nat /\ seq <= Seen(r, seq) /\ Seen(r, seq) <= top
         /\ high[r] <= Seen(r, seq)
BY DEF SessionTypeOK, Seen, None

\* A request that is let through is served at a mark that is not below its number.
LEMMA ServedMarks ==
  ASSUME SessionTypeOK, NEW c \in Connections, NEW r \in Replicas, NEW mark \in Nat,
         conn[c].stage = "sent", conn[c].cookie.seq <= mark, high[r] <= mark,
         serving' = [serving EXCEPT ![r] = serving[r] \cup {c}],
         high' = [high EXCEPT ![r] = mark],
         conn'[c].stage = "served", conn'[c].cookie = conn[c].cookie,
         \A d \in Connections : d # c => conn'[d] = conn[d]
  PROVE  \A q \in Replicas : \A d \in serving'[q] :
           conn'[d].stage = "served" /\ conn'[d].cookie.seq <= high'[q]
<1> SUFFICES ASSUME NEW q \in Replicas, NEW d \in serving'[q]
             PROVE  conn'[d].stage = "served" /\ conn'[d].cookie.seq <= high'[q]
  OBVIOUS
<1>1. /\ high[q] \in Nat \cup {None} /\ high'[q] = IF q = r THEN mark ELSE high[q]
      /\ serving'[q] = IF q = r THEN serving[q] \cup {c} ELSE serving[q]
  BY DEF SessionTypeOK
<1>2. CASE d \in serving[q]
  <2>1. d \in Connections /\ conn[d].stage = "served" /\ conn[d].cookie.seq <= high[q]
    BY <1>2 DEF SessionTypeOK
  <2>2. d # c /\ conn'[d] = conn[d] /\ conn[d].cookie.seq \in Nat
    BY <2>1, Connected
  <2>. QED BY <1>1, <2>1, <2>2 DEF None
<1>3. CASE d \notin serving[q]
  BY <1>1, <1>3
<1>. QED BY <1>2, <1>3

\* What issuing a number does.
LEMMA Issued ==
  ASSUME SessionTypeOK, NEW r \in Replicas, NEW next \in Nat, next <= top + 1, Issue(r, next)
  PROVE  /\ top' \in Nat /\ top <= top' /\ next <= top' /\ behind' \in Nat
         /\ high' = [high EXCEPT ![r] = next] /\ high' \in [Replicas -> Nat \cup {None}]
         /\ \A q \in Replicas : high'[q] <= top'
         /\ \/ top' = top + 1 /\ next = top' /\ behind' = behind
            \/ top' = top /\ behind' = behind + 1
<1>1. /\ high' = [high EXCEPT ![r] = next]
      /\ top' = (IF next > top THEN next ELSE top)
      /\ behind' = (IF next > top THEN behind ELSE behind + 1)
  BY DEF Issue
<1>2. top \in Nat /\ behind \in Nat /\ high \in [Replicas -> Nat \cup {None}]
      /\ \A q \in Replicas : high[q] <= top
  BY DEF SessionTypeOK
<1>3. /\ top' \in Nat /\ top <= top' /\ next <= top' /\ behind' \in Nat
      /\ \/ top' = top + 1 /\ next = top' /\ behind' = behind
         \/ top' = top /\ behind' = behind + 1
  BY <1>1, <1>2
<1>4. \A q \in Replicas : high'[q] <= top'
  BY <1>1, <1>2, <1>3 DEF None
<1>. QED BY <1>1, <1>2, <1>3, <1>4

\* A request that is served leaves the others as they are.
LEMMA ServedSound ==
  ASSUME SessionTypeOK, ConnectionsSound, NEW c \in Connections, conn[c] # Idle,
         NEW reply \in Cookie \cup {Unchanged}, conn' = [conn EXCEPT ![c] = ServedAs(c, reply)],
         now' = now, jar'.seq <= top', top' \in Nat, top <= top',
         \A d \in Connections : conn[d].stage = "sent" =>
           jar'.seen = conn[d].cookie.seen \/ conn[d].at <= jar'.seen + MaxDelay,
         reply # Unchanged => reply.seq <= top' /\ conn[c].at <= reply.seen
  PROVE  ConnectionsSound'
<1>1. ASSUME NEW d \in Connections, conn'[d] # Idle
      PROVE  /\ conn'[d].at <= now /\ now <= conn'[d].at + MaxDelay
             /\ conn'[d].cookie.seq <= top'
             /\ conn'[d].reply # Unchanged =>
                  conn'[d].reply.seq <= top' /\ conn'[d].at <= conn'[d].reply.seen
             /\ conn'[d].stage = "sent" =>
                  /\ conn'[d].reply = Unchanged
                  /\ jar'.seen = conn'[d].cookie.seen \/ conn'[d].at <= jar'.seen + MaxDelay
  <2>1. CASE d = c
    <3>1. /\ conn'[c].stage = "served" /\ conn'[c].at = conn[c].at
          /\ conn'[c].cookie = conn[c].cookie /\ conn'[c].reply = reply
      BY Served
    <3>2. /\ conn[c].at <= now /\ now <= conn[c].at + MaxDelay /\ conn[c].cookie.seq <= top
          /\ conn[c].cookie.seq \in Nat /\ top \in Nat
      BY UnderWay
    <3>. QED BY <2>1, <3>1, <3>2
  <2>2. CASE d # c
    <3>1. conn'[d] = conn[d] /\ conn[d] # Idle
      BY <1>1, <2>2, Served
    <3>2. /\ conn[d].at <= now /\ now <= conn[d].at + MaxDelay /\ conn[d].cookie.seq <= top
          /\ conn[d].cookie.seq \in Nat /\ top \in Nat
          /\ conn[d].stage = "sent" => conn[d].reply = Unchanged
      BY <3>1, UnderWay
    <3>3. ASSUME conn[d].reply # Unchanged
          PROVE  conn[d].reply.seq <= top' /\ conn[d].at <= conn[d].reply.seen
      BY <3>1, <3>2, <3>3, Connected DEF ConnectionsSound
    <3>. QED BY <3>1, <3>2, <3>3
  <2>. QED BY <2>1, <2>2
<1>. QED BY <1>1 DEF ConnectionsSound

\* The jar once a response is in: a new cookie is one that was sealed while its request was
\* under way.
LEMMA TakenJar ==
  ASSUME SessionTypeOK, ConnectionsSound, NEW c \in Connections, conn[c].stage = "served"
  PROVE  /\ Taken(c) \in Cookie /\ Taken(c).seq \in Nat /\ Taken(c).seen \in Nat
         /\ Taken(c).seq <= top
         /\ ~Renews(c) => Taken(c) = jar
         /\ Renews(c) => Taken(c) = conn[c].reply /\ now <= Taken(c).seen + MaxDelay
         /\ \A d \in Connections : conn[d].stage = "sent" =>
              Taken(c).seen = conn[d].cookie.seen \/ conn[d].at <= Taken(c).seen + MaxDelay
<1>1. conn[c] # Idle
  BY Connected
<1>2. CASE Renews(c)
  <2>1. Taken(c) = conn[c].reply /\ conn[c].reply # Unchanged
    BY <1>2 DEF Taken, Renews
  <2>2. conn[c].reply \in Cookie /\ conn[c].reply.seq \in Nat /\ conn[c].reply.seen \in Nat
    BY <1>1, <2>1, Connected
  <2>3. conn[c].reply.seq <= top /\ conn[c].at <= conn[c].reply.seen
    BY <1>1, <2>1 DEF ConnectionsSound
  <2>4. now <= conn[c].reply.seen + MaxDelay
    BY <1>1, <2>2, <2>3, UnderWay
  <2>5. ASSUME NEW d \in Connections, conn[d].stage = "sent"
        PROVE  conn[d].at <= conn[c].reply.seen + MaxDelay
    <3>1. conn[d].at \in Nat /\ conn[d].at <= now /\ now \in Nat
      BY <2>5, Connected, UnderWay
    <3>. QED BY <2>2, <2>4, <3>1
  <2>. QED BY <1>2, <2>1, <2>2, <2>3, <2>4, <2>5
<1>3. CASE ~Renews(c)
  <2>1. Taken(c) = jar
    BY <1>3 DEF Taken, Renews
  <2>2. jar \in Cookie /\ jar.seq \in Nat /\ jar.seen \in Nat /\ jar.seq <= top
    BY <1>1, UnderWay DEF SessionTypeOK, ConnectionsSound
  <2>3. \A d \in Connections : conn[d].stage = "sent" =>
          jar.seen = conn[d].cookie.seen \/ conn[d].at <= jar.seen + MaxDelay
    BY Connected, UnderWay
  <2>. QED BY <1>3, <2>1, <2>2, <2>3
<1>. QED BY <1>2, <1>3

LEMMA SessionNextType ==
  SessionTypeOK /\ ConnectionsSound /\ [SessionNext]_sessionVars
    => SessionTypeOK' /\ ConnectionsSound'
<1> SUFFICES ASSUME SessionTypeOK, ConnectionsSound, [SessionNext]_sessionVars
             PROVE  SessionTypeOK' /\ ConnectionsSound'
  OBVIOUS
<1>1. ASSUME NEW c \in Connections, Send(c)
      PROVE  SessionTypeOK' /\ ConnectionsSound'
  <2> DEFINE new == [stage |-> "sent", at |-> now, cookie |-> jar, reply |-> Unchanged]
  <2>1. /\ new \in Busy /\ new.stage = "sent" /\ new.at = now /\ new.cookie = jar
        /\ new.reply = Unchanged /\ new # Idle
    BY DEF SessionTypeOK, Busy, Idle
  <2>2. conn' = [conn EXCEPT ![c] = new] /\ conn[c] = Idle
        /\ UNCHANGED <<now, jar, serving, lost, high, top, looking, killed, over, resealed, behind>>
    BY <1>1 DEF Send
  <2> HIDE DEF new
  <2>3. \A d \in Connections : conn'[d] = IF d = c THEN new ELSE conn[d]
    BY <2>2 DEF SessionTypeOK
  <2>4. \A r \in Replicas : c \notin serving[r]
    BY <2>2, Connected DEF SessionTypeOK
  <2>5. conn' \in [Connections -> Busy \cup {Idle}]
    BY <2>1, <2>2 DEF SessionTypeOK
  <2>6. \A r \in Replicas : \A d \in serving[r] : conn'[d] = conn[d] /\ d \in Connections
    BY <2>3, <2>4 DEF SessionTypeOK
  <2>7. SessionTypeOK'
    BY <2>2, <2>5, <2>6 DEF SessionTypeOK, Known
  <2>8. now \in Nat
    BY DEF SessionTypeOK
  <2>9. ConnectionsSound'
    BY <2>1, <2>2, <2>3, <2>8 DEF ConnectionsSound
  <2>. QED BY <2>7, <2>9
<1>2. ASSUME NEW c \in Connections, NEW r \in Replicas, Fork(c, r)
      PROVE  SessionTypeOK' /\ ConnectionsSound'
  <2>1. conn[c] # Idle /\ conn' = [conn EXCEPT ![c] = ServedAs(c, conn[c].reply)]
        /\ UNCHANGED <<now, jar, serving, lost, high, top, looking, resealed, behind>>
        /\ killed' = killed \cup {r} /\ over' = TRUE
    BY <1>2, Serves DEF Fork
  <2>2. conn[c].reply \in Cookie \cup {Unchanged}
    BY <2>1, Connected
  <2>3. /\ conn' \in [Connections -> Busy \cup {Idle}] /\ conn'[c].stage = "served"
        /\ conn'[c].cookie = conn[c].cookie /\ \A d \in Connections : d # c => conn'[d] = conn[d]
    BY <2>1, <2>2, Served
  <2>4. \A q \in Replicas : \A d \in serving[q] :
          conn'[d].stage = "served" /\ conn'[d].cookie.seq <= high[q]
    BY <2>3 DEF SessionTypeOK
  <2>5. SessionTypeOK'
    BY <2>1, <2>3, <2>4 DEF SessionTypeOK, Known
  <2>6. conn[c].reply # Unchanged =>
          conn[c].reply.seq <= top /\ conn[c].at <= conn[c].reply.seen
    BY <2>1 DEF ConnectionsSound
  <2>7. \A d \in Connections : conn[d].stage = "sent" =>
          jar'.seen = conn[d].cookie.seen \/ conn[d].at <= jar'.seen + MaxDelay
    BY <2>1, Connected, UnderWay
  <2>8. top' \in Nat /\ top <= top' /\ jar'.seq <= top' /\ now' = now
    BY <2>1 DEF SessionTypeOK, ConnectionsSound
  <2>9. conn[c].reply # Unchanged =>
          conn[c].reply.seq <= top' /\ conn[c].at <= conn[c].reply.seen
    BY <2>1, <2>6
  <2>10. ConnectionsSound'
    BY <2>1, <2>2, <2>7, <2>8, <2>9, ServedSound
  <2>. QED BY <2>5, <2>10
<1>3. ASSUME NEW c \in Connections, NEW r \in Replicas, Accept(c, r)
      PROVE  SessionTypeOK' /\ ConnectionsSound'
  <2> DEFINE seq == conn[c].cookie.seq
  <2>1. conn[c].stage = "sent" /\ conn[c] # Idle /\ Serve(c, r, Unchanged)
    BY <1>3, Connected DEF Accept, Passes
  <2>2. seq \in Nat /\ seq <= top
    BY <2>1, UnderWay
  <2>3. conn' = [conn EXCEPT ![c] = ServedAs(c, Unchanged)]
        /\ serving' = [serving EXCEPT ![r] = serving[r] \cup {c}]
    <3>1. conn' = [conn EXCEPT ![c] = ServedAs(c, Unchanged)]
      BY <2>1, Serves
    <3>. QED BY <2>1, <3>1 DEF Serve
  <2>4. high' = [high EXCEPT ![r] = Seen(r, seq)]
        /\ looking' = [looking EXCEPT ![r] = IF Known(r) THEN looking[r] ELSE seq]
        /\ UNCHANGED <<now, jar, lost, top, killed, over, resealed, behind>>
    BY <1>3 DEF Accept, LookUp, SessionTypeOK
  <2>5. Seen(r, seq) \in Nat /\ Seen(r, seq) <= top /\ high[r] <= Seen(r, seq)
        /\ seq <= Seen(r, seq)
    BY <2>2, SeenMark
  <2>6. /\ conn' \in [Connections -> Busy \cup {Idle}] /\ conn'[c].stage = "served"
        /\ conn'[c].cookie = conn[c].cookie /\ \A d \in Connections : d # c => conn'[d] = conn[d]
    BY <2>1, <2>3, Served
  <2>7. \A q \in Replicas : \A d \in serving'[q] :
          conn'[d].stage = "served" /\ conn'[d].cookie.seq <= high'[q]
    BY <2>1, <2>2, <2>3, <2>4, <2>5, <2>6, ServedMarks
  <2> HIDE DEF seq
  <2>8. /\ high' \in [Replicas -> Nat \cup {None}] /\ looking' \in [Replicas -> Nat \cup {None}]
        /\ \A q \in Replicas : high'[q] <= top /\ (looking'[q] # None => high'[q] # None)
    BY <2>2, <2>4, <2>5 DEF SessionTypeOK, Known, None
  <2>9. serving' \in [Replicas -> SUBSET Connections]
    BY <2>3 DEF SessionTypeOK
  <2>10. SessionTypeOK'
    BY <2>4, <2>6, <2>7, <2>8, <2>9 DEF SessionTypeOK, Known
  <2>11. \A d \in Connections : conn[d].stage = "sent" =>
          jar'.seen = conn[d].cookie.seen \/ conn[d].at <= jar'.seen + MaxDelay
    BY <2>4, Connected, UnderWay
  <2>12. top' \in Nat /\ top <= top' /\ jar'.seq <= top' /\ now' = now
    BY <2>4 DEF SessionTypeOK, ConnectionsSound
  <2>13. ConnectionsSound'
    BY <2>1, <2>3, <2>11, <2>12, ServedSound
  <2>. QED BY <2>10, <2>13
<1>4. ASSUME NEW c \in Connections, NEW r \in Replicas, Slide(c, r)
      PROVE  SessionTypeOK' /\ ConnectionsSound'
  <2> DEFINE seq == conn[c].cookie.seq
             next == Seen(r, seq) + 1
             new == [seq |-> next, seen |-> now]
  <2>1. conn[c].stage = "sent" /\ conn[c] # Idle /\ Serve(c, r, new)
    BY <1>4, Connected DEF Slide, Passes
  <2>2. seq \in Nat /\ seq <= top /\ now \in Nat /\ top \in Nat /\ conn[c].at <= now
    BY <2>1, UnderWay
  <2>3. conn' = [conn EXCEPT ![c] = ServedAs(c, new)]
        /\ serving' = [serving EXCEPT ![r] = serving[r] \cup {c}]
    <3>1. conn' = [conn EXCEPT ![c] = ServedAs(c, new)]
      BY <2>1, Serves
    <3>. QED BY <2>1, <3>1 DEF Serve
  <2>4. Issue(r, next)
        /\ looking' = [looking EXCEPT ![r] = IF Known(r) THEN looking[r] ELSE seq]
        /\ UNCHANGED <<now, jar, lost, killed, over, resealed>>
    BY <1>4 DEF Slide, LookUp, SessionTypeOK
  <2>5. next \in Nat /\ next <= top + 1 /\ high[r] <= next /\ seq <= next
    <3>1. /\ Seen(r, seq) \in Nat /\ seq <= Seen(r, seq) /\ Seen(r, seq) <= top
          /\ high[r] <= Seen(r, seq)
      BY <2>2, SeenMark
    <3>2. high[r] \in Nat \cup {None}
      BY DEF SessionTypeOK
    <3>. QED BY <2>2, <3>1, <3>2 DEF None
  <2>6. new \in Cookie /\ new.seq = next /\ new.seen = now /\ new # Unchanged
    BY <2>2, <2>5 DEF Cookie, Unchanged, None
  <2> HIDE DEF next, new
  <2>7. /\ top' \in Nat /\ top <= top' /\ next <= top' /\ behind' \in Nat
        /\ high' = [high EXCEPT ![r] = next] /\ high' \in [Replicas -> Nat \cup {None}]
        /\ \A q \in Replicas : high'[q] <= top'
    BY <2>4, <2>5, Issued
  <2>8. /\ conn' \in [Connections -> Busy \cup {Idle}] /\ conn'[c].stage = "served"
        /\ conn'[c].cookie = conn[c].cookie /\ \A d \in Connections : d # c => conn'[d] = conn[d]
    BY <2>1, <2>3, <2>6, Served
  <2>9. \A q \in Replicas : \A d \in serving'[q] :
          conn'[d].stage = "served" /\ conn'[d].cookie.seq <= high'[q]
    BY <2>1, <2>2, <2>3, <2>5, <2>7, <2>8, ServedMarks
  <2> HIDE DEF seq
  <2>10. /\ looking' \in [Replicas -> Nat \cup {None}]
         /\ \A q \in Replicas : looking'[q] # None => high'[q] # None
    BY <2>2, <2>4, <2>5, <2>7 DEF SessionTypeOK, Known, None
  <2>11. serving' \in [Replicas -> SUBSET Connections]
    BY <2>3 DEF SessionTypeOK
  <2>12. SessionTypeOK'
    BY <2>4, <2>7, <2>8, <2>9, <2>10, <2>11 DEF SessionTypeOK, Known
  <2>13. \A d \in Connections : conn[d].stage = "sent" =>
          jar.seen = conn[d].cookie.seen \/ conn[d].at <= jar.seen + MaxDelay
    BY Connected, UnderWay
  <2>14. jar.seq \in Nat /\ jar.seq <= top'
    BY <2>1, <2>2, <2>7, UnderWay DEF ConnectionsSound
  <2>15. ConnectionsSound'
    BY <2>1, <2>2, <2>3, <2>4, <2>6, <2>7, <2>13, <2>14, ServedSound
  <2>. QED BY <2>12, <2>15
<1>5. ASSUME NEW c \in Connections, NEW r \in Replicas, Reseal(c, r)
      PROVE  SessionTypeOK' /\ ConnectionsSound'
  <2> DEFINE next == high[r] + 1
             new == [seq |-> next, seen |-> now]
  <2>1. /\ c \in serving[r] /\ resealed < MaxReseals /\ Issue(r, next)
        /\ killed' = killed \ {r} /\ resealed' = resealed + 1
        /\ UNCHANGED <<now, jar, serving, lost, looking, over>>
    BY <1>5 DEF Reseal
  <2>2. conn' = [conn EXCEPT ![c] = ServedAs(c, new)]
    BY <1>5, Serves
  <2>3. conn[c].stage = "served" /\ conn[c] # Idle /\ conn[c].cookie.seq <= high[r]
    BY <2>1, Connected DEF SessionTypeOK
  <2>4. now \in Nat /\ top \in Nat /\ conn[c].at <= now /\ conn[c].cookie.seq \in Nat
    BY <2>3, UnderWay
  <2>5. high[r] \in Nat /\ next \in Nat /\ next <= top + 1
    BY <2>3, <2>4 DEF SessionTypeOK, None
  <2>6. new \in Cookie /\ new.seq = next /\ new.seen = now /\ new # Unchanged
    BY <2>4, <2>5 DEF Cookie, Unchanged, None
  <2>7. high[r] <= next
    BY <2>5
  <2> HIDE DEF next, new
  <2>8. /\ top' \in Nat /\ top <= top' /\ next <= top' /\ behind' \in Nat
        /\ high' = [high EXCEPT ![r] = next] /\ high' \in [Replicas -> Nat \cup {None}]
        /\ \A q \in Replicas : high'[q] <= top'
    BY <2>1, <2>5, Issued
  <2>9. /\ conn' \in [Connections -> Busy \cup {Idle}] /\ conn'[c].stage = "served"
        /\ conn'[c].cookie = conn[c].cookie /\ \A d \in Connections : d # c => conn'[d] = conn[d]
    BY <2>2, <2>3, <2>6, Served
  <2>10. ASSUME NEW q \in Replicas, NEW d \in serving[q]
         PROVE  conn'[d].stage = "served" /\ conn'[d].cookie.seq <= high'[q]
    <3>1. d \in Connections /\ conn[d].stage = "served" /\ conn[d].cookie.seq <= high[q]
      BY DEF SessionTypeOK
    <3>2. conn'[d].stage = "served" /\ conn'[d].cookie = conn[d].cookie
      BY <2>9, <3>1
    <3>3. conn[d].cookie.seq \in Nat
      BY <3>1, Connected
    <3>4. high'[q] = IF q = r THEN next ELSE high[q]
      BY <2>8 DEF SessionTypeOK
    <3>. QED BY <2>5, <2>7, <3>1, <3>2, <3>3, <3>4
  <2>11. \A q \in Replicas : looking[q] # None => high'[q] # None
    BY <2>5, <2>8 DEF SessionTypeOK, Known, None
  <2>12. resealed' \in 0..MaxReseals
    BY <2>1 DEF SessionTypeOK
  <2>13. SessionTypeOK'
    BY <2>1, <2>8, <2>9, <2>10, <2>11, <2>12 DEF SessionTypeOK, Known
  <2>14. \A d \in Connections : conn[d].stage = "sent" =>
          jar.seen = conn[d].cookie.seen \/ conn[d].at <= jar.seen + MaxDelay
    BY Connected, UnderWay
  <2>15. jar.seq \in Nat /\ jar.seq <= top'
    BY <2>3, <2>4, <2>8, UnderWay DEF ConnectionsSound
  <2>16. ConnectionsSound'
    BY <2>1, <2>2, <2>3, <2>4, <2>6, <2>8, <2>14, <2>15, ServedSound
  <2>. QED BY <2>13, <2>16
<1>6. ASSUME NEW c \in Connections, Receive(c) \/ Lose(c)
      PROVE  SessionTypeOK' /\ ConnectionsSound'
  <2>1. conn[c].stage = "served" /\ jar' \in {jar, Taken(c)}
        /\ conn' = [conn EXCEPT ![c] = Idle] /\ serving' = [r \in Replicas |-> serving[r] \ {c}]
        /\ UNCHANGED <<now, high, top, looking, killed, over, resealed, behind>>
    BY <1>6 DEF Receive, Lose, Done
  <2>2. jar' \in Cookie /\ jar'.seq <= top
    BY <2>1, TakenJar DEF SessionTypeOK, ConnectionsSound
  <2>3. lost' \in 0..MaxLost
    BY <1>6 DEF Receive, Lose, SessionTypeOK
  <2>4. \A d \in Connections : conn'[d] = IF d = c THEN Idle ELSE conn[d]
    BY <2>1 DEF SessionTypeOK
  <2>5. conn' \in [Connections -> Busy \cup {Idle}] /\ serving' \in [Replicas -> SUBSET Connections]
    BY <2>1 DEF SessionTypeOK
  <2>6. \A r \in Replicas : \A d \in serving'[r] :
          conn'[d].stage = "served" /\ conn'[d].cookie.seq <= high[r]
    BY <2>1, <2>4 DEF SessionTypeOK
  <2>7. SessionTypeOK'
    BY <2>1, <2>2, <2>3, <2>5, <2>6 DEF SessionTypeOK, Known
  <2>8. \A d \in Connections : conn[d].stage = "sent" =>
          jar'.seen = conn[d].cookie.seen \/ conn[d].at <= jar'.seen + MaxDelay
    BY <2>1, TakenJar, Connected, UnderWay
  <2>9. ConnectionsSound'
    BY <2>1, <2>2, <2>4, <2>8 DEF ConnectionsSound
  <2>. QED BY <2>7, <2>9
<1>7. ASSUME NEW c \in Connections, ReceiveEarly(c)
      PROVE  SessionTypeOK' /\ ConnectionsSound'
  <2>1. conn[c].stage = "served" /\ conn[c] # Idle /\ jar' = Taken(c)
        /\ conn' = [conn EXCEPT ![c] = ServedAs(c, Unchanged)]
        /\ UNCHANGED <<now, serving, lost, high, top, looking, killed, over, resealed, behind>>
    BY <1>7, Serves, Connected DEF ReceiveEarly
  <2>2. /\ conn' \in [Connections -> Busy \cup {Idle}] /\ conn'[c].stage = "served"
        /\ conn'[c].cookie = conn[c].cookie /\ \A d \in Connections : d # c => conn'[d] = conn[d]
    BY <2>1, Served
  <2>3. \A q \in Replicas : \A d \in serving[q] :
          conn'[d].stage = "served" /\ conn'[d].cookie.seq <= high[q]
    BY <2>2 DEF SessionTypeOK
  <2>4. /\ jar' \in Cookie /\ jar'.seq <= top' /\ top' \in Nat /\ top <= top' /\ now' = now
        /\ \A d \in Connections : conn[d].stage = "sent" =>
             jar'.seen = conn[d].cookie.seen \/ conn[d].at <= jar'.seen + MaxDelay
    BY <2>1, TakenJar DEF SessionTypeOK
  <2>5. SessionTypeOK'
    BY <2>1, <2>2, <2>3, <2>4 DEF SessionTypeOK, Known
  <2>6. ConnectionsSound'
    BY <2>1, <2>4, ServedSound
  <2>. QED BY <2>5, <2>6
<1>8. ASSUME NEW r \in Replicas, Reconcile(r) \/ Restart(r)
      PROVE  SessionTypeOK' /\ ConnectionsSound'
  <2>1. /\ UNCHANGED <<now, jar, conn, lost, top, over, resealed, behind>>
        /\ looking' = [looking EXCEPT ![r] = None] /\ killed' \subseteq Replicas
        /\ \/ high' = high /\ serving' = serving
           \/ high' = [high EXCEPT ![r] = None] /\ serving' = [serving EXCEPT ![r] = {}]
    BY <1>8 DEF Reconcile, Restart, SessionTypeOK
  <2>2. SessionTypeOK'
    BY <2>1 DEF SessionTypeOK, Known, None
  <2>3. ConnectionsSound'
    BY <2>1 DEF ConnectionsSound
  <2>. QED BY <2>2, <2>3
<1>9. CASE Advance
  <2>1. now' = now + 1 /\ now \in Nat
        /\ UNCHANGED <<jar, conn, serving, lost, high, top, looking, killed, over, resealed,
                       behind>>
    BY <1>9 DEF SessionTypeOK, Advance
  <2>2. SessionTypeOK'
    BY <2>1 DEF SessionTypeOK, Known
  <2>3. \A c \in Connections : conn[c] # Idle => now - conn[c].at < MaxDelay /\ conn[c].at \in Nat
    BY <1>9, Connected DEF Advance
  <2>4. ConnectionsSound'
    BY <2>1, <2>3 DEF ConnectionsSound
  <2>. QED BY <2>2, <2>4
<1>10. CASE UNCHANGED sessionVars
  BY <1>10 DEF sessionVars, SessionTypeOK, ConnectionsSound, Known
<1>. QED BY <1>1, <1>2, <1>3, <1>4, <1>5, <1>6, <1>7, <1>8, <1>9, <1>10 DEF SessionNext

-----------------------------------------------------------------------------
(* The lags.                                                               *)

LEMMA Counts ==
  ASSUME SessionTypeOK
  PROVE  /\ Bearers \in SUBSET Connections /\ DueNow \in SUBSET Connections
         /\ Cardinality(Bearers) \in Nat /\ Cardinality(DueNow) \in Nat
         /\ Cardinality(Connections) \in Nat /\ Cardinality(Connections) >= 2
         /\ \A c \in Connections : /\ Due(c) \in SUBSET Connections
                                   /\ Cardinality(Due(c)) \in Nat
         /\ Absorbed \in Nat /\ Absorbed >= 2 * Cardinality(Connections) - 1
<1>1. Bearers \in SUBSET Connections /\ DueNow \in SUBSET Connections
  BY DEF Bearers, DueNow
<1>2. \A c \in Connections : Due(c) \in SUBSET Connections
  BY DEF Due
<1>3. Cardinality(Bearers) \in Nat /\ Cardinality(DueNow) \in Nat
  BY <1>1, FewConnections
<1>4. \A c \in Connections : Cardinality(Due(c)) \in Nat
  BY <1>2, FewConnections
<1>. QED BY <1>1, <1>2, <1>3, <1>4, SeveralConnections, AbsorbedType

\* While a request has not been let through, what may slide at this instant is due.
LEMMA DueNowIsDue ==
  ASSUME SessionTypeOK, ConnectionsSound, 3 * MaxDelay <= Throttle,
         NEW c \in Connections, conn[c].stage = "sent"
  PROVE  DueNow \subseteq Due(c)
<1> SUFFICES ASSUME NEW d \in DueNow PROVE d \in Due(c)
  OBVIOUS
<1>1. d \in Connections
  BY DEF DueNow
<1>2. /\ conn[c].at \in Nat /\ now \in Nat /\ now <= conn[c].at + MaxDelay
      /\ conn[c].cookie.seen \in Nat /\ jar.seen \in Nat
      /\ jar.seen = conn[c].cookie.seen \/ conn[c].at <= jar.seen + MaxDelay
      /\ ~Renews(c)
  BY Connected, UnderWay
<1>3. CASE conn[d].stage = "sent" /\ Outdated(conn[d].cookie)
  <2>1. /\ conn[d].at \in Nat /\ now <= conn[d].at + MaxDelay /\ conn[d].cookie.seen \in Nat
    BY <1>1, <1>3, Connected, UnderWay
  <2>2. MayAge(d)
    BY <1>2, <1>3, <2>1 DEF MayAge, Outdated
  <2>. QED BY <1>1, <2>2 DEF Due
<1>4. CASE ~Renews(d) /\ Outdated(jar)
  <2>1. jar.seen + MaxDelay < conn[c].at
    BY <1>2, <1>4 DEF Outdated
  <2>2. d = c => MayAge(c)
    BY <1>2, <1>4, <2>1 DEF MayAge, Outdated
  <2>. QED BY <1>1, <1>4, <2>1, <2>2 DEF Due
<1>. QED BY <1>3, <1>4 DEF DueNow

\* What remains to be shown of a step: each lag grows by no more than what is absorbed.
LEMMA LagsKept ==
  ASSUME SessionTypeOK, ConnectionsSound, LagsSound, SessionTypeOK', Absorbed' \in Nat,
         top' - jar'.seq + Cardinality(Bearers') <= Absorbed',
         \A d \in Connections : conn'[d] # Idle =>
           /\ \/ /\ conn[d] # Idle /\ conn'[d].cookie = conn[d].cookie
                 /\ Cardinality(Due(d)') + top' + Absorbed <= Cardinality(Due(d)) + top + Absorbed'
              \/ top' - conn'[d].cookie.seq + Cardinality(Due(d)') <= Absorbed'
           /\ Renews(d)' =>
                \/ /\ Renews(d) /\ conn'[d].reply = conn[d].reply
                   /\ Cardinality(Due(d)') + top' + Absorbed <= Cardinality(Due(d)) + top + Absorbed'
                \/ top' - conn'[d].reply.seq + Cardinality(Due(d)') + Cardinality(Connections)
                     <= Absorbed',
         \A r \in Replicas : looking'[r] # None =>
           \/ /\ looking'[r] = looking[r]
              /\ Cardinality(DueNow') + top' + Absorbed <= Cardinality(DueNow) + top + Absorbed'
           \/ top' - looking'[r] + Cardinality(DueNow') <= Absorbed',
         killed' # {} => Grace < Absorbed'
  PROVE  LagsSound'
<1>1. top \in Nat /\ top' \in Nat /\ Absorbed \in Nat /\ Cardinality(DueNow) \in Nat
      /\ Cardinality(Connections) \in Nat
  BY Counts DEF SessionTypeOK
<1>2. Cardinality(DueNow') \in Nat
  <2>1. DueNow' \in SUBSET Connections
    BY DEF DueNow
  <2>. QED BY <2>1, FewConnections
<1>3. \A d \in Connections : Cardinality(Due(d)') \in Nat
  <2>1. \A d \in Connections : Due(d)' \in SUBSET Connections
    BY DEF Due
  <2>. QED BY <2>1, FewConnections
<1>4. ASSUME NEW d \in Connections, conn'[d] # Idle
      PROVE  top' - conn'[d].cookie.seq + Cardinality(Due(d)') <= Absorbed'
  <2>1. CASE conn[d] # Idle /\ conn'[d].cookie = conn[d].cookie
             /\ Cardinality(Due(d)') + top' + Absorbed <= Cardinality(Due(d)) + top + Absorbed'
    <3>1. top - conn[d].cookie.seq + Cardinality(Due(d)) <= Absorbed
      BY <2>1 DEF LagsSound
    <3>2. conn[d].cookie.seq \in Nat /\ Cardinality(Due(d)) \in Nat
      BY <2>1, Connected, Counts
    <3>. QED BY <1>1, <1>3, <2>1, <3>1, <3>2
  <2>. QED BY <1>4, <2>1
<1>5. ASSUME NEW d \in Connections, conn'[d] # Idle, Renews(d)'
      PROVE  top' - conn'[d].reply.seq + Cardinality(Due(d)') + Cardinality(Connections)
               <= Absorbed'
  <2>1. CASE Renews(d) /\ conn'[d].reply = conn[d].reply
             /\ Cardinality(Due(d)') + top' + Absorbed <= Cardinality(Due(d)) + top + Absorbed'
    <3>1. conn[d] # Idle /\ conn[d].reply # Unchanged
      BY <2>1, Connected DEF Renews
    <3>2. top - conn[d].reply.seq + Cardinality(Due(d)) + Cardinality(Connections) <= Absorbed
      BY <2>1, <3>1 DEF LagsSound
    <3>3. conn[d].reply.seq \in Nat /\ Cardinality(Due(d)) \in Nat
      BY <3>1, Connected, Counts
    <3>. QED BY <1>1, <1>3, <2>1, <3>2, <3>3
  <2>. QED BY <1>5, <2>1
<1>6. ASSUME NEW r \in Replicas, looking'[r] # None
      PROVE  top' - looking'[r] + Cardinality(DueNow') <= Absorbed'
  <2>1. CASE looking'[r] = looking[r]
             /\ Cardinality(DueNow') + top' + Absorbed <= Cardinality(DueNow) + top + Absorbed'
    <3>1. looking[r] \in Nat /\ top - looking[r] + Cardinality(DueNow) <= Absorbed
      BY <1>6, <2>1 DEF LagsSound, SessionTypeOK
    <3>. QED BY <1>1, <1>2, <2>1, <3>1
  <2>. QED BY <1>6, <2>1
<1>. QED BY <1>4, <1>5, <1>6 DEF LagsSound

LEMMA SendLags ==
  ASSUME SessionTypeOK, ConnectionsSound, 3 * MaxDelay <= Throttle, LagsSound,
         SessionTypeOK', NEW c \in Connections, Send(c)
  PROVE  LagsSound'
<1> DEFINE new == [stage |-> "sent", at |-> now, cookie |-> jar, reply |-> Unchanged]
<1>1. conn' = [conn EXCEPT ![c] = new] /\ conn[c] = Idle
      /\ UNCHANGED <<now, jar, lost, top, looking, killed, resealed, behind>>
  BY DEF Send
<1>2. conn'[c] = new /\ \A d \in Connections : d # c => conn'[d] = conn[d]
  BY <1>1 DEF SessionTypeOK
<1>3. /\ conn'[c].stage = "sent" /\ conn'[c].at = now /\ conn'[c].cookie = jar
      /\ ~Renews(c) /\ ~Renews(c)' /\ conn[c].stage = "idle"
  BY <1>1, <1>2, Connected DEF Renews
<1> HIDE DEF new
<1>4. \A d \in Connections : (Renews(d)' <=> Renews(d)) /\ (d # c => (MayAge(d)' <=> MayAge(d)))
  BY <1>1, <1>2, <1>3 DEF Renews, MayAge
<1>5. Bearers' = Bearers /\ Absorbed' = Absorbed
  BY <1>1, <1>4 DEF Bearers, Absorbed
<1>6. now \in Nat /\ jar.seen \in Nat /\ jar.seq \in Nat /\ top \in Nat
  BY DEF SessionTypeOK, Cookie
<1>7. top - jar.seq + Cardinality(Bearers) <= Absorbed
  BY DEF LagsSound
<1>8. ASSUME NEW k \in Connections, k # c, conn[k] # Idle
      PROVE  Cardinality(Due(k)') \in Nat /\ Cardinality(Due(k)') <= Cardinality(Due(k))
  <2>1. conn[k].at \in Nat /\ now <= conn[k].at + MaxDelay /\ conn'[k] = conn[k]
    BY <1>2, <1>8, UnderWay
  <2>2. MayAge(c)' => jar.seen + MaxDelay < conn[k].at
    BY <1>1, <1>3, <1>6, <2>1 DEF MayAge
  <2>3. Due(k)' \subseteq Due(k)
    BY <1>1, <1>3, <1>4, <1>8, <2>1, <2>2 DEF Due
  <2>. QED BY <2>3, Counts, FewConnections
<1>9. Cardinality(Due(c)') \in Nat /\ Cardinality(Due(c)') <= Cardinality(Bearers)
  <2>1. \A d \in Connections : MayAge(d) => ~Renews(d)
    BY Connected
  <2>2. Due(c)' \subseteq Bearers
    BY <1>3, <1>4, <2>1 DEF Due, Bearers
  <2>. QED BY <2>2, Counts, FewConnections
<1>10. Cardinality(DueNow') \in Nat /\ Cardinality(DueNow') <= Cardinality(DueNow)
  <2>1. DueNow' \subseteq DueNow
    BY <1>1, <1>2, <1>3, <1>4 DEF DueNow, Outdated
  <2>. QED BY <2>1, Counts, FewConnections
<1>11. ASSUME NEW d \in Connections, conn'[d] # Idle, d # c
       PROVE  /\ conn[d] # Idle /\ conn'[d].cookie = conn[d].cookie
              /\ Cardinality(Due(d)') + top' + Absorbed <= Cardinality(Due(d)) + top + Absorbed'
              /\ Renews(d)' => Renews(d) /\ conn'[d].reply = conn[d].reply
  <2>1. conn'[d] = conn[d] /\ conn[d] # Idle
    BY <1>2, <1>11
  <2>. QED BY <1>1, <1>4, <1>5, <1>6, <1>8, <1>11, <2>1, Counts
<1>12. top' - conn'[c].cookie.seq + Cardinality(Due(c)') <= Absorbed'
  BY <1>1, <1>3, <1>5, <1>6, <1>7, <1>9, Counts
<1>13. Cardinality(DueNow') + top' + Absorbed <= Cardinality(DueNow) + top + Absorbed'
  BY <1>1, <1>5, <1>6, <1>10, Counts
<1>14. Absorbed' \in Nat /\ top' - jar'.seq + Cardinality(Bearers') <= Absorbed'
  BY <1>1, <1>5, <1>7, Counts
<1>15. killed' # {} => Grace < Absorbed'
  BY <1>1, <1>5 DEF LagsSound
<1>. QED BY <1>1, <1>3, <1>11, <1>12, <1>13, <1>14, <1>15, LagsKept

\* Fork and Accept: the request stays one that does not renew, or with the cookie it has.
LEMMA RefuseLags ==
  ASSUME SessionTypeOK, ConnectionsSound, 3 * MaxDelay <= Throttle, LagsSound, SessionTypeOK',
         NEW c \in Connections, NEW r \in Replicas, Fork(c, r) \/ Accept(c, r)
  PROVE  LagsSound'
<1>1. /\ conn[c] # Idle /\ conn' = [conn EXCEPT ![c] = ServedAs(c, conn[c].reply)]
      /\ UNCHANGED <<now, jar, lost, top, resealed, behind>>
      /\ Accept(c, r) => conn[c].stage = "sent"
  <2>1. CASE Fork(c, r)
    <3>1. UNCHANGED <<now, jar, lost, top, resealed, behind>> /\ ~Accept(c, r)
      BY <2>1 DEF Fork, Accept, Passes
    <3>. QED BY <2>1, <3>1, Serves
  <2>2. CASE Accept(c, r)
    <3>1. conn[c].stage = "sent" /\ Serve(c, r, Unchanged)
          /\ UNCHANGED <<now, jar, lost, top, resealed, behind>>
      BY <2>2 DEF Accept, Passes
    <3>2. conn[c] # Idle /\ conn[c].reply = Unchanged
      BY <3>1, Connected, UnderWay
    <3>3. conn' = [conn EXCEPT ![c] = ServedAs(c, Unchanged)]
      BY <3>1, Serves
    <3>. QED BY <3>1, <3>2, <3>3
  <2>. QED BY <2>1, <2>2
<1>2. conn[c].reply \in Cookie \cup {Unchanged}
      /\ (conn[c].stage = "sent" => conn[c].reply = Unchanged)
      /\ conn[c].stage \in {"sent", "served"}
  BY <1>1, Connected, UnderWay
<1>3. /\ \A d \in Connections : d # c => conn'[d] = conn[d]
      /\ conn'[c] # Idle /\ conn'[c].stage = "served" /\ conn'[c].cookie = conn[c].cookie
      /\ conn'[c].reply = conn[c].reply /\ conn'[c].at = conn[c].at
  BY <1>1, <1>2, Served
<1>4. \A d \in Connections : (Renews(d)' <=> Renews(d)) /\ (MayAge(d)' => MayAge(d))
  BY <1>1, <1>2, <1>3 DEF Renews, MayAge
<1>5. Bearers' = Bearers /\ Absorbed' = Absorbed
  BY <1>1, <1>4 DEF Bearers, Absorbed
<1>6. ASSUME NEW k \in Connections
      PROVE  Cardinality(Due(k)') \in Nat /\ Cardinality(Due(k)') <= Cardinality(Due(k))
  <2>1. conn'[k].at = conn[k].at
    BY <1>3
  <2>2. Due(k)' \subseteq Due(k)
    BY <1>1, <1>4, <2>1 DEF Due
  <2>. QED BY <2>2, Counts, FewConnections
<1>7. DueNow' \subseteq DueNow
  BY <1>1, <1>2, <1>3, <1>4 DEF DueNow, Outdated
<1>8. Cardinality(DueNow') \in Nat /\ Cardinality(DueNow') <= Cardinality(DueNow)
  BY <1>7, Counts, FewConnections
<1>9. top \in Nat /\ Absorbed \in Nat
  BY Counts DEF SessionTypeOK
<1>10. ASSUME NEW d \in Connections, conn'[d] # Idle
       PROVE  /\ conn[d] # Idle /\ conn'[d].cookie = conn[d].cookie
              /\ Cardinality(Due(d)') + top' + Absorbed <= Cardinality(Due(d)) + top + Absorbed'
              /\ Renews(d)' => Renews(d) /\ conn'[d].reply = conn[d].reply
  <2>1. conn[d] # Idle /\ conn'[d].cookie = conn[d].cookie /\ conn'[d].reply = conn[d].reply
    BY <1>1, <1>3, <1>10
  <2>2. Cardinality(Due(d)) \in Nat
    BY Counts
  <2>. QED BY <1>1, <1>4, <1>5, <1>6, <1>9, <2>1, <2>2
<1>11. top - conn[c].cookie.seq + Cardinality(Due(c)) <= Absorbed
       /\ conn[c].cookie.seq \in Nat /\ Cardinality(Due(c)) \in Nat
  BY <1>1, Connected, Counts DEF LagsSound
<1>12. ASSUME NEW q \in Replicas, looking'[q] # None
       PROVE  \/ /\ looking'[q] = looking[q]
                 /\ Cardinality(DueNow') + top' + Absorbed <= Cardinality(DueNow) + top + Absorbed'
              \/ top' - looking'[q] + Cardinality(DueNow') <= Absorbed'
  <2>1. CASE looking'[q] = looking[q]
    BY <1>1, <1>5, <1>8, <1>9, <2>1, Counts
  <2>2. CASE looking'[q] # looking[q]
    <3>1. Accept(c, r) /\ looking'[q] = conn[c].cookie.seq
      BY <2>2 DEF Fork, Accept, LookUp, SessionTypeOK
    <3>2. DueNow' \subseteq Due(c)
      BY <1>1, <1>7, <3>1, DueNowIsDue
    <3>3. Cardinality(DueNow') <= Cardinality(Due(c))
      BY <3>2, Counts, FewConnections
    <3>. QED BY <1>1, <1>5, <1>8, <1>9, <1>11, <3>1, <3>3
  <2>. QED BY <2>1, <2>2
<1>13. killed' # {} => Grace < Absorbed'
  <2>1. CASE killed # {}
    BY <1>5, <2>1 DEF LagsSound
  <2>2. CASE killed = {} /\ Fork(c, r)
    <3>1. Known(r) /\ conn[c].cookie.seq < high[r] - Grace /\ high[r] \in Nat /\ high[r] <= top
      BY <2>2 DEF Fork, Forks, SessionTypeOK, Known
    <3>. QED BY <1>5, <1>9, <1>11, <3>1
  <2>3. CASE killed = {} /\ Accept(c, r)
    BY <2>3 DEF Accept
  <2>. QED BY <2>1, <2>2, <2>3
<1>14. top' - jar'.seq + Cardinality(Bearers') <= Absorbed'
  BY <1>1, <1>5 DEF LagsSound
<1>15. Absorbed' \in Nat
  BY <1>5, <1>9
<1>. QED BY <1>10, <1>12, <1>13, <1>14, <1>15, LagsKept

\* Slide: the session moves on by at most one, and the connection has done so.
LEMMA SlideLags ==
  ASSUME SessionTypeOK, ConnectionsSound, 3 * MaxDelay <= Throttle, LagsSound, SessionTypeOK',
         NEW c \in Connections, NEW r \in Replicas, Slide(c, r)
  PROVE  LagsSound'
<1> DEFINE seq == conn[c].cookie.seq
           next == Seen(r, seq) + 1
           new == [seq |-> next, seen |-> now]
           w == Cardinality(Connections)
<1>1. /\ conn[c].stage = "sent" /\ conn[c] # Idle /\ Serve(c, r, new)
      /\ Outdated(conn[c].cookie) /\ Issue(r, next)
      /\ looking' = [looking EXCEPT ![r] = IF Known(r) THEN looking[r] ELSE seq]
      /\ UNCHANGED <<now, jar, lost, killed, resealed>>
  BY Connected DEF Slide, Passes, LookUp, SessionTypeOK
<1>2. now \in Nat /\ jar.seq \in Nat /\ top \in Nat /\ seq \in Nat /\ seq <= top
  BY <1>1, UnderWay
<1>3. next \in Nat /\ seq + 1 <= next /\ next <= top + 1
  BY <1>2, SeenMark
<1>4. new \in Cookie /\ new.seq = next /\ new # Unchanged
  BY <1>2, <1>3 DEF Cookie, Unchanged, None
<1> HIDE DEF next, new
<1>5. conn' = [conn EXCEPT ![c] = ServedAs(c, new)]
  BY <1>1, Serves
<1>6. /\ \A d \in Connections : d # c => conn'[d] = conn[d]
      /\ conn'[c].stage = "served" /\ conn'[c].cookie = conn[c].cookie /\ conn'[c].reply = new
      /\ conn'[c].at = conn[c].at /\ conn'[c] # Idle
  BY <1>1, <1>4, <1>5, Served
<1>7. MayAge(c) /\ ~Renews(c) /\ ~MayAge(c)' /\ Renews(c)'
  <2>1. /\ conn[c].at \in Nat /\ now <= conn[c].at + MaxDelay /\ conn[c].cookie.seen \in Nat
    BY <1>1, UnderWay
  <2>2. MayAge(c)
    BY <1>1, <1>2, <2>1 DEF MayAge, Outdated
  <2>. QED BY <1>1, <1>4, <1>6, <2>2 DEF MayAge, Renews
<1>8. \A d \in Connections : d # c => (Renews(d)' <=> Renews(d)) /\ (MayAge(d)' <=> MayAge(d))
  BY <1>6 DEF Renews, MayAge
<1>9. w \in Nat /\ w >= 2 /\ Absorbed \in Nat /\ Absorbed >= 2 * w - 1
  BY Counts
<1>10. /\ Absorbed' \in Nat /\ top' \in Nat
       /\ \/ top' = top + 1 /\ next = top' /\ Absorbed' = Absorbed
          \/ top' = top /\ Absorbed' = Absorbed + w - 2
  <2>1. \/ top' = top + 1 /\ next = top' /\ behind' = behind
        \/ top' = top /\ behind' = behind + 1
    BY <1>1, <1>3, Issued
  <2>2. lost' = lost + 0 /\ resealed' = resealed + 0
    BY <1>1 DEF SessionTypeOK
  <2>3. /\ Absorbed' \in Nat
        /\ behind' = behind => Absorbed' = Absorbed + 0 + 0
        /\ behind' = behind + 1 => Absorbed' = Absorbed + 0 + 0 + w - 2
    BY <2>1, <2>2, AbsorbedNext
  <2>. QED BY <1>2, <1>9, <2>1, <2>3
<1>11. ASSUME NEW k \in Connections
       PROVE  /\ Cardinality(Due(k)') \in Nat /\ Cardinality(Due(k)') + 1 <= Cardinality(Due(k))
              /\ Cardinality(Due(k)) \in Nat /\ Cardinality(Due(k)) <= w
  <2>1. conn'[k].at = conn[k].at
    BY <1>6
  <2>2. c \in Due(k) /\ Due(k) \in SUBSET Connections
    BY <1>7 DEF Due
  <2>3. c \notin Due(k)'
    BY <1>7 DEF Due
  <2>4. Due(k)' \subseteq Due(k) \ {c}
    BY <1>1, <1>8, <2>1, <2>3 DEF Due
  <2>. QED BY <2>2, <2>4, Counts, OneConnectionLess, FewConnections
<1>12. top - seq + Cardinality(Due(c)) <= Absorbed
  BY <1>1 DEF LagsSound
<1>13. c \in DueNow /\ DueNow' \subseteq DueNow \ {c}
  <2>1. c \in DueNow
    BY <1>1 DEF DueNow
  <2>2. DueNow' \subseteq DueNow \ {c}
    BY <1>1, <1>6, <1>7, <1>8 DEF DueNow, Outdated
  <2>. QED BY <2>1, <2>2
<1>14. Cardinality(DueNow') \in Nat /\ Cardinality(DueNow') + 1 <= Cardinality(DueNow)
       /\ Cardinality(DueNow) \in Nat /\ Cardinality(DueNow) <= Cardinality(Due(c))
  BY <1>1, <1>13, Counts, OneConnectionLess, DueNowIsDue, FewConnections
<1> HIDE DEF w, seq
<1>15. ASSUME NEW d \in Connections, conn'[d] # Idle
       PROVE  /\ conn[d] # Idle /\ conn'[d].cookie = conn[d].cookie
              /\ Cardinality(Due(d)') + top' + Absorbed <= Cardinality(Due(d)) + top + Absorbed'
  <2>1. conn[d] # Idle /\ conn'[d].cookie = conn[d].cookie
    BY <1>1, <1>6, <1>15
  <2>. QED BY <1>2, <1>9, <1>10, <1>11, <2>1
<1>16. top' - new.seq + Cardinality(Due(c)') + w <= Absorbed'
  <2> DEFINE due == Cardinality(Due(c))
             duep == Cardinality(Due(c)')
  <2>1. due \in Nat /\ duep \in Nat /\ duep + 1 <= due /\ due <= w /\ top - seq + due <= Absorbed
    BY <1>11, <1>12
  <2> HIDE DEF due, duep
  <2>2. CASE top' = top + 1 /\ next = top' /\ Absorbed' = Absorbed
    BY <1>2, <1>3, <1>4, <1>9, <2>1, <2>2 DEF duep
  <2>3. CASE top' = top /\ Absorbed' = Absorbed + w - 2
    BY <1>2, <1>3, <1>4, <1>9, <2>1, <2>3 DEF duep
  <2>. QED BY <1>10, <2>2, <2>3
<1>17. top' - jar'.seq + Cardinality(Bearers') <= Absorbed'
  <2>1. c \in Bearers /\ Bearers' \subseteq Bearers \ {c}
    BY <1>7, <1>8 DEF Bearers
  <2>2. Cardinality(Bearers') \in Nat /\ Cardinality(Bearers') + 1 <= Cardinality(Bearers)
        /\ Cardinality(Bearers) \in Nat
    BY <2>1, Counts, OneConnectionLess
  <2>3. top - jar.seq + Cardinality(Bearers) <= Absorbed
    BY DEF LagsSound
  <2>. QED BY <1>1, <1>2, <1>9, <1>10, <2>2, <2>3
<1>18. ASSUME NEW q \in Replicas, looking'[q] # None
       PROVE  \/ /\ looking'[q] = looking[q]
                 /\ Cardinality(DueNow') + top' + Absorbed <= Cardinality(DueNow) + top + Absorbed'
              \/ top' - looking'[q] + Cardinality(DueNow') <= Absorbed'
  <2>1. CASE looking'[q] = looking[q]
    BY <1>2, <1>9, <1>10, <1>14, <2>1
  <2>2. CASE looking'[q] # looking[q]
    <3>1. looking'[q] = seq
      BY <1>1, <2>2 DEF SessionTypeOK
    <3>2. Cardinality(Due(c)) \in Nat
      BY <1>11
    <3>. QED BY <1>2, <1>9, <1>10, <1>12, <1>14, <3>1, <3>2
  <2>. QED BY <2>1, <2>2
<1>19. killed' # {} => Grace < Absorbed'
  <2>1. killed # {} => Grace < Absorbed
    BY DEF LagsSound
  <2>. QED BY <1>1, <1>9, <1>10, <2>1
<1>20. \A d \in Connections : Renews(d)' =>
         \/ Renews(d) /\ conn'[d].reply = conn[d].reply
         \/ top' - conn'[d].reply.seq + Cardinality(Due(d)') + Cardinality(Connections) <= Absorbed'
  BY <1>6, <1>8, <1>16 DEF w
<1>. QED BY <1>10, <1>15, <1>17, <1>18, <1>19, <1>20, LagsKept

\* Reseal: the session moves on by at most one, which is absorbed.
LEMMA ResealLags ==
  ASSUME SessionTypeOK, ConnectionsSound, LagsSound, SessionTypeOK',
         NEW c \in Connections, NEW r \in Replicas, Reseal(c, r)
  PROVE  LagsSound'
<1> DEFINE seq == conn[c].cookie.seq
           next == high[r] + 1
           new == [seq |-> next, seen |-> now]
           w == Cardinality(Connections)
<1>1. /\ c \in serving[r] /\ Issue(r, next) /\ killed' \subseteq killed
      /\ resealed' = resealed + 1 /\ UNCHANGED <<now, jar, lost, looking>>
  BY DEF Reseal
<1>2. conn[c].stage = "served" /\ conn[c] # Idle /\ seq <= high[r]
  BY <1>1, Connected DEF SessionTypeOK
<1>3. now \in Nat /\ jar.seq \in Nat /\ top \in Nat /\ seq \in Nat /\ seq <= top
  BY <1>2, UnderWay
<1>4. next \in Nat /\ seq + 1 <= next /\ next <= top + 1
  BY <1>2, <1>3 DEF SessionTypeOK, None
<1>5. new \in Cookie /\ new.seq = next /\ new # Unchanged
  BY <1>3, <1>4 DEF Cookie, Unchanged, None
<1>6. conn' = [conn EXCEPT ![c] = ServedAs(c, new)]
  BY Serves
<1> HIDE DEF next, new
<1>7. /\ \A d \in Connections : d # c => conn'[d] = conn[d]
      /\ conn'[c].stage = "served" /\ conn'[c].cookie = conn[c].cookie /\ conn'[c].reply = new
      /\ conn'[c].at = conn[c].at /\ conn'[c] # Idle
  BY <1>2, <1>5, <1>6, Served
<1>8. \A d \in Connections : /\ Renews(d) => Renews(d)'
                             /\ MayAge(d)' <=> MayAge(d)
                             /\ d # c => (Renews(d)' <=> Renews(d))
  BY <1>2, <1>5, <1>7 DEF Renews, MayAge
<1>9. w \in Nat /\ w >= 2 /\ Absorbed \in Nat /\ Absorbed >= 2 * w - 1
  BY Counts
<1>10. /\ Absorbed' \in Nat /\ top' \in Nat
       /\ \/ top' = top + 1 /\ next = top' /\ Absorbed' = Absorbed + 1
          \/ top' = top /\ Absorbed' = Absorbed + 1 + w - 2
  <2>1. \/ top' = top + 1 /\ next = top' /\ behind' = behind
        \/ top' = top /\ behind' = behind + 1
    BY <1>1, <1>4, Issued
  <2>2. lost' = lost + 0
    BY <1>1 DEF SessionTypeOK
  <2>3. /\ Absorbed' \in Nat
        /\ behind' = behind => Absorbed' = Absorbed + 0 + 1
        /\ behind' = behind + 1 => Absorbed' = Absorbed + 0 + 1 + w - 2
    BY <1>1, <2>1, <2>2, AbsorbedNext
  <2>4. top' \in Nat
    BY <1>1, <1>4, Issued
  <2>. QED BY <1>9, <2>1, <2>3, <2>4
<1>11. ASSUME NEW k \in Connections
       PROVE  /\ Cardinality(Due(k)') \in Nat /\ Cardinality(Due(k)') <= Cardinality(Due(k))
              /\ Cardinality(Due(k)) \in Nat
  <2>1. conn'[k].at = conn[k].at
    BY <1>7
  <2>2. Due(k)' \subseteq Due(k)
    BY <1>1, <1>8, <2>1 DEF Due
  <2>. QED BY <2>2, Counts, FewConnections
<1>12. Cardinality(Due(c)) + 1 <= w
  <2>1. Due(c) \subseteq Connections \ {c}
    BY <1>2 DEF Due, MayAge
  <2>. QED BY <2>1, OneConnectionLess
<1>13. top - seq + Cardinality(Due(c)) <= Absorbed
  BY <1>2 DEF LagsSound
<1>14. Cardinality(DueNow') \in Nat /\ Cardinality(DueNow') <= Cardinality(DueNow)
       /\ Cardinality(DueNow) \in Nat
  <2>1. DueNow' \subseteq DueNow
    BY <1>1, <1>2, <1>7, <1>8 DEF DueNow, Outdated
  <2>. QED BY <2>1, Counts, FewConnections
<1> HIDE DEF w, seq
<1>15. ASSUME NEW d \in Connections, conn'[d] # Idle
       PROVE  /\ conn[d] # Idle /\ conn'[d].cookie = conn[d].cookie
              /\ Cardinality(Due(d)') + top' + Absorbed <= Cardinality(Due(d)) + top + Absorbed'
  <2>1. conn[d] # Idle /\ conn'[d].cookie = conn[d].cookie
    BY <1>2, <1>7, <1>15
  <2>. QED BY <1>3, <1>9, <1>10, <1>11, <2>1
<1>16. top' - new.seq + Cardinality(Due(c)') + w <= Absorbed'
  <2> DEFINE due == Cardinality(Due(c))
             duep == Cardinality(Due(c)')
  <2>1. due \in Nat /\ duep \in Nat /\ duep <= due /\ due + 1 <= w /\ top - seq + due <= Absorbed
    BY <1>11, <1>12, <1>13
  <2> HIDE DEF due, duep
  <2>2. CASE top' = top + 1 /\ next = top' /\ Absorbed' = Absorbed + 1
    BY <1>3, <1>4, <1>5, <1>9, <2>1, <2>2 DEF duep
  <2>3. CASE top' = top /\ Absorbed' = Absorbed + 1 + w - 2
    BY <1>3, <1>4, <1>5, <1>9, <2>1, <2>3 DEF duep
  <2>. QED BY <1>10, <2>2, <2>3
<1>17. top' - jar'.seq + Cardinality(Bearers') <= Absorbed'
  <2>1. Bearers' \subseteq Bearers
    BY <1>8 DEF Bearers
  <2>2. Cardinality(Bearers') \in Nat /\ Cardinality(Bearers') <= Cardinality(Bearers)
        /\ Cardinality(Bearers) \in Nat
    BY <2>1, Counts, FewConnections
  <2>3. top - jar.seq + Cardinality(Bearers) <= Absorbed
    BY DEF LagsSound
  <2>. QED BY <1>1, <1>3, <1>9, <1>10, <2>2, <2>3
<1>18. /\ Cardinality(DueNow') + top' + Absorbed <= Cardinality(DueNow) + top + Absorbed'
       /\ looking' = looking
  BY <1>1, <1>3, <1>9, <1>10, <1>14
<1>19. killed' # {} => Grace < Absorbed'
  <2>1. killed # {} => Grace < Absorbed
    BY DEF LagsSound
  <2>. QED BY <1>1, <1>9, <1>10, <2>1
<1>20. \A d \in Connections : Renews(d)' =>
         \/ Renews(d) /\ conn'[d].reply = conn[d].reply
         \/ top' - conn'[d].reply.seq + Cardinality(Due(d)') + Cardinality(Connections) <= Absorbed'
  BY <1>7, <1>8, <1>16 DEF w
<1>. QED BY <1>10, <1>15, <1>17, <1>18, <1>19, <1>20, LagsKept

\* A response comes in: where the jar gets a new cookie, it is one that has just been sealed.
LEMMA ReceiveLags ==
  ASSUME SessionTypeOK, ConnectionsSound, 3 * MaxDelay <= Throttle, LagsSound, SessionTypeOK',
         NEW c \in Connections, Receive(c) \/ ReceiveEarly(c)
  PROVE  LagsSound'
<1>1. /\ conn[c].stage = "served" /\ conn[c] # Idle /\ jar' = Taken(c)
      /\ UNCHANGED <<now, lost, top, looking, killed, resealed, behind>>
  BY Connected DEF Receive, ReceiveEarly
<1>2. /\ \A d \in Connections : d # c => conn'[d] = conn[d]
      /\ ~Renews(c)' /\ ~MayAge(c)'
      /\ conn'[c] # Idle => conn'[c].cookie = conn[c].cookie /\ conn'[c].at = conn[c].at
      /\ conn'[c].stage # "sent"
  <2>1. CASE Receive(c)
    <3>1. conn' = [conn EXCEPT ![c] = Idle]
      BY <2>1 DEF Receive, Done
    <3>2. conn'[c] = Idle /\ \A d \in Connections : d # c => conn'[d] = conn[d]
      BY <3>1 DEF SessionTypeOK
    <3>. QED BY <3>2 DEF Idle, Renews, MayAge
  <2>2. CASE ReceiveEarly(c)
    <3>1. conn' = [conn EXCEPT ![c] = ServedAs(c, Unchanged)]
      BY <2>2, Serves
    <3>2. /\ \A d \in Connections : d # c => conn'[d] = conn[d]
          /\ conn'[c].stage = "served" /\ conn'[c].cookie = conn[c].cookie
          /\ conn'[c].reply = Unchanged /\ conn'[c].at = conn[c].at
      BY <1>1, <3>1, Served
    <3>. QED BY <3>2 DEF Renews, MayAge
  <2>. QED BY <2>1, <2>2
<1>3. /\ \A d \in Connections : d # c => (Renews(d)' <=> Renews(d))
      /\ \A d \in Connections : MayAge(d)' => MayAge(d)
  BY <1>2 DEF Renews, MayAge
<1>4. now \in Nat /\ jar.seen \in Nat /\ jar.seq \in Nat /\ top \in Nat /\ Absorbed \in Nat
      /\ Absorbed' = Absorbed /\ Cardinality(Connections) \in Nat
  BY <1>1, Counts DEF SessionTypeOK, Cookie, Absorbed
<1>5. /\ jar'.seq \in Nat /\ jar'.seen \in Nat
      /\ ~Renews(c) => jar' = jar
      /\ Renews(c) => jar' = conn[c].reply /\ now <= jar'.seen + MaxDelay
  BY <1>1, TakenJar
<1>6. top - jar'.seq + Cardinality(Bearers') <= Absorbed
  <2>1. CASE ~Renews(c)
    <3>1. Bearers' = Bearers
      BY <1>2, <1>3, <2>1 DEF Bearers
    <3>. QED BY <1>5, <2>1, <3>1 DEF LagsSound
  <2>2. CASE Renews(c)
    <3>1. Bearers' \in SUBSET Connections
      BY DEF Bearers
    <3>2. Cardinality(Bearers') \in Nat /\ Cardinality(Bearers') <= Cardinality(Connections)
      BY <3>1, FewConnections
    <3>3. top - jar'.seq + Cardinality(Due(c)) + Cardinality(Connections) <= Absorbed
      BY <1>1, <1>5, <2>2 DEF LagsSound
    <3>4. Cardinality(Due(c)) \in Nat
      BY Counts
    <3>. QED BY <1>4, <1>5, <3>2, <3>3, <3>4
  <2>. QED BY <2>1, <2>2
<1>7. ASSUME NEW k \in Connections, conn'[k] # Idle
      PROVE  Cardinality(Due(k)') \in Nat /\ Cardinality(Due(k)') <= Cardinality(Due(k))
  <2>1. conn'[k].at = conn[k].at /\ conn[k].at \in Nat /\ conn[k].at <= now
    BY <1>1, <1>2, <1>7, UnderWay
  <2>2. Renews(c) => ~(jar'.seen + MaxDelay < conn[k].at)
    BY <1>4, <1>5, <2>1
  <2>3. ASSUME NEW d \in Connections, d \in Due(k)' PROVE d \in Due(k)
    BY <1>2, <1>3, <1>5, <2>1, <2>2, <2>3 DEF Due
  <2>4. Due(k)' \subseteq Due(k)
    BY <2>3 DEF Due
  <2>. QED BY <2>4, Counts, FewConnections
<1>8. Cardinality(DueNow') \in Nat /\ Cardinality(DueNow') <= Cardinality(DueNow)
  <2>1. Renews(c) => ~Outdated(jar)'
    BY <1>1, <1>4, <1>5 DEF Outdated
  <2>2. ASSUME NEW d \in Connections, d \in DueNow' PROVE d \in DueNow
    BY <1>1, <1>2, <1>3, <1>5, <2>1, <2>2 DEF DueNow, Outdated
  <2>3. DueNow' \subseteq DueNow
    BY <2>2 DEF DueNow
  <2>. QED BY <2>3, Counts, FewConnections
<1>9. ASSUME NEW d \in Connections, conn'[d] # Idle
      PROVE  /\ conn[d] # Idle /\ conn'[d].cookie = conn[d].cookie
             /\ Cardinality(Due(d)') + top' + Absorbed <= Cardinality(Due(d)) + top + Absorbed'
             /\ Renews(d)' => Renews(d) /\ conn'[d].reply = conn[d].reply
  <2>1. conn[d] # Idle /\ conn'[d].cookie = conn[d].cookie
    BY <1>1, <1>2, <1>9
  <2>2. Renews(d)' => Renews(d) /\ conn'[d].reply = conn[d].reply
    BY <1>2, <1>3
  <2>3. Cardinality(Due(d)') \in Nat /\ Cardinality(Due(d)') <= Cardinality(Due(d))
    BY <1>7, <1>9
  <2>. QED BY <1>1, <1>4, <2>1, <2>2, <2>3, Counts
<1>10. Cardinality(DueNow') + top' + Absorbed <= Cardinality(DueNow) + top + Absorbed'
  BY <1>1, <1>4, <1>8, Counts
<1>11. killed' # {} => Grace < Absorbed'
  BY <1>1, <1>4 DEF LagsSound
<1>. QED BY <1>1, <1>4, <1>6, <1>9, <1>10, <1>11, LagsKept

\* A new cookie is lost: the connection may yet slide again.
LEMMA LoseLags ==
  ASSUME SessionTypeOK, ConnectionsSound, LagsSound, SessionTypeOK', NEW c \in Connections, Lose(c)
  PROVE  LagsSound'
<1>1. /\ conn' = [conn EXCEPT ![c] = Idle] /\ lost' = lost + 1
      /\ UNCHANGED <<now, jar, top, looking, killed, resealed, behind>>
  BY DEF Lose, Done
<1>2. /\ conn'[c] = Idle /\ \A d \in Connections : d # c => conn'[d] = conn[d]
      /\ conn'[c].stage = "idle"
  BY <1>1 DEF SessionTypeOK, Idle
<1>3. /\ \A d \in Connections : d # c => (Renews(d)' <=> Renews(d)) /\ (MayAge(d)' <=> MayAge(d))
      /\ ~MayAge(c)'
  BY <1>1, <1>2 DEF Renews, MayAge
<1>4. jar.seq \in Nat /\ top \in Nat /\ Absorbed \in Nat /\ Absorbed' = Absorbed + 1
  <2>1. resealed' = resealed + 0 /\ behind' = behind
    BY <1>1 DEF SessionTypeOK
  <2>2. Absorbed' = Absorbed + 1 + 0
    BY <1>1, <2>1, AbsorbedNext
  <2>. QED BY <2>2, Counts DEF SessionTypeOK, Cookie
<1>5. top - jar'.seq + Cardinality(Bearers') <= Absorbed'
  <2>1. Bearers' \subseteq Bearers \cup {c}
    BY <1>3 DEF Bearers
  <2>2. Cardinality(Bearers') \in Nat /\ Cardinality(Bearers') <= Cardinality(Bearers) + 1
    BY <2>1, Counts, OneConnectionMore
  <2>3. top - jar.seq + Cardinality(Bearers) <= Absorbed
    BY DEF LagsSound
  <2>. QED BY <1>1, <1>4, <2>2, <2>3, Counts
<1>6. ASSUME NEW d \in Connections, conn'[d] # Idle
      PROVE  /\ conn[d] # Idle /\ conn'[d].cookie = conn[d].cookie
             /\ Cardinality(Due(d)') + top' + Absorbed <= Cardinality(Due(d)) + top + Absorbed'
             /\ Renews(d)' => Renews(d) /\ conn'[d].reply = conn[d].reply
  <2>1. d # c /\ conn'[d] = conn[d]
    BY <1>2, <1>6
  <2>2. Due(d)' \subseteq Due(d) \cup {c}
    BY <1>1, <1>3, <2>1 DEF Due
  <2>3. Cardinality(Due(d)') \in Nat /\ Cardinality(Due(d)') <= Cardinality(Due(d)) + 1
    BY <2>2, Counts, OneConnectionMore
  <2>. QED BY <1>1, <1>3, <1>4, <1>6, <2>1, <2>3, Counts
<1>7. Cardinality(DueNow') + top' + Absorbed <= Cardinality(DueNow) + top + Absorbed'
  <2>1. DueNow' \subseteq DueNow \cup {c}
    BY <1>1, <1>2, <1>3 DEF DueNow, Outdated
  <2>2. Cardinality(DueNow') \in Nat /\ Cardinality(DueNow') <= Cardinality(DueNow) + 1
    BY <2>1, Counts, OneConnectionMore
  <2>. QED BY <1>1, <1>4, <2>2, Counts
<1>8. killed' # {} => Grace < Absorbed'
  <2>1. killed # {} => Grace < Absorbed
    BY DEF LagsSound
  <2>. QED BY <1>1, <1>4, <2>1
<1>9. Absorbed' \in Nat /\ top' - jar'.seq + Cardinality(Bearers') <= Absorbed'
  BY <1>1, <1>4, <1>5
<1>. QED BY <1>1, <1>6, <1>7, <1>8, <1>9, LagsKept

\* The remaining steps leave the browser alone.
LEMMA OtherLags ==
  ASSUME SessionTypeOK, ConnectionsSound, LagsSound, SessionTypeOK',
         UNCHANGED <<jar, conn, lost, top, resealed, behind>>,
         \A r \in Replicas : looking'[r] # None => looking'[r] = looking[r] /\ UNCHANGED now,
         killed' # {} => Grace < Absorbed
  PROVE  LagsSound'
<1>1. \A d \in Connections : (Renews(d)' <=> Renews(d)) /\ (MayAge(d)' <=> MayAge(d))
  BY DEF Renews, MayAge
<1>2. Absorbed \in Nat /\ Absorbed' = Absorbed /\ top \in Nat
  BY Counts DEF Absorbed, SessionTypeOK
<1>3. Bearers' = Bearers /\ \A d \in Connections : Due(d)' = Due(d)
  BY <1>1 DEF Bearers, Due
<1>4. UNCHANGED now => DueNow' = DueNow
  BY <1>1 DEF DueNow, Outdated
<1>5. top' - jar'.seq + Cardinality(Bearers') <= Absorbed'
  BY <1>2, <1>3 DEF LagsSound
<1>6. \A d \in Connections :
        /\ conn'[d] = conn[d]
        /\ Cardinality(Due(d)') + top' + Absorbed <= Cardinality(Due(d)) + top + Absorbed'
  BY <1>2, <1>3, Counts
<1>7. \A r \in Replicas : looking'[r] # None =>
        /\ looking'[r] = looking[r]
        /\ Cardinality(DueNow') + top' + Absorbed <= Cardinality(DueNow) + top + Absorbed'
  BY <1>2, <1>4, Counts
<1>8. killed' # {} => Grace < Absorbed'
  BY <1>2
<1>. QED BY <1>1, <1>2, <1>5, <1>6, <1>7, <1>8, LagsKept

\* A replica whose lookup finds the fleet ahead by more than the grace, or one that restarts.
LEMMA ReplicaLags ==
  ASSUME SessionTypeOK, ConnectionsSound, LagsSound, SessionTypeOK',
         NEW r \in Replicas, Reconcile(r) \/ Restart(r)
  PROVE  LagsSound'
<1>1. /\ UNCHANGED <<now, jar, conn, lost, top, resealed, behind>>
      /\ looking' = [looking EXCEPT ![r] = None]
  BY DEF Reconcile, Restart
<1>2. \A q \in Replicas : looking'[q] # None => looking'[q] = looking[q]
  BY <1>1 DEF SessionTypeOK
<1>3. killed # {} => Grace < Absorbed
  BY DEF LagsSound
<1>4. ASSUME killed = {}, killed' # {} PROVE Grace < Absorbed
  <2>1. looking[r] # None /\ top > looking[r] + Grace
    BY <1>4 DEF Reconcile, Restart
  <2>2. looking[r] \in Nat /\ top \in Nat /\ top - looking[r] + Cardinality(DueNow) <= Absorbed
    BY <2>1 DEF LagsSound, SessionTypeOK
  <2>. QED BY <2>1, <2>2, Counts
<1>. QED BY <1>1, <1>2, <1>3, <1>4, OtherLags

-----------------------------------------------------------------------------
LEMMA SessionNextInv == SessionInv /\ [SessionNext]_sessionVars => SessionInv'
<1> SUFFICES ASSUME SessionInv, [SessionNext]_sessionVars PROVE SessionInv'
  OBVIOUS
<1>1. SessionTypeOK /\ ConnectionsSound /\ SessionTypeOK' /\ ConnectionsSound'
  BY SessionNextType DEF SessionInv
<1>2. ASSUME 3 * MaxDelay <= Throttle PROVE LagsSound'
  <2>1. LagsSound
    BY <1>2 DEF SessionInv
  <2>2. ASSUME NEW c \in Connections, NEW r \in Replicas,
               Fork(c, r) \/ Accept(c, r) \/ Slide(c, r) \/ Reseal(c, r)
        PROVE  LagsSound'
    BY <1>1, <1>2, <2>1, <2>2, RefuseLags, SlideLags, ResealLags
  <2>3. ASSUME NEW c \in Connections, Send(c) \/ Receive(c) \/ ReceiveEarly(c) \/ Lose(c)
        PROVE  LagsSound'
    BY <1>1, <1>2, <2>1, <2>3, SendLags, ReceiveLags, LoseLags
  <2>4. ASSUME NEW r \in Replicas, Reconcile(r) \/ Restart(r)
        PROVE  LagsSound'
    BY <1>1, <2>1, <2>4, ReplicaLags
  <2>5. CASE Advance
    <3>1. /\ UNCHANGED <<jar, conn, lost, top, resealed, behind, looking, killed>>
          /\ \A r \in Replicas : looking[r] = None
      BY <2>5 DEF Advance
    <3>2. killed' # {} => Grace < Absorbed
      BY <2>1, <3>1 DEF LagsSound
    <3>. QED BY <1>1, <2>1, <3>1, <3>2, OtherLags
  <2>6. CASE UNCHANGED sessionVars
    <3>1. UNCHANGED <<now, jar, conn, lost, top, resealed, behind, looking, killed>>
      BY <2>6 DEF sessionVars
    <3>2. killed' # {} => Grace < Absorbed
      BY <2>1, <3>1 DEF LagsSound
    <3>. QED BY <1>1, <2>1, <3>1, <3>2, OtherLags
  <2>. QED BY <2>2, <2>3, <2>4, <2>5, <2>6 DEF SessionNext
<1>. QED BY <1>1, <1>2 DEF SessionInv

THEOREM SessionInvariance == SessionSpec => []SessionInv
BY SessionInitInv, SessionNextInv, PTL DEF SessionSpec

\* Every number, mark and clock reading of a session is in its range; no replica's mark is ahead
\* of the numbers issued, or behind a request it serves; and a replica looks the fleet's mark up
\* only for a session it has seen (checkSequence, issueSequence, session-registry.ts).
THEOREM SessionTypeCorrect == SessionSpec => []SessionTypeOK
<1>1. SessionInv => SessionTypeOK
  BY DEF SessionInv
<1>. QED BY <1>1, SessionInvariance, PTL

\* An honest browser is taken for a replay, when a request of it arrives or at any later look at
\* the request's cookie, only once its session may have moved on by more than the grace past a
\* cookie it still presents (readSession, auth.ts; checkSequence and reconcileFirstSight,
\* session-registry.ts).
THEOREM FalseKillsAreBounded == SessionSpec => []GraceAbsorbs
<1>1. SessionInv => GraceAbsorbs
  BY DEF SessionInv, LagsSound, GraceAbsorbs
<1>. QED BY <1>1, SessionInvariance, PTL
=============================================================================
