----------------------------- MODULE AuditFleet -----------------------------
(***************************************************************************)
(* The audit trail of a fleet: replicas seal their events onto one chain   *)
(* head in the shared store by compare-and-set (sealAuditEventShared in    *)
(* lib/audit-chain.ts), and each forwards what it sealed to the collector  *)
(* through a bounded buffer (createHttpSink in lib/audit.ts).              *)
(*                                                                         *)
(* The store's client sends a command again whose connection dropped       *)
(* before the reply (lib/shared-state.ts), and a command that was sent may *)
(* be served after its caller has failed or died.                          *)
(*                                                                         *)
(* As in AuditChain, a hash is everything that went into it: the chain's   *)
(* head is the sequence of the events linked so far.                       *)
(***************************************************************************)
EXTENDS Naturals, FiniteSets, SequencesExt

CONSTANTS
  Replicas,
  Events,
  MaxAttempts, \* MAX_CAS_ATTEMPTS
  MaxBuffer,   \* MAX_BUFFER
  BatchSize    \* AUDIT_BATCH

ASSUME FleetAssumption ==
  MaxAttempts \in Nat \ {0} /\ MaxBuffer \in Nat \ {0} /\ BatchSize \in Nat \ {0}

VARIABLES
  up,
  head,      \* the shared head
  pc,        \* where the sealing of each event is
  seal,      \* what the sealing of an event knows: its replica, the head read, attempts made
  emitted,   \* history: the sealed events, as stdout has them
  buffer,    \* of each replica's sink
  posts,     \* batches on their way to the collector
  collected, \* events the collector has
  gone       \* history: events that were dropped, or that a crash took along

vars == <<up, head, pc, seal, emitted, buffer, posts, collected, gone>>
sink == <<buffer, posts, collected, gone>>

Chain == Seq(Events)
Sealing == [on : Replicas, read : Chain, tries : Nat, from : Nat]
NoSealing == [on |-> "none"]
Sealed == [ev : Events, on : Replicas, prev : Chain]
Post == [on : Replicas, batch : Chain]

Init ==
  /\ up = [r \in Replicas |-> TRUE]
  /\ head = <<>>
  /\ pc = [e \in Events |-> "new"]
  /\ seal = [e \in Events |-> NoSealing]
  /\ emitted = {}
  /\ buffer = [r \in Replicas |-> <<>>]
  /\ posts = {} /\ collected = {} /\ gone = {}

-----------------------------------------------------------------------------
\* recordAudit; sealing goes on in the background.  `from` is history: the chain's length then.
Record(e, r) ==
  /\ pc[e] = "new" /\ up[r]
  /\ pc' = [pc EXCEPT ![e] = "reading"]
  /\ seal' = [seal EXCEPT ![e] = [on |-> r, read |-> <<>>, tries |-> 0, from |-> Len(head)]]
  /\ UNCHANGED <<up, head, emitted, sink>>

ReadHead(e) ==
  /\ pc[e] = "reading"
  /\ pc' = [pc EXCEPT ![e] = "linking"]
  /\ seal' = [seal EXCEPT ![e].read = head]
  /\ UNCHANGED <<up, head, emitted, sink>>

\* enqueue: dropped when the buffer is full; a full batch is posted at once.
Enqueue(r, e) ==
  IF Len(buffer[r]) >= MaxBuffer
    THEN gone' = gone \cup {e} /\ UNCHANGED <<buffer, posts>>
    ELSE /\ IF Len(buffer[r]) + 1 >= BatchSize
              THEN /\ posts' = posts \cup {[on |-> r, batch |-> Append(buffer[r], e)]}
                   /\ buffer' = [buffer EXCEPT ![r] = <<>>]
              ELSE buffer' = [buffer EXCEPT ![r] = Append(@, e)] /\ UNCHANGED posts
         /\ UNCHANGED gone

Emit(e) ==
  /\ emitted' = emitted \cup {[ev |-> e, on |-> seal[e].on, prev |-> seal[e].read]}
  /\ Enqueue(seal[e].on, e)

\* Mutation: the head is set, whatever it has become.
SetHead(e) ==
  /\ pc[e] = "linking"
  /\ head' = Append(seal[e].read, e)
  /\ pc' = [pc EXCEPT ![e] = "sealed"]
  /\ Emit(e)
  /\ UNCHANGED <<up, seal, collected>>

\* The compare-and-set succeeds, and the sealed event is emitted.
WinHead(e) ==
  /\ pc[e] = "linking"
  /\ head = seal[e].read
  /\ head' = Append(seal[e].read, e)
  /\ pc' = [pc EXCEPT ![e] = "sealed"]
  /\ Emit(e)
  /\ UNCHANGED <<up, seal, collected>>

\* The head is moved on, but nobody hears of it: the connection drops before the reply, and the
\* same compare-and-set, sent again, will be lost; or its caller had failed or died by then.
ServeUnheard(e) ==
  /\ pc[e] \in {"linking", "cut"}
  /\ head = seal[e].read
  /\ head' = Append(head, e)
  /\ pc' = [pc EXCEPT ![e] = IF @ = "cut" THEN "failed" ELSE @]
  /\ UNCHANGED <<up, seal, emitted, sink>>

\* Mutation: the head is not read again.
LoseHeadAgain(e) ==
  /\ pc[e] = "linking"
  /\ head # seal[e].read
  /\ seal' = [seal EXCEPT ![e].tries = @ + 1]
  /\ pc' = [pc EXCEPT ![e] = IF seal'[e].tries < MaxAttempts THEN "linking" ELSE "exhausted"]
  /\ UNCHANGED <<up, head, emitted, sink>>

\* Mutation: attempts are not counted.
LoseHeadUncounted(e) ==
  /\ pc[e] = "linking"
  /\ head # seal[e].read
  /\ pc' = [pc EXCEPT ![e] = "reading"]
  /\ UNCHANGED <<up, head, seal, emitted, sink>>

\* Mutation: the sealed event is emitted, won or not.
LoseHeadUnnoticed(e) ==
  /\ pc[e] = "linking"
  /\ head # seal[e].read
  /\ pc' = [pc EXCEPT ![e] = "sealed"]
  /\ Emit(e)
  /\ UNCHANGED <<up, head, seal, collected>>

\* The head has moved on, by another sealing or by this one, unheard: read it again, or throw
\* after so many attempts.
LoseHead(e) ==
  /\ pc[e] = "linking"
  /\ head # seal[e].read
  /\ seal' = [seal EXCEPT ![e].tries = @ + 1]
  /\ pc' = [pc EXCEPT ![e] = IF seal'[e].tries < MaxAttempts THEN "reading" ELSE "exhausted"]
  /\ UNCHANGED <<up, head, emitted, sink>>

\* What becomes of a sealing that ends before its time: a compare-and-set may be on its way.
Ended(stage) ==
  CASE stage = "reading" -> "failed"
    [] stage = "linking" -> "cut"
    [] OTHER -> stage

\* The store throws.
FailSeal(e) ==
  /\ pc[e] \in {"reading", "linking"}
  /\ pc' = [pc EXCEPT ![e] = Ended(@)]
  /\ UNCHANGED <<up, head, seal, emitted, sink>>

-----------------------------------------------------------------------------
\* The timer posts what there is.
Flush(r) ==
  /\ buffer[r] # <<>>
  /\ posts' = posts \cup {[on |-> r, batch |-> buffer[r]]}
  /\ buffer' = [buffer EXCEPT ![r] = <<>>]
  /\ UNCHANGED <<up, head, pc, seal, emitted, collected, gone>>

Room(r) == MaxBuffer - Len(buffer[r])

\* Mutation: a batch that failed is not put back.
PostForgotten(p) ==
  /\ posts' = posts \ {p}
  /\ collected' \in {collected, collected \cup Range(p.batch)}
  /\ UNCHANGED <<up, head, pc, seal, emitted, buffer, gone>>

\* Mutation: the whole batch is put back, room or no room.
PostAllBack(p) ==
  /\ posts' = posts \ {p}
  /\ collected' \in {collected, collected \cup Range(p.batch)}
  /\ buffer' = [buffer EXCEPT ![p.on] = Reverse(p.batch) \o @]
  /\ UNCHANGED <<up, head, pc, seal, emitted, gone>>

\* The collector has the batch, and says so.
PostSucceeds(p) ==
  /\ posts' = posts \ {p}
  /\ collected' = collected \cup Range(p.batch)
  /\ UNCHANGED <<up, head, pc, seal, emitted, buffer, gone>>

\* Refused, failed or timed out: the collector may have it.  The events go back to the front of
\* the buffer one by one, the first of them last, while there is room.
PostFails(p) ==
  LET kept == SubSeq(p.batch, 1, IF Len(p.batch) <= Room(p.on) THEN Len(p.batch) ELSE Room(p.on))
  IN  /\ posts' = posts \ {p}
      /\ collected' \in {collected, collected \cup Range(p.batch)}
      /\ buffer' = [buffer EXCEPT ![p.on] = Reverse(kept) \o @]
      /\ gone' = gone \cup (Range(p.batch) \ Range(kept))
      /\ UNCHANGED <<up, head, pc, seal, emitted>>

\* A replica goes down in the midst of anything.
Crash(r) ==
  /\ up[r]
  /\ up' = [up EXCEPT ![r] = FALSE]
  /\ pc' = [e \in Events |-> IF pc[e] # "new" /\ seal[e].on = r THEN Ended(pc[e]) ELSE pc[e]]
  /\ gone' = gone \cup Range(buffer[r]) \cup UNION {Range(p.batch) : p \in {q \in posts : q.on = r}}
  /\ buffer' = [buffer EXCEPT ![r] = <<>>]
  /\ posts' = {p \in posts : p.on # r}
  /\ UNCHANGED <<head, seal, emitted, collected>>

Restart(r) ==
  /\ ~up[r]
  /\ up' = [up EXCEPT ![r] = TRUE]
  /\ UNCHANGED <<head, pc, seal, emitted, sink>>

SealStep(e) == ReadHead(e) \/ WinHead(e) \/ ServeUnheard(e) \/ LoseHead(e) \/ FailSeal(e)

Next ==
  \/ \E e \in Events : (\E r \in Replicas : Record(e, r)) \/ SealStep(e)
  \/ \E r \in Replicas : Flush(r) \/ Crash(r) \/ Restart(r)
  \/ \E p \in posts : PostSucceeds(p) \/ PostFails(p)

Spec == Init /\ [][Next]_vars

-----------------------------------------------------------------------------
Waiting(r) ==
  Range(buffer[r]) \cup UNION {Range(p.batch) : p \in {q \in posts : q.on = r}}

\* The shapes; buffers within their cap, and a sealing under way only where a replica is up.
TypeOK ==
  /\ up \in [Replicas -> BOOLEAN]
  /\ head \in Chain
  /\ pc \in [Events -> {"new", "reading", "linking", "sealed", "exhausted", "cut", "failed"}]
  /\ seal \in [Events -> Sealing \cup {NoSealing}]
  /\ \A e \in Events :
       /\ pc[e] # "new" => seal[e] \in Sealing
       /\ pc[e] \in {"reading", "linking"} => up[seal[e].on]
  /\ emitted \subseteq Sealed
  /\ buffer \in [Replicas -> Chain]
  /\ \A r \in Replicas : Len(buffer[r]) <= MaxBuffer /\ (buffer[r] # <<>> => up[r])
  /\ posts \subseteq Post /\ \A p \in posts : up[p.on]
  /\ collected \subseteq Events /\ gone \subseteq Events

\* "That makes advancement a single linear sequence across all replicas — the chain cannot fork"
\* (audit-chain.ts:147-148): every emitted event continues a prefix of the one chain, and no
\* two continue the same prefix, whatever was lost, linked unheard or left unemitted between.
OneChain ==
  /\ \A m \in emitted :
       /\ Len(m.prev) < Len(head)
       /\ SubSeq(head, 1, Len(m.prev)) = m.prev /\ head[Len(m.prev) + 1] = m.ev
  /\ \A m, n \in emitted : m.prev = n.prev => m = n

\* "Extreme, sustained contention only" (audit-chain.ts:185): a sealing that gives up has seen
\* the chain grow by one link per attempt since it began, so replicas never starve each other
\* without the chain getting on.  The links may be its own, unheard.
GivesUpOnlyToGrowth ==
  \A e \in Events : pc[e] = "exhausted" => Len(head) >= seal[e].from + MaxAttempts

Links(e) == {i \in 1..Len(head) : head[i] = e}

\* What audit-chain.ts:176-186 leaves of "chained onto the current head" (:169) when replies are
\* lost: an event may be linked more than once, but once per attempt at most, however often a
\* compare-and-set is sent, and never again after its sealing was answered.
LinkedOncePerAttempt ==
  \A e \in Events :
    /\ pc[e] = "new" => Links(e) = {}
    /\ pc[e] # "new" => Cardinality(Links(e)) <= seal[e].tries + 1
    /\ Cardinality(Links(e)) <= MaxAttempts

\* Of what was emitted nothing vanishes on its way out (audit.ts:122-128): the collector has it,
\* the replica holds it in its buffer or in one of its concurrent posts, or it was dropped at a
\* full buffer or by a crash.
NothingVanishes ==
  \A m \in emitted : m.ev \in collected \cup gone \cup Waiting(m.on)

\* The fleet seen as one log.
SealStatus(stage) ==
  CASE stage = "new" -> "none"
    [] stage \in {"reading", "linking"} -> "asked"
    [] stage = "sealed" -> "kept"
    [] stage = "cut" -> "doubtful"
    [] stage \in {"exhausted", "failed"} -> "ended"

Receipts == {[ev |-> m.ev, prev |-> m.prev] : m \in emitted}

Log == INSTANCE AuditLog WITH
  log <- head, status <- [e \in Events |-> SealStatus(pc[e])], receipts <- Receipts

\* However replicas race, fail and crash, sealing advances one linear log (audit-chain.ts:
\* 146-148): it is never rewritten, each link is made in one step to all that was linked before,
\* a caller hears of one link at most, the last one of its event, and of an event that was
\* given up in answer to its last attempt none is made any more.
SealsAsOneLog == Log!Spec
=============================================================================
