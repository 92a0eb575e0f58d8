---------------------------- MODULE SharedCache ----------------------------
(***************************************************************************)
(* The fleet-wide read cache (broker/shared-cache.ts): entries in the      *)
(* shared store, filed under a generation counter that each write bumps,   *)
(* over the single-flight of every replica (broker/index.ts:86-92).        *)
(*                                                                         *)
(* One read key, since keys never meet.  What the backend would answer is  *)
(* the number of writes it has applied.  Any call to the shared store may  *)
(* fail.                                                                   *)
(***************************************************************************)
EXTENDS Naturals, FiniteSets

CONSTANTS
  Replicas,
  Callers,   \* concurrent requests; each call lands on any replica
  MaxWrites, \* bound: changes of the backend's data in one behaviour
  MaxFills   \* bound: `set` calls on their way at a time

ASSUME SharedCacheAssumption == MaxWrites \in Nat /\ MaxFills \in Nat

VARIABLES
  backend,  \* writes the backend has applied
  begun,    \* writes begun; bounds the behaviour
  gen,      \* GEN_KEY
  entry,    \* the cached answer of each generation
  fills,    \* `set` calls nobody waits for, not yet served
  visible,  \* history: the newest write whose own bump had landed at each generation
  flight,   \* each replica's upstream read in flight
  pc,       \* where each caller is
  call      \* what a caller has learned so far

vars == <<backend, begun, gen, entry, fills, visible, flight, pc, call>>

Gens == 0 .. MaxWrites

\* `joined`: the answer came from an upstream read that had been sent before the last bump
\* its caller knew of.
Value == [ver : Nat, joined : BOOLEAN]
Entry == [live : {"fresh"}, value : Value]
Flight == [stage : {"sent", "read"}, ver : Nat, since : Nat]
Reading == [kind : {"read"}, on : Replicas, gen : Gens, guessed : BOOLEAN, floor : Nat, value : Value]
Writing == [kind : {"write"}, ver : Nat]

Absent == [live |-> "absent"]
NoFlight == [stage |-> "none"]
NoCall == [kind |-> "none"]
NoValue == [ver |-> 0, joined |-> FALSE]

Init ==
  /\ backend = 0 /\ begun = 0 /\ gen = 0
  /\ entry = [g \in Gens |-> Absent]
  /\ fills = {}
  /\ visible = [g \in Gens |-> 0]
  /\ flight = [r \in Replicas |-> NoFlight]
  /\ pc = [c \in Callers |-> "idle"]
  /\ call = [c \in Callers |-> NoCall]

-----------------------------------------------------------------------------
\* The generation is read; an unreachable store makes it "0".
TakeGeneration(c, r) ==
  /\ pc[c] = "idle"
  /\ \E guessed \in BOOLEAN :
       call' = [call EXCEPT ![c] =
         [kind |-> "read", on |-> r, gen |-> IF guessed THEN 0 ELSE gen, guessed |-> guessed,
          floor |-> visible[gen], value |-> NoValue]]
  /\ pc' = [pc EXCEPT ![c] = "lookup"]
  /\ UNCHANGED <<backend, begun, gen, entry, fills, visible, flight>>

Return(c) ==
  /\ call' = [call EXCEPT ![c] = NoCall]
  /\ pc' = [pc EXCEPT ![c] = "idle"]

Hit(c) ==
  /\ pc[c] = "lookup"
  /\ entry[call[c].gen] # Absent
  /\ Return(c)
  /\ UNCHANGED <<backend, begun, gen, entry, fills, visible, flight>>

\* Nothing there, or the store does not answer: the read goes on to the broker, where it
\* joins the identical read in flight on its replica, or sends one upstream.
Miss(c) ==
  /\ pc[c] = "lookup"
  /\ pc' = [pc EXCEPT ![c] = "waiting"]
  /\ flight' = IF flight[call[c].on] # NoFlight THEN flight
               ELSE [flight EXCEPT ![call[c].on] =
                       [stage |-> "sent", ver |-> 0, since |-> visible[gen]]]
  /\ UNCHANGED <<backend, begun, gen, entry, fills, visible, call>>

BackendReads(r) ==
  /\ flight[r] # NoFlight /\ flight[r].stage = "sent"
  /\ flight' = [flight EXCEPT ![r] =
       [stage |-> "read", ver |-> backend, since |-> flight[r].since]]
  /\ UNCHANGED <<backend, begun, gen, entry, fills, visible, pc, call>>

WaitingOn(r) == {c \in Callers : pc[c] = "waiting" /\ call[c].on = r}

\* The upstream call settles for all who share it: with the backend's reply, or rejected.
Settle(r, replied) ==
  /\ flight' = [flight EXCEPT ![r] = NoFlight]
  /\ pc' = [c \in Callers |->
       IF c \notin WaitingOn(r) THEN pc[c] ELSE IF replied THEN "settled" ELSE "idle"]
  /\ call' = [c \in Callers |->
       IF c \notin WaitingOn(r) THEN call[c]
       ELSE IF ~replied THEN NoCall
       ELSE [call[c] EXCEPT !.value =
               [ver |-> flight[r].ver, joined |-> flight[r].since < call[c].floor]]]
  /\ UNCHANGED <<backend, begun, gen, entry, fills, visible>>

FlightEnds(r) ==
  /\ flight[r] # NoFlight
  /\ Settle(r, FALSE) \/ (flight[r].stage = "read" /\ Settle(r, TRUE))

\* Mutation: the answer is filed under the generation of the moment.
DeliverUnderCurrent(c) ==
  /\ pc[c] = "settled"
  /\ Cardinality(fills) < MaxFills
  /\ fills' = fills \cup {[gen |-> gen, value |-> call[c].value]}
  /\ Return(c)
  /\ UNCHANGED <<backend, begun, gen, entry, visible, flight>>

\* The caller has its answer, and a `set` is under way that nobody waits for.
Deliver(c) ==
  /\ pc[c] = "settled"
  /\ Cardinality(fills) < MaxFills
  /\ fills' = fills \cup {[gen |-> call[c].gen, value |-> call[c].value]}
  /\ Return(c)
  /\ UNCHANGED <<backend, begun, gen, entry, visible, flight>>

\* The store serves a `set`, or fails it.
Fill(f) ==
  /\ f \in fills
  /\ fills' = fills \ {f}
  /\ entry' \in {entry, [entry EXCEPT ![f.gen] = [live |-> "fresh", value |-> f.value]]}
  /\ UNCHANGED <<backend, begun, gen, visible, flight, pc, call>>

Expire(g) ==
  /\ entry[g] # Absent
  /\ entry' = [entry EXCEPT ![g] = Absent]
  /\ UNCHANGED <<backend, begun, gen, fills, visible, flight, pc, call>>

-----------------------------------------------------------------------------
BeginWrite(c) ==
  /\ pc[c] = "idle"
  /\ begun < MaxWrites
  /\ begun' = begun + 1
  /\ pc' = [pc EXCEPT ![c] = "writing"]
  /\ call' = [call EXCEPT ![c] = [kind |-> "write", ver |-> 0]]
  /\ UNCHANGED <<backend, gen, entry, fills, visible, flight>>

ApplyWrite(c) ==
  /\ pc[c] = "writing"
  /\ backend' = backend + 1
  /\ pc' = [pc EXCEPT ![c] = "applied"]
  /\ call' = [call EXCEPT ![c].ver = backend + 1]
  /\ UNCHANGED <<begun, gen, entry, fills, visible, flight>>

\* The call returns, and the generation moves on.  (It has room: a bump per write begun.)
EndWrite(c) ==
  /\ pc[c] = "applied"
  /\ gen < MaxWrites
  /\ gen' = gen + 1
  /\ visible' = [visible EXCEPT ![gen + 1] =
       IF call[c].ver > visible[gen] THEN call[c].ver ELSE visible[gen]]
  /\ pc' = [pc EXCEPT ![c] = "idle"]
  /\ call' = [call EXCEPT ![c] = NoCall]
  /\ UNCHANGED <<backend, begun, entry, fills, flight>>

\* Mutation: a caller whose write failed is not released.
FailWriteKept(c) ==
  /\ pc[c] \in {"writing", "applied"}
  /\ pc' = [pc EXCEPT ![c] = "idle"]
  /\ UNCHANGED <<backend, begun, gen, entry, fills, visible, flight, call>>

\* The generation stays: the write was refused, or it threw although it was applied, or the
\* bump failed.
FailWrite(c) ==
  /\ pc[c] \in {"writing", "applied"}
  /\ pc' = [pc EXCEPT ![c] = "idle"]
  /\ call' = [call EXCEPT ![c] = NoCall]
  /\ UNCHANGED <<backend, begun, gen, entry, fills, visible, flight>>

\* A change this cache does not hear of: a raw command, which goes around it, a mutator that is
\* not in WRITE_METHODS, a write applied after its caller timed out, a change made by others.
SilentWrite ==
  /\ begun < MaxWrites
  /\ begun' = begun + 1
  /\ backend' = backend + 1
  /\ UNCHANGED <<gen, entry, fills, visible, flight, pc, call>>

Next ==
  \/ \E c \in Callers :
       \/ \E r \in Replicas : TakeGeneration(c, r)
       \/ Hit(c) \/ Miss(c) \/ Deliver(c)
       \/ BeginWrite(c) \/ ApplyWrite(c) \/ EndWrite(c) \/ FailWrite(c)
  \/ \E r \in Replicas : BackendReads(r) \/ FlightEnds(r)
  \/ \E f \in fills : Fill(f)
  \/ \E g \in Gens : Expire(g)
  \/ SilentWrite

Spec == Init /\ [][Next]_vars

-----------------------------------------------------------------------------
\* The shapes of the store, the flights and the callers.
TypeOK ==
  /\ backend \in Nat
  /\ begun \in Gens /\ gen \in Gens
  /\ entry \in [Gens -> Entry \cup {Absent}]
  /\ fills \subseteq [gen : Gens, value : Value]
  /\ visible \in [Gens -> Nat]
  /\ flight \in [Replicas -> Flight \cup {NoFlight}]
  /\ pc \in [Callers -> {"idle", "lookup", "waiting", "settled", "writing", "applied"}]
  /\ call \in [Callers -> Reading \cup Writing \cup {NoCall}]
  /\ \A c \in Callers :
       /\ pc[c] = "idle" => call[c] = NoCall
       /\ pc[c] \in {"lookup", "waiting", "settled"} => call[c] \in Reading
       /\ pc[c] \in {"writing", "applied"} => call[c] \in Writing

\* What a read would answer in its next step.
AtHand(c) ==
  (IF pc[c] = "lookup" /\ entry[call[c].gen] # Absent THEN {entry[call[c].gen].value} ELSE {})
  \cup (IF pc[c] = "settled" THEN {call[c].value} ELSE {})

\* "any broker write bumps the generation, so every replica's next read computes a
\* new-generation key and misses" (shared-cache.ts:18-19): an answer is at least as new as
\* the last write whose bump had landed when the read began, on whichever replica, however
\* fills, expiries and writes interleave.  It fails only for a read that could not learn the
\* generation, and for an answer out of an upstream read that was sent before that bump and
\* joined after it, which is then cached for everybody.
StaleOnlyByJoining ==
  \A c \in Callers : \A value \in AtHand(c) :
    value.ver >= call[c].floor \/ value.joined \/ call[c].guessed
=============================================================================
