------------------------------ MODULE ReadPath ------------------------------
(***************************************************************************)
(* How one replica serves reads (broker/index.ts getBroker): the opt-in    *)
(* read cache (broker/cache.ts) over the coalescing of identical reads     *)
(* (broker/single-flight.ts) over the backend.                             *)
(*                                                                         *)
(* A key stands for the caller's identity and scope, the method and its    *)
(* arguments (readKey).  What the backend would answer is the number of    *)
(* writes it has applied: any write may concern any key.  Changes made to  *)
(* the backend by others than this replica are left out; no layer here     *)
(* could notice them before the TTL.                                       *)
(***************************************************************************)
EXTENDS Naturals, FiniteSets

CONSTANTS
  Callers,     \* concurrent requests
  Keys,        \* read keys
  CacheOn,     \* readCacheEnabled(): READ_CACHE_TTL_MS is set
  MaxEntries,  \* MAX_ENTRIES
  MaxWrites,   \* bound: writes begun in one behaviour
  MaxResets    \* bound: resetBroker calls in one behaviour

ASSUME ReadPathAssumption ==
  /\ CacheOn \in BOOLEAN
  /\ IsFiniteSet(Keys)
  /\ MaxEntries \in Nat \ {0} /\ MaxWrites \in Nat /\ MaxResets \in Nat

VARIABLES
  backend,  \* writes the backend has applied
  begun,    \* writes begun; bounds the behaviour
  late,     \* writes given up on by their caller that may still be applied
  gen,      \* which broker stack getBroker() returns: resetBroker drops it
  store,    \* the current stack's cache
  flight,   \* each stack's upstream reads in flight
  pc,       \* where each caller is
  read,     \* the read a caller waits for
  result,   \* the outcome it was handed, before it runs on
  answer    \* history: the answer each caller got, until its next call

vars == <<backend, begun, late, gen, store, flight, pc, read, result, answer>>

Flights == (0 .. MaxResets) \X Keys

\* `overlapped`: a write was under way at some point while the answer was fetched.  A read
\* is `of` a key, on the stack it was made on, and answered `via` an upstream call; `asked`
\* is what the backend held when it was made.
Fetched == [outcome : {"answered"}, from : Flights, ver : Nat, overlapped : BOOLEAN]
Entry == [value : Fetched, live : {"fresh", "expired"}]
Flight == [stage : {"sent", "read"}, ver : Nat, overlapped : BOOLEAN]
Read == [of : Flights, via : Flights, asked : Nat]
Answer == [value : Fetched, to : Read]

Absent == [live |-> "absent"]
NoFlight == [stage |-> "none"]
NoRead == [asked |-> "none"]
Rejected == [outcome |-> "rejected"]
NoResult == [outcome |-> "none"]
NoAnswer == [to |-> "nobody"]

Cached == {k \in Keys : store[k] # Absent}

\* A write may still be applied: its caller waits for it, or gave up on it.
WriteUnderWay == late > 0 \/ \E c \in Callers : pc[c] = "writing"

Init ==
  /\ backend = 0 /\ begun = 0 /\ late = 0 /\ gen = 0
  /\ store = [k \in Keys |-> Absent]
  /\ flight = [f \in Flights |-> NoFlight]
  /\ pc = [c \in Callers |-> "idle"]
  /\ read = [c \in Callers |-> NoRead]
  /\ result = [c \in Callers |-> NoResult]
  /\ answer = [c \in Callers |-> NoAnswer]

-----------------------------------------------------------------------------
Hit(k) == CacheOn /\ store[k] # Absent /\ store[k].live = "fresh"

ReadHit(c, k) ==
  /\ pc[c] = "idle"
  /\ Hit(k)
  /\ answer' = [answer EXCEPT ![c] =
       [value |-> store[k].value, to |-> [of |-> <<gen, k>>, via |-> <<gen, k>>, asked |-> backend]]]
  /\ UNCHANGED <<backend, begun, late, gen, store, flight, pc, read, result>>

\* Mutation: callers share whatever read is in flight.
AnyInFlight(k) == {f \in Flights : f[1] = gen /\ flight[f] # NoFlight}

InFlight(k) == {f \in Flights : f = <<gen, k>> /\ flight[f] # NoFlight}

\* A miss joins the identical read in flight, or sends one upstream.
ReadMiss(c, k) ==
  /\ pc[c] = "idle"
  /\ ~Hit(k)
  /\ pc' = [pc EXCEPT ![c] = "waiting"]
  /\ \/ \E f \in InFlight(k) :
          /\ read' = [read EXCEPT ![c] = [of |-> <<gen, k>>, via |-> f, asked |-> backend]]
          /\ UNCHANGED flight
     \/ /\ InFlight(k) = {}
        /\ read' = [read EXCEPT ![c] =
                [of |-> <<gen, k>>, via |-> <<gen, k>>, asked |-> backend]]
        /\ flight' = [flight EXCEPT ![<<gen, k>>] =
             [stage |-> "sent", ver |-> 0, overlapped |-> WriteUnderWay]]
  /\ answer' = [answer EXCEPT ![c] = NoAnswer]
  /\ UNCHANGED <<backend, begun, late, gen, store, result>>

\* The backend reads its data, some time before its reply arrives.
BackendReads(f) ==
  /\ flight[f] # NoFlight /\ flight[f].stage = "sent"
  /\ flight' = [flight EXCEPT ![f] =
       [stage |-> "read", ver |-> backend, overlapped |-> flight[f].overlapped]]
  /\ UNCHANGED <<backend, begun, late, gen, store, pc, read, result, answer>>

WaitingFor(f) == {c \in Callers : pc[c] = "waiting" /\ read[c].via = f}

\* Mutation: only one of those who share the call is told.
SettleOne(f, outcome) ==
  /\ flight' = [flight EXCEPT ![f] = NoFlight]
  /\ \E c \in WaitingFor(f) :
       /\ pc' = [pc EXCEPT ![c] = "settled"]
       /\ result' = [result EXCEPT ![c] = outcome]
  /\ UNCHANGED <<backend, begun, late, gen, store, read, answer>>

\* The upstream call settles: its in-flight entry is dropped, and everybody who shares it
\* has its outcome.
Settle(f, outcome) ==
  /\ flight' = [flight EXCEPT ![f] = NoFlight]
  /\ pc' = [c \in Callers |-> IF c \in WaitingFor(f) THEN "settled" ELSE pc[c]]
  /\ result' = [c \in Callers |-> IF c \in WaitingFor(f) THEN outcome ELSE result[c]]
  /\ UNCHANGED <<backend, begun, late, gen, store, read, answer>>

\* It settles with the backend's reply, or is rejected by an error or a timeout.
FlightEnds(f) ==
  /\ flight[f] # NoFlight
  /\ \/ /\ flight[f].stage = "read"
        /\ Settle(f, [outcome |-> "answered", from |-> f, ver |-> flight[f].ver,
                      overlapped |-> flight[f].overlapped])
     \/ Settle(f, Rejected)

\* Mutation: the cap is not looked at.
Uncapped(k, value) ==
  {[store EXCEPT ![k] = [value |-> value, live |-> "fresh"]]}

\* What caching an answer makes of the store: at the cap, an entry leaves first (the oldest;
\* any, here), even when the answer replaces one that is there.
Filled(k, value) ==
  LET put(s) == [s EXCEPT ![k] = [value |-> value, live |-> "fresh"]] IN
  IF Cardinality(Cached) >= MaxEntries
    THEN {put([store EXCEPT ![victim] = Absent]) : victim \in Cached}
    ELSE {put(store)}

\* The caller's stack caches an answer, never a failure.  A stack that was dropped fills a
\* store nobody reads any more.
Fills(c) == CacheOn /\ result[c] # Rejected /\ read[c].of[1] = gen

\* One caller runs on: its cache layer may keep the answer (an adaptive TTL may say no),
\* and it has it.  Those who shared a call run on one after the other.
Deliver(c) ==
  /\ pc[c] = "settled"
  /\ \/ Fills(c) /\ store' \in Filled(read[c].of[2], result[c])
     \/ UNCHANGED store
  /\ answer' = [answer EXCEPT ![c] =
       IF result[c] = Rejected THEN NoAnswer ELSE [value |-> result[c], to |-> read[c]]]
  /\ pc' = [pc EXCEPT ![c] = "idle"]
  /\ read' = [read EXCEPT ![c] = NoRead]
  /\ result' = [result EXCEPT ![c] = NoResult]
  /\ UNCHANGED <<backend, begun, late, gen, flight>>

\* An entry's TTL runs out; it stays in the map until it is replaced or evicted.
Expire(k) ==
  /\ store[k] # Absent /\ store[k].live = "fresh"
  /\ store' = [store EXCEPT ![k] = [value |-> store[k].value, live |-> "expired"]]
  /\ UNCHANGED <<backend, begun, late, gen, flight, pc, read, result, answer>>

-----------------------------------------------------------------------------
\* Everything fetched and not yet delivered now overlaps a write.
MarkFlights ==
  flight' = [f \in Flights |->
    IF flight[f] = NoFlight THEN NoFlight
    ELSE [stage |-> flight[f].stage, ver |-> flight[f].ver, overlapped |-> TRUE]]

MarkResults ==
  result' = [c \in Callers |->
    IF result[c].outcome # "answered" THEN result[c]
    ELSE [outcome |-> "answered", from |-> result[c].from, ver |-> result[c].ver,
          overlapped |-> TRUE]]

\* Mutation: a write leaves the cache alone.
WriteAround(c) ==
  /\ pc[c] = "idle"
  /\ begun < MaxWrites
  /\ begun' = begun + 1
  /\ pc' = [pc EXCEPT ![c] = "writing"]
  /\ MarkFlights /\ MarkResults
  /\ answer' = [answer EXCEPT ![c] = NoAnswer]
  /\ UNCHANGED <<backend, late, gen, store, read>>

\* A write by one of WRITE_METHODS, or a raw command: the cache is cleared and the call sent.
\* (The mutators that are not in that list pass the cache by, as changes made by others do.)
BeginWrite(c) ==
  /\ pc[c] = "idle"
  /\ begun < MaxWrites
  /\ begun' = begun + 1
  /\ pc' = [pc EXCEPT ![c] = "writing"]
  /\ store' = [k \in Keys |-> Absent]
  /\ MarkFlights /\ MarkResults
  /\ answer' = [answer EXCEPT ![c] = NoAnswer]
  /\ UNCHANGED <<backend, late, gen, read>>

ApplyWrite(c) ==
  /\ pc[c] = "writing"
  /\ backend' = backend + 1
  /\ pc' = [pc EXCEPT ![c] = "applied"]
  /\ UNCHANGED <<begun, late, gen, store, flight, read, result, answer>>

\* The caller hears of it: the reply, or an error although the write was applied.
EndWrite(c) ==
  /\ pc[c] = "applied"
  /\ pc' = [pc EXCEPT ![c] = "idle"]
  /\ UNCHANGED <<backend, begun, late, gen, store, flight, read, result, answer>>

\* The caller gives up: the write is refused, or timed out and still on its way.
FailWrite(c) ==
  /\ pc[c] = "writing"
  /\ pc' = [pc EXCEPT ![c] = "idle"]
  /\ late' \in {late, late + 1}
  /\ UNCHANGED <<backend, begun, gen, store, flight, read, result, answer>>

ApplyLate ==
  /\ late > 0
  /\ late' = late - 1
  /\ backend' = backend + 1
  /\ UNCHANGED <<begun, gen, store, flight, pc, read, result, answer>>

\* resetBroker, after the backend source changed: the stack is dropped with its cache and
\* its map of reads in flight; those who wait on it still do.
resetBroker ==
  /\ gen < MaxResets
  /\ gen' = gen + 1
  /\ store' = [k \in Keys |-> Absent]
  /\ UNCHANGED <<backend, begun, late, flight, pc, read, result, answer>>

Next ==
  \/ \E c \in Callers, k \in Keys : ReadHit(c, k) \/ ReadMiss(c, k)
  \/ \E f \in Flights : BackendReads(f) \/ FlightEnds(f)
  \/ \E c \in Callers : Deliver(c)
  \/ \E k \in Keys : Expire(k)
  \/ \E c \in Callers : BeginWrite(c) \/ ApplyWrite(c) \/ EndWrite(c) \/ FailWrite(c)
  \/ ApplyLate
  \/ resetBroker

Spec == Init /\ [][Next]_vars

FairSpec ==
  /\ Spec
  /\ \A f \in Flights : WF_vars(FlightEnds(f))
  /\ \A c \in Callers : WF_vars(Deliver(c))

-----------------------------------------------------------------------------
\* The shapes, and the cap on the cache (BOUNDED, cache.ts:19).
TypeOK ==
  /\ backend \in Nat /\ begun \in Nat /\ late \in Nat
  /\ gen \in 0 .. MaxResets
  /\ store \in [Keys -> Entry \cup {Absent}]
  /\ Cardinality(Cached) <= MaxEntries
  /\ flight \in [Flights -> Flight \cup {NoFlight}]
  /\ pc \in [Callers -> {"idle", "waiting", "settled", "writing", "applied"}]
  /\ read \in [Callers -> Read \cup {NoRead}]
  /\ result \in [Callers -> Fetched \cup {Rejected, NoResult}]
  /\ answer \in [Callers -> Answer \cup {NoAnswer}]

\* Whether cached or coalesced, an answer was fetched for the very identity, scope, method
\* and arguments of the read it answers, through the broker stack that read was made on:
\* nothing crosses from one user to another, nor from a backend source that was switched
\* away (cache.ts:15-16, index.ts resetBroker).
AnswersAreOwn ==
  \A c \in Callers : answer[c] # NoAnswer => answer[c].value.from = answer[c].to.of

\* An answer that is older than what the backend held when it was asked for was fetched
\* while a write was under way.  Clearing the cache as a write begins, and dropping an
\* in-flight entry as its call settles, rule out every other stale answer: also when a
\* write fails, times out and is applied late, or when those who shared a call run on
\* around it (cache.ts:111-113, single-flight.ts:57-59).
StaleOnlyByOverlap ==
  \A c \in Callers : answer[c] # NoAnswer =>
    \/ answer[c].value.ver >= answer[c].to.asked
    \/ answer[c].value.overlapped

\* Every read ends, for everybody who shares a call (single-flight.ts:57-60).
EveryReadEnds ==
  \A c \in Callers : (pc[c] \in {"waiting", "settled"}) ~> (pc[c] = "idle")
=============================================================================
