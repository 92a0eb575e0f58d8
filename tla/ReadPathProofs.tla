--------------------------- MODULE ReadPathProofs ---------------------------
(***************************************************************************)
(* Proofs about ReadPath, for any number of callers, keys, writes and      *)
(* resets and any cap on the cache.  The inductive invariant follows an    *)
(* answer through the three places it can be in: an upstream call, the     *)
(* hands of those who shared the call, and the cache.  In each of them it  *)
(* is either marked as overlapping a write, or no write is under way and   *)
(* it is what the backend holds.                                           *)
(***************************************************************************)
EXTENDS ReadPath, FiniteSetTheorems, TLAPS

\* The shapes alone.
Shape ==
  /\ backend \in Nat /\ begun \in Nat /\ late \in Nat
  /\ gen \in 0 .. MaxResets
  /\ store \in [Keys -> Entry \cup {Absent}]
  /\ flight \in [Flights -> Flight \cup {NoFlight}]
  /\ pc \in [Callers -> {"idle", "waiting", "settled", "writing", "applied"}]
  /\ read \in [Callers -> Read \cup {NoRead}]
  /\ result \in [Callers -> Fetched \cup {Rejected, NoResult}]
  /\ answer \in [Callers -> Answer \cup {NoAnswer}]

Bounded == Cardinality(Cached) <= MaxEntries

\* What an answer that no write overlapped is worth.
Current(ver) == ~WriteUnderWay /\ ver = backend

EntriesSound ==
  \A k \in Keys : store[k] # Absent =>
    /\ store[k].value.from = <<gen, k>>
    /\ ~store[k].value.overlapped => Current(store[k].value.ver)

FlightsSound ==
  \A f \in Flights : flight[f] # NoFlight =>
    /\ ~flight[f].overlapped => ~WriteUnderWay
    /\ (~flight[f].overlapped /\ flight[f].stage = "read") => flight[f].ver = backend

ReadersSound ==
  \A c \in Callers : pc[c] \in {"waiting", "settled"} =>
    read[c] \in Read /\ read[c].via = read[c].of /\ read[c].asked <= backend

ResultsSound ==
  \A c \in Callers : pc[c] = "settled" =>
    /\ result[c] \in Fetched \cup {Rejected}
    /\ result[c].outcome = "answered" =>
         /\ result[c].from = read[c].of
         /\ ~result[c].overlapped => Current(result[c].ver)

IInv ==
  /\ Shape /\ Bounded
  /\ EntriesSound /\ FlightsSound /\ ReadersSound /\ ResultsSound
  /\ AnswersAreOwn /\ StaleOnlyByOverlap

USE ReadPathAssumption

\* An empty cache is within its cap.
LEMMA EmptyBounded ==
  ASSUME store' = [k \in Keys |-> Absent]
  PROVE  Bounded'
<1>1. Cached' = {}
  BY DEF Cached
<1>2. Cardinality({}) = 0
  BY FS_EmptySet
<1>. QED BY <1>1, <1>2 DEF Bounded

\* The invariant holds initially.
LEMMA InitInv == Init => IInv
<1> SUFFICES ASSUME Init PROVE IInv
  OBVIOUS
<1>1. Shape
  BY DEF Init, Shape
<1>2. Bounded
  <2>1. Cached = {}
    BY DEF Init, Cached
  <2>2. Cardinality({}) = 0
    BY FS_EmptySet
  <2>. QED BY <2>1, <2>2 DEF Bounded
<1>3. EntriesSound /\ FlightsSound /\ ReadersSound /\ ResultsSound
  BY DEF Init, EntriesSound, FlightsSound, ReadersSound, ResultsSound
<1>4. AnswersAreOwn /\ StaleOnlyByOverlap
  BY DEF Init, AnswersAreOwn, StaleOnlyByOverlap
<1>. QED BY <1>1, <1>2, <1>3, <1>4 DEF IInv

\* A cache hit.
LEMMA HitInv ==
  ASSUME IInv, NEW c \in Callers, NEW k \in Keys, ReadHit(c, k)
  PROVE  IInv'
<1> USE DEF IInv
<1> DEFINE to == [of |-> <<gen, k>>, via |-> <<gen, k>>, asked |-> backend]
           a == [value |-> store[k].value, to |-> to]
<1>0. /\ store[k] # Absent
      /\ answer' = [answer EXCEPT ![c] = a]
      /\ UNCHANGED <<backend, begun, late, gen, store, flight, pc, read, result>>
  BY DEF ReadHit, Hit
<1>1. store[k] \in Entry
  BY <1>0 DEF Shape
<1>2. <<gen, k>> \in Flights
  BY DEF Shape, Flights
<1>3. a \in Answer
  BY <1>1, <1>2 DEF Answer, Entry, Read, Shape
<1>4. /\ a.value.from = a.to.of
      /\ a.value.ver >= a.to.asked \/ a.value.overlapped
  BY <1>0, <1>1 DEF EntriesSound, Current, Entry, Fetched, Shape
<1> HIDE DEF a, to
<1>5. Shape' /\ Bounded'
  BY <1>0, <1>3 DEF Shape, Bounded, Cached
<1>6. EntriesSound' /\ FlightsSound' /\ ReadersSound' /\ ResultsSound'
  BY <1>0 DEF EntriesSound, FlightsSound, ReadersSound, ResultsSound, Current, WriteUnderWay
<1>7. AnswersAreOwn' /\ StaleOnlyByOverlap'
  BY <1>0, <1>4 DEF AnswersAreOwn, StaleOnlyByOverlap, Shape
<1>. QED BY <1>5, <1>6, <1>7

\* A miss: it joins the read in flight, or starts one.
LEMMA MissInv ==
  ASSUME IInv, NEW c \in Callers, NEW k \in Keys, ReadMiss(c, k)
  PROVE  IInv'
<1> USE DEF IInv
<1> DEFINE rd == [of |-> <<gen, k>>, via |-> <<gen, k>>, asked |-> backend]
           fl == [stage |-> "sent", ver |-> 0, overlapped |-> WriteUnderWay]
<1>0. /\ pc[c] = "idle"
      /\ pc' = [pc EXCEPT ![c] = "waiting"]
      /\ read' = [read EXCEPT ![c] = rd]
      /\ flight' = flight \/ flight' = [flight EXCEPT ![<<gen, k>>] = fl]
      /\ answer' = [answer EXCEPT ![c] = NoAnswer]
      /\ UNCHANGED <<backend, begun, late, gen, store, result>>
  BY DEF ReadMiss, InFlight
<1>1. <<gen, k>> \in Flights
  BY DEF Shape, Flights
<1>2. rd \in Read /\ rd.via = rd.of /\ rd.asked <= backend
  BY <1>1 DEF Read, Shape
<1>3. fl \in Flight
  BY DEF Flight, WriteUnderWay
<1>4. fl.overlapped = WriteUnderWay /\ fl.stage = "sent"
  OBVIOUS
<1> HIDE DEF rd, fl
<1>5. WriteUnderWay' = WriteUnderWay
  BY <1>0 DEF WriteUnderWay, Shape
<1>6. Shape' /\ Bounded'
  BY <1>0, <1>2, <1>3 DEF Shape, Bounded, Cached
<1>7. EntriesSound'
  BY <1>0, <1>5 DEF EntriesSound, Current
<1>8. FlightsSound'
  BY <1>0, <1>1, <1>4, <1>5 DEF FlightsSound, Shape
<1>9. ReadersSound' /\ ResultsSound'
  BY <1>0, <1>2, <1>5 DEF ReadersSound, ResultsSound, Current, Shape
<1>10. AnswersAreOwn' /\ StaleOnlyByOverlap'
  BY <1>0 DEF AnswersAreOwn, StaleOnlyByOverlap, Shape
<1>. QED BY <1>6, <1>7, <1>8, <1>9, <1>10

\* The backend reads its data for an upstream call.
LEMMA BackendReadsInv ==
  ASSUME IInv, NEW f \in Flights, BackendReads(f)
  PROVE  IInv'
<1> USE DEF IInv
<1> DEFINE fl == [stage |-> "read", ver |-> backend, overlapped |-> flight[f].overlapped]
<1>0. /\ flight[f] # NoFlight
      /\ flight' = [flight EXCEPT ![f] = fl]
      /\ UNCHANGED <<backend, begun, late, gen, store, pc, read, result, answer>>
  BY DEF BackendReads
<1>1. flight[f] \in Flight
  BY <1>0 DEF Shape
<1>2. fl \in Flight
  BY <1>1 DEF Flight, Shape
<1>3. fl.overlapped = flight[f].overlapped /\ fl.ver = backend
  OBVIOUS
<1> HIDE DEF fl
<1>4. Shape' /\ Bounded'
  BY <1>0, <1>2 DEF Shape, Bounded, Cached
<1>5. FlightsSound'
  BY <1>0, <1>3 DEF FlightsSound, WriteUnderWay, Shape
<1>6. EntriesSound' /\ ReadersSound' /\ ResultsSound'
  BY <1>0 DEF EntriesSound, ReadersSound, ResultsSound, Current, WriteUnderWay
<1>7. AnswersAreOwn' /\ StaleOnlyByOverlap'
  BY <1>0 DEF AnswersAreOwn, StaleOnlyByOverlap
<1>. QED BY <1>4, <1>5, <1>6, <1>7

\* An upstream call settles with any outcome that is sound for those who wait for it.
LEMMA SettleInv ==
  ASSUME IInv, NEW f \in Flights, NEW outcome \in Fetched \cup {Rejected},
         outcome.outcome = "answered" =>
           outcome.from = f /\ (~outcome.overlapped => Current(outcome.ver)),
         Settle(f, outcome)
  PROVE  IInv'
<1> USE DEF IInv
<1>1. WriteUnderWay' = WriteUnderWay
  BY DEF Settle, WaitingFor, WriteUnderWay, Shape
<1>2. Shape' /\ Bounded'
  BY DEF Settle, Shape, Bounded, Cached
<1>3. EntriesSound' /\ FlightsSound'
  BY <1>1 DEF Settle, EntriesSound, FlightsSound, Current, Shape
<1>4. ReadersSound'
  BY DEF Settle, WaitingFor, ReadersSound, Shape
<1>5. ResultsSound'
  <2> SUFFICES ASSUME NEW c \in Callers, pc'[c] = "settled"
               PROVE  /\ result'[c] \in Fetched \cup {Rejected}
                      /\ result'[c].outcome = "answered" =>
                           /\ result'[c].from = read'[c].of
                           /\ ~result'[c].overlapped =>
                                ~WriteUnderWay' /\ result'[c].ver = backend'
    BY DEF ResultsSound, Current
  <2>1. CASE c \in WaitingFor(f)
    <3>1. result'[c] = outcome /\ read'[c] = read[c] /\ backend' = backend
      BY <2>1 DEF Settle
    <3>2. read[c].of = f
      BY <2>1 DEF WaitingFor, ReadersSound
    <3>. QED BY <3>1, <3>2, <1>1 DEF Current
  <2>2. CASE c \notin WaitingFor(f)
    <3>1. /\ result'[c] = result[c] /\ read'[c] = read[c] /\ backend' = backend
          /\ pc[c] = "settled"
      BY <2>2 DEF Settle
    <3>. QED BY <3>1, <1>1 DEF Current, ResultsSound
  <2>. QED BY <2>1, <2>2
<1>6. AnswersAreOwn' /\ StaleOnlyByOverlap'
  BY DEF Settle, AnswersAreOwn, StaleOnlyByOverlap
<1>. QED BY <1>2, <1>3, <1>4, <1>5, <1>6

LEMMA FlightEndsInv ==
  ASSUME IInv, NEW f \in Flights, FlightEnds(f)
  PROVE  IInv'
<1> DEFINE o == [outcome |-> "answered", from |-> f, ver |-> flight[f].ver,
                 overlapped |-> flight[f].overlapped]
<1>1. CASE flight[f].stage = "read" /\ Settle(f, o)
  <2>1. flight[f] \in Flight
    BY DEF FlightEnds, IInv, Shape
  <2>2. o \in Fetched
    BY <2>1 DEF Fetched, Flight
  <2>3. ~o.overlapped => Current(o.ver)
    BY <1>1 DEF FlightEnds, IInv, FlightsSound, Current
  <2>4. o.from = f
    OBVIOUS
  <2> HIDE DEF o
  <2>. QED BY <1>1, <2>2, <2>3, <2>4, SettleInv
<1>2. CASE Settle(f, Rejected)
  <2>1. Rejected.outcome # "answered"
    BY DEF Rejected
  <2>. QED BY <1>2, <2>1, SettleInv
<1>. QED BY <1>1, <1>2 DEF FlightEnds

\* Caching an answer keeps the cache within its cap.
LEMMA FilledBounded ==
  ASSUME Shape, Bounded, NEW k \in Keys, NEW v \in Fetched, store' \in Filled(k, v)
  PROVE  /\ Bounded'
         /\ store' \in [Keys -> Entry \cup {Absent}]
         /\ store'[k] = [value |-> v, live |-> "fresh"]
         /\ \A j \in Keys : j # k => store'[j] = store[j] \/ store'[j] = Absent
<1> DEFINE e == [value |-> v, live |-> "fresh"]
<1>1. e \in Entry /\ e # Absent
  BY DEF Entry, Absent
<1>2. IsFiniteSet(Cached) /\ Cardinality(Cached) \in Nat
  BY FS_Subset, FS_CardinalityType DEF Cached
<1> HIDE DEF e
<1>3. CASE Cardinality(Cached) >= MaxEntries
  <2>1. PICK victim \in Cached :
          store' = [[store EXCEPT ![victim] = Absent] EXCEPT ![k] = e]
    BY <1>3 DEF Filled, e
  <2>2. victim \in Keys
    BY DEF Cached
  <2>3. /\ store' \in [Keys -> Entry \cup {Absent}]
        /\ store'[k] = e
        /\ \A j \in Keys : j # k => store'[j] = IF j = victim THEN Absent ELSE store[j]
    BY <1>1, <2>1, <2>2 DEF Shape
  <2>4. Cached' = (Cached \ {victim}) \cup {k}
    BY <1>1, <2>3 DEF Cached
  <2>5. /\ IsFiniteSet(Cached \ {victim})
        /\ Cardinality(Cached \ {victim}) = Cardinality(Cached) - 1
    BY <1>2, FS_RemoveElement
  <2>6. Cardinality((Cached \ {victim}) \cup {k}) \in
          {Cardinality(Cached \ {victim}), Cardinality(Cached \ {victim}) + 1}
    BY <2>5, FS_AddElement
  <2>7. Cardinality(Cached') \in {Cardinality(Cached) - 1, Cardinality(Cached)}
    BY <1>2, <2>4, <2>5, <2>6
  <2>8. Bounded'
    BY <1>2, <2>7 DEF Bounded
  <2>. QED BY <2>3, <2>8 DEF e
<1>4. CASE ~(Cardinality(Cached) >= MaxEntries)
  <2>1. store' = [store EXCEPT ![k] = e]
    BY <1>4 DEF Filled, e
  <2>2. /\ store' \in [Keys -> Entry \cup {Absent}]
        /\ store'[k] = e
        /\ \A j \in Keys : j # k => store'[j] = store[j]
    BY <1>1, <2>1 DEF Shape
  <2>3. Cached' = Cached \cup {k}
    BY <1>1, <2>2 DEF Cached
  <2>4. Cardinality(Cached \cup {k}) \in {Cardinality(Cached), Cardinality(Cached) + 1}
    BY <1>2, FS_AddElement
  <2>5. Bounded'
    BY <1>2, <1>4, <2>3, <2>4 DEF Bounded
  <2>. QED BY <2>2, <2>5 DEF e
<1>. QED BY <1>3, <1>4

\* A caller runs on with its answer, which its cache layer may keep.
LEMMA DeliverInv ==
  ASSUME IInv, NEW c \in Callers, Deliver(c)
  PROVE  IInv'
<1> USE DEF IInv
<1> DEFINE a == IF result[c] = Rejected THEN NoAnswer
                ELSE [value |-> result[c], to |-> read[c]]
<1>0. /\ pc[c] = "settled"
      /\ answer' = [answer EXCEPT ![c] = a]
      /\ pc' = [pc EXCEPT ![c] = "idle"]
      /\ read' = [read EXCEPT ![c] = NoRead]
      /\ result' = [result EXCEPT ![c] = NoResult]
      /\ UNCHANGED <<backend, begun, late, gen, flight>>
  BY DEF Deliver
<1>1. /\ read[c] \in Read /\ read[c].asked <= backend
      /\ result[c] \in Fetched \cup {Rejected}
  BY <1>0 DEF ReadersSound, ResultsSound
<1>2. result[c] # Rejected =>
        /\ result[c] \in Fetched
        /\ result[c].from = read[c].of
        /\ ~result[c].overlapped => Current(result[c].ver)
  BY <1>0, <1>1 DEF ResultsSound, Fetched
<1>3. a \in Answer \cup {NoAnswer}
  BY <1>1, <1>2 DEF Answer
<1>4. result[c] # Rejected =>
        /\ a.value.from = a.to.of
        /\ a.value.ver >= a.to.asked \/ a.value.overlapped
  BY <1>1, <1>2 DEF Current, Fetched, Read, Shape
<1>5. result[c] = Rejected => a = NoAnswer
  OBVIOUS
<1> HIDE DEF a
<1>6. WriteUnderWay' = WriteUnderWay
  BY <1>0 DEF WriteUnderWay, Shape
<1>7. /\ Bounded'
      /\ store' \in [Keys -> Entry \cup {Absent}]
      /\ EntriesSound'
  <2>1. CASE UNCHANGED store
    BY <1>0, <1>6, <2>1 DEF Shape, Bounded, Cached, EntriesSound, Current
  <2>2. CASE Fills(c) /\ store' \in Filled(read[c].of[2], result[c])
    <3> DEFINE k == read[c].of[2]
    <3>1. read[c].of \in Flights
      BY <1>1 DEF Read
    <3>2. k \in Keys /\ read[c].of = <<gen, k>>
      BY <2>2, <3>1 DEF Fills, Flights
    <3>3. result[c] # Rejected
      BY <2>2 DEF Fills
    <3> HIDE DEF k
    <3>4. store' \in Filled(k, result[c])
      BY <2>2 DEF k
    <3>5. /\ Bounded'
          /\ store' \in [Keys -> Entry \cup {Absent}]
          /\ store'[k] = [value |-> result[c], live |-> "fresh"]
          /\ \A j \in Keys : j # k => store'[j] = store[j] \/ store'[j] = Absent
      BY <1>2, <3>2, <3>3, <3>4, FilledBounded
    <3>6. EntriesSound'
      BY <1>0, <1>2, <1>6, <3>2, <3>3, <3>5 DEF EntriesSound, Current
    <3>. QED BY <3>5, <3>6
  <2>. QED BY <2>1, <2>2 DEF Deliver
<1>8. Shape'
  BY <1>0, <1>3, <1>7 DEF Shape
<1>9. FlightsSound'
  BY <1>0, <1>6 DEF FlightsSound
<1>10. ReadersSound' /\ ResultsSound'
  BY <1>0, <1>6 DEF ReadersSound, ResultsSound, Current, Shape
<1>11. AnswersAreOwn' /\ StaleOnlyByOverlap'
  BY <1>0, <1>4, <1>5 DEF AnswersAreOwn, StaleOnlyByOverlap, Shape
<1>. QED BY <1>7, <1>8, <1>9, <1>10, <1>11

\* An entry expires.
LEMMA ExpireInv ==
  ASSUME IInv, NEW k \in Keys, Expire(k)
  PROVE  IInv'
<1> USE DEF IInv
<1> DEFINE e == [value |-> store[k].value, live |-> "expired"]
<1>0. /\ store[k] # Absent
      /\ store' = [store EXCEPT ![k] = e]
      /\ UNCHANGED <<backend, begun, late, gen, flight, pc, read, result, answer>>
  BY DEF Expire
<1>1. store[k] \in Entry
  BY <1>0 DEF Shape
<1>2. e \in Entry /\ e # Absent /\ e.value = store[k].value
  BY <1>1 DEF Entry, Absent
<1> HIDE DEF e
<1>3. Cached' = Cached
  BY <1>0, <1>2 DEF Cached, Shape
<1>4. Shape' /\ Bounded'
  BY <1>0, <1>2, <1>3 DEF Shape, Bounded
<1>5. EntriesSound'
  BY <1>0, <1>2 DEF EntriesSound, Current, WriteUnderWay, Shape
<1>6. FlightsSound' /\ ReadersSound' /\ ResultsSound'
  BY <1>0 DEF FlightsSound, ReadersSound, ResultsSound, Current, WriteUnderWay
<1>7. AnswersAreOwn' /\ StaleOnlyByOverlap'
  BY <1>0 DEF AnswersAreOwn, StaleOnlyByOverlap
<1>. QED BY <1>4, <1>5, <1>6, <1>7

\* A write begins: the cache is empty, and whatever is being fetched is marked.
LEMMA BeginWriteInv ==
  ASSUME IInv, NEW c \in Callers, BeginWrite(c)
  PROVE  IInv'
<1> USE DEF IInv
<1>1. store' = [k \in Keys |-> Absent]
  BY DEF BeginWrite
<1>2. \A f \in Flights :
        /\ flight'[f] \in Flight \cup {NoFlight}
        /\ flight'[f] # NoFlight => flight'[f].overlapped
  BY DEF BeginWrite, MarkFlights, Flight, Shape
<1>3. \A r \in Callers :
        /\ result'[r] \in Fetched \cup {Rejected, NoResult}
        /\ result[r] \in Fetched \cup {Rejected} => result'[r] \in Fetched \cup {Rejected}
        /\ result'[r].outcome = "answered" =>
             /\ result'[r].overlapped
             /\ result[r].outcome = "answered" /\ result'[r].from = result[r].from
  BY DEF BeginWrite, MarkResults, Fetched, Rejected, NoResult, Shape
<1>4. Shape'
  BY <1>1, <1>2, <1>3 DEF BeginWrite, MarkFlights, MarkResults, Shape
<1>5. Bounded' /\ EntriesSound'
  BY <1>1, EmptyBounded DEF EntriesSound
<1>6. FlightsSound'
  BY <1>2 DEF FlightsSound
<1>7. ReadersSound'
  BY DEF BeginWrite, ReadersSound, Shape
<1>8. ResultsSound'
  BY <1>3 DEF BeginWrite, ResultsSound, Shape
<1>9. AnswersAreOwn' /\ StaleOnlyByOverlap'
  BY DEF BeginWrite, AnswersAreOwn, StaleOnlyByOverlap, Shape
<1>. QED BY <1>4, <1>5, <1>6, <1>7, <1>8, <1>9

\* While a write is under way nothing unmarked is held anywhere, so applying it, or giving
\* it up, makes nothing stale that is not marked.
LEMMA WriteMovesInv ==
  ASSUME IInv, WriteUnderWay,
         pc' \in [Callers -> {"idle", "waiting", "settled", "writing", "applied"}],
         \A c \in Callers : pc'[c] \in {"waiting", "settled"} => pc'[c] = pc[c],
         backend' \in {backend, backend + 1}, late' \in Nat,
         UNCHANGED <<begun, gen, store, flight, read, result, answer>>
  PROVE  IInv'
<1> USE DEF IInv
<1>0. backend' \in Nat /\ backend <= backend'
  BY DEF Shape
<1>1. Shape' /\ Bounded'
  BY <1>0 DEF Shape, Bounded, Cached
<1>2. EntriesSound'
  BY DEF EntriesSound, Current
<1>3. FlightsSound'
  BY DEF FlightsSound
<1>4. ReadersSound'
  BY <1>0 DEF ReadersSound, Read, Shape
<1>5. ResultsSound'
  BY DEF ResultsSound, Current
<1>6. AnswersAreOwn' /\ StaleOnlyByOverlap'
  BY DEF AnswersAreOwn, StaleOnlyByOverlap
<1>. QED BY <1>1, <1>2, <1>3, <1>4, <1>5, <1>6

\* A write's caller hears of it: nothing else changes.
LEMMA EndWriteInv ==
  ASSUME IInv, NEW c \in Callers, EndWrite(c)
  PROVE  IInv'
<1> USE DEF IInv
<1>0. /\ pc[c] = "applied" /\ pc' = [pc EXCEPT ![c] = "idle"]
      /\ UNCHANGED <<backend, begun, late, gen, store, flight, read, result, answer>>
  BY DEF EndWrite
<1>1. WriteUnderWay' = WriteUnderWay
  BY <1>0 DEF WriteUnderWay, Shape
<1>2. Shape' /\ Bounded'
  BY <1>0 DEF Shape, Bounded, Cached
<1>3. EntriesSound' /\ FlightsSound' /\ ReadersSound' /\ ResultsSound'
  BY <1>0, <1>1 DEF EntriesSound, FlightsSound, ReadersSound, ResultsSound, Current, Shape
<1>4. AnswersAreOwn' /\ StaleOnlyByOverlap'
  BY <1>0 DEF AnswersAreOwn, StaleOnlyByOverlap
<1>. QED BY <1>2, <1>3, <1>4

\* The broker stack is dropped: its cache is gone, and those who wait on it keep waiting.
LEMMA ResetInv ==
  ASSUME IInv, resetBroker
  PROVE  IInv'
<1> USE DEF IInv
<1>1. Shape'
  BY DEF resetBroker, Shape
<1>2. Bounded' /\ EntriesSound'
  BY EmptyBounded DEF resetBroker, EntriesSound
<1>3. FlightsSound' /\ ReadersSound' /\ ResultsSound'
  BY DEF resetBroker, FlightsSound, ReadersSound, ResultsSound, Current, WriteUnderWay
<1>4. AnswersAreOwn' /\ StaleOnlyByOverlap'
  BY DEF resetBroker, AnswersAreOwn, StaleOnlyByOverlap
<1>. QED BY <1>1, <1>2, <1>3, <1>4

\* Every step keeps the invariant.
LEMMA NextInv == IInv /\ [Next]_vars => IInv'
<1> SUFFICES ASSUME IInv, [Next]_vars PROVE IInv'
  OBVIOUS
<1>1. ASSUME NEW c \in Callers, NEW k \in Keys, ReadHit(c, k) \/ ReadMiss(c, k)
      PROVE  IInv'
  BY <1>1, HitInv, MissInv
<1>2. ASSUME NEW f \in Flights, BackendReads(f) \/ FlightEnds(f) PROVE IInv'
  BY <1>2, BackendReadsInv, FlightEndsInv
<1>3. ASSUME NEW c \in Callers, Deliver(c) PROVE IInv'
  BY <1>3, DeliverInv
<1>4. ASSUME NEW k \in Keys, Expire(k) PROVE IInv'
  BY <1>4, ExpireInv
<1>5. ASSUME NEW c \in Callers, BeginWrite(c) PROVE IInv'
  BY <1>5, BeginWriteInv
<1>6. ASSUME NEW c \in Callers, ApplyWrite(c) PROVE IInv'
  BY <1>6, WriteMovesInv DEF ApplyWrite, WriteUnderWay, IInv, Shape
<1>7. ASSUME NEW c \in Callers, EndWrite(c) PROVE IInv'
  BY <1>7, EndWriteInv
<1>8. ASSUME NEW c \in Callers, FailWrite(c) PROVE IInv'
  BY <1>8, WriteMovesInv DEF FailWrite, WriteUnderWay, IInv, Shape
<1>9. ASSUME ApplyLate PROVE IInv'
  BY <1>9, WriteMovesInv DEF ApplyLate, WriteUnderWay, IInv, Shape
<1>10. ASSUME resetBroker PROVE IInv'
  BY <1>10, ResetInv
<1>11. ASSUME UNCHANGED vars PROVE IInv'
  BY <1>11 DEF vars, IInv, Shape, Bounded, Cached, EntriesSound, FlightsSound, ReadersSound,
               ResultsSound, Current, WriteUnderWay, AnswersAreOwn, StaleOnlyByOverlap
<1>. QED BY <1>1, <1>2, <1>3, <1>4, <1>5, <1>6, <1>7, <1>8, <1>9, <1>10, <1>11 DEF Next

\* The invariant holds in every reachable state.
THEOREM Invariance == Spec => []IInv
  BY InitInv, NextInv, PTL DEF Spec

\* The shapes hold, and the cache stays within its cap, for any cap: also when an answer
\* replaces an entry at the cap (cache.ts:136-137).
THEOREM TypeCorrect == Spec => []TypeOK
<1>1. IInv => TypeOK
  BY DEF IInv, Shape, Bounded, TypeOK
<1>. QED BY <1>1, Invariance, PTL

\* No caller is answered with what was fetched for another key or through a dropped broker
\* stack.
THEOREM OwnAnswers == Spec => []AnswersAreOwn
<1>1. IInv => AnswersAreOwn
  BY DEF IInv
<1>. QED BY <1>1, Invariance, PTL

\* An answer older than the question was fetched while a write was under way.
THEOREM BoundedStaleness == Spec => []StaleOnlyByOverlap
<1>1. IInv => StaleOnlyByOverlap
  BY DEF IInv
<1>. QED BY <1>1, Invariance, PTL
=============================================================================
