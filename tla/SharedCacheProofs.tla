------------------------- MODULE SharedCacheProofs -------------------------
(***************************************************************************)
(* Proofs about SharedCache, for any number of replicas, callers, writes   *)
(* and fills.  The inductive invariant says what a value is worth in each  *)
(* place it can be: a flight is no older than the data it was sent after,  *)
(* a settled answer no older than its caller's floor, and a fill or an     *)
(* entry no older than the last write bumped at its generation, unless it  *)
(* was joined.                                                             *)
(***************************************************************************)
EXTENDS SharedCache, TLAPS

Worth(value, g) == value.joined \/ value.ver >= visible[g]

VisibleIsApplied == visible[0] = 0 /\ \A g \in Gens : visible[g] <= backend

EntriesSound ==
  \A g \in Gens : entry[g] # Absent => g <= gen /\ Worth(entry[g].value, g)

FillsSound == \A f \in fills : f.gen <= gen /\ Worth(f.value, f.gen)

FlightsSound ==
  \A r \in Replicas : flight[r] # NoFlight =>
    /\ flight[r].since <= backend
    /\ flight[r].stage = "read" => flight[r].since <= flight[r].ver

WritersSound ==
  \A c \in Callers : pc[c] \in {"writing", "applied"} => call[c].ver <= backend

ReadersSound ==
  \A c \in Callers : pc[c] \in {"lookup", "waiting", "settled"} =>
    /\ call[c].gen <= gen
    /\ call[c].guessed => call[c].gen = 0
    /\ ~call[c].guessed => call[c].floor = visible[call[c].gen]

SettledSound ==
  \A c \in Callers : pc[c] = "settled" =>
    call[c].value.joined \/ call[c].value.ver >= call[c].floor

IInv ==
  /\ TypeOK /\ VisibleIsApplied
  /\ EntriesSound /\ FillsSound /\ FlightsSound
  /\ WritersSound /\ ReadersSound /\ SettledSound

USE SharedCacheAssumption

\* Zero is a generation, and the shapes are told apart by a field.
LEMMA Shapes ==
  /\ 0 \in Gens /\ Gens \subseteq Nat
  /\ NoCall \notin Reading /\ NoCall \notin Writing
  /\ Absent \notin Entry /\ NoFlight \notin Flight
  /\ NoValue \in Value
  BY DEF Gens, NoCall, Reading, Writing, Absent, Entry, NoFlight, Flight, NoValue, Value

\* What the type invariant says of a value in each of its places.
LEMMA Typed ==
  ASSUME TypeOK
  PROVE  /\ \A g \in Gens : entry[g] # Absent => entry[g].value \in Value
         /\ \A f \in fills : f.gen \in Gens /\ f.value \in Value
         /\ \A r \in Replicas : flight[r] # NoFlight =>
              flight[r].ver \in Nat /\ flight[r].since \in Nat
         /\ \A c \in Callers : pc[c] \in {"lookup", "waiting", "settled"} =>
              /\ call[c].on \in Replicas /\ call[c].gen \in Gens /\ call[c].guessed \in BOOLEAN
              /\ call[c].floor \in Nat /\ call[c].value \in Value
              /\ call[c].value.ver \in Nat /\ call[c].value.joined \in BOOLEAN
         /\ \A c \in Callers : pc[c] \in {"writing", "applied"} => call[c].ver \in Nat
<1>1. \A g \in Gens : entry[g] # Absent => entry[g].value \in Value
  BY DEF TypeOK, Entry
<1>2. \A f \in fills : f.gen \in Gens /\ f.value \in Value
  BY DEF TypeOK
<1>3. \A r \in Replicas : flight[r] # NoFlight =>
        flight[r].ver \in Nat /\ flight[r].since \in Nat
  BY DEF TypeOK, Flight
<1>4. \A c \in Callers : pc[c] \in {"lookup", "waiting", "settled"} => call[c] \in Reading
  BY DEF TypeOK
<1>5. \A c \in Callers : pc[c] \in {"writing", "applied"} => call[c] \in Writing
  BY DEF TypeOK
<1>6. \A v \in Value : v.ver \in Nat /\ v.joined \in BOOLEAN
  BY DEF Value
<1>7. \A x \in Reading : /\ x.on \in Replicas /\ x.gen \in Gens /\ x.guessed \in BOOLEAN
                         /\ x.floor \in Nat /\ x.value \in Value
  BY DEF Reading
<1>8. \A x \in Writing : x.ver \in Nat
  BY DEF Writing
<1>. QED BY <1>1, <1>2, <1>3, <1>4, <1>5, <1>6, <1>7, <1>8

\* The invariant holds initially.
LEMMA InitInv == Init => IInv
<1> SUFFICES ASSUME Init PROVE IInv
  OBVIOUS
<1>1. TypeOK
  BY Shapes DEF Init, TypeOK, Gens
<1>2. VisibleIsApplied
  BY Shapes DEF Init, VisibleIsApplied
<1>3. EntriesSound /\ FillsSound /\ FlightsSound
  BY DEF Init, EntriesSound, FillsSound, FlightsSound
<1>4. WritersSound /\ ReadersSound /\ SettledSound
  BY DEF Init, WritersSound, ReadersSound, SettledSound
<1>. QED BY <1>1, <1>2, <1>3, <1>4 DEF IInv

\* A read takes the generation, or guesses it.
LEMMA TakeInv ==
  ASSUME IInv, NEW c \in Callers, NEW r \in Replicas, TakeGeneration(c, r)
  PROVE  IInv'
<1> USE DEF IInv
<1>0. PICK guessed \in BOOLEAN :
        call' = [call EXCEPT ![c] =
          [kind |-> "read", on |-> r, gen |-> IF guessed THEN 0 ELSE gen, guessed |-> guessed,
           floor |-> visible[gen], value |-> NoValue]]
  BY DEF TakeGeneration
<1> DEFINE new == [kind |-> "read", on |-> r, gen |-> IF guessed THEN 0 ELSE gen,
                   guessed |-> guessed, floor |-> visible[gen], value |-> NoValue]
<1>1. /\ pc[c] = "idle" /\ pc' = [pc EXCEPT ![c] = "lookup"]
      /\ UNCHANGED <<backend, begun, gen, entry, fills, visible, flight>>
  BY DEF TakeGeneration
<1>2. new \in Reading
  BY Shapes DEF Reading, TypeOK
<1>3. /\ new.gen <= gen /\ (new.guessed => new.gen = 0)
      /\ ~new.guessed => new.floor = visible[new.gen]
  BY DEF TypeOK, Gens
<1>4. call' = [call EXCEPT ![c] = new]
  BY <1>0
<1> HIDE DEF new
<1>5. TypeOK'
  BY <1>1, <1>2, <1>4 DEF TypeOK
<1>6. VisibleIsApplied' /\ EntriesSound' /\ FillsSound' /\ FlightsSound'
  BY <1>1 DEF VisibleIsApplied, EntriesSound, FillsSound, FlightsSound, Worth
<1>7. WritersSound' /\ ReadersSound' /\ SettledSound'
  BY <1>1, <1>3, <1>4 DEF WritersSound, ReadersSound, SettledSound, TypeOK
<1>. QED BY <1>5, <1>6, <1>7

\* A caller that is done leaves nothing to be sound about.
LEMMA ReturnInv ==
  ASSUME IInv, NEW c \in Callers, Return(c), UNCHANGED <<backend, gen, visible>>
  PROVE  /\ (call' \in [Callers -> Reading \cup Writing \cup {NoCall}]) /\ pc'[c] = "idle"
         /\ pc' \in [Callers -> {"idle", "lookup", "waiting", "settled", "writing", "applied"}]
         /\ \A d \in Callers :
              /\ pc'[d] = "idle" => call'[d] = NoCall
              /\ pc'[d] \in {"lookup", "waiting", "settled"} => call'[d] \in Reading
              /\ pc'[d] \in {"writing", "applied"} => call'[d] \in Writing
         /\ WritersSound' /\ ReadersSound' /\ SettledSound'
<1> USE DEF IInv
<1>1. \A d \in Callers : d # c => pc'[d] = pc[d] /\ call'[d] = call[d]
  BY DEF Return, TypeOK
<1>2. pc'[c] = "idle" /\ call'[c] = NoCall
  BY DEF Return, TypeOK
<1>3. WritersSound' /\ ReadersSound' /\ SettledSound'
  BY <1>1, <1>2 DEF WritersSound, ReadersSound, SettledSound
<1>. QED BY <1>1, <1>2, <1>3 DEF TypeOK, Return

\* A cache hit.
LEMMA HitInv ==
  ASSUME IInv, NEW c \in Callers, Hit(c)
  PROVE  IInv'
<1> USE DEF IInv
<1>0. Return(c) /\ UNCHANGED <<backend, begun, gen, entry, fills, visible, flight>>
  BY DEF Hit
<1>1. TypeOK'
  BY <1>0, ReturnInv DEF TypeOK
<1>2. VisibleIsApplied' /\ EntriesSound' /\ FillsSound' /\ FlightsSound'
  BY <1>0 DEF VisibleIsApplied, EntriesSound, FillsSound, FlightsSound, Worth
<1>. QED BY <1>0, <1>1, <1>2, ReturnInv

\* A miss joins the read in flight on its replica, or starts one.
LEMMA MissInv ==
  ASSUME IInv, NEW c \in Callers, Miss(c)
  PROVE  IInv'
<1> USE DEF IInv
<1> DEFINE new == [stage |-> "sent", ver |-> 0, since |-> visible[gen]]
<1>1. /\ pc[c] = "lookup" /\ pc' = [pc EXCEPT ![c] = "waiting"]
      /\ flight' = flight \/ flight' = [flight EXCEPT ![call[c].on] = new]
      /\ UNCHANGED <<backend, begun, gen, entry, fills, visible, call>>
  BY DEF Miss
<1>2. call[c].on \in Replicas
  BY <1>1, Typed
<1>3. new \in Flight /\ new.stage = "sent" /\ new.since <= backend
  BY DEF Flight, TypeOK, VisibleIsApplied
<1> HIDE DEF new
<1>4. TypeOK'
  BY <1>1, <1>2, <1>3 DEF TypeOK
<1>5. VisibleIsApplied' /\ EntriesSound' /\ FillsSound'
  BY <1>1 DEF VisibleIsApplied, EntriesSound, FillsSound, Worth
<1>6. FlightsSound'
  BY <1>1, <1>2, <1>3 DEF FlightsSound, TypeOK
<1>7. WritersSound' /\ ReadersSound' /\ SettledSound'
  BY <1>1 DEF WritersSound, ReadersSound, SettledSound, TypeOK
<1>. QED BY <1>4, <1>5, <1>6, <1>7

\* The backend looks at its data.
LEMMA BackendReadsInv ==
  ASSUME IInv, NEW r \in Replicas, BackendReads(r)
  PROVE  IInv'
<1> USE DEF IInv
<1> DEFINE new == [stage |-> "read", ver |-> backend, since |-> flight[r].since]
<1>1. /\ flight[r] # NoFlight /\ flight' = [flight EXCEPT ![r] = new]
      /\ UNCHANGED <<backend, begun, gen, entry, fills, visible, pc, call>>
  BY DEF BackendReads
<1>2. new \in Flight /\ new.since <= backend /\ new.since <= new.ver
  BY <1>1, Typed DEF Flight, TypeOK, FlightsSound
<1> HIDE DEF new
<1>3. TypeOK'
  BY <1>1, <1>2 DEF TypeOK
<1>4. FlightsSound'
  BY <1>1, <1>2 DEF FlightsSound, TypeOK
<1>5. VisibleIsApplied' /\ EntriesSound' /\ FillsSound'
  BY <1>1 DEF VisibleIsApplied, EntriesSound, FillsSound, Worth
<1>6. WritersSound' /\ ReadersSound' /\ SettledSound'
  BY <1>1 DEF WritersSound, ReadersSound, SettledSound
<1>. QED BY <1>3, <1>4, <1>5, <1>6

\* The upstream call settles.
LEMMA SettleInv ==
  ASSUME IInv, NEW r \in Replicas, NEW replied \in BOOLEAN, flight[r] # NoFlight,
         replied => flight[r].stage = "read", Settle(r, replied)
  PROVE  IInv'
<1> USE DEF IInv
<1>1. /\ flight' = [flight EXCEPT ![r] = NoFlight]
      /\ UNCHANGED <<backend, begun, gen, entry, fills, visible>>
  BY DEF Settle
<1>2. DOMAIN call' = Callers /\ DOMAIN pc' = Callers
  BY DEF Settle
<1>3. ASSUME NEW c \in Callers, c \notin WaitingOn(r)
      PROVE  pc'[c] = pc[c] /\ call'[c] = call[c]
  BY <1>3 DEF Settle
<1>4. ASSUME NEW c \in Callers, c \in WaitingOn(r), ~replied
      PROVE  pc'[c] = "idle" /\ call'[c] = NoCall
  BY <1>4 DEF Settle
<1>5. ASSUME NEW c \in Callers, c \in WaitingOn(r), replied
      PROVE  /\ pc'[c] = "settled" /\ call'[c] \in Reading
             /\ call'[c].gen = call[c].gen /\ call'[c].guessed = call[c].guessed
             /\ call'[c].floor = call[c].floor
             /\ call'[c].value.joined \/ call'[c].value.ver >= call'[c].floor
  <2> DEFINE v == [ver |-> flight[r].ver, joined |-> flight[r].since < call[c].floor]
  <2>1. pc'[c] = "settled" /\ call'[c] = [call[c] EXCEPT !.value = v]
    BY <1>5 DEF Settle
  <2>2. pc[c] = "waiting" /\ call[c] \in Reading
    BY <1>5 DEF WaitingOn, TypeOK
  <2>3. v \in Value
    BY Typed DEF Value
  <2>4. v.joined \/ v.ver >= call[c].floor
    <3>1. flight[r].since <= flight[r].ver
      BY <1>5 DEF FlightsSound
    <3>2. flight[r].ver \in Nat /\ flight[r].since \in Nat /\ call[c].floor \in Nat
      BY <2>2, Typed
    <3>3. flight[r].ver >= call[c].floor \/ flight[r].since < call[c].floor
      BY <3>1, <3>2
    <3>4. v.ver = flight[r].ver /\ v.joined = (flight[r].since < call[c].floor)
      OBVIOUS
    <3> HIDE DEF v
    <3>5. CASE flight[r].ver >= call[c].floor
      BY <3>4, <3>5
    <3>6. CASE flight[r].since < call[c].floor
      BY <3>4, <3>6
    <3>. QED BY <3>3, <3>5, <3>6
  <2> HIDE DEF v
  <2>. QED BY <2>1, <2>2, <2>3, <2>4 DEF Reading
<1>6. TypeOK'
  <2>1. flight' \in [Replicas -> Flight \cup {NoFlight}]
    BY <1>1 DEF TypeOK
  <2>2. \A c \in Callers :
          /\ pc'[c] \in {"idle", "lookup", "waiting", "settled", "writing", "applied"}
          /\ call'[c] \in Reading \cup Writing \cup {NoCall}
          /\ pc'[c] = "idle" => call'[c] = NoCall
          /\ pc'[c] \in {"lookup", "waiting", "settled"} => call'[c] \in Reading
          /\ pc'[c] \in {"writing", "applied"} => call'[c] \in Writing
    BY <1>3, <1>4, <1>5 DEF TypeOK
  <2>3. /\ pc' = [c \in Callers |-> pc'[c]] /\ call' = [c \in Callers |-> call'[c]]
    BY DEF Settle
  <2>. QED BY <1>1, <2>1, <2>2, <2>3 DEF TypeOK
<1>7. VisibleIsApplied' /\ EntriesSound' /\ FillsSound'
  BY <1>1 DEF VisibleIsApplied, EntriesSound, FillsSound, Worth
<1>8. FlightsSound'
  BY <1>1 DEF FlightsSound, TypeOK
<1>9. WritersSound'
  BY <1>1, <1>3, <1>4, <1>5 DEF WritersSound
<1>10. ReadersSound'
  <2> SUFFICES ASSUME NEW c \in Callers, pc'[c] \in {"lookup", "waiting", "settled"}
               PROVE  /\ call'[c].gen <= gen
                      /\ call'[c].guessed => call'[c].gen = 0
                      /\ ~call'[c].guessed => call'[c].floor = visible[call'[c].gen]
    BY <1>1 DEF ReadersSound
  <2>1. pc[c] \in {"lookup", "waiting", "settled"}
    BY <1>3, <1>4 DEF WaitingOn
  <2>2. CASE c \notin WaitingOn(r)
    BY <1>3, <2>1, <2>2 DEF ReadersSound
  <2>3. CASE c \in WaitingOn(r)
    <3>1. replied
      BY <1>4, <2>3
    <3>. QED BY <1>5, <2>1, <2>3, <3>1 DEF ReadersSound
  <2>. QED BY <2>2, <2>3
<1>11. SettledSound'
  BY <1>3, <1>4, <1>5 DEF SettledSound
<1>. QED BY <1>6, <1>7, <1>8, <1>9, <1>10, <1>11

\* The answer is delivered, and a `set` is under way.
LEMMA DeliverInv ==
  ASSUME IInv, NEW c \in Callers, Deliver(c)
  PROVE  IInv'
<1> USE DEF IInv
<1> DEFINE new == [gen |-> call[c].gen, value |-> call[c].value]
<1>1. /\ pc[c] = "settled" /\ Return(c) /\ fills' = fills \cup {new}
      /\ UNCHANGED <<backend, begun, gen, entry, visible, flight>>
  BY DEF Deliver
<1>2. new.gen \in Gens /\ new.value \in Value
  BY <1>1, Typed
<1>3. new.gen <= gen
  BY <1>1 DEF ReadersSound
<1>4. Worth(new.value, new.gen)
  <2>1. CASE call[c].guessed
    <3>1. new.gen = 0 /\ visible[new.gen] = 0
      BY <1>1, <2>1 DEF ReadersSound, VisibleIsApplied
    <3>2. new.value.ver \in Nat
      BY <1>1, Typed
    <3>. QED BY <3>1, <3>2 DEF Worth
  <2>2. CASE ~call[c].guessed
    BY <1>1, <2>2 DEF ReadersSound, SettledSound, Worth
  <2>. QED BY <2>1, <2>2
<1>5. new \in [gen : Gens, value : Value]
  BY <1>2
<1> HIDE DEF new
<1>6. TypeOK'
  BY <1>1, <1>5, ReturnInv DEF TypeOK
<1>7. FillsSound'
  BY <1>1, <1>3, <1>4 DEF FillsSound, Worth
<1>8. VisibleIsApplied' /\ EntriesSound' /\ FlightsSound'
  BY <1>1 DEF VisibleIsApplied, EntriesSound, FlightsSound, Worth
<1>. QED BY <1>1, <1>6, <1>7, <1>8, ReturnInv

\* The store serves a `set` or drops it; an entry expires.
LEMMA StoreInv ==
  ASSUME IInv, (\E f \in fills : Fill(f)) \/ (\E g \in Gens : Expire(g))
  PROVE  IInv'
<1> USE DEF IInv
<1>0. UNCHANGED <<backend, begun, gen, visible, flight, pc, call>>
  BY DEF Fill, Expire
<1>1. fills' \subseteq fills
  BY DEF Fill, Expire
<1>2. /\ entry' \in [Gens -> Entry \cup {Absent}]
      /\ \A g \in Gens : entry'[g] # Absent => g <= gen /\ Worth(entry'[g].value, g)
  <2>1. CASE \E g \in Gens : Expire(g)
    BY <2>1 DEF Expire, TypeOK, EntriesSound
  <2>2. CASE \E f \in fills : Fill(f)
    <3>0. PICK f \in fills : Fill(f)
      BY <2>2
    <3> DEFINE new == [live |-> "fresh", value |-> f.value]
    <3>1. entry' = entry \/ entry' = [entry EXCEPT ![f.gen] = new]
      BY <3>0 DEF Fill
    <3>2. f.gen \in Gens /\ f.gen <= gen /\ Worth(f.value, f.gen) /\ f.value \in Value
      BY Typed DEF FillsSound
    <3>3. new \in Entry /\ new.value = f.value
      BY <3>2 DEF Entry
    <3> HIDE DEF new
    <3>. QED BY <3>1, <3>2, <3>3 DEF TypeOK, EntriesSound
  <2>. QED BY <2>1, <2>2
<1>3. TypeOK'
  BY <1>0, <1>1, <1>2 DEF TypeOK
<1>4. EntriesSound' /\ FillsSound'
  BY <1>0, <1>1, <1>2 DEF EntriesSound, FillsSound, Worth
<1>5. VisibleIsApplied' /\ FlightsSound' /\ WritersSound' /\ ReadersSound' /\ SettledSound'
  BY <1>0 DEF VisibleIsApplied, FlightsSound, WritersSound, ReadersSound, SettledSound
<1>. QED BY <1>3, <1>4, <1>5

\* A write begins.
LEMMA BeginWriteInv ==
  ASSUME IInv, NEW c \in Callers, BeginWrite(c)
  PROVE  IInv'
<1> USE DEF IInv
<1> DEFINE new == [kind |-> "write", ver |-> 0]
<1>1. /\ pc[c] = "idle" /\ begun < MaxWrites /\ begun' = begun + 1
      /\ pc' = [pc EXCEPT ![c] = "writing"] /\ call' = [call EXCEPT ![c] = new]
      /\ UNCHANGED <<backend, gen, entry, fills, visible, flight>>
  BY DEF BeginWrite
<1>2. new \in Writing /\ new.ver = 0
  BY DEF Writing
<1> HIDE DEF new
<1>3. begun' \in Gens
  BY <1>1 DEF TypeOK, Gens
<1>4. TypeOK'
  BY <1>1, <1>2, <1>3 DEF TypeOK
<1>5. WritersSound'
  BY <1>1, <1>2 DEF WritersSound, TypeOK
<1>6. ReadersSound' /\ SettledSound'
  BY <1>1 DEF ReadersSound, SettledSound, TypeOK
<1>7. VisibleIsApplied' /\ EntriesSound' /\ FillsSound' /\ FlightsSound'
  BY <1>1 DEF VisibleIsApplied, EntriesSound, FillsSound, FlightsSound, Worth
<1>. QED BY <1>4, <1>5, <1>6, <1>7

\* The backend's data moves on, by a write or behind the cache's back.
LEMMA AdvanceSound ==
  ASSUME IInv, backend' = backend + 1, UNCHANGED <<gen, entry, fills, visible, flight>>
  PROVE  VisibleIsApplied' /\ EntriesSound' /\ FillsSound' /\ FlightsSound'
<1> USE DEF IInv
<1>1. VisibleIsApplied'
  BY DEF VisibleIsApplied, TypeOK
<1>2. EntriesSound' /\ FillsSound'
  BY DEF EntriesSound, FillsSound, Worth
<1>3. FlightsSound'
  BY Typed DEF FlightsSound, TypeOK
<1>. QED BY <1>1, <1>2, <1>3

LEMMA ApplyWriteInv ==
  ASSUME IInv, NEW c \in Callers, ApplyWrite(c)
  PROVE  IInv'
<1> USE DEF IInv
<1>1. /\ pc[c] = "writing" /\ backend' = backend + 1
      /\ pc' = [pc EXCEPT ![c] = "applied"]
      /\ call' = [call EXCEPT ![c] = [call[c] EXCEPT !.ver = backend + 1]]
      /\ UNCHANGED <<begun, gen, entry, fills, visible, flight>>
  BY DEF ApplyWrite
<1>2. call[c] \in Writing
  BY <1>1 DEF TypeOK
<1>3. [call[c] EXCEPT !.ver = backend + 1] \in Writing
  BY <1>2 DEF Writing, TypeOK
<1>4. [call[c] EXCEPT !.ver = backend + 1].ver = backend + 1
  BY <1>2 DEF Writing
<1>5. TypeOK'
  BY <1>1, <1>3 DEF TypeOK
<1>6. WritersSound'
  BY <1>1, <1>4, Typed DEF WritersSound, TypeOK
<1>7. ReadersSound' /\ SettledSound'
  BY <1>1 DEF ReadersSound, SettledSound, TypeOK
<1>. QED BY <1>1, <1>5, <1>6, <1>7, AdvanceSound

LEMMA SilentWriteInv ==
  ASSUME IInv, SilentWrite
  PROVE  IInv'
<1> USE DEF IInv
<1>1. /\ begun < MaxWrites /\ begun' = begun + 1 /\ backend' = backend + 1
      /\ UNCHANGED <<gen, entry, fills, visible, flight, pc, call>>
  BY DEF SilentWrite
<1>2. TypeOK'
  BY <1>1 DEF TypeOK, Gens
<1>3. WritersSound'
  BY <1>1, Typed DEF WritersSound, TypeOK
<1>4. ReadersSound' /\ SettledSound'
  BY <1>1 DEF ReadersSound, SettledSound
<1>. QED BY <1>1, <1>2, <1>3, <1>4, AdvanceSound

\* The write returns, and the generation moves on: nothing is filed under the new one yet.
LEMMA EndWriteInv ==
  ASSUME IInv, NEW c \in Callers, EndWrite(c)
  PROVE  IInv'
<1> USE DEF IInv
<1> DEFINE top == IF call[c].ver > visible[gen] THEN call[c].ver ELSE visible[gen]
<1>1. /\ pc[c] = "applied" /\ gen < MaxWrites /\ gen' = gen + 1
      /\ visible' = [visible EXCEPT ![gen + 1] = top]
      /\ Return(c)
      /\ UNCHANGED <<backend, begun, entry, fills, flight>>
  BY DEF EndWrite, Return
<1>2. top \in Nat /\ top <= backend
  BY <1>1, Typed DEF TypeOK, WritersSound, VisibleIsApplied
<1> HIDE DEF top
<1>3. gen + 1 \in Gens /\ gen \in Nat /\ gen' \in Gens
  BY <1>1 DEF TypeOK, Gens
<1>4. \A g \in Gens : g <= gen => visible'[g] = visible[g] /\ g <= gen'
  BY <1>1, <1>3, Shapes DEF TypeOK
<1>5. \A d \in Callers : d # c => pc'[d] = pc[d] /\ call'[d] = call[d]
  BY <1>1 DEF Return, TypeOK
<1>6. pc'[c] = "idle" /\ call'[c] = NoCall
  BY <1>1 DEF Return, TypeOK
<1>7. TypeOK'
  <2>1. visible' \in [Gens -> Nat]
    BY <1>1, <1>2, <1>3 DEF TypeOK
  <2>. QED BY <1>1, <1>3, <1>5, <1>6, <2>1 DEF TypeOK, Return
<1>8. VisibleIsApplied'
  BY <1>1, <1>2, <1>3, <1>4, Shapes DEF VisibleIsApplied, TypeOK
<1>9. EntriesSound' /\ FillsSound'
  BY <1>1, <1>4, Typed DEF EntriesSound, FillsSound, Worth
<1>10. FlightsSound'
  BY <1>1 DEF FlightsSound
<1>11. WritersSound' /\ SettledSound'
  BY <1>1, <1>5, <1>6 DEF WritersSound, SettledSound
<1>12. ReadersSound'
  BY <1>4, <1>5, <1>6, Typed DEF ReadersSound
<1>. QED BY <1>7, <1>8, <1>9, <1>10, <1>11, <1>12

\* The write failed for its caller.
LEMMA FailWriteInv ==
  ASSUME IInv, NEW c \in Callers, FailWrite(c)
  PROVE  IInv'
<1> USE DEF IInv
<1>0. Return(c) /\ UNCHANGED <<backend, begun, gen, entry, fills, visible, flight>>
  BY DEF FailWrite, Return
<1>1. TypeOK'
  BY <1>0, ReturnInv DEF TypeOK
<1>2. VisibleIsApplied' /\ EntriesSound' /\ FillsSound' /\ FlightsSound'
  BY <1>0 DEF VisibleIsApplied, EntriesSound, FillsSound, FlightsSound, Worth
<1>. QED BY <1>0, <1>1, <1>2, ReturnInv

LEMMA StutterInv ==
  ASSUME IInv, UNCHANGED vars
  PROVE  IInv'
BY DEF IInv, vars, TypeOK, VisibleIsApplied, EntriesSound, FillsSound, FlightsSound,
       WritersSound, ReadersSound, SettledSound, Worth

\* Every step preserves the invariant.
LEMMA NextInv == IInv /\ [Next]_vars => IInv'
<1> SUFFICES ASSUME IInv, [Next]_vars PROVE IInv'
  OBVIOUS
<1>1. CASE \E c \in Callers, r \in Replicas : TakeGeneration(c, r)
  BY <1>1, TakeInv
<1>2. CASE \E c \in Callers : Hit(c) \/ Miss(c) \/ Deliver(c)
  BY <1>2, HitInv, MissInv, DeliverInv
<1>3. CASE \E c \in Callers : BeginWrite(c) \/ ApplyWrite(c) \/ EndWrite(c) \/ FailWrite(c)
  BY <1>3, BeginWriteInv, ApplyWriteInv, EndWriteInv, FailWriteInv
<1>4. CASE \E r \in Replicas : BackendReads(r)
  BY <1>4, BackendReadsInv
<1>5. CASE \E r \in Replicas : FlightEnds(r)
  BY <1>5, SettleInv DEF FlightEnds
<1>6. CASE (\E f \in fills : Fill(f)) \/ (\E g \in Gens : Expire(g))
  BY <1>6, StoreInv
<1>7. CASE SilentWrite
  BY <1>7, SilentWriteInv
<1>8. CASE UNCHANGED vars
  BY <1>8, StutterInv
<1>. QED BY <1>1, <1>2, <1>3, <1>4, <1>5, <1>6, <1>7, <1>8 DEF Next

\* The inductive invariant holds throughout.
THEOREM Invariance == Spec => []IInv
BY InitInv, NextInv, PTL DEF Spec

\* The store, the flights and the callers keep their shapes, on any fleet.
THEOREM TypeCorrect == Spec => []TypeOK
<1>1. IInv => TypeOK
  BY DEF IInv
<1>. QED BY <1>1, Invariance, PTL

\* "Every replica's next read misses" after a bump (shared-cache.ts:18-19), on any fleet: an
\* answer older than the last write whose bump had landed when the read began comes from a
\* guessed generation or out of an upstream read that was sent before that bump.
THEOREM StalenessIsJoined == Spec => []StaleOnlyByJoining
<1>1. IInv => StaleOnlyByJoining
  <2> SUFFICES ASSUME IInv, NEW c \in Callers, NEW value \in AtHand(c)
               PROVE  value.ver >= call[c].floor \/ value.joined \/ call[c].guessed
    BY DEF StaleOnlyByJoining
  <2>1. CASE pc[c] = "settled" /\ value = call[c].value
    BY <2>1 DEF IInv, SettledSound
  <2>2. CASE /\ pc[c] = "lookup" /\ entry[call[c].gen] # Absent
             /\ value = entry[call[c].gen].value
    <3>1. call[c].gen \in Gens
      BY <2>2, Typed DEF IInv
    <3>. QED BY <2>2, <3>1 DEF IInv, EntriesSound, ReadersSound, Worth
  <2>. QED BY <2>1, <2>2 DEF AtHand
<1>. QED BY <1>1, Invariance, PTL
=============================================================================
