-------------------------- MODULE AuditFleetProofs --------------------------
(***************************************************************************)
(* Proofs about AuditFleet, for any fleet, events and limits.  The one     *)
(* idea is that whatever was read of the chain stays a prefix of it.       *)
(* The last part proves that the fleet implements AuditLog.                *)
(***************************************************************************)
EXTENDS AuditFleet, FiniteSetTheorems, TLAPS

IsStartOf(s, t) == Len(s) <= Len(t) /\ SubSeq(t, 1, Len(s)) = s

\* A sealing has read a start of the chain, and the chain had grown by one per lost attempt then.
SealingsSound ==
  \A e \in Events :
    /\ pc[e] = "reading" => Len(head) >= seal[e].from + seal[e].tries
    /\ pc[e] \in {"linking", "cut"} =>
         IsStartOf(seal[e].read, head) /\ Len(seal[e].read) >= seal[e].from + seal[e].tries
    /\ pc[e] = "exhausted" => Len(head) >= seal[e].from + MaxAttempts

\* What was emitted is what its sealing linked.
EmittedSound ==
  \A m \in emitted :
    /\ pc[m.ev] = "sealed" /\ m = [ev |-> m.ev, on |-> seal[m.ev].on, prev |-> seal[m.ev].read]
    /\ IsStartOf(Append(m.prev, m.ev), head)

IInv == TypeOK /\ SealingsSound /\ EmittedSound

USE FleetAssumption

-----------------------------------------------------------------------------
\* Starts of sequences.
LEMMA StartOfItself == \A s \in Chain : IsStartOf(s, s)
BY DEF IsStartOf, Chain

LEMMA StartOfLonger ==
  ASSUME NEW s \in Chain, NEW t \in Chain, NEW e \in Events, IsStartOf(s, t)
  PROVE  IsStartOf(s, Append(t, e))
<1>1. /\ Append(t, e) \in Chain /\ Len(Append(t, e)) = Len(t) + 1
      /\ \A i \in 1..Len(t) : Append(t, e)[i] = t[i]
  BY DEF Chain
<1>2. Len(s) \in Nat /\ Len(t) \in Nat
  BY DEF Chain
<1>3. \A i \in 1..Len(s) : SubSeq(Append(t, e), 1, Len(s))[i] = SubSeq(t, 1, Len(s))[i]
  BY <1>1, <1>2 DEF IsStartOf, Chain
<1>4. SubSeq(Append(t, e), 1, Len(s)) = SubSeq(t, 1, Len(s))
  BY <1>1, <1>2, <1>3 DEF IsStartOf, Chain
<1>. QED BY <1>1, <1>2, <1>4 DEF IsStartOf

LEMMA ShorterStart ==
  ASSUME NEW s \in Chain, NEW t \in Chain, IsStartOf(s, t), s # t
  PROVE  Len(s) < Len(t)
BY DEF IsStartOf, Chain

LEMMA StartAndNext ==
  ASSUME NEW s \in Chain, NEW t \in Chain, NEW e \in Events, IsStartOf(Append(s, e), t)
  PROVE  Len(s) < Len(t) /\ SubSeq(t, 1, Len(s)) = s /\ t[Len(s) + 1] = e
<1> DEFINE a == Append(s, e)
<1>1. a \in Chain /\ Len(a) = Len(s) + 1 /\ a[Len(s) + 1] = e /\ \A i \in 1..Len(s) : a[i] = s[i]
  BY DEF Chain
<1>2. Len(s) \in Nat /\ Len(t) \in Nat /\ Len(s) + 1 <= Len(t)
  BY <1>1 DEF IsStartOf, Chain
<1>3. \A i \in 1..(Len(s) + 1) : t[i] = SubSeq(t, 1, Len(s) + 1)[i]
  BY <1>2 DEF Chain
<1>4. \A i \in 1..(Len(s) + 1) : t[i] = a[i]
  BY <1>1, <1>3 DEF IsStartOf
<1>5. SubSeq(t, 1, Len(s)) = s
  BY <1>1, <1>2, <1>4 DEF Chain
<1>. QED BY <1>1, <1>2, <1>4, <1>5

\* What sequences hold.
LEMMA RangeType == \A s \in Chain : Range(s) \subseteq Events
BY DEF Range, Chain

LEMMA AppendRange ==
  ASSUME NEW s \in Chain, NEW e \in Events
  PROVE  Range(Append(s, e)) = Range(s) \cup {e}
<1>1. /\ DOMAIN Append(s, e) = 1..(Len(s) + 1) /\ Append(s, e)[Len(s) + 1] = e
      /\ \A i \in 1..Len(s) : Append(s, e)[i] = s[i]
      /\ DOMAIN s = 1..Len(s) /\ Len(s) \in Nat
  BY DEF Chain
<1>2. \A i \in 1..(Len(s) + 1) : i \in 1..Len(s) \/ i = Len(s) + 1
  BY <1>1
<1>3. 1..Len(s) \subseteq 1..(Len(s) + 1) /\ Len(s) + 1 \in 1..(Len(s) + 1)
  BY <1>1
<1>. QED BY <1>1, <1>2, <1>3 DEF Range

LEMMA BackRange ==
  ASSUME NEW s \in Chain, NEW t \in Chain
  PROVE  /\ Reverse(s) \o t \in Chain /\ Len(Reverse(s) \o t) = Len(s) + Len(t)
         /\ Range(Reverse(s) \o t) = Range(s) \cup Range(t)
<1>3. Reverse(s) \in Chain /\ Len(Reverse(s)) = Len(s)
  BY DEF Reverse, Chain
<1>4. Range(Reverse(s)) = Range(s)
  <2>1. \A i \in 1..Len(s) : Len(s) - i + 1 \in 1..Len(s) /\ Reverse(s)[Len(s) - i + 1] = s[i]
    BY DEF Reverse, Chain
  <2>2. \A i \in 1..Len(s) : Reverse(s)[i] = s[Len(s) - i + 1]
    BY DEF Reverse, Chain
  <2>3. DOMAIN s = 1..Len(s) /\ DOMAIN Reverse(s) = 1..Len(s)
    BY <1>3 DEF Chain
  <2>. QED BY <2>1, <2>2, <2>3 DEF Range
<1>5. \A u, v \in Chain : /\ u \o v \in Chain /\ Len(u \o v) = Len(u) + Len(v)
                          /\ Range(u \o v) = Range(u) \cup Range(v)
  <2> SUFFICES ASSUME NEW u \in Chain, NEW v \in Chain
               PROVE  /\ u \o v \in Chain /\ Len(u \o v) = Len(u) + Len(v)
                      /\ Range(u \o v) = Range(u) \cup Range(v)
    OBVIOUS
  <2>1. u \o v \in Chain /\ Len(u \o v) = Len(u) + Len(v)
    BY DEF Chain
  <2>2. \A i \in 1..Len(u) : i \in 1..Len(u \o v) /\ (u \o v)[i] = u[i]
    BY DEF Chain
  <2>3. \A i \in 1..Len(v) : Len(u) + i \in 1..Len(u \o v) /\ (u \o v)[Len(u) + i] = v[i]
    BY DEF Chain
  <2>4. \A i \in 1..Len(u \o v) :
          i \in 1..Len(u) \/ \E j \in 1..Len(v) : i = Len(u) + j
    <3> SUFFICES ASSUME NEW i \in 1..Len(u \o v), i \notin 1..Len(u)
                 PROVE  \E j \in 1..Len(v) : i = Len(u) + j
      OBVIOUS
    <3>1. i - Len(u) \in 1..Len(v) /\ i = Len(u) + (i - Len(u))
      BY <2>1 DEF Chain
    <3>. QED BY <3>1
  <2>5. DOMAIN (u \o v) = 1..Len(u \o v) /\ DOMAIN u = 1..Len(u) /\ DOMAIN v = 1..Len(v)
    BY <2>1 DEF Chain
  <2>6. Range(u \o v) \subseteq Range(u) \cup Range(v)
    BY <2>2, <2>3, <2>4, <2>5, SMTT(30) DEF Range
  <2>7. Range(u) \cup Range(v) \subseteq Range(u \o v)
    BY <2>2, <2>3, <2>5 DEF Range
  <2>. QED BY <2>1, <2>6, <2>7
<1>. QED BY <1>3, <1>4, <1>5

-----------------------------------------------------------------------------
\* The sink takes an event in, or drops it: the buffer keeps to its cap either way.
LEMMA EnqueueKeeps ==
  ASSUME TypeOK, NEW r \in Replicas, NEW e \in Events, up[r], Enqueue(r, e)
  PROVE  /\ buffer' \in [Replicas -> Chain]
         /\ \A q \in Replicas : Len(buffer'[q]) <= MaxBuffer /\ (buffer'[q] # <<>> => up[q])
         /\ posts' \subseteq Post /\ \A p \in posts' : up[p.on]
         /\ gone' \subseteq Events /\ gone \subseteq gone' /\ posts \subseteq posts'
         /\ \A q \in Replicas : q # r => buffer'[q] = buffer[q]
         /\ \A x \in Range(buffer[r]) \cup {e} :
              x \in gone' \cup Range(buffer'[r]) \/ \E p \in posts' : p.on = r /\ x \in Range(p.batch)
<1> DEFINE longer == Append(buffer[r], e)
<1>1. buffer[r] \in Chain /\ longer \in Chain /\ Len(longer) = Len(buffer[r]) + 1
  BY DEF TypeOK, Chain
<1>2. Range(longer) = Range(buffer[r]) \cup {e}
  BY <1>1, AppendRange
<1>3. <<>> \in Chain /\ Len(<<>>) = 0 /\ Len(buffer[r]) \in Nat
  BY <1>1 DEF Chain
<1>4. CASE Len(buffer[r]) >= MaxBuffer
  BY <1>4 DEF Enqueue, TypeOK
<1>5. CASE ~(Len(buffer[r]) >= MaxBuffer) /\ Len(buffer[r]) + 1 >= BatchSize
  <2>1. /\ posts' = posts \cup {[on |-> r, batch |-> longer]}
        /\ buffer' = [buffer EXCEPT ![r] = <<>>] /\ gone' = gone
    BY <1>5 DEF Enqueue
  <2>2. [on |-> r, batch |-> longer] \in Post
    BY <1>1 DEF Post
  <2> HIDE DEF longer
  <2>. QED BY <1>2, <1>3, <2>1, <2>2, SMTT(30) DEF TypeOK
<1>6. CASE ~(Len(buffer[r]) >= MaxBuffer) /\ ~(Len(buffer[r]) + 1 >= BatchSize)
  <2>1. buffer' = [buffer EXCEPT ![r] = longer] /\ posts' = posts /\ gone' = gone
    BY <1>6 DEF Enqueue
  <2>2. Len(longer) <= MaxBuffer
    BY <1>1, <1>3, <1>6
  <2> HIDE DEF longer
  <2>. QED BY <1>1, <1>2, <2>1, <2>2 DEF TypeOK
<1>. QED BY <1>4, <1>5, <1>6

\* What is put back after a failed post fits, and is the batch but for what is dropped.
LEMMA PostFailsKeeps ==
  ASSUME TypeOK, NEW p \in posts, PostFails(p)
  PROVE  /\ p \in Post /\ up[p.on]
         /\ buffer' \in [Replicas -> Chain]
         /\ \A q \in Replicas : Len(buffer'[q]) <= MaxBuffer /\ (buffer'[q] # <<>> => up[q])
         /\ gone' \subseteq Events /\ gone \subseteq gone' /\ posts' = posts \ {p}
         /\ \A q \in Replicas : q # p.on => buffer'[q] = buffer[q]
         /\ Range(buffer[p.on]) \cup Range(p.batch) \subseteq gone' \cup Range(buffer'[p.on])
<1>1. p \in Post /\ up[p.on] /\ p.on \in Replicas /\ p.batch \in Chain /\ buffer[p.on] \in Chain
  BY DEF TypeOK, Post
<1>2. Len(buffer[p.on]) \in Nat /\ Len(buffer[p.on]) <= MaxBuffer /\ Len(p.batch) \in Nat
  BY <1>1 DEF TypeOK, Chain
<1> DEFINE n == IF Len(p.batch) <= Room(p.on) THEN Len(p.batch) ELSE Room(p.on)
           kept == SubSeq(p.batch, 1, n)
           back == Reverse(kept) \o buffer[p.on]
<1>3. n \in 0..Len(p.batch) /\ n + Len(buffer[p.on]) <= MaxBuffer
  <2> DEFINE l == Len(p.batch)
             b == Len(buffer[p.on])
  <2>1. Room(p.on) = MaxBuffer - b /\ MaxBuffer \in Nat /\ l \in Nat /\ b \in Nat /\ b <= MaxBuffer
    BY <1>2 DEF Room
  <2>2. n = IF l <= MaxBuffer - b THEN l ELSE MaxBuffer - b
    BY <2>1
  <2> HIDE DEF l, b, n
  <2>3. n \in 0..l /\ n + b <= MaxBuffer
    BY <2>1, <2>2
  <2>. QED BY <2>3 DEF l, b
<1> HIDE DEF n
<1>4. kept \in Chain /\ Len(kept) = n
  BY <1>1, <1>3 DEF Chain
<1> HIDE DEF kept
<1>5. /\ back \in Chain /\ Len(back) = n + Len(buffer[p.on])
      /\ Range(back) = Range(kept) \cup Range(buffer[p.on])
  BY <1>1, <1>4, BackRange
<1>6. Range(p.batch) \subseteq Events
  BY <1>1, RangeType
<1>7. /\ buffer' = [buffer EXCEPT ![p.on] = back] /\ posts' = posts \ {p}
      /\ gone' = gone \cup (Range(p.batch) \ Range(kept))
  BY DEF PostFails, kept, n
<1> HIDE DEF back
<1>. QED BY <1>1, <1>3, <1>5, <1>6, <1>7 DEF TypeOK

Stages == {"new", "reading", "linking", "sealed", "exhausted", "cut", "failed"}

LEMMA EndedStages ==
  /\ Ended("reading") = "failed" /\ Ended("linking") = "cut"
  /\ \A stage \in Stages \ {"reading", "linking"} : Ended(stage) = stage
BY DEF Ended, Stages

\* Where a sealing may be after it ended early.
LEMMA EndedType == \A stage \in Stages : Ended(stage) \in Stages \ {"reading", "linking"}
<1>1. "failed" \in Stages \ {"reading", "linking"} /\ "cut" \in Stages \ {"reading", "linking"}
  BY DEF Stages
<1>. QED BY <1>1, EndedStages

LEMMA InitType == Init => TypeOK
BY DEF Init, TypeOK, Chain

\* Every step keeps the shapes and the cap.
LEMMA NextType == TypeOK /\ [Next]_vars => TypeOK'
<1> SUFFICES ASSUME TypeOK, [Next]_vars PROVE TypeOK'
  OBVIOUS
<1>1. ASSUME NEW e \in Events, NEW r \in Replicas, Record(e, r) PROVE TypeOK'
  <2>1. [on |-> r, read |-> <<>>, tries |-> 0, from |-> Len(head)] \in Sealing
    BY DEF Sealing, Chain, TypeOK
  <2>. QED BY <1>1, <2>1 DEF Record, TypeOK, sink
<1>2. ASSUME NEW e \in Events, SealStep(e) PROVE TypeOK'
  <2>1. /\ pc[e] \in {"reading", "linking", "cut"} /\ seal[e] \in Sealing
        /\ pc[e] # "cut" => up[seal[e].on]
    BY <1>2 DEF SealStep, ReadHead, WinHead, ServeUnheard, LoseHead, FailSeal, TypeOK
  <2>2. seal[e].on \in Replicas /\ seal[e].read \in Chain /\ seal[e].tries \in Nat
    BY <2>1 DEF Sealing
  <2>3. Append(head, e) \in Chain
    BY DEF TypeOK, Chain
  <2>4. CASE ReadHead(e)
    <3>1. [seal[e] EXCEPT !.read = head] \in Sealing /\ [seal[e] EXCEPT !.read = head].on = seal[e].on
      BY <2>1 DEF Sealing, TypeOK
    <3>. QED BY <2>1, <2>4, <3>1 DEF ReadHead, TypeOK, sink
  <2>5. CASE LoseHead(e)
    <3>1. /\ [seal[e] EXCEPT !.tries = @ + 1] \in Sealing
          /\ [seal[e] EXCEPT !.tries = @ + 1].on = seal[e].on
      BY <2>1, <2>2 DEF Sealing
    <3>. QED BY <2>1, <2>5, <3>1 DEF LoseHead, TypeOK, sink
  <2>6. CASE FailSeal(e)
    <3>1. Ended(pc[e]) \in Stages \ {"reading", "linking"}
      BY <2>6, EndedType DEF FailSeal, Stages
    <3>. QED BY <2>1, <2>6, <3>1 DEF FailSeal, TypeOK, sink, Stages
  <2>7. CASE WinHead(e)
    <3>1. [ev |-> e, on |-> seal[e].on, prev |-> seal[e].read] \in Sealed
      BY <2>2 DEF Sealed
    <3>2. Enqueue(seal[e].on, e)
      BY <2>7 DEF WinHead, Emit
    <3>3. /\ buffer' \in [Replicas -> Chain]
          /\ \A q \in Replicas : Len(buffer'[q]) <= MaxBuffer /\ (buffer'[q] # <<>> => up[q])
          /\ posts' \subseteq Post /\ (\A p \in posts' : up[p.on]) /\ gone' \subseteq Events
      BY <2>1, <2>2, <2>7, <3>2, EnqueueKeeps DEF WinHead
    <3>4. emitted' \subseteq Sealed
      BY <2>7, <3>1 DEF WinHead, Emit, TypeOK
    <3>. QED BY <2>3, <2>7, <3>3, <3>4 DEF WinHead, TypeOK
  <2>8. CASE ServeUnheard(e)
    BY <2>1, <2>3, <2>8 DEF ServeUnheard, TypeOK, sink
  <2>. QED BY <1>2, <2>4, <2>5, <2>6, <2>7, <2>8 DEF SealStep
<1>3. ASSUME NEW r \in Replicas, Flush(r) PROVE TypeOK'
  <2>1. buffer[r] \in Chain /\ up[r] /\ [on |-> r, batch |-> buffer[r]] \in Post
    BY <1>3 DEF Flush, TypeOK, Post
  <2>. QED BY <1>3, <2>1 DEF Flush, TypeOK, Chain
<1>4. ASSUME NEW r \in Replicas, Crash(r) PROVE TypeOK'
  <2>1. Range(buffer[r]) \subseteq Events /\ \A p \in posts : Range(p.batch) \subseteq Events
    BY RangeType DEF TypeOK, Post
  <2>2. gone' \subseteq Events
    BY <1>4, <2>1 DEF Crash, TypeOK
  <2>3. /\ buffer' \in [Replicas -> Chain]
        /\ \A q \in Replicas : Len(buffer'[q]) <= MaxBuffer /\ (buffer'[q] # <<>> => up'[q])
        /\ posts' \subseteq Post /\ \A p \in posts' : up'[p.on]
    BY <1>4 DEF Crash, TypeOK, Chain, Post
  <2>4. /\ up' \in [Replicas -> BOOLEAN]
        /\ pc' \in [Events -> Stages]
    BY <1>4, EndedType DEF Crash, TypeOK, Stages
  <2>5. \A e \in Events :
          /\ pc'[e] # "new" => seal[e] \in Sealing
          /\ pc'[e] \in {"reading", "linking"} => up'[seal[e].on]
    <3> SUFFICES ASSUME NEW e \in Events
                 PROVE  /\ pc'[e] # "new" => seal[e] \in Sealing
                        /\ pc'[e] \in {"reading", "linking"} => up'[seal[e].on]
      OBVIOUS
    <3>1. pc[e] \in Stages
      BY DEF TypeOK, Stages
    <3>2. CASE pc[e] # "new" /\ seal[e].on = r
      <4>1. pc'[e] = Ended(pc[e])
        BY <1>4, <3>2 DEF Crash
      <4>. QED BY <3>1, <3>2, <4>1, EndedType DEF TypeOK
    <3>3. CASE ~(pc[e] # "new" /\ seal[e].on = r)
      <4>1. pc'[e] = pc[e]
        BY <1>4, <3>3 DEF Crash
      <4>. QED BY <1>4, <3>3, <4>1 DEF Crash, TypeOK, Sealing
    <3>. QED BY <3>2, <3>3
  <2>. QED BY <1>4, <2>2, <2>3, <2>4, <2>5 DEF Crash, TypeOK, Stages
<1>5. ASSUME NEW r \in Replicas, Restart(r) PROVE TypeOK'
  BY <1>5 DEF Restart, TypeOK, sink, Post, Sealing
<1>6. ASSUME NEW p \in posts, PostSucceeds(p) PROVE TypeOK'
  <2>1. Range(p.batch) \subseteq Events
    BY RangeType DEF TypeOK, Post
  <2>. QED BY <1>6, <2>1 DEF PostSucceeds, TypeOK
<1>7. ASSUME NEW p \in posts, PostFails(p) PROVE TypeOK'
  <2>1. Range(p.batch) \subseteq Events
    BY RangeType DEF TypeOK, Post
  <2>2. collected' \subseteq Events /\ UNCHANGED <<up, head, pc, seal, emitted>>
    BY <1>7, <2>1 DEF PostFails, TypeOK
  <2>. QED BY <1>7, <2>2, PostFailsKeeps DEF TypeOK
<1>8. CASE UNCHANGED vars
  BY <1>8 DEF vars, TypeOK
<1>. QED BY <1>1, <1>2, <1>3, <1>4, <1>5, <1>6, <1>7, <1>8 DEF Next

-----------------------------------------------------------------------------
LEMMA InitInv == Init => IInv
<1> SUFFICES ASSUME Init PROVE SealingsSound /\ EmittedSound
  BY InitType DEF IInv
<1>. QED BY DEF Init, SealingsSound, EmittedSound

\* A step that leaves the chain and the sealings alone, but for those a crash ends.
LEMMA Elsewhere ==
  ASSUME IInv, UNCHANGED <<head, seal, emitted>>,
         \A e \in Events : pc'[e] \in {pc[e], Ended(pc[e])}
  PROVE  SealingsSound' /\ EmittedSound'
<1>0. \A e \in Events :
        /\ pc[e] \in Stages /\ (pc[e] = "sealed" => pc'[e] = "sealed")
        /\ pc'[e] \in {"reading", "linking", "exhausted"} => pc'[e] = pc[e]
        /\ pc'[e] = "cut" => pc[e] \in {"linking", "cut"}
  <2> SUFFICES ASSUME NEW e \in Events
               PROVE  /\ pc[e] \in Stages /\ (pc[e] = "sealed" => pc'[e] = "sealed")
                      /\ pc'[e] \in {"reading", "linking", "exhausted"} => pc'[e] = pc[e]
                      /\ pc'[e] = "cut" => pc[e] \in {"linking", "cut"}
    OBVIOUS
  <2>1. pc[e] \in Stages
    BY DEF IInv, TypeOK, Stages
  <2>. QED BY <2>1, EndedStages
<1>1. SealingsSound'
  BY <1>0 DEF IInv, SealingsSound
<1>2. \A m \in emitted : m.ev \in Events
  BY DEF IInv, TypeOK, Sealed
<1>. QED BY <1>0, <1>1, <1>2 DEF IInv, EmittedSound

LEMMA NextInv == IInv /\ [Next]_vars => IInv'
<1> SUFFICES ASSUME IInv, [Next]_vars PROVE SealingsSound' /\ EmittedSound'
  BY NextType DEF IInv
<1> USE DEF IInv
<1>0. /\ head \in Chain /\ Len(head) \in Nat
      /\ \A m \in emitted : m.ev \in Events /\ Append(m.prev, m.ev) \in Chain
  BY DEF TypeOK, Sealed, Chain
<1>1. ASSUME NEW e \in Events, NEW r \in Replicas, Record(e, r)
      PROVE  SealingsSound' /\ EmittedSound'
  <2>1. \A f \in Events \ {e} : pc'[f] = pc[f] /\ seal'[f] = seal[f]
    BY <1>1 DEF Record, TypeOK
  <2>2. /\ pc[e] = "new" /\ pc'[e] = "reading" /\ seal'[e].tries = 0 /\ seal'[e].from = Len(head)
        /\ head' = head /\ emitted' = emitted
    BY <1>1 DEF Record, TypeOK, sink
  <2>3. SealingsSound'
    BY <1>0, <2>1, <2>2 DEF SealingsSound
  <2>. QED BY <1>0, <2>1, <2>2, <2>3 DEF EmittedSound
<1>2. ASSUME NEW e \in Events, SealStep(e) PROVE SealingsSound' /\ EmittedSound'
  <2>1. pc[e] \in {"reading", "linking", "cut"} /\ seal[e] \in Sealing
    BY <1>2 DEF SealStep, ReadHead, WinHead, ServeUnheard, LoseHead, FailSeal, TypeOK
  <2>2. /\ seal[e].on \in Replicas /\ seal[e].read \in Chain /\ Len(seal[e].read) \in Nat
        /\ seal[e].tries \in Nat /\ seal[e].from \in Nat
    BY <2>1 DEF Sealing, Chain
  <2>3. \A f \in Events \ {e} : pc'[f] = pc[f] /\ seal'[f] = seal[f]
    BY <1>2 DEF SealStep, ReadHead, WinHead, ServeUnheard, LoseHead, FailSeal, TypeOK
  <2>4. \A m \in emitted : m.ev # e
    BY <2>1 DEF EmittedSound
  <2>5. \A s \in Chain : IsStartOf(s, head) => IsStartOf(s, Append(head, e))
    BY <1>0, StartOfLonger
  <2>6. Append(head, e) \in Chain /\ Len(Append(head, e)) = Len(head) + 1
    BY <1>0 DEF Chain
  <2>7. ASSUME head' \in {head, Append(head, e)} PROVE
          /\ \A s \in Chain : IsStartOf(s, head) => IsStartOf(s, head')
          /\ Len(head') \in Nat /\ Len(head') >= Len(head)
    <3>1. CASE head' = head
      BY <1>0, <3>1
    <3>2. CASE head' = Append(head, e)
      BY <1>0, <2>5, <2>6, <3>2
    <3>. QED BY <2>7, <3>1, <3>2
  <2>8. ASSUME head' \in {head, Append(head, e)} PROVE
          /\ \A m \in emitted : /\ pc'[m.ev] = "sealed" /\ IsStartOf(Append(m.prev, m.ev), head')
                              /\ m = [ev |-> m.ev, on |-> seal'[m.ev].on, prev |-> seal'[m.ev].read]
          /\ \A f \in Events \ {e} :
               /\ pc'[f] = "reading" => Len(head') >= seal'[f].from + seal'[f].tries
               /\ pc'[f] \in {"linking", "cut"} =>
                    IsStartOf(seal'[f].read, head') /\ Len(seal'[f].read) >= seal'[f].from + seal'[f].tries
               /\ pc'[f] = "exhausted" => Len(head') >= seal'[f].from + MaxAttempts
    <3>1. \A f \in Events : pc[f] \in {"reading", "linking", "cut", "exhausted"} =>
            seal[f].read \in Chain /\ seal[f].from \in Nat /\ seal[f].tries \in Nat
      BY DEF TypeOK, Sealing
    <3>2. \A f \in Events \ {e} :
               /\ pc'[f] = "reading" => Len(head') >= seal'[f].from + seal'[f].tries
               /\ pc'[f] \in {"linking", "cut"} =>
                    IsStartOf(seal'[f].read, head') /\ Len(seal'[f].read) >= seal'[f].from + seal'[f].tries
               /\ pc'[f] = "exhausted" => Len(head') >= seal'[f].from + MaxAttempts
      <4> SUFFICES ASSUME NEW f \in Events \ {e}, pc[f] \in {"reading", "linking", "cut", "exhausted"}
                   PROVE  /\ pc[f] = "reading" => Len(head') >= seal[f].from + seal[f].tries
                          /\ pc[f] \in {"linking", "cut"} =>
                               /\ IsStartOf(seal[f].read, head')
                               /\ Len(seal[f].read) >= seal[f].from + seal[f].tries
                          /\ pc[f] = "exhausted" => Len(head') >= seal[f].from + MaxAttempts
        BY <2>3
      <4>1. Len(head') \in Nat /\ Len(head') >= Len(head) /\ MaxAttempts \in Nat
        BY <2>7, <2>8
      <4>2. seal[f].from + seal[f].tries \in Nat /\ seal[f].from + MaxAttempts \in Nat
        BY <3>1, <4>1
      <4>3. pc[f] \in {"linking", "cut"} => IsStartOf(seal[f].read, head')
        BY <2>7, <2>8, <3>1 DEF SealingsSound
      <4>4. /\ pc[f] = "reading" => Len(head) >= seal[f].from + seal[f].tries
            /\ pc[f] \in {"linking", "cut"} => Len(seal[f].read) >= seal[f].from + seal[f].tries
            /\ pc[f] = "exhausted" => Len(head) >= seal[f].from + MaxAttempts
        BY DEF SealingsSound
      <4>. QED BY <1>0, <4>1, <4>2, <4>3, <4>4
    <3>3. \A m \in emitted : IsStartOf(Append(m.prev, m.ev), head')
      BY <1>0, <2>7, <2>8 DEF EmittedSound
    <3>. QED BY <1>0, <2>3, <2>4, <3>2, <3>3 DEF EmittedSound
  <2>9. CASE ReadHead(e)
    <3>1. /\ head' = head /\ emitted' = emitted /\ pc'[e] = "linking" /\ pc[e] = "reading"
          /\ seal'[e] = [seal[e] EXCEPT !.read = head]
      BY <2>9 DEF ReadHead, TypeOK, sink
    <3>2. /\ seal'[e].read = head /\ seal'[e].tries = seal[e].tries /\ seal'[e].from = seal[e].from
      BY <2>1, <3>1 DEF Sealing
    <3>3. SealingsSound'
      BY <1>0, <2>8, <3>1, <3>2, StartOfItself DEF SealingsSound
    <3>. QED BY <2>8, <3>1, <3>3 DEF EmittedSound
  <2>10. CASE LoseHead(e)
    <3>1. /\ head' = head /\ emitted' = emitted /\ pc[e] = "linking" /\ head # seal[e].read
          /\ seal'[e] = [seal[e] EXCEPT !.tries = @ + 1]
          /\ pc'[e] = IF seal'[e].tries < MaxAttempts THEN "reading" ELSE "exhausted"
      BY <2>10 DEF LoseHead, TypeOK, sink
    <3>2. seal'[e].tries = seal[e].tries + 1 /\ seal'[e].from = seal[e].from
      BY <2>1, <3>1 DEF Sealing
    <3>3. Len(seal[e].read) < Len(head) /\ Len(seal[e].read) >= seal[e].from + seal[e].tries
      BY <1>0, <2>2, <3>1, ShorterStart DEF SealingsSound
    <3>4. /\ pc'[e] = "reading" => Len(head') >= seal'[e].from + seal'[e].tries
          /\ pc'[e] = "exhausted" => Len(head') >= seal'[e].from + MaxAttempts
          /\ pc'[e] \notin {"linking", "cut"}
      <4>1. Len(head) >= seal[e].from + seal[e].tries + 1
        BY <1>0, <2>2, <3>3
      <4>2. CASE seal'[e].tries < MaxAttempts
        BY <1>0, <2>2, <3>1, <3>2, <4>1, <4>2
      <4>3. CASE ~(seal'[e].tries < MaxAttempts)
        BY <1>0, <2>2, <3>1, <3>2, <4>1, <4>3
      <4>. QED BY <4>2, <4>3
    <3>5. SealingsSound'
      BY <2>8, <3>1, <3>4 DEF SealingsSound
    <3>. QED BY <2>8, <3>1, <3>5 DEF EmittedSound
  <2>11. CASE FailSeal(e)
    <3>1. /\ UNCHANGED <<head, seal, emitted>>
          /\ \A f \in Events : pc'[f] \in {pc[f], Ended(pc[f])}
      BY <2>11 DEF FailSeal, TypeOK, sink
    <3>. QED BY <3>1, Elsewhere
  <2>13. CASE ServeUnheard(e)
    <3>1. /\ head' = Append(head, e) /\ emitted' = emitted /\ seal' = seal
          /\ pc[e] \in {"linking", "cut"} /\ pc'[e] \in {"linking", "failed"}
      BY <2>13 DEF ServeUnheard, TypeOK, sink
    <3>2. /\ IsStartOf(seal[e].read, head')
          /\ Len(seal[e].read) >= seal[e].from + seal[e].tries
      BY <2>2, <2>7, <3>1 DEF SealingsSound
    <3>3. SealingsSound'
      BY <2>8, <3>1, <3>2 DEF SealingsSound
    <3>. QED BY <2>8, <3>1, <3>3 DEF EmittedSound
  <2>12. CASE WinHead(e)
    <3>1. /\ head = seal[e].read /\ head' = Append(head, e) /\ pc'[e] = "sealed" /\ seal' = seal
          /\ emitted' = emitted \cup {[ev |-> e, on |-> seal[e].on, prev |-> head]}
      BY <2>12 DEF WinHead, Emit, TypeOK
    <3>2. SealingsSound'
      BY <2>8, <3>1 DEF SealingsSound
    <3>3. IsStartOf(Append(head, e), head')
      BY <2>6, <3>1, StartOfItself
    <3>. QED BY <2>8, <3>1, <3>2, <3>3 DEF EmittedSound
  <2>. QED BY <1>2, <2>9, <2>10, <2>11, <2>12, <2>13 DEF SealStep
<1>3. ASSUME NEW r \in Replicas, Crash(r) PROVE SealingsSound' /\ EmittedSound'
  <2>1. /\ UNCHANGED <<head, seal, emitted>>
        /\ \A e \in Events : pc'[e] \in {pc[e], Ended(pc[e])}
    BY <1>3 DEF Crash, TypeOK
  <2>. QED BY <2>1, Elsewhere
<1>4. ASSUME UNCHANGED <<head, seal, emitted, pc>> PROVE SealingsSound' /\ EmittedSound'
  BY <1>4, Elsewhere
<1>5. ASSUME NEW r \in Replicas, Flush(r) \/ Restart(r) PROVE SealingsSound' /\ EmittedSound'
  BY <1>4, <1>5 DEF Flush, Restart
<1>6. ASSUME NEW p \in posts, PostSucceeds(p) \/ PostFails(p) PROVE SealingsSound' /\ EmittedSound'
  BY <1>4, <1>6 DEF PostSucceeds, PostFails
<1>7. CASE UNCHANGED vars
  BY <1>4, <1>7 DEF vars
<1>. QED BY <1>1, <1>2, <1>3, <1>5, <1>6, <1>7 DEF Next

-----------------------------------------------------------------------------
\* Events wait in a replica's buffer or in its posts.
LEMMA NextVanishes == TypeOK /\ NothingVanishes /\ [Next]_vars => NothingVanishes'
<1> SUFFICES ASSUME TypeOK, NothingVanishes, [Next]_vars PROVE NothingVanishes'
  OBVIOUS
<1>0. \A m \in emitted : m.on \in Replicas
  BY DEF TypeOK, Sealed
<1>1. ASSUME UNCHANGED <<emitted, sink>> PROVE NothingVanishes'
  BY <1>1 DEF NothingVanishes, Waiting, sink
<1>2. ASSUME NEW e \in Events, WinHead(e) PROVE NothingVanishes'
  <2>1. PICK r \in Replicas : r = seal[e].on /\ up[r]
    BY <1>2 DEF WinHead, TypeOK, Sealing
  <2>2. /\ Enqueue(r, e) /\ collected' = collected
        /\ emitted' = emitted \cup {[ev |-> e, on |-> r, prev |-> seal[e].read]}
    BY <1>2, <2>1 DEF WinHead, Emit
  <2>3. /\ gone \subseteq gone' /\ posts \subseteq posts'
        /\ \A q \in Replicas : q # r => buffer'[q] = buffer[q]
        /\ \A x \in Range(buffer[r]) \cup {e} :
             x \in gone' \cup Range(buffer'[r]) \/ \E p \in posts' : p.on = r /\ x \in Range(p.batch)
    BY <2>1, <2>2, EnqueueKeeps
  <2>4. \A q \in Replicas : \A x \in Waiting(q) : x \in (gone \cup Waiting(q))'
    BY <2>3 DEF Waiting
  <2>5. e \in (gone \cup Waiting(r))'
    BY <2>3 DEF Waiting
  <2>. QED BY <1>0, <2>2, <2>3, <2>4, <2>5 DEF NothingVanishes
<1>3. ASSUME NEW r \in Replicas, Flush(r) PROVE NothingVanishes'
  <2>1. /\ posts' = posts \cup {[on |-> r, batch |-> buffer[r]]}
        /\ buffer' = [buffer EXCEPT ![r] = <<>>] /\ UNCHANGED <<emitted, collected, gone>>
    BY <1>3 DEF Flush
  <2>2. \A q \in Replicas : \A x \in Waiting(q) : x \in Waiting(q)'
    <3>1. \A q \in Replicas \ {r} : buffer'[q] = buffer[q]
      BY <2>1 DEF TypeOK
    <3>2. PICK p \in posts' : p = [on |-> r, batch |-> buffer[r]]
      BY <2>1
    <3>3. p.on = r /\ p.batch = buffer[r]
      BY <3>2
    <3>. QED BY <2>1, <3>1, <3>3 DEF Waiting
  <2>. QED BY <1>0, <2>1, <2>2 DEF NothingVanishes
<1>4. ASSUME NEW r \in Replicas, Crash(r) PROVE NothingVanishes'
  <2>1. /\ posts' = {p \in posts : p.on # r} /\ buffer' = [buffer EXCEPT ![r] = <<>>]
        /\ gone' = gone \cup Waiting(r) /\ UNCHANGED <<emitted, collected>>
    BY <1>4 DEF Crash, Waiting
  <2>2. \A q \in Replicas \ {r} : Waiting(q) \subseteq Waiting(q)'
    BY <2>1 DEF Waiting, TypeOK
  <2>. QED BY <1>0, <2>1, <2>2 DEF NothingVanishes
<1>5. ASSUME NEW p \in posts, PostSucceeds(p) PROVE NothingVanishes'
  <2>1. \A q \in Replicas : \A x \in Waiting(q) : x \in (collected \cup Waiting(q))'
    BY <1>5 DEF PostSucceeds, Waiting
  <2>. QED BY <1>0, <1>5, <2>1 DEF NothingVanishes, PostSucceeds
<1>6. ASSUME NEW p \in posts, PostFails(p) PROVE NothingVanishes'
  <2>1. collected \subseteq collected' /\ emitted' = emitted
    BY <1>6 DEF PostFails
  <2>2. /\ gone \subseteq gone' /\ posts' = posts \ {p}
        /\ \A q \in Replicas : q # p.on => buffer'[q] = buffer[q]
        /\ Range(buffer[p.on]) \cup Range(p.batch) \subseteq gone' \cup Range(buffer'[p.on])
    BY <1>6, PostFailsKeeps
  <2>3. \A q \in Replicas : \A x \in Waiting(q) : x \in (gone \cup Waiting(q))'
    BY <2>2 DEF Waiting
  <2>. QED BY <1>0, <2>1, <2>2, <2>3 DEF NothingVanishes
<1>7. ASSUME NEW e \in Events, (\E r \in Replicas : Record(e, r)) \/ ReadHead(e) \/ ServeUnheard(e)
                               \/ LoseHead(e) \/ FailSeal(e)
      PROVE  NothingVanishes'
  BY <1>1, <1>7 DEF Record, ReadHead, ServeUnheard, LoseHead, FailSeal
<1>8. ASSUME NEW r \in Replicas, Restart(r) PROVE NothingVanishes'
  BY <1>1, <1>8 DEF Restart
<1>9. CASE UNCHANGED vars
  BY <1>1, <1>9 DEF vars, sink
<1>. QED BY <1>2, <1>3, <1>4, <1>5, <1>6, <1>7, <1>8, <1>9 DEF Next, SealStep

-----------------------------------------------------------------------------
\* All the proofs below start from the invariant.
THEOREM Invariance == Spec => [](IInv /\ NothingVanishes)
<1>1. Init => IInv /\ NothingVanishes
  BY InitInv DEF Init, NothingVanishes
<1>2. IInv /\ NothingVanishes /\ [Next]_vars => IInv' /\ NothingVanishes'
  BY NextInv, NextVanishes DEF IInv
<1>. QED BY <1>1, <1>2, PTL DEF Spec

\* The types are right, and buffers keep to their cap whatever comes back from the collector
\* (audit.ts:122-138).
THEOREM TypeCorrect == Spec => []TypeOK
<1>1. IInv => TypeOK
  BY DEF IInv
<1>. QED BY <1>1, Invariance, PTL

\* The fleet's chain does not fork, however replicas race for its head (audit-chain.ts:147-148).
THEOREM ChainIsOne == Spec => []OneChain
<1>1. IInv => OneChain
  <2> SUFFICES ASSUME IInv PROVE OneChain
    OBVIOUS
  <2>1. ASSUME NEW m \in emitted
        PROVE  /\ Len(m.prev) < Len(head) /\ SubSeq(head, 1, Len(m.prev)) = m.prev
               /\ head[Len(m.prev) + 1] = m.ev
    <3>1. m.prev \in Chain /\ m.ev \in Events /\ head \in Chain /\ IsStartOf(Append(m.prev, m.ev), head)
      BY DEF IInv, TypeOK, Sealed, EmittedSound
    <3>. QED BY <3>1, StartAndNext
  <2>2. ASSUME NEW m \in emitted, NEW n \in emitted, m.prev = n.prev PROVE m = n
    <3>1. m.ev = n.ev
      BY <2>1, <2>2
    <3>. QED BY <3>1 DEF IInv, EmittedSound
  <2>. QED BY <2>1, <2>2 DEF OneChain
<1>. QED BY <1>1, Invariance, PTL

\* A sealing that gives up does so because the chain got on (audit-chain.ts:176-186).
THEOREM ContentionIsProgress == Spec => []GivesUpOnlyToGrowth
<1>1. IInv => GivesUpOnlyToGrowth
  BY DEF IInv, SealingsSound, GivesUpOnlyToGrowth
<1>. QED BY <1>1, Invariance, PTL

\* Nothing emitted vanishes unaccounted for on its way to the collector (audit.ts:122-128).
THEOREM AccountedFor == Spec => []NothingVanishes
BY Invariance, PTL

-----------------------------------------------------------------------------
(* How often an event is linked: once per attempt at most.                 *)

\* An attempt that stands to be served has not been.
LinksSound ==
  \A e \in Events :
    /\ pc[e] = "new" => Links(e) = {}
    /\ pc[e] \in {"reading", "exhausted"} => Cardinality(Links(e)) <= seal[e].tries
    /\ pc[e] # "new" => Cardinality(Links(e)) <= seal[e].tries + 1
    /\ pc[e] \in {"linking", "cut"} /\ head = seal[e].read =>
         Cardinality(Links(e)) <= seal[e].tries
    /\ pc[e] \notin {"new", "exhausted"} => seal[e].tries < MaxAttempts
    /\ pc[e] = "exhausted" => seal[e].tries <= MaxAttempts

LEMMA LinksFinite ==
  ASSUME TypeOK, NEW e \in Events
  PROVE  IsFiniteSet(Links(e)) /\ Cardinality(Links(e)) \in Nat
<1>1. IsFiniteSet(1..Len(head))
  BY FS_Interval DEF TypeOK, Chain
<1>2. Links(e) \subseteq 1..Len(head)
  BY DEF Links
<1>. QED BY <1>1, <1>2, FS_Subset, FS_CardinalityType

\* A link adds one to those of its event.
LEMMA OneLink ==
  ASSUME TypeOK, NEW e \in Events, head' = Append(head, e)
  PROVE  /\ Cardinality(Links(e)') = Cardinality(Links(e)) + 1
         /\ \A f \in Events \ {e} : Links(f)' = Links(f)
<1> DEFINE n == Len(head) + 1
<1>1. /\ n \in Nat /\ Len(head) \in Nat /\ Len(head') = n /\ head'[n] = e
      /\ \A i \in 1..Len(head) : head'[i] = head[i]
  BY DEF TypeOK, Chain
<1>2. 1..n = (1..Len(head)) \cup {n} /\ n \notin 1..Len(head)
  BY <1>1
<1> HIDE DEF n
<1>3. Links(e)' = Links(e) \cup {n} /\ n \notin Links(e)
  BY <1>1, <1>2 DEF Links
<1>4. \A f \in Events \ {e} : Links(f)' = Links(f)
  BY <1>1, <1>2 DEF Links
<1>. QED BY <1>3, <1>4, LinksFinite, FS_AddElement

\* A sealing that has read less than the chain still has when the chain grows.
LEMMA StaysBehind ==
  ASSUME IInv, NEW f \in Events, pc[f] \in {"linking", "cut"}, NEW e \in Events,
         head' = Append(head, e)
  PROVE  head' # seal[f].read
<1>1. head \in Chain /\ seal[f].read \in Chain /\ Len(head') = Len(head) + 1 /\ Len(head) \in Nat
  BY DEF IInv, TypeOK, Sealing, Chain
<1>2. Len(seal[f].read) <= Len(head)
  BY DEF IInv, SealingsSound, IsStartOf
<1>. QED BY <1>1, <1>2

LEMMA NextLinks == IInv /\ LinksSound /\ [Next]_vars => LinksSound'
<1> SUFFICES ASSUME IInv, LinksSound, [Next]_vars PROVE LinksSound'
  OBVIOUS
<1> USE DEF IInv
<1>0. \A e \in Events :
        /\ Cardinality(Links(e)) \in Nat /\ pc[e] \in Stages
        /\ pc[e] # "new" => seal[e] \in Sealing /\ seal[e].tries \in Nat
  BY LinksFinite DEF TypeOK, Sealing, Stages
<1>1. ASSUME head' = head, seal' = seal, \A e \in Events : pc'[e] \in {pc[e], Ended(pc[e])}
      PROVE  LinksSound'
  <2>1. \A e \in Events :
          /\ pc'[e] \in {"new", "reading", "linking", "exhausted"} => pc'[e] = pc[e]
          /\ pc'[e] = "cut" => pc[e] \in {"linking", "cut"}
          /\ pc[e] \in {"new", "exhausted"} => pc'[e] = pc[e]
    BY <1>0, <1>1, EndedStages
  <2>2. \A e \in Events : Links(e)' = Links(e)
    BY <1>1 DEF Links
  <2>. QED BY <1>1, <2>1, <2>2 DEF LinksSound
\* What a step of e leaves of the others: their links, and that those behind stay behind.
<1>2. ASSUME NEW e \in Events, \A f \in Events \ {e} : pc'[f] = pc[f] /\ seal'[f] = seal[f],
             head' = head \/ head' = Append(head, e),
             LET n == Cardinality(Links(e)')  t == seal'[e].tries IN
               /\ pc'[e] # "new"
               /\ pc'[e] \in {"reading", "exhausted"} => n <= t
               /\ n <= t + 1
               /\ pc'[e] \in {"linking", "cut"} /\ head' = seal'[e].read => n <= t
               /\ pc'[e] # "exhausted" => t < MaxAttempts
               /\ pc'[e] = "exhausted" => t <= MaxAttempts
      PROVE  LinksSound'
  <2>1. \A f \in Events \ {e} : Links(f)' = Links(f)
    <3>1. CASE head' = head
      BY <3>1 DEF Links
    <3>2. CASE head' = Append(head, e)
      BY <3>2, OneLink
    <3>. QED BY <1>2, <3>1, <3>2
  <2>2. \A f \in Events \ {e} :
          pc[f] \in {"linking", "cut"} /\ head' = seal[f].read => head = seal[f].read
    <3>1. CASE head' = head
      BY <3>1
    <3>2. CASE head' = Append(head, e)
      BY <3>2, StaysBehind
    <3>. QED BY <1>2, <3>1, <3>2
  <2>. QED BY <1>2, <2>1, <2>2 DEF LinksSound
<1>3. ASSUME NEW e \in Events, head' = head PROVE Links(e)' = Links(e)
  BY <1>3 DEF Links
<1>4. ASSUME NEW e \in Events, NEW r \in Replicas, Record(e, r) PROVE LinksSound'
  <2>1. /\ pc[e] = "new" /\ pc'[e] = "reading" /\ seal'[e].tries = 0 /\ head' = head
        /\ \A f \in Events \ {e} : pc'[f] = pc[f] /\ seal'[f] = seal[f]
    BY <1>4 DEF Record, TypeOK
  <2>2. Cardinality(Links(e)') = 0
    BY <1>3, <2>1, FS_EmptySet DEF LinksSound
  <2>. QED BY <1>2, <2>1, <2>2
<1>5. ASSUME NEW e \in Events, SealStep(e) PROVE LinksSound'
  <2>1. /\ pc[e] \in {"reading", "linking", "cut"} /\ seal[e] \in Sealing /\ seal[e].tries \in Nat
        /\ seal[e].tries < MaxAttempts
        /\ \A f \in Events \ {e} : pc'[f] = pc[f] /\ seal'[f] = seal[f]
    BY <1>0, <1>5
    DEF SealStep, ReadHead, WinHead, ServeUnheard, LoseHead, FailSeal, TypeOK, LinksSound
  <2>2. CASE ReadHead(e)
    <3>1. /\ pc[e] = "reading" /\ pc'[e] = "linking" /\ head' = head
          /\ seal'[e].tries = seal[e].tries
      BY <2>1, <2>2 DEF ReadHead, TypeOK, Sealing
    <3>2. Cardinality(Links(e)') <= seal[e].tries
      BY <1>3, <3>1 DEF LinksSound
    <3>3. Cardinality(Links(e)') <= seal[e].tries + 1
      BY <1>0, <1>3, <2>1, <3>1, <3>2
    <3>. QED BY <1>2, <2>1, <3>1, <3>2, <3>3
  <2>3. CASE LoseHead(e)
    <3>1. /\ pc[e] = "linking" /\ head' = head /\ seal'[e].tries = seal[e].tries + 1
          /\ pc'[e] = IF seal'[e].tries < MaxAttempts THEN "reading" ELSE "exhausted"
      BY <2>1, <2>3 DEF LoseHead, TypeOK, Sealing
    <3>2. /\ Cardinality(Links(e)') <= seal[e].tries + 1 /\ Cardinality(Links(e)') \in Nat
      BY <1>0, <1>3, <3>1 DEF LinksSound
    <3>3. CASE seal'[e].tries < MaxAttempts
      BY <1>2, <2>1, <3>1, <3>2, <3>3
    <3>4. CASE ~(seal'[e].tries < MaxAttempts)
      BY <1>2, <2>1, <3>1, <3>2, <3>4
    <3>. QED BY <3>3, <3>4
  <2>4. CASE FailSeal(e)
    <3>1. head' = head /\ seal' = seal /\ \A f \in Events : pc'[f] \in {pc[f], Ended(pc[f])}
      BY <2>4 DEF FailSeal, TypeOK
    <3>. QED BY <1>1, <3>1
  <2>5. CASE WinHead(e) \/ ServeUnheard(e)
    <3>1. /\ pc[e] \in {"linking", "cut"} /\ head = seal[e].read /\ head' = Append(head, e)
          /\ seal'[e] = seal[e] /\ pc'[e] \in {"linking", "sealed", "failed"}
      BY <2>5 DEF WinHead, ServeUnheard, TypeOK
    <3>2. Cardinality(Links(e)) <= seal[e].tries
      BY <3>1 DEF LinksSound
    <3>3. Cardinality(Links(e)') <= seal[e].tries + 1
      BY <1>0, <2>1, <3>1, <3>2, OneLink
    <3>4. head' # seal[e].read
      BY <3>1, StaysBehind
    <3>. QED BY <1>2, <2>1, <3>1, <3>3, <3>4
  <2>. QED BY <1>5, <2>2, <2>3, <2>4, <2>5 DEF SealStep
<1>6. ASSUME NEW r \in Replicas, Crash(r) PROVE LinksSound'
  <2>1. head' = head /\ seal' = seal /\ \A e \in Events : pc'[e] \in {pc[e], Ended(pc[e])}
    BY <1>6 DEF Crash, TypeOK
  <2>. QED BY <1>1, <2>1
<1>7. ASSUME UNCHANGED <<head, seal, pc>> PROVE LinksSound'
  BY <1>1, <1>7
<1>8. ASSUME NEW r \in Replicas, Flush(r) \/ Restart(r) PROVE LinksSound'
  BY <1>7, <1>8 DEF Flush, Restart
<1>9. ASSUME NEW p \in posts, PostSucceeds(p) \/ PostFails(p) PROVE LinksSound'
  BY <1>7, <1>9 DEF PostSucceeds, PostFails
<1>10. CASE UNCHANGED vars
  BY <1>7, <1>10 DEF vars
<1>. QED BY <1>4, <1>5, <1>6, <1>8, <1>9, <1>10 DEF Next

\* An event whose replies are lost may be on the chain more than once, but no more than once
\* per attempt, however often the client sends a compare-and-set again (audit-chain.ts:176-186,
\* shared-state.ts:173-182), for any fleet and any budget of attempts.
THEOREM LinkedPerAttempt == Spec => []LinkedOncePerAttempt
<1>1. Init => LinksSound
  BY DEF Init, LinksSound, Links
<1>2. IInv /\ LinksSound /\ [Next]_vars => LinksSound'
  BY NextLinks
<1>3. IInv /\ LinksSound => LinkedOncePerAttempt
  <2> SUFFICES ASSUME IInv, LinksSound, NEW e \in Events
               PROVE  /\ pc[e] = "new" => Links(e) = {}
                      /\ pc[e] # "new" => Cardinality(Links(e)) <= seal[e].tries + 1
                      /\ Cardinality(Links(e)) <= MaxAttempts
    BY DEF LinkedOncePerAttempt
  <2>1. /\ Cardinality(Links(e)) \in Nat
        /\ pc[e] # "new" => seal[e].tries \in Nat
    BY LinksFinite DEF IInv, TypeOK, Sealing
  <2>2. CASE pc[e] = "new"
    <3>1. Links(e) = {}
      BY <2>2 DEF LinksSound
    <3>2. Cardinality(Links(e)) = 0
      BY <3>1, FS_EmptySet
    <3>. QED BY <2>2, <3>1, <3>2
  <2>3. CASE pc[e] # "new"
    BY <2>1, <2>3 DEF LinksSound
  <2>. QED BY <2>2, <2>3
<1>. QED BY <1>1, <1>2, <1>3, Invariance, PTL DEF Spec

-----------------------------------------------------------------------------
(* The refinement: the fleet seals as one log.                             *)

Statuses == [e \in Events |-> SealStatus(pc[e])]

LEMMA StatusOfStage ==
  /\ SealStatus("new") = "none"
  /\ SealStatus("reading") = "asked" /\ SealStatus("linking") = "asked"
  /\ SealStatus("sealed") = "kept"
  /\ SealStatus("cut") = "doubtful"
  /\ SealStatus("exhausted") = "ended" /\ SealStatus("failed") = "ended"
BY DEF SealStatus

LEMMA StatusOf ==
  ASSUME NEW e \in Events
  PROVE  /\ pc[e] = "new" => Statuses[e] = "none"
         /\ pc[e] \in {"reading", "linking"} => Statuses[e] = "asked"
         /\ pc[e] = "cut" => Statuses[e] = "doubtful"
BY StatusOfStage DEF Statuses

\* A step of one sealing changes one status at most.
LEMMA OneStatus ==
  ASSUME NEW e \in Events, NEW stage, TypeOK, pc' = [pc EXCEPT ![e] = stage]
  PROVE  /\ stage \in {"reading", "linking"} => Statuses' = [Statuses EXCEPT ![e] = "asked"]
         /\ stage = "sealed" => Statuses' = [Statuses EXCEPT ![e] = "kept"]
         /\ stage \in {"exhausted", "failed"} => Statuses' = [Statuses EXCEPT ![e] = "ended"]
<1>1. pc'[e] = stage /\ \A f \in Events \ {e} : pc'[f] = pc[f]
  BY DEF TypeOK
<1>2. \A f \in Events \ {e} : Statuses'[f] = Statuses[f]
  BY <1>1 DEF Statuses
<1>3. /\ stage \in {"reading", "linking"} => Statuses'[e] = "asked"
      /\ stage = "sealed" => Statuses'[e] = "kept"
      /\ stage \in {"exhausted", "failed"} => Statuses'[e] = "ended"
  BY <1>1, StatusOfStage DEF Statuses
<1>4. Statuses = [f \in Events |-> Statuses[f]] /\ Statuses' = [f \in Events |-> Statuses'[f]]
  BY DEF Statuses
<1> HIDE DEF Statuses
<1>. QED BY <1>2, <1>3, <1>4

LEMMA OneReceipt ==
  ASSUME NEW e, NEW r, NEW s, emitted' = emitted \cup {[ev |-> e, on |-> r, prev |-> s]}
  PROVE  Receipts' = Receipts \cup {[ev |-> e, prev |-> s]}
<1> DEFINE m == [ev |-> e, on |-> r, prev |-> s]
<1>1. m.ev = e /\ m.prev = s
  OBVIOUS
<1> HIDE DEF m
<1>2. {[ev |-> n.ev, prev |-> n.prev] : n \in emitted \cup {m}}
        = {[ev |-> n.ev, prev |-> n.prev] : n \in emitted} \cup {[ev |-> m.ev, prev |-> m.prev]}
  OBVIOUS
<1>. QED BY <1>1, <1>2 DEF Receipts, m

\* A step that leaves the log, the statuses and the receipts is a stutter of the one log.
LEMMA LogStutter ==
  ASSUME UNCHANGED <<head, emitted>>, Statuses' = Statuses
  PROVE  UNCHANGED Log!logVars
BY DEF Log!logVars, Statuses, Receipts

LEMMA LogSteps ==
  ASSUME NEW e \in Events
  PROVE  /\ (/\ Statuses[e] = "none" /\ Statuses' = [Statuses EXCEPT ![e] = "asked"]
             /\ head' = head /\ Receipts' = Receipts) => Log!Next
         /\ (/\ Statuses[e] = "asked" /\ Statuses' = [Statuses EXCEPT ![e] = "kept"]
             /\ head' = Append(head, e)
             /\ Receipts' = Receipts \cup {[ev |-> e, prev |-> head]}) => Log!Next
         /\ (/\ Statuses[e] = "asked" /\ Statuses' = Statuses
             /\ head' = Append(head, e) /\ Receipts' = Receipts) => Log!Next
         /\ (/\ Statuses[e] = "asked" /\ Statuses' = [Statuses EXCEPT ![e] = "ended"]
             /\ head' = head /\ Receipts' = Receipts) => Log!Next
         /\ (/\ Statuses[e] = "doubtful" /\ Statuses' = [Statuses EXCEPT ![e] = "ended"]
             /\ head' = Append(head, e) /\ Receipts' = Receipts) => Log!Next
BY DEF Log!Next, Log!Ask, Log!Keep, Log!LinkUnheard, Log!End, Log!LinkLate, Statuses

\* A crash, or a store that throws, ends sealings in the midst of what they were doing.
LEMMA EndingAbandons ==
  ASSUME TypeOK, head' = head, emitted' = emitted, NEW S \in SUBSET Events,
         pc' = [e \in Events |-> IF e \in S THEN Ended(pc[e]) ELSE pc[e]]
  PROVE  Log!Next
<1> DEFINE F == {e \in S : pc[e] = "reading"}
           D == {e \in S : pc[e] = "linking"}
<1>1. head' = head /\ Receipts' = Receipts
  BY DEF Receipts
<1>2. \A e \in F \cup D : Statuses[e] = "asked"
  BY StatusOf
<1>3. \A e \in Events :
        Statuses'[e] = IF e \in D THEN "doubtful" ELSE IF e \in F THEN "ended" ELSE Statuses[e]
  <2> SUFFICES ASSUME NEW e \in Events
               PROVE  Statuses'[e] = IF e \in D THEN "doubtful"
                                     ELSE IF e \in F THEN "ended" ELSE Statuses[e]
    OBVIOUS
  <2>0. /\ pc[e] \in Stages /\ Statuses[e] = SealStatus(pc[e])
        /\ Statuses'[e] = SealStatus(pc'[e])
        /\ pc'[e] = IF e \in S THEN Ended(pc[e]) ELSE pc[e]
    BY DEF TypeOK, Stages, Statuses
  <2>1. CASE e \in D
    BY <2>0, <2>1, EndedStages, StatusOfStage
  <2>2. CASE e \in F
    BY <2>0, <2>2, EndedStages, StatusOfStage
  <2>3. CASE e \notin F \cup D
    <3>1. pc'[e] = pc[e]
      BY <2>0, <2>3, EndedStages
    <3>. QED BY <2>0, <2>3, <3>1
  <2>. QED BY <2>1, <2>2, <2>3
<1>4. F \in SUBSET Events /\ D \in SUBSET Events
  OBVIOUS
<1> HIDE DEF F, D
<1>5. Statuses' = [e \in Events |-> IF e \in D THEN "doubtful"
                                    ELSE IF e \in F THEN "ended" ELSE Statuses[e]]
  BY <1>3 DEF Statuses
<1>6. Log!Abandon(F, D)
  BY <1>1, <1>2, <1>5 DEF Log!Abandon, Statuses
<1>. QED BY <1>4, <1>6 DEF Log!Next

LEMMA CrashAbandons ==
  ASSUME TypeOK, NEW r \in Replicas, Crash(r)
  PROVE  Log!Next
<1> DEFINE S == {e \in Events : pc[e] # "new" /\ seal[e].on = r}
<1>1. /\ head' = head /\ emitted' = emitted /\ S \in SUBSET Events
      /\ pc' = [e \in Events |-> IF e \in S THEN Ended(pc[e]) ELSE pc[e]]
  BY DEF Crash
<1> HIDE DEF S
<1>. QED BY <1>1, EndingAbandons

LEMMA NextSealsAsOneLog ==
  ASSUME TypeOK, [Next]_vars
  PROVE  [Log!Next]_(Log!logVars)
<1>1. ASSUME NEW e \in Events, NEW r \in Replicas, Record(e, r) PROVE Log!Next
  <2>1. pc[e] = "new" /\ pc' = [pc EXCEPT ![e] = "reading"] /\ head' = head /\ Receipts' = Receipts
    BY <1>1 DEF Record, Receipts
  <2>. QED BY <2>1, StatusOf, OneStatus, LogSteps
<1>2. ASSUME NEW e \in Events, SealStep(e) PROVE [Log!Next]_(Log!logVars)
  <2>0. /\ pc[e] \in {"reading", "linking", "cut"}
        /\ Statuses[e] = IF pc[e] = "cut" THEN "doubtful" ELSE "asked"
    BY <1>2, StatusOf DEF SealStep, ReadHead, WinHead, ServeUnheard, LoseHead, FailSeal
  <2>1. CASE ReadHead(e)
    <3>1. pc' = [pc EXCEPT ![e] = "linking"] /\ UNCHANGED <<head, emitted>> /\ pc[e] = "reading"
      BY <2>1 DEF ReadHead
    <3>2. Statuses' = [Statuses EXCEPT ![e] = "asked"]
      BY <3>1, OneStatus
    <3>3. Statuses' = Statuses
      BY <2>0, <3>1, <3>2 DEF Statuses
    <3>. QED BY <3>1, <3>3, LogStutter
  <2>2. CASE WinHead(e)
    <3>1. /\ pc' = [pc EXCEPT ![e] = "sealed"] /\ head = seal[e].read
          /\ head' = Append(head, e) /\ pc[e] = "linking"
          /\ emitted' = emitted \cup {[ev |-> e, on |-> seal[e].on, prev |-> head]}
      BY <2>2 DEF WinHead, Emit
    <3>2. Receipts' = Receipts \cup {[ev |-> e, prev |-> head]}
      BY <3>1, OneReceipt
    <3>3. Statuses' = [Statuses EXCEPT ![e] = "kept"]
      BY <3>1, OneStatus
    <3>. QED BY <2>0, <3>1, <3>2, <3>3, LogSteps
  <2>3. CASE LoseHead(e)
    <3>1. UNCHANGED <<head, emitted>> /\ Receipts' = Receipts /\ pc[e] = "linking"
      BY <2>3 DEF LoseHead, Receipts
    <3>2. CASE pc' = [pc EXCEPT ![e] = "reading"]
      <4>1. Statuses' = [Statuses EXCEPT ![e] = "asked"]
        BY <3>2, OneStatus
      <4>2. Statuses' = Statuses
        BY <2>0, <3>1, <4>1 DEF Statuses
      <4>. QED BY <3>1, <4>2, LogStutter
    <3>3. CASE pc' = [pc EXCEPT ![e] = "exhausted"]
      <4>1. Statuses' = [Statuses EXCEPT ![e] = "ended"]
        BY <3>3, OneStatus
      <4>. QED BY <2>0, <3>1, <4>1, LogSteps
    <3>. QED BY <2>3, <3>2, <3>3 DEF LoseHead
  <2>4. CASE FailSeal(e)
    <3>1. /\ head' = head /\ emitted' = emitted
          /\ pc' = [f \in Events |-> IF f \in {e} THEN Ended(pc[f]) ELSE pc[f]]
      BY <2>4 DEF FailSeal, TypeOK, sink
    <3>. QED BY <3>1, EndingAbandons
  <2>5. CASE ServeUnheard(e)
    <3>1. /\ head' = Append(head, e) /\ Receipts' = Receipts
          /\ pc' = [pc EXCEPT ![e] = IF pc[e] = "cut" THEN "failed" ELSE pc[e]]
      BY <2>5 DEF ServeUnheard, Receipts
    <3>2. CASE pc[e] = "cut"
      <4>1. pc' = [pc EXCEPT ![e] = "failed"] /\ Statuses[e] = "doubtful"
        BY <2>0, <3>1, <3>2
      <4>2. Statuses' = [Statuses EXCEPT ![e] = "ended"]
        BY <4>1, OneStatus
      <4>. QED BY <3>1, <4>1, <4>2, LogSteps
    <3>3. CASE pc[e] # "cut"
      <4>1. pc' = pc /\ Statuses[e] = "asked"
        BY <2>0, <3>1, <3>3 DEF TypeOK
      <4>2. Statuses' = Statuses
        BY <4>1 DEF Statuses
      <4>. QED BY <3>1, <4>1, <4>2, LogSteps
    <3>. QED BY <3>2, <3>3
  <2>. QED BY <1>2, <2>1, <2>2, <2>3, <2>4, <2>5 DEF SealStep
<1>3. ASSUME UNCHANGED <<head, emitted, pc>> PROVE UNCHANGED Log!logVars
  BY <1>3, LogStutter DEF Statuses
<1>4. ASSUME NEW r \in Replicas, Flush(r) \/ Restart(r) PROVE UNCHANGED Log!logVars
  BY <1>3, <1>4 DEF Flush, Restart
<1>5. ASSUME NEW p \in posts, PostSucceeds(p) \/ PostFails(p) PROVE UNCHANGED Log!logVars
  BY <1>3, <1>5 DEF PostSucceeds, PostFails
<1>6. CASE UNCHANGED vars
  BY <1>3, <1>6 DEF vars
<1>. QED BY <1>1, <1>2, <1>4, <1>5, <1>6, CrashAbandons DEF Next

\* However many replicas share the chain, however they race, fail and crash, and however often
\* the client sends a compare-and-set, sealing advances one linear log (audit-chain.ts:146-148),
\* whose callers hear of one link at most, and hear of it as it was made.
THEOREM FleetSealsAsOneLog == Spec => SealsAsOneLog
<1>1. Init => Log!Init
  BY StatusOfStage DEF Init, Log!Init, Receipts
<1>2. TypeOK /\ [Next]_vars => [Log!Next]_(Log!logVars)
  BY NextSealsAsOneLog
<1>. QED BY <1>1, <1>2, TypeCorrect, PTL DEF Spec, SealsAsOneLog, Log!Spec
=============================================================================
