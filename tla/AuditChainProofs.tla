-------------------------- MODULE AuditChainProofs --------------------------
(***************************************************************************)
(* Proofs about the audit chain of one instance, for any number of events, *)
(* backups and restores and any cap on the evidence log.                   *)
(*                                                                         *)
(* Files, backups and memory hold positions in the chain and pieces of its *)
(* evidence of different ages.  The argument is that each of them is       *)
(* something that was emitted, and that a restore compares sequence        *)
(* numbers, which name one link each as long as the head never went back.  *)
(***************************************************************************)
EXTENDS AuditChain, SequenceTheorems, TLAPS

USE AuditAssumption

-----------------------------------------------------------------------------
\* A list of links that are among the emitted ones, in the order of the chain.
Genuine(evs, em) == \A i \in DOMAIN evs : \E j \in DOMAIN em : evs[i] = em[j]

Ordered(evs) == \A i, j \in DOMAIN evs : i < j => evs[i].seq < evs[j].seq

\* The evidence evs goes no further than position h.
Within(evs, h) == evs # <<>> => Tip(evs) <= h.seq

Evidence(evs, h, em) ==
  evs \in Seq(Link) /\ Genuine(evs, em) /\ Ordered(evs) /\ Within(evs, h)

\* A position that the chain was once at.
Position(h, em) ==
  h \in ChainHead /\ (h = GenesisHead \/ \E j \in DOMAIN em : h = HeadAt(em[j]))

\* The n-th emitted link is the n-th of the chain, and the head is at the last one.
Straight(h, em) ==
  /\ \A i \in DOMAIN em : em[i].seq = i
  /\ Verified(em)
  /\ h = IF em = <<>> THEN GenesisHead ELSE HeadAt(em[Len(em)])

BackupsGood ==
  \A k \in DOMAIN backups :
    /\ Position(backups[k].chain, emitted)
    /\ Evidence(backups[k].log, backups[k].chain, emitted)

IInv ==
  /\ TypeOK
  /\ headFile = head
  /\ Position(head, emitted)
  /\ Evidence(log, head, emitted) /\ Evidence(logFile, head, emitted)
  /\ BackupsGood
  /\ ~rewound => Straight(head, emitted)

-----------------------------------------------------------------------------
(* What pruning does to a list of events.                                  *)

\* le is what remains of evs when its first k events are gone.
Without(le, evs, k) ==
  /\ Len(le) + k = Len(evs)
  /\ \A i \in DOMAIN le : i + k \in DOMAIN evs /\ le[i] = evs[i + k]

LEMMA LastEventsProperties ==
  ASSUME NEW evs \in Seq(Link), NEW n \in Nat
  PROVE  /\ LastEvents(evs, n) \in Seq(Link)
         /\ Len(LastEvents(evs, n)) <= n
         /\ \E k \in Nat : Without(LastEvents(evs, n), evs, k)
<1> DEFINE le == LastEvents(evs, n)
           len == Len(evs)
<1>0. len \in Nat /\ DOMAIN evs = 1 .. len
  OBVIOUS
<1>1. CASE len <= n
  <2>1. le = evs
    BY <1>1 DEF LastEvents
  <2>2. Without(evs, evs, 0)
    BY <1>0 DEF Without
  <2>. QED BY <1>1, <2>1, <2>2
<1>2. CASE ~(len <= n)
  <2> DEFINE k == len - n
             lo == len - n + 1
  <2>1. le = SubSeq(evs, lo, len)
    BY <1>2 DEF LastEvents
  <2>2. k \in Nat /\ lo \in Int /\ len \in Int /\ len - lo + 1 = n /\ lo >= 1
        /\ n + k = len
    <3> HIDE DEF len
    <3>1. k \in Nat /\ lo \in Int /\ lo = k + 1 /\ k + n = len
      BY <1>0, <1>2
    <3> HIDE DEF k, lo
    <3>. QED BY <1>0, <3>1
  <2>3. \A i \in 1 .. n : lo + i - 1 = i + k /\ i + k \in 1 .. len
    BY <1>0, <2>2
  <2> HIDE DEF k, lo, len, le
  <2>4. \A i \in lo .. len : evs[i] \in Link
    BY <1>0, <2>2
  <2>5. /\ SubSeq(evs, lo, len) \in Seq(Link)
        /\ Len(SubSeq(evs, lo, len)) = IF lo <= len THEN len - lo + 1 ELSE 0
        /\ \A i \in 1 .. len - lo + 1 : SubSeq(evs, lo, len)[i] = evs[lo + i - 1]
    BY <2>2, <2>4, SubSeqProperties
  <2>6. le \in Seq(Link) /\ Len(le) = n
    <3>1. ~(lo <= len) => n = 0
      BY <2>2
    <3>. QED BY <2>1, <2>2, <2>5, <3>1
  <2>7. DOMAIN le = 1 .. n
    BY <2>6
  <2>8. \A i \in 1 .. n : le[i] = evs[lo + i - 1]
    BY <2>1, <2>2, <2>5
  <2>9. \A i \in DOMAIN le : i + k \in DOMAIN evs /\ le[i] = evs[i + k]
    BY <1>0, <2>3, <2>7, <2>8
  <2>10. Without(le, evs, k)
    BY <2>2, <2>6, <2>9 DEF Without, len
  <2>. QED BY <2>2, <2>6, <2>10 DEF le
<1>. QED BY <1>1, <1>2

\* What is left of evidence is evidence.
LEMMA PrunedEvidence ==
  ASSUME NEW evs, NEW h \in ChainHead, NEW em, Evidence(evs, h, em), NEW n \in Nat
  PROVE  Evidence(LastEvents(evs, n), h, em) /\ Len(LastEvents(evs, n)) <= n
<1> DEFINE le == LastEvents(evs, n)
<1>1. evs \in Seq(Link) /\ Len(evs) \in Nat /\ DOMAIN evs = 1 .. Len(evs)
  BY DEF Evidence
<1>2. le \in Seq(Link) /\ Len(le) <= n
  BY <1>1, LastEventsProperties
<1>3. PICK k \in Nat :
        /\ Len(le) + k = Len(evs)
        /\ \A i \in DOMAIN le : i + k \in DOMAIN evs /\ le[i] = evs[i + k]
  BY <1>1, LastEventsProperties DEF Without
<1> HIDE DEF le
<1>4. DOMAIN le = 1 .. Len(le) /\ Len(le) \in Nat
  BY <1>2
<1>5. Genuine(le, em)
  BY <1>3 DEF Evidence, Genuine
<1>6. Ordered(le)
  <2>1. ASSUME NEW i \in DOMAIN le, NEW j \in DOMAIN le, i < j
        PROVE  le[i].seq < le[j].seq
    <3>1. i + k \in DOMAIN evs /\ j + k \in DOMAIN evs /\ i + k < j + k
      BY <1>3, <1>4, <2>1
    <3>2. evs[i + k].seq < evs[j + k].seq
      BY <3>1 DEF Evidence, Ordered
    <3>. QED BY <1>3, <3>2
  <2>. QED BY <2>1 DEF Ordered
<1>7. ASSUME le # <<>> PROVE evs # <<>> /\ Tip(le) = Tip(evs)
  <2>1. Len(le) # 0
    BY <1>2, <1>7, EmptySeq
  <2>2. Len(le) \in DOMAIN le /\ Len(le) + k = Len(evs)
    BY <1>3, <1>4, <2>1
  <2>3. le[Len(le)] = evs[Len(evs)]
    BY <1>3, <2>2
  <2>4. evs # <<>>
    BY <1>1, <1>3, <1>4, <2>1
  <2>. QED BY <2>3, <2>4 DEF Tip
<1>8. Within(le, h)
  BY <1>7 DEF Evidence, Within
<1>. QED BY <1>2, <1>5, <1>6, <1>8 DEF Evidence, le

LEMMA PrunedEvidenceSet ==
  ASSUME NEW evs, NEW h \in ChainHead, NEW em, Evidence(evs, h, em),
         NEW le \in Pruned(evs)
  PROVE  Evidence(le, h, em) /\ Len(le) <= LogCap
<1>1. PICK n \in 0 .. LogCap : le = LastEvents(evs, n)
  BY DEF Pruned
<1>2. n \in Nat /\ n <= LogCap
  OBVIOUS
<1>3. Evidence(le, h, em) /\ Len(le) <= n
  BY <1>1, <1>2, PrunedEvidence
<1>4. Len(le) \in Nat
  BY <1>3 DEF Evidence
<1>. QED BY <1>2, <1>3, <1>4

\* Evidence for a position is evidence for every later one.
LEMMA EvidenceGrows ==
  ASSUME NEW evs, NEW h \in ChainHead, NEW g \in ChainHead, h.seq <= g.seq, NEW em,
         Evidence(evs, h, em)
  PROVE  Evidence(evs, g, em)
<1>1. evs # <<>> => Tip(evs) \in Nat
  <2>1. evs # <<>> => Len(evs) \in DOMAIN evs
    BY EmptySeq DEF Evidence
  <2>2. \A i \in DOMAIN evs : evs[i] \in Link
    BY DEF Evidence
  <2>. QED BY <2>1, <2>2 DEF Tip, Link
<1>. QED BY <1>1 DEF Evidence, Within, ChainHead

\* What was emitted stays emitted.
LEMMA EmittedGrows ==
  ASSUME NEW em \in Seq(Link), NEW link \in Link, NEW evs, NEW h
  PROVE  /\ Evidence(evs, h, em) => Evidence(evs, h, Append(em, link))
         /\ Position(h, em) => Position(h, Append(em, link))
<1>1. \A j \in DOMAIN em : j \in DOMAIN Append(em, link) /\ Append(em, link)[j] = em[j]
  OBVIOUS
<1>. QED BY <1>1 DEF Evidence, Genuine, Position

\* An event that is sealed joins the evidence at the new head.
LEMMA EvidenceAppends ==
  ASSUME NEW em \in Seq(Link), NEW link \in Link, NEW h \in ChainHead,
         link.seq = h.seq + 1, NEW evs, Evidence(evs, h, em)
  PROVE  Evidence(Append(evs, link), HeadAt(link), Append(em, link))
<1> DEFINE n == Len(evs)
           ae == Append(evs, link)
<1>1. evs \in Seq(Link) /\ n \in Nat /\ DOMAIN evs = 1 .. n
  BY DEF Evidence
<1>2. /\ ae \in Seq(Link) /\ DOMAIN ae = 1 .. n + 1 /\ Len(ae) = n + 1
      /\ ae[n + 1] = link /\ \A i \in 1 .. n : ae[i] = evs[i]
  BY <1>1
<1>3. Genuine(ae, Append(em, link))
  <2>1. Len(em) + 1 \in DOMAIN Append(em, link)
        /\ Append(em, link)[Len(em) + 1] = link
    OBVIOUS
  <2>2. \A j \in DOMAIN em : j \in DOMAIN Append(em, link) /\ Append(em, link)[j] = em[j]
    OBVIOUS
  <2>3. \A i \in 1 .. n : \E j \in DOMAIN em : evs[i] = em[j]
    BY <1>1 DEF Evidence, Genuine
  <2>4. ASSUME NEW i \in 1 .. n + 1
        PROVE  \E j \in DOMAIN Append(em, link) : ae[i] = Append(em, link)[j]
    <3>1. CASE i = n + 1
      BY <1>2, <2>1, <3>1
    <3>2. CASE i \in 1 .. n
      BY <1>2, <2>2, <2>3, <3>2
    <3>. QED BY <1>1, <3>1, <3>2
  <2> HIDE DEF ae
  <2>. QED BY <1>2, <2>4 DEF Genuine
<1> HIDE DEF ae, n
<1>4. ASSUME NEW i \in 1 .. n PROVE evs[i].seq < link.seq
  <2>1. evs[i] \in Link /\ evs[n] \in Link /\ n \in 1 .. n
    BY <1>1
  <2>2. evs[i].seq \in Nat /\ evs[n].seq \in Nat /\ h.seq \in Nat
    BY <2>1 DEF Link, ChainHead
  <2>3. evs[n].seq <= h.seq
    <3>1. evs # <<>>
      BY <1>1, <2>1
    <3>. QED BY <3>1 DEF Evidence, Within, Tip, n
  <2>4. i < n => evs[i].seq < evs[n].seq
    BY <1>1, <2>1 DEF Evidence, Ordered
  <2>5. i = n \/ i < n
    BY <1>1
  <2>. QED BY <2>2, <2>3, <2>4, <2>5
<1>5. Ordered(ae)
  <2>1. ASSUME NEW i \in 1 .. n + 1, NEW j \in 1 .. n + 1, i < j
        PROVE  ae[i].seq < ae[j].seq
    <3>1. i \in 1 .. n
      BY <1>1, <2>1
    <3>2. CASE j = n + 1
      BY <1>2, <1>4, <3>1, <3>2
    <3>3. CASE j \in 1 .. n
      BY <1>1, <1>2, <2>1, <3>1, <3>3 DEF Evidence, Ordered
    <3>. QED BY <1>1, <3>2, <3>3
  <2>. QED BY <1>2, <2>1 DEF Ordered
<1>6. Within(ae, HeadAt(link))
  BY <1>2 DEF Within, Tip, HeadAt, Link
<1>. QED BY <1>2, <1>3, <1>5, <1>6 DEF Evidence, ae

\* On a straight chain a position that is not behind the head is the head.
LEMMA NoPositionAhead ==
  ASSUME NEW em \in Seq(Link), NEW h, Straight(h, em), NEW g, Position(g, em),
         g.seq >= h.seq
  PROVE  g = h
<1>1. Len(em) \in Nat /\ DOMAIN em = 1 .. Len(em) /\ (em = <<>> <=> Len(em) = 0)
  BY EmptySeq
<1>2. CASE em = <<>>
  BY <1>1, <1>2 DEF Straight, Position
<1>3. CASE em # <<>>
  <2>1. h = HeadAt(em[Len(em)]) /\ h.seq = Len(em) /\ Len(em) # 0
    BY <1>1, <1>3 DEF Straight, HeadAt
  <2>2. g # GenesisHead
    BY <1>1, <2>1 DEF GenesisHead
  <2>3. PICK j \in DOMAIN em : g = HeadAt(em[j])
    BY <2>2 DEF Position
  <2>4. g.seq = j
    BY <2>3 DEF Straight, HeadAt
  <2>5. j = Len(em)
    BY <1>1, <2>1, <2>4
  <2>. QED BY <2>1, <2>3, <2>5
<1>. QED BY <1>2, <1>3

-----------------------------------------------------------------------------
\* The invariant holds initially.
LEMMA InitInv == Init => IInv
<1> SUFFICES ASSUME Init PROVE IInv
  OBVIOUS
<1>1. GenesisHead \in ChainHead
  BY DEF GenesisHead, ChainHead, Hash, GENESIS
<1>2. TypeOK
  <2>1. Len(<<>>) = 0 /\ 0 <= LogCap
    OBVIOUS
  <2>2. dirty \in BOOLEAN /\ rewound \in BOOLEAN
    BY Zenon DEF Init
  <2>. QED BY <1>1, <2>1, <2>2 DEF Init, TypeOK
<1>3. Evidence(<<>>, head, emitted)
  BY DEF Evidence, Genuine, Ordered, Within
<1>4. Straight(head, emitted)
  BY DEF Init, Straight, Verified
<1>. QED BY <1>1, <1>2, <1>3, <1>4 DEF Init, IInv, Position, BackupsGood

\* Sealing an event keeps the invariant.
LEMMA SealInv == IInv /\ Seal => IInv'
<1> SUFFICES ASSUME IInv, Seal PROVE IInv'
  OBVIOUS
<1> DEFINE link == NextLink
           em == Append(emitted, link)
<1>0. /\ emitted \in Seq(Link) /\ head \in ChainHead /\ backups \in Seq(Backup)
      /\ Len(logFile) <= LogCap
  BY DEF IInv, TypeOK
<1>1. link \in Link /\ link.seq = head.seq + 1 /\ link.prevHash = head.lastHash
  <2>1. head.seq + 1 \in Nat /\ Len(emitted) + 1 \in Nat /\ head.lastHash \in Hash
    BY <1>0 DEF ChainHead
  <2>2. linkHash(head.seq + 1, head.lastHash, Len(emitted) + 1) \in Hash
    BY <2>1 DEF linkHash, Hash
  <2>. QED BY <2>1, <2>2 DEF NextLink, Link
<1>2. /\ head' = HeadAt(link) /\ headFile' = HeadAt(link)
      /\ log' = LastEvents(Append(log, link), LogCap)
      /\ logFile' = logFile /\ backups' = backups
      /\ emitted' = em
  BY DEF Seal
<1>3. dirty' \in BOOLEAN /\ rewound' \in BOOLEAN /\ rewound' = rewound
  BY Zenon DEF Seal, IInv, TypeOK
<1> HIDE DEF link
<1>4. HeadAt(link) \in ChainHead /\ HeadAt(link).seq = link.seq
  BY <1>1 DEF HeadAt, ChainHead, Link
<1>5. em \in Seq(Link) /\ Len(em) = Len(emitted) + 1 /\ em[Len(emitted) + 1] = link
      /\ \A i \in 1 .. Len(emitted) : em[i] = emitted[i]
  BY <1>0, <1>1
<1>6. Position(HeadAt(link), em)
  BY <1>4, <1>5 DEF Position
<1>7. Evidence(log', HeadAt(link), em) /\ Len(log') <= LogCap
  <2>1. Evidence(Append(log, link), HeadAt(link), em)
    BY <1>0, <1>1, EvidenceAppends DEF IInv
  <2>. QED BY <1>2, <1>4, <2>1, PrunedEvidence
<1>8. Evidence(logFile, HeadAt(link), em)
  <2>1. Evidence(logFile, head, em)
    BY <1>0, <1>1, EmittedGrows DEF IInv
  <2>2. head.seq <= HeadAt(link).seq
    BY <1>0, <1>1, <1>4 DEF ChainHead
  <2>. QED BY <1>0, <1>4, <2>1, <2>2, EvidenceGrows
<1>9. BackupsGood'
  BY <1>0, <1>1, <1>2, EmittedGrows DEF IInv, BackupsGood
<1>10. ASSUME ~rewound PROVE Straight(HeadAt(link), em)
  <2>1. Straight(head, emitted)
    BY <1>10 DEF IInv
  <2>2. Len(emitted) \in Nat /\ DOMAIN emitted = 1 .. Len(emitted)
        /\ (emitted = <<>> <=> Len(emitted) = 0)
    BY <1>0, EmptySeq
  <2>3. head.seq = Len(emitted)
    BY <2>1, <2>2 DEF Straight, HeadAt, GenesisHead
  <2>4. head.lastHash = IF emitted = <<>> THEN GENESIS ELSE emitted[Len(emitted)].hash
    BY <2>1 DEF Straight, HeadAt, GenesisHead
  <2>5. \A i \in DOMAIN em : em[i].seq = i
    BY <1>1, <1>5, <2>1, <2>2, <2>3 DEF Straight
  <2>6. ASSUME NEW i \in DOMAIN em
        PROVE  /\ em[i].prevHash = IF i = 1 THEN GENESIS ELSE em[i - 1].hash
               /\ i > 1 => em[i].seq = em[i - 1].seq + 1
    <3>1. i \in 1 .. Len(emitted) + 1
      BY <1>5, <2>2
    <3>2. i > 1 => i - 1 \in 1 .. Len(emitted)
      BY <2>2, <3>1
    <3>3. CASE i \in 1 .. Len(emitted)
      BY <1>5, <2>1, <2>2, <3>2, <3>3 DEF Straight, Verified
    <3>4. CASE i = Len(emitted) + 1
      <4>1. i = 1 => em[i].prevHash = GENESIS
        BY <1>1, <1>5, <2>2, <2>4, <3>4
      <4>2. i > 1 => em[i].prevHash = em[i - 1].hash
        BY <1>1, <1>5, <2>2, <2>4, <3>2, <3>4
      <4>3. i > 1 => em[i].seq = em[i - 1].seq + 1
        BY <2>2, <2>5, <1>5, <3>2, <3>4
      <4>. QED BY <3>1, <4>1, <4>2, <4>3
    <3>. QED BY <2>2, <3>1, <3>3, <3>4
  <2> HIDE DEF em
  <2>7. Verified(em)
    BY <2>6 DEF Verified
  <2>8. em # <<>> /\ em[Len(em)] = link
    BY <1>5, <2>2, EmptySeq
  <2>. QED BY <2>5, <2>7, <2>8 DEF Straight
<1> HIDE DEF em
<1>11. TypeOK'
  <2>1. log' \in Seq(Link) /\ logFile' \in Seq(Link)
    BY <1>2, <1>7, <1>8 DEF Evidence
  <2>. QED BY <1>0, <1>2, <1>3, <1>4, <1>5, <1>7, <2>1 DEF TypeOK
<1>. QED BY <1>2, <1>3, <1>6, <1>7, <1>8, <1>9, <1>10, <1>11 DEF IInv

\* Flushing, disposing and backing up change what evidence there is, not the position.
LEMMA LogStepInv ==
  ASSUME IInv, FlushLog \/ DisposeLog \/ TakeBackup
  PROVE  IInv'
<1>0. /\ emitted \in Seq(Link) /\ head \in ChainHead /\ backups \in Seq(Backup)
      /\ Evidence(log, head, emitted) /\ Len(log) <= LogCap
      /\ Evidence(logFile, head, emitted) /\ Len(logFile) <= LogCap
      /\ Position(head, emitted)
  BY DEF IInv, TypeOK
<1>1. UNCHANGED <<head, headFile, emitted>>
  BY DEF FlushLog, DisposeLog, TakeBackup
<1>2. dirty' \in BOOLEAN /\ rewound' \in BOOLEAN /\ rewound' = rewound
  BY Zenon DEF FlushLog, DisposeLog, TakeBackup, IInv, TypeOK
<1>3. log' \in Pruned(log) \/ log' = log
  BY DEF FlushLog, DisposeLog, TakeBackup
<1>4. logFile' = log' \/ logFile' = logFile
  BY DEF FlushLog, DisposeLog, TakeBackup
<1>5. Evidence(log', head, emitted) /\ Len(log') <= LogCap
  BY <1>0, <1>3, PrunedEvidenceSet
<1>6. Evidence(logFile', head, emitted) /\ Len(logFile') <= LogCap
  BY <1>0, <1>4, <1>5
<1>7. backups' \in Seq(Backup) /\ BackupsGood'
  <2>1. CASE backups' = backups
    BY <1>0, <1>1, <2>1 DEF IInv, BackupsGood
  <2>2. CASE backups' = Append(backups, [chain |-> head, log |-> log'])
    <3> DEFINE b == [chain |-> head, log |-> log']
               bs == Append(backups, b)
    <3>1. b \in Backup /\ b.chain = head /\ b.log = log'
      BY <1>0, <1>5 DEF Backup, Evidence
    <3> HIDE DEF b
    <3>2. /\ bs \in Seq(Backup)
          /\ \A k \in DOMAIN bs : bs[k] = b \/ (k \in DOMAIN backups /\ bs[k] = backups[k])
      BY <1>0, <3>1
    <3>3. backups' = bs
      BY <2>2 DEF b
    <3> HIDE DEF bs
    <3>. QED BY <1>0, <1>1, <1>5, <3>1, <3>2, <3>3 DEF IInv, BackupsGood
  <2>. QED BY <2>1, <2>2 DEF FlushLog, DisposeLog, TakeBackup
<1>8. log' \in Seq(Link) /\ logFile' \in Seq(Link)
  BY <1>5, <1>6 DEF Evidence
<1>9. TypeOK'
  BY <1>0, <1>1, <1>2, <1>5, <1>6, <1>7, <1>8 DEF TypeOK, IInv
<1>. QED BY <1>0, <1>1, <1>2, <1>5, <1>6, <1>7, <1>9 DEF IInv

\* What a restore does to the head: it becomes a position the chain was once at, never
\* behind the evidence that was restored with it.
LEMMA RestoredHead ==
  ASSUME IInv, NEW k \in DOMAIN backups
  PROVE  /\ Position(HeadAfterRestore(backups[k]), emitted)
         /\ LogAdvances(backups[k].log) =>
              Evidence(backups[k].log, HeadAfterRestore(backups[k]), emitted)
         /\ ~LogAdvances(backups[k].log) =>
              HeadAfterRestore(backups[k]).seq >= head.seq
         /\ (LogAdvances(backups[k].log) /\ LogReachesHead) =>
              HeadAfterRestore(backups[k]).seq >= head.seq
<1> DEFINE b == backups[k]
           evs == b.log
           h == HeadAfterLog(evs)
           g == HeadAfterRestore(b)
<1>0. /\ Position(head, emitted) /\ head \in ChainHead /\ emitted \in Seq(Link)
      /\ Position(b.chain, emitted) /\ Evidence(evs, b.chain, emitted)
      /\ b.chain \in ChainHead
  BY DEF IInv, TypeOK, BackupsGood, Position
<1>1. evs \in Seq(Link) /\ Len(evs) \in Nat /\ (evs # <<>> => Len(evs) \in DOMAIN evs)
  BY <1>0, EmptySeq DEF Evidence
<1>2. g = IF b.chain.seq >= h.seq THEN b.chain ELSE h
  BY DEF HeadAfterRestore
<1>3. h = IF LogAdvances(evs) /\ evs # <<>> THEN HeadAt(evs[Len(evs)]) ELSE head
  BY DEF HeadAfterLog
<1> HIDE DEF b, g, h, evs
<1>4. ASSUME evs # <<>>
      PROVE  /\ Position(HeadAt(evs[Len(evs)]), emitted)
             /\ HeadAt(evs[Len(evs)]).seq = Tip(evs)
             /\ Tip(evs) \in Nat
  <2>1. Len(evs) \in DOMAIN evs /\ evs[Len(evs)] \in Link
    BY <1>1, <1>4
  <2>2. \E j \in DOMAIN emitted : evs[Len(evs)] = emitted[j]
    BY <1>0, <2>1 DEF Evidence, Genuine
  <2>. QED BY <2>1, <2>2 DEF Position, HeadAt, ChainHead, Link, Tip
<1>5. Position(h, emitted) /\ h \in ChainHead
  BY <1>0, <1>3, <1>4 DEF Position
<1>6. Position(g, emitted) /\ g \in ChainHead /\ g.seq >= h.seq
  BY <1>0, <1>2, <1>5 DEF ChainHead
<1>7. ASSUME LogAdvances(evs) PROVE Evidence(evs, g, emitted)
  <2>1. CASE evs = <<>>
    BY <1>0, <2>1 DEF Evidence, Within
  <2>2. CASE evs # <<>>
    <3>1. h = HeadAt(evs[Len(evs)]) /\ Tip(evs) <= h.seq
      BY <1>3, <1>4, <1>7, <2>2
    <3>2. Evidence(evs, h, emitted)
      BY <1>0, <3>1 DEF Evidence, Within
    <3>3. h.seq <= g.seq
      BY <1>5, <1>6 DEF ChainHead
    <3>. QED BY <1>5, <1>6, <3>2, <3>3, EvidenceGrows
  <2>. QED BY <2>1, <2>2
<1>8. ASSUME ~LogAdvances(evs) PROVE g.seq >= head.seq
  BY <1>3, <1>6, <1>8
<1>9. ASSUME LogAdvances(evs), LogReachesHead PROVE g.seq >= head.seq
  <2>1. LiveTip = head.seq
    BY <1>9 DEF LogReachesHead, LiveTip
  <2>2. CASE evs = <<>>
    BY <1>3, <1>6, <2>2
  <2>3. CASE evs # <<>>
    <3>1. Tip(evs) >= head.seq
      BY <1>9, <2>1, <2>3 DEF LogAdvances
    <3>2. h.seq = Tip(evs)
      BY <1>3, <1>4, <1>9, <2>3
    <3>3. g.seq \in Nat /\ h.seq \in Nat /\ head.seq \in Nat
      BY <1>0, <1>5, <1>6 DEF ChainHead
    <3>. QED BY <1>6, <3>1, <3>2, <3>3
  <2>. QED BY <2>2, <2>3
<1>. QED BY <1>6, <1>7, <1>8, <1>9 DEF g, evs, b

\* Restoring a backup keeps the invariant.
LEMMA RestoreInv ==
  ASSUME IInv, NEW k \in DOMAIN backups, Restore(backups[k])
  PROVE  IInv'
<1> DEFINE b == backups[k]
           g == HeadAfterRestore(b)
<1>0. /\ emitted \in Seq(Link) /\ head \in ChainHead /\ backups \in Seq(Backup)
      /\ Evidence(log, head, emitted) /\ Len(log) <= LogCap
      /\ Evidence(logFile, head, emitted) /\ Len(logFile) <= LogCap
  BY DEF IInv, TypeOK
<1>1. /\ head' = g /\ headFile' = g /\ emitted' = emitted /\ backups' = backups
      /\ IF LogAdvances(b.log)
           THEN log' \in Pruned(b.log) /\ logFile' = log'
           ELSE log' = log /\ logFile' = logFile
  BY DEF Restore
<1>2. /\ dirty' \in BOOLEAN /\ rewound' \in BOOLEAN
      /\ ~rewound' => ~rewound /\ ~(head'.seq < head.seq)
  BY Zenon DEF Restore, IInv, TypeOK
<1>3. /\ Position(g, emitted) /\ g \in ChainHead
      /\ LogAdvances(b.log) => Evidence(b.log, g, emitted)
      /\ ~LogAdvances(b.log) => g.seq >= head.seq
  BY RestoredHead DEF Position
<1> HIDE DEF g, b
<1>4. /\ Evidence(log', g, emitted) /\ Len(log') <= LogCap
      /\ Evidence(logFile', g, emitted) /\ Len(logFile') <= LogCap
  <2>1. CASE LogAdvances(b.log)
    BY <1>1, <1>3, <2>1, PrunedEvidenceSet
  <2>2. CASE ~LogAdvances(b.log)
    <3>1. head.seq <= g.seq
      BY <1>0, <1>3, <2>2 DEF ChainHead
    <3>. QED BY <1>0, <1>1, <1>3, <2>2, <3>1, EvidenceGrows
  <2>. QED BY <2>1, <2>2
<1>5. ASSUME ~rewound' PROVE Straight(g, emitted)
  <2>1. Straight(head, emitted)
    BY <1>2, <1>5 DEF IInv
  <2>2. g.seq >= head.seq
    BY <1>0, <1>1, <1>2, <1>3, <1>5 DEF ChainHead
  <2>3. g = head
    BY <1>0, <1>3, <2>1, <2>2, NoPositionAhead
  <2>. QED BY <2>1, <2>3
<1>6. BackupsGood'
  BY <1>1 DEF IInv, BackupsGood
<1>7. log' \in Seq(Link) /\ logFile' \in Seq(Link)
  BY <1>4 DEF Evidence
<1>8. TypeOK'
  BY <1>0, <1>1, <1>2, <1>3, <1>4, <1>7 DEF TypeOK
<1>. QED BY <1>1, <1>2, <1>3, <1>4, <1>5, <1>6, <1>8 DEF IInv

\* Starting again from the files keeps the invariant.
LEMMA RestartInv == IInv /\ Restart => IInv'
<1> SUFFICES ASSUME IInv, Restart PROVE IInv'
  OBVIOUS
<1>1. /\ head' = headFile /\ log' = logFile /\ headFile = head
      /\ UNCHANGED <<headFile, logFile, backups, emitted>>
  BY DEF Restart, IInv
<1>2. dirty' \in BOOLEAN /\ rewound' \in BOOLEAN /\ rewound' = rewound
  BY Zenon DEF Restart, IInv, TypeOK
<1>3. TypeOK'
  BY <1>1, <1>2 DEF IInv, TypeOK
<1>. QED BY <1>1, <1>2, <1>3 DEF IInv, BackupsGood

\* Every step keeps the invariant.
LEMMA NextInv == IInv /\ [Next]_vars => IInv'
<1> SUFFICES ASSUME IInv, [Next]_vars PROVE IInv'
  OBVIOUS
<1>1. CASE UNCHANGED vars
  <2>1. dirty' = dirty /\ rewound' = rewound
    BY <1>1 DEF vars
  <2>2. UNCHANGED <<head, log, headFile, logFile, backups, emitted>>
    BY <1>1 DEF vars
  <2>3. TypeOK'
    BY <2>1, <2>2 DEF IInv, TypeOK
  <2>. QED BY <2>1, <2>2, <2>3 DEF IInv, BackupsGood
<1>. QED BY <1>1, SealInv, LogStepInv, RestoreInv, RestartInv DEF Next

-----------------------------------------------------------------------------
\* IInv is an invariant of the audit chain.
THEOREM Invariance == Spec => []IInv
<1>. QED BY InitInv, NextInv, PTL DEF Spec

\* The shapes, and the cap on the evidence.
THEOREM TypeCorrect == Spec => []TypeOK
<1>1. IInv => TypeOK
  BY DEF IInv
<1>. QED BY Invariance, <1>1, PTL

\* What was emitted is one chain as long as no restore moved the head back.
THEOREM OneChain == Spec => []EmittedIsOneChain
<1>1. IInv => EmittedIsOneChain
  BY DEF IInv, Straight, EmittedIsOneChain
<1>. QED BY Invariance, <1>1, PTL

\* The evidence log only ever holds emitted events, in the order of the chain.
THEOREM GenuineEvidence == Spec => []EvidenceIsInOrder
<1>1. IInv => EvidenceIsInOrder
  BY DEF IInv, Evidence, Genuine, Ordered, Within, EvidenceIsInOrder
<1>. QED BY Invariance, <1>1, PTL

\* The head never goes back while the log reaches up to it.
THEOREM RestoreAdvances == Spec => AdvanceOnly
<1>1. ASSUME IInv, [Next]_vars, LogReachesHead PROVE head'.seq >= head.seq
  <2>1. head.seq \in Nat /\ head.seq >= head.seq
    BY <1>1 DEF IInv, TypeOK, ChainHead
  <2>2. CASE Seal
    BY <2>1, <2>2 DEF Seal, NextLink, HeadAt
  <2>3. CASE FlushLog \/ DisposeLog \/ TakeBackup \/ UNCHANGED vars
    BY <2>1, <2>3 DEF FlushLog, DisposeLog, TakeBackup, vars
  <2>4. ASSUME NEW k \in DOMAIN backups, Restore(backups[k])
        PROVE  head'.seq >= head.seq
    <3>1. head' = HeadAfterRestore(backups[k])
      BY <2>4 DEF Restore
    <3>. QED BY <1>1, <2>4, <3>1, RestoredHead
  <2>5. CASE Restart
    BY <1>1, <2>1, <2>5 DEF Restart, IInv
  <2>. QED BY <1>1, <2>2, <2>3, <2>4, <2>5 DEF Next
<1>2. IInv /\ [Next]_vars => [LogReachesHead => head'.seq >= head.seq]_vars
  BY <1>1
<1>. QED BY Invariance, <1>2, PTL DEF Spec, AdvanceOnly
=============================================================================
