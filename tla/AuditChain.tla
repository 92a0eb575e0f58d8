----------------------------- MODULE AuditChain -----------------------------
(***************************************************************************)
(* The tamper-evident audit chain of one instance (lib/audit-chain.ts):    *)
(* the chain head, the sealed evidence log, the files both are kept in     *)
(* (lib/sealed-file.ts), and the backups that carry them                   *)
(* (lib/full-backup.ts).  The deployment is one with AUDIT_CHAIN_FILE and  *)
(* a config directory, so head and log outlive the process; the head is    *)
(* written at every seal, the log by a debounced flush.                    *)
(*                                                                         *)
(* A link's keyed hash commits to everything it was computed from, and     *)
(* distinct inputs have distinct hashes.  Both are what a hash is here:    *)
(* the sequence of all (seq, event) pairs that led to it.                  *)
(***************************************************************************)
EXTENDS Naturals, Sequences

CONSTANTS
  LogCap,      \* MAX_LOG_EVENTS: how many events the evidence log retains at most
  MaxSeals,    \* bound: events sealed in one behaviour
  MaxBackups   \* bound: backups taken in one behaviour

ASSUME AuditAssumption ==
  LogCap \in Nat \ {0} /\ MaxSeals \in Nat /\ MaxBackups \in Nat

VARIABLES
  head,      \* the position in the chain, in memory
  log,       \* the evidence log, in memory
  dirty,     \* the log has changes its file lacks (a flush is scheduled)
  headFile,  \* AUDIT_CHAIN_FILE
  logFile,   \* AUDIT_LOG_FILE
  backups,   \* sealed backups an admin keeps, in the order they were taken
  emitted,   \* history: every sealed event, as stdout and the SIEM have it
  rewound    \* history: the head was moved back

vars == <<head, log, dirty, headFile, logFile, backups, emitted, rewound>>

GENESIS == <<>>

linkHash(seq, prevHash, ev) == Append(prevHash, <<seq, ev>>)

Hash == Seq(Nat \X Nat)
ChainHead == [seq : Nat, lastHash : Hash]
Link == [seq : Nat, prevHash : Hash, hash : Hash]
Backup == [chain : ChainHead, log : Seq(Link)]

GenesisHead == [seq |-> 0, lastHash |-> GENESIS]

HeadAt(link) == [seq |-> link.seq, lastHash |-> link.hash]

Tip(evs) == evs[Len(evs)].seq

\* The last n events of evs at most: slice(-n).
LastEvents(evs, n) ==
  IF Len(evs) <= n THEN evs ELSE SubSeq(evs, Len(evs) - n + 1, Len(evs))

\* pruneLog: what the retention window leaves.  Events age in the order they were sealed,
\* so it leaves a suffix; how long a suffix is the clock's choice.
Pruned(evs) == {LastEvents(evs, n) : n \in 0 .. LogCap}

\* verifyAuditChain from the genesis hash, over events nobody has altered: every link
\* continues the one before it.
Verified(evs) ==
  \A i \in DOMAIN evs :
    /\ evs[i].prevHash = IF i = 1 THEN GENESIS ELSE evs[i - 1].hash
    /\ i > 1 => evs[i].seq = evs[i - 1].seq + 1

Init ==
  /\ head = GenesisHead /\ headFile = GenesisHead
  /\ log = <<>> /\ logFile = <<>> /\ dirty = FALSE
  /\ backups = <<>>
  /\ emitted = <<>>
  /\ rewound = FALSE

-----------------------------------------------------------------------------
\* The link that seals the next event onto the head.
NextLink ==
  LET seq == head.seq + 1 IN
    [seq |-> seq, prevHash |-> head.lastHash,
     hash |-> linkHash(seq, head.lastHash, Len(emitted) + 1)]

\* Mutation: the head is only kept in memory.
SealUnpersisted ==
  /\ Len(emitted) < MaxSeals
  /\ head' = HeadAt(NextLink)
  /\ log' = LastEvents(Append(log, NextLink), LogCap)
  /\ dirty' = TRUE
  /\ emitted' = Append(emitted, NextLink)
  /\ UNCHANGED <<headFile, logFile, backups, rewound>>

\* Mutation: the log grows without a cap.
SealUncapped ==
  /\ Len(emitted) < MaxSeals
  /\ head' = HeadAt(NextLink)
  /\ headFile' = head'
  /\ log' = Append(log, NextLink)
  /\ dirty' = TRUE
  /\ emitted' = Append(emitted, NextLink)
  /\ UNCHANGED <<logFile, backups, rewound>>

\* sealAuditEvent: the head advances and is persisted, the event joins the log, and the
\* sealed event is emitted.
Seal ==
  /\ Len(emitted) < MaxSeals
  /\ head' = HeadAt(NextLink)
  /\ headFile' = head'
  /\ log' = LastEvents(Append(log, NextLink), LogCap)
  /\ dirty' = TRUE
  /\ emitted' = Append(emitted, NextLink)
  /\ UNCHANGED <<logFile, backups, rewound>>

\* flushAuditLog, by the timer or at a graceful shutdown.
FlushLog ==
  /\ dirty
  /\ log' \in Pruned(log)
  /\ logFile' = log'
  /\ dirty' = FALSE
  /\ UNCHANGED <<head, headFile, backups, emitted, rewound>>

\* disposeAuditLog: the same, whether or not there was anything to write.
DisposeLog ==
  /\ log' \in Pruned(log)
  /\ logFile' = log'
  /\ dirty' = FALSE
  /\ UNCHANGED <<head, headFile, backups, emitted, rewound>>

\* buildFullBackup: exportAuditChain takes the head, exportAuditLog flushes and takes the
\* log.
TakeBackup ==
  /\ Len(backups) < MaxBackups
  /\ log' \in IF dirty THEN Pruned(log) ELSE {log}
  /\ logFile' = IF dirty THEN log' ELSE logFile
  /\ dirty' = FALSE
  /\ backups' = Append(backups, [chain |-> head, log |-> log'])
  /\ UNCHANGED <<head, headFile, emitted, rewound>>

\* importAuditLog compares with the tip of the log; with the head when the log is empty.
LiveTip == IF log = <<>> THEN head.seq ELSE Tip(log)

\* Mutation: an older log replaces the live one.
AnyVerifiedLog(evs) == Verified(evs)

LogAdvances(evs) ==
  /\ Verified(evs)
  /\ (IF evs = <<>> THEN 0 ELSE Tip(evs)) >= LiveTip

\* What importAuditLog and then importAuditChain make of the head.
HeadAfterLog(evs) ==
  IF LogAdvances(evs) /\ evs # <<>> THEN HeadAt(evs[Len(evs)]) ELSE head

HeadAfterRestore(b) ==
  LET h == HeadAfterLog(b.log) IN IF b.chain.seq >= h.seq THEN b.chain ELSE h

\* applyExtraStores: the evidence log first, then the head.
Restore(b) ==
  /\ IF LogAdvances(b.log)
       THEN log' \in Pruned(b.log) /\ logFile' = log' /\ dirty' = FALSE
       ELSE UNCHANGED <<log, logFile, dirty>>
  /\ head' = HeadAfterRestore(b)
  /\ headFile' = head'
  /\ rewound' = (rewound \/ head'.seq < head.seq)
  /\ UNCHANGED <<backups, emitted>>

\* Mutation: the process starts without reading the head file.
RestartAtGenesis ==
  /\ head' = GenesisHead
  /\ log' = logFile
  /\ dirty' = FALSE
  /\ UNCHANGED <<headFile, logFile, backups, emitted, rewound>>

\* The process stops and starts again: whatever was not in a file is gone.
Restart ==
  /\ head' = headFile
  /\ log' = logFile
  /\ dirty' = FALSE
  /\ UNCHANGED <<headFile, logFile, backups, emitted, rewound>>

Next ==
  \/ Seal
  \/ FlushLog
  \/ DisposeLog
  \/ TakeBackup
  \/ \E i \in DOMAIN backups : Restore(backups[i])
  \/ Restart

Spec == Init /\ [][Next]_vars

-----------------------------------------------------------------------------
\* The shapes, and the cap on the evidence the instance retains.
TypeOK ==
  /\ head \in ChainHead /\ headFile \in ChainHead
  /\ log \in Seq(Link) /\ Len(log) <= LogCap
  /\ logFile \in Seq(Link) /\ Len(logFile) <= LogCap
  /\ dirty \in BOOLEAN
  /\ backups \in Seq(Backup)
  /\ emitted \in Seq(Link)
  /\ rewound \in BOOLEAN

\* "Hash-chained: removing or reordering any event breaks every later link": what was
\* emitted since the first event is one chain, without gap or fork, across crashes,
\* restarts, disposals and restores - as long as no restore moved the head back
\* (audit-chain.ts, sealAuditEvent).
EmittedIsOneChain == ~rewound => Verified(emitted)

\* The evidence is genuine and in order: the log holds events that were emitted, each later
\* one further along the chain, and never more than the head has reached (audit-chain.ts,
\* recordToLog, importAuditLog).
EvidenceIsInOrder ==
  /\ \A i \in DOMAIN log : \E j \in DOMAIN emitted : log[i] = emitted[j]
  /\ \A i, j \in DOMAIN log : i < j => log[i].seq < log[j].seq
  /\ log # <<>> => Tip(log) <= head.seq

\* "Restore is ADVANCE-ONLY": the position never goes back while the log reaches up to the
\* head (audit-chain.ts, importAuditLog and importAuditChain).
LogReachesHead == log = <<>> \/ Tip(log) = head.seq

AdvanceOnly == [][LogReachesHead => head'.seq >= head.seq]_vars
=============================================================================
