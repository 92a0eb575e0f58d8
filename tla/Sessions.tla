------------------------------ MODULE Sessions ------------------------------
(***************************************************************************)
(* One session of one browser: the rotating sequence number its cookie     *)
(* carries, and the mark each replica keeps of it to tell a replay         *)
(* (checkSequence, issueSequence and reconcileFirstSight in                *)
(* lib/session-registry.ts; readSession, setSession and slideSession in    *)
(* routes/auth.ts).  The browser is an honest one: each request goes out   *)
(* with the cookie it holds by then, several at a time, to any replica,    *)
(* and it keeps the cookie of whichever response came last.  A request is  *)
(* checked when it arrives and at every later getSession of its handlers,  *)
(* each time with the cookie it came with, whatever was sealed meanwhile.  *)
(***************************************************************************)
EXTENDS Integers, FiniteSets

CONSTANTS
  Replicas,
  Connections, \* requests under way at a time, until the server is done with them
  Grace,       \* SESSION_SEQUENCE_GRACE
  Throttle,    \* SLIDE_THROTTLE_MS, in steps of the clock
  MaxDelay,    \* bound: a request, its service and its response take no longer
  MaxLost,     \* bound: responses that never reach the browser
  MaxReseals,  \* bound: cookies sealed anew by a handler
  MaxTime      \* bound

ASSUME SessionsAssumption ==
  /\ Grace \in Nat /\ MaxLost \in Nat /\ MaxReseals \in Nat /\ MaxTime \in Nat
  /\ Throttle \in Nat /\ MaxDelay \in Nat
  /\ IsFiniteSet(Connections) /\ Cardinality(Connections) > 1

None == -1

VARIABLES
  now,
  jar,     \* the browser's cookie
  conn,    \* what each connection is busy with
  serving, \* the requests each replica let through and may check again
  lost,    \* responses lost
  high,    \* seqs: each replica's mark of the session
  top,     \* the highest number issued; each number is published as the fleet's mark
  looking, \* reconcileFirstSight under way, with the number that was presented
  killed,  \* replicas whose entry is killed
  over,    \* the user's sessions were revoked
  resealed, \* history: cookies sealed anew by a handler
  behind   \* history: numbers issued by a replica that had not caught up with the fleet

sessionVars ==
  <<now, jar, conn, serving, lost, high, top, looking, killed, over, resealed, behind>>

Cookie == [seq : Nat, seen : Nat]
Unchanged == [seq |-> None, seen |-> None]
Idle == [stage |-> "idle"]
Busy == [stage : {"sent", "served"}, at : Nat, cookie : Cookie, reply : Cookie \cup {Unchanged}]

\* Signed in on replica r (issueSequence for a session that is new).
SessionInit ==
  \E r \in Replicas :
    /\ now = 0 /\ lost = 0
    /\ jar = [seq |-> 1, seen |-> 0]
    /\ conn = [c \in Connections |-> Idle] /\ serving = [q \in Replicas |-> {}]
    /\ high = [q \in Replicas |-> IF q = r THEN 1 ELSE None] /\ top = 1
    /\ looking = [q \in Replicas |-> None]
    /\ killed = {} /\ over = FALSE /\ resealed = 0 /\ behind = 0

-----------------------------------------------------------------------------
Send(c) ==
  /\ conn[c] = Idle
  /\ conn' = [conn EXCEPT ![c] =
       [stage |-> "sent", at |-> now, cookie |-> jar, reply |-> Unchanged]]
  /\ UNCHANGED <<now, jar, serving, lost, high, top, looking, killed, over, resealed, behind>>

Known(r) == high[r] # None

\* checkSequence: behind the mark by more than the grace.
Forks(r, seq) == r \in killed \/ (Known(r) /\ seq < high[r] - Grace)

\* checkSequence: the mark once a number in order was presented.
Seen(r, seq) == IF high[r] > seq THEN high[r] ELSE seq

\* At first sight of the session here, the fleet's mark is looked up.
LookUp(r, seq) == looking' = [looking EXCEPT ![r] = IF Known(r) THEN @ ELSE seq]

\* A request that arrives at a replica, before the session has been revoked, and is let through.
Passes(c, r) == conn[c].stage = "sent" /\ ~over /\ ~Forks(r, conn[c].cookie.seq)

\* It is served from there on, with a response that has a new cookie or none.
Serve(c, r, reply) ==
  /\ conn' = [conn EXCEPT ![c].stage = "served", ![c].reply = reply]
  /\ serving' = [serving EXCEPT ![r] = @ \cup {c}]

Outdated(cookie) == now - cookie.seen > Throttle

\* A request is taken for a replay, as it arrives or at a later look at its cookie: readSession
\* revokes the user's sessions.  (A later look that passes changes nothing: the mark is no lower
\* than its number any more.)
Fork(c, r) ==
  /\ conn[c].stage = "sent" \/ c \in serving[r]
  /\ ~over /\ Forks(r, conn[c].cookie.seq)
  /\ killed' = killed \cup {r} /\ over' = TRUE
  /\ conn' = [conn EXCEPT ![c].stage = "served"]
  /\ UNCHANGED <<now, jar, serving, lost, high, top, looking, resealed, behind>>

\* Mutation: the first number presented does not seed the mark.
AcceptUnseeded(c, r) ==
  LET seq == conn[c].cookie.seq IN
  /\ Passes(c, r) /\ ~Outdated(conn[c].cookie)
  /\ high' = IF Known(r) THEN [high EXCEPT ![r] = Seen(r, seq)] ELSE high
  /\ LookUp(r, seq)
  /\ Serve(c, r, Unchanged)
  /\ UNCHANGED <<now, jar, lost, top, killed, over, resealed, behind>>

\* The request is let through with the cookie it has.
Accept(c, r) ==
  LET seq == conn[c].cookie.seq IN
  /\ Passes(c, r) /\ ~Outdated(conn[c].cookie)
  /\ high' = [high EXCEPT ![r] = Seen(r, seq)]
  /\ LookUp(r, seq)
  /\ Serve(c, r, Unchanged)
  /\ UNCHANGED <<now, jar, lost, top, killed, over, resealed, behind>>

\* Mutation: the mark is moved on again after the number was issued.
IssueTwice(r, next) ==
  /\ high' = [high EXCEPT ![r] = next + 1]
  /\ top' = IF next + 1 > top THEN next + 1 ELSE top
  /\ behind' = IF next + 1 > top THEN behind ELSE behind + 1

\* issueSequence: a number is issued, which the fleet may be ahead of.
Issue(r, next) ==
  /\ high' = [high EXCEPT ![r] = next]
  /\ top' = IF next > top THEN next ELSE top
  /\ behind' = IF next > top THEN behind ELSE behind + 1

\* slideSession: the request is let through, and a cookie is sealed anew with the next number.
Slide(c, r) ==
  LET seq == conn[c].cookie.seq
      next == Seen(r, seq) + 1
  IN  /\ Passes(c, r) /\ Outdated(conn[c].cookie)
      /\ Issue(r, next)
      /\ LookUp(r, seq)
      /\ Serve(c, r, [seq |-> next, seen |-> now])
      /\ UNCHANGED <<now, jar, lost, killed, over, resealed>>

\* A handler seals the cookie anew: startImpersonation, stopImpersonation and the step-ups.  Where
\* it awaited something since its last look (passkey), the entry may have been killed by now:
\* issueSequence then starts it again.
Reseal(c, r) ==
  /\ c \in serving[r] /\ resealed < MaxReseals
  /\ Issue(r, high[r] + 1)
  /\ killed' = killed \ {r}
  /\ conn' = [conn EXCEPT ![c].reply = [seq |-> high[r] + 1, seen |-> now]]
  /\ resealed' = resealed + 1
  /\ UNCHANGED <<now, jar, serving, lost, looking, over>>

\* The browser's cookie once the response is in.
Taken(c) == IF conn[c].reply = Unchanged THEN jar ELSE conn[c].reply

\* The connection is free again.
Done(c) ==
  /\ conn' = [conn EXCEPT ![c] = Idle]
  /\ serving' = [r \in Replicas |-> serving[r] \ {c}]

\* A response comes in, in any order, and the server is done with its request.
Receive(c) ==
  /\ conn[c].stage = "served"
  /\ jar' = Taken(c)
  /\ Done(c)
  /\ UNCHANGED <<now, lost, high, top, looking, killed, over, resealed, behind>>

\* A response comes in while the server may yet look at its request: the handler of a stream, or
\* auditMiddleware once the response is finished.
ReceiveEarly(c) ==
  /\ conn[c].stage = "served"
  /\ jar' = Taken(c)
  /\ conn' = [conn EXCEPT ![c].reply = Unchanged]
  /\ UNCHANGED <<now, serving, lost, high, top, looking, killed, over, resealed, behind>>

\* A new cookie is lost on the way, or its request was given up; in either case the connection is
\* free once the server is done.
Lose(c) ==
  /\ conn[c].stage = "served" /\ conn[c].reply # Unchanged /\ lost < MaxLost
  /\ lost' = lost + 1
  /\ Done(c)
  /\ UNCHANGED <<now, jar, high, top, looking, killed, over, resealed, behind>>

-----------------------------------------------------------------------------
\* reconcileFirstSight.  publishSeqMark is not awaited: the fleet's mark may be any number
\* issued, or none, or fail to be read.
Reconcile(r) ==
  /\ looking[r] # None
  /\ killed' \in {killed} \cup (IF top > looking[r] + Grace THEN {killed \cup {r}} ELSE {})
  /\ looking' = [looking EXCEPT ![r] = None]
  /\ UNCHANGED <<now, jar, conn, serving, lost, high, top, over, resealed, behind>>

\* A replica restarts: its marks were in memory.  What it had in service ends there.
Restart(r) ==
  /\ Known(r)
  /\ high' = [high EXCEPT ![r] = None]
  /\ looking' = [looking EXCEPT ![r] = None]
  /\ killed' = killed \ {r}
  /\ serving' = [serving EXCEPT ![r] = {}]
  /\ UNCHANGED <<now, jar, conn, lost, top, over, resealed, behind>>

\* Time passes; requests take no longer than they may, and a lookup less than a step.
Advance ==
  /\ now < MaxTime
  /\ \A r \in Replicas : looking[r] = None
  /\ \A c \in Connections : conn[c] # Idle => now - conn[c].at < MaxDelay
  /\ now' = now + 1
  /\ UNCHANGED <<jar, conn, serving, lost, high, top, looking, killed, over, resealed, behind>>

SessionNext ==
  \/ \E c \in Connections :
       \/ Send(c) \/ Receive(c) \/ ReceiveEarly(c) \/ Lose(c)
       \/ \E r \in Replicas : Fork(c, r) \/ Accept(c, r) \/ Slide(c, r) \/ Reseal(c, r)
  \/ \E r \in Replicas : Reconcile(r) \/ Restart(r)
  \/ Advance

SessionSpec == SessionInit /\ [][SessionNext]_sessionVars

-----------------------------------------------------------------------------
SessionTypeOK ==
  /\ now \in Nat /\ jar \in Cookie /\ lost \in 0..MaxLost /\ resealed \in 0..MaxReseals
  /\ conn \in [Connections -> Busy \cup {Idle}]
  /\ serving \in [Replicas -> SUBSET Connections]
  /\ high \in [Replicas -> Nat \cup {None}] /\ top \in Nat
  /\ looking \in [Replicas -> Nat \cup {None}]
  /\ killed \subseteq Replicas /\ over \in BOOLEAN /\ behind \in Nat
  /\ \A r \in Replicas :
       /\ high[r] <= top /\ (looking[r] # None => Known(r))
       /\ \A c \in serving[r] : conn[c].stage = "served" /\ conn[c].cookie.seq <= high[r]

\* "A small GRACE window absorbs normal browser request concurrency (many in-flight requests
\* share the pre-re-seal cookie) so it never false-kills" (session-registry.ts:80-81).
NeverFalseKills == killed = {}

\* The numbers a session may move on by while a cookie of it is still presented: two for each
\* further connection and one for the request that presents it, one for each lost response and
\* each cookie a handler sealed, and, for each number issued by a replica that had not caught
\* up, one for each connection beyond the second.
Absorbed ==
  2 * Cardinality(Connections) - 1 + lost + resealed + behind * (Cardinality(Connections) - 2)

\* What the grace does absorb, for an honest browser whose requests take at most a third of
\* the throttle: no order of requests, of looks at their cookies and of responses, over any
\* replicas and restarts, is taken for a replay before the session may have moved on by more
\* than the grace.
GraceAbsorbs == (3 * MaxDelay <= Throttle /\ killed # {}) => Grace < Absorbed
=============================================================================
