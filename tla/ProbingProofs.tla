--------------------------- MODULE ProbingProofs ---------------------------
(***************************************************************************)
(* Proofs about the uptime sessions of monitored peers, for any peers,     *)
(* connections, dialers, addresses, errors, grace periods and intervals,   *)
(* and for any overlap of the transactions.                                *)
(***************************************************************************)
EXTENDS Probing, FiniteSetTheorems, SequenceTheorems, TLAPS

-----------------------------------------------------------------------------
\* Types.

Reported == {v \in Stored : v.start <= v.end}
OpenRow == {s \in Session : s.id # 0 /\ s.state # "closed"}
AddrRow == [addr : Addr, by : Nat]

Dial == [pc : {"dial", "pause", "close"}, peer : Peer, start : Nat, retry : Nat,
         error : Errors \union {NoError}, reached : BOOLEAN]

Tx == [pc : {"addresses", "read", "write"}, visit : Reported, by : Nat,
       del : SUBSET AddrRow, ins : SUBSET Addr, es : OpenRow \union {NoSession}]

Ended == [peer : Peer, row : Session, hist : Seq(Reported), stale : BOOLEAN]

TypeInv ==
  /\ now \in 0..MaxTime /\ visits \in Nat /\ sessions \in Nat
  /\ known \subseteq Peer
  /\ addrRows \in [Peer -> SUBSET AddrRow]
  /\ open \in [Peer -> OpenRow \union {NoSession}]
  /\ closed \subseteq Ended
  /\ tx \in [Writer -> Tx \union {Idle}]
  /\ stale \in [Peer -> BOOLEAN]
  /\ hist \in [Peer -> Seq(Reported)]
  /\ tasks \subseteq Peer
  /\ results \in [Peer -> Reported \union {NoResult}]
  /\ dial \in [Workers -> Dial \union {NoDial}]
  /\ \A d \in Workers : dial[d] # NoDial => dial[d].start <= now
  /\ ctxDone \in BOOLEAN

-----------------------------------------------------------------------------
\* The first inductive invariant: what a dialer found is what is stored.

Faithful(v) == Succeeded(v) <=> v.reached

\* A dialer has reached the peer just when its last attempt left no error, and
\* only the end of the monitor cancels an attempt.
DialInv(d) ==
  /\ dial[d].error = Canceled => ctxDone
  /\ dial[d].pc # "close" => ~dial[d].reached
  /\ dial[d].pc # "dial" => (dial[d].error = NoError <=> dial[d].reached)

VerdictInv ==
  /\ \A d \in Workers : dial[d] # NoDial => DialInv(d)
  /\ \A p \in Peer : results[p] # NoResult =>
       Faithful(results[p]) /\ (results[p].error = Canceled => ctxDone)
  /\ \A w \in Writer : tx[w] # Idle =>
       Faithful(tx[w].visit) /\ tx[w].visit.error # Canceled

VerdictIInv == TypeInv /\ VerdictInv /\ VerdictsAreReal

-----------------------------------------------------------------------------
\* The second inductive invariant: what holds of a session whoever stored its
\* visits, and what more when each was stored from the row before it.

\* LastOk is the position of the last successful visit.
Ordered(h) ==
  /\ LastOk(h) \in DOMAIN h /\ Succeeded(h[LastOk(h)])
  /\ \A i \in DOMAIN h : Succeeded(h[i]) => i <= LastOk(h)

\* The successes, and the successes that follow a failure.
Successes(h) == {i \in DOMAIN h : Succeeded(h[i])}
Recoveries(h) == {i \in 2..Len(h) : Succeeded(h[i]) /\ ~Succeeded(h[i - 1])}

\* The recoveries there would be if the next visit succeeded, by the visits and
\* by a row: the row counts the one to come when it is pending.
Potential(h) == Cardinality(Recoveries(h)) + (IF Failures(h) = 0 THEN 0 ELSE 1)
Counted(row) == row.recovered + (IF row.state = "pending" THEN 1 ELSE 0)

NextIsNear(row) ==
  row.due > row.visited /\ row.due <= row.visited + Max({MaxInterval, 3 * MinInterval})

LooseSound(row, h) ==
  Ordered(h) /\ NeverOvercounts(row, h) /\ Counted(row) <= Potential(h) /\ NextIsNear(row)

OpenSound(row, h) ==
  /\ Ordered(h) /\ Summarises(row, h)
  /\ row.state = (IF Failures(h) = 0 THEN "open" ELSE "pending")
  /\ \A k \in 1..Failures(h) : Forgiven(row, h, k)
  /\ NextIsNear(row)

ClosedLoose(row, h) ==
  Ordered(h) /\ NeverOvercounts(row, h) /\ row.state = "closed" /\ Failures(h) > 0

ClosedSound(row, h) ==
  /\ Ordered(h) /\ Summarises(row, h)
  /\ row.state = "closed" /\ Failures(h) > 0
  /\ \A k \in 1..Failures(h) : Forgiven(row, h, k) <=> k < Failures(h)

SoundInv ==
  /\ \A p \in Peer : open[p] = NoSession => hist[p] = <<>> /\ ~stale[p]
  /\ \A p \in Peer : open[p] # NoSession =>
       LooseSound(open[p], hist[p]) /\ (~stale[p] => OpenSound(open[p], hist[p]))
  /\ \A c \in closed : ClosedLoose(c.row, c.hist) /\ (~c.stale => ClosedSound(c.row, c.hist))

\* A row that was read counts no more than the visits of its session, also when
\* others have been stored since.
Earlier(es, row, h) ==
  /\ es.firstOk = row.firstOk
  /\ es.ok <= Cardinality(Successes(h))
  /\ Counted(es) <= Potential(h)

\* A transaction writes the session it has read, unless that one has ended or
\* another has begun.
ReadInv ==
  /\ \A p \in Peer : open[p].id <= sessions
  /\ \A w \in Writer : tx[w].pc = "write" /\ tx[w].es # NoSession =>
       LET p == tx[w].visit.peer IN
       /\ tx[w].es.id <= sessions
       /\ tx[w].es.id = open[p].id => Earlier(tx[w].es, open[p], hist[p])

SessionIInv == TypeInv /\ SoundInv /\ ReadInv

-----------------------------------------------------------------------------
\* The helpers of upsert_session.

\* The greatest element of a set, once it is known.
LEMMA MaxIs ==
  ASSUME NEW S \in SUBSET Int, NEW m \in S, \A x \in S : x <= m
  PROVE  Max(S) = m
<1>1. \E x \in S : \A y \in S : x >= y
  OBVIOUS
<1>2. Max(S) \in S /\ \A y \in S : Max(S) >= y
  BY <1>1, Zenon DEF Max
<1>3. Max(S) \in Int /\ m \in Int /\ Max(S) <= m /\ Max(S) >= m
  BY <1>2
<1> QED
  BY <1>3

\* The longest time from a visit to the next one.
Furthest == Max({MaxInterval, 3 * MinInterval})

LEMMA FurthestBounds ==
  /\ MinInterval \in Nat \ {0} /\ MaxInterval \in Nat \ {0}
  /\ Furthest \in Nat /\ Furthest >= MaxInterval /\ Furthest >= 3 * MinInterval
<1>1. MinInterval \in Nat \ {0} /\ MaxInterval \in Nat \ {0}
  BY SessionConstants
<1>2. CASE MaxInterval >= 3 * MinInterval
  <2>1. Max({MaxInterval, 3 * MinInterval}) = MaxInterval
    BY <1>1, <1>2, MaxIs
  <2> QED
    BY <1>1, <1>2, <2>1 DEF Furthest
<1>3. CASE MaxInterval < 3 * MinInterval
  <2>1. Max({MaxInterval, 3 * MinInterval}) = 3 * MinInterval
    BY <1>1, <1>3, MaxIs
  <2> QED
    BY <1>1, <1>3, <2>1 DEF Furthest
<1> QED
  BY <1>1, <1>2, <1>3

LEMMA NextVisitBounds ==
  ASSUME NEW end \in Nat, NEW last \in Nat
  PROVE  /\ CalcNextVisit(end, last) \in Nat /\ FirstNextVisit(end) \in Nat
         /\ CalcNextVisit(end, last) > end /\ CalcNextVisit(end, last) <= end + Furthest
         /\ FirstNextVisit(end) > end /\ FirstNextVisit(end) <= end + Furthest
<1>1. /\ CalcNextVisit(end, last) \in Nat /\ FirstNextVisit(end) \in Nat
      /\ CalcNextVisit(end, last) > end /\ CalcNextVisit(end, last) <= end + MaxInterval
      /\ FirstNextVisit(end) > end /\ FirstNextVisit(end) <= end + MaxInterval
  BY FurthestBounds DEF CalcNextVisit, FirstNextVisit
<1> QED
  BY <1>1, FurthestBounds

LEMMA MaxFailedVisitsType ==
  ASSUME NEW first, NEW last, NEW error
  PROVE  CalcMaxFailedVisits(first, last, error) \in 0..3
<1> DEFINE S == {i \in 1..3 : \A j \in 1..i : last - first >= Grace[j]}
<1>1. IsFiniteSet(1..3) /\ Cardinality(1..3) = 3
  <2>1. IsFiniteSet(1..3) /\ Cardinality(1..3) = IF 1 > 3 THEN 0 ELSE 3 - 1 + 1
    <3>1. 1 \in Int /\ 3 \in Int
      OBVIOUS
    <3> QED
      BY <3>1, FS_Interval, Zenon
  <2> QED
    BY <2>1
<1>2. IsFiniteSet(S) /\ Cardinality(S) <= 3
  <2>1. S \in SUBSET (1..3)
    OBVIOUS
  <2> HIDE DEF S
  <2>2. IsFiniteSet(S) /\ Cardinality(S) <= Cardinality(1..3)
    BY <1>1, <2>1, FS_Subset, Zenon
  <2> QED
    BY <1>1, <2>2
<1>3. Cardinality(S) \in Nat
  BY <1>2, FS_CardinalityType
<1>4. Cardinality(S) \in 0..3
  BY <1>2, <1>3
<1> QED
  BY <1>4 DEF CalcMaxFailedVisits

-----------------------------------------------------------------------------
\* Types of session rows.

LEMMA RowKinds ==
  /\ \A s \in Session : s # NoSession
  /\ NoSession.id = 0
BY DEF Session, NoSession

LEMMA NewSessionType ==
  ASSUME NEW id \in Nat \ {0}, NEW v \in Reported
  PROVE  NewSession(id, v) \in OpenRow
BY NextVisitBounds DEF NewSession, OpenRow, Session, Reported, Stored

LEMMA WriteSessionType ==
  ASSUME NEW es \in OpenRow, NEW row \in OpenRow, NEW v \in Reported
  PROVE  /\ UpdateNoError(es, row, v) \in OpenRow
         /\ UpdateOpenError(es, row, v) \in OpenRow
         /\ UpdatePendingError(es, row, v) \in OpenRow
         /\ CloseSession(es, row, v) \in Session
<1> DEFINE max == CalcMaxFailedVisits(es.firstOk, es.lastOk, v.error)
<1>1. /\ v.start \in Nat /\ v.end \in Nat /\ v.error \in Errors \union {NoError}
      /\ es.lastOk \in Nat /\ es.ok \in Nat /\ es.failed \in Nat /\ es.recovered \in Nat
      /\ es.firstFailed \in Nat \union {NoTime} /\ es.reason \in Errors \union {NoError}
      /\ row \in Session /\ row.id # 0 /\ row.state # "closed"
  BY DEF Reported, Stored, OpenRow, Session
<1>2. CalcNextVisit(v.end, es.lastOk) \in Nat
  BY <1>1, NextVisitBounds
<1>3. max \in {0, 1, 2, 3}
  BY MaxFailedVisitsType
<1>4. v.end + max * MinInterval \in Nat
  BY <1>1, <1>3, FurthestBounds
<1>5. /\ es.failed + 1 \in Nat /\ NoTime \in Nat \union {NoTime}
      /\ (IF es.firstFailed = NoTime THEN v.start ELSE es.firstFailed) \in Nat \union {NoTime}
      /\ (IF es.reason = NoError THEN v.error ELSE es.reason) \in Errors \union {NoError}
  BY <1>1
<1>6. UpdateNoError(es, row, v) \in OpenRow
  <2>1. es.recovered + (IF es.state = "pending" THEN 1 ELSE 0) \in Nat /\ es.ok + 1 \in Nat
    BY <1>1
  <2>2. UpdateNoError(es, row, v) \in Session
    BY <1>1, <1>2, <2>1 DEF UpdateNoError, Session
  <2>3. UpdateNoError(es, row, v).id = row.id /\ UpdateNoError(es, row, v).state = "open"
    BY <1>1 DEF UpdateNoError, Session
  <2> QED
    BY <1>1, <2>2, <2>3 DEF OpenRow
<1>7. UpdateOpenError(es, row, v) \in OpenRow
  <2>1. UpdateOpenError(es, row, v) \in Session
    BY <1>1, <1>5, <1>4 DEF UpdateOpenError, Session
  <2>2. UpdateOpenError(es, row, v).id = row.id /\ UpdateOpenError(es, row, v).state = "pending"
    BY <1>1 DEF UpdateOpenError, Session
  <2> QED
    BY <1>1, <2>1, <2>2 DEF OpenRow
<1>8. UpdatePendingError(es, row, v) \in OpenRow
  <2>1. UpdatePendingError(es, row, v) \in Session
    BY <1>1, <1>5, <1>2 DEF UpdatePendingError, Session
  <2>2. /\ UpdatePendingError(es, row, v).id = row.id
        /\ UpdatePendingError(es, row, v).state = row.state
    BY <1>1 DEF UpdatePendingError, Session
  <2> QED
    BY <1>1, <2>1, <2>2 DEF OpenRow
<1>9. CloseSession(es, row, v) \in Session
  BY <1>1, <1>5 DEF CloseSession, Session
<1> QED
  BY <1>6, <1>7, <1>8, <1>9

-----------------------------------------------------------------------------
\* The visits of a session, as one is appended to them.

LEMMA LastOkIs ==
  ASSUME NEW h \in Seq(Reported), NEW i \in 1..Len(h), Succeeded(h[i]),
         \A j \in 1..Len(h) : Succeeded(h[j]) => j <= i
  PROVE  LastOk(h) = i /\ Ordered(h)
<1>1. Len(h) \in Nat /\ DOMAIN h = 1..Len(h)
  BY LenProperties
<1> DEFINE S == {j \in DOMAIN h : Succeeded(h[j])}
<1>2. S \in SUBSET Int /\ i \in S /\ \A j \in S : j <= i
  BY <1>1
<1>3. Max(S) = i
  <2> HIDE DEF S
  <2> QED
    BY <1>2, MaxIs
<1>4. LastOk(h) = i
  BY <1>3 DEF LastOk
<1> QED
  BY <1>1, <1>4 DEF Ordered

\* What is known of the visits of a session.
LEMMA OrderedFacts ==
  ASSUME NEW h \in Seq(Reported), Ordered(h)
  PROVE  /\ Len(h) \in Nat \ {0} /\ DOMAIN h = 1..Len(h)
         /\ LastOk(h) \in 1..Len(h) /\ Failures(h) \in Nat
         /\ Failures(h) = 0 <=> LastOk(h) = Len(h)
BY LenProperties DEF Ordered, Failures

LEMMA SuccessIsLast ==
  ASSUME NEW h \in Seq(Reported), NEW v \in Reported, Succeeded(v)
  PROVE  /\ Ordered(Append(h, v))
         /\ LastOk(Append(h, v)) = Len(h) + 1 /\ Failures(Append(h, v)) = 0
<1> DEFINE g == Append(h, v)
<1>1. g \in Seq(Reported) /\ Len(g) = Len(h) + 1 /\ Len(h) \in Nat /\ g[Len(h) + 1] = v
  BY AppendProperties, LenProperties
<1> HIDE DEF g
<1>2. LastOk(g) = Len(h) + 1 /\ Ordered(g)
  BY <1>1, LastOkIs
<1>3. Failures(g) = 0
  BY <1>1, <1>2 DEF Failures
<1> QED
  BY <1>2, <1>3 DEF g

LEMMA FailureIsCounted ==
  ASSUME NEW h \in Seq(Reported), NEW v \in Reported, ~Succeeded(v), Ordered(h)
  PROVE  /\ Ordered(Append(h, v))
         /\ LastOk(Append(h, v)) = LastOk(h) /\ Failures(Append(h, v)) = Failures(h) + 1
<1> DEFINE g == Append(h, v)
<1>1. /\ g \in Seq(Reported) /\ Len(g) = Len(h) + 1 /\ g[Len(h) + 1] = v
      /\ \A i \in 1..Len(h) : g[i] = h[i]
  BY AppendProperties
<1> HIDE DEF g
<1>2. Len(h) \in Nat /\ LastOk(h) \in 1..Len(h) /\ Failures(h) \in Nat
  BY OrderedFacts
<1>3. LastOk(h) \in 1..Len(g) /\ Succeeded(g[LastOk(h)])
  BY <1>1, <1>2 DEF Ordered
<1>4. \A j \in 1..Len(g) : Succeeded(g[j]) => j <= LastOk(h)
  BY <1>1, <1>2, LenProperties DEF Ordered
<1>5. LastOk(g) = LastOk(h) /\ Ordered(g)
  BY <1>1, <1>3, <1>4, LastOkIs
<1>6. Failures(g) = Failures(h) + 1
  BY <1>1, <1>2, <1>5 DEF Failures
<1> QED
  BY <1>5, <1>6 DEF g

LEMMA FiniteCounts ==
  ASSUME NEW h \in Seq(Reported)
  PROVE  /\ IsFiniteSet(Successes(h)) /\ IsFiniteSet(Recoveries(h))
         /\ Cardinality(Successes(h)) \in Nat /\ Cardinality(Recoveries(h)) \in Nat
<1>1. Len(h) \in Nat /\ DOMAIN h = 1..Len(h)
  BY LenProperties
<1>2. IsFiniteSet(1..Len(h))
  BY <1>1, FS_Interval
<1>3. Successes(h) \in SUBSET (1..Len(h)) /\ Recoveries(h) \in SUBSET (1..Len(h))
  BY <1>1 DEF Successes, Recoveries
<1>4. IsFiniteSet(Successes(h)) /\ IsFiniteSet(Recoveries(h))
  BY <1>2, <1>3, FS_Subset, Zenon
<1> QED
  BY <1>4, FS_CardinalityType

LEMMA FailureCounts ==
  ASSUME NEW h \in Seq(Reported), NEW v \in Reported, ~Succeeded(v)
  PROVE  /\ Successes(Append(h, v)) = Successes(h)
         /\ Recoveries(Append(h, v)) = Recoveries(h)
<1> DEFINE g == Append(h, v)
<1>1. /\ g \in Seq(Reported) /\ Len(g) = Len(h) + 1 /\ g[Len(h) + 1] = v
      /\ \A i \in 1..Len(h) : g[i] = h[i]
      /\ Len(h) \in Nat /\ DOMAIN h = 1..Len(h) /\ DOMAIN g = 1..Len(g)
  BY AppendProperties, LenProperties
<1> HIDE DEF g
<1>2. Successes(g) = Successes(h)
  BY <1>1 DEF Successes
<1>3. Recoveries(g) = Recoveries(h)
  BY <1>1 DEF Recoveries
<1> QED
  BY <1>2, <1>3 DEF g

LEMMA SuccessCounts ==
  ASSUME NEW h \in Seq(Reported), NEW v \in Reported, Succeeded(v), Ordered(h)
  PROVE  /\ Cardinality(Successes(Append(h, v))) = Cardinality(Successes(h)) + 1
         /\ Cardinality(Recoveries(Append(h, v))) =
              Cardinality(Recoveries(h)) + (IF Failures(h) = 0 THEN 0 ELSE 1)
<1> DEFINE g == Append(h, v)
           n == Len(h) + 1
<1>1. /\ g \in Seq(Reported) /\ Len(g) = n /\ g[n] = v
      /\ \A i \in 1..Len(h) : g[i] = h[i]
      /\ Len(h) \in Nat /\ DOMAIN h = 1..Len(h) /\ DOMAIN g = 1..Len(g)
  BY AppendProperties, LenProperties
<1> HIDE DEF g
<1>2. Successes(g) = Successes(h) \union {n} /\ n \notin Successes(h)
  BY <1>1 DEF Successes
<1>3. Cardinality(Successes(g)) = Cardinality(Successes(h)) + 1
  BY <1>2, FiniteCounts, FS_AddElement
<1>4. Len(h) >= 1 /\ (Failures(h) = 0 <=> Succeeded(h[Len(h)]))
  BY OrderedFacts DEF Ordered
<1>5. CASE Failures(h) = 0
  <2>1. Recoveries(g) = Recoveries(h)
    BY <1>1, <1>4, <1>5 DEF Recoveries
  <2> QED
    BY <1>3, <1>5, <2>1, FiniteCounts DEF g
<1>6. CASE Failures(h) # 0
  <2>1. Recoveries(g) = Recoveries(h) \union {n} /\ n \notin Recoveries(h)
    BY <1>1, <1>4, <1>6 DEF Recoveries
  <2>2. Cardinality(Recoveries(g)) = Cardinality(Recoveries(h)) + 1
    BY <2>1, FiniteCounts, FS_AddElement
  <2> QED
    BY <1>3, <1>6, <2>2 DEF g
<1> QED
  BY <1>5, <1>6

-----------------------------------------------------------------------------
\* upsert_session keeps a row sound that it writes from what it is.

LEMMA SummarisesCounts ==
  ASSUME NEW row, NEW h \in Seq(Reported)
  PROVE  Summarises(row, h) <=>
           LET last == LastOk(h) IN
           /\ Succeeded(h[1])
           /\ row.firstOk = h[1].start /\ row.lastOk = h[last].end
           /\ row.visited = h[Len(h)].end
           /\ row.ok = Cardinality(Successes(h))
           /\ row.failed = Failures(h)
           /\ row.recovered = Cardinality(Recoveries(h))
           /\ IF last < Len(h)
              THEN row.reason = h[last + 1].error /\ row.firstFailed = h[last + 1].start
              ELSE row.reason = NoError /\ row.firstFailed = NoTime
           /\ row.firstOk <= row.lastOk
BY DEF Summarises, Successes, Recoveries

\* The first visit of a session.
LEMMA NewSessionSound ==
  ASSUME NEW id \in Nat \ {0}, NEW v \in Reported, Succeeded(v)
  PROVE  OpenSound(NewSession(id, v), Append(<<>>, v))
<1> DEFINE h == Append(<<>>, v)
           row == NewSession(id, v)
<1>1. <<>> \in Seq(Reported) /\ Len(<<>>) = 0
  OBVIOUS
<1>2. h \in Seq(Reported) /\ Len(h) = 1 /\ h[1] = v /\ DOMAIN h = 1..1
  BY <1>1, AppendProperties, LenProperties
<1>3. Ordered(h) /\ LastOk(h) = 1 /\ Failures(h) = 0
  <2>1. Ordered(h) /\ LastOk(h) = Len(<<>>) + 1 /\ Failures(h) = 0
    BY <1>1, SuccessIsLast, Zenon
  <2> QED
    BY <1>1, <2>1
<1> HIDE DEF h
<1>4. Cardinality(Successes(h)) = 1
  <2>1. Successes(h) = {1}
    BY <1>2 DEF Successes
  <2> QED
    BY <2>1, FS_Singleton
<1>5. Cardinality(Recoveries(h)) = 0
  <2>1. Recoveries(h) = {}
    BY <1>2 DEF Recoveries
  <2> QED
    BY <2>1, FS_EmptySet
<1>6. v.start \in Nat /\ v.end \in Nat /\ v.start <= v.end
  BY DEF Reported, Stored
<1>7. Summarises(row, h)
  BY <1>2, <1>3, <1>4, <1>5, <1>6, SummarisesCounts DEF NewSession
<1>8. row.due > row.visited /\ row.due <= row.visited + Furthest
  BY <1>6, NextVisitBounds DEF NewSession
<1> QED
  BY <1>3, <1>7, <1>8 DEF OpenSound, NextIsNear, Furthest, NewSession, h

\* A success, of an open or a pending session.
LEMMA SuccessSound ==
  ASSUME NEW row \in OpenRow, NEW h \in Seq(Reported), NEW v \in Reported,
         OpenSound(row, h), Succeeded(v), v.end >= row.firstOk
  PROVE  OpenSound(UpdateNoError(row, row, v), Append(h, v))
<1> DEFINE g == Append(h, v)
           new == UpdateNoError(row, row, v)
<1>1. /\ g \in Seq(Reported) /\ Len(g) = Len(h) + 1 /\ g[Len(h) + 1] = v
      /\ \A i \in 1..Len(h) : g[i] = h[i]
  BY AppendProperties
<1>2. Ordered(g) /\ LastOk(g) = Len(h) + 1 /\ Failures(g) = 0
  BY SuccessIsLast
<1>3. Ordered(h) /\ Summarises(row, h) /\ Len(h) \in Nat \ {0}
  BY OrderedFacts DEF OpenSound
<1>4. /\ Cardinality(Successes(g)) = Cardinality(Successes(h)) + 1
      /\ Cardinality(Recoveries(g)) =
           Cardinality(Recoveries(h)) + (IF Failures(h) = 0 THEN 0 ELSE 1)
  BY <1>3, SuccessCounts
<1>5. /\ new.state = "open" /\ new.firstOk = row.firstOk /\ new.lastOk = v.end
      /\ new.visited = v.end /\ new.ok = row.ok + 1 /\ new.failed = 0
      /\ new.firstFailed = NoTime /\ new.reason = NoError
      /\ new.recovered = row.recovered + (IF row.state = "pending" THEN 1 ELSE 0)
      /\ new.due = CalcNextVisit(v.end, row.lastOk)
  BY DEF UpdateNoError, OpenRow, Session
<1>6. row.state = (IF Failures(h) = 0 THEN "open" ELSE "pending")
  BY DEF OpenSound
<1>7. v.end \in Nat /\ row.lastOk \in Nat
  BY DEF Reported, Stored, OpenRow, Session
<1> HIDE DEF g, new
<1>8. /\ Succeeded(h[1]) /\ row.firstOk = h[1].start
      /\ row.ok = Cardinality(Successes(h)) /\ row.recovered = Cardinality(Recoveries(h))
  BY <1>3, SummarisesCounts
<1>9. new.recovered = Cardinality(Recoveries(g))
  BY <1>4, <1>5, <1>6, <1>8
<1>10. Summarises(new, g)
  BY <1>1, <1>2, <1>3, <1>4, <1>5, <1>8, <1>9, SummarisesCounts
<1>11. new.due > new.visited /\ new.due <= new.visited + Furthest
  <2>1. /\ CalcNextVisit(v.end, row.lastOk) > v.end
        /\ CalcNextVisit(v.end, row.lastOk) <= v.end + Furthest
    BY <1>7, NextVisitBounds
  <2> QED
    BY <1>5, <2>1
<1> QED
  BY <1>2, <1>5, <1>10, <1>11 DEF OpenSound, NextIsNear, Furthest, g, new

\* What every failure makes of a row: new is any of the three updates.
CountsFailure(new, row, v) ==
  /\ new.firstOk = row.firstOk /\ new.lastOk = row.lastOk /\ new.ok = row.ok
  /\ new.recovered = row.recovered /\ new.visited = v.end /\ new.failed = row.failed + 1
  /\ new.firstFailed = (IF row.state = "open" THEN v.start ELSE row.firstFailed)
  /\ new.reason = (IF row.state = "open" THEN v.error ELSE row.reason)

LEMMA FailureSums ==
  ASSUME NEW row \in OpenRow, NEW h \in Seq(Reported), NEW v \in Reported, NEW new,
         OpenSound(row, h), ~Succeeded(v), CountsFailure(new, row, v)
  PROVE  Ordered(Append(h, v)) /\ Summarises(new, Append(h, v))
<1> DEFINE g == Append(h, v)
<1>1. /\ g \in Seq(Reported) /\ Len(g) = Len(h) + 1 /\ g[Len(h) + 1] = v
      /\ \A i \in 1..Len(h) : g[i] = h[i]
  BY AppendProperties
<1>2. /\ Ordered(h) /\ Summarises(row, h) /\ Len(h) \in Nat \ {0}
      /\ LastOk(h) \in 1..Len(h) /\ (Failures(h) = 0 <=> LastOk(h) = Len(h))
  BY OrderedFacts DEF OpenSound
<1>3. Ordered(g) /\ LastOk(g) = LastOk(h) /\ Failures(g) = Failures(h) + 1
  BY <1>2, FailureIsCounted
<1>4. Successes(g) = Successes(h) /\ Recoveries(g) = Recoveries(h)
  BY FailureCounts
<1>5. row.state = (IF Failures(h) = 0 THEN "open" ELSE "pending")
  BY DEF OpenSound
<1> HIDE DEF g
<1>6. new.reason = g[LastOk(g) + 1].error /\ new.firstFailed = g[LastOk(g) + 1].start
  <2>1. CASE LastOk(h) = Len(h)
    BY <1>1, <1>2, <1>3, <1>5, <2>1 DEF CountsFailure
  <2>2. CASE LastOk(h) < Len(h)
    <3>1. row.reason = h[LastOk(h) + 1].error /\ row.firstFailed = h[LastOk(h) + 1].start
      BY <1>2, <2>2, SummarisesCounts
    <3>2. g[LastOk(h) + 1] = h[LastOk(h) + 1]
      BY <1>1, <1>2, <2>2
    <3> QED
      BY <1>2, <1>3, <1>5, <2>2, <3>1, <3>2 DEF CountsFailure
  <2> QED
    BY <1>2, <2>1, <2>2
<1>7. Summarises(new, g)
  BY <1>1, <1>2, <1>3, <1>4, <1>6, SummarisesCounts DEF CountsFailure
<1> QED
  BY <1>3, <1>7 DEF g

\* The uptime forgives a failure as it did before.
LEMMA ForgivenStays ==
  ASSUME NEW row \in OpenRow, NEW h \in Seq(Reported), NEW v \in Reported, NEW new,
         OpenSound(row, h), ~Succeeded(v), CountsFailure(new, row, v)
  PROVE  /\ \A k \in 1..Failures(h) : Forgiven(new, Append(h, v), k)
         /\ Forgiven(new, Append(h, v), Failures(h) + 1)
              <=> Failures(h) + 1 <= CalcMaxFailedVisits(row.firstOk, row.lastOk, v.error)
<1> DEFINE g == Append(h, v)
<1>1. /\ Len(h) \in Nat /\ g[Len(h) + 1] = v /\ \A i \in 1..Len(h) : g[i] = h[i]
  BY AppendProperties, LenProperties
<1>2. Ordered(h) /\ LastOk(h) \in 1..Len(h) /\ Failures(h) = Len(h) - LastOk(h)
  BY OrderedFacts DEF OpenSound, Failures
<1>3. LastOk(g) = LastOk(h)
  BY <1>2, FailureIsCounted
<1> HIDE DEF g
<1>4. \A k \in 1..Failures(h) : g[LastOk(g) + k] = h[LastOk(h) + k]
  <2> TAKE k \in 1..Failures(h)
  <2>1. LastOk(h) + k \in 1..Len(h)
    BY <1>1, <1>2
  <2> QED
    BY <1>1, <1>3, <2>1
<1>5. \A k \in 1..Failures(h) : Forgiven(new, g, k)
  BY <1>4 DEF OpenSound, CountsFailure, Forgiven
<1>6. g[LastOk(g) + (Failures(h) + 1)] = v
  BY <1>1, <1>2, <1>3
<1> QED
  BY <1>5, <1>6 DEF CountsFailure, Forgiven, g

LEMMA PendingSound ==
  ASSUME NEW row \in OpenRow, NEW h \in Seq(Reported), NEW v \in Reported,
         OpenSound(row, h), ~Succeeded(v), Tolerated(row, v)
  PROVE  OpenSound(IF row.state = "open" THEN UpdateOpenError(row, row, v)
                   ELSE UpdatePendingError(row, row, v), Append(h, v))
<1> DEFINE g == Append(h, v)
           max == CalcMaxFailedVisits(row.firstOk, row.lastOk, v.error)
           new == IF row.state = "open" THEN UpdateOpenError(row, row, v)
                  ELSE UpdatePendingError(row, row, v)
<1>1. /\ row \in Session /\ row.lastOk \in Nat /\ v.end \in Nat
      /\ row.state = (IF Failures(h) = 0 THEN "open" ELSE "pending")
      /\ Ordered(h) /\ row.failed = Failures(h) /\ Failures(h) \in Nat
  BY OrderedFacts DEF OpenSound, Summarises, OpenRow, Session, Reported, Stored
<1>2. max \in {0, 1, 2, 3}
  BY MaxFailedVisitsType
<1>3. CountsFailure(new, row, v) /\ new.state = "pending"
  <2>1. CASE row.state = "open"
    BY <1>1, <2>1 DEF UpdateOpenError, CountsFailure, Session
  <2>2. CASE row.state = "pending"
    BY <1>1, <2>2 DEF UpdatePendingError, CountsFailure, Session
  <2> QED
    BY <1>1, <2>1, <2>2
<1>4. new.visited = v.end /\ new.due > v.end /\ new.due <= v.end + Furthest
  <2>1. CASE row.state = "open"
    <3>1. new.visited = v.end /\ new.due = v.end + max * MinInterval
      BY <1>1, <2>1 DEF UpdateOpenError, Session
    <3>2. max \in {1, 2, 3}
      BY <1>2, <2>1 DEF Tolerated
    <3> QED
      BY <1>1, <3>1, <3>2, FurthestBounds
  <2>2. CASE row.state = "pending"
    <3>1. new.visited = v.end /\ new.due = CalcNextVisit(v.end, row.lastOk)
      BY <1>1, <2>2 DEF UpdatePendingError, Session
    <3>2. /\ CalcNextVisit(v.end, row.lastOk) > v.end
          /\ CalcNextVisit(v.end, row.lastOk) <= v.end + Furthest
      BY <1>1, NextVisitBounds
    <3> QED
      BY <3>1, <3>2
  <2> QED
    BY <1>1, <2>1, <2>2
<1>5. Failures(h) + 1 <= max
  BY <1>1, <1>2 DEF Tolerated
<1>6. Failures(g) = Failures(h) + 1
  BY <1>1, FailureIsCounted
<1> HIDE DEF new, g, max
<1>7. Ordered(g) /\ Summarises(new, g)
  BY <1>3, FailureSums DEF g
<1>8. \A k \in 1..Failures(h) + 1 : Forgiven(new, g, k)
  BY <1>1, <1>3, <1>5, ForgivenStays DEF g, max
<1> QED
  BY <1>1, <1>3, <1>4, <1>6, <1>7, <1>8 DEF OpenSound, NextIsNear, Furthest, g, new

LEMMA ClosingSound ==
  ASSUME NEW row \in OpenRow, NEW h \in Seq(Reported), NEW v \in Reported,
         OpenSound(row, h), ~Succeeded(v), ~Tolerated(row, v)
  PROVE  ClosedSound(CloseSession(row, row, v), Append(h, v))
<1> DEFINE g == Append(h, v)
           max == CalcMaxFailedVisits(row.firstOk, row.lastOk, v.error)
           new == CloseSession(row, row, v)
<1>1. /\ row \in Session
      /\ row.state = (IF Failures(h) = 0 THEN "open" ELSE "pending")
      /\ Ordered(h) /\ Summarises(row, h) /\ row.failed = Failures(h)
      /\ Failures(h) = Len(h) - LastOk(h) /\ Failures(h) \in Nat
  BY OrderedFacts DEF OpenSound, Summarises, OpenRow, Failures
<1>2. max \in {0, 1, 2, 3}
  BY MaxFailedVisitsType
<1>3. /\ row.state = "open" => row.firstFailed = NoTime /\ row.reason = NoError
      /\ row.state # "open" => row.firstFailed # NoTime /\ row.reason # NoError
  <2>1. CASE row.state = "open"
    <3>1. ~(LastOk(h) < Len(h))
      BY <1>1, <2>1, OrderedFacts
    <3> QED
      BY <1>1, <2>1, <3>1, SummarisesCounts
  <2>2. CASE row.state # "open"
    <3>1. LastOk(h) < Len(h) /\ LastOk(h) + 1 \in 1..Len(h)
      BY <1>1, <2>2, OrderedFacts
    <3>2. h[LastOk(h) + 1] \in Reported /\ ~Succeeded(h[LastOk(h) + 1])
      BY <1>1, <3>1, OrderedFacts, ElementOfSeq DEF Ordered
    <3>3. row.firstFailed = h[LastOk(h) + 1].start /\ row.reason = h[LastOk(h) + 1].error
      BY <1>1, <3>1, SummarisesCounts
    <3> QED
      BY <2>2, <3>2, <3>3 DEF Reported, Stored, Succeeded, NoTime
  <2> QED
    BY <2>1, <2>2
<1>4. CountsFailure(new, row, v) /\ new.state = "closed"
  BY <1>1, <1>3 DEF CloseSession, CountsFailure, Session
<1>5. ~(Failures(h) + 1 <= max)
  BY <1>1, <1>2 DEF Tolerated
<1>6. Failures(g) = Failures(h) + 1
  BY <1>1, FailureIsCounted
<1> HIDE DEF new, g, max
<1>7. Ordered(g) /\ Summarises(new, g)
  BY <1>4, FailureSums DEF g
<1>8. /\ \A k \in 1..Failures(h) : Forgiven(new, g, k)
      /\ ~Forgiven(new, g, Failures(h) + 1)
  BY <1>4, <1>5, ForgivenStays DEF g, max
<1>9. \A k \in 1..Failures(g) : Forgiven(new, g, k) <=> k < Failures(g)
  BY <1>1, <1>6, <1>8
<1> QED
  BY <1>1, <1>4, <1>6, <1>7, <1>9 DEF ClosedSound, g, new

-----------------------------------------------------------------------------
\* upsert_session never counts too much, whatever it has read.

LEMMA OvercountsCounts ==
  ASSUME NEW row, NEW h \in Seq(Reported)
  PROVE  NeverOvercounts(row, h) <=>
           /\ Succeeded(h[1])
           /\ row.firstOk = h[1].start /\ row.lastOk = h[LastOk(h)].end
           /\ row.visited = h[Len(h)].end
           /\ row.ok <= Cardinality(Successes(h))
           /\ row.recovered <= Cardinality(Recoveries(h))
           /\ row.firstOk <= row.lastOk
BY DEF NeverOvercounts, Successes, Recoveries

LEMMA SumsAreBounds ==
  ASSUME NEW row, NEW h \in Seq(Reported), Summarises(row, h)
  PROVE  NeverOvercounts(row, h) /\ row.recovered = Cardinality(Recoveries(h))
BY FiniteCounts, SummarisesCounts, OvercountsCounts

LEMMA SoundIsLoose ==
  ASSUME NEW row \in OpenRow, NEW h \in Seq(Reported), OpenSound(row, h)
  PROVE  LooseSound(row, h)
<1>1. Ordered(h) /\ Summarises(row, h) /\ NextIsNear(row)
      /\ row.state = (IF Failures(h) = 0 THEN "open" ELSE "pending")
  BY DEF OpenSound
<1>2. NeverOvercounts(row, h) /\ row.recovered = Cardinality(Recoveries(h))
  BY <1>1, SumsAreBounds
<1>3. Counted(row) = Potential(h) /\ Potential(h) \in Nat
  BY <1>1, <1>2, FiniteCounts DEF Counted, Potential
<1> QED
  BY <1>1, <1>2, <1>3 DEF LooseSound

LEMMA ClosedIsLoose ==
  ASSUME NEW row, NEW h \in Seq(Reported), ClosedSound(row, h)
  PROVE  ClosedLoose(row, h)
BY SumsAreBounds DEF ClosedSound, ClosedLoose

\* As visits are stored there is more to count.
LEMMA CountsGrow ==
  ASSUME NEW h \in Seq(Reported), NEW v \in Reported, Ordered(h)
  PROVE  /\ Cardinality(Successes(Append(h, v))) >= Cardinality(Successes(h))
         /\ Potential(Append(h, v)) >= Potential(h)
         /\ Succeeded(v) => Cardinality(Recoveries(Append(h, v))) = Potential(h)
<1>1. /\ Cardinality(Successes(h)) \in Nat /\ Cardinality(Recoveries(h)) \in Nat
      /\ Failures(h) \in Nat
  BY FiniteCounts, OrderedFacts
<1>2. CASE Succeeded(v)
  BY <1>1, <1>2, SuccessCounts, SuccessIsLast DEF Potential
<1>3. CASE ~Succeeded(v)
  BY <1>1, <1>3, FailureCounts, FailureIsCounted DEF Potential
<1> QED
  BY <1>2, <1>3

LEMMA EarlierStays ==
  ASSUME NEW es \in OpenRow, NEW row, NEW new, NEW h \in Seq(Reported), NEW v \in Reported,
         Ordered(h), Earlier(es, row, h), new.firstOk = row.firstOk
  PROVE  Earlier(es, new, Append(h, v))
<1>1. /\ es.ok \in Nat /\ Counted(es) \in Nat
      /\ Cardinality(Successes(h)) \in Nat /\ Potential(h) \in Nat
      /\ Append(h, v) \in Seq(Reported)
  BY FiniteCounts, AppendProperties DEF OpenRow, Session, Counted, Potential
<1>2. Cardinality(Successes(Append(h, v))) \in Nat /\ Potential(Append(h, v)) \in Nat
  <2> DEFINE g == Append(h, v)
  <2>1. g \in Seq(Reported)
    BY <1>1
  <2> HIDE DEF g
  <2>2. Cardinality(Successes(g)) \in Nat /\ Potential(g) \in Nat
    BY <2>1, FiniteCounts DEF Potential
  <2> QED
    BY <2>2 DEF g
<1>3. /\ Cardinality(Successes(Append(h, v))) >= Cardinality(Successes(h))
      /\ Potential(Append(h, v)) >= Potential(h)
  BY CountsGrow
<1>4. /\ new.firstOk = row.firstOk /\ es.firstOk = row.firstOk
      /\ es.ok <= Cardinality(Successes(h)) /\ Counted(es) <= Potential(h)
  BY DEF Earlier
<1>5. /\ es.ok <= Cardinality(Successes(Append(h, v)))
      /\ Counted(es) <= Potential(Append(h, v))
  BY <1>1, <1>2, <1>3, <1>4
<1> QED
  BY <1>4, <1>5 DEF Earlier

LEMMA SuccessLoose ==
  ASSUME NEW es \in OpenRow, NEW row \in OpenRow, NEW h \in Seq(Reported), NEW v \in Reported,
         LooseSound(row, h), Earlier(es, row, h), Succeeded(v), v.end >= es.firstOk
  PROVE  LooseSound(UpdateNoError(es, row, v), Append(h, v))
<1> DEFINE g == Append(h, v)
           new == UpdateNoError(es, row, v)
<1>1. /\ g \in Seq(Reported) /\ Len(g) = Len(h) + 1 /\ g[Len(h) + 1] = v
      /\ \A i \in 1..Len(h) : g[i] = h[i]
  BY AppendProperties
<1>2. Ordered(g) /\ LastOk(g) = Len(h) + 1 /\ Failures(g) = 0
  BY SuccessIsLast
<1>3. Ordered(h) /\ NeverOvercounts(row, h) /\ Len(h) \in Nat \ {0}
  BY OrderedFacts DEF LooseSound
<1>4. /\ Cardinality(Successes(g)) = Cardinality(Successes(h)) + 1
      /\ Cardinality(Recoveries(g)) = Potential(h)
  BY <1>3, SuccessCounts, CountsGrow
<1>5. /\ new.state = "open" /\ new.firstOk = row.firstOk /\ new.lastOk = v.end
      /\ new.visited = v.end /\ new.ok = es.ok + 1
      /\ new.recovered = Counted(es)
      /\ new.due = CalcNextVisit(v.end, es.lastOk)
  BY DEF UpdateNoError, OpenRow, Session, Counted
<1>6. /\ v.end \in Nat /\ es.lastOk \in Nat /\ es.ok \in Nat
      /\ es.firstOk \in Nat /\ row.firstOk \in Nat
      /\ Cardinality(Successes(h)) \in Nat
  BY FiniteCounts DEF Reported, Stored, OpenRow, Session
<1> HIDE DEF g, new
<1>7. Succeeded(h[1]) /\ row.firstOk = h[1].start
  BY <1>3, OvercountsCounts
<1>8. NeverOvercounts(new, g)
  <2>1. new.recovered <= Cardinality(Recoveries(g)) /\ new.firstOk <= new.lastOk
    BY <1>4, <1>5, <1>6 DEF Earlier
  <2>2. new.ok <= Cardinality(Successes(g))
    BY <1>4, <1>5, <1>6 DEF Earlier
  <2>3. Succeeded(g[1]) /\ new.firstOk = g[1].start
    BY <1>1, <1>3, <1>5, <1>7
  <2>4. new.lastOk = g[LastOk(g)].end /\ new.visited = g[Len(g)].end
    BY <1>1, <1>2, <1>5
  <2> QED
    BY <1>1, <2>1, <2>2, <2>3, <2>4, OvercountsCounts
<1>9. Counted(new) <= Potential(g)
  <2>1. Counted(es) \in Nat /\ Cardinality(Recoveries(g)) \in Nat
    <3>1. es.recovered \in Nat
      BY DEF OpenRow, Session
    <3> QED
      BY <1>1, <3>1, FiniteCounts DEF Counted
  <2>2. Counted(new) = new.recovered + 0 /\ Potential(g) = Cardinality(Recoveries(g)) + 0
    BY <1>2, <1>5 DEF Counted, Potential
  <2>3. new.recovered <= Cardinality(Recoveries(g))
    BY <1>4, <1>5 DEF Earlier
  <2> QED
    BY <1>5, <2>1, <2>2, <2>3
<1>10. NextIsNear(new)
  <2>1. /\ CalcNextVisit(v.end, es.lastOk) > v.end
        /\ CalcNextVisit(v.end, es.lastOk) <= v.end + Furthest
    BY <1>6, NextVisitBounds
  <2> QED
    BY <1>5, <2>1 DEF NextIsNear, Furthest
<1> QED
  BY <1>2, <1>8, <1>9, <1>10 DEF LooseSound, g, new

\* A failure changes none of what is counted.
LEMMA FailureLoose ==
  ASSUME NEW row \in OpenRow, NEW h \in Seq(Reported), NEW v \in Reported, NEW new,
         LooseSound(row, h), ~Succeeded(v),
         new.firstOk = row.firstOk, new.lastOk = row.lastOk, new.ok = row.ok,
         new.recovered = row.recovered, new.visited = v.end
  PROVE  /\ Ordered(Append(h, v)) /\ NeverOvercounts(new, Append(h, v))
         /\ Failures(Append(h, v)) > 0 /\ Counted(new) <= Potential(Append(h, v))
<1> DEFINE g == Append(h, v)
<1>1. /\ g \in Seq(Reported) /\ Len(g) = Len(h) + 1 /\ g[Len(h) + 1] = v
      /\ \A i \in 1..Len(h) : g[i] = h[i]
  BY AppendProperties
<1>2. /\ Ordered(h) /\ NeverOvercounts(row, h) /\ Len(h) \in Nat \ {0}
      /\ LastOk(h) \in 1..Len(h) /\ Failures(h) \in Nat
  BY OrderedFacts DEF LooseSound
<1>3. Ordered(g) /\ LastOk(g) = LastOk(h) /\ Failures(g) = Failures(h) + 1
  BY <1>2, FailureIsCounted
<1>4. Successes(g) = Successes(h) /\ Recoveries(g) = Recoveries(h)
  BY FailureCounts
<1>5. row.recovered \in Nat /\ Cardinality(Recoveries(h)) \in Nat
  BY FiniteCounts DEF OpenRow, Session
<1> HIDE DEF g
<1>6. NeverOvercounts(new, g)
  BY <1>1, <1>2, <1>3, <1>4, OvercountsCounts
<1>7. row.recovered <= Cardinality(Recoveries(h))
  BY <1>2, OvercountsCounts
<1>8. Counted(new) <= Potential(g)
  BY <1>2, <1>3, <1>4, <1>5, <1>7 DEF Counted, Potential
<1> QED
  BY <1>2, <1>3, <1>6, <1>8 DEF g

LEMMA PendingLoose ==
  ASSUME NEW es \in OpenRow, NEW row \in OpenRow, NEW h \in Seq(Reported), NEW v \in Reported,
         LooseSound(row, h), ~Succeeded(v), Tolerated(es, v)
  PROVE  LooseSound(IF es.state = "open" THEN UpdateOpenError(es, row, v)
                    ELSE UpdatePendingError(es, row, v), Append(h, v))
<1> DEFINE max == CalcMaxFailedVisits(es.firstOk, es.lastOk, v.error)
           new == IF es.state = "open" THEN UpdateOpenError(es, row, v)
                  ELSE UpdatePendingError(es, row, v)
<1>1. row \in Session /\ es.lastOk \in Nat /\ v.end \in Nat
  BY DEF OpenRow, Session, Reported, Stored
<1>2. /\ new.firstOk = row.firstOk /\ new.lastOk = row.lastOk /\ new.ok = row.ok
      /\ new.recovered = row.recovered /\ new.visited = v.end
  BY <1>1 DEF UpdateOpenError, UpdatePendingError, Session
<1>3. new.due > v.end /\ new.due <= v.end + Furthest
  <2>1. CASE es.state = "open"
    <3>1. new.due = v.end + max * MinInterval
      BY <1>1, <2>1 DEF UpdateOpenError, Session
    <3>2. max \in {1, 2, 3}
      BY <2>1, MaxFailedVisitsType DEF Tolerated
    <3> QED
      BY <1>1, <3>1, <3>2, FurthestBounds
  <2>2. CASE es.state # "open"
    <3>1. new.due = CalcNextVisit(v.end, es.lastOk)
      BY <1>1, <2>2 DEF UpdatePendingError, Session
    <3> QED
      BY <1>1, <3>1, NextVisitBounds
  <2> QED
    BY <2>1, <2>2
<1> HIDE DEF new
<1>4. NextIsNear(new)
  BY <1>2, <1>3 DEF NextIsNear, Furthest
<1>5. /\ Ordered(Append(h, v)) /\ NeverOvercounts(new, Append(h, v))
      /\ Counted(new) <= Potential(Append(h, v))
  BY <1>2, FailureLoose
<1> QED
  BY <1>4, <1>5 DEF LooseSound, new

LEMMA ClosingLoose ==
  ASSUME NEW es \in OpenRow, NEW row \in OpenRow, NEW h \in Seq(Reported), NEW v \in Reported,
         LooseSound(row, h), ~Succeeded(v)
  PROVE  ClosedLoose(CloseSession(es, row, v), Append(h, v))
<1> DEFINE new == CloseSession(es, row, v)
<1>1. /\ new.firstOk = row.firstOk /\ new.lastOk = row.lastOk /\ new.ok = row.ok
      /\ new.recovered = row.recovered /\ new.visited = v.end /\ new.state = "closed"
  BY DEF CloseSession, OpenRow, Session
<1> HIDE DEF new
<1> QED
  BY <1>1, FailureLoose DEF ClosedLoose, new

-----------------------------------------------------------------------------
\* What a committed visit makes of the sessions.

KeepsSessions == UNCHANGED <<open, closed, sessions, hist, stale>>

\* A visit is stored late when an earlier one was, or when the row has changed.
Late(p, es) == stale[p] \/ es # open[p]

ExtendsSession(p, v, es, row) ==
  /\ open' = [open EXCEPT ![p] = row]
  /\ closed' = closed
  /\ hist' = [hist EXCEPT ![p] = Append(hist[p], v)]
  /\ stale' = [stale EXCEPT ![p] = Late(p, es)]

EndsSession(p, v, es, row) ==
  /\ open' = [open EXCEPT ![p] = NoSession]
  /\ closed' = closed \union {[peer |-> p, row |-> row, hist |-> Append(hist[p], v),
                              stale |-> Late(p, es)]}
  /\ hist' = [hist EXCEPT ![p] = <<>>]
  /\ stale' = [stale EXCEPT ![p] = FALSE]

StoresInto(p, v, es) ==
  \/ KeepsSessions
  \/ /\ es = NoSession /\ open[p] = NoSession /\ Succeeded(v)
     /\ ExtendsSession(p, v, es, NewSession(sessions + 1, v))
     /\ sessions' = sessions + 1
  \/ /\ es \in OpenRow /\ open[p] \in OpenRow /\ es.id = open[p].id /\ sessions' = sessions
     /\ \/ /\ Succeeded(v) /\ v.end >= es.firstOk
           /\ ExtendsSession(p, v, es, UpdateNoError(es, open[p], v))
        \/ /\ ~Succeeded(v) /\ Tolerated(es, v)
           /\ ExtendsSession(p, v, es, IF es.state = "open" THEN UpdateOpenError(es, open[p], v)
                                       ELSE UpdatePendingError(es, open[p], v))
        \/ /\ ~Succeeded(v) /\ ~Tolerated(es, v)
           /\ EndsSession(p, v, es, CloseSession(es, open[p], v))

\* A transaction that is underway.
LEMMA TxTypes ==
  ASSUME TypeInv, NEW w \in Writer, tx[w] # Idle
  PROVE  /\ tx[w] \in Tx
         /\ tx[w].visit \in Reported /\ tx[w].visit.peer \in Peer
         /\ tx[w].pc \in {"addresses", "read", "write"}
         /\ tx[w].by \in Nat /\ tx[w].del \in SUBSET AddrRow
         /\ tx[w].ins \in SUBSET Addr /\ tx[w].es \in OpenRow \union {NoSession}
<1>1. tx[w] \in Tx
  BY DEF TypeInv
<1> QED
  BY <1>1 DEF Tx, Reported, Stored

LEMMA IdleOnly ==
  ASSUME TypeInv, NEW w \in Writer
  PROVE  tx[w] = Idle <=> tx[w].pc = "idle"
<1>1. tx[w] = Idle => tx[w].pc = "idle"
  BY DEF Idle
<1>2. tx[w] # Idle => tx[w].pc \in {"addresses", "read", "write"}
  BY TxTypes
<1> QED
  BY <1>1, <1>2

LEMMA StoreCases ==
  ASSUME TypeInv, NEW w \in Writer, StoreVisit(w)
  PROVE  /\ tx[w] # Idle /\ tx[w].pc = "write" /\ tx' = [tx EXCEPT ![w] = Idle]
         /\ StoresInto(tx[w].visit.peer, tx[w].visit, tx[w].es)
<1> DEFINE t == tx[w]
           v == t.visit
           p == v.peer
           row == WriteSession(t.es, open[p], v)
<1>1. t # Idle /\ t.pc = "write"
  BY DEF StoreVisit, Idle
<1>2. t.es \in OpenRow \union {NoSession} /\ p \in Peer /\ v \in Reported
  BY <1>1, TxTypes
<1>3. open[p] \in OpenRow \union {NoSession} /\ sessions \in Nat
  BY <1>2 DEF TypeInv
<1>4. ~WriteFails(t.es, open[p], v) /\ tx' = [tx EXCEPT ![w] = Idle]
  BY DEF StoreVisit
<1>5. /\ v.start \in Nat /\ v.end \in Nat
  BY <1>2 DEF Reported, Stored
<1>6. StoresInto(p, v, t.es)
  <2>1. CASE ~TouchesSession(t.es, v)
    BY <2>1 DEF StoreVisit, StoresInto, KeepsSessions
  <2>2. CASE TouchesSession(t.es, v)
    <3>1. /\ row.state = "closed" => EndsSession(p, v, t.es, row)
          /\ row.state # "closed" => ExtendsSession(p, v, t.es, row)
          /\ sessions' = IF t.es = NoSession THEN sessions + 1 ELSE sessions
      <4>1. /\ open' = [open EXCEPT ![p] = IF row.state = "closed" THEN NoSession ELSE row]
            /\ closed' = IF row.state = "closed"
                         THEN closed \union {[peer |-> p, row |-> row, hist |-> Append(hist[p], v),
                                             stale |-> stale[p] \/ t.es # open[p]]}
                         ELSE closed
            /\ sessions' = IF t.es = NoSession THEN sessions + 1 ELSE sessions
            /\ hist' = [hist EXCEPT ![p] = IF row.state = "closed" THEN <<>> ELSE Append(@, v)]
            /\ stale' = [stale EXCEPT ![p] = row.state # "closed" /\ (@ \/ t.es # open[p])]
        BY <2>2, Zenon DEF StoreVisit
      <4> HIDE DEF row
      <4>2. stale \in [Peer -> BOOLEAN] /\ p \in Peer
        BY <1>2 DEF TypeInv
      <4>3. row.state # "closed" => stale' = [stale EXCEPT ![p] = Late(p, t.es)]
        BY <4>1, <4>2 DEF Late
      <4>4. row.state = "closed" => stale' = [stale EXCEPT ![p] = FALSE]
        BY <4>1, <4>2
      <4>5. row.state = "closed" =>
              closed' = closed \union {[peer |-> p, row |-> row, hist |-> Append(hist[p], v),
                                       stale |-> Late(p, t.es)]}
        BY <4>1, Zenon DEF Late
      <4> QED
        BY <4>1, <4>3, <4>4, <4>5 DEF EndsSession, ExtendsSession
    <3>2. CASE t.es = NoSession
      <4>1. Succeeded(v) /\ open[p] = NoSession
        BY <1>4, <2>2, <3>2 DEF TouchesSession, WriteFails
      <4>2. row = NewSession(sessions + 1, v) /\ row.state # "closed"
        BY <3>2 DEF WriteSession, NewSession
      <4> HIDE DEF row
      <4> QED
        BY <3>1, <3>2, <4>1, <4>2 DEF StoresInto
    <3>3. CASE t.es # NoSession
      <4>1. t.es \in OpenRow /\ open[p] \in OpenRow /\ t.es.id = open[p].id
        BY <1>2, <1>3, <1>4, <3>3, RowKinds DEF WriteFails, OpenRow
      <4>2. sessions' = sessions
        BY <3>1, <3>3
      <4>3. CASE Succeeded(v)
        <5>1. row = UpdateNoError(t.es, open[p], v)
          BY <3>3, <4>3 DEF WriteSession
        <5>2. row.state # "closed"
          BY <4>1, <5>1, <1>2, WriteSessionType DEF OpenRow
        <5>3. t.es.firstOk \in Nat /\ v.end >= t.es.firstOk
          BY <1>4, <1>5, <3>3, <4>1, <4>3 DEF WriteFails, OpenRow, Session
        <5> HIDE DEF row
        <5> QED
          BY <3>1, <4>1, <4>2, <4>3, <5>1, <5>2, <5>3 DEF StoresInto
      <4>4. CASE ~Succeeded(v) /\ Tolerated(t.es, v)
        <5>1. row = IF t.es.state = "open" THEN UpdateOpenError(t.es, open[p], v)
                    ELSE UpdatePendingError(t.es, open[p], v)
          BY <3>3, <4>4 DEF WriteSession
        <5>2. row.state # "closed"
          BY <4>1, <5>1, <1>2, WriteSessionType DEF OpenRow
        <5> HIDE DEF row
        <5> QED
          BY <3>1, <4>1, <4>2, <4>4, <5>1, <5>2 DEF StoresInto
      <4>5. CASE ~Succeeded(v) /\ ~Tolerated(t.es, v)
        <5>1. row = CloseSession(t.es, open[p], v)
          BY <3>3, <4>5 DEF WriteSession
        <5>2. row.state = "closed"
          BY <4>1, <5>1 DEF CloseSession, OpenRow, Session
        <5> HIDE DEF row
        <5> QED
          BY <3>1, <4>1, <4>2, <4>5, <5>1, <5>2 DEF StoresInto
      <4> QED
        BY <4>3, <4>4, <4>5
    <3> QED
      BY <3>2, <3>3
  <2> QED
    BY <2>1, <2>2
<1> QED
  BY <1>1, <1>4, <1>6

-----------------------------------------------------------------------------
\* Types are kept.

LEMMA InitTypes == Init => TypeInv
<1> SUFFICES ASSUME Init PROVE TypeInv
  OBVIOUS
<1>1. <<>> \in Seq(Reported) /\ 0 \in 0..MaxTime
  BY ProbingConstants
<1> QED
  BY <1>1 DEF Init, SessInit, DialInit, TypeInv

\* A dialer that is not idle, and the result it returns.
LEMMA DialTypes ==
  ASSUME TypeInv, NEW d \in Workers, dial[d] # NoDial
  PROVE  /\ dial[d] \in Dial /\ dial[d].peer \in Peer
         /\ dial[d].start \in Nat /\ dial[d].start <= now /\ now \in Nat
         /\ dial[d].pc \in {"dial", "pause", "close"}
         /\ dial[d].error \in Errors \union {NoError} /\ dial[d].reached \in BOOLEAN
BY ProbingConstants DEF TypeInv, Dial

LEMMA BusyDial ==
  ASSUME TypeInv, NEW d \in Workers
  PROVE  dial[d] = NoDial <=> dial[d].pc = "idle"
<1>1. dial[d] # NoDial => dial[d].pc \in {"dial", "pause", "close"}
  BY DialTypes
<1> QED
  BY <1>1 DEF NoDial

\* A step of a dialer changes its own record only, and neither the peer nor the
\* start in it.
LEMMA DialStepChanges ==
  ASSUME TypeInv, NEW d \in Workers, DialStep(d)
  PROVE  /\ dial[d] # NoDial
         /\ \E r \in Dial : /\ dial' = [dial EXCEPT ![d] = r]
                            /\ r.peer = dial[d].peer /\ r.start = dial[d].start
<1>1. dial[d].pc \in {"dial", "pause"}
  BY DEF DialStep, DialSucceeds, DialFails, DialCanceled, PauseEnds, PauseCanceled
<1>2. dial[d] # NoDial /\ dial[d] \in Dial
  BY <1>1, DialTypes DEF NoDial
<1>3. "none" \in Errors \union {NoError} /\ Canceled \in Errors \union {NoError}
  BY ProbingConstants DEF NoError
<1>4. dial[d].retry + 1 \in Nat
  BY <1>2 DEF Dial
<1> USE DEF Dial
<1>5. CASE DialSucceeds(d)
  <2> DEFINE r == [dial[d] EXCEPT !.pc = "close", !.error = "none", !.reached = TRUE]
  <2>1. dial' = [dial EXCEPT ![d] = r]
    BY <1>5 DEF DialSucceeds
  <2>2. r \in Dial /\ r.peer = dial[d].peer /\ r.start = dial[d].start
    BY <1>2, <1>3
  <2> QED
    BY <1>2, <2>1, <2>2
<1>6. ASSUME NEW e \in NetErrors, DialFails(d, e)
      PROVE  \E r \in Dial : /\ dial' = [dial EXCEPT ![d] = r]
                             /\ r.peer = dial[d].peer /\ r.start = dial[d].start
  <2> DEFINE r == [dial[d] EXCEPT !.pc = IF Hopeless(d, e) THEN "close" ELSE "pause",
                                  !.error = e]
  <2>1. dial' = [dial EXCEPT ![d] = r]
    BY <1>6 DEF DialFails
  <2>2. r \in Dial /\ r.peer = dial[d].peer /\ r.start = dial[d].start
    BY <1>2, ProbingConstants
  <2> QED
    BY <2>1, <2>2
<1>7. CASE DialCanceled(d)
  <2> DEFINE r == [dial[d] EXCEPT !.pc = "close", !.error = Canceled]
  <2>1. dial' = [dial EXCEPT ![d] = r]
    BY <1>7 DEF DialCanceled
  <2>2. r \in Dial /\ r.peer = dial[d].peer /\ r.start = dial[d].start
    BY <1>2, <1>3
  <2> QED
    BY <1>2, <2>1, <2>2
<1>8. CASE PauseEnds(d)
  <2> DEFINE r == [dial[d] EXCEPT !.retry = @ + 1,
                     !.pc = IF dial[d].retry + 1 < MaxAttempts THEN "dial" ELSE "close"]
  <2>1. dial' = [dial EXCEPT ![d] = r]
    BY <1>8 DEF PauseEnds
  <2>2. r \in Dial /\ r.peer = dial[d].peer /\ r.start = dial[d].start
    BY <1>2, <1>4
  <2> QED
    BY <1>2, <2>1, <2>2
<1>9. CASE PauseCanceled(d)
  <2> DEFINE r == [dial[d] EXCEPT !.pc = "close"]
  <2>1. dial' = [dial EXCEPT ![d] = r]
    BY <1>9 DEF PauseCanceled
  <2>2. r \in Dial /\ r.peer = dial[d].peer /\ r.start = dial[d].start
    BY <1>2
  <2> QED
    BY <1>2, <2>1, <2>2
<1> QED
  BY <1>2, <1>5, <1>6, <1>7, <1>8, <1>9, Zenon DEF DialStep

LEMMA MonitorTypes ==
  ASSUME TypeInv,
         \/ SelectPeersToProbe \/ Stop \/ Tick
         \/ \E d \in Workers : DialerStep(d)
  PROVE  TypeInv'
<1> USE DEF sessVars, dialVars, probeVars
<1>1. CASE SelectPeersToProbe
  BY <1>1 DEF SelectPeersToProbe, TypeInv
<1>2. CASE Stop
  BY <1>2 DEF Stop, TypeInv
<1>3. CASE Tick
  <2>1. now' \in 0..MaxTime /\ \A d \in Workers : dial[d] # NoDial => dial[d].start <= now'
    <3>1. now \in Nat /\ now' = now + 1 /\ now < MaxTime
      BY <1>3, ProbingConstants DEF Tick, TypeInv
    <3>2. \A d \in Workers : dial[d] # NoDial => dial[d].start \in Nat /\ dial[d].start <= now
      BY DialTypes
    <3> QED
      BY <3>1, <3>2, ProbingConstants
  <2> QED
    BY <1>3, <2>1 DEF Tick, TypeInv
<1>4. ASSUME NEW d \in Workers, TakeTask(d) PROVE TypeInv'
  <2>1. PICK p \in tasks : StartDial(d, p, now) /\ tasks' = tasks \ {p}
    BY <1>4 DEF TakeTask
  <2> DEFINE r == [pc |-> "dial", peer |-> p, start |-> now, retry |-> 0, error |-> "none",
                   reached |-> FALSE]
  <2>2. p \in Peer /\ now \in Nat /\ "none" \in Errors \union {NoError}
    BY <2>1, ProbingConstants DEF TypeInv, NoError
  <2>3. r \in Dial /\ r.start <= now
    BY <2>2 DEF Dial
  <2>4. dial' = [dial EXCEPT ![d] = r]
    BY <2>1 DEF StartDial
  <2> HIDE DEF r
  <2> QED
    BY <1>4, <2>1, <2>3, <2>4 DEF TakeTask, TypeInv
<1>5. ASSUME NEW d \in Workers, Dialing(d) PROVE TypeInv'
  <2>1. PICK r \in Dial : /\ dial' = [dial EXCEPT ![d] = r] /\ dial[d] # NoDial
                          /\ r.start = dial[d].start
    BY <1>5, DialStepChanges DEF Dialing
  <2> QED
    BY <1>5, <2>1 DEF Dialing, TypeInv
<1>6. ASSUME NEW d \in Workers, DialReturns(d) PROVE TypeInv'
  <2> DEFINE p == dial[d].peer
             v == [peer |-> p, start |-> dial[d].start, end |-> now, error |-> dial[d].error,
                   addrs |-> PeerRows(p), reached |-> dial[d].reached]
  <2>1. dial[d] # NoDial
    BY <1>6 DEF DialReturns, NoDial
  <2>2. PeerRows(p) \in SUBSET Addr
    BY <2>1, DialTypes DEF PeerRows, TypeInv, AddrRow
  <2>3. v \in Reported
    BY <2>1, <2>2, DialTypes DEF Reported, Stored
  <2>4. \/ results' = [results EXCEPT ![p] = IF @ = NoResult THEN v ELSE @]
        \/ results' = results
    BY <1>6 DEF DialReturns
  <2> HIDE DEF v
  <2>5. results' \in [Peer -> Reported \union {NoResult}]
    BY <2>1, <2>3, <2>4, DialTypes DEF TypeInv
  <2> QED
    BY <1>6, <2>5 DEF DialReturns, TypeInv
<1> QED
  BY <1>1, <1>2, <1>3, <1>4, <1>5, <1>6 DEF DialerStep

LEMMA BeginTypes ==
  ASSUME TypeInv, NEW w \in Writer, NEW v \in Reported, BeginVisit(w, v)
  PROVE  /\ tx' \in [Writer -> Tx \union {Idle}] /\ visits' \in Nat
         /\ tx'[w] # Idle /\ tx'[w].visit = v /\ tx'[w].pc = "addresses"
         /\ \A u \in Writer \ {w} : tx'[u] = tx[u]
<1> DEFINE t == [pc |-> "addresses", visit |-> v, by |-> visits + 1, del |-> addrRows[v.peer],
                ins |-> {}, es |-> NoSession]
<1>1. v.peer \in Peer /\ visits + 1 \in Nat
  BY DEF Reported, Stored, TypeInv
<1>2. t \in Tx /\ t # Idle
  BY <1>1 DEF Tx, TypeInv, Idle
<1>3. tx' = [tx EXCEPT ![w] = t] /\ visits' = visits + 1
  BY DEF BeginVisit
<1> QED
  BY <1>1, <1>2, <1>3 DEF TypeInv

\* What a transaction does before it commits.
LEMMA TxTypesKept ==
  ASSUME TypeInv, NEW w \in Writer, ReplaceAddresses(w) \/ ReadSession(w) \/ FailVisit(w) \/ AbortVisit(w)
  PROVE  tx' \in [Writer -> Tx \union {Idle}]
<1>1. CASE ReplaceAddresses(w)
  <2> DEFINE ins == tx[w].visit.addrs \ {r.addr : r \in Kept(w)}
             t == [tx[w] EXCEPT !.pc = "read", !.ins = ins]
  <2>1. tx[w] \in Tx /\ tx[w].visit \in Reported
    BY <1>1, TxTypes, IdleOnly DEF ReplaceAddresses
  <2>2. ins \in SUBSET Addr
    BY <2>1 DEF Reported, Stored
  <2>3. tx' = [tx EXCEPT ![w] = t]
    BY <1>1, <2>1 DEF ReplaceAddresses, Tx
  <2> HIDE DEF ins
  <2>4. t \in Tx
    BY <2>1, <2>2 DEF Tx
  <2> HIDE DEF t
  <2> QED
    BY <2>3, <2>4 DEF TypeInv
<1>2. CASE ReadSession(w)
  <2> DEFINE t == [tx[w] EXCEPT !.pc = "write", !.es = open[tx[w].visit.peer]]
  <2>1. tx[w] \in Tx /\ tx[w].visit.peer \in Peer
    BY <1>2, TxTypes, IdleOnly DEF ReadSession
  <2>2. t \in Tx
    BY <2>1 DEF Tx, TypeInv
  <2>3. tx' = [tx EXCEPT ![w] = t]
    BY <1>2 DEF ReadSession
  <2> HIDE DEF t
  <2> QED
    BY <2>2, <2>3 DEF TypeInv
<1>3. CASE FailVisit(w) \/ AbortVisit(w)
  BY <1>3 DEF FailVisit, AbortVisit, TypeInv
<1> QED
  BY <1>1, <1>2, <1>3

LEMMA StoreTypes ==
  ASSUME TypeInv, NEW w \in Writer, StoreVisit(w), UNCHANGED <<dialVars, probeVars>>
  PROVE  TypeInv'
<1> DEFINE v == tx[w].visit
           p == v.peer
           es == tx[w].es
<1>1. /\ tx[w] # Idle /\ tx[w].pc = "write" /\ tx' = [tx EXCEPT ![w] = Idle]
      /\ StoresInto(p, v, es)
  BY StoreCases
<1>2. v \in Reported /\ p \in Peer /\ hist[p] \in Seq(Reported) /\ sessions + 1 \in Nat \ {0}
  BY <1>1, TxTypes DEF TypeInv
<1>3. Append(hist[p], v) \in Seq(Reported) /\ <<>> \in Seq(Reported)
  BY <1>2, AppendProperties
<1>4. Kept(w) \union {[addr |-> a, by |-> tx[w].by] : a \in tx[w].ins} \in SUBSET AddrRow
  <2>1. tx[w].ins \in SUBSET Addr /\ tx[w].by \in Nat /\ addrRows[p] \in SUBSET AddrRow
    BY <1>1, <1>2, TxTypes DEF TypeInv
  <2> QED
    BY <2>1 DEF Kept, AddrRow
<1>5. addrRows' \in [Peer -> SUBSET AddrRow] /\ known' \subseteq Peer
  <2>1. addrRows' = [addrRows EXCEPT
          ![p] = Kept(w) \union {[addr |-> a, by |-> tx[w].by] : a \in tx[w].ins}]
    BY Zenon DEF StoreVisit
  <2>2. known' = known \union {p}
    BY DEF StoreVisit
  <2> QED
    BY <1>2, <1>4, <2>1, <2>2 DEF TypeInv
<1>6. /\ sessions' \in Nat /\ open' \in [Peer -> OpenRow \union {NoSession}]
      /\ closed' \subseteq Ended
      /\ hist' \in [Peer -> Seq(Reported)] /\ stale' \in [Peer -> BOOLEAN]
  <2>0. Late(p, es) \in BOOLEAN
    BY DEF Late
  <2>1. ASSUME NEW row \in OpenRow, ExtendsSession(p, v, es, row)
        PROVE  /\ open' \in [Peer -> OpenRow \union {NoSession}]
               /\ closed' \subseteq Ended
               /\ hist' \in [Peer -> Seq(Reported)] /\ stale' \in [Peer -> BOOLEAN]
    BY <1>2, <1>3, <2>0, <2>1 DEF ExtendsSession, TypeInv
  <2>2. ASSUME NEW row \in Session, EndsSession(p, v, es, row)
        PROVE  /\ open' \in [Peer -> OpenRow \union {NoSession}]
               /\ closed' \subseteq Ended
               /\ hist' \in [Peer -> Seq(Reported)] /\ stale' \in [Peer -> BOOLEAN]
    <3>1. [peer |-> p, row |-> row, hist |-> Append(hist[p], v), stale |-> Late(p, es)] \in Ended
      BY <1>2, <1>3, <2>0 DEF Ended
    <3> QED
      BY <1>2, <1>3, <2>2, <3>1 DEF EndsSession, TypeInv
  <2>3. CASE KeepsSessions
    BY <2>3 DEF KeepsSessions, TypeInv
  <2>4. CASE ExtendsSession(p, v, es, NewSession(sessions + 1, v)) /\ sessions' = sessions + 1
    <3>1. NewSession(sessions + 1, v) \in OpenRow /\ sessions' \in Nat
      BY <1>2, <2>4, NewSessionType
    <3> QED
      BY <2>1, <2>4, <3>1, Zenon
  <2>5. CASE es \in OpenRow /\ open[p] \in OpenRow /\ sessions' = sessions
    <3> DEFINE up == UpdateNoError(es, open[p], v)
               pend == IF es.state = "open" THEN UpdateOpenError(es, open[p], v)
                       ELSE UpdatePendingError(es, open[p], v)
               down == CloseSession(es, open[p], v)
    <3>1. up \in OpenRow /\ pend \in OpenRow /\ down \in Session
      BY <1>2, <2>5, WriteSessionType
    <3>2. sessions' \in Nat
      BY <2>5 DEF TypeInv
    <3>3. \/ KeepsSessions
          \/ ExtendsSession(p, v, es, NewSession(sessions + 1, v)) /\ sessions' = sessions + 1
          \/ ExtendsSession(p, v, es, up) \/ ExtendsSession(p, v, es, pend) \/ EndsSession(p, v, es, down)
      BY <1>1 DEF StoresInto
    <3> HIDE DEF up, pend, down
    <3> QED
      <4>1. CASE KeepsSessions
        BY <2>3, <4>1
      <4>2. CASE ExtendsSession(p, v, es, NewSession(sessions + 1, v)) /\ sessions' = sessions + 1
        BY <2>4, <4>2
      <4>3. CASE ExtendsSession(p, v, es, up)
        BY <2>1, <3>1, <3>2, <4>3
      <4>4. CASE ExtendsSession(p, v, es, pend)
        BY <2>1, <3>1, <3>2, <4>4
      <4>5. CASE EndsSession(p, v, es, down)
        BY <2>2, <3>1, <3>2, <4>5
      <4> QED
        BY <3>3, <4>1, <4>2, <4>3, <4>4, <4>5
  <2> QED
    BY <1>1, <2>3, <2>4, <2>5, Zenon DEF StoresInto
<1>7. tx' \in [Writer -> Tx \union {Idle}]
  BY <1>1 DEF TypeInv
<1>8. now' = now /\ visits' = visits
  BY DEF StoreVisit
<1> QED
  BY <1>5, <1>6, <1>7, <1>8 DEF TypeInv, dialVars, probeVars

\* A writer begins a visit from the write queue, or drops it; a crawl makes its own.
LEMMA TakenResult ==
  ASSUME TypeInv, NEW w \in Writer, TakeResult(w)
  PROVE  \E p \in Peer :
           /\ results[p] # NoResult /\ results[p] \in Reported
           /\ results' = [results EXCEPT ![p] = NoResult]
           /\ \/ ctxDone /\ UNCHANGED sessVars
              \/ ~ctxDone /\ BeginVisit(w, results[p])
BY DEF TakeResult, TypeInv

LEMMA CrawledVisit ==
  ASSUME TypeInv, NEW w \in Writer, CrawlVisit(w)
  PROVE  \E v \in Reported :
           /\ BeginVisit(w, v) /\ v.error \in CrawlErrors \union {NoError}
           /\ v.addrs \in CrawlAddrs /\ (v.reached <=> v.error = NoError)
<1>1. PICK p \in Peer, e \in CrawlErrors \union {NoError}, as \in CrawlAddrs :
        BeginVisit(w, [peer |-> p, start |-> now, end |-> now, error |-> e, addrs |-> as,
                       reached |-> e = NoError])
  BY DEF CrawlVisit
<1>2. PICK b : b = (e = NoError)
  BY Zenon
<1> DEFINE v == [peer |-> p, start |-> now, end |-> now, error |-> e, addrs |-> as,
                 reached |-> b]
<1>3. b \in BOOLEAN /\ BeginVisit(w, v)
  BY <1>1, <1>2, Zenon
<1>4. /\ now \in Nat /\ p \in Peer
      /\ e \in Errors \union {NoError}
      /\ as \in SUBSET Addr
  <2>1. now \in Nat
    BY ProbingConstants DEF TypeInv
  <2>2. e \in Errors \union {NoError} /\ as \in SUBSET Addr
    BY ProbingConstants, Zenon
  <2> QED
    BY <2>1, <2>2
<1>5. v \in Reported
  <2>1. v \in Stored
    BY <1>3, <1>4 DEF Stored
  <2>2. v.start <= v.end
    BY <1>4
  <2> HIDE DEF v
  <2> QED
    BY <2>1, <2>2 DEF Reported
<1>6. v.error = e /\ v.addrs = as /\ v.reached = b
  OBVIOUS
<1>7. v.reached <=> v.error = NoError
  BY <1>2, <1>6, Zenon
<1> HIDE DEF v
<1> QED
  BY <1>3, <1>5, <1>6, <1>7, Zenon

LEMMA NextTypes == TypeInv /\ [Next]_vars => TypeInv'
<1> SUFFICES ASSUME TypeInv, [Next]_vars PROVE TypeInv'
  OBVIOUS
<1> USE DEF sessVars, dialVars, probeVars
<1>1. CASE SelectPeersToProbe \/ Stop \/ Tick \/ \E d \in Workers : DialerStep(d)
  BY <1>1, MonitorTypes
<1>2. ASSUME NEW w \in Writer, TakeResult(w) PROVE TypeInv'
  <2>1. PICK p \in Peer :
           /\ results[p] # NoResult /\ results[p] \in Reported
           /\ results' = [results EXCEPT ![p] = NoResult]
           /\ \/ ctxDone /\ UNCHANGED sessVars
              \/ ~ctxDone /\ BeginVisit(w, results[p])
    BY <1>2, TakenResult
  <2>2. results' \in [Peer -> Reported \union {NoResult}]
    BY <2>1 DEF TypeInv
  <2>3. CASE UNCHANGED sessVars
    BY <1>2, <2>2, <2>3 DEF TakeResult, TypeInv
  <2>4. CASE BeginVisit(w, results[p])
    <3>1. tx' \in [Writer -> Tx \union {Idle}] /\ visits' \in Nat
      BY <2>1, <2>4, BeginTypes
    <3> QED
      BY <1>2, <2>2, <2>4, <3>1 DEF BeginVisit, TakeResult, TypeInv
  <2> QED
    BY <2>1, <2>3, <2>4
<1>3. ASSUME NEW w \in Writer, CrawlVisit(w) PROVE TypeInv'
  <2>1. PICK v \in Reported : BeginVisit(w, v)
    BY <1>3, CrawledVisit
  <2>2. tx' \in [Writer -> Tx \union {Idle}] /\ visits' \in Nat
    BY <2>1, BeginTypes
  <2> QED
    BY <1>3, <2>1, <2>2 DEF BeginVisit, CrawlVisit, TypeInv
<1>4. ASSUME NEW w \in Writer, Storing(w) \/ Aborting(w) PROVE TypeInv'
  <2>1. CASE StoreVisit(w)
    BY <1>4, <2>1, StoreTypes DEF Storing, Aborting
  <2>2. CASE ReplaceAddresses(w) \/ ReadSession(w) \/ FailVisit(w) \/ AbortVisit(w)
    <3>1. tx' \in [Writer -> Tx \union {Idle}]
      BY <2>2, TxTypesKept
    <3>2. UNCHANGED <<now, known, addrRows, open, closed, visits, sessions, hist, stale>>
      BY <2>2 DEF ReplaceAddresses, ReadSession, FailVisit, AbortVisit
    <3>3. UNCHANGED <<dialVars, probeVars>>
      BY <1>4 DEF Storing, Aborting
    <3> QED
      BY <3>1, <3>2, <3>3 DEF TypeInv
  <2> QED
    BY <1>4, <2>1, <2>2 DEF Storing, Aborting
<1>5. CASE UNCHANGED vars
  BY <1>5 DEF vars, TypeInv
<1> QED
  BY <1>1, <1>2, <1>3, <1>4, <1>5 DEF Next, WriterStep

-----------------------------------------------------------------------------
\* The first theorem.

Real(v) == v.error # Canceled /\ Faithful(v)
AllReal(h) == \A i \in DOMAIN h : Real(h[i])

RealIn(hs, cs) == (\A p \in Peer : AllReal(hs[p])) /\ (\A c \in cs : AllReal(c.hist))

\* StoredVisits, of any histories and closed sessions.
StoredIn(hs, cs) == (UNION {{hs[p][i] : i \in DOMAIN hs[p]} : p \in Peer})
                    \union (UNION {{c.hist[i] : i \in DOMAIN c.hist} : c \in cs})

LEMMA VerdictsByHistory ==
  ASSUME NEW hs, NEW cs
  PROVE  (\A v \in StoredIn(hs, cs) : Real(v)) <=> RealIn(hs, cs)
<1> DEFINE A == UNION {{hs[p][i] : i \in DOMAIN hs[p]} : p \in Peer}
           B == UNION {{c.hist[i] : i \in DOMAIN c.hist} : c \in cs}
<1>1. ASSUME NEW v PROVE v \in A <=> \E p \in Peer : \E i \in DOMAIN hs[p] : v = hs[p][i]
  <2> DEFINE T(p) == {hs[p][i] : i \in DOMAIN hs[p]}
  <2>1. v \in UNION {T(p) : p \in Peer} <=> \E p \in Peer : v \in T(p)
    <3> HIDE DEF T
    <3> QED
      OBVIOUS
  <2>2. \A p \in Peer : v \in T(p) <=> \E i \in DOMAIN hs[p] : v = hs[p][i]
    OBVIOUS
  <2> QED
    BY <2>1, <2>2, Zenon
<1>2. ASSUME NEW v PROVE v \in B <=> \E c \in cs : \E i \in DOMAIN c.hist : v = c.hist[i]
  <2> DEFINE T(c) == {c.hist[i] : i \in DOMAIN c.hist}
  <2>1. v \in UNION {T(c) : c \in cs} <=> \E c \in cs : v \in T(c)
    <3> HIDE DEF T
    <3> QED
      OBVIOUS
  <2>2. \A c \in cs : v \in T(c) <=> \E i \in DOMAIN c.hist : v = c.hist[i]
    OBVIOUS
  <2> QED
    BY <2>1, <2>2, Zenon
<1>3. \A v : v \in StoredIn(hs, cs) <=> v \in A \/ v \in B
  BY DEF StoredIn
<1> HIDE DEF A, B
<1>4. ASSUME RealIn(hs, cs), NEW v \in StoredIn(hs, cs) PROVE Real(v)
  <2>1. \/ \E p \in Peer : \E i \in DOMAIN hs[p] : v = hs[p][i]
        \/ \E c \in cs : \E i \in DOMAIN c.hist : v = c.hist[i]
    BY <1>1, <1>2, <1>3, <1>4
  <2> QED
    BY <1>4, <2>1 DEF RealIn, AllReal
<1>5. ASSUME \A v \in StoredIn(hs, cs) : Real(v) PROVE RealIn(hs, cs)
  BY <1>1, <1>2, <1>3, <1>5 DEF RealIn, AllReal
<1> QED
  BY <1>4, <1>5

LEMMA VerdictsNow ==
  /\ VerdictsAreReal <=> RealIn(hist, closed)
  /\ VerdictsAreReal' <=> RealIn(hist', closed')
<1>1. VerdictsAreReal <=> \A v \in StoredIn(hist, closed) : Real(v)
  BY Zenon DEF VerdictsAreReal, StoredVisits, StoredIn, Real, Faithful
<1>2. VerdictsAreReal' <=> \A v \in StoredIn(hist', closed') : Real(v)
  BY Zenon DEF VerdictsAreReal, StoredVisits, StoredIn, Real, Faithful
<1> QED
  BY <1>1, <1>2, VerdictsByHistory

LEMMA AppendReal ==
  ASSUME NEW h \in Seq(Reported), NEW v \in Reported, AllReal(h), Real(v)
  PROVE  AllReal(Append(h, v))
<1>1. /\ Len(Append(h, v)) = Len(h) + 1 /\ Append(h, v)[Len(h) + 1] = v
      /\ \A i \in 1..Len(h) : Append(h, v)[i] = h[i]
      /\ Len(h) \in Nat /\ DOMAIN h = 1..Len(h) /\ DOMAIN Append(h, v) = 1..Len(Append(h, v))
  BY AppendProperties, LenProperties
<1> QED
  BY <1>1 DEF AllReal

LEMMA StoredReal ==
  ASSUME TypeInv, VerdictsAreReal, NEW p \in Peer, NEW v \in Reported, NEW es, Real(v),
         StoresInto(p, v, es)
  PROVE  VerdictsAreReal'
<1>1. RealIn(hist, closed)
  BY VerdictsNow
<1>2. hist[p] \in Seq(Reported) /\ hist \in [Peer -> Seq(Reported)]
  BY DEF TypeInv
<1>3. AllReal(Append(hist[p], v)) /\ AllReal(<<>>)
  <2>1. AllReal(<<>>)
    BY DEF AllReal
  <2> QED
    BY <1>1, <1>2, <2>1, AppendReal DEF RealIn
<1>4. RealIn(hist', closed')
  <2>1. CASE KeepsSessions
    BY <1>1, <2>1 DEF KeepsSessions
  <2>2. CASE \E row : ExtendsSession(p, v, es, row)
    BY <1>1, <1>2, <1>3, <2>2 DEF ExtendsSession, RealIn
  <2>3. CASE \E row : EndsSession(p, v, es, row)
    <3>1. PICK row : EndsSession(p, v, es, row)
      BY <2>3
    <3> DEFINE c == [peer |-> p, row |-> row, hist |-> Append(hist[p], v), stale |-> Late(p, es)]
    <3>2. closed' = closed \union {c} /\ hist' = [hist EXCEPT ![p] = <<>>]
      BY <3>1 DEF EndsSession
    <3>3. AllReal(c.hist)
      BY <1>3
    <3> HIDE DEF c
    <3> QED
      BY <1>1, <1>2, <1>3, <3>2, <3>3 DEF RealIn
  <2>4. \/ KeepsSessions \/ (\E row : ExtendsSession(p, v, es, row))
        \/ \E row : EndsSession(p, v, es, row)
    BY DEF StoresInto
  <2> QED
    BY <2>1, <2>2, <2>3, <2>4
<1> QED
  BY <1>4, VerdictsNow

LEMMA InitVerdicts == Init => VerdictIInv
<1> SUFFICES ASSUME Init PROVE VerdictIInv
  OBVIOUS
<1>1. TypeInv
  BY InitTypes
<1>2. VerdictInv
  BY DEF Init, SessInit, DialInit, VerdictInv
<1>3. VerdictsAreReal
  BY DEF Init, SessInit, VerdictsAreReal, StoredVisits
<1> QED
  BY <1>1, <1>2, <1>3 DEF VerdictIInv

\* A dialer that steps keeps DialInv: an attempt that fails leaves an error, one
\* that succeeds none.
LEMMA DialStepInv ==
  ASSUME TypeInv, VerdictInv, NEW d \in Workers, DialStep(d)
  PROVE  /\ dial[d] # NoDial /\ DialInv(d) /\ dial[d] \in Dial /\ dial'[d].pc # "idle"
         /\ dial'[d].error = Canceled => ctxDone
         /\ dial'[d].pc # "close" => ~dial'[d].reached
         /\ dial'[d].pc # "dial" => (dial'[d].error = NoError <=> dial'[d].reached)
<1>1. dial[d].pc \in {"dial", "pause"}
  BY DEF DialStep, DialSucceeds, DialFails, DialCanceled, PauseEnds, PauseCanceled
<1>2. dial[d] # NoDial /\ dial[d] \in Dial /\ DialInv(d)
  BY <1>1, DialTypes DEF NoDial, VerdictInv
<1>3. dial \in [Workers -> Dial \union {NoDial}] /\ dial[d].reached = FALSE
  BY <1>1, <1>2 DEF TypeInv, DialInv, Dial
<1>4. Canceled # NoError /\ "none" = NoError /\ \A e \in NetErrors : e # NoError /\ e # Canceled
  BY ProbingConstants, SessionConstants DEF NoError
<1>5. CASE DialSucceeds(d)
  <2>1. /\ dial'[d].pc = "close" /\ dial'[d].error = "none" /\ dial'[d].reached = TRUE
    BY <1>2, <1>3, <1>5 DEF DialSucceeds, Dial
  <2> QED
    BY <1>2, <1>4, <2>1
<1>6. ASSUME NEW e \in NetErrors, DialFails(d, e)
      PROVE  /\ dial'[d].pc \in {"close", "pause"} /\ dial'[d].error = e
             /\ dial'[d].reached = FALSE
  BY <1>2, <1>3, <1>6 DEF DialFails, Dial
<1>7. CASE DialCanceled(d)
  <2>1. /\ ctxDone /\ dial'[d].pc = "close" /\ dial'[d].error = Canceled
        /\ dial'[d].reached = FALSE
    BY <1>2, <1>3, <1>7 DEF DialCanceled, Dial
  <2> QED
    BY <1>2, <1>4, <2>1
<1>8. CASE PauseEnds(d)
  <2>1. /\ dial[d].pc = "pause" /\ dial'[d].pc \in {"dial", "close"}
        /\ dial'[d].error = dial[d].error /\ dial'[d].reached = FALSE
    BY <1>2, <1>3, <1>8 DEF PauseEnds, Dial
  <2> QED
    BY <1>2, <1>3, <2>1 DEF DialInv
<1>9. CASE PauseCanceled(d)
  <2>1. /\ dial[d].pc = "pause" /\ dial'[d].pc = "close"
        /\ dial'[d].error = dial[d].error /\ dial'[d].reached = FALSE
    BY <1>2, <1>3, <1>9 DEF PauseCanceled, Dial
  <2> QED
    BY <1>2, <1>3, <2>1 DEF DialInv
<1>10. CASE \E e \in NetErrors : DialFails(d, e)
  BY <1>2, <1>4, <1>6, <1>10
<1> QED
  BY <1>5, <1>7, <1>8, <1>9, <1>10 DEF DialStep

\* VerdictInv, part by part.
DialsInv == \A d \in Workers : dial[d] # NoDial => DialInv(d)
ResultsInv == \A p \in Peer : results[p] # NoResult =>
                Faithful(results[p]) /\ (results[p].error = Canceled => ctxDone)
TxInv == \A w \in Writer : tx[w] # Idle =>
           Faithful(tx[w].visit) /\ tx[w].visit.error # Canceled

LEMMA VerdictParts == VerdictInv <=> DialsInv /\ ResultsInv /\ TxInv
BY DEF VerdictInv, DialsInv, ResultsInv, TxInv

LEMMA MonitorVerdicts ==
  ASSUME TypeInv, VerdictInv,
         \/ SelectPeersToProbe \/ Stop \/ Tick
         \/ \E d \in Workers : DialerStep(d)
  PROVE  DialsInv' /\ ResultsInv' /\ TxInv'
<1> USE DEF sessVars, dialVars, probeVars
<1>0. DialsInv /\ ResultsInv /\ TxInv
  BY VerdictParts
<1>1. CASE SelectPeersToProbe \/ Stop \/ Tick
  <2>1. UNCHANGED <<dial, results, tx>> /\ (ctxDone => ctxDone')
    BY <1>1 DEF SelectPeersToProbe, Stop, Tick
  <2> QED
    BY <1>0, <2>1 DEF DialsInv, DialInv, ResultsInv, TxInv
<1>2. ASSUME NEW d \in Workers, TakeTask(d) PROVE DialsInv' /\ ResultsInv' /\ TxInv'
  <2>1. UNCHANGED <<results, tx, ctxDone>>
    BY <1>2 DEF TakeTask
  <2>2. PICK p \in tasks : StartDial(d, p, now)
    BY <1>2 DEF TakeTask
  <2>3. /\ dial'[d].pc = "dial" /\ dial'[d].error = "none" /\ dial'[d].reached = FALSE
        /\ \A e \in Workers \ {d} : dial'[e] = dial[e]
    BY <2>2 DEF StartDial, TypeInv
  <2>4. Canceled # "none"
    BY DEF Canceled
  <2>5. DialsInv'
    BY <1>0, <2>1, <2>3, <2>4 DEF DialsInv, DialInv
  <2> QED
    BY <1>0, <2>1, <2>5 DEF ResultsInv, TxInv
<1>3. ASSUME NEW d \in Workers, Dialing(d) PROVE DialsInv' /\ ResultsInv' /\ TxInv'
  <2>1. UNCHANGED <<results, tx, ctxDone>> /\ DialStep(d)
    BY <1>3 DEF Dialing
  <2>2. \A e \in Workers \ {d} : dial'[e] = dial[e]
    BY <2>1, DialStepChanges DEF TypeInv
  <2>3. DialsInv'
    BY <1>0, <2>1, <2>2, DialStepInv DEF DialsInv, DialInv
  <2> QED
    BY <1>0, <2>1, <2>3 DEF ResultsInv, TxInv
<1>4. ASSUME NEW d \in Workers, DialReturns(d) PROVE DialsInv' /\ ResultsInv' /\ TxInv'
  <2> DEFINE p == dial[d].peer
             v == [peer |-> p, start |-> dial[d].start, end |-> now, error |-> dial[d].error,
                   addrs |-> PeerRows(p), reached |-> dial[d].reached]
  <2>1. dial[d].pc = "close" /\ dial[d] # NoDial /\ UNCHANGED <<tx, ctxDone>>
    BY <1>4 DEF DialReturns, NoDial
  <2>2. DialInv(d) /\ p \in Peer
    BY <1>0, <2>1, DialTypes DEF DialsInv
  <2>3. v.error = dial[d].error /\ v.reached = dial[d].reached
    OBVIOUS
  <2>4. Faithful(v) /\ (v.error = Canceled => ctxDone)
    BY <2>1, <2>2, <2>3 DEF DialInv, Faithful, Succeeded
  <2>5. \/ results' = [results EXCEPT ![p] = IF @ = NoResult THEN v ELSE @]
        \/ results' = results
    BY <1>4 DEF DialReturns
  <2> HIDE DEF v
  <2>6. ResultsInv'
    BY <1>0, <2>1, <2>2, <2>4, <2>5 DEF ResultsInv, TypeInv
  <2>7. dial' = [dial EXCEPT ![d] = NoDial]
    BY <1>4 DEF DialReturns
  <2>8. DialsInv'
    BY <1>0, <2>1, <2>7 DEF DialsInv, DialInv, TypeInv
  <2> QED
    BY <1>0, <2>1, <2>6, <2>8 DEF TxInv
<1> QED
  BY <1>1, <1>2, <1>3, <1>4 DEF DialerStep

LEMMA WriterVerdicts ==
  ASSUME TypeInv, VerdictInv, VerdictsAreReal, NEW w \in Writer,
         TakeResult(w) \/ Storing(w) \/ CrawlVisit(w) \/ Aborting(w)
  PROVE  DialsInv' /\ ResultsInv' /\ TxInv' /\ VerdictsAreReal'
<1> USE DEF sessVars, dialVars, probeVars
<1>1. DialsInv /\ ResultsInv /\ TxInv /\ RealIn(hist, closed)
  BY VerdictParts, VerdictsNow
<1>2. UNCHANGED <<dial, ctxDone>>
  BY DEF TakeResult, Storing, CrawlVisit, Aborting
<1>3. DialsInv'
  BY <1>1, <1>2 DEF DialsInv, DialInv
<1>4. ASSUME NEW v \in Reported, BeginVisit(w, v), Real(v) PROVE TxInv' /\ VerdictsAreReal'
  <2>1. TxInv'
    BY <1>1, <1>4, BeginTypes DEF TxInv, Real
  <2>2. UNCHANGED <<hist, closed>>
    BY <1>4 DEF BeginVisit
  <2> QED
    BY <1>1, <2>1, <2>2, VerdictsNow
<1>5. CASE TakeResult(w)
  <2>1. PICK p \in Peer :
           /\ results[p] # NoResult /\ results[p] \in Reported
           /\ results' = [results EXCEPT ![p] = NoResult]
           /\ \/ ctxDone /\ UNCHANGED sessVars
              \/ ~ctxDone /\ BeginVisit(w, results[p])
    BY <1>5, TakenResult
  <2>2. ResultsInv'
    BY <1>1, <1>2, <2>1 DEF ResultsInv, TypeInv
  <2>3. CASE ctxDone /\ UNCHANGED sessVars
    BY <1>1, <1>3, <2>2, <2>3, VerdictsNow DEF TxInv
  <2>4. CASE ~ctxDone /\ BeginVisit(w, results[p])
    <3>1. Real(results[p])
      BY <1>1, <2>1, <2>4 DEF ResultsInv, Real
    <3> QED
      BY <1>3, <1>4, <2>1, <2>2, <2>4, <3>1
  <2> QED
    BY <2>1, <2>3, <2>4
<1>6. CASE CrawlVisit(w)
  <2>1. PICK v \in Reported : /\ BeginVisit(w, v) /\ v.error \in CrawlErrors \union {NoError}
                              /\ (v.reached <=> v.error = NoError)
    BY <1>6, CrawledVisit
  <2>2. v.error # Canceled
    BY <2>1, ProbingConstants, SessionConstants
  <2>3. Real(v)
    BY <2>1, <2>2, Zenon DEF Real, Faithful, Succeeded
  <2>4. ResultsInv'
    BY <1>1, <1>2, <1>6 DEF CrawlVisit, ResultsInv
  <2> QED
    BY <1>3, <1>4, <2>1, <2>3, <2>4
<1>7. CASE Storing(w) \/ Aborting(w)
  <2>1. ResultsInv'
    BY <1>1, <1>2, <1>7 DEF Storing, Aborting, ResultsInv
  <2>2. CASE StoreVisit(w)
    <3>1. /\ tx[w] # Idle /\ tx' = [tx EXCEPT ![w] = Idle]
          /\ StoresInto(tx[w].visit.peer, tx[w].visit, tx[w].es)
      BY <2>2, StoreCases
    <3>2. tx[w].visit \in Reported /\ tx[w].visit.peer \in Peer /\ Real(tx[w].visit)
      BY <1>1, <3>1, TxTypes DEF TxInv, Real
    <3>3. VerdictsAreReal'
      BY <3>1, <3>2, StoredReal
    <3>4. TxInv'
      BY <1>1, <3>1 DEF TxInv, TypeInv
    <3> QED
      BY <1>3, <2>1, <3>3, <3>4
  <2>3. CASE ReplaceAddresses(w) \/ ReadSession(w) \/ FailVisit(w) \/ AbortVisit(w)
    <3>1. UNCHANGED <<hist, closed>>
      BY <2>3 DEF ReplaceAddresses, ReadSession, FailVisit, AbortVisit
    <3>2. CASE ReplaceAddresses(w)
      <4>1. tx[w] \in Tx /\ tx[w] # Idle
        BY <3>2, TxTypes, IdleOnly DEF ReplaceAddresses
      <4>2. tx'[w].visit = tx[w].visit /\ \A u \in Writer \ {w} : tx'[u] = tx[u]
        BY <3>2, <4>1 DEF ReplaceAddresses, TypeInv, Tx
      <4> QED
        BY <1>1, <1>3, <2>1, <3>1, <4>1, <4>2, VerdictsNow DEF TxInv
    <3>3. CASE ReadSession(w)
      <4>1. tx[w] # Idle
        BY <3>3, IdleOnly DEF ReadSession
      <4>2. tx'[w].visit = tx[w].visit /\ \A u \in Writer \ {w} : tx'[u] = tx[u]
        BY <3>3, <4>1 DEF ReadSession, TypeInv
      <4> QED
        BY <1>1, <1>3, <2>1, <3>1, <4>1, <4>2, VerdictsNow DEF TxInv
    <3>4. CASE FailVisit(w) \/ AbortVisit(w)
      <4>1. tx' = [tx EXCEPT ![w] = Idle]
        BY <3>4 DEF FailVisit, AbortVisit
      <4>2. TxInv'
        BY <1>1, <4>1 DEF TxInv, TypeInv
      <4> QED
        BY <1>1, <1>3, <2>1, <3>1, <4>2, VerdictsNow
    <3> QED
      BY <2>3, <3>2, <3>3, <3>4
  <2> QED
    BY <1>7, <2>2, <2>3 DEF Storing, Aborting
<1> QED
  BY <1>5, <1>6, <1>7

LEMMA NextVerdicts == VerdictIInv /\ [Next]_vars => VerdictIInv'
<1> SUFFICES ASSUME VerdictIInv, [Next]_vars PROVE VerdictIInv'
  OBVIOUS
<1> USE DEF sessVars, dialVars, probeVars
<1>1. TypeInv /\ VerdictInv /\ VerdictsAreReal /\ TypeInv'
  BY NextTypes DEF VerdictIInv
<1>2. DialsInv' /\ ResultsInv' /\ TxInv' /\ VerdictsAreReal'
  <2>1. CASE SelectPeersToProbe \/ Stop \/ Tick \/ \E d \in Workers : DialerStep(d)
    <3>1. UNCHANGED <<hist, closed>>
      BY <2>1 DEF SelectPeersToProbe, Stop, Tick, DialerStep, TakeTask, Dialing, DialReturns
    <3> QED
      BY <1>1, <2>1, <3>1, MonitorVerdicts, VerdictsNow
  <2>2. ASSUME NEW w \in Writer, TakeResult(w) \/ Storing(w) \/ CrawlVisit(w) \/ Aborting(w)
        PROVE  DialsInv' /\ ResultsInv' /\ TxInv' /\ VerdictsAreReal'
    BY <1>1, <2>2, WriterVerdicts
  <2>3. CASE UNCHANGED vars
    <3>1. UNCHANGED <<dial, results, tx, ctxDone, hist, closed>>
      BY <2>3 DEF vars
    <3>2. DialsInv /\ ResultsInv /\ TxInv
      BY <1>1, VerdictParts
    <3> QED
      BY <1>1, <3>1, <3>2, VerdictsNow DEF DialsInv, DialInv, ResultsInv, TxInv
  <2> QED
    BY <2>1, <2>2, <2>3 DEF Next, WriterStep
<1>3. VerdictInv'
  BY <1>2 DEF VerdictInv, DialsInv, ResultsInv, TxInv
<1> QED
  BY <1>1, <1>2, <1>3 DEF VerdictIInv

\* A stored visit says what the dialer found, and a cancelled dial is not
\* stored, however the transactions overlap.
THEOREM VerdictsReal == Spec => []VerdictsAreReal
<1>1. VerdictIInv => VerdictsAreReal
  BY DEF VerdictIInv
<1> QED
  BY InitVerdicts, NextVerdicts, <1>1, PTL DEF Spec

-----------------------------------------------------------------------------
\* The commit of a visit.

LEMMA InitSessions == Init => SessionIInv
<1> SUFFICES ASSUME Init PROVE SessionIInv
  OBVIOUS
<1>1. TypeInv
  BY InitTypes
<1>2. SoundInv
  BY DEF Init, SessInit, SoundInv
<1>3. ReadInv
  BY DEF Init, SessInit, ReadInv, Idle, NoSession
<1> QED
  BY <1>1, <1>2, <1>3 DEF SessionIInv

\* The session goes on: what is left to show is what the visit makes of it.
LEMMA ExtendSound ==
  ASSUME TypeInv, SoundInv, NEW p \in Peer, NEW v, NEW es, NEW row \in OpenRow,
         ExtendsSession(p, v, es, row), LooseSound(row, Append(hist[p], v)),
         ~Late(p, es) => OpenSound(row, Append(hist[p], v))
  PROVE  SoundInv'
<1>1. /\ open \in [Peer -> OpenRow \union {NoSession}] /\ hist \in [Peer -> Seq(Reported)]
      /\ stale \in [Peer -> BOOLEAN] /\ row # NoSession
  BY RowKinds DEF TypeInv, OpenRow
<1>2. /\ open'[p] = row /\ hist'[p] = Append(hist[p], v) /\ (stale'[p] <=> Late(p, es))
      /\ closed' = closed
      /\ \A q \in Peer \ {p} : open'[q] = open[q] /\ hist'[q] = hist[q] /\ stale'[q] = stale[q]
  BY <1>1 DEF ExtendsSession
<1> QED
  BY <1>1, <1>2 DEF SoundInv

\* The same for a session that ends.
LEMMA EndSound ==
  ASSUME TypeInv, SoundInv, NEW p \in Peer, NEW v, NEW es, NEW row,
         EndsSession(p, v, es, row), ClosedLoose(row, Append(hist[p], v)),
         ~Late(p, es) => ClosedSound(row, Append(hist[p], v))
  PROVE  SoundInv'
<1> DEFINE c == [peer |-> p, row |-> row, hist |-> Append(hist[p], v), stale |-> Late(p, es)]
<1>1. /\ open \in [Peer -> OpenRow \union {NoSession}] /\ hist \in [Peer -> Seq(Reported)]
      /\ stale \in [Peer -> BOOLEAN]
  BY DEF TypeInv
<1>2. closed' = closed \union {c}
  BY Zenon DEF EndsSession
<1>3. ClosedLoose(c.row, c.hist) /\ (~c.stale => ClosedSound(c.row, c.hist))
  OBVIOUS
<1>4. /\ open'[p] = NoSession /\ hist'[p] = <<>> /\ ~stale'[p]
      /\ \A q \in Peer \ {p} : open'[q] = open[q] /\ hist'[q] = hist[q] /\ stale'[q] = stale[q]
  BY <1>1 DEF EndsSession
<1> HIDE DEF c
<1> QED
  BY <1>1, <1>2, <1>3, <1>4 DEF SoundInv

LEMMA SoundAppend ==
  ASSUME TypeInv, SoundInv, NEW p \in Peer, NEW v \in Reported, NEW es, StoresInto(p, v, es),
         es # NoSession /\ es.id = open[p].id => Earlier(es, open[p], hist[p])
  PROVE  SoundInv'
<1>1. hist[p] \in Seq(Reported) /\ sessions + 1 \in Nat \ {0}
  BY DEF TypeInv
<1>2. CASE KeepsSessions
  BY <1>2 DEF KeepsSessions, SoundInv
<1>3. CASE /\ open[p] = NoSession /\ Succeeded(v)
           /\ ExtendsSession(p, v, es, NewSession(sessions + 1, v))
  <2>1. hist[p] = <<>>
    BY <1>3 DEF SoundInv
  <2>2. NewSession(sessions + 1, v) \in OpenRow /\ Append(hist[p], v) \in Seq(Reported)
    BY <1>1, NewSessionType, AppendProperties
  <2>3. OpenSound(NewSession(sessions + 1, v), Append(hist[p], v))
    BY <1>1, <1>3, <2>1, NewSessionSound
  <2>4. LooseSound(NewSession(sessions + 1, v), Append(hist[p], v))
    BY <2>2, <2>3, SoundIsLoose
  <2> QED
    BY <1>3, <2>2, <2>3, <2>4, ExtendSound
<1>4. CASE /\ es \in OpenRow /\ open[p] \in OpenRow /\ es.id = open[p].id
           /\ \/ /\ Succeeded(v) /\ v.end >= es.firstOk
                 /\ ExtendsSession(p, v, es, UpdateNoError(es, open[p], v))
              \/ /\ ~Succeeded(v) /\ Tolerated(es, v)
                 /\ ExtendsSession(p, v, es, IF es.state = "open"
                                             THEN UpdateOpenError(es, open[p], v)
                                             ELSE UpdatePendingError(es, open[p], v))
              \/ /\ ~Succeeded(v) /\ ~Tolerated(es, v)
                 /\ EndsSession(p, v, es, CloseSession(es, open[p], v))
  <2> DEFINE row == open[p]
             g == Append(hist[p], v)
             up == UpdateNoError(es, row, v)
             pend == IF es.state = "open" THEN UpdateOpenError(es, row, v)
                     ELSE UpdatePendingError(es, row, v)
             down == CloseSession(es, row, v)
  <2>1. /\ es \in OpenRow /\ row \in OpenRow /\ es # NoSession /\ row # NoSession
        /\ Earlier(es, row, hist[p])
    BY <1>4, RowKinds DEF OpenRow
  <2>2. LooseSound(row, hist[p]) /\ (~Late(p, es) => es = row /\ OpenSound(row, hist[p]))
    BY <2>1 DEF SoundInv, Late
  <2>3. up \in OpenRow /\ pend \in OpenRow
    BY <2>1, WriteSessionType
  <2>4. CASE Succeeded(v) /\ v.end >= es.firstOk /\ ExtendsSession(p, v, es, up)
    <3>1. LooseSound(up, g)
      BY <1>1, <2>1, <2>2, <2>4, SuccessLoose
    <3>2. ~Late(p, es) => OpenSound(up, g)
      BY <1>1, <2>1, <2>2, <2>4, SuccessSound
    <3> HIDE DEF up
    <3> QED
      BY <2>3, <2>4, <3>1, <3>2, ExtendSound
  <2>5. CASE ~Succeeded(v) /\ Tolerated(es, v) /\ ExtendsSession(p, v, es, pend)
    <3>1. LooseSound(pend, g)
      BY <1>1, <2>1, <2>2, <2>5, PendingLoose
    <3>2. ~Late(p, es) => OpenSound(pend, g)
      BY <1>1, <2>1, <2>2, <2>5, PendingSound
    <3> HIDE DEF pend
    <3> QED
      BY <2>3, <2>5, <3>1, <3>2, ExtendSound
  <2>6. CASE ~Succeeded(v) /\ ~Tolerated(es, v) /\ EndsSession(p, v, es, down)
    <3>1. ClosedLoose(down, g)
      BY <1>1, <2>1, <2>2, <2>6, ClosingLoose
    <3>2. ~Late(p, es) => ClosedSound(down, g)
      BY <1>1, <2>1, <2>2, <2>6, ClosingSound
    <3> HIDE DEF down
    <3> QED
      BY <2>6, <3>1, <3>2, EndSound
  <2> QED
    BY <1>4, <2>4, <2>5, <2>6
<1> QED
  BY <1>2, <1>3, <1>4, Zenon DEF StoresInto

\* The first success and the id of a row stay what they are.
LEMMA UpdatesKeep ==
  ASSUME NEW es, NEW row \in OpenRow, NEW v
  PROVE  /\ UpdateNoError(es, row, v).firstOk = row.firstOk
         /\ UpdateNoError(es, row, v).id = row.id
         /\ UpdateOpenError(es, row, v).firstOk = row.firstOk
         /\ UpdateOpenError(es, row, v).id = row.id
         /\ UpdatePendingError(es, row, v).firstOk = row.firstOk
         /\ UpdatePendingError(es, row, v).id = row.id
BY DEF UpdateNoError, UpdateOpenError, UpdatePendingError, OpenRow, Session

\* What a commit does to the session of its peer, for one who has read it before.
LEMMA SessionMoves ==
  ASSUME TypeInv, ReadInv, NEW p \in Peer, NEW v \in Reported, NEW es, StoresInto(p, v, es)
  PROVE  /\ sessions' >= sessions /\ sessions' \in Nat
         /\ open'[p].id <= sessions'
         /\ \A q \in Peer \ {p} : open'[q] = open[q] /\ hist'[q] = hist[q]
         /\ \/ open'[p] = open[p] /\ hist'[p] = hist[p]
            \/ open'[p].id = sessions + 1 \/ open'[p].id = 0
            \/ /\ open[p] \in OpenRow
               /\ open'[p].id = open[p].id /\ open'[p].firstOk = open[p].firstOk
               /\ hist'[p] = Append(hist[p], v)
<1>1. /\ open \in [Peer -> OpenRow \union {NoSession}] /\ hist \in [Peer -> Seq(Reported)]
      /\ sessions \in Nat /\ open[p].id <= sessions /\ NoSession.id = 0
  BY RowKinds DEF TypeInv, ReadInv
<1>2. CASE KeepsSessions
  BY <1>1, <1>2 DEF KeepsSessions
<1>3. CASE /\ ExtendsSession(p, v, es, NewSession(sessions + 1, v))
           /\ sessions' = sessions + 1
  <2>1. NewSession(sessions + 1, v).id = sessions + 1
    BY DEF NewSession
  <2> QED
    BY <1>1, <1>3, <2>1 DEF ExtendsSession
<1>4. ASSUME NEW row, ExtendsSession(p, v, es, row), open[p] \in OpenRow, sessions' = sessions,
             row.id = open[p].id, row.firstOk = open[p].firstOk
      PROVE  /\ sessions' >= sessions /\ sessions' \in Nat
             /\ open'[p].id <= sessions'
             /\ \A q \in Peer \ {p} : open'[q] = open[q] /\ hist'[q] = hist[q]
             /\ open'[p].id = open[p].id /\ open'[p].firstOk = open[p].firstOk
             /\ hist'[p] = Append(hist[p], v)
  BY <1>1, <1>4 DEF ExtendsSession
<1>5. ASSUME NEW row, EndsSession(p, v, es, row), sessions' = sessions
      PROVE  /\ sessions' >= sessions /\ sessions' \in Nat
             /\ open'[p].id <= sessions' /\ open'[p].id = 0
             /\ \A q \in Peer \ {p} : open'[q] = open[q] /\ hist'[q] = hist[q]
  BY <1>1, <1>5 DEF EndsSession
<1>6. CASE /\ open[p] \in OpenRow /\ sessions' = sessions
           /\ \/ ExtendsSession(p, v, es, UpdateNoError(es, open[p], v))
              \/ ExtendsSession(p, v, es, IF es.state = "open"
                                          THEN UpdateOpenError(es, open[p], v)
                                          ELSE UpdatePendingError(es, open[p], v))
  <2> DEFINE up == UpdateNoError(es, open[p], v)
             pend == IF es.state = "open" THEN UpdateOpenError(es, open[p], v)
                     ELSE UpdatePendingError(es, open[p], v)
  <2>1. /\ up.id = open[p].id /\ up.firstOk = open[p].firstOk
        /\ pend.id = open[p].id /\ pend.firstOk = open[p].firstOk
    BY <1>6, UpdatesKeep
  <2>2. ExtendsSession(p, v, es, up) \/ ExtendsSession(p, v, es, pend)
    BY <1>6
  <2> HIDE DEF up, pend
  <2> QED
    BY <1>4, <1>6, <2>1, <2>2
<1>7. CASE sessions' = sessions /\ EndsSession(p, v, es, CloseSession(es, open[p], v))
  BY <1>5, <1>7
<1> QED
  BY <1>2, <1>3, <1>6, <1>7, Zenon DEF StoresInto

LEMMA StoreSessions ==
  ASSUME TypeInv, SoundInv, ReadInv, NEW w \in Writer, StoreVisit(w)
  PROVE  SoundInv' /\ ReadInv'
<1> DEFINE v == tx[w].visit
           p == v.peer
           es == tx[w].es
<1>1. /\ tx[w] # Idle /\ tx[w].pc = "write" /\ tx' = [tx EXCEPT ![w] = Idle]
      /\ StoresInto(p, v, es)
  BY StoreCases
<1>2. v \in Reported /\ p \in Peer
  BY <1>1, TxTypes
<1>3. SoundInv'
  <2>1. es # NoSession /\ es.id = open[p].id => Earlier(es, open[p], hist[p])
    BY <1>1 DEF ReadInv
  <2> QED
    BY <1>1, <1>2, <2>1, SoundAppend
<1>4. /\ sessions' >= sessions /\ sessions' \in Nat /\ sessions \in Nat
      /\ open'[p].id <= sessions'
      /\ \A q \in Peer \ {p} : open'[q] = open[q] /\ hist'[q] = hist[q]
      /\ \/ open'[p] = open[p] /\ hist'[p] = hist[p]
         \/ open'[p].id = sessions + 1 \/ open'[p].id = 0
         \/ /\ open[p] \in OpenRow
            /\ open'[p].id = open[p].id /\ open'[p].firstOk = open[p].firstOk
            /\ hist'[p] = Append(hist[p], v)
  BY <1>1, <1>2, SessionMoves DEF TypeInv
<1>5. \A q \in Peer : open'[q].id <= sessions'
  <2> SUFFICES ASSUME NEW q \in Peer \ {p} PROVE open'[q].id <= sessions'
    BY <1>4
  <2>1. open'[q] = open[q] /\ open[q].id <= sessions
    BY <1>4 DEF ReadInv
  <2>2. open[q] \in OpenRow \union {NoSession}
    BY DEF TypeInv
  <2>3. open[q].id \in Nat
    BY <2>2, RowKinds DEF OpenRow, Session
  <2> QED
    BY <1>4, <2>1, <2>3
<1>6. ASSUME NEW u \in Writer, tx'[u].pc = "write", tx'[u].es # NoSession
      PROVE  LET q == tx'[u].visit.peer IN
             /\ tx'[u].es.id <= sessions'
             /\ tx'[u].es.id = open'[q].id => Earlier(tx'[u].es, open'[q], hist'[q])
  <2> DEFINE q == tx[u].visit.peer
             r == tx[u].es
  <2>1. tx'[u] = tx[u] /\ tx[u].pc = "write" /\ tx[u] # Idle
    BY <1>1, <1>6 DEF TypeInv, Idle
  <2>2. q \in Peer /\ r \in OpenRow /\ r.id \in Nat \ {0}
    BY <1>6, <2>1, TxTypes DEF OpenRow, Session
  <2>3. r.id <= sessions /\ (r.id = open[q].id => Earlier(r, open[q], hist[q]))
    BY <1>6, <2>1 DEF ReadInv
  <2>4. r.id <= sessions'
    BY <1>4, <2>2, <2>3
  <2>5. ASSUME r.id = open'[q].id PROVE Earlier(r, open'[q], hist'[q])
    <3>1. CASE open'[q] = open[q] /\ hist'[q] = hist[q]
      BY <2>3, <2>5, <3>1
    <3>2. CASE ~(open'[q] = open[q] /\ hist'[q] = hist[q])
      <4>1. /\ q = p /\ open[p] \in OpenRow /\ open'[p].id = open[p].id
            /\ open'[p].firstOk = open[p].firstOk /\ hist'[p] = Append(hist[p], v)
        <5>1. q = p
          BY <1>4, <2>2, <3>2
        <5>2. open'[p].id # 0 /\ open'[p].id # sessions + 1
          BY <1>4, <2>2, <2>3, <2>5, <5>1
        <5> QED
          BY <1>4, <3>2, <5>1, <5>2
      <4>2. Earlier(r, open[p], hist[p])
        BY <2>3, <2>5, <4>1
      <4>3. Ordered(hist[p]) /\ hist[p] \in Seq(Reported)
        BY <1>2, <4>1, RowKinds DEF SoundInv, LooseSound, OpenRow, TypeInv
      <4>4. Earlier(r, open'[p], Append(hist[p], v))
        BY <1>2, <2>2, <4>1, <4>2, <4>3, EarlierStays
      <4> QED
        BY <4>1, <4>4
    <3> QED
      BY <3>1, <3>2
  <2> QED
    BY <2>1, <2>4, <2>5
<1>7. ReadInv'
  BY <1>5, <1>6 DEF ReadInv
<1> QED
  BY <1>3, <1>7

\* A transaction that begins, goes on or is given up changes no session; it reads
\* one as it is.
LEMMA ReadNow ==
  ASSUME TypeInv, SoundInv, NEW p \in Peer, open[p] # NoSession
  PROVE  Earlier(open[p], open[p], hist[p])
<1>1. LooseSound(open[p], hist[p]) /\ hist[p] \in Seq(Reported)
  BY DEF SoundInv, TypeInv
<1> QED
  BY <1>1, OvercountsCounts DEF LooseSound, Earlier

LEMMA TxSessions ==
  ASSUME TypeInv, SoundInv, ReadInv, NEW w \in Writer,
         UNCHANGED <<open, closed, sessions, hist, stale>>,
         \A u \in Writer \ {w} : tx'[u] = tx[u],
         \/ tx'[w] = tx[w] \/ tx'[w].pc # "write"
         \/ /\ tx'[w].visit.peer \in Peer /\ tx'[w].es = open[tx'[w].visit.peer]
  PROVE  SoundInv' /\ ReadInv'
<1>1. SoundInv'
  BY DEF SoundInv
<1>2. \A u \in Writer : tx'[u].pc = "write" /\ tx'[u].es # NoSession =>
        LET p == tx'[u].visit.peer IN
        /\ tx'[u].es.id <= sessions
        /\ tx'[u].es.id = open[p].id => Earlier(tx'[u].es, open[p], hist[p])
  BY ReadNow DEF ReadInv
<1>3. ReadInv'
  BY <1>2 DEF ReadInv
<1> QED
  BY <1>1, <1>3

LEMMA WriterSessions ==
  ASSUME TypeInv, SoundInv, ReadInv, NEW w \in Writer,
         TakeResult(w) \/ Storing(w) \/ CrawlVisit(w) \/ Aborting(w)
  PROVE  SoundInv' /\ ReadInv'
<1>1. ASSUME NEW v \in Reported, BeginVisit(w, v) PROVE SoundInv' /\ ReadInv'
  <2>1. UNCHANGED <<open, closed, sessions, hist, stale>>
    BY <1>1 DEF BeginVisit
  <2>2. tx'[w].pc = "addresses" /\ \A u \in Writer \ {w} : tx'[u] = tx[u]
    BY <1>1, BeginTypes
  <2> QED
    BY <2>1, <2>2, TxSessions
<1>2. CASE TakeResult(w)
  <2>1. CASE UNCHANGED sessVars
    BY <2>1 DEF sessVars, SoundInv, ReadInv
  <2> QED
    BY <1>1, <1>2, <2>1, TakenResult
<1>3. CASE CrawlVisit(w)
  BY <1>1, <1>3, CrawledVisit
<1>4. CASE StoreVisit(w)
  BY <1>4, StoreSessions
<1>5. CASE ReplaceAddresses(w) \/ ReadSession(w) \/ FailVisit(w) \/ AbortVisit(w)
  <2>1. UNCHANGED <<open, closed, sessions, hist, stale>>
    BY <1>5 DEF ReplaceAddresses, ReadSession, FailVisit, AbortVisit
  <2>2. \A u \in Writer \ {w} : tx'[u] = tx[u]
    BY <1>5 DEF ReplaceAddresses, ReadSession, FailVisit, AbortVisit, TypeInv
  <2>3. CASE ReplaceAddresses(w)
    <3>1. tx'[w].pc = "read"
      BY <2>3, TxTypes, IdleOnly DEF ReplaceAddresses, TypeInv, Tx
    <3> QED
      BY <2>1, <2>2, <3>1, TxSessions
  <2>4. CASE ReadSession(w)
    <3>1. tx[w] \in Tx /\ tx[w].visit.peer \in Peer
      BY <2>4, TxTypes, IdleOnly DEF ReadSession
    <3>2. tx'[w].visit = tx[w].visit /\ tx'[w].es = open[tx[w].visit.peer]
      BY <2>4, <3>1 DEF ReadSession, TypeInv, Tx
    <3> QED
      BY <2>1, <2>2, <3>1, <3>2, TxSessions
  <2>5. CASE FailVisit(w) \/ AbortVisit(w)
    <3>1. tx'[w].pc = "idle"
      BY <2>5 DEF FailVisit, AbortVisit, TypeInv, Idle
    <3> QED
      BY <2>1, <2>2, <3>1, TxSessions
  <2> QED
    BY <1>5, <2>3, <2>4, <2>5
<1> QED
  BY <1>2, <1>3, <1>4, <1>5 DEF Storing, Aborting

LEMMA NextSessions == SessionIInv /\ [Next]_vars => SessionIInv'
<1> SUFFICES ASSUME SessionIInv, [Next]_vars PROVE SessionIInv'
  OBVIOUS
<1> USE DEF sessVars, dialVars, probeVars
<1>1. TypeInv /\ SoundInv /\ ReadInv /\ TypeInv'
  BY NextTypes DEF SessionIInv
<1>2. CASE \/ SelectPeersToProbe \/ Stop \/ Tick \/ UNCHANGED vars
           \/ \E d \in Workers : DialerStep(d)
  <2>1. UNCHANGED <<open, closed, sessions, hist, stale, tx>>
    BY <1>2 DEF SelectPeersToProbe, Stop, Tick, DialerStep, TakeTask, Dialing, DialReturns, vars
  <2> QED
    BY <1>1, <2>1 DEF SessionIInv, SoundInv, ReadInv
<1>3. ASSUME NEW w \in Writer, TakeResult(w) \/ Storing(w) \/ CrawlVisit(w) \/ Aborting(w)
      PROVE  SessionIInv'
  BY <1>1, <1>3, WriterSessions DEF SessionIInv
<1> QED
  BY <1>2, <1>3 DEF Next, WriterStep

-----------------------------------------------------------------------------
\* The theorems on sessions.

LEMMA TypesHold == TypeInv => TypeOK
<1> SUFFICES ASSUME TypeInv PROVE TypeOK
  OBVIOUS
<1>1. \A w \in Writer : tx[w].pc \in {"idle", "addresses", "read", "write"}
  BY TxTypes DEF Idle
<1>2. \A d \in Workers : dial[d].pc \in {"idle", "dial", "pause", "close"}
  BY DialTypes DEF NoDial
<1>3. \A c \in closed : c.row \in Session /\ c.peer \in Peer
  BY DEF TypeInv, Ended
<1>4. /\ addrRows \in [Peer -> SUBSET [addr : Addr, by : Nat]]
      /\ open \in [Peer -> Session \union {NoSession}]
      /\ results \in [Peer -> Stored \union {NoResult}]
  BY DEF TypeInv, AddrRow, OpenRow, Reported
<1> QED
  BY <1>1, <1>2, <1>3, <1>4 DEF TypeInv, TypeOK

\* However the transactions of monitors and crawls overlap, no session counts a
\* visit twice, and one whose visits were each stored from the row as the one
\* before had left it is the sum of all of them.
THEOREM SessionsAreSums == Spec => []SessionsSumUp
<1>1. SessionIInv => SessionsSumUp
  <2> SUFFICES ASSUME SessionIInv PROVE SessionsSumUp
    OBVIOUS
  <2>1. TypeOK /\ SoundInv
    BY TypesHold DEF SessionIInv
  <2> QED
    BY <2>1 DEF SessionsSumUp, SoundInv, LooseSound, OpenSound, ClosedLoose, ClosedSound
<1> QED
  BY InitSessions, NextSessions, <1>1, PTL DEF Spec

\* An open session has a next visit that is set, and near.  A session whose
\* visits were each stored from the row before ends with the first failure its
\* uptime does not forgive, and with no other.
THEOREM SessionsEndRightly == Spec => []SessionsEndForAReason
<1>1. SessionIInv => SessionsEndForAReason
  BY DEF SessionIInv, SessionsEndForAReason, SoundInv, LooseSound, OpenSound, ClosedSound,
         NextIsNear
<1> QED
  BY InitSessions, NextSessions, <1>1, PTL DEF Spec

=============================================================================
