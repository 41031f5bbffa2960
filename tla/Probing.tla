------------------------------ MODULE Probing ------------------------------
(***************************************************************************)
(* nebula monitor and nebula crawl on one Postgres database, seen from the *)
(* sessions: the monitor reads which peers are due, its dialers visit them *)
(* (Dialer), its writers store the results, and the writers of a crawl in  *)
(* another process store theirs (Sessions).  The engine of the monitor is  *)
(* reduced to what module Monitor shows of it: a peer waits at most once   *)
(* in the task queue, is with at most one dialer, and has at most one      *)
(* result in the write queue, where a second one is dropped.               *)
(***************************************************************************)
EXTENDS Sessions, Dialer, FiniteSetsExt

CONSTANTS
  MonitorWriter,       \* connections a writer of the monitor may use
  CrawlWriter,         \* connections a writer of the crawl may use
  CrawlErrors,         \* connect errors of a crawl
  CrawlAddrs,          \* the sets of addresses a crawl stores with a visit
  MaxTime, MaxVisits   \* bounds of the model

ASSUME ProbingConstants ==
  /\ CrawlWriter \union MonitorWriter = Writer
  /\ NetErrors \subseteq Errors /\ CrawlErrors \subseteq Errors
  /\ Canceled \in Errors \ (NetErrors \union CrawlErrors)   \* DialCanceled is a step of its own
  /\ CrawlAddrs \subseteq SUBSET Addr
  /\ MaxTime \in Nat /\ MaxVisits \in Nat

VARIABLES
  tasks,    \* peers between SelectPeersToProbe and a dialer
  results   \* the write queue: at most one visit per peer

probeVars == <<tasks, results>>
vars == <<sessVars, dialVars, probeVars>>

NoResult == [pc |-> "none"]

Init ==
  /\ SessInit
  /\ DialInit
  /\ tasks = {}
  /\ results = [p \in Peer |-> NoResult]

(***************************************************************************)
(* The monitor.                                                            *)
(***************************************************************************)

Due(p) == open[p] # NoSession /\ open[p].due < now

Inflight == {dial[d].peer : d \in {e \in Workers : dial[e] # NoDial}}

\* The bound on the model: every probe underway counts as a visit.
Underway == Cardinality(tasks) + Cardinality(Inflight) + Cardinality({p \in Peer : results[p] # NoResult})
WithinBound == visits + Underway < MaxVisits

\* SelectPeersToProbe.  Peers already queued or inflight are not queued again.
SelectPeersToProbe ==
  /\ ~ctxDone /\ WithinBound
  /\ tasks' = tasks \union ({p \in Peer : Due(p)} \ Inflight)
  /\ UNCHANGED <<sessVars, dialVars, results>>

TakeTask(d) ==
  /\ ~ctxDone
  /\ \E p \in tasks :
       /\ StartDial(d, p, now)
       /\ tasks' = tasks \ {p}
  /\ UNCHANGED <<sessVars, ctxDone, results>>

Dialing(d) ==
  /\ DialStep(d)
  /\ UNCHANGED <<sessVars, ctxDone, probeVars>>

\* The dialer returns; handlePeerResult pushes the result.  Once the context
\* is done the engine may take the result or drop it.
PeerRows(p) == {r.addr : r \in addrRows[p]}
DialReturns(d) ==
  LET p == dial[d].peer
      v == [peer |-> p, start |-> dial[d].start, end |-> now, error |-> dial[d].error,
            addrs |-> PeerRows(p), reached |-> dial[d].reached]
  IN
  /\ dial[d].pc = "close"
  /\ dial' = [dial EXCEPT ![d] = NoDial]
  /\ \/ results' = [results EXCEPT ![p] = IF @ = NoResult THEN v ELSE @]
     \/ ctxDone /\ UNCHANGED results
  /\ UNCHANGED <<sessVars, ctxDone, tasks>>

\* A writer of the monitor takes a result.  With a context that is done
\* InsertVisit fails before it has sent anything.
TakeResult(w) ==
  /\ w \in MonitorWriter
  /\ tx[w] = Idle
  /\ \E p \in Peer :
       /\ results[p] # NoResult
       /\ IF ctxDone THEN UNCHANGED sessVars ELSE BeginVisit(w, results[p])
       /\ results' = [results EXCEPT ![p] = NoResult]
  /\ UNCHANGED <<dialVars, tasks>>

Stop ==
  /\ ~ctxDone
  /\ ctxDone' = TRUE
  /\ UNCHANGED <<sessVars, dial, probeVars>>

(***************************************************************************)
(* The crawl, which visits whom it likes, and the clock.                   *)
(***************************************************************************)

CrawlVisit(w) ==
  /\ w \in CrawlWriter /\ WithinBound
  /\ \E p \in Peer, err \in CrawlErrors \union {NoError}, as \in CrawlAddrs :
       BeginVisit(w, [peer |-> p, start |-> now, end |-> now, error |-> err, addrs |-> as,
                      reached |-> err = NoError])
  /\ UNCHANGED <<dialVars, probeVars>>

Tick ==
  /\ now < MaxTime
  /\ now' = now + 1
  /\ UNCHANGED <<known, addrRows, open, closed, tx, visits, sessions, hist, stale, dialVars, probeVars>>

Storing(w) ==
  /\ ReplaceAddresses(w) \/ ReadSession(w) \/ StoreVisit(w) \/ FailVisit(w)
  /\ UNCHANGED <<dialVars, probeVars>>

Aborting(w) == AbortVisit(w) /\ UNCHANGED <<dialVars, probeVars>>

\* The two kinds of goroutines: a dialer and a writer with its transaction.
DialerStep(d) == TakeTask(d) \/ Dialing(d) \/ DialReturns(d)
WriterStep(w) == TakeResult(w) \/ Storing(w)

Next ==
  \/ SelectPeersToProbe \/ Stop \/ Tick
  \/ \E d \in Workers : DialerStep(d)
  \/ \E w \in Writer : WriterStep(w) \/ CrawlVisit(w) \/ Aborting(w)

\* Neither the clock nor the crawl has to go on, and nothing has to fail.
Fairness ==
  /\ WF_vars(SelectPeersToProbe)
  /\ \A d \in Workers : WF_vars(DialerStep(d))
  /\ \A w \in Writer : WF_vars(WriterStep(w))

Spec == Init /\ [][Next]_vars /\ Fairness

(***************************************************************************)
(* Properties.                                                             *)
(***************************************************************************)

Session == [id : Nat, state : {"open", "pending", "closed"}, firstOk : Nat, lastOk : Nat,
            visited : Nat, due : Nat \union {NoTime}, ok : Nat, failed : Nat,
            firstFailed : Nat \union {NoTime}, recovered : Nat,
            reason : Errors \union {NoError}]

Stored == [peer : Peer, start : Nat, end : Nat, error : Errors \union {NoError},
           addrs : SUBSET Addr, reached : BOOLEAN]

TypeOK ==
  /\ now \in 0..MaxTime /\ visits \in Nat /\ sessions \in Nat
  /\ known \subseteq Peer
  /\ addrRows \in [Peer -> SUBSET [addr : Addr, by : Nat]]
  /\ open \in [Peer -> Session \union {NoSession}]
  /\ \A c \in closed : c.row \in Session /\ c.peer \in Peer
  /\ \A w \in Writer : tx[w].pc \in {"idle", "addresses", "read", "write"}
  /\ stale \in [Peer -> BOOLEAN]
  /\ tasks \subseteq Peer
  /\ results \in [Peer -> Stored \union {NoResult}]
  /\ \A d \in Workers : dial[d].pc \in {"idle", "dial", "pause", "close"}
  /\ ctxDone \in BOOLEAN

\* The position of the last successful visit, and the failures after it.
LastOk(h) == Max({i \in DOMAIN h : Succeeded(h[i])})
Failures(h) == Len(h) - LastOk(h)

\* What a session row says is what the visits stored for it add up to.
Summarises(row, h) ==
  LET last == LastOk(h) IN
  /\ Succeeded(h[1])
  /\ row.firstOk = h[1].start /\ row.lastOk = h[last].end /\ row.visited = h[Len(h)].end
  /\ row.ok = Cardinality({i \in DOMAIN h : Succeeded(h[i])})
  /\ row.failed = Failures(h)
  /\ row.recovered = Cardinality({i \in 2..Len(h) : Succeeded(h[i]) /\ ~Succeeded(h[i - 1])})
  /\ IF last < Len(h)
     THEN row.reason = h[last + 1].error /\ row.firstFailed = h[last + 1].start
     ELSE row.reason = NoError /\ row.firstFailed = NoTime
  /\ row.firstOk <= row.lastOk

\* What holds of a row whichever transactions overlap: it begins, was last up
\* and was last visited when its visits say, and counts none of them twice.
NeverOvercounts(row, h) ==
  LET last == LastOk(h) IN
  /\ Succeeded(h[1])
  /\ row.firstOk = h[1].start /\ row.lastOk = h[last].end /\ row.visited = h[Len(h)].end
  /\ row.ok <= Cardinality({i \in DOMAIN h : Succeeded(h[i])})
  /\ row.recovered <= Cardinality({i \in 2..Len(h) : Succeeded(h[i]) /\ ~Succeeded(h[i - 1])})
  /\ row.firstOk <= row.lastOk

\* A session row, open or closed, counts no visit twice, and is the sum of the
\* visits stored for it in the order of their commits if each was stored from
\* the row its predecessor had left.
SessionsSumUp ==
  /\ TypeOK
  /\ \A p \in Peer : open[p] # NoSession =>
       /\ NeverOvercounts(open[p], hist[p])
       /\ ~stale[p] =>
            /\ Summarises(open[p], hist[p])
            /\ open[p].state = IF Failures(hist[p]) = 0 THEN "open" ELSE "pending"
  /\ \A c \in closed :
       /\ NeverOvercounts(c.row, c.hist) /\ c.row.state = "closed" /\ Failures(c.hist) > 0
       /\ ~c.stale => Summarises(c.row, c.hist)

\* The k-th failure in a row is tolerated by the uptime so far, unless its error
\* is permanent.
Forgiven(row, h, k) == k <= CalcMaxFailedVisits(row.firstOk, row.lastOk, h[LastOk(h) + k].error)

\* While a session is open its next visit is set, and near.  It ends with the
\* first failure its uptime does not forgive, and with no other, unless a visit
\* was stored from a row that had changed.
SessionsEndForAReason ==
  /\ \A c \in closed : ~c.stale => \A k \in 1..Failures(c.hist) :
       Forgiven(c.row, c.hist, k) <=> k < Failures(c.hist)
  /\ \A p \in Peer : open[p] # NoSession =>
       /\ ~stale[p] => \A k \in 1..Failures(hist[p]) : Forgiven(open[p], hist[p], k)
       /\ open[p].due > open[p].visited
       /\ open[p].due <= open[p].visited + Max({MaxInterval, 3 * MinInterval})

StoredVisits == (UNION {{hist[p][i] : i \in DOMAIN hist[p]} : p \in Peer})
                  \union (UNION {{c.hist[i] : i \in DOMAIN c.hist} : c \in closed})

\* A stored visit says of the peer what the dialer found: it was reached or not,
\* and a dial that the end of the monitor cut short is not stored at all.
VerdictsAreReal ==
  \A v \in StoredVisits : v.error # Canceled /\ (Succeeded(v) <=> v.reached)

\* A peer whose visit is due is visited, or the monitor stops (or the model has
\* reached its bound).
DueIsProbed ==
  \A p \in Peer : (Due(p) /\ WithinBound) ~> (~Due(p) \/ ctxDone \/ ~WithinBound)
=============================================================================
