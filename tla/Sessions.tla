----------------------------- MODULE Sessions -----------------------------
(***************************************************************************)
(* Uptime sessions in Postgres: insert_visit and upsert_session.           *)
(*                                                                         *)
(* insert_visit is one transaction in READ COMMITTED: each statement in it *)
(* sees what was committed when the statement began, and a row another     *)
(* transaction has changed makes it wait until that one ends.  Three       *)
(* statements matter here:                                                 *)
(*   - the peer's address rows are deleted and inserted again, which locks *)
(*     the rows it deletes and those it really inserts until the end of    *)
(*     the transaction                        (BeginVisit,                 *)
(*     ReplaceAddresses);                                                  *)
(*   - upsert_session reads the peer's session             (ReadSession);  *)
(*   - and writes it from what it READ, after any wait for the row.        *)
(*     Nobody else can observe anything between that write and the commit, *)
(*     so the two are one step                              (StoreVisit).  *)
(* Nothing locks the session between its read and its write: that two      *)
(* transactions of a peer overlap there is ruled out only where their      *)
(* address rows make one wait for the other.                               *)
(*                                                                         *)
(* The agent version, protocols and properties of a peer are left out: a   *)
(* transaction that changes them locks the peer's row too, so the model    *)
(* has every interleaving the database has, and some more.                 *)
(***************************************************************************)
EXTENDS Integers, FiniteSets, Sequences

CONSTANTS
  Peer,
  Writer,       \* database connections, at most one insert_visit each
  Addr,
  Errors,       \* net_error values, permanent and others
  Permanent,    \* the errors that end a session at once
  Grace,        \* the uptimes after which one, two, three failures are tolerated
  MinInterval, MaxInterval   \* of calc_next_visit

NoError == "none"
NoTime == -1

ASSUME SessionConstants ==
  /\ Permanent \subseteq Errors /\ NoError \notin Errors
  /\ Grace \in [1..3 -> Nat]
  /\ MinInterval \in Nat \ {0} /\ MaxInterval \in Nat \ {0}

VARIABLES
  now,       \* the clock
  known,     \* peers with a row in peers
  addrRows,  \* peers_x_multi_addresses: rows [addr, by], by the inserting visit
  open,      \* sessions_open: none or one row per peer (uq_sessions_open_peer_id)
  closed,    \* sessions_closed
  tx,        \* the transaction of each connection
  visits,    \* number of insert_visit calls so far: names the address rows
  sessions,  \* sessions_id_seq
  hist,      \* history: the committed visits of the open session, in order
  stale      \* history: one of them was stored from a row that had changed since it was read

sessVars == <<now, known, addrRows, open, closed, tx, visits, sessions, hist, stale>>

Visit == [peer : Peer, start : Nat, end : Nat, error : Errors \union {NoError},
          addrs : SUBSET Addr]

NoSession == [id |-> 0]
Idle == [pc |-> "idle"]

Succeeded(v) == v.error = NoError

(***************************************************************************)
(* The helper functions of upsert_session.                                 *)
(***************************************************************************)

\* min_interval and max_interval around 1.2 times the time since the last visit.
CalcNextVisit(end, last) ==
  LET wait == (6 * (end - last)) \div 5
      atLeast == IF wait < MinInterval THEN MinInterval ELSE wait
  IN  end + (IF atLeast > MaxInterval THEN MaxInterval ELSE atLeast)

\* Without a last visit GREATEST ignores the NULL.
FirstNextVisit(end) == end + (IF MinInterval > MaxInterval THEN MaxInterval ELSE MinInterval)

CalcMaxFailedVisits(first, last, error) ==
  IF error \in Permanent THEN 0
  ELSE Cardinality({i \in 1..3 : \A j \in 1..i : last - first >= Grace[j]})

(***************************************************************************)
(* What upsert_session makes of a visit: es is the session it read, row    *)
(* the session as it is when the lock is granted.  Columns that are not    *)
(* set keep the value they have in row.                                    *)
(***************************************************************************)

NewSession(id, v) ==
  [id |-> id, state |-> "open", firstOk |-> v.start, lastOk |-> v.end,
   visited |-> v.end, due |-> FirstNextVisit(v.end), ok |-> 1, failed |-> 0,
   firstFailed |-> NoTime, recovered |-> 0, reason |-> NoError]

UpdateNoError(es, row, v) ==
  [row EXCEPT !.state = "open", !.lastOk = v.end, !.visited = v.end,
     !.ok = es.ok + 1, !.failed = 0, !.firstFailed = NoTime, !.reason = NoError,
     !.recovered = es.recovered + (IF es.state = "pending" THEN 1 ELSE 0),
     !.due = CalcNextVisit(v.end, es.lastOk)]

UpdateOpenError(es, row, v) ==
  [row EXCEPT !.state = "pending", !.firstFailed = v.start, !.visited = v.end,
     !.failed = es.failed + 1, !.reason = v.error,
     !.due = v.end + CalcMaxFailedVisits(es.firstOk, es.lastOk, v.error) * MinInterval]

UpdatePendingError(es, row, v) ==
  [row EXCEPT !.visited = v.end, !.failed = es.failed + 1,
     !.due = CalcNextVisit(v.end, es.lastOk)]

CloseSession_LastReasonBug(es, row, v) ==
  [row EXCEPT !.state = "closed", !.visited = v.end, !.failed = es.failed + 1,
     !.firstFailed = IF es.firstFailed = NoTime THEN v.start ELSE es.firstFailed,
     !.reason = v.error, !.due = NoTime]
CloseSession(es, row, v) ==
  [row EXCEPT !.state = "closed", !.visited = v.end, !.failed = es.failed + 1,
     !.firstFailed = IF es.firstFailed = NoTime THEN v.start ELSE es.firstFailed,
     !.reason = IF es.reason = NoError THEN v.error ELSE es.reason,
     !.due = NoTime]

\* update_open_session_error or update_pending_session_error applies
Tolerated_OffByOneBug(es, v) ==
  LET max == CalcMaxFailedVisits(es.firstOk, es.lastOk, v.error)
  IN  IF es.state = "open" THEN max > 0 ELSE es.failed <= max
Tolerated(es, v) ==
  LET max == CalcMaxFailedVisits(es.firstOk, es.lastOk, v.error)
  IN  IF es.state = "open" THEN max > 0 ELSE es.failed < max

WriteSession(es, row, v) ==
  IF es = NoSession THEN NewSession(sessions + 1, v)
  ELSE IF Succeeded(v) THEN UpdateNoError(es, row, v)
  ELSE IF ~Tolerated(es, v) THEN CloseSession(es, row, v)
  ELSE IF es.state = "open" THEN UpdateOpenError(es, row, v)
  ELSE UpdatePendingError(es, row, v)

\* A failed visit of a peer without session leaves no trace in the sessions.
TouchesSession(es, v) == es # NoSession \/ Succeeded(v)

\* The unique index, a row that has left the partition, and a range whose end
\* is before its start: the statement fails, and with it the transaction.
WriteFails(es, row, v) ==
  \/ es = NoSession /\ Succeeded(v) /\ row # NoSession
  \/ es # NoSession /\ row.id # es.id
  \/ es # NoSession /\ Succeeded(v) /\ v.end < es.firstOk

(***************************************************************************)
(* insert_visit.                                                           *)
(***************************************************************************)

SessInit ==
  /\ now = 0
  /\ known \in SUBSET Peer
  /\ addrRows = [p \in Peer |-> {}]
  /\ open = [p \in Peer |-> NoSession]
  /\ closed = {}
  /\ tx = [w \in Writer |-> Idle]
  /\ visits = 0
  /\ sessions = 0
  /\ hist = [p \in Peer |-> <<>>]
  /\ stale = [p \in Peer |-> FALSE]

Visiting(p) == {w \in Writer : tx[w] # Idle /\ tx[w].visit.peer = p}
Holders(p) == {w \in Visiting(p) : tx[w].pc \in {"read", "write"}}

\* upsert_peer, and the snapshot of the DELETE.  The first visit of a peer
\* inserts its row: a second one waits for the first at the unique index.
BeginVisit(w, v) ==
  /\ tx[w] = Idle
  /\ v.peer \in known \/ Visiting(v.peer) = {}
  /\ visits' = visits + 1
  /\ tx' = [tx EXCEPT ![w] = [pc |-> "addresses", visit |-> v, by |-> visits + 1,
                              del |-> addrRows[v.peer], ins |-> {}, es |-> NoSession]]
  /\ UNCHANGED <<now, known, addrRows, open, closed, sessions, hist, stale>>

\* The DELETE waits for whoever has deleted one of the rows it found.  The
\* INSERT waits for whoever has deleted or inserted a row of one of its
\* addresses; one it finds committed it skips (ON CONFLICT DO NOTHING), and
\* holds no lock on it.
Deleted(w) == tx[w].del \intersect addrRows[tx[w].visit.peer]
Kept(w) == addrRows[tx[w].visit.peer] \ tx[w].del
MustWait(w, u) ==
  \/ Deleted(w) \intersect Deleted(u) # {}
  \/ tx[w].visit.addrs \intersect (tx[u].ins \union {r.addr : r \in Deleted(u)}) # {}
ReplaceAddresses(w) ==
  /\ tx[w].pc = "addresses"
  /\ \A u \in Holders(tx[w].visit.peer) : ~MustWait(w, u)
  /\ tx' = [tx EXCEPT ![w].pc = "read",
                      ![w].ins = tx[w].visit.addrs \ {r.addr : r \in Kept(w)}]
  /\ UNCHANGED <<now, known, addrRows, open, closed, visits, sessions, hist, stale>>

\* The snapshot of upsert_session.
ReadSession(w) ==
  /\ tx[w].pc = "read"
  /\ tx' = [tx EXCEPT ![w].pc = "write", ![w].es = open[tx[w].visit.peer]]
  /\ UNCHANGED <<now, known, addrRows, open, closed, visits, sessions, hist, stale>>

\* The data-modifying part of upsert_session, the row in visits, the commit.
StoreVisit(w) ==
  LET t == tx[w]
      v == t.visit
      p == v.peer
      row == WriteSession(t.es, open[p], v)
  IN
  /\ t.pc = "write"
  /\ ~WriteFails(t.es, open[p], v)
  /\ known' = known \union {p}
  /\ addrRows' = [addrRows EXCEPT ![p] = Kept(w) \union {[addr |-> a, by |-> t.by] : a \in t.ins}]
  /\ tx' = [tx EXCEPT ![w] = Idle]
  /\ IF ~TouchesSession(t.es, v)
     THEN UNCHANGED <<open, closed, sessions, hist, stale>>
     ELSE /\ open' = [open EXCEPT ![p] = IF row.state = "closed" THEN NoSession ELSE row]
          /\ closed' = IF row.state = "closed"
                       THEN closed \union {[peer |-> p, row |-> row, hist |-> Append(hist[p], v),
                                         stale |-> stale[p] \/ t.es # open[p]]}
                       ELSE closed
          /\ sessions' = IF t.es = NoSession THEN sessions + 1 ELSE sessions
          /\ hist' = [hist EXCEPT ![p] = IF row.state = "closed" THEN <<>> ELSE Append(@, v)]
          /\ stale' = [stale EXCEPT ![p] = row.state # "closed" /\ (@ \/ t.es # open[p])]
  /\ UNCHANGED <<now, visits>>

\* The statement fails; InsertVisit returns the error and the visit is lost.
FailVisit(w) ==
  /\ tx[w].pc = "write"
  /\ WriteFails(tx[w].es, open[tx[w].visit.peer], tx[w].visit)
  /\ tx' = [tx EXCEPT ![w] = Idle]
  /\ UNCHANGED <<now, known, addrRows, open, closed, visits, sessions, hist, stale>>

\* The connection is lost, the context of the caller is done, or the database
\* breaks a deadlock.
AbortVisit(w) ==
  /\ tx[w].pc # "idle"
  /\ tx' = [tx EXCEPT ![w] = Idle]
  /\ UNCHANGED <<now, known, addrRows, open, closed, visits, sessions, hist, stale>>
=============================================================================
