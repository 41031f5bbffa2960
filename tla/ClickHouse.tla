----------------------------- MODULE ClickHouse -----------------------------
(***************************************************************************)
(* db.ClickHouseClient: InsertVisit hands a visit over an unbuffered       *)
(* channel to the flusher goroutine, which appends its rows to three       *)
(* batches and sends a batch when it is full, when a ticker fires, when    *)
(* Flush asks for it and when Close closes the channel.                    *)
(*                                                                         *)
(* A row of a batch is <<v, i>>: the visit v itself for i = 0, its i-th    *)
(* neighbour otherwise.                                                    *)
(***************************************************************************)
EXTENDS Naturals, FiniteSets

CONSTANTS
  Visits,           \* the calls of InsertVisit
  NeighborCount,    \* NeighborCount[v]: neighbours of the visit v
  BatchSize,        \* ClickHouseClientConfig.BatchSize
  PersistNeighbors, \* ClickHouseClientConfig.PersistNeighbors
  PrepareMayFail,   \* whether conn.PrepareBatch may return an error
  Fragile,          \* the batches whose AppendStruct may return an error
  Rejectable,       \* the batches whose Send may return an error
  Seals             \* the states SealCrawl is called with

Batches == {"visits", "neighbors", "prefixes"}
Row == UNION {{v} \X (0..NeighborCount[v]) : v \in Visits}

ASSUME ClickHouseAssumption ==
  /\ IsFiniteSet(Visits)
  /\ NeighborCount \in [Visits -> Nat]
  /\ BatchSize \in Nat \ {0}
  /\ PersistNeighbors \in BOOLEAN
  /\ PrepareMayFail \in BOOLEAN
  /\ Fragile \subseteq Batches
  /\ Rejectable \subseteq Batches
  /\ Seals \subseteq {"succeeded", "cancelled", "failed"}

VARIABLES
  crawl,      \* c.crawl: no crawl, or the state it records
  original,   \* SealCrawl's copy of it, "none" outside that call
  crawlCall,  \* the call that holds crawlMu: none, InitCrawl, SealCrawl
  answer,     \* what ClickHouse has told that call
  crawlRow,   \* the state of the row with the ID InitCrawl has made last
  acked,      \* history: the state ClickHouse has last confirmed
  call,       \* InsertVisit(v): not called, blocked on visitsChan, returned
  inCrawl,    \* the visits handed over, or about to be, with a crawl ID
  fpc,        \* the flusher: at the head of its loop, in a select, gone
  batch,      \* its batches: prepared, sent, or nil after a failed preparation
  rows,       \* the rows appended to each batch since it was prepared
  stored,     \* history: how often ClickHouse has got each row
  logged,     \* history: the rows an error was logged for: not appended, in a
              \* batch whose Send returned an error, or discarded
  flush,      \* Flush: not called, blocked, returned with or without an error
  owed,       \* history: visits that had been taken over when Flush was called,
              \* unless its caller gave up
  closing,    \* Close: not called, waiting for the flusher, returned
  forced,     \* the flusher's context was cancelled by Close
  crashed     \* the flusher has dereferenced a nil batch

crawlVars == <<crawl, original, crawlCall, answer, crawlRow, acked>>
callVars  == <<call, inCrawl>>
batchVars == <<batch, rows, stored, logged>>
flushVars == <<flush, owed>>
closeVars == <<closing, forced>>
chVars == <<crawlVars, callVars, fpc, batchVars, flushVars, closeVars, crashed>>

CrawlState == {"none", "started"} \cup Seals

ChTypeOK ==
  /\ crawl \in CrawlState /\ original \in CrawlState
  /\ crawlRow \in CrawlState /\ acked \in CrawlState
  /\ crawlCall \in {"none", "init", "seal"} /\ answer \in {"none", "ok", "error"}
  /\ call \in [Visits -> {"none", "blocked", "taken", "cancelled"}]
  /\ inCrawl \subseteq Visits
  /\ fpc \in {"start", "loop", "select", "discard", "exited"}
  /\ batch \in [Batches -> {"ready", "sent", "nil"}]
  /\ rows \in [Batches -> SUBSET Row]
  /\ stored \in [Batches -> [Row -> Nat]]
  /\ logged \in [Batches -> SUBSET Row]
  /\ flush \in {"none", "blocked", "done", "cancelled"}
  /\ owed \subseteq Visits
  /\ closing \in {"no", "waiting", "closed"}
  /\ forced \in BOOLEAN
  /\ crashed \in BOOLEAN

\* The rows a visit that was taken over adds to a batch.
RowsOf(v, b) ==
  IF b = "visits" THEN {<<v, 0>>}
  ELSE IF PersistNeighbors /\ v \in inCrawl THEN {<<v, i>> : i \in 1..NeighborCount[v]}
  ELSE {}

ChInit ==
  /\ crawl = "none" /\ original = "none" /\ crawlRow = "none" /\ acked = "none"
  /\ crawlCall = "none" /\ answer = "none"
  /\ call = [v \in Visits |-> "none"] /\ inCrawl = {}
  /\ fpc = "start"
  /\ batch = [b \in Batches |-> "sent"] /\ rows = [b \in Batches |-> {}]
  /\ stored = [b \in Batches |-> [r \in Row |-> 0]] /\ logged = [b \in Batches |-> {}]
  /\ flush = "none" /\ owed = {}
  /\ closing = "no" /\ forced = FALSE
  /\ crashed = FALSE

-----------------------------------------------------------------------------
\* The crawl: the client keeps the row it has written last, and crawlMu lets one
\* call at a time change it.

\* InitCrawl gives up if there is a crawl already, or if it cannot read the last
\* one; else it makes up a row, with a new ID.
InitCrawl ==
  /\ closing = "no" /\ crawlCall = "none" /\ crawl = "none"
  /\ crawlCall' = "init"
  /\ crawlRow' = "none"
  /\ UNCHANGED <<crawl, original, answer, acked>>
  /\ UNCHANGED <<callVars, fpc, batchVars, flushVars, closeVars, crashed>>

\* SealCrawl copies the crawl it keeps, then changes it in place.
SealCrawl(s) ==
  /\ closing = "no" /\ crawlCall = "none" /\ crawl # "none"
  /\ crawlCall' = "seal"
  /\ original' = crawl
  /\ crawl' = s
  /\ UNCHANGED <<answer, crawlRow, acked>>
  /\ UNCHANGED <<callVars, fpc, batchVars, flushVars, closeVars, crashed>>

\* Both then prepare a batch with that row, append it and send it: each may fail,
\* and a Send that returns an error may have had its effect.
WriteCrawl ==
  /\ crawlCall # "none" /\ answer = "none"
  /\ LET written == IF crawlCall = "init" THEN "started" ELSE crawl
     IN  \/ answer' = "ok" /\ crawlRow' = written /\ acked' = written
         \/ answer' = "error" /\ crawlRow' \in {written, crawlRow} /\ acked' = acked
  /\ UNCHANGED <<crawl, original, crawlCall>>
  /\ UNCHANGED <<callVars, fpc, batchVars, flushVars, closeVars, crashed>>

\* InitCrawl keeps the crawl only if it was written; SealCrawl takes its change
\* back if it was not.
CrawlReturns_NoRollbackBug ==
  /\ answer # "none"
  /\ crawl' = IF crawlCall = "init" THEN (IF answer = "ok" THEN "started" ELSE "none") ELSE crawl
  /\ crawlCall' = "none" /\ answer' = "none" /\ original' = "none"
  /\ UNCHANGED <<crawlRow, acked>>
  /\ UNCHANGED <<callVars, fpc, batchVars, flushVars, closeVars, crashed>>
CrawlReturns ==
  /\ answer # "none"
  /\ crawl' = CASE answer = "error" -> original
               [] answer = "ok" /\ crawlCall = "init" -> "started"
               [] OTHER -> crawl
  /\ crawlCall' = "none" /\ answer' = "none" /\ original' = "none"
  /\ UNCHANGED <<crawlRow, acked>>
  /\ UNCHANGED <<callVars, fpc, batchVars, flushVars, closeVars, crashed>>

-----------------------------------------------------------------------------
\* The flusher.

\* Send a set of batches, in parallel, and wait for all.  A send may return an
\* error, and does when the context is cancelled; ClickHouse may have got the
\* batch all the same.  The batch is gone in any case.  Errors are logged, those
\* of the rows missed, which could not be appended before, as well.
Send(full, missed, batches) ==
  \E failed \in SUBSET batches : \E got \in SUBSET batches :
    /\ batches \ failed \subseteq got
    /\ IF forced THEN failed = batches ELSE failed \subseteq Rejectable
    /\ batch' = [b \in Batches |-> IF b \in batches THEN "sent" ELSE batch[b]]
    /\ stored' = [b \in Batches |-> [r \in Row |->
         IF b \in got /\ r \in full[b] THEN stored[b][r] + 1 ELSE stored[b][r]]]
    /\ logged' = [b \in Batches |->
         logged[b] \cup {r \in Row : <<b, r>> \in missed} \cup IF b \in failed THEN full[b] ELSE {}]

SendAll == Send(rows, {}, Batches)

\* Prepare the batches that were sent (or, at the start, all): each may fail.
\* At the head of the loop a batch that is nil already is asked whether it was
\* sent, which is a nil dereference.
Prepare_ReuseBug ==
  /\ fpc \in {"start", "loop"}
  /\ batch' = [b \in Batches |-> "ready"]
  /\ fpc' = IF fpc = "start" THEN "loop" ELSE "select"
  /\ UNCHANGED <<crawlVars, callVars, rows, stored, logged, flushVars, closeVars, crashed>>
Prepare ==
  /\ fpc \in {"start", "loop"}
  /\ \A b \in Batches : batch[b] # "nil"
  /\ \E failed \in SUBSET {b \in Batches : batch[b] = "sent"} :
       /\ (failed # {}) => PrepareMayFail \/ forced
       /\ batch' = [b \in Batches |-> IF b \in failed THEN "nil" ELSE "ready"]
       /\ rows' = [b \in Batches |-> IF batch[b] = "sent" THEN {} ELSE rows[b]]
       /\ fpc' = CASE fpc = "start" -> "loop"
                   [] fpc = "loop" /\ failed = {} -> "select"
                   [] OTHER -> "discard"
  /\ UNCHANGED <<crawlVars, callVars, stored, logged, flushVars, closeVars, crashed>>

NilBatch ==
  /\ fpc = "loop" /\ \E b \in Batches : batch[b] = "nil"
  /\ crashed' = TRUE
  /\ UNCHANGED <<crawlVars, callVars, fpc, batchVars, flushVars, closeVars>>

\* The ticker: send everything.
Tick ==
  /\ fpc = "select"
  /\ SendAll
  /\ fpc' = "loop"
  /\ UNCHANGED <<crawlVars, callVars, rows, flushVars, closeVars, crashed>>

\* Flush: send everything, then let Flush return.
HandleFlush_ForgottenBug ==
  /\ fpc = "select" /\ flush = "blocked"
  /\ SendAll
  /\ fpc' = "loop"
  /\ UNCHANGED <<crawlVars, callVars, rows, flushVars, closeVars, crashed>>
HandleFlush_VisitsOnlyBug ==
  /\ fpc = "select" /\ flush = "blocked"
  /\ Send(rows, {}, {"visits"})
  /\ flush' = "done"
  /\ fpc' = "loop"
  /\ UNCHANGED <<crawlVars, callVars, rows, owed, closeVars, crashed>>
HandleFlush ==
  /\ fpc = "select" /\ flush = "blocked"
  /\ SendAll
  /\ flush' = "done"
  /\ fpc' = "loop"
  /\ UNCHANGED <<crawlVars, callVars, rows, owed, closeVars, crashed>>

\* A batch that has reached its size.
Full_OffByOneBug(grown, b) == Cardinality(grown[b]) > BatchSize
Full(grown, b) == Cardinality(grown[b]) >= BatchSize

\* A visit: append its rows and send the batches that are full by then, those of
\* the neighbours only if the visit belongs to a crawl.  A row that cannot be
\* appended is in no batch, and the flusher goes on.
TakeVisit(v) ==
  /\ fpc = "select" /\ call[v] = "blocked"
  /\ call' = [call EXCEPT ![v] = "taken"]
  /\ \E missed \in SUBSET UNION {{b} \X RowsOf(v, b) : b \in Fragile} :
       /\ rows' = [b \in Batches |-> rows[b] \cup {r \in RowsOf(v, b) : <<b, r>> \notin missed}]
       /\ Send(rows', missed, {b \in Batches : Full(rows', b) /\ (b = "visits" \/ v \in inCrawl)})
  /\ fpc' = "loop"
  /\ UNCHANGED <<crawlVars, inCrawl, flushVars, closeVars, crashed>>

\* visitsChan is closed: send what is left and return.
LastSend ==
  /\ fpc = "select" /\ closing = "waiting"
  /\ SendAll
  /\ fpc' = "exited"
  /\ UNCHANGED <<crawlVars, callVars, rows, flushVars, closeVars, crashed>>

FlusherCancelled ==
  /\ fpc \in {"select", "discard"} /\ forced
  /\ fpc' = "exited"
  /\ UNCHANGED <<crawlVars, callVars, batchVars, flushVars, closeVars, crashed>>

\* A preparation has failed: "case _, done := <-c.visitsChan: if done return".
\* The flag says that a visit was received, so the flusher leaves with the first
\* one, and goes round when the channel is closed.
DiscardVisit(v) ==
  /\ fpc = "discard" /\ call[v] = "blocked"
  /\ call' = [call EXCEPT ![v] = "taken"]
  /\ logged' = [b \in Batches |-> logged[b] \cup RowsOf(v, b)]
  /\ fpc' = "exited"
  /\ UNCHANGED <<crawlVars, inCrawl, batch, rows, stored, flushVars, closeVars, crashed>>

DiscardClosed ==
  /\ fpc = "discard" /\ closing = "waiting"
  /\ fpc' = "loop"
  /\ UNCHANGED <<crawlVars, callVars, batchVars, flushVars, closeVars, crashed>>

-----------------------------------------------------------------------------
\* The callers.

InsertVisit(v) ==
  /\ closing = "no" /\ call[v] = "none"
  /\ call' = [call EXCEPT ![v] = "blocked"]
  /\ inCrawl' = IF crawl = "none" THEN inCrawl ELSE inCrawl \cup {v}
  /\ UNCHANGED <<crawlVars, fpc, batchVars, flushVars, closeVars, crashed>>

\* The caller's context is done.
InsertCancelled(v) ==
  /\ call[v] = "blocked"
  /\ call' = [call EXCEPT ![v] = "cancelled"]
  /\ inCrawl' = inCrawl \ {v}
  /\ UNCHANGED <<crawlVars, fpc, batchVars, flushVars, closeVars, crashed>>

Taken == {v \in Visits : call[v] = "taken"}

Flush ==
  /\ closing = "no" /\ flush = "none"
  /\ flush' = "blocked"
  /\ owed' = Taken
  /\ UNCHANGED <<crawlVars, callVars, fpc, batchVars, closeVars, crashed>>

FlushCancelled ==
  /\ flush = "blocked"
  /\ flush' = "cancelled"
  /\ owed' = {}
  /\ UNCHANGED <<crawlVars, callVars, fpc, batchVars, closeVars, crashed>>

\* "Make sure that you don't call any other method anymore before calling close."
Close ==
  /\ closing = "no" /\ crawlCall = "none" /\ flush # "blocked"
  /\ \A v \in Visits : call[v] # "blocked"
  /\ closing' = "waiting"
  /\ UNCHANGED <<crawlVars, callVars, fpc, batchVars, flushVars, forced, crashed>>

\* The flusher has not exited within five seconds.
CloseTimesOut ==
  /\ closing = "waiting" /\ ~forced
  /\ forced' = TRUE
  /\ UNCHANGED <<crawlVars, callVars, fpc, batchVars, flushVars, closing, crashed>>

CloseReturns ==
  /\ closing = "waiting" /\ fpc = "exited"
  /\ closing' = "closed"
  /\ UNCHANGED <<crawlVars, callVars, fpc, batchVars, flushVars, forced, crashed>>

-----------------------------------------------------------------------------
FlusherStep ==
  \/ Prepare \/ NilBatch
  \/ Tick \/ HandleFlush \/ LastSend \/ FlusherCancelled \/ DiscardClosed
  \/ \E v \in Visits : TakeVisit(v) \/ DiscardVisit(v)

CallerStep ==
  \/ InitCrawl \/ (\E s \in Seals : SealCrawl(s)) \/ WriteCrawl \/ CrawlReturns
  \/ \E v \in Visits : InsertVisit(v) \/ InsertCancelled(v)
  \/ Flush \/ FlushCancelled
  \/ Close \/ CloseTimesOut \/ CloseReturns

ChNext == ~crashed /\ (FlusherStep \/ CallerStep)

ChSpec == ChInit /\ [][ChNext]_chVars

\* The flusher runs, its select passes over no ready case for ever, and Close
\* notices that the flusher has exited.  No caller need cancel, nothing need
\* time out.
ChFairness ==
  /\ WF_chVars(~crashed /\ FlusherStep)
  /\ \A v \in Visits : SF_chVars(~crashed /\ TakeVisit(v))
  /\ SF_chVars(~crashed /\ HandleFlush)
  /\ SF_chVars(~crashed /\ LastSend)
  /\ WF_chVars(~crashed /\ CloseReturns)

ChFairSpec == ChSpec /\ ChFairness

-----------------------------------------------------------------------------
Pending(b) == IF batch[b] = "ready" THEN rows[b] ELSE {}

\* Every row of a visit that InsertVisit has handed over waits in a batch, is in
\* ClickHouse, or an error was logged for it; no row is there twice, none that
\* ClickHouse may have is still to be sent, and no other row is anywhere: whatever
\* appends, sends and preparations fail, or only seem to, and when the client is
\* closed.
RowsConserved ==
  \A b \in Batches, r \in Row :
    /\ (\E v \in Taken : r \in RowsOf(v, b)) <=>
         (r \in Pending(b) \/ stored[b][r] > 0 \/ r \in logged[b])
    /\ stored[b][r] <= 1
    /\ r \in Pending(b) => stored[b][r] = 0 /\ r \notin logged[b]

\* "Flush tells the client to insert everything that's pending": what was handed
\* over before Flush was called is no longer pending when it returns, neighbours
\* and prefixes included; and nothing is when Close returns in time ("the
\* flusher will transmit all pending visits") and every batch could be prepared.
NothingLeftPending ==
  /\ flush = "done" => \A v \in owed, b \in Batches : RowsOf(v, b) \cap Pending(b) = {}
  /\ (closing = "closed" /\ ~forced /\ \A b \in Batches : batch[b] # "nil") =>
       \A b \in Batches : Pending(b) = {}

\* No batch is left with as many rows as it may have: neighbours come in any
\* number at a time and are still sent with the visit that fills their batch.
BatchesBounded == ChTypeOK /\ \A b \in Batches : Cardinality(Pending(b)) < BatchSize

\* Between calls the client remembers the crawl ClickHouse has confirmed last: a
\* failed SealCrawl, also the second one, leaves neither a change that is not in
\* the table nor one that nobody confirmed, so that it can be called again.  And
\* no visit is inserted into a crawl the table does not have.
CrawlRemembered ==
  /\ crawlCall = "none" => crawl = acked
  /\ crawlCall = "none" /\ crawl \in Seals => crawlRow \in Seals
  /\ inCrawl # {} => crawlRow # "none"

\* A writer, a Flush and a Close that nobody cancels come back: the flusher
\* stays there for them.  (A Close that gives up waiting can make it panic: its
\* context is done, so that no new batch can be prepared.)
CallsReturn ==
  /\ \A v \in Visits : call[v] = "blocked" ~> call[v] # "blocked"
  /\ flush = "blocked" ~> flush # "blocked"
  /\ closing = "waiting" ~> (closing = "closed" \/ crashed)

\* "we just log an error here and consume and discard all events until done"
\* (startFlusher): a failed preparation costs visits and blocks nobody.  It
\* does: see the README.
InsertReturns == \A v \in Visits : call[v] = "blocked" ~> call[v] # "blocked"
=============================================================================
