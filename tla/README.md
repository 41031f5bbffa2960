# Nebula in TLA+

Nebula crawls and monitors peer-to-peer networks. This directory holds TLA+ models of the parts of it whose
correctness depends on an order of events, TLC configurations that check them on small instances, and TLAPS
proofs of what is proved for every instance. All paths below are relative to the repository.

    tlc -workers 2 -config MCEngineCrawl.cfg MCEngine      # or another run of the table below
    tlapm EngineProofs.tla                                 # and the other *Proofs

## 1. The system

```
 Driver ──tasksChan──▶ Engine ──peerTasks──▶ Workers (Crawler / Dialer) ──▶ peers
   ▲  ▲                │  ▲  ◀──peerResults──┘ │
   │  └── Close ───────┘  │                    └─ "busy"/"idle", PRUNE peers ─▶ CrawlDriver
   │               writeTasks / writeResults
   │                      ▼
   └─ due sessions ── Writers ──InsertVisit──▶ db.Client (ClickHouse, Postgres, JSON, no-op)
```

`nebula crawl` runs InitCrawl, Engine.Run, SealCrawl, InsertCrawlProperties, Flush and Close in this order; `nebula monitor` runs the
same engine with `DuplicateProcessing` and a driver that polls the database for sessions that are due;
`nebula resolve` is a loop of its own over the database.

| component | code | state | operations | what is hard | what makes it correct |
|---|---|---|---|---|---|
| Engine | `core/engine.go` | two priority queues, inflight and processed, six channel variables (nil or not), the handler's counters | one iteration of `Run` with nine select cases; `enqueueTask`, `handlePeerResult`, the shutdown with two drains | when to close which channel; duplicates that arrive at any moment; cancellation anywhere | each peer once; nothing closed too early; every result stored once; ends |
| Pools | `core/worker.go`, `writer_*.go` | one goroutine per worker and writer | range over tasks, work, publish; last one closes results | closing after the last | no goroutine left |
| Result handlers | `core/handler_*.go` | counters, histograms | HandlePeerResult, HandleWriteResult, Summary | – | counters agree with what was done |
| Priority queue | `core/queue.go` | a heap and a table of items with their index | Push, Pop, Peek, Drop, Update, UpdatePriority | the index has to follow every swap | a map with priorities |
| Dial driver | `libp2p/driver_dialer.go` | shutdown and done channels, task channel | `monitorDatabase`, Tasks, Close | Close closes a channel another goroutine sends on | no send on a closed channel; ends |
| Crawl driver | `libp2p/driver_crawler.go` | task channel, workerStateChan, pxPeersChan, busy count, timer | bootstrap, `monitorGossipSubPX`, stream handlers, `shutdown` | four goroutine kinds wait for each other over bounded channels | nobody waits in a cycle; the end is not called early |
| Crawler, Dialer | `libp2p/crawler*.go`, `dialer.go` | per visit: connections, results of two goroutines | crawlP2P, crawlAPI, merge, retries | shared `err`, cancellation between result and merge | the result is that of the visit |
| ClickHouse | `db/ch.go` | the crawl it remembers, three batches, the flusher goroutine | InitCrawl, SealCrawl, InsertVisit, Flush, Close | batch limits, failed sends, shutdown; errors of calls that took effect | no row lost without an error, or doubled |
| Postgres | `db/pg.go` | caches of IDs (names, and sets keyed by the IDs of their members), peer mappings, routing tables | the same, plus SelectPeersToProbe | IDs from caches, from others' upserts and from calls that were given up; a transaction of many statements | references hold; properties are whole or absent; no routing table is lost |
| Sessions | SQL functions `insert_visit`, `upsert_session` | address rows, open and closed sessions | one transaction per visit, from several connections and processes | reads and writes of two transactions in any order that row locks allow | no session counts too much; it is the sum of its visits where none was stored from an outdated row |
| JSON, no-op | `db/json.go`, `noop.go` | open files, encoders with a sticky error | the same | a file fails in the middle | a stored visit has its neighbours |
| Command, signals | `cmd.go`, `cmd_crawl.go` | two contexts | run, seal, properties, flush, close | a step fails, a signal comes in any phase | the report is whole; the command ends |
| Resolver | `cmd_resolve.go` | the batch, a transaction per row | fetch unresolved rows, resolve, save | one row fails, the process is killed | an answer is stored whole; each row gets its turn |
| Telemetry | `core/tele.go` | callback wait group and its copy | gauges evaluated in the engine's loop, Stop | callbacks after Stop | no send on a closed channel |
| Identify registry | `libp2p/host.go` | table of waiting calls | RegisterIdentify, DeregisterIdentify, consumer | – | – |

The rest (flag parsing, MaxMind, udger, the Kubo API, configuration, generated SQL models, scripts) has no state
of its own; `PROJECT.json` lists it as not modelled with the reason, and lists under `hazards` every place known
to us where a test would hardly reach.

## 2. The modules

| module | models | state and actions |
|---|---|---|
| `Engine` | `core/engine.go`, both pools, the crawl handler's counters | `pc` is where `Run` is: at the head of its loop (`turn`), in the select, in `driver.Close` (`closing`, `ending`), in either drain, or returned. `LoopTurn` is what happens between two selects (the limit at the end of an iteration, the peeks and channel closings at the head of the next). Each select case that changes state is an action: `RecvTask`, `TasksClosed`, `SendPeerTask`, `SendWriteTask`, `PeerResult`, `PeerResultsClosed`, `WriteResult`, `WriterResultsClosed`, `CtxDone`. `Work`, `WorkerExit`, `Write`, `WriterExit` are the goroutines. |
| `PeerLifecycle` | the promise of a crawl | a peer is unknown, queued, inflight, processed, stored, in that order and once |
| `Monitor` | `Engine` with `DialDriver` | `dpc` is where `monitorDatabase` is; `due` is what SelectPeersToProbe would return; a stored visit removes a peer from it, time puts it back |
| `PriorityQueue` | the promise of `core/queue.go` | a map from keys to values with a priority |
| `HeapQueue` | `core/queue.go` on `container/heap` | the slice, each item's index and the lookup table; `up` and `down` are loops as in the library (external), each a recursive function whose n-th value is the state after n turns |
| `GossipPX` | `Engine` with `CrawlDriver` under `--gossipsub-px` | `stateChan` and `toEmit` are the buffered channels; `monitorGossipSubPX`, the stream handlers, `shutdown` and `Crawler.Work`'s announcements are processes |
| `ClickHouse` | `db/ch.go` | `fpc` is where the flusher is; `batch` tells a batch that is prepared from one that was sent and from the nil one a failed preparation leaves. `TakeVisit` appends a visit's rows, any of which may be refused; `Send` may return an error for a batch ClickHouse has got or not. InsertVisit, Flush and Close are callers; InitCrawl and SealCrawl are a call (`crawlCall`, SealCrawl changing `crawl` in place and keeping `original`), the write (`answer`, `crawlRow`) and the return, which keeps or takes back the change |
| `Visit` | `libp2p/crawler*.go` | `ppc` is the goroutine of `crawlP2P` with each exit of `connect`: `start`, with a directory (`dir`, `dirUp`), with a network that is made (`created`, `netUp`), started and waiting for a connection (`wait`), then `query`, `send`, `cleanup`. `apc` and `req` are those of `crawlAPI` and its two requests, `wpc` is `Work`, which receives one result or a closed channel from each and merges them, agent and protocols apart. The requests share `err`: assignment, test and return are separate steps |
| `Sessions` | `insert_visit` and `upsert_session` in READ COMMITTED | `tx[w]` is a connection's transaction: it has deleted what address rows it could see (`del`), waits for locks, has read a session (`es`), then writes it and commits, whatever has become of the session meanwhile. `open`, `closed` and `addrRows` are the tables |
| `Dialer` | `libp2p/dialer.go` | `dial[d]` is one `Work`: the attempt, the pause after it, the error so far |
| `Probing` | `Sessions` with `Dialer`, the queues of `nebula monitor` and a crawl in another process | `tasks` and `results` are the peer and write queues, of which `Engine` and `Monitor` show that they hold a peer once; a clock drives what is due |
| `CrawlStore` | `cmd_crawl.go`, `db/pg.go`, `db/json.go` | `cmd` is the phase of the command, `work[w]` one InsertVisit: the look-ups of its agent version and protocols, each in the cache and then in the database, then that of its set of protocols, keyed by their IDs; `txn` is the transaction of InsertCrawlProperties. Every call has a twin that fails, with or without having taken effect. `Hang` is an Engine.Run that does not return. `client` picks Postgres or JSON |
| `Resolver` | `cmd_resolve.go` | `batch` is what is left of a fetch, `txn` the transaction of the current row; kills and restarts |
| `Telemetry` | `core/tele.go` and its select case | `callback[c]` is where a gauge's callback is, `waiting` and `copied` the two WaitGroups |
| `EngineProofs` | – | the theorems about `Engine` |
| `DriverProofs` | – | those about `Monitor` and `GossipPX`, on top of them |
| `HeapQueueProofs`, `ResolverProofs`, `ClickHouseProofs`, `VisitProofs`, `ProbingProofs`, `CrawlStoreProofs` | – | those about the module of that name |
| `MC*` | – | instances for TLC |

`Monitor` and `GossipPX` extend `Engine` and share `toEmit` and `driverOpen` with it: in `Engine` they are an
abstract driver that emits a sequence and closes its channel, in the two others the channel of the real one.

Abstractions that matter:

- A channel between two goroutines without a buffer is one step that moves both. A buffered channel is a sequence.
- A peer is its deduplication key. Addresses are a small set of which some (`DialAddrs`) pass the address filter,
  because a peer without such an address is parked at priority 0.
- The outcome of a visit is drawn from `Outcomes[p]` when the engine receives it. In the instances a visit
  that fails has no neighbours.
- `Peek` returns any peer of the highest priority: the order of equal items is the heap's. `HeapQueue` shows that
  the heap does return one of them.
- `handled`, `stored`, `heard`, `discovered` in `Engine`, `stored`, `logged`, `owed`, `acked` in `ClickHouse`, `answered` in `Visit`, `hist`
  and `stale` in `Sessions`, `taken` in `CrawlStore`, `answer` in `Resolver` and `rounds` in `Monitor` are history variables: no guard of the
  modelled code reads them. `rounds`, and `failures` in `CrawlStore`, bound the run.
- In `CrawlStore` agent versions and protocols are names: they have a table, an upsert function and a cache each, all alike. A set of protocols is
  not: it is looked up by the IDs its members were given, in a cache and a table of its own. A member whose look-up fails drops the set;
  an empty protocol leaves the ID 0 in it. Lists of protocols are sets: a protocol that is listed twice counts once. Neighbours are
  those of a crawl with `--neighbors`; the JSON client always writes them.
- A database call that fails may have taken effect, since its answer may be what got lost.
- `..._Bug` operators are slips the code does not have. They document what each property would notice; no
  specification uses them.

## 3. The runs

`pass` runs end without an error. `violation` runs each show one disagreement between the code and what the
repository says about it (section 5).

| run | instance | what it asks |
|---|---|---|
| `engine_crawl` | 3 peers, 2 workers, 2 writers, limit none or 2, cancellation at any time; p1 knows p2 (parked) and p3, both of which know more addresses of p2 or lead back | Is a peer ever visited twice, lost, or stored twice; are channels closed only for good; is the parked peer last; does the run end with everything done; is it a `PeerLifecycle`? |
| `engine_cancel_hang` (violation) | the same | Does a cancelled run return? |
| `monitor` | 2 peers (one parked), 2 workers, 1 writer, 2 successful queries | Is a peer that keeps coming due never dialed twice at once, does each emitted peer get dialed, does Close end the driver in order? |
| `heap_queue` | 6 keys (symmetric), 2 values, 2 priorities | Is the heap a priority queue under every sequence of calls? |
| `gossip_px` | 3 peers, 2 crawlers, 1 writer, 1 inbound stream, a task channel of one slot | Is there a cycle of waiting; is the count of busy crawlers right; is the natural end still complete? |
| `clickhouse` | visits with 1 and 2 neighbours, batches of 2 rows, one of visits that may be refused whole or by row, InitCrawl, SealCrawl | Is each row stored once or in the log with an error; do Flush and Close leave nothing; does the client remember the crawl that was confirmed; does each call return? |
| `clickhouse_discard` (violation) | the same, but a batch may not be prepared | Does InsertVisit return? |
| `visit` | up to 3 IPs, API check on or off, any exit of connect, cancellation at any time | Are networks and directories released on every way out; does no report hold what was not found, and an uncancelled one all that was; is an exposed API found and none made up, in spite of the race; does a visit end? |
| `sessions` | 1 peer, a monitor with 1 dialer and 2 writers, a crawl with 1 writer that shares a connection with it and finds the peer at either of 2 addresses, 2 kinds of errors, 2 ticks, 4 visits, aborts and a stop at any time | Does a session count no visit twice, and is it the sum of its visits where each was stored from the row before; does it end for the right failure; is a stored verdict what the dialer found; is a due peer visited? |
| `crawl_store` | 2 peers that share a protocol and a set, of which one has an agent version and knows the other; an empty protocol; caches of 1, 2 writers, both clients, up to 2 failing calls, signals at any time | Do references, sets, caches and peer mappings agree with the tables; are neighbours and properties whole; does the command end? |
| `resolver` | 4 rows, one of which cannot be parsed, batches of 2, up to 3 failures, kills or cancellations | Is a row stored with all IP addresses of one look-up or untouched; does each row get resolved? |
| `telemetry_panic` (violation) | 2 gauges | Does Stop wait for the callbacks? |

### Why the bounds are enough

- Engine: two workers are needed for two visits that reveal the same peer, and two writers for two results in
  flight. With three peers one can be queued while one is visited and one is being written, and the parked one can be
  promoted, merged and overtaken. The bootstrap list may be empty, which ends a run without a visit, and the
  limit of two is reached with a peer left over.
- Monitor: two rounds emit a peer again in every state the first left it in; a third adds no new overlap, since the
  queue and the inflight map hold a peer once. `MaxRounds` bounds the queries, after which only a cancellation is left.
- Heap: the shortest heap in which removing an inner item has to move its replacement up has three levels with
  the last item under the other branch, that is six items. Two priorities give ties and inversions. Values
  show that the table keeps the right item.
- GossipPX: one handler with up to two peers and one slot in the task channel make the monitor block on the engine in
  the middle of a batch; workerStateChan has as many slots as workers, here two, so three announcements fill it. A second
  handler adds a sender to a channel that takes one at a time.
- ClickHouse: a batch of two visits is filled by the second, a batch of neighbours by one visit or exceeded by both.
  Only the visits may be refused (`Fragile` is what AppendStruct may refuse, `Rejectable` what Send may), since batches do not look at each other, and
  two that are not refused are needed beside them. One way to seal a crawl is enough, as it may be sealed again.
- Visit: with three IPs one fails, one answers and one is not asked. Variables are set anew for each IP, so a fourth
  repeats the third.
- Sessions: peers share no row, so one is enough. Two transactions overlap in every way two can; a third would wait for the same
  locks. A crawl finds the peer at `{"a"}` or at `{"b"}` and the monitor stores the addresses it has read, so that transactions wait for each other
  or do not. Four visits open a session and recover from a failure, fail twice, end it and open the next, or overlap and lose an update; two ticks make the peer due,
  and put it past the uptimes at which one and two failures are tolerated.
- Dialer: three attempts are in the code. The branch of a second refusal is not reached with these errors; it is one of two
  ways into the same state.
- CrawlStore: the two writers look up one protocol and one set; with what the database held before, the cache of sets has two sets for its
  one entry. A peer has a neighbour that is visited, too, and one peer knows nobody. Error bits are zero, as the crawler sets none.
  Two failures let a step fail and the reaction to it fail as well.
- Resolver: the row that cannot be parsed shares a batch with others before and after it; two rows have several addresses, one of
  them in common.
- Telemetry: callbacks do not look at each other.

### Fairness

The specifications that check liveness assume what the Go scheduler and the timeouts of the code give:

- a goroutine that can run is run (weak fairness of each goroutine); a visit and an InsertVisit return, since both
  have timeouts. Within a visit the API requests (`kubo.RequestTimeout`), the wait for a connection (ten seconds) and the query have
  them, too; no peer is assumed to connect or to answer;
- Go's `select` picks among ready cases at random, so a case that is ready again and again is taken (strong
  fairness of `CtxDone` and `Stop` in `Monitor`, of `PxChanClosed` and `RecvPx` in `GossipPX`, of `TakeVisit`, `HandleFlush` and
  `LastSend` in `ClickHouse`). `Engine` alone needs none of that;
- in `Probing` the monitor's loop, each dialer and each writer with its transaction go on as long as they can, and neither the clock nor the
  crawl has to. In `CrawlStore` and `Resolver` the command and its writers go on; nothing has to fail and nobody has to
  send a signal or run a command again. In particular it is not assumed that Engine.Run returns after a cancellation, since the run `engine_cancel_hang`
  shows one that does not: `EndRun` has a rival, `Hang`, and `CommandReturns` promises an end only where neither a hang nor a second
  signal has come first. Without a cancellation Engine.Run returns, which is `RunEnds` in `engine_crawl`;
- nothing is assumed of cancellations, of timeouts of callers, of inbound streams, of peers that come due or of a database that
  recovers. `TimerFires` is weakly fair: a timer that is set and not reset fires.

`CHECK_DEADLOCK FALSE` stands where the system may stop: `Run` in the nil-channel drain, a closed client, a
command that has ended, a monitor whose bound is reached, a program that panicked.

### Properties

Each is stated in words above its definition. In short:

- `InflightIsHeld`, `NeverTwice`, `ImplementsLife`: one visit per peer, at a time (both modes) and in total (crawl).
- `ResultsConserved`: a result is queued, held by one writer or stored, exactly once.
- `ClosedForGood`, `NaturalEndComplete`, `RunEnds`: channels are closed when and only when nothing can need them.
  A run that ends has visited, stored and counted just the peers it heard of, and it does end.
- `QueueKnowsAddresses`, `ParkedLast`: merging addresses and priorities in any order of reports.
- `PoolsGone`: shutdown leaves no goroutine. `RunEnds` includes a shutdown that begins before the pools have stopped.
- `TaskReachesWorker`, `NoSendAfterClose`, `MonitorStops`: monitoring.
- `HeapIsSound`, `ImplementsPriorityQueue`: the heap.
- `BusyAccounting`, `WorkersGetThrough`, `ShutdownEnds`: peer exchange.
- `RowsConserved`, `NothingLeftPending`, `BatchesBounded`, `CrawlRemembered`, `CallsReturn`: ClickHouse. A row is pending, stored once, or in the log with an
  error; between calls the client remembers the crawl that was confirmed last.
- `NetworkReleased`, `VisitIsReported`, `ExposureIsReal`, `VisitEnds`: the visit of a peer. No report, cancelled or not, holds what nobody has told; an
  uncancelled one holds all of it. The API's agent and protocols replace the peer's if the peer has not told both.
- `SessionsSumUp`, `SessionsEndForAReason`: the sessions table under overlapping transactions. Whatever overlaps, no count is too high and a next visit is
  set, and near; a session of which no visit was stored from an outdated row (`stale`) is exactly the sum of its visits and ends with the first failure that is not forgiven.
- `VerdictsAreReal`, `DueIsProbed`: what a monitor stores and whom it visits.
- `ReferencesHold`, `NeighborsComplete`, `ReportsAreWhole`, `CommandReturns`: the store of a crawl. That a single signal costs nothing of a report
  is claimed of an Engine.Run that returns.
- `AnswersAreWhole`, `RowsGetResolved`: the resolver.
- The type invariant of a module is a conjunct of its first invariant, except in `Engine`, where it is `TypeOK`.

## 4. The proofs

Every invariant and action property of the runs and both refinements, `ImplementsLife` and `ImplementsPriorityQueue`, are theorems. Each rests
on the assumption its module names on its constants, which TLC evaluates in a run; they are what the code needs to make
sense (finite pools that are not empty, caps that are positive). In each case an
inductive invariant is proved of `Init` and of every action, and the properties follow from it; where a property
is conserved by the steps of one part only, a lemma per part says so.

`EngineProofs`, from `EngineAssumption`: any finite set of peers, any addresses, outcomes and emissions, any finite pools that are
not empty, any limits, both processing modes.

- `TypeCorrect` (`TypeOK`). It is not inductive: the result of a worker is one of `Outcomes[wtask[w]]`
  only if a publishing worker holds a peer. `TypeInv` adds that (`TasksHeld`). The lemmas on `Enqueue` and `Hear` say
  that enqueueTask keeps the queue well-formed and touches accepted peers only.
- `InflightCorrect` (`InflightIsHeld`). That two workers never hold one peer follows because `SendPeerTask` takes a
  queued peer and no queued peer is inflight: `HeldInv` adds `Queued \cap inflight = {}`, which `Accepted` preserves.
  After the drain of a cancelled run has begun the inflight map is not kept up to date, and only the second half of the
  invariant is claimed.
- `NeverTwiceCorrect`. Inductive together with `HeldInv`: a result that is handled
  belongs to a peer that is inflight, hence was not processed before.
- `ClosedForGoodCorrect`. Inductive with `HeldInv`: a task comes in only while tasksOpen, and a
  result only from a peer that is inflight, and with either the channels are still open.
- `PoolsGoneCorrect`. `GoneInv` says what each place of `Run` behind a closed results channel knows:
  that the goroutines of that pool have exited. They stay so, as an exited goroutine takes part in no step (`ExitedStays`).
- `AddressesCorrect` and `ParkedLastCorrect`. `AddrInv` adds that nothing is on record for a peer that is not
  queued. `ParkedLast` is a property of steps: the only one that makes a peer inflight takes what `Peek` returned, and the
  priorities `Peek` compares are those of all addresses heard.
- `ResultsCorrect` (`ResultsConserved`). A result that is handled is the first of its peer (`NeverTwice`), so it is
  nowhere yet (`OnePlace`). `WritersApart`, that no two writers hold the same result, is what makes a store empty a place.
- `NaturalEndCorrect` (`NaturalEndComplete`). Backwards from the return: both pools have exited (`GoneInv`), so the
  task channels were closed (`ExitsClosed`), so nothing is left (`ClosedForGood`), so what was discovered is processed
  (`NoneLost`) and what was handled is stored (`ResultsConserved`). The pools are not empty by assumption, which is what
  `EngineConfig.Validate` demands; the counters need `Peers` to be finite.
- `LifeCorrect` (`Spec => ImplementsLife`, for a crawl). `EngineInv` is the conjunction of all the above; with it the
  stages exclude each other (`StatusIs`), and each step of the engine is one of `PeerLifecycle`: a task is `Discover`, a send
  `Start`, a result `Finish`, a write `Store`, the return `End`, and the rest stutter.

`DriverProofs`: the engine under the drivers that talk back to it. `Monitor` and `GossipPX` change `toEmit` and `driverOpen`, which the
engine reads. `DriverKeeps` says that `EngineInv` survives any change of these two, so that it holds under every driver, and only
what a driver adds has to be proved.

- `MonitorHoldsInflight` is `InflightIsHeld` again, for a driver that emits peers that are queued or being dialed.
- `MonitorStopsFirst` (`NoSendAfterClose`). `DriverInv` adds that the task channel is closed only after monitorDatabase has stopped,
  and that whatever lies behind `driver.Close` in `Run` finds it closed. The natural end needs this as well as the shutdown.
- `BusyAccounts` (`BusyAccounting`). The property compares the count with the workers that crawl *after* all announcements in the channel.
  For the count to stay within 0 and the number of workers it has to do so after *each* prefix of the channel: `CountInv`
  says that of `BusyAfter(k)` for every k, with lemmas on how a send and a receive shift the counts.
- `ExchangeEndCorrect` is `NaturalEndComplete` with peer exchange: what stream handlers found before the end is visited and stored, too.

`ClickHouseProofs`, from `ClickHouseAssumption`: any visits, any batch size, any failures of the database, also of calls that took effect.

- `Conservation` (`RowsConserved`): a row that is pending is neither stored nor in the log, and a visit taken over is new to all of them. `SendFate` says
  what Send makes of a row, whichever batches fail and whichever ClickHouse has got: it is stored, in the log, or both, and no longer pending.
- `FlushAndCloseComplete` (`NothingLeftPending`): `FlusherInv` says which batches are ready, sent or nil at each place of the flusher. That
  a Close has left nothing unsent is claimed when it returned in time and no batch is nil: a flusher whose preparation failed may
  leave with rows in the others, which the run `clickhouse_discard` is about.
- `BatchSizesBounded` is inductive as it stands, given the types.
- `CrawlIsRemembered` (`CrawlRemembered`) is not: during a call the client may remember what nobody has confirmed. `CrawlInv` says for each place of a call
  which of `crawl`, `original` and `acked` agree, and what the row may be after an error.

`VisitProofs`: any number of IP addresses, any answers, any interleaving of the two requests on their shared `err`.

- `NoNetworkLeaks` (`NetworkReleased`): `NetworkInv` says at which places of connect the directory and the network are up, and that an error has
  released both.
- `ReportsAreFaithful` (`VisitIsReported`): `HandoverInv`, that Work has received what crawlP2P sent unless the visit was cancelled; `ReceivedInv`, that in
  its place there is only the zero value, and only once crawlP2P is over; `AnsweredInv`, that a response is that of an IP that has answered.
- `ExposureSurvivesRace` (`ExposureIsReal`). `RequestsInv` is why the data race does no harm to the verdict: `err` may be that of the
  other request, or nil in the place of an error, but while no request has got an answer whatever was assigned is an error,
  and while all requests that are back have an answer nothing but nil was. So an IP address where both failed is never taken for one
  that answered, nor the reverse. What lies between is the part that `ExposureIsReal` does not claim (section 5).

`ProbingProofs`, from `ProbingConstants`: any peers, addresses, connections, dialers, errors, grace periods and intervals, and any overlap of
transactions: nothing is assumed of the addresses that visits of a peer store.

- `VerdictsReal`: `VerdictInv` follows a result from the dialer (`DialInv`) through the queue and the transaction.
- `SessionsAreSums` and `SessionsEndRightly`. insert_visit takes no lock of its own; two transactions of a peer wait for each other only when
  they delete or insert a row of the same address. So a visit may be stored from a row that has changed since, and the
  invariant has two levels. `SoundInv` says of every row, `stale` or not, what overlap cannot spoil, and of one that is not
  stale that it is the sum of its visits and forgives all its failures (`OpenSound`, `ClosedSound`). `ReadInv` says of a transaction what the row it has read is
  to the present one: of the same session, and with no more on its counts than that session's visits (`Earlier`).
  `Summarises` counts successes, failures and recoveries; the lemmas give the three counts of a history with one more visit.

`CrawlStoreProofs`, from `StoreConstants`, in which `Peer`, `Agent` and `Protocol` are finite: the IDs of a table are numbered up to its size, and
that there is a free one for the next row is a matter of counting (`FreeIds`).

- `ReferencesCorrect` (`ReferencesHold`): rows are never deleted and IDs never change (`Grow`, for sets `SetsGrow`), so that whatever a cache, a mapping or a
  writer holds stays right (`RefersKept`). `ItemOK` says what a writer holds between its calls, the IDs of its names and then that of the set they make
  (`KeyIs`); `SetInv` that sets consist of IDs the table of protocols has, or of 0, and differ if their IDs do.
- `NeighborsCorrect`: `TableInv` follows the routing table of a peer from the writer to the map in memory to Flush.
- `ReportsCorrect` (the part about a signal for an Engine.Run that returns): `ReportInv` says what has been sealed and stored in each phase of the command, `TxnInv` that a transaction
  that is not aborted holds what it has done and not done yet.

`ResolverProofs`, from `ResolverConstants`: any number of rows, any batch size, any failures, kills and restarts.

- `AnswersCorrect` (`AnswersAreWhole`). The property says nothing of a transaction that is open; `TxnInv` adds that it has inserted
  exactly the addresses of its look-up that are not left to do, and `RowsInv` that rows are numbered without gaps, which a row that
  arrives needs. That a batch has a first row (`CurrentInBatch`) takes the well-foundedness of inclusion on finite sets.

`HeapQueueProofs`, from `QueueConstants` (priorities are integers): any number of keys, any values.

- What the loops `up` and `down` compute takes induction, and the library's theorem on it has an operator for a parameter, which the provers
  cannot instantiate. But the well-foundedness of the naturals is stated without one. `LeastNumber` and `Induction`, for sets of numbers in place of predicates, follow from it, and from these
  that a loop which stays in a set of states, with a rank that falls whenever it moves, has stopped after as many turns as the rank
  it began with (`LoopExists`, `LoopEnds`). For `up` the rank is the position of the item, for `down` how far it is from the end.
- The set of states of `up` has the heap in order but between the item and its parent, with the children below the grandparent (`OrderedButUp`); that
  of `down` has it in order but below the item (`OrderedButDown`), or around it before the first turn (`OrderedAround`). `OneUp` and `OneDown` are the
  turns, on priorities alone; `SwapWorks` is why each item still knows where it is.
- `SettleWorks` is the "if !down { up }" of Fix and Remove: a change of one item leaves the order `OrderedAround` it; if down does not move it, it is in order with
  its children and `up` starts from `OrderedButUp`.
- `HeapStaysSound` (`HeapIsSound`) and `HeapIsPriorityQueue` (`HeapSpec => ImplementsPriorityQueue`) follow call by call. That the root is an item of highest
  priority (`RootIsGreatest`) is the least number principle once more.

Model-checked only: all liveness properties (`RunEnds`, `TaskReachesWorker`, `MonitorStops`, `WorkersGetThrough`, `ShutdownEnds`,
`CallsReturn`, `VisitEnds`, `DueIsProbed`, `CommandReturns`, `RowsGetResolved`), as the provers know neither ENABLED nor fairness.

## 5. Where the code and its documentation disagree

Three of them are runs that TLC ends with a counterexample:

| run | what it shows |
|---|---|
| `engine_cancel_hang` | A cancellation, or the limit, that is noticed after the workers have stopped and before the writers have makes `Run` range over a nil channel: it does not return, and the crawl is not sealed (`core/engine.go:301,336`). |
| `clickhouse_discard` | After a failed preparation the flusher tests a received-flag as if it were a closed-flag and leaves with the first visit; the next InsertVisit blocks until its caller gives up (`db/ch.go:277`). |
| `telemetry_panic` | Stop waits for a copy of the WaitGroup and closes obsChan under a callback that may then panic (`core/tele.go:136`). If the copy was taken while a callback was underway, it waits for ever. |

The others are in the models' actions, which do what the code does, and no property claims the contrary:

| model | what it does |
|---|---|
| `Engine` | `EngineConfig.Limit` is a threshold: results that are ready are handled, and visits started, before the select takes the cancellation (`core/engine.go:363`). |
| `Monitor` | `handlePeerResult` pushes onto a queue that ignores a key it holds. A monitored peer that is dialed again while its result waits loses the newer one (`core/engine.go:395`, `core/queue.go:30`). |
| `GossipPX` | Stream handlers outlive `monitorGossipSubPX`: one that learns peers then blocks, and panics when Close closes its channel (`libp2p/driver_crawler.go:265,399`). |
| `Visit` | A cancelled visit merges the zero value of a closed channel, also if it had a connect error: neither a connect nor a crawl error, which is logged as a dialable peer (`libp2p/crawler_p2p.go:126`, `core/handler_crawl.go:111`). A wait for a connection that ends after ten seconds without one is no connect error, so that the report has no dial errors (`libp2p/crawler_p2p.go:214`, against `core/handler_crawl.go:62`). The race on `err` (`libp2p/crawler_api.go:84,92`) lets one successful request count as two; `ExposureIsReal` holds in spite of it, but the identity or the routing table may be missing. |
| `Telemetry` | An engine that ends by itself does not stop its telemetry, and a callback then blocks for ever (`core/engine.go:352`). |
| `Sessions` | Two visits of a peer that are stored at once work from the same row, and one is not counted (`000020_…:51`, against `000019_…:31`): the address rows of insert_visit keep them apart only if both delete or insert a row of one address, and an address that is just committed is skipped. `SessionsSumUp` states what is left. Visits are applied in the order in which they are stored: an older one that is stored last takes `last_successful_visit` back, and one that ended before its session began is lost with an error. |
| `CrawlStore` | A list of protocols with an empty one is stored as a set with the ID 0, which no protocol has (`db/pg.go:489`, against `000006_…:15`); `ReferencesHold` allows for it. No crawl sets the error bits that `core/core.go:144` documents; with bits and without neighbours a peer would be kept for Flush and no row made of it (`db/pg.go:643`, `000017_…:32`). Flush is skipped when sealing or the properties fail, and all neighbours are lost (`cmd_crawl.go:417`). |
| `Resolver` | A row that cannot be parsed is deleted and the delete rolled back, so that the command fetches it for ever (`cmd_resolve.go:154`). A batch full of such rows would hold up all others. |

Found in reading, and not modelled: drivers whose Close panics when called twice although `core.go` asks for idempotence, and an error
string that is in the table of known errors but not in the list of their precedence (`db/errors.go:66`).

## 6. What is left out of the modelled parts

- Engine: logging, `writeCount`, the handlers' histograms. The select case that runs a gauge callback is in `Telemetry` (it changes no
  state of the engine).
- Monitor: a stop before the start gate, which needs NewEngine to fail.
- GossipPX: the ten-second limit of Close (`ShutdownEnds` says it is not needed) and a stream that is re-opened. `WorkersGetThrough`
  excuses a crawler once the monitor has returned: nobody reads workerStateChan from then on. The monitor returns when all crawlers
  have been idle for a second, and the model lets that second pass at any moment.
- ClickHouse: queries, migrations and the network check of InitCrawl. The batch of prefixes gets a row per neighbour, as the code appends one
  (`ch.go:340`). A Close that times out cancels the flusher's context; a flusher that then fails to
  prepare its batches and loops may dereference a nil one, which `CallsReturn` counts as an end (`crashed`).
- Visit: addresses, the dial filter, which protocols, and times of a result; the types of errors (`crawl_error`, `direct_close`). A half-written `err` (an interface is two words) is not modelled, only the order of whole assignments.
  `queryConnectedPeer` is one step, since nothing else reads what it does.
- Sessions: agent versions, protocols and the properties of a peer in `insert_visit`. A transaction that changes them locks the peer's
  row as well, so the model has every interleaving of the database and some more. Partitions of the visits table.
- Dialer: how long a pause is; what DialPeer does.
- CrawlStore: what a bootstrap list or the engine's set-up does when it fails (`SetupFails` is one step); connection errors as a
  crawl property; counters of the crawl row. QueryBootstrapPeers and the migrations.
- Resolver: what DNS, MaxMind and Udger answer is any part of the addresses behind a row.
- Telemetry: the numbers a gauge reports.

### Not modelled

- The identify registry (`libp2p/host.go`): no caller is left in the crawler at this commit.
- Error classification (`db/errors.go`, `NetError`), address helpers, configuration, bootstrap lists, flag parsing, `nebula health` and
  `nebula networks`, RPC framing, the Kubo API, the prefix generator, the Python scripts: pure functions or pure I/O.
- The SQLBoiler models under `db/models/pg`: 17,886 of the 26,951 lines of Go are generated accessors without a
  decision of their own. What the program does with them is in `Sessions`, `CrawlStore` and `Resolver`. They are why the share of lines the models
  stand for cannot reach a third of the whole: it would take nearly every hand-written line, logging and wiring included.

## 7. The plan

All components of the first plan with an order of events to get wrong are modelled, and their safety properties are proved. What could be added:

1. the safety half of the liveness properties: that a state without an end is not a deadlock of the modelled parts
   (some goroutine can always take a step), which needs no ENABLED if the guards are written out;
2. `Engine` on top of `HeapQueue` instead of the set its queues are modelled as, by way of `PriorityQueue`.
