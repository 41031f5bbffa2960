------------------------------- MODULE Engine -------------------------------
(***************************************************************************)
(* The engine of package core: one goroutine (Engine.Run) that schedules   *)
(* peers onto a pool of workers and their results onto a pool of writers.  *)
(* The driver feeds it peers through tasksChan; workers and writers take   *)
(* tasks from, and publish results to, unbuffered channels, so a send and  *)
(* the matching receive are one step here.                                 *)
(*                                                                         *)
(* A peer is its deduplication key.  The outcome of Worker.Work is chosen  *)
(* when the engine receives it: nobody looks at it before.                 *)
(***************************************************************************)
EXTENDS Naturals, Sequences, FiniteSets

CONSTANTS
  Peers,                \* deduplication keys
  Addrs,                \* multiaddresses
  DialAddrs,            \* the addresses maddrFilter keeps
  NoPeer,               \* what an idle worker or writer holds
  Workers, Writers,     \* the goroutines of the two pools
  Emissions,            \* the sequences of tasks the driver may emit before closing tasksChan
  Outcomes,             \* Outcomes[p]: the results Worker.Work may have for p
  Limits,               \* the values of EngineConfig.Limit to run with, 0 is unlimited
  DuplicateProcessing   \* EngineConfig.DuplicateProcessing

\* A task of the driver: a peer and the addresses it comes with.
Task == [peer : Peers, addrs : SUBSET Addrs]

\* The neighbours of a result: distinct peers, each with its addresses.
Neighbors == UNION {[D -> SUBSET Addrs] : D \in SUBSET Peers}

ASSUME EngineAssumption ==
  /\ DialAddrs \subseteq Addrs
  /\ NoPeer \notin Peers
  /\ IsFiniteSet(Peers) /\ IsFiniteSet(Workers) /\ IsFiniteSet(Writers)
  /\ Workers # {} /\ Writers # {}     \* EngineConfig.Validate
  /\ \A e \in Emissions : e \in Seq(Task)
  /\ \A p \in Peers : Outcomes[p] \subseteq [connErr : BOOLEAN, neighbors : Neighbors]
  /\ Limits \subseteq Nat
  /\ DuplicateProcessing \in BOOLEAN

VARIABLES
  pc,             \* where Engine.Run is
  limit,          \* EngineConfig.Limit of this run
  callerCancelled,\* the context passed to Run is done
  cancelled,      \* the engine's own context, derived from it, is done
  toEmit,         \* what the driver has still to emit
  driverOpen,     \* the driver has not closed its task channel
  tasksOpen,      \* e.tasksChan # nil
  peerQueue,      \* e.peerQueue: key -> addresses and priority
  writeQueue,     \* e.writeQueue: the keys of the queued results
  inflight,       \* e.inflight
  processed,      \* e.processed
  peerTasks, writeTasks,               \* the task channels, "open" or "closed"
  peerResultsNil, writerResultsNil,    \* the local variables of Run were set to nil
  wpc, wtask,     \* workers: state and peer
  xpc, xtask,     \* writers: state and result
  crawledPeers, connErrs,              \* CrawlHandler's counters
  handled,        \* history: results of p the engine has handled
  stored,         \* history: InsertVisit calls for p
  heard,          \* history: addresses heard for p since it was last handed out
  discovered      \* history: peers that enqueueTask has seen

driverVars  == <<toEmit, driverOpen, tasksOpen>>
queueVars   == <<peerQueue, writeQueue, inflight, processed>>
chanVars    == <<peerTasks, writeTasks, peerResultsNil, writerResultsNil>>
workerVars  == <<wpc, wtask>>
writerVars  == <<xpc, xtask>>
handlerVars == <<crawledPeers, connErrs>>
historyVars == <<handled, stored, heard, discovered>>
ctxVars     == <<limit, callerCancelled, cancelled>>
vars == <<pc, ctxVars, driverVars, queueVars, chanVars, workerVars, writerVars,
          handlerVars, historyVars>>

PoolState == {"idle", "working", "publishing", "exited"}
PC == {"turn", "select", "ending", "closing", "drainPeers", "drainWrites",
       "returned", "cancelledReturn"}

TypeOK ==
  /\ pc \in PC
  /\ limit \in Limits
  /\ callerCancelled \in BOOLEAN
  /\ cancelled \in BOOLEAN
  /\ toEmit \in Seq(Task)
  /\ driverOpen \in BOOLEAN
  /\ tasksOpen \in BOOLEAN
  /\ DOMAIN peerQueue \subseteq Peers
  /\ peerQueue \in [DOMAIN peerQueue -> [addrs : SUBSET Addrs, priority : {0, 1}]]
  /\ writeQueue \subseteq Peers
  /\ inflight \subseteq Peers
  /\ processed \subseteq Peers
  /\ peerTasks \in {"open", "closed"}
  /\ writeTasks \in {"open", "closed"}
  /\ peerResultsNil \in BOOLEAN
  /\ writerResultsNil \in BOOLEAN
  /\ wpc \in [Workers -> PoolState]
  /\ wtask \in [Workers -> Peers \cup {NoPeer}]
  /\ xpc \in [Writers -> PoolState]
  /\ xtask \in [Writers -> Peers \cup {NoPeer}]
  /\ crawledPeers \in Nat
  /\ connErrs \in Nat
  /\ handled \in [Peers -> Nat]
  /\ stored \in [Peers -> Nat]
  /\ heard \in [Peers -> SUBSET Addrs]
  /\ discovered \subseteq Peers

-----------------------------------------------------------------------------
\* The engine's bookkeeping.

Queued == DOMAIN peerQueue
Busy == {"working", "publishing"}

\* The operators named ..._Bug are what a slip in the code would make of the
\* definition that follows them; no specification uses them.

\* maddrFilter leaves an address: the peer is not parked.
Priority_CountBug(addrs) == Cardinality(addrs)
Priority_NoParkingBug(addrs) == 1
Priority(addrs) == IF addrs \cap DialAddrs = {} THEN 0 ELSE 1

\* enqueueTask for every peer of DOMAIN new, given the inflight and processed
\* sets: distinct peers do not interfere, so their order does not matter.
Accepted_InflightBug(new, infl, proc) == DOMAIN new \ proc
Accepted_ProcessedBug(new, infl, proc) == DOMAIN new \ infl
Accepted(new, infl, proc) == DOMAIN new \ (infl \cup proc)

\* PeerInfo.Merge with the task that is already queued, if there is one.
Merged_LatestBug(k, new) == new[k]
Merged(k, new) == new[k] \cup (IF k \in Queued THEN peerQueue[k].addrs ELSE {})

Enqueue(new, infl, proc) ==
  [k \in Queued \cup Accepted(new, infl, proc) |->
     IF k \in Accepted(new, infl, proc)
     THEN [addrs |-> Merged(k, new), priority |-> Priority(Merged(k, new))]
     ELSE peerQueue[k]]

Hear(new, infl, proc) ==
  [k \in Peers |-> IF k \in Accepted(new, infl, proc) THEN heard[k] \cup new[k] ELSE heard[k]]

\* PriorityQueue.Peek: a peer of highest priority, ties in heap order.
PeekPeers == {k \in Queued : \A j \in Queued : peerQueue[k].priority >= peerQueue[j].priority}

\* Nothing is queued, on its way or still to come: the workers are done ...
PeersExhausted_InflightBug == Queued = {} /\ ~tasksOpen
PeersExhausted_DriverBug == Queued = {} /\ inflight = {}
PeersExhausted_FirstPeerBug == Queued = {} /\ inflight = {} /\ ~tasksOpen /\ processed # {}
PeersExhausted == Queued = {} /\ inflight = {} /\ ~tasksOpen

\* ... and without workers (closed) and queued results the writers are, too.
WritesExhausted_EarlyBug(closed) == writeQueue = {}
WritesExhausted(closed) == writeQueue = {} /\ closed

\* The goroutines of both pools are gone.
PoolsStopped_WritersBug == peerResultsNil
PoolsStopped == peerResultsNil /\ writerResultsNil

\* PriorityQueue.Drop on the write queue.
DropResult_KeepBug(k) == writeQueue
DropResult(k) == writeQueue \ {k}

reachedProcessingLimit == limit > 0 /\ Cardinality(processed) >= limit

-----------------------------------------------------------------------------
Init ==
  /\ pc = "turn"
  /\ limit \in Limits
  /\ callerCancelled = FALSE /\ cancelled = FALSE
  /\ toEmit \in Emissions
  /\ driverOpen = TRUE
  /\ tasksOpen = TRUE
  /\ peerQueue = [k \in {} |-> [addrs |-> {}, priority |-> 0]]
  /\ writeQueue = {} /\ inflight = {} /\ processed = {}
  /\ peerTasks = "open" /\ writeTasks = "open"
  /\ peerResultsNil = FALSE /\ writerResultsNil = FALSE
  /\ wpc = [w \in Workers |-> "idle"] /\ wtask = [w \in Workers |-> NoPeer]
  /\ xpc = [x \in Writers |-> "idle"] /\ xtask = [x \in Writers |-> NoPeer]
  /\ crawledPeers = 0 /\ connErrs = 0
  /\ handled = [p \in Peers |-> 0] /\ stored = [p \in Peers |-> 0]
  /\ heard = [p \in Peers |-> {}] /\ discovered = {}

\* The end of one iteration of the loop (the limit) and the head of the next:
\* peek both queues and close the task channels that are no longer needed.
LoopTurn ==
  /\ pc = "turn"
  /\ ~PoolsStopped
  /\ cancelled' = (cancelled \/ reachedProcessingLimit)
  /\ peerTasks' = IF PeersExhausted THEN "closed" ELSE peerTasks
  /\ writeTasks' = IF WritesExhausted(peerTasks' = "closed") THEN "closed" ELSE writeTasks
  /\ pc' = "select"
  /\ UNCHANGED <<limit, callerCancelled, driverVars, queueVars, peerResultsNil,
                 writerResultsNil, workerVars, writerVars, handlerVars, historyVars>>

\* Both pools have stopped, the natural end of a run: call driver.Close, which
\* may block ...
NaturalEnd ==
  /\ pc = "turn"
  /\ PoolsStopped
  /\ pc' = "ending"
  /\ UNCHANGED <<ctxVars, driverVars, queueVars, chanVars, workerVars, writerVars,
                 handlerVars, historyVars>>

\* ... and return the summary.
Return ==
  /\ pc = "ending"
  /\ pc' = "returned"
  /\ UNCHANGED <<ctxVars, driverVars, queueVars, chanVars, workerVars, writerVars,
                 handlerVars, historyVars>>

\* A task from the driver.
RecvTask ==
  /\ pc = "select" /\ tasksOpen /\ toEmit # <<>>
  /\ LET t   == Head(toEmit)
         new == [k \in {t.peer} |-> t.addrs]
     IN  /\ peerQueue' = Enqueue(new, inflight, processed)
         /\ heard' = Hear(new, inflight, processed)
         /\ discovered' = discovered \cup DOMAIN new
  /\ toEmit' = Tail(toEmit)
  /\ pc' = "turn"
  /\ UNCHANGED <<ctxVars, driverOpen, tasksOpen, writeQueue, inflight, processed, chanVars,
                 workerVars, writerVars, handlerVars, handled, stored>>

\* The driver has closed tasksChan.
TasksClosed ==
  /\ pc = "select" /\ tasksOpen /\ toEmit = <<>> /\ ~driverOpen
  /\ tasksOpen' = FALSE
  /\ pc' = "turn"
  /\ UNCHANGED <<ctxVars, toEmit, driverOpen, queueVars, chanVars, workerVars, writerVars,
                 handlerVars, historyVars>>

\* An idle worker accepts the peeked peer.
SendPeerTask(w) ==
  /\ pc = "select" /\ peerTasks = "open" /\ wpc[w] = "idle"
  /\ \E k \in PeekPeers :
       /\ peerQueue' = [j \in Queued \ {k} |-> peerQueue[j]]
       /\ inflight' = inflight \cup {k}
       /\ wtask' = [wtask EXCEPT ![w] = k]
       /\ heard' = [heard EXCEPT ![k] = {}]
  /\ wpc' = [wpc EXCEPT ![w] = "working"]
  /\ pc' = "turn"
  /\ UNCHANGED <<ctxVars, driverVars, writeQueue, processed, chanVars, writerVars,
                 handlerVars, handled, stored, discovered>>

\* An idle writer accepts a queued result.
SendWriteTask(x) ==
  /\ pc = "select" /\ writeTasks = "open" /\ xpc[x] = "idle"
  /\ \E k \in writeQueue :
       /\ writeQueue' = DropResult(k)
       /\ xtask' = [xtask EXCEPT ![x] = k]
  /\ xpc' = [xpc EXCEPT ![x] = "working"]
  /\ pc' = "turn"
  /\ UNCHANGED <<ctxVars, driverVars, peerQueue, inflight, processed, chanVars,
                 workerVars, handlerVars, historyVars>>

\* CrawlHandler.HandlePeerResult counts the visit; what it returns are the
\* neighbours of the result.
HandlePeerResult(o) ==
  /\ crawledPeers' = crawledPeers + 1
  /\ connErrs' = IF o.connErr THEN connErrs + 1 ELSE connErrs

\* The engine takes over the result of worker w and hands it to the handler.
PeerResult(w) ==
  /\ pc = "select" /\ wpc[w] = "publishing"
  /\ \E o \in Outcomes[wtask[w]] :
       LET p    == wtask[w]
           infl == inflight \ {p}
           proc == IF DuplicateProcessing THEN processed ELSE processed \cup {p}
       IN  /\ inflight' = infl
           /\ processed' = proc
           /\ writeQueue' = writeQueue \cup {p}   \* Push keeps a result already queued
           /\ handled' = [handled EXCEPT ![p] = @ + 1]
           /\ HandlePeerResult(o)
           /\ peerQueue' = Enqueue(o.neighbors, infl, proc)
           /\ heard' = Hear(o.neighbors, infl, proc)
           /\ discovered' = discovered \cup DOMAIN o.neighbors
  /\ wpc' = [wpc EXCEPT ![w] = "idle"]
  /\ wtask' = [wtask EXCEPT ![w] = NoPeer]
  /\ pc' = "turn"
  /\ UNCHANGED <<ctxVars, driverVars, chanVars, writerVars, stored>>

\* All workers have exited, so their results channel is closed.
PeerResultsClosed ==
  /\ pc = "select" /\ ~peerResultsNil
  /\ \A w \in Workers : wpc[w] = "exited"
  /\ peerResultsNil' = TRUE
  /\ pc' = "turn"
  /\ UNCHANGED <<ctxVars, driverVars, queueVars, peerTasks, writeTasks, writerResultsNil,
                 workerVars, writerVars, handlerVars, historyVars>>

\* The engine takes note of a finished write.
WriteResult(x) ==
  /\ pc = "select" /\ xpc[x] = "publishing"
  /\ xpc' = [xpc EXCEPT ![x] = "idle"]
  /\ xtask' = [xtask EXCEPT ![x] = NoPeer]
  /\ pc' = "turn"
  /\ UNCHANGED <<ctxVars, driverVars, queueVars, chanVars, workerVars, handlerVars,
                 historyVars>>

WriterResultsClosed ==
  /\ pc = "select" /\ ~writerResultsNil
  /\ \A x \in Writers : xpc[x] = "exited"
  /\ writerResultsNil' = TRUE
  /\ pc' = "turn"
  /\ UNCHANGED <<ctxVars, driverVars, queueVars, peerTasks, writeTasks, peerResultsNil,
                 workerVars, writerVars, handlerVars, historyVars>>

\* The engine was asked to stop: it calls driver.Close, which may block ...
CtxDone ==
  /\ pc = "select" /\ cancelled
  /\ pc' = "closing"
  /\ UNCHANGED <<ctxVars, driverVars, queueVars, chanVars, workerVars, writerVars,
                 handlerVars, historyVars>>

\* ... and once that has returned closes the task channels that are still open.
CloseTasks ==
  /\ pc = "closing"
  /\ peerTasks' = "closed"
  /\ writeTasks' = "closed"
  /\ pc' = "drainPeers"
  /\ UNCHANGED <<ctxVars, driverVars, queueVars, peerResultsNil, writerResultsNil,
                 workerVars, writerVars, handlerVars, historyVars>>

\* "for range peerResults": a nil channel is never closed, so a loop over one
\* that the select has already set to nil does not end.
DropPeerResult(w) ==
  /\ pc = "drainPeers" /\ ~peerResultsNil /\ wpc[w] = "publishing"
  /\ wpc' = [wpc EXCEPT ![w] = "idle"]
  /\ wtask' = [wtask EXCEPT ![w] = NoPeer]
  /\ UNCHANGED <<pc, ctxVars, driverVars, queueVars, chanVars, writerVars, handlerVars,
                 historyVars>>

PeersDrained ==
  /\ pc = "drainPeers" /\ ~peerResultsNil
  /\ \A w \in Workers : wpc[w] = "exited"
  /\ pc' = "drainWrites"
  /\ UNCHANGED <<ctxVars, driverVars, queueVars, chanVars, workerVars, writerVars,
                 handlerVars, historyVars>>

DropWriteResult(x) ==
  /\ pc = "drainWrites" /\ ~writerResultsNil /\ xpc[x] = "publishing"
  /\ xpc' = [xpc EXCEPT ![x] = "idle"]
  /\ xtask' = [xtask EXCEPT ![x] = NoPeer]
  /\ UNCHANGED <<pc, ctxVars, driverVars, queueVars, chanVars, workerVars, handlerVars,
                 historyVars>>

\* Return the summary and the context's error.
WritesDrained ==
  /\ pc = "drainWrites" /\ ~writerResultsNil
  /\ \A x \in Writers : xpc[x] = "exited"
  /\ pc' = "cancelledReturn"
  /\ UNCHANGED <<ctxVars, driverVars, queueVars, chanVars, workerVars, writerVars,
                 handlerVars, historyVars>>

-----------------------------------------------------------------------------
\* The driver has nothing more to emit and closes its channel.
DriverCloses ==
  /\ driverOpen /\ toEmit = <<>>
  /\ driverOpen' = FALSE
  /\ UNCHANGED <<pc, ctxVars, toEmit, tasksOpen, queueVars, chanVars, workerVars,
                 writerVars, handlerVars, historyVars>>

\* The goroutines of the pools: range over the task channel, work, publish.

Work(w) ==
  /\ wpc[w] = "working"
  /\ wpc' = [wpc EXCEPT ![w] = "publishing"]
  /\ UNCHANGED <<pc, ctxVars, driverVars, queueVars, chanVars, wtask, writerVars,
                 handlerVars, historyVars>>

WorkerExit(w) ==
  /\ wpc[w] = "idle" /\ peerTasks = "closed"
  /\ wpc' = [wpc EXCEPT ![w] = "exited"]
  /\ UNCHANGED <<pc, ctxVars, driverVars, queueVars, chanVars, wtask, writerVars,
                 handlerVars, historyVars>>

\* CrawlWriter.Work: one InsertVisit per result.
Write(x) ==
  /\ xpc[x] = "working"
  /\ xpc' = [xpc EXCEPT ![x] = "publishing"]
  /\ stored' = [stored EXCEPT ![xtask[x]] = @ + 1]
  /\ UNCHANGED <<pc, ctxVars, driverVars, queueVars, chanVars, workerVars, xtask,
                 handlerVars, handled, heard, discovered>>

WriterExit(x) ==
  /\ xpc[x] = "idle" /\ writeTasks = "closed"
  /\ xpc' = [xpc EXCEPT ![x] = "exited"]
  /\ UNCHANGED <<pc, ctxVars, driverVars, queueVars, chanVars, workerVars, xtask,
                 handlerVars, historyVars>>

\* The caller of Run cancels its context.
Cancel ==
  /\ ~callerCancelled /\ pc \in {"turn", "select"}
  /\ callerCancelled' = TRUE
  /\ cancelled' = TRUE
  /\ UNCHANGED <<pc, limit, driverVars, queueVars, chanVars, workerVars, writerVars, handlerVars,
                 historyVars>>

-----------------------------------------------------------------------------
Returned == pc \in {"returned", "cancelledReturn"}

\* Run has returned and the program goes on without the engine.
Done == Returned /\ UNCHANGED vars

EngineStep ==
  \/ LoopTurn \/ NaturalEnd \/ Return
  \/ RecvTask \/ TasksClosed
  \/ \E w \in Workers : SendPeerTask(w) \/ PeerResult(w) \/ DropPeerResult(w)
  \/ \E x \in Writers : SendWriteTask(x) \/ WriteResult(x) \/ DropWriteResult(x)
  \/ PeerResultsClosed \/ WriterResultsClosed
  \/ CtxDone \/ CloseTasks \/ PeersDrained \/ WritesDrained

WorkerStep(w) == Work(w) \/ WorkerExit(w)
WriterStep(x) == Write(x) \/ WriterExit(x)

Next ==
  \/ EngineStep
  \/ \E w \in Workers : WorkerStep(w)
  \/ \E x \in Writers : WriterStep(x)
  \/ DriverCloses
  \/ Cancel
  \/ Done

Spec == Init /\ [][Next]_vars

\* Every goroutine that can run is eventually run, Work and InsertVisit return
\* (both have timeouts) and the driver eventually emits or closes.
Fairness ==
  /\ WF_vars(EngineStep)
  /\ \A w \in Workers : WF_vars(WorkerStep(w))
  /\ \A x \in Writers : WF_vars(WriterStep(x))
  /\ WF_vars(DriverCloses)

FairSpec == Spec /\ Fairness

-----------------------------------------------------------------------------
\* Safety.

ShutDown == pc \in {"closing", "drainPeers", "drainWrites", "cancelledReturn"}
Holders == {w \in Workers : wpc[w] \in Busy}

\* The inflight map is exactly the peers the workers hold, and no two workers
\* hold the same one: enqueueTask must not queue a peer that is being visited.
InflightIsHeld ==
  /\ ~ShutDown => inflight = {wtask[w] : w \in Holders}
  /\ \A v, w \in Holders : v # w => wtask[v] # wtask[w]

\* A peer is queued, inflight or processed, never two of them, so that nothing
\* visits a peer twice in a crawl ("making sure to not process the same peer twice").
NeverTwice ==
  ~DuplicateProcessing =>
    /\ Queued \cap inflight = {} /\ Queued \cap processed = {} /\ inflight \cap processed = {}
    /\ \A p \in Peers : handled[p] = (IF p \in processed THEN 1 ELSE 0)

\* Every handled result is in exactly one place: queued for writing, held by
\* one writer, or stored.  Stopping may lose it, nothing duplicates it.
Writing(p) == {x \in Writers : xpc[x] = "working" /\ xtask[x] = p}

ResultsConserved ==
  ~DuplicateProcessing =>
    \A p \in Peers :
      handled[p] = stored[p] + (IF p \in writeQueue THEN 1 ELSE 0)
                             + (IF Writing(p) # {} THEN 1 ELSE 0)

\* A task channel is closed only when nothing can need it any more: a peer or
\* a result queued afterwards would never be sent and Run would not return.
ClosedForGood ==
  ~ShutDown =>
    /\ peerTasks = "closed" => PeersExhausted
    /\ writeTasks = "closed" => peerTasks = "closed" /\ writeQueue = {}

\* A queued peer carries every address heard for it, and its priority is that
\* of the merged addresses and not of the last report.
QueueKnowsAddresses ==
  \A k \in Queued : /\ peerQueue[k].addrs = heard[k]
                    /\ peerQueue[k].priority = Priority(heard[k])

\* Parked peers last: a peer without an address to dial is handed to a worker
\* only when no queued peer has one.
ParkedLast ==
  [][\A k \in inflight' \ inflight :
       heard[k] \cap DialAddrs = {} => \A j \in Queued : heard[j] \cap DialAddrs = {}]_vars

\* A run that returns without an error has visited every peer it heard of,
\* stored each once and reports just that.
NaturalEndComplete ==
  pc = "returned" =>
    /\ ~tasksOpen /\ Queued = {}
    /\ ~DuplicateProcessing =>
         /\ processed = discovered
         /\ \A p \in Peers : stored[p] = (IF p \in discovered THEN 1 ELSE 0)
         /\ crawledPeers = Cardinality(discovered)
    /\ connErrs <= crawledPeers

\* Run leaves no goroutine of its pools behind.
PoolsGone ==
  Returned => /\ \A w \in Workers : wpc[w] = "exited"
              /\ \A x \in Writers : xpc[x] = "exited"

-----------------------------------------------------------------------------
\* Liveness.

\* Run returns unless it is cancelled, and a cancelled Run whose two result
\* channels are still open when it starts to drain them returns, too.
RunEnds ==
  /\ <>(pc = "returned" \/ cancelled)
  /\ (pc = "drainPeers" /\ ~peerResultsNil /\ ~writerResultsNil) ~> (pc = "cancelledReturn")

\* "If you want to prematurely stop the engine, cancel the context" (core.go):
\* a cancelled run returns.  It does not: see the README.
CancelReturns == cancelled ~> Returned

-----------------------------------------------------------------------------
\* The engine implements the life of a peer.

StatusOf(p) ==
  IF stored[p] > 0 THEN "stored"
  ELSE IF p \in processed THEN "processed"
  ELSE IF p \in inflight THEN "inflight"
  ELSE IF p \in Queued THEN "queued"
  ELSE "unknown"

Life == INSTANCE PeerLifecycle
          WITH status <- [p \in Peers |-> StatusOf(p)], ended <- pc = "returned"

\* A crawl takes every peer through the life PeerLifecycle allows.
ImplementsLife == Life!LifeSpec
=============================================================================
