------------------------------ MODULE GossipPX ------------------------------
(***************************************************************************)
(* "nebula crawl --gossipsub-px": the engine driven by a CrawlDriver whose *)
(* goroutine monitorGossipSubPX feeds it the peers that remote peers name  *)
(* in a GossipSub PRUNE (peer exchange).  The crawlers announce "busy" and *)
(* "idle" to it, and it closes the task channel once all have been idle    *)
(* for a second.                                                           *)
(*                                                                         *)
(* toEmit is the buffered task channel here.                               *)
(***************************************************************************)
EXTENDS Engine, SequencesExt

CONSTANTS
  Handlers,     \* stream handlers; bound: one inbound stream each
  Exchanges,    \* the non-empty batches of peers a PRUNE may carry
  TaskCap       \* capacity of the task channel: the number of bootstrap peers

ASSUME GossipPXAssumption ==
  /\ Exchanges \subseteq Seq(Task) \ {<<>>}
  /\ TaskCap \in Nat \ {0}
  /\ \A e \in Emissions : Len(e) <= TaskCap

VARIABLES
  stateChan,    \* workerStateChan, as many slots as there are workers
  crawling,     \* workers that have announced "busy" and not yet "idle"
  mpc,          \* monitorGossipSubPX: in its select, emitting, or returned
  busyWorkers,  \* its count
  timerSet,     \* its timer is set to a second, and not to MaxInt64
  batch,        \* peers it has still to send to the task channel
  hpc, found,   \* stream handlers: state and the peers they have read
  spc,          \* driver.shutdown
  pxClosed,     \* pxPeersChan is closed
  crashed       \* a handler has sent on the closed pxPeersChan

pxVars == <<stateChan, crawling, mpc, busyWorkers, timerSet, batch, hpc, found, spc,
            pxClosed, crashed>>
pxAllVars == <<vars, pxVars>>

\* The engine's variables apart from those a driver shares with it.
engineVars == <<pc, ctxVars, tasksOpen, queueVars, chanVars, workerVars, writerVars,
                handlerVars, historyVars>>

PxTypeOK ==
  /\ TypeOK
  /\ Len(toEmit) <= TaskCap
  /\ stateChan \in Seq({"busy", "idle"}) /\ Len(stateChan) <= Cardinality(Workers)
  /\ crawling \subseteq Workers
  /\ mpc \in {"select", "emit", "stopped"}
  /\ busyWorkers \in 0..Cardinality(Workers)
  /\ timerSet \in BOOLEAN
  /\ batch \in Seq(Task) /\ (mpc = "emit" <=> batch # <<>>)
  /\ hpc \in [Handlers -> {"reading", "sending", "done"}]
  /\ found \in [Handlers -> Exchanges \cup {<<>>}]
  /\ spc \in {"none", "hosts", "draining", "done"}
  /\ pxClosed \in BOOLEAN
  /\ crashed \in BOOLEAN

PxInit ==
  /\ Init
  /\ stateChan = <<>> /\ crawling = {}
  /\ mpc = "select" /\ busyWorkers = 0 /\ timerSet = FALSE /\ batch = <<>>
  /\ hpc = [h \in Handlers |-> "reading"] /\ found = [h \in Handlers |-> <<>>]
  /\ spc = "none" /\ pxClosed = FALSE /\ crashed = FALSE

-----------------------------------------------------------------------------
\* Crawler.Work: announce, crawl, and announce again on the way out.  Both
\* sends block while the channel is full.

StateSlotFree == Len(stateChan) < Cardinality(Workers)

AnnounceBusy(w) ==
  /\ wpc[w] = "working" /\ w \notin crawling /\ StateSlotFree
  /\ stateChan' = Append(stateChan, "busy")
  /\ crawling' = crawling \cup {w}
  /\ UNCHANGED <<vars, mpc, busyWorkers, timerSet, batch, hpc, found, spc, pxClosed, crashed>>

AnnounceIdle_DropBug(w) ==
  /\ w \in crawling
  /\ stateChan' = IF StateSlotFree THEN Append(stateChan, "idle") ELSE stateChan
  /\ crawling' = crawling \ {w}
  /\ Work(w)
  /\ UNCHANGED <<mpc, busyWorkers, timerSet, batch, hpc, found, spc, pxClosed, crashed>>
AnnounceIdle(w) ==
  /\ w \in crawling /\ StateSlotFree
  /\ stateChan' = Append(stateChan, "idle")
  /\ crawling' = crawling \ {w}
  /\ Work(w)
  /\ UNCHANGED <<mpc, busyWorkers, timerSet, batch, hpc, found, spc, pxClosed, crashed>>

-----------------------------------------------------------------------------
\* monitorGossipSubPX.

RecvState ==
  /\ mpc = "select" /\ stateChan # <<>>
  /\ busyWorkers' = IF Head(stateChan) = "busy" THEN busyWorkers + 1 ELSE busyWorkers - 1
  /\ timerSet' = (busyWorkers' = 0)
  /\ stateChan' = Tail(stateChan)
  /\ UNCHANGED <<vars, crawling, mpc, batch, hpc, found, spc, pxClosed, crashed>>

\* A second without a change and without a busy worker.  The select may prefer
\* the timer to an announcement that has just come in.
TimerFires ==
  /\ mpc = "select" /\ timerSet
  /\ mpc' = "stopped" /\ driverOpen' = FALSE
  /\ UNCHANGED <<engineVars, toEmit, stateChan, crawling, busyWorkers, timerSet, batch, hpc,
                 found, spc, pxClosed, crashed>>

\* The peers a handler sends on the unbuffered pxPeersChan ...
RecvPx(h) ==
  /\ mpc = "select" /\ hpc[h] = "sending" /\ ~pxClosed
  /\ batch' = found[h]
  /\ mpc' = "emit"
  /\ hpc' = [hpc EXCEPT ![h] = "done"]
  /\ found' = [found EXCEPT ![h] = <<>>]
  /\ UNCHANGED <<vars, stateChan, crawling, busyWorkers, timerSet, spc, pxClosed, crashed>>

\* ... go to the task channel one by one.
EmitPx ==
  /\ mpc = "emit" /\ Len(toEmit) < TaskCap
  /\ toEmit' = Append(toEmit, Head(batch))
  /\ batch' = Tail(batch)
  /\ mpc' = IF batch' = <<>> THEN "select" ELSE "emit"
  /\ UNCHANGED <<engineVars, driverOpen, stateChan, crawling, busyWorkers, timerSet, hpc, found,
                 spc, pxClosed, crashed>>

PxChanClosed_LeaveOpenBug ==
  /\ mpc = "select" /\ pxClosed
  /\ mpc' = "stopped"
  /\ UNCHANGED <<vars, stateChan, crawling, busyWorkers, timerSet, batch, hpc, found, spc,
                 pxClosed, crashed>>
PxChanClosed ==
  /\ mpc = "select" /\ pxClosed
  /\ mpc' = "stopped" /\ driverOpen' = FALSE
  /\ UNCHANGED <<engineVars, toEmit, stateChan, crawling, busyWorkers, timerSet, batch, hpc,
                 found, spc, pxClosed, crashed>>

-----------------------------------------------------------------------------
\* handleGossipSubStream, from its registration until the hosts are closed.

ReadPrune(h) ==
  /\ hpc[h] = "reading" /\ ~pxClosed
  /\ hpc' = [hpc EXCEPT ![h] = "sending"]
  /\ \E b \in Exchanges : found' = [found EXCEPT ![h] = b]
  /\ UNCHANGED <<vars, stateChan, crawling, mpc, busyWorkers, timerSet, batch, spc, pxClosed,
                 crashed>>

StreamReset(h) ==
  /\ hpc[h] = "reading"
  /\ hpc' = [hpc EXCEPT ![h] = "done"]
  /\ UNCHANGED <<vars, stateChan, crawling, mpc, busyWorkers, timerSet, batch, found, spc,
                 pxClosed, crashed>>

\* A send on a closed channel panics, which ends the program.
SendOnClosed(h) ==
  /\ hpc[h] = "sending" /\ pxClosed
  /\ crashed' = TRUE
  /\ UNCHANGED <<vars, stateChan, crawling, mpc, busyWorkers, timerSet, batch, hpc, found, spc,
                 pxClosed>>

-----------------------------------------------------------------------------
\* CrawlDriver.Close: shutdown runs in a goroutine of its own, and Close returns
\* when it is done or ten seconds later.

CallClose ==
  /\ pc \in {"closing", "ending"} /\ spc = "none"
  /\ spc' = "hosts"
  /\ UNCHANGED <<vars, stateChan, crawling, mpc, busyWorkers, timerSet, batch, hpc, found,
                 pxClosed, crashed>>

HostsClosed ==
  /\ spc = "hosts"
  /\ spc' = "draining" /\ pxClosed' = TRUE
  /\ UNCHANGED <<vars, stateChan, crawling, mpc, busyWorkers, timerSet, batch, hpc, found, crashed>>

\* "for range d.tasksChan", from the start of shutdown.
DrainTask_HostsFirstBug ==
  /\ spc = "draining" /\ mpc = "stopped" /\ toEmit # <<>>
  /\ toEmit' = Tail(toEmit)
  /\ UNCHANGED <<engineVars, driverOpen, pxVars>>
DrainTask ==
  /\ spc \in {"hosts", "draining"} /\ toEmit # <<>>
  /\ toEmit' = Tail(toEmit)
  /\ UNCHANGED <<engineVars, driverOpen, pxVars>>

TasksDrained ==
  /\ spc = "draining" /\ toEmit = <<>> /\ ~driverOpen
  /\ spc' = "done"
  /\ UNCHANGED <<vars, stateChan, crawling, mpc, busyWorkers, timerSet, batch, hpc, found,
                 pxClosed, crashed>>

\* The engine is blocked in driver.Close until CallClose, and then for as long
\* as Close takes.
PxEngineStep ==
  /\ pc \in {"closing", "ending"} => spc # "none"
  /\ EngineStep
  /\ UNCHANGED pxVars

-----------------------------------------------------------------------------
MonitorStep == RecvState \/ EmitPx \/ PxChanClosed \/ (\E h \in Handlers : RecvPx(h))
ShutdownStep == CallClose \/ HostsClosed \/ DrainTask \/ TasksDrained
PxWorkerStep(w) == AnnounceBusy(w) \/ AnnounceIdle(w) \/ (WorkerExit(w) /\ UNCHANGED pxVars)
PxWriterStep(x) == WriterStep(x) /\ UNCHANGED pxVars

PxNext ==
  /\ ~crashed
  /\ \/ PxEngineStep
     \/ MonitorStep \/ TimerFires
     \/ ShutdownStep
     \/ \E h \in Handlers : ReadPrune(h) \/ StreamReset(h) \/ SendOnClosed(h)
     \/ \E w \in Workers : PxWorkerStep(w)
     \/ \E x \in Writers : PxWriterStep(x)
     \/ Cancel /\ UNCHANGED pxVars

PxSpec == PxInit /\ [][PxNext]_pxAllVars

\* Goroutines that can run are run; a set timer fires unless it is set anew,
\* and the monitor's select passes over no ready case for ever.
PxFairness ==
  /\ WF_pxAllVars(~crashed /\ PxEngineStep)
  /\ WF_pxAllVars(~crashed /\ (RecvState \/ EmitPx))
  /\ SF_pxAllVars(~crashed /\ PxChanClosed)
  /\ \A h \in Handlers : SF_pxAllVars(~crashed /\ RecvPx(h))
  /\ WF_pxAllVars(~crashed /\ TimerFires)
  /\ WF_pxAllVars(~crashed /\ ShutdownStep)
  /\ \A h \in Handlers : WF_pxAllVars(~crashed /\ SendOnClosed(h))
  /\ \A w \in Workers : WF_pxAllVars(~crashed /\ PxWorkerStep(w))
  /\ \A x \in Writers : WF_pxAllVars(~crashed /\ PxWriterStep(x))

PxFairSpec == PxSpec /\ PxFairness

-----------------------------------------------------------------------------
\* The monitor's count and the announcements on their way add up to the workers
\* that are crawling: none is lost when the channel is full, and the timer is
\* set only on a count of zero.
Announced(s) == Cardinality({i \in DOMAIN stateChan : stateChan[i] = s})

BusyAccounting ==
  /\ PxTypeOK
  /\ mpc # "stopped" =>
       busyWorkers + Announced("busy") = Cardinality(crawling) + Announced("idle")
  /\ timerSet => busyWorkers = 0

\* No cycle of waiting: a crawler that waits for the monitor, which waits for
\* the engine, which waits for nobody, gets through, also when the engine has
\* stopped to receive tasks and driver.shutdown empties the channel instead.
WorkersGetThrough ==
  \A w \in Workers : wpc[w] = "working" ~> (wpc[w] = "publishing" \/ mpc = "stopped" \/ crashed)

\* driver.shutdown needs no timeout: it frees a monitor that is blocked on the
\* task channel, which then sees pxPeersChan closed and closes the task channel.
ShutdownEnds == spc = "hosts" ~> (spc = "done" \/ crashed)
=============================================================================
