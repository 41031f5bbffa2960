------------------------------ MODULE Monitor ------------------------------
(***************************************************************************)
(* "nebula monitor": the engine with DuplicateProcessing, driven by        *)
(* DialDriver.monitorDatabase, which every ten seconds emits the peers     *)
(* whose session is due.  A peer stays due until a visit to it is stored,  *)
(* so it is emitted again while it is queued, dialed or being written.     *)
(***************************************************************************)
EXTENDS Engine, FiniteSetsExt, SequencesExt

CONSTANTS
  AddrsOf,      \* AddrsOf[p]: the addresses the database holds for p
  MaxRounds     \* bound: successful queries of one run

ASSUME MonitorAssumption ==
  /\ AddrsOf \in [Peers -> SUBSET Addrs]
  /\ MaxRounds \in Nat

VARIABLES
  dpc,      \* where monitorDatabase is
  due,      \* peers with next_visit_due_at in the past
  rounds    \* history: successful queries

monVars == <<dpc, due, rounds>>
monAllVars == <<vars, monVars>>

MonTypeOK ==
  /\ TypeOK
  /\ dpc \in {"query", "emit", "tick", "stopped"}
  /\ due \subseteq Peers
  /\ rounds \in 0..MaxRounds

\* NewEngine has called Tasks, so monitorDatabase is past its start gate.
MonInit ==
  /\ Init
  /\ dpc = "query"
  /\ due \in SUBSET Peers
  /\ rounds = 0

\* SelectPeersToProbe succeeds: the due peers, in any order ...
QuerySucceeds ==
  /\ dpc = "query" /\ rounds < MaxRounds
  /\ \E order \in SetToSeqs(due) :
       toEmit' = [i \in DOMAIN order |-> [peer |-> order[i], addrs |-> AddrsOf[order[i]]]]
  /\ dpc' = "emit"
  /\ rounds' = rounds + 1
  /\ UNCHANGED <<pc, ctxVars, driverOpen, tasksOpen, queueVars, chanVars, workerVars,
                 writerVars, handlerVars, historyVars, due>>

\* ... or fails, in particular when Close has cancelled its context.
QueryFails ==
  /\ dpc = "query"
  /\ dpc' = "tick"
  /\ UNCHANGED <<vars, due, rounds>>

\* All tasks are emitted, or Close interrupts the send of the next one.
EmitEnds_BlockingSendBug ==
  /\ dpc = "emit" /\ toEmit = <<>>
  /\ dpc' = "tick"
  /\ UNCHANGED <<vars, due, rounds>>
EmitEnds ==
  /\ dpc = "emit" /\ (toEmit = <<>> \/ ShutDown)
  /\ toEmit' = <<>>
  /\ dpc' = "tick"
  /\ UNCHANGED <<pc, ctxVars, driverOpen, tasksOpen, queueVars, chanVars, workerVars,
                 writerVars, handlerVars, historyVars, due, rounds>>

\* Ten seconds have passed.
Tick ==
  /\ dpc = "tick" /\ rounds < MaxRounds
  /\ dpc' = "query"
  /\ UNCHANGED <<vars, due, rounds>>

\* Close has been called: monitorDatabase returns and closes done.
Stop ==
  /\ dpc = "tick" /\ ShutDown
  /\ dpc' = "stopped"
  /\ UNCHANGED <<vars, due, rounds>>

\* The rest of DialDriver.Close, in the engine's goroutine: wait for
\* monitorDatabase, then close the task channel.
CloseTaskQueue_NoWaitBug == pc = "closing" /\ DriverCloses /\ UNCHANGED monVars
CloseTaskQueue == pc = "closing" /\ dpc = "stopped" /\ DriverCloses /\ UNCHANGED monVars

\* The engine receives a task only while monitorDatabase is sending, and is
\* blocked in driver.Close until the task channel is closed.
MonEngineStep ==
  /\ pc = "closing" => ~driverOpen
  /\ EngineStep
  /\ toEmit' # toEmit => dpc = "emit"
  /\ UNCHANGED monVars

\* InsertVisit moves the session's next visit into the future, unless it fails.
MonWrite(x) ==
  /\ Write(x)
  /\ due' \in {due, due \ {xtask[x]}}
  /\ UNCHANGED <<dpc, rounds>>

BecomeDue(p) ==
  /\ p \notin due /\ ~ShutDown /\ rounds < MaxRounds
  /\ due' = due \cup {p}
  /\ UNCHANGED <<vars, dpc, rounds>>

DriverStep == QuerySucceeds \/ QueryFails \/ EmitEnds \/ Tick \/ Stop
MonWorkerStep(w) == WorkerStep(w) /\ UNCHANGED monVars
MonWriterStep(x) == MonWrite(x) \/ (WriterExit(x) /\ UNCHANGED monVars)

MonNext ==
  \/ MonEngineStep
  \/ CloseTaskQueue
  \/ DriverStep
  \/ \E w \in Workers : MonWorkerStep(w)
  \/ \E x \in Writers : MonWriterStep(x)
  \/ \E p \in Peers : BecomeDue(p)
  \/ Cancel /\ UNCHANGED monVars
  \/ Done /\ UNCHANGED monVars

MonSpec == MonInit /\ [][MonNext]_monAllVars

\* The goroutines run, dials and writes return, and Go's select does not pass
\* over a done context for ever (CtxDone in the engine, Stop in monitorDatabase).
MonFairness ==
  /\ WF_monAllVars(MonEngineStep)
  /\ SF_monAllVars(CtxDone /\ UNCHANGED monVars)
  /\ WF_monAllVars(CloseTaskQueue)
  /\ WF_monAllVars(DriverStep)
  /\ SF_monAllVars(Stop)
  /\ \A w \in Workers : WF_monAllVars(MonWorkerStep(w))
  /\ \A x \in Writers : WF_monAllVars(MonWriterStep(x))

MonFairSpec == MonSpec /\ MonFairness

-----------------------------------------------------------------------------
\* A peer the driver has handed to the engine for probing is dialed unless the
\* run is cancelled, however often it is emitted meanwhile.  (With fewer workers
\* than due peers one that is parked can be overtaken for ever: Peek prefers
\* the others.)
TaskReachesWorker ==
  \A p \in Peers :
    (\E i \in DOMAIN toEmit : toEmit[i].peer = p) ~> (p \in inflight \/ cancelled)

\* Cancelling a monitor run ends it: DialDriver.Close comes back although it
\* waits for a goroutine that may be in a query or a send, and the drain ends
\* because the worker pool has never stopped before.
MonitorStops == cancelled ~> Returned

\* DialDriver.Close returns, and the task channel is closed, only after
\* monitorDatabase has stopped: it never sends on a closed channel.
NoSendAfterClose == MonTypeOK /\ ((~driverOpen \/ Returned) => dpc = "stopped")
=============================================================================
