---------------------------- MODULE EngineProofs ----------------------------
(***************************************************************************)
(* Proofs about the engine, for any number of peers, workers and writers,  *)
(* any topology, any limit and both processing modes: types and the        *)
(* inflight set, how a run ends, what the engine keeps of a peer, and the  *)
(* life it takes a peer through.                                           *)
(***************************************************************************)
EXTENDS Engine, FiniteSetTheorems, TLAPS

-----------------------------------------------------------------------------
\* Facts about the bookkeeping operators.

\* What the driver emits and what a visit reveals are both functions from
\* distinct peers to sets of addresses.
LEMMA TaskIsNeighbors ==
  ASSUME NEW t \in Task
  PROVE  [k \in {t.peer} |-> t.addrs] \in Neighbors
<1>1. {t.peer} \in SUBSET Peers
  BY DEF Task
<1>2. [k \in {t.peer} |-> t.addrs] \in [{t.peer} -> SUBSET Addrs]
  BY DEF Task
<1> QED
  BY <1>1, <1>2 DEF Neighbors

LEMMA NeighborsType ==
  ASSUME NEW new \in Neighbors
  PROVE  DOMAIN new \subseteq Peers /\ \A k \in DOMAIN new : new[k] \subseteq Addrs
<1>1. PICK D \in SUBSET Peers : new \in [D -> SUBSET Addrs]
  BY DEF Neighbors
<1> QED
  BY <1>1

\* enqueueTask keeps the queue well-formed, adds just the accepted peers and
\* leaves the entries of all others alone.
LEMMA EnqueueType ==
  ASSUME TypeOK, NEW new \in Neighbors, NEW infl, NEW proc
  PROVE  LET q == Enqueue(new, infl, proc)
         IN  /\ DOMAIN q = Queued \cup Accepted(new, infl, proc)
             /\ DOMAIN q \subseteq Peers
             /\ q \in [DOMAIN q -> [addrs : SUBSET Addrs, priority : {0, 1}]]
<1> DEFINE add == Accepted(new, infl, proc)
           q == Enqueue(new, infl, proc)
<1>1. DOMAIN q = Queued \cup add
  BY DEF Enqueue
<1>2. Queued \subseteq Peers /\ add \subseteq Peers
  BY NeighborsType DEF TypeOK, Queued, Accepted
<1>3. ASSUME NEW k \in DOMAIN q
      PROVE  q[k] \in [addrs : SUBSET Addrs, priority : {0, 1}]
  <2>1. CASE k \in add
    <3>1. Merged(k, new) \subseteq Addrs
      BY <2>1, NeighborsType DEF Merged, Accepted, TypeOK, Queued
    <3>2. Priority(Merged(k, new)) \in {0, 1}
      BY DEF Priority
    <3> QED
      BY <2>1, <3>1, <3>2, <1>1, <1>3 DEF Enqueue
  <2>2. CASE k \notin add
    <3>1. k \in Queued
      BY <1>1, <1>3, <2>2
    <3>2. q[k] = peerQueue[k]
      BY <2>2, <3>1 DEF Enqueue
    <3> QED
      BY <3>1, <3>2 DEF TypeOK, Queued
  <2> QED
    BY <2>1, <2>2
<1>4. q \in [DOMAIN q -> [addrs : SUBSET Addrs, priority : {0, 1}]]
  <2>1. q = [k \in DOMAIN q |-> q[k]]
    BY DEF Enqueue
  <2> QED
    BY <2>1, <1>3
<1> QED
  BY <1>1, <1>2, <1>4

LEMMA HearType ==
  ASSUME TypeOK, NEW new \in Neighbors, NEW infl, NEW proc
  PROVE  Hear(new, infl, proc) \in [Peers -> SUBSET Addrs]
BY NeighborsType DEF Hear, Accepted, TypeOK

-----------------------------------------------------------------------------
\* Every variable keeps its type.

\* A busy worker or writer holds a peer and not NoPeer: without this the result
\* it publishes need not be one of Outcomes, and TypeOK is not inductive.
TasksHeld ==
  /\ \A w \in Workers : wpc[w] \in Busy => wtask[w] \in Peers
  /\ \A x \in Writers : xpc[x] \in Busy => xtask[x] \in Peers

TypeInv == TypeOK /\ TasksHeld

LEMMA InitType == Init => TypeInv
<1> SUFFICES ASSUME Init PROVE TypeInv
  OBVIOUS
<1> USE DEF Init
<1>1. toEmit \in Seq(Task)
  BY EngineAssumption
<1>2. DOMAIN peerQueue \subseteq Peers
      /\ peerQueue \in [DOMAIN peerQueue -> [addrs : SUBSET Addrs, priority : {0, 1}]]
  OBVIOUS
<1>3. TypeOK
  BY <1>1, <1>2 DEF TypeOK, PC, PoolState
<1>4. TasksHeld
  BY DEF TasksHeld, Busy
<1> QED
  BY <1>3, <1>4 DEF TypeInv

LEMMA NextType == TypeInv /\ [Next]_vars => TypeInv'
<1> SUFFICES ASSUME TypeInv, [Next]_vars PROVE TypeInv'
  OBVIOUS
<1> USE DEF TypeInv, TypeOK, TasksHeld, PC, PoolState, Busy, ctxVars, driverVars, queueVars,
            chanVars, workerVars, writerVars, handlerVars, historyVars
<1>1. CASE LoopTurn
  BY <1>1 DEF LoopTurn
<1>2. CASE NaturalEnd
  BY <1>2 DEF NaturalEnd
<1>22. CASE Return
  BY <1>22 DEF Return
<1>3. CASE RecvTask
  <2>1. Head(toEmit) \in Task /\ Tail(toEmit) \in Seq(Task)
    BY <1>3 DEF RecvTask
  <2> DEFINE new == [k \in {Head(toEmit).peer} |-> Head(toEmit).addrs]
  <2>2. new \in Neighbors
    BY <2>1, TaskIsNeighbors
  <2>3. peerQueue' = Enqueue(new, inflight, processed)
        /\ heard' = Hear(new, inflight, processed)
        /\ discovered' = discovered \cup DOMAIN new
    BY <1>3 DEF RecvTask
  <2>4. DOMAIN peerQueue' \subseteq Peers
        /\ peerQueue' \in [DOMAIN peerQueue' -> [addrs : SUBSET Addrs, priority : {0, 1}]]
    BY <2>2, <2>3, EnqueueType
  <2>5. heard' \in [Peers -> SUBSET Addrs] /\ discovered' \subseteq Peers
    BY <2>2, <2>3, HearType, NeighborsType
  <2> HIDE DEF new
  <2> QED
    BY <1>3, <2>1, <2>4, <2>5 DEF RecvTask
<1>4. CASE TasksClosed
  BY <1>4 DEF TasksClosed
<1>5. ASSUME NEW w \in Workers, SendPeerTask(w) PROVE TypeInv'
  <2>1. PICK k \in PeekPeers :
          /\ peerQueue' = [j \in Queued \ {k} |-> peerQueue[j]]
          /\ inflight' = inflight \cup {k}
          /\ wtask' = [wtask EXCEPT ![w] = k]
          /\ heard' = [heard EXCEPT ![k] = {}]
    BY <1>5 DEF SendPeerTask
  <2>2. k \in Peers
    BY DEF PeekPeers, Queued
  <2>3. DOMAIN peerQueue' \subseteq Peers
        /\ peerQueue' \in [DOMAIN peerQueue' -> [addrs : SUBSET Addrs, priority : {0, 1}]]
    BY <2>1 DEF Queued
  <2> QED
    BY <1>5, <2>1, <2>2, <2>3 DEF SendPeerTask
<1>6. ASSUME NEW x \in Writers, SendWriteTask(x) PROVE TypeInv'
  BY <1>6 DEF SendWriteTask, DropResult
<1>7. ASSUME NEW w \in Workers, PeerResult(w) PROVE TypeInv'
  <2> DEFINE p == wtask[w]
             infl == inflight \ {p}
             proc == IF DuplicateProcessing THEN processed ELSE processed \cup {p}
  <2>1. p \in Peers
    BY <1>7 DEF PeerResult, HandlePeerResult
  <2>2. PICK o \in Outcomes[p] :
          /\ inflight' = infl
          /\ processed' = proc
          /\ writeQueue' = writeQueue \cup {p}
          /\ handled' = [handled EXCEPT ![p] = @ + 1]
          /\ crawledPeers' = crawledPeers + 1
          /\ connErrs' = IF o.connErr THEN connErrs + 1 ELSE connErrs
          /\ peerQueue' = Enqueue(o.neighbors, infl, proc)
          /\ heard' = Hear(o.neighbors, infl, proc)
          /\ discovered' = discovered \cup DOMAIN o.neighbors
    BY <1>7 DEF PeerResult, HandlePeerResult
  <2>3. o.neighbors \in Neighbors
    BY <2>1, EngineAssumption
  <2>4. DOMAIN peerQueue' \subseteq Peers
        /\ peerQueue' \in [DOMAIN peerQueue' -> [addrs : SUBSET Addrs, priority : {0, 1}]]
    BY <2>2, <2>3, EnqueueType
  <2>5. heard' \in [Peers -> SUBSET Addrs] /\ discovered' \subseteq Peers
    BY <2>2, <2>3, HearType, NeighborsType
  <2>6. inflight' \subseteq Peers /\ processed' \subseteq Peers /\ writeQueue' \subseteq Peers
    BY <2>1, <2>2
  <2>7. handled' \in [Peers -> Nat] /\ crawledPeers' \in Nat /\ connErrs' \in Nat
    BY <2>1, <2>2
  <2>8. wpc' = [wpc EXCEPT ![w] = "idle"] /\ wtask' = [wtask EXCEPT ![w] = NoPeer]
        /\ pc' = "turn" /\ UNCHANGED <<ctxVars, driverVars, chanVars, writerVars, stored>>
    BY <1>7 DEF PeerResult, HandlePeerResult
  <2> HIDE DEF p, infl, proc
  <2>9. TypeOK'
    BY <2>4, <2>5, <2>6, <2>7, <2>8
  <2>10. TasksHeld'
    BY <2>8
  <2> QED
    BY <2>9, <2>10
<1>8. CASE PeerResultsClosed
  BY <1>8 DEF PeerResultsClosed
<1>9. ASSUME NEW x \in Writers, WriteResult(x) PROVE TypeInv'
  BY <1>9 DEF WriteResult
<1>10. CASE WriterResultsClosed
  BY <1>10 DEF WriterResultsClosed
<1>11. CASE CtxDone
  BY <1>11 DEF CtxDone
<1>12. CASE CloseTasks
  BY <1>12 DEF CloseTasks
<1>13. ASSUME NEW w \in Workers, DropPeerResult(w) PROVE TypeInv'
  BY <1>13 DEF DropPeerResult
<1>14. CASE PeersDrained
  BY <1>14 DEF PeersDrained
<1>15. ASSUME NEW x \in Writers, DropWriteResult(x) PROVE TypeInv'
  BY <1>15 DEF DropWriteResult
<1>16. CASE WritesDrained
  BY <1>16 DEF WritesDrained
<1>17. CASE DriverCloses
  BY <1>17 DEF DriverCloses
<1>18. ASSUME NEW w \in Workers, WorkerStep(w) PROVE TypeInv'
  <2>1. CASE Work(w)
    BY <2>1 DEF Work
  <2>2. CASE WorkerExit(w)
    BY <2>2 DEF WorkerExit
  <2> QED
    BY <1>18, <2>1, <2>2 DEF WorkerStep
<1>19. ASSUME NEW x \in Writers, WriterStep(x) PROVE TypeInv'
  <2>1. CASE Write(x)
    BY <2>1 DEF Write
  <2>2. CASE WriterExit(x)
    BY <2>2 DEF WriterExit
  <2> QED
    BY <1>19, <2>1, <2>2 DEF WriterStep
<1>20. CASE Cancel
  BY <1>20 DEF Cancel
<1>21. CASE UNCHANGED vars
  BY <1>21 DEF vars
<1> QED
  BY <1>1, <1>2, <1>3, <1>4, <1>5, <1>6, <1>7, <1>8, <1>9, <1>10, <1>11, <1>12, <1>13, <1>14,
     <1>15, <1>16, <1>17, <1>18, <1>19, <1>20, <1>21, <1>22 DEF Next, EngineStep, Done

\* The type invariant of the engine holds in every state of every run.
THEOREM TypeCorrect == Spec => []TypeOK
<1>1. Spec => []TypeInv
  BY InitType, NextType, PTL DEF Spec
<1>2. TypeInv => TypeOK
  BY DEF TypeInv
<1> QED
  BY <1>1, <1>2, PTL

-----------------------------------------------------------------------------
\* The schedule: where a peer is between its discovery and its result.

\* The inflight map follows the workers only because the queue never holds a
\* peer that is inflight already.
HeldInv == InflightIsHeld /\ Queued \cap inflight = {}

LEMMA AcceptedQueued ==
  ASSUME NEW new, NEW infl, NEW proc, peerQueue' = Enqueue(new, infl, proc)
  PROVE  Queued' = Queued \cup Accepted(new, infl, proc)
BY DEF Enqueue, Queued

LEMMA InitHeld == Init => HeldInv
BY DEF Init, HeldInv, InflightIsHeld, Queued, Holders, Busy, ShutDown

LEMMA NextHeld == TypeInv /\ HeldInv /\ [Next]_vars => HeldInv'
<1> SUFFICES ASSUME TypeInv, HeldInv, [Next]_vars PROVE HeldInv'
  OBVIOUS
<1> USE DEF HeldInv, InflightIsHeld, Holders, Busy, ShutDown, ctxVars, driverVars, queueVars,
            chanVars, workerVars, writerVars, handlerVars, historyVars
<1>w. wpc \in [Workers -> PoolState] /\ wtask \in [Workers -> Peers \cup {NoPeer}]
  BY DEF TypeInv, TypeOK
<1>1. CASE LoopTurn
  BY <1>1 DEF LoopTurn, Queued
<1>2. CASE NaturalEnd
  BY <1>2 DEF NaturalEnd, Queued
<1>22. CASE Return
  BY <1>22 DEF Return, Queued
<1>3. CASE RecvTask
  <2> DEFINE new == [k \in {Head(toEmit).peer} |-> Head(toEmit).addrs]
  <2>1. peerQueue' = Enqueue(new, inflight, processed)
        /\ UNCHANGED <<inflight, wpc, wtask>> /\ pc = "select" /\ pc' = "turn"
    BY <1>3 DEF RecvTask
  <2>2. Queued' \cap inflight = {}
    BY <2>1, AcceptedQueued DEF Accepted
  <2> QED
    BY <2>1, <2>2
<1>4. CASE TasksClosed
  BY <1>4 DEF TasksClosed, Queued
<1>5. ASSUME NEW w \in Workers, SendPeerTask(w) PROVE HeldInv'
  <2>1. PICK k \in PeekPeers :
          /\ peerQueue' = [j \in Queued \ {k} |-> peerQueue[j]]
          /\ inflight' = inflight \cup {k}
          /\ wtask' = [wtask EXCEPT ![w] = k]
    BY <1>5 DEF SendPeerTask
  <2>2. wpc' = [wpc EXCEPT ![w] = "working"] /\ wpc[w] = "idle"
        /\ pc = "select" /\ pc' = "turn"
    BY <1>5 DEF SendPeerTask
  <2>3. Queued' = Queued \ {k}
    BY <2>1 DEF Queued
  <2>4. k \in Queued /\ k \notin inflight
    BY DEF PeekPeers
  <2>5. Holders' = Holders \cup {w} /\ w \notin Holders
    BY <1>w, <2>2
  <2>6. \A v \in Holders : wtask'[v] = wtask[v] /\ wtask[v] # k
    BY <1>w, <2>1, <2>2, <2>4, <2>5
  <2>7. wtask'[w] = k
    BY <1>w, <2>1
  <2> QED
    BY <2>1, <2>2, <2>3, <2>4, <2>5, <2>6, <2>7
<1>6. ASSUME NEW x \in Writers, SendWriteTask(x) PROVE HeldInv'
  BY <1>6 DEF SendWriteTask, Queued
<1>7. ASSUME NEW w \in Workers, PeerResult(w) PROVE HeldInv'
  <2> DEFINE p == wtask[w]
             infl == inflight \ {p}
             proc == IF DuplicateProcessing THEN processed ELSE processed \cup {p}
  <2>1. PICK o \in Outcomes[p] :
          inflight' = infl /\ peerQueue' = Enqueue(o.neighbors, infl, proc)
    BY <1>7 DEF PeerResult, HandlePeerResult
  <2>2. wpc' = [wpc EXCEPT ![w] = "idle"] /\ wpc[w] = "publishing"
        /\ wtask' = [wtask EXCEPT ![w] = NoPeer] /\ pc = "select" /\ pc' = "turn"
    BY <1>7 DEF PeerResult, HandlePeerResult
  <2>3. Queued' \cap inflight' = {}
    BY <2>1, AcceptedQueued DEF Accepted
  <2>4. Holders' = Holders \ {w} /\ w \in Holders
    BY <1>w, <2>2
  <2>5. \A v \in Holders' : wtask'[v] = wtask[v] /\ wtask[v] # p
    BY <1>w, <2>2, <2>4
  <2> QED
    BY <2>1, <2>2, <2>3, <2>4, <2>5
<1>8. CASE PeerResultsClosed
  BY <1>8 DEF PeerResultsClosed, Queued
<1>9. ASSUME NEW x \in Writers, WriteResult(x) PROVE HeldInv'
  BY <1>9 DEF WriteResult, Queued
<1>10. CASE WriterResultsClosed
  BY <1>10 DEF WriterResultsClosed, Queued
<1>11. CASE CtxDone
  BY <1>11 DEF CtxDone, Queued
<1>12. CASE CloseTasks
  BY <1>12 DEF CloseTasks, Queued
<1>13. ASSUME NEW w \in Workers, DropPeerResult(w) PROVE HeldInv'
  BY <1>w, <1>13 DEF DropPeerResult, Queued
<1>14. CASE PeersDrained
  BY <1>14 DEF PeersDrained, Queued
<1>15. ASSUME NEW x \in Writers, DropWriteResult(x) PROVE HeldInv'
  BY <1>15 DEF DropWriteResult, Queued
<1>16. CASE WritesDrained
  BY <1>16 DEF WritesDrained, Queued
<1>17. CASE DriverCloses
  BY <1>17 DEF DriverCloses, Queued
<1>18. ASSUME NEW w \in Workers, WorkerStep(w) PROVE HeldInv'
  <2>1. UNCHANGED <<pc, inflight, wtask, peerQueue>>
    BY <1>18 DEF WorkerStep, Work, WorkerExit
  <2>2. Holders' = Holders
    BY <1>w, <1>18 DEF WorkerStep, Work, WorkerExit
  <2> QED
    BY <2>1, <2>2 DEF Queued
<1>19. ASSUME NEW x \in Writers, WriterStep(x) PROVE HeldInv'
  BY <1>19 DEF WriterStep, Write, WriterExit, Queued
<1>20. CASE Cancel
  BY <1>20 DEF Cancel, Queued
<1>21. CASE UNCHANGED vars
  BY <1>21 DEF vars, Queued
<1> QED
  BY <1>1, <1>2, <1>3, <1>4, <1>5, <1>6, <1>7, <1>8, <1>9, <1>10, <1>11, <1>12, <1>13, <1>14,
     <1>15, <1>16, <1>17, <1>18, <1>19, <1>20, <1>21, <1>22 DEF Next, EngineStep, Done

\* The inflight map is exactly what the workers hold, and no two workers ever
\* hold the same peer: the guards of enqueueTask suffice for that.
THEOREM InflightCorrect == Spec => []InflightIsHeld
<1>1. Spec => [](TypeInv /\ HeldInv)
  BY InitType, NextType, InitHeld, NextHeld, PTL DEF Spec
<1>2. HeldInv => InflightIsHeld
  BY DEF HeldInv
<1> QED
  BY <1>1, <1>2, PTL

-----------------------------------------------------------------------------
\* No peer twice.

LEMMA InitOnce == Init => NeverTwice
BY DEF Init, NeverTwice, Queued

LEMMA NextOnce == TypeInv /\ HeldInv /\ NeverTwice /\ [Next]_vars => NeverTwice'
<1> SUFFICES ASSUME TypeInv, HeldInv, NeverTwice, [Next]_vars, ~DuplicateProcessing
             PROVE  NeverTwice'
  BY DEF NeverTwice
<1> USE DEF NeverTwice, ctxVars, driverVars, queueVars, chanVars, workerVars, writerVars,
            handlerVars, historyVars
<1>1. CASE RecvTask
  <2> DEFINE new == [k \in {Head(toEmit).peer} |-> Head(toEmit).addrs]
  <2>1. peerQueue' = Enqueue(new, inflight, processed)
        /\ UNCHANGED <<inflight, processed, handled>>
    BY <1>1 DEF RecvTask
  <2>2. Queued' \cap inflight = {} /\ Queued' \cap processed = {}
    BY <2>1, AcceptedQueued DEF Accepted
  <2> QED
    BY <2>1, <2>2
<1>2. ASSUME NEW w \in Workers, SendPeerTask(w) PROVE NeverTwice'
  <2>1. PICK k \in PeekPeers :
          /\ peerQueue' = [j \in Queued \ {k} |-> peerQueue[j]]
          /\ inflight' = inflight \cup {k}
    BY <1>2 DEF SendPeerTask
  <2>2. UNCHANGED <<processed, handled>>
    BY <1>2 DEF SendPeerTask
  <2>3. Queued' = Queued \ {k}
    BY <2>1 DEF Queued
  <2> QED
    BY <2>1, <2>2, <2>3 DEF PeekPeers
<1>3. ASSUME NEW w \in Workers, PeerResult(w) PROVE NeverTwice'
  <2> DEFINE p == wtask[w]
             infl == inflight \ {p}
             proc == processed \cup {p}
  <2>1. PICK o \in Outcomes[p] :
          /\ inflight' = infl /\ processed' = proc
          /\ handled' = [handled EXCEPT ![p] = @ + 1]
          /\ peerQueue' = Enqueue(o.neighbors, infl, proc)
    BY <1>3 DEF PeerResult, HandlePeerResult
  <2>2. p \in inflight
    BY <1>3 DEF PeerResult, HandlePeerResult, HeldInv, InflightIsHeld, Holders, Busy, ShutDown
  <2>3. p \notin Queued /\ p \notin processed /\ p \in Peers /\ handled \in [Peers -> Nat]
    BY <2>2 DEF HeldInv, TypeInv, TypeOK
  <2>4. handled[p] = 0
    BY <2>3
  <2>5. Queued' = Queued \cup Accepted(o.neighbors, infl, proc)
    BY <2>1, AcceptedQueued
  <2>6. Queued' \cap inflight' = {} /\ Queued' \cap processed' = {}
    BY <2>1, <2>3, <2>5 DEF HeldInv, Accepted
  <2>7. inflight' \cap processed' = {}
    BY <2>1
  <2>8. \A q \in Peers : handled'[q] = (IF q \in processed' THEN 1 ELSE 0)
    BY <2>1, <2>3, <2>4
  <2> QED
    BY <2>6, <2>7, <2>8
<1>4. CASE UNCHANGED <<peerQueue, inflight, processed, handled>>
  BY <1>4 DEF Queued
<1>5. ASSUME NEW w \in Workers, DropPeerResult(w) \/ WorkerStep(w) PROVE NeverTwice'
  BY <1>4, <1>5 DEF DropPeerResult, WorkerStep, Work, WorkerExit
<1>6. ASSUME NEW x \in Writers,
             SendWriteTask(x) \/ WriteResult(x) \/ DropWriteResult(x) \/ WriterStep(x)
      PROVE  NeverTwice'
  BY <1>4, <1>6 DEF SendWriteTask, WriteResult, DropWriteResult, WriterStep, Write, WriterExit
<1>7. CASE \/ LoopTurn \/ NaturalEnd \/ Return
           \/ TasksClosed \/ PeerResultsClosed \/ WriterResultsClosed
  BY <1>4, <1>7
     DEF LoopTurn, NaturalEnd, Return, TasksClosed, PeerResultsClosed, WriterResultsClosed
<1>8. CASE CtxDone \/ CloseTasks \/ PeersDrained \/ WritesDrained
  BY <1>4, <1>8 DEF CtxDone, CloseTasks, PeersDrained, WritesDrained
<1>9. CASE DriverCloses \/ Cancel \/ UNCHANGED vars
  BY <1>4, <1>9 DEF DriverCloses, Cancel, vars
<1> QED
  BY <1>1, <1>2, <1>3, <1>5, <1>6, <1>7, <1>8, <1>9 DEF Next, EngineStep, Done

\* A crawl processes no peer twice, whatever its neighbours report and in
\* whatever order the results come in.
THEOREM NeverTwiceCorrect == Spec => []NeverTwice
<1>1. Spec => [](TypeInv /\ HeldInv /\ NeverTwice)
  BY InitType, NextType, InitHeld, NextHeld, InitOnce, NextOnce, PTL DEF Spec
<1> QED
  BY <1>1, PTL
-----------------------------------------------------------------------------
(***************************************************************************)
(* How a run ends: when the task channels are closed, and what has become  *)
(* of the goroutines and of the peers by then.                             *)
(***************************************************************************)

\* The task channels.

LEMMA InitClosed == Init => ClosedForGood
BY DEF Init, ClosedForGood

LEMMA NextClosed == TypeInv /\ HeldInv /\ ClosedForGood /\ [Next]_vars => ClosedForGood'
<1> SUFFICES ASSUME TypeInv, HeldInv, ClosedForGood, [Next]_vars PROVE ClosedForGood'
  OBVIOUS
<1> USE DEF ClosedForGood, PeersExhausted, ShutDown, ctxVars, driverVars, queueVars,
            chanVars, workerVars, writerVars, handlerVars, historyVars
<1>1. CASE LoopTurn
  <2>1. UNCHANGED <<peerQueue, inflight, tasksOpen, writeQueue>> /\ pc = "turn" /\ pc' = "select"
        /\ peerTasks' = (IF PeersExhausted THEN "closed" ELSE peerTasks)
    BY <1>1 DEF LoopTurn
  <2>2. peerTasks' = "closed" => PeersExhausted'
    BY <2>1 DEF Queued
  <2>3. writeTasks' = "closed" => peerTasks' = "closed" /\ writeQueue' = {}
    <3>1. CASE WritesExhausted(peerTasks' = "closed")
      BY <2>1, <3>1 DEF WritesExhausted
    <3>2. CASE ~WritesExhausted(peerTasks' = "closed")
      <4>1. writeTasks' = writeTasks
        BY <1>1, <3>2 DEF LoopTurn
      <4> QED
        BY <2>1, <4>1
    <3> QED
      BY <3>1, <3>2
  <2> QED
    BY <2>2, <2>3
<1>2. CASE RecvTask
  \* A task comes in only while tasksOpen, and then nothing is closed.
  BY <1>2 DEF RecvTask
<1>3. ASSUME NEW w \in Workers, SendPeerTask(w) PROVE ClosedForGood'
  BY <1>3 DEF SendPeerTask
<1>4. ASSUME NEW x \in Writers, SendWriteTask(x) PROVE ClosedForGood'
  BY <1>4 DEF SendWriteTask, DropResult, Queued
<1>5. ASSUME NEW w \in Workers, PeerResult(w) PROVE ClosedForGood'
  \* A result is that of a peer which is inflight, so nothing is closed either.
  <2>1. wpc[w] = "publishing" /\ pc = "select" /\ UNCHANGED <<peerTasks, writeTasks>>
    BY <1>5 DEF PeerResult
  <2>2. wtask[w] \in inflight
    BY <2>1 DEF HeldInv, InflightIsHeld, Holders, Busy
  <2>3. peerTasks # "closed" /\ writeTasks # "closed"
    BY <2>1, <2>2
  <2> QED
    BY <2>1, <2>3
<1>6. CASE UNCHANGED <<peerQueue, inflight, tasksOpen, writeQueue, peerTasks, writeTasks>>
           /\ (ShutDown => ShutDown')
  BY <1>6 DEF Queued
<1>7. CASE TasksClosed
  BY <1>7 DEF TasksClosed, Queued
<1>8. CASE NaturalEnd \/ Return \/ PeerResultsClosed \/ WriterResultsClosed \/ CtxDone
  BY <1>6, <1>8 DEF NaturalEnd, Return, PeerResultsClosed, WriterResultsClosed, CtxDone
<1>9. CASE CloseTasks
  BY <1>9 DEF CloseTasks
<1>10. CASE PeersDrained \/ WritesDrained \/ DriverCloses \/ Cancel \/ UNCHANGED vars
  BY <1>6, <1>10 DEF PeersDrained, WritesDrained, DriverCloses, Cancel, vars
<1>11. ASSUME NEW w \in Workers, DropPeerResult(w) \/ WorkerStep(w) PROVE ClosedForGood'
  BY <1>6, <1>11 DEF DropPeerResult, WorkerStep, Work, WorkerExit
<1>12. ASSUME NEW x \in Writers, WriteResult(x) \/ DropWriteResult(x) \/ WriterStep(x)
       PROVE  ClosedForGood'
  BY <1>6, <1>12 DEF WriteResult, DropWriteResult, WriterStep, Write, WriterExit
<1> QED
  BY <1>1, <1>2, <1>3, <1>4, <1>5, <1>7, <1>8, <1>9, <1>10, <1>11, <1>12 DEF Next, EngineStep, Done

\* A task channel that is closed outside of a shutdown is not needed any more,
\* for good: no result and no peer comes in afterwards.
THEOREM ClosedForGoodCorrect == Spec => []ClosedForGood
<1>1. Spec => [](TypeInv /\ HeldInv /\ ClosedForGood)
  BY InitType, NextType, InitHeld, NextHeld, InitClosed, NextClosed, PTL DEF Spec
<1> QED
  BY <1>1, PTL

-----------------------------------------------------------------------------
\* The goroutines.

WorkersGone == \A w \in Workers : wpc[w] = "exited"
WritersGone == \A x \in Writers : xpc[x] = "exited"

\* The engine goes on only when a results channel is closed, which the last
\* goroutine of its pool does on the way out.
GoneInv ==
  /\ peerResultsNil \/ pc \in {"drainWrites", "cancelledReturn"} => WorkersGone
  /\ writerResultsNil \/ pc = "cancelledReturn" => WritersGone
  /\ pc \in {"ending", "returned"} => PoolsStopped

LEMMA InitGone == Init => GoneInv
BY DEF Init, GoneInv

\* A goroutine that has exited takes no part in any step.
LEMMA ExitedStays ==
  ASSUME TypeInv, [Next]_vars
  PROVE  (WorkersGone => WorkersGone') /\ (WritersGone => WritersGone')
<1> USE DEF WorkersGone, WritersGone, ctxVars, driverVars, queueVars,
            chanVars, workerVars, writerVars, handlerVars, historyVars
<1>w. wpc \in [Workers -> PoolState] /\ xpc \in [Writers -> PoolState]
  BY DEF TypeInv, TypeOK
<1>1. ASSUME NEW w \in Workers, WorkersGone
      PROVE  ~(SendPeerTask(w) \/ PeerResult(w) \/ DropPeerResult(w) \/ Work(w) \/ WorkerExit(w))
  BY <1>1 DEF SendPeerTask, PeerResult, DropPeerResult, Work, WorkerExit
<1>2. ASSUME NEW x \in Writers, WritersGone
      PROVE  ~(SendWriteTask(x) \/ WriteResult(x) \/ DropWriteResult(x) \/ Write(x) \/ WriterExit(x))
  BY <1>2 DEF SendWriteTask, WriteResult, DropWriteResult, Write, WriterExit
<1>3. ASSUME NEW w \in Workers,
             SendPeerTask(w) \/ PeerResult(w) \/ DropPeerResult(w) \/ WorkerStep(w)
      PROVE  ~WorkersGone /\ xpc' = xpc
  BY <1>1, <1>3 DEF SendPeerTask, PeerResult, DropPeerResult, WorkerStep, Work, WorkerExit
<1>4. ASSUME NEW x \in Writers,
             SendWriteTask(x) \/ WriteResult(x) \/ DropWriteResult(x) \/ WriterStep(x)
      PROVE  ~WritersGone /\ wpc' = wpc
  BY <1>2, <1>4 DEF SendWriteTask, WriteResult, DropWriteResult, WriterStep, Write, WriterExit
<1>5. CASE LoopTurn \/ NaturalEnd \/ Return \/ RecvTask \/ TasksClosed
  BY <1>5 DEF LoopTurn, NaturalEnd, Return, RecvTask, TasksClosed
<1>6. CASE PeerResultsClosed \/ WriterResultsClosed \/ CtxDone \/ CloseTasks
           \/ PeersDrained \/ WritesDrained
  BY <1>6 DEF PeerResultsClosed, WriterResultsClosed, CtxDone, CloseTasks, PeersDrained,
              WritesDrained
<1>7. CASE DriverCloses \/ Cancel \/ UNCHANGED vars
  BY <1>7 DEF DriverCloses, Cancel, vars
<1> QED
  BY <1>3, <1>4, <1>5, <1>6, <1>7 DEF Next, EngineStep, Done

LEMMA NextGone == TypeInv /\ GoneInv /\ [Next]_vars => GoneInv'
<1> SUFFICES ASSUME TypeInv, GoneInv, [Next]_vars PROVE GoneInv'
  OBVIOUS
<1> USE DEF GoneInv, PoolsStopped, ctxVars, driverVars, queueVars,
            chanVars, workerVars, writerVars, handlerVars, historyVars
<1>g. (WorkersGone => WorkersGone') /\ (WritersGone => WritersGone')
  BY ExitedStays
<1>1. CASE UNCHANGED <<pc, peerResultsNil, writerResultsNil>>
  BY <1>1, <1>g
<1>2. CASE pc = "select" /\ pc' = "turn" /\ UNCHANGED <<peerResultsNil, writerResultsNil>>
  BY <1>2, <1>g
<1>3. CASE LoopTurn \/ CtxDone \/ CloseTasks
  BY <1>3, <1>g DEF LoopTurn, CtxDone, CloseTasks
<1>4. CASE NaturalEnd \/ Return
  BY <1>4, <1>g DEF NaturalEnd, Return
<1>5. CASE PeerResultsClosed
  BY <1>5, <1>g DEF PeerResultsClosed, WorkersGone
<1>6. CASE WriterResultsClosed
  BY <1>6, <1>g DEF WriterResultsClosed, WritersGone
<1>7. CASE PeersDrained
  BY <1>7, <1>g DEF PeersDrained, WorkersGone
<1>8. CASE WritesDrained
  BY <1>8, <1>g DEF WritesDrained, WritersGone
<1>9. CASE RecvTask \/ TasksClosed
  BY <1>2, <1>9 DEF RecvTask, TasksClosed
<1>10. ASSUME NEW w \in Workers, SendPeerTask(w) \/ PeerResult(w) PROVE GoneInv'
  BY <1>2, <1>10 DEF SendPeerTask, PeerResult
<1>11. ASSUME NEW w \in Workers, DropPeerResult(w) \/ WorkerStep(w) PROVE GoneInv'
  BY <1>1, <1>11 DEF DropPeerResult, WorkerStep, Work, WorkerExit
<1>12. ASSUME NEW x \in Writers, SendWriteTask(x) \/ WriteResult(x) PROVE GoneInv'
  BY <1>2, <1>12 DEF SendWriteTask, WriteResult
<1>13. ASSUME NEW x \in Writers, DropWriteResult(x) \/ WriterStep(x) PROVE GoneInv'
  BY <1>1, <1>13 DEF DropWriteResult, WriterStep, Write, WriterExit
<1>14. CASE DriverCloses \/ Cancel \/ UNCHANGED vars
  BY <1>1, <1>14 DEF DriverCloses, Cancel, vars
<1> QED
  BY <1>3, <1>4, <1>5, <1>6, <1>7, <1>8, <1>9, <1>10, <1>11, <1>12, <1>13, <1>14
     DEF Next, EngineStep, Done

\* However Run returns, no goroutine of its pools is left.
THEOREM PoolsGoneCorrect == Spec => []PoolsGone
<1>1. Spec => [](TypeInv /\ GoneInv)
  BY InitType, NextType, InitGone, NextGone, PTL DEF Spec
<1>2. GoneInv => PoolsGone
  BY DEF GoneInv, PoolsGone, PoolsStopped, WorkersGone, WritersGone, Returned
<1> QED
  BY <1>1, <1>2, PTL
-----------------------------------------------------------------------------
(***************************************************************************)
(* What the engine keeps: the addresses of queued peers and the results of *)
(* visited ones.                                                           *)
(***************************************************************************)

\* Addresses and priorities.

\* A peer that is not queued has nothing heard for it yet, or merging the next
\* report into an empty entry would miss addresses.
AddrInv ==
  /\ QueueKnowsAddresses
  /\ \A k \in Peers \ Queued : heard[k] = {}

LEMMA InitAddr == Init => AddrInv
BY DEF Init, AddrInv, QueueKnowsAddresses, Queued

\* One report, of the driver or of a visit.
LEMMA ReportAddr ==
  ASSUME TypeInv, AddrInv, NEW new \in Neighbors, NEW infl, NEW proc,
         peerQueue' = Enqueue(new, infl, proc), heard' = Hear(new, infl, proc)
  PROVE  AddrInv'
<1> DEFINE add == Accepted(new, infl, proc)
<1>1. Queued' = Queued \cup add
  BY AcceptedQueued
<1>2. Queued \subseteq Peers /\ add \subseteq Peers
  BY NeighborsType DEF TypeInv, TypeOK, Queued, Accepted
<1>3. ASSUME NEW k \in add
      PROVE  peerQueue'[k].addrs = heard'[k] /\ peerQueue'[k].priority = Priority(heard'[k])
  <2>1. peerQueue'[k] = [addrs |-> Merged(k, new), priority |-> Priority(Merged(k, new))]
    BY <1>3 DEF Enqueue
  <2>2. heard'[k] = heard[k] \cup new[k]
    BY <1>2, <1>3 DEF Hear
  <2>3. Merged(k, new) = heard[k] \cup new[k]
    BY <1>2, <1>3 DEF Merged, AddrInv, QueueKnowsAddresses
  <2> QED
    BY <2>1, <2>2, <2>3
<1>4. ASSUME NEW k \in Queued \ add
      PROVE  peerQueue'[k].addrs = heard'[k] /\ peerQueue'[k].priority = Priority(heard'[k])
  <2>1. peerQueue'[k] = peerQueue[k] /\ heard'[k] = heard[k]
    BY <1>2, <1>4 DEF Enqueue, Hear
  <2> QED
    BY <2>1 DEF AddrInv, QueueKnowsAddresses
<1>5. ASSUME NEW k \in Peers \ Queued'
      PROVE  heard'[k] = {}
  BY <1>1, <1>5 DEF Hear, AddrInv
<1>6. \A a : Priority(a)' = Priority(a)
  BY DEF Priority
<1> QED
  BY <1>1, <1>3, <1>4, <1>5 DEF AddrInv, QueueKnowsAddresses, Priority

LEMMA NextAddr == TypeInv /\ AddrInv /\ [Next]_vars => AddrInv'
<1> SUFFICES ASSUME TypeInv, AddrInv, [Next]_vars PROVE AddrInv'
  OBVIOUS
<1> USE DEF ctxVars, driverVars, queueVars, chanVars, workerVars, writerVars, handlerVars,
            historyVars
<1>1. CASE RecvTask
  <2> DEFINE new == [k \in {Head(toEmit).peer} |-> Head(toEmit).addrs]
  <2>1. peerQueue' = Enqueue(new, inflight, processed) /\ heard' = Hear(new, inflight, processed)
    BY <1>1 DEF RecvTask
  <2>2. Head(toEmit) \in Task
    BY <1>1 DEF RecvTask, TypeInv, TypeOK
  <2>3. new \in Neighbors
    BY <2>2, TaskIsNeighbors
  <2> HIDE DEF new
  <2> QED
    BY <2>1, <2>3, ReportAddr
<1>2. ASSUME NEW w \in Workers, PeerResult(w) PROVE AddrInv'
  <2> DEFINE p == wtask[w]
             infl == inflight \ {p}
             proc == IF DuplicateProcessing THEN processed ELSE processed \cup {p}
  <2>1. p \in Peers
    BY <1>2 DEF PeerResult, TypeInv, TasksHeld, Busy
  <2>2. PICK o \in Outcomes[p] :
          peerQueue' = Enqueue(o.neighbors, infl, proc) /\ heard' = Hear(o.neighbors, infl, proc)
    BY <1>2 DEF PeerResult
  <2>3. o.neighbors \in Neighbors
    BY <2>1, EngineAssumption
  <2> HIDE DEF infl, proc
  <2> QED
    BY <2>2, <2>3, ReportAddr
<1>3. ASSUME NEW w \in Workers, SendPeerTask(w) PROVE AddrInv'
  <2>1. PICK k \in PeekPeers :
          /\ peerQueue' = [j \in Queued \ {k} |-> peerQueue[j]]
          /\ heard' = [heard EXCEPT ![k] = {}]
    BY <1>3 DEF SendPeerTask
  <2>2. Queued' = Queued \ {k} /\ heard \in [Peers -> SUBSET Addrs] /\ Queued \subseteq Peers
    BY <2>1 DEF Queued, TypeInv, TypeOK
  <2> QED
    BY <2>1, <2>2 DEF AddrInv, QueueKnowsAddresses, Priority
<1>4. CASE UNCHANGED <<peerQueue, heard>>
  BY <1>4 DEF AddrInv, QueueKnowsAddresses, Queued, Priority
<1>5. ASSUME NEW w \in Workers, DropPeerResult(w) \/ WorkerStep(w) PROVE AddrInv'
  BY <1>4, <1>5 DEF DropPeerResult, WorkerStep, Work, WorkerExit
<1>6. ASSUME NEW x \in Writers,
             SendWriteTask(x) \/ WriteResult(x) \/ DropWriteResult(x) \/ WriterStep(x)
      PROVE  AddrInv'
  BY <1>4, <1>6 DEF SendWriteTask, WriteResult, DropWriteResult, WriterStep, Write, WriterExit
<1>7. CASE \/ LoopTurn \/ NaturalEnd \/ Return
           \/ TasksClosed \/ PeerResultsClosed \/ WriterResultsClosed
  BY <1>4, <1>7
     DEF LoopTurn, NaturalEnd, Return, TasksClosed, PeerResultsClosed, WriterResultsClosed
<1>8. CASE CtxDone \/ CloseTasks \/ PeersDrained \/ WritesDrained
  BY <1>4, <1>8 DEF CtxDone, CloseTasks, PeersDrained, WritesDrained
<1>9. CASE DriverCloses \/ Cancel \/ UNCHANGED vars
  BY <1>4, <1>9 DEF DriverCloses, Cancel, vars
<1> QED
  BY <1>1, <1>2, <1>3, <1>5, <1>6, <1>7, <1>8, <1>9 DEF Next, EngineStep, Done

\* A queued peer has every address any report gave for it, and the priority of
\* their union, in whatever order the reports came in.
THEOREM AddressesCorrect == Spec => []QueueKnowsAddresses
<1>1. Spec => [](TypeInv /\ AddrInv)
  BY InitType, NextType, InitAddr, NextAddr, PTL DEF Spec
<1>2. AddrInv => QueueKnowsAddresses
  BY DEF AddrInv
<1> QED
  BY <1>1, <1>2, PTL

\* The step that ParkedLast speaks about.
ParkedLastStep ==
  \A k \in inflight' \ inflight :
    heard[k] \cap DialAddrs = {} => \A j \in Queued : heard[j] \cap DialAddrs = {}

LEMMA NextParked == TypeInv /\ AddrInv /\ [Next]_vars => [ParkedLastStep]_vars
<1> SUFFICES ASSUME TypeInv, AddrInv, Next, NEW k \in inflight' \ inflight,
                    heard[k] \cap DialAddrs = {}, NEW j \in Queued
             PROVE  heard[j] \cap DialAddrs = {}
  BY DEF ParkedLastStep
<1> USE DEF ctxVars, driverVars, queueVars, chanVars, workerVars, writerVars, handlerVars,
            historyVars
\* Only a worker that takes a peer makes one inflight, the one that Peek returned.
<1>1. k \in PeekPeers
  <2>1. ASSUME NEW w \in Workers, SendPeerTask(w) PROVE k \in PeekPeers
    BY <2>1 DEF SendPeerTask
  <2>2. CASE inflight' \subseteq inflight
    BY <2>2
  <2>3. ASSUME NEW w \in Workers, PeerResult(w) \/ DropPeerResult(w) \/ WorkerStep(w)
        PROVE  k \in PeekPeers
    BY <2>2, <2>3 DEF PeerResult, DropPeerResult, WorkerStep, Work, WorkerExit
  <2>4. ASSUME NEW x \in Writers,
               SendWriteTask(x) \/ WriteResult(x) \/ DropWriteResult(x) \/ WriterStep(x)
        PROVE  k \in PeekPeers
    BY <2>2, <2>4 DEF SendWriteTask, WriteResult, DropWriteResult, WriterStep, Write, WriterExit
  <2>5. CASE \/ LoopTurn \/ NaturalEnd \/ Return
             \/ RecvTask \/ TasksClosed \/ PeerResultsClosed \/ WriterResultsClosed
    BY <2>2, <2>5 DEF LoopTurn, NaturalEnd, Return, RecvTask, TasksClosed, PeerResultsClosed,
                      WriterResultsClosed
  <2>6. CASE CtxDone \/ CloseTasks \/ PeersDrained \/ WritesDrained
    BY <2>2, <2>6 DEF CtxDone, CloseTasks, PeersDrained, WritesDrained
  <2>7. CASE DriverCloses \/ Cancel \/ UNCHANGED vars
    BY <2>2, <2>7 DEF DriverCloses, Cancel, vars
  <2> QED
    BY <2>1, <2>3, <2>4, <2>5, <2>6, <2>7 DEF Next, EngineStep, Done
<1>2. peerQueue[k].priority >= peerQueue[j].priority
  BY <1>1 DEF PeekPeers
<1>3. peerQueue[k].priority = 0
  BY <1>1 DEF PeekPeers, AddrInv, QueueKnowsAddresses, Priority
<1>4. peerQueue[j].priority = Priority(heard[j])
  BY DEF AddrInv, QueueKnowsAddresses
<1> QED
  BY <1>2, <1>3, <1>4 DEF Priority

\* No parked peer is visited while a peer with an address to dial is queued.
THEOREM ParkedLastCorrect == Spec => ParkedLast
<1>1. Spec => [](TypeInv /\ AddrInv)
  BY InitType, NextType, InitAddr, NextAddr, PTL DEF Spec
<1>2. ParkedLast <=> [][ParkedLastStep]_vars
  BY DEF ParkedLast, ParkedLastStep
<1> QED
  BY <1>1, <1>2, NextParked, PTL DEF Spec
-----------------------------------------------------------------------------
\* Results.

\* A writer holds a result that no other writer holds.
WritersApart ==
  ~DuplicateProcessing =>
    \A p \in Peers : \A x, y \in Writing(p) : x = y

ResultInv == ResultsConserved /\ WritersApart

LEMMA InitResult == Init => ResultInv
BY DEF Init, ResultInv, ResultsConserved, WritersApart, Writing

\* Three counts of which at most one is not zero: where a handled result may be.
LEMMA OnePlace ==
  ASSUME TypeInv, NeverTwice, ResultInv, ~DuplicateProcessing, NEW p \in Peers
  PROVE  /\ handled[p] \in {0, 1} /\ stored[p] \in Nat
         /\ p \in writeQueue => Writing(p) = {} /\ stored[p] = 0
         /\ Writing(p) # {} => p \notin writeQueue /\ stored[p] = 0
         /\ handled[p] = 0 => p \notin writeQueue /\ Writing(p) = {} /\ stored[p] = 0
<1>1. handled[p] \in {0, 1}
  BY DEF NeverTwice
<1>2. stored[p] \in Nat
  BY DEF TypeInv, TypeOK
<1> DEFINE q == IF p \in writeQueue THEN 1 ELSE 0
           h == IF Writing(p) # {} THEN 1 ELSE 0
<1>3. handled[p] = stored[p] + q + h
  BY DEF ResultInv, ResultsConserved
<1>4. q \in {0, 1} /\ h \in {0, 1} /\ (q = 1 <=> p \in writeQueue) /\ (h = 1 <=> Writing(p) # {})
  OBVIOUS
<1> HIDE DEF q, h
<1>5. /\ q = 1 => h = 0 /\ stored[p] = 0
      /\ h = 1 => q = 0 /\ stored[p] = 0
      /\ handled[p] = 0 => q = 0 /\ h = 0 /\ stored[p] = 0
  BY <1>1, <1>2, <1>3, <1>4
<1> QED
  BY <1>1, <1>2, <1>4, <1>5

LEMMA NextResult ==
  TypeInv /\ HeldInv /\ NeverTwice /\ ResultInv /\ [Next]_vars => ResultInv'
<1> SUFFICES ASSUME TypeInv, HeldInv, NeverTwice, ResultInv, [Next]_vars, ~DuplicateProcessing
             PROVE  ResultInv'
  BY DEF ResultInv, ResultsConserved, WritersApart
<1> USE DEF ctxVars, driverVars, queueVars, chanVars, workerVars, writerVars, handlerVars,
            historyVars
<1>w. /\ xpc \in [Writers -> PoolState] /\ xtask \in [Writers -> Peers \cup {NoPeer}]
      /\ handled \in [Peers -> Nat] /\ stored \in [Peers -> Nat] /\ writeQueue \subseteq Peers
      /\ \A x \in Writers : xpc[x] = "working" => xtask[x] \in Peers
  BY DEF TypeInv, TypeOK, TasksHeld, Busy
<1>1. ASSUME NEW w \in Workers, PeerResult(w) PROVE ResultInv'
  <2> DEFINE p == wtask[w]
  <2>1. p \in Peers /\ p \in inflight
    BY <1>1 DEF PeerResult, TypeInv, TasksHeld, Busy, HeldInv, InflightIsHeld, Holders, ShutDown
  <2>2. /\ writeQueue' = writeQueue \cup {p}
        /\ handled' = [handled EXCEPT ![p] = @ + 1]
        /\ UNCHANGED <<stored, xpc, xtask>>
    BY <1>1 DEF PeerResult
  <2>3. handled[p] = 0
    BY <2>1 DEF NeverTwice
  <2>4. p \notin writeQueue /\ Writing(p) = {} /\ stored[p] = 0
    BY <2>1, <2>3, OnePlace
  <2>5. \A q \in Peers : Writing(q)' = Writing(q)
    BY <2>2 DEF Writing
  <2> HIDE DEF p
  <2>6. ASSUME NEW q \in Peers
        PROVE  handled'[q] = stored'[q] + (IF q \in writeQueue' THEN 1 ELSE 0)
                                        + (IF Writing(q)' # {} THEN 1 ELSE 0)
    <3>1. CASE q = p
      <4>1. handled'[q] = 1 /\ stored'[q] = 0 /\ q \in writeQueue' /\ Writing(q)' = {}
        BY <1>w, <2>1, <2>2, <2>3, <2>4, <2>5, <3>1
      <4> QED
        BY <4>1
    <3>2. CASE q # p
      <4>1. handled'[q] = handled[q] /\ stored'[q] = stored[q] /\ Writing(q)' = Writing(q)
            /\ (q \in writeQueue' <=> q \in writeQueue)
        BY <1>w, <2>2, <2>5, <3>2
      <4> QED
        BY <4>1 DEF ResultInv, ResultsConserved
    <3> QED
      BY <3>1, <3>2
  <2> QED
    BY <2>5, <2>6 DEF ResultInv, ResultsConserved, WritersApart
<1>2. ASSUME NEW x \in Writers, SendWriteTask(x) PROVE ResultInv'
  <2>1. PICK k \in writeQueue :
          writeQueue' = writeQueue \ {k} /\ xtask' = [xtask EXCEPT ![x] = k]
    BY <1>2 DEF SendWriteTask, DropResult
  <2>2. xpc[x] = "idle" /\ xpc' = [xpc EXCEPT ![x] = "working"] /\ UNCHANGED <<handled, stored>>
    BY <1>2 DEF SendWriteTask
  <2>3. k \in Peers /\ Writing(k) = {} /\ stored[k] = 0
    BY <1>w, OnePlace
  <2>4. Writing(k)' = {x}
    BY <1>w, <2>1, <2>2, <2>3 DEF Writing
  <2>5. \A q \in Peers \ {k} : Writing(q)' = Writing(q)
    BY <1>w, <2>1, <2>2 DEF Writing
  <2>6. ASSUME NEW q \in Peers
        PROVE  handled'[q] = stored'[q] + (IF q \in writeQueue' THEN 1 ELSE 0)
                                        + (IF Writing(q)' # {} THEN 1 ELSE 0)
    <3>1. CASE q = k
      <4>1. handled[k] = stored[k] + 1 + 0
        BY <2>3 DEF ResultInv, ResultsConserved
      <4>2. q \notin writeQueue' /\ Writing(q)' # {}
        BY <2>1, <2>4, <3>1
      <4> QED
        BY <1>w, <2>2, <2>3, <3>1, <4>1, <4>2
    <3>2. CASE q # k
      <4>1. Writing(q)' = Writing(q) /\ (q \in writeQueue' <=> q \in writeQueue)
        BY <2>1, <2>5, <3>2
      <4> QED
        BY <2>2, <4>1 DEF ResultInv, ResultsConserved
    <3> QED
      BY <3>1, <3>2
  <2>7. \A q \in Peers : \A y, z \in Writing(q)' : y = z
    BY <2>4, <2>5 DEF ResultInv, WritersApart
  <2> QED
    BY <2>6, <2>7 DEF ResultInv, ResultsConserved, WritersApart
<1>3. ASSUME NEW x \in Writers, Write(x) PROVE ResultInv'
  <2>1. PICK p \in Peers : p = xtask[x] /\ x \in Writing(p)
    BY <1>w, <1>3 DEF Write, Writing
  <2>2. /\ xpc' = [xpc EXCEPT ![x] = "publishing"] /\ stored' = [stored EXCEPT ![p] = @ + 1]
        /\ UNCHANGED <<writeQueue, handled, xtask>>
    BY <1>3, <2>1 DEF Write
  <2>3. Writing(p) = {x}
    BY <2>1 DEF ResultInv, WritersApart
  <2>4. Writing(p)' = {}
    BY <1>w, <2>2, <2>3 DEF Writing
  <2>5. \A q \in Peers \ {p} : Writing(q)' = Writing(q)
    BY <1>w, <2>1, <2>2 DEF Writing
  <2>6. p \notin writeQueue /\ stored[p] = 0
    BY <2>1, OnePlace
  <2>7. ASSUME NEW q \in Peers
        PROVE  handled'[q] = stored'[q] + (IF q \in writeQueue' THEN 1 ELSE 0)
                                        + (IF Writing(q)' # {} THEN 1 ELSE 0)
    <3>1. CASE q = p
      <4>1. handled[p] = 0 + 0 + 1
        BY <2>1, <2>3, <2>6 DEF ResultInv, ResultsConserved
      <4>2. stored'[p] = 1 /\ p \notin writeQueue' /\ Writing(p)' = {}
        BY <1>w, <2>1, <2>2, <2>4, <2>6
      <4> QED
        BY <2>2, <3>1, <4>1, <4>2
    <3>2. CASE q # p
      <4>1. stored'[q] = stored[q] /\ Writing(q)' = Writing(q)
        BY <1>w, <2>2, <2>5, <3>2
      <4> QED
        BY <2>2, <4>1 DEF ResultInv, ResultsConserved
    <3> QED
      BY <3>1, <3>2
  <2>8. \A q \in Peers : \A y, z \in Writing(q)' : y = z
    BY <2>4, <2>5 DEF ResultInv, WritersApart
  <2> QED
    BY <2>7, <2>8 DEF ResultInv, ResultsConserved, WritersApart
<1>4. CASE /\ UNCHANGED <<handled, stored, writeQueue>>
           /\ \A p \in Peers : Writing(p)' = Writing(p)
  BY <1>4 DEF ResultInv, ResultsConserved, WritersApart
<1>5. CASE UNCHANGED <<handled, stored, writeQueue, xpc, xtask>>
  BY <1>4, <1>5 DEF Writing
<1>6. ASSUME NEW x \in Writers, WriteResult(x) \/ DropWriteResult(x) \/ WriterExit(x)
      PROVE  ResultInv'
  <2>1. UNCHANGED <<handled, stored, writeQueue>>
    BY <1>6 DEF WriteResult, DropWriteResult, WriterExit
  <2>2. \A p \in Peers : Writing(p)' = Writing(p)
    BY <1>w, <1>6 DEF WriteResult, DropWriteResult, WriterExit, Writing
  <2> QED
    BY <1>4, <2>1, <2>2
<1>7. ASSUME NEW w \in Workers, SendPeerTask(w) \/ DropPeerResult(w) \/ WorkerStep(w)
      PROVE  ResultInv'
  BY <1>5, <1>7 DEF SendPeerTask, DropPeerResult, WorkerStep, Work, WorkerExit
<1>8. CASE \/ LoopTurn \/ NaturalEnd \/ Return \/ RecvTask
           \/ TasksClosed \/ PeerResultsClosed \/ WriterResultsClosed
  BY <1>5, <1>8 DEF LoopTurn, NaturalEnd, Return, RecvTask, TasksClosed, PeerResultsClosed,
                    WriterResultsClosed
<1>9. CASE CtxDone \/ CloseTasks \/ PeersDrained \/ WritesDrained
  BY <1>5, <1>9 DEF CtxDone, CloseTasks, PeersDrained, WritesDrained
<1>10. CASE DriverCloses \/ Cancel \/ UNCHANGED vars
  BY <1>5, <1>10 DEF DriverCloses, Cancel, vars
<1> QED
  BY <1>1, <1>2, <1>3, <1>6, <1>7, <1>8, <1>9, <1>10 DEF Next, EngineStep, Done, WriterStep

\* In a crawl every result that was handled is in the write queue, with one
\* writer, or stored, and only in one of these.
THEOREM ResultsCorrect == Spec => []ResultsConserved
<1>1. Spec => [](TypeInv /\ HeldInv /\ NeverTwice /\ ResultInv)
  BY InitType, NextType, InitHeld, NextHeld, InitOnce, NextOnce, InitResult, NextResult, PTL
     DEF Spec
<1>2. ResultInv => ResultsConserved
  BY DEF ResultInv
<1> QED
  BY <1>1, <1>2, PTL
-----------------------------------------------------------------------------
(***************************************************************************)
(* What a crawl amounts to: the natural end of a run is complete, and the  *)
(* engine takes every peer through the life that PeerLifecycle allows.     *)
(***************************************************************************)

\* The natural end.

\* Every peer that was discovered is still somewhere, until a shutdown begins.
NoneLost ==
  ~DuplicateProcessing /\ ~ShutDown => discovered = Queued \cup inflight \cup processed

\* A goroutine leaves only when its task channel is closed.
ExitsClosed ==
  /\ (\E w \in Workers : wpc[w] = "exited") => peerTasks = "closed"
  /\ (\E x \in Writers : xpc[x] = "exited") => writeTasks = "closed"

\* The handler's counters.
Counted ==
  /\ connErrs <= crawledPeers
  /\ ~DuplicateProcessing => crawledPeers = Cardinality(processed)

EndInv == NoneLost /\ ExitsClosed /\ Counted

LEMMA InitEnd == Init => EndInv
<1> SUFFICES ASSUME Init PROVE EndInv
  OBVIOUS
<1>1. NoneLost /\ ExitsClosed
  BY DEF Init, NoneLost, ExitsClosed, Queued
<1>2. Counted
  BY FS_EmptySet DEF Init, Counted
<1> QED
  BY <1>1, <1>2 DEF EndInv

LEMMA NextEnd == TypeInv /\ HeldInv /\ NeverTwice /\ EndInv /\ [Next]_vars => EndInv'
<1> SUFFICES ASSUME TypeInv, HeldInv, NeverTwice, EndInv, [Next]_vars PROVE EndInv'
  OBVIOUS
<1> USE DEF EndInv, ctxVars, driverVars, queueVars, chanVars, workerVars, writerVars,
            handlerVars, historyVars
<1>w. /\ wpc \in [Workers -> PoolState] /\ xpc \in [Writers -> PoolState]
      /\ crawledPeers \in Nat /\ connErrs \in Nat /\ processed \subseteq Peers
  BY DEF TypeInv, TypeOK
<1>1. CASE RecvTask
  <2> DEFINE new == [k \in {Head(toEmit).peer} |-> Head(toEmit).addrs]
  <2>1. /\ peerQueue' = Enqueue(new, inflight, processed)
        /\ UNCHANGED <<inflight, processed, wpc, xpc, peerTasks, writeTasks, connErrs, crawledPeers>>
        /\ discovered' = discovered \cup DOMAIN new
        /\ pc = "select" /\ pc' = "turn"
    BY <1>1 DEF RecvTask
  <2> HIDE DEF new
  <2>2. NoneLost'
    BY <2>1, AcceptedQueued DEF NoneLost, ShutDown, Accepted
  <2> QED
    BY <2>1, <2>2 DEF ExitsClosed, Counted
<1>2. ASSUME NEW w \in Workers, SendPeerTask(w) PROVE EndInv'
  <2>1. PICK k \in PeekPeers :
          /\ peerQueue' = [j \in Queued \ {k} |-> peerQueue[j]]
          /\ inflight' = inflight \cup {k}
    BY <1>2 DEF SendPeerTask
  <2>2. /\ UNCHANGED <<processed, discovered, xpc, peerTasks, writeTasks, connErrs, crawledPeers>>
        /\ wpc' = [wpc EXCEPT ![w] = "working"] /\ pc = "select" /\ pc' = "turn"
    BY <1>2 DEF SendPeerTask
  <2>3. Queued' = Queued \ {k} /\ k \in Queued
    BY <2>1 DEF Queued, PeekPeers
  <2>4. NoneLost'
    BY <2>1, <2>2, <2>3 DEF NoneLost, ShutDown
  <2> QED
    BY <1>w, <2>2, <2>4 DEF ExitsClosed, Counted
<1>3. ASSUME NEW w \in Workers, PeerResult(w) PROVE EndInv'
  <2> DEFINE p == wtask[w]
             infl == inflight \ {p}
             proc == IF DuplicateProcessing THEN processed ELSE processed \cup {p}
  <2>1. PICK o \in Outcomes[p] :
          /\ inflight' = infl /\ processed' = proc
          /\ peerQueue' = Enqueue(o.neighbors, infl, proc)
          /\ discovered' = discovered \cup DOMAIN o.neighbors
          /\ crawledPeers' = crawledPeers + 1
          /\ connErrs' = IF o.connErr THEN connErrs + 1 ELSE connErrs
    BY <1>3 DEF PeerResult, HandlePeerResult
  <2>2. /\ UNCHANGED <<xpc, peerTasks, writeTasks>>
        /\ wpc' = [wpc EXCEPT ![w] = "idle"] /\ wpc[w] = "publishing"
        /\ pc = "select" /\ pc' = "turn"
    BY <1>3 DEF PeerResult
  <2>3. p \in inflight
    BY <2>2 DEF HeldInv, InflightIsHeld, Holders, Busy, ShutDown
  <2>4. Queued' = Queued \cup Accepted(o.neighbors, infl, proc)
    BY <2>1, AcceptedQueued
  <2>5. NoneLost'
    BY <2>1, <2>2, <2>3, <2>4 DEF NoneLost, ShutDown, Accepted
  <2>6. ExitsClosed'
    BY <1>w, <2>2 DEF ExitsClosed
  <2>7. connErrs' <= crawledPeers'
    BY <1>w, <2>1 DEF Counted
  <2>8. ASSUME ~DuplicateProcessing
        PROVE  crawledPeers' = Cardinality(processed')
    <3>1. IsFiniteSet(processed)
      BY <1>w, FS_Subset, EngineAssumption
    <3>2. p \notin processed
      BY <2>3, <2>8 DEF NeverTwice
    <3>3. Cardinality(processed \cup {p}) = Cardinality(processed) + 1
      BY <3>1, <3>2, FS_AddElement
    <3> QED
      BY <2>1, <2>8, <3>3 DEF Counted
  <2> QED
    BY <2>5, <2>6, <2>7, <2>8 DEF Counted
<1>4. CASE LoopTurn
  <2>1. /\ UNCHANGED <<peerQueue, inflight, processed, discovered, wpc, xpc, connErrs, crawledPeers>>
        /\ pc = "turn" /\ pc' = "select"
        /\ peerTasks' \in {"closed", peerTasks} /\ writeTasks' \in {"closed", writeTasks}
    BY <1>4 DEF LoopTurn
  <2> QED
    BY <2>1 DEF NoneLost, ShutDown, Queued, ExitsClosed, Counted
<1>5. CASE CloseTasks
  BY <1>5 DEF CloseTasks, NoneLost, ShutDown, ExitsClosed, Counted
\* All other steps leave the peers, the channels and the counters alone.
<1>6. ASSUME UNCHANGED <<peerQueue, inflight, processed, discovered, peerTasks, writeTasks, connErrs,
                         crawledPeers>>,
             ShutDown => ShutDown', ExitsClosed'
      PROVE  EndInv'
  BY <1>6 DEF NoneLost, Queued, Counted
<1>7. ASSUME NEW w \in Workers, DropPeerResult(w) \/ WorkerStep(w) PROVE EndInv'
  <2>1. ExitsClosed'
    BY <1>w, <1>7 DEF DropPeerResult, WorkerStep, Work, WorkerExit, ExitsClosed
  <2> QED
    BY <1>6, <1>7, <2>1 DEF DropPeerResult, WorkerStep, Work, WorkerExit, ShutDown
<1>8. ASSUME NEW x \in Writers,
             SendWriteTask(x) \/ WriteResult(x) \/ DropWriteResult(x) \/ WriterStep(x)
      PROVE  EndInv'
  <2>1. ExitsClosed'
    BY <1>w, <1>8 DEF SendWriteTask, WriteResult, DropWriteResult, WriterStep, Write, WriterExit,
                      ExitsClosed
  <2> QED
    BY <1>6, <1>8, <2>1 DEF SendWriteTask, WriteResult, DropWriteResult, WriterStep, Write,
                            WriterExit, ShutDown
<1>9. CASE NaturalEnd \/ Return \/ TasksClosed \/ PeerResultsClosed \/ WriterResultsClosed
  <2>1. ExitsClosed'
    BY <1>9 DEF NaturalEnd, Return, TasksClosed, PeerResultsClosed, WriterResultsClosed, ExitsClosed
  <2> QED
    BY <1>6, <1>9, <2>1 DEF NaturalEnd, Return, TasksClosed, PeerResultsClosed,
                            WriterResultsClosed, ShutDown
<1>10. CASE CtxDone \/ PeersDrained \/ WritesDrained \/ DriverCloses \/ Cancel \/ UNCHANGED vars
  <2>1. ExitsClosed'
    BY <1>10 DEF CtxDone, PeersDrained, WritesDrained, DriverCloses, Cancel, vars, ExitsClosed
  <2> QED
    BY <1>6, <1>10, <2>1 DEF CtxDone, PeersDrained, WritesDrained, DriverCloses, Cancel, vars,
                             ShutDown
<1> QED
  BY <1>1, <1>2, <1>3, <1>4, <1>5, <1>7, <1>8, <1>9, <1>10 DEF Next, EngineStep, Done

\* Everything that is known of the engine.
EngineInv ==
  TypeInv /\ HeldInv /\ NeverTwice /\ ClosedForGood /\ GoneInv /\ ResultInv /\ EndInv

LEMMA InitEngine == Init => EngineInv
BY InitType, InitHeld, InitOnce, InitClosed, InitGone, InitResult, InitEnd DEF EngineInv

LEMMA NextEngine == EngineInv /\ [Next]_vars => EngineInv'
BY NextType, NextHeld, NextOnce, NextClosed, NextGone, NextResult, NextEnd DEF EngineInv

LEMMA EngineInvHolds == Spec => []EngineInv
BY InitEngine, NextEngine, PTL DEF Spec

\* A step of a driver that composes with the engine: it changes what it still
\* has to emit and whether it has closed its channel, and nothing else.
DriverMoves ==
  /\ toEmit' \in Seq(Task) /\ driverOpen' \in BOOLEAN
  /\ UNCHANGED <<pc, ctxVars, tasksOpen, queueVars, chanVars, workerVars, writerVars,
                 handlerVars, historyVars>>

\* The engine relies on no driver: whatever a driver does next, and whenever it
\* closes its channel, the invariant of the engine is kept.
LEMMA DriverKeeps == EngineInv /\ DriverMoves => EngineInv'
<1> SUFFICES ASSUME EngineInv, DriverMoves PROVE EngineInv'
  OBVIOUS
<1> USE DEF DriverMoves, ctxVars, queueVars, chanVars, workerVars, writerVars, handlerVars,
            historyVars
<1>1. TypeInv' /\ HeldInv'
  BY DEF EngineInv, TypeInv, TypeOK, TasksHeld, HeldInv, InflightIsHeld, Holders, ShutDown, Queued
<1>2. NeverTwice' /\ ClosedForGood'
  BY DEF EngineInv, NeverTwice, ClosedForGood, Queued, ShutDown, PeersExhausted
<1>3. GoneInv'
  BY DEF EngineInv, GoneInv, PoolsStopped, WorkersGone, WritersGone
<1>4. ResultInv'
  BY DEF EngineInv, ResultInv, ResultsConserved, Writing, WritersApart
<1>5. EndInv'
  BY DEF EngineInv, EndInv, NoneLost, ExitsClosed, Counted, ShutDown, Queued
<1> QED
  BY <1>1, <1>2, <1>3, <1>4, <1>5 DEF EngineInv

\* Both pools have stopped, so the workers and the writers are gone; they left
\* because the task channels were closed, which were closed because nothing
\* was left.
LEMMA EndIsComplete ==
  ASSUME EngineInv, pc \in {"ending", "returned"}
  PROVE  /\ ~tasksOpen /\ Queued = {} /\ inflight = {} /\ WritersGone
         /\ ~DuplicateProcessing =>
              /\ processed = discovered
              /\ \A p \in Peers : stored[p] = (IF p \in discovered THEN 1 ELSE 0)
<1> USE DEF EngineInv
<1>1. WorkersGone /\ WritersGone
  BY DEF GoneInv, PoolsStopped
<1>2. peerTasks = "closed" /\ writeTasks = "closed"
  BY <1>1, EngineAssumption DEF EndInv, ExitsClosed, WorkersGone, WritersGone
<1>3. ~tasksOpen /\ Queued = {} /\ inflight = {} /\ writeQueue = {}
  BY <1>2 DEF ClosedForGood, PeersExhausted, ShutDown
<1>4. ASSUME ~DuplicateProcessing
      PROVE  processed = discovered
  BY <1>3, <1>4 DEF EndInv, NoneLost, ShutDown
<1>5. ASSUME ~DuplicateProcessing, NEW p \in Peers
      PROVE  stored[p] = (IF p \in discovered THEN 1 ELSE 0)
  <2>1. handled[p] = (IF p \in discovered THEN 1 ELSE 0)
    BY <1>4, <1>5 DEF NeverTwice
  <2>2. Writing(p) = {}
    BY <1>1 DEF Writing, WritersGone
  <2>3. handled[p] = stored[p] + 0 + 0
    BY <1>3, <1>5, <2>2 DEF ResultInv, ResultsConserved
  <2>4. stored[p] \in Nat
    BY DEF TypeInv, TypeOK
  <2> QED
    BY <2>1, <2>3, <2>4
<1> QED
  BY <1>1, <1>3, <1>4, <1>5

LEMMA EndAddsUp == EngineInv => NaturalEndComplete
<1> SUFFICES ASSUME EngineInv, pc = "returned" PROVE NaturalEndComplete
  BY DEF NaturalEndComplete
<1>1. connErrs <= crawledPeers /\ (~DuplicateProcessing => crawledPeers = Cardinality(processed))
  BY DEF EngineInv, EndInv, Counted
<1> QED
  BY <1>1, EndIsComplete DEF NaturalEndComplete

\* A crawl that returns without an error has visited and stored every peer it
\* has heard of, and reports how many these are.
THEOREM NaturalEndCorrect == Spec => []NaturalEndComplete
BY EngineInvHolds, EndAddsUp, PTL

-----------------------------------------------------------------------------
\* The engine implements PeerLifecycle.

Statuses == [p \in Peers |-> StatusOf(p)]

\* Where a peer is, from where it is not: the stages exclude each other.
LEMMA StatusIs ==
  ASSUME EngineInv, ~DuplicateProcessing, NEW p \in Peers
  PROVE  /\ p \in inflight => StatusOf(p) = "inflight"
         /\ p \in Queued => StatusOf(p) = "queued"
         /\ p \in processed /\ stored[p] = 0 => StatusOf(p) = "processed"
         /\ p \notin Queued \cup inflight \cup processed => StatusOf(p) = "unknown"
         /\ stored[p] # 0 => StatusOf(p) = "stored" /\ p \in processed
<1>1. stored[p] \in Nat
  BY DEF EngineInv, TypeInv, TypeOK
<1>2. p \notin processed => stored[p] = 0
  <2>1. p \notin processed => handled[p] = 0
    BY DEF EngineInv, NeverTwice
  <2> QED
    BY <2>1, OnePlace DEF EngineInv
<1>3. stored[p] > 0 <=> stored[p] # 0
  BY <1>1
<1>4. p \notin Queued \/ (p \notin inflight /\ p \notin processed)
  BY DEF EngineInv, NeverTwice
<1>5. p \notin inflight \/ p \notin processed
  BY DEF EngineInv, NeverTwice
<1> QED
  BY <1>2, <1>3, <1>4, <1>5 DEF StatusOf

LEMMA InitLife == Init => Life!LifeInit
BY DEF Init, Life!LifeInit, StatusOf, Queued

\* A step that moves no peer and does not end the run.
LEMMA LifeStutter ==
  ASSUME UNCHANGED <<peerQueue, inflight, processed, stored>>, (pc = "returned") = (pc' = "returned")
  PROVE  UNCHANGED Life!lifeVars
BY DEF Life!lifeVars, StatusOf, Queued

\* Peers that are reported become queued, and only those that were unknown.
LEMMA NewlyQueued ==
  ASSUME EngineInv, ~DuplicateProcessing, NEW new \in Neighbors, NEW infl, NEW proc,
         inflight \cup processed \subseteq infl \cup proc
  PROVE  Accepted(new, infl, proc) \ Queued \in SUBSET Life!Unknown
<1> SUFFICES ASSUME NEW q \in Accepted(new, infl, proc) \ Queued
             PROVE  q \in Peers /\ StatusOf(q) = "unknown"
  BY DEF Life!Unknown
<1>1. q \in Peers /\ q \notin inflight /\ q \notin processed
  BY NeighborsType DEF Accepted
<1> QED
  BY <1>1, StatusIs

LEMMA NextLife ==
  ASSUME EngineInv, EngineInv', ~DuplicateProcessing, [Next]_vars
  PROVE  [Life!LifeNext]_(Life!lifeVars)
<1> USE DEF ctxVars, driverVars, queueVars, chanVars, workerVars, writerVars, handlerVars,
            historyVars
<1>t. /\ stored \in [Peers -> Nat] /\ processed \subseteq Peers /\ inflight \subseteq Peers
      /\ Queued \subseteq Peers
  BY DEF EngineInv, TypeInv, TypeOK, Queued
<1>1. CASE RecvTask
  <2> DEFINE new == [k \in {Head(toEmit).peer} |-> Head(toEmit).addrs]
             add == Accepted(new, inflight, processed) \ Queued
  <2>1. /\ peerQueue' = Enqueue(new, inflight, processed)
        /\ UNCHANGED <<inflight, processed, stored>> /\ pc = "select" /\ pc' = "turn"
    BY <1>1 DEF RecvTask
  <2>2. Head(toEmit) \in Task
    BY <1>1 DEF RecvTask, EngineInv, TypeInv, TypeOK
  <2>3. new \in Neighbors
    BY <2>2, TaskIsNeighbors
  <2>4. Queued' = Queued \cup add
    BY <2>1, AcceptedQueued
  <2>5. add \in SUBSET Life!Unknown
    BY <2>3, NewlyQueued
  <2> HIDE DEF new, add
  <2>6. ASSUME NEW q \in Peers
        PROVE  StatusOf(q)' = IF q \in add THEN "queued" ELSE StatusOf(q)
    <3>1. CASE q \in add
      <4>1. StatusOf(q) = "unknown"
        BY <2>5, <3>1 DEF Life!Unknown
      <4>2. q \notin inflight /\ q \notin processed /\ ~(stored[q] > 0)
        BY <4>1 DEF StatusOf
      <4> QED
        BY <2>1, <2>4, <3>1, <4>2 DEF StatusOf
    <3>2. CASE q \notin add
      BY <2>1, <2>4, <3>2 DEF StatusOf
    <3> QED
      BY <3>1, <3>2
  <2>7. Life!Discover(add)
    BY <2>1, <2>6 DEF Life!Discover
  <2> QED
    BY <2>5, <2>7 DEF Life!LifeNext
<1>2. ASSUME NEW w \in Workers, SendPeerTask(w) PROVE Life!LifeNext
  <2>1. PICK k \in PeekPeers :
          /\ peerQueue' = [j \in Queued \ {k} |-> peerQueue[j]]
          /\ inflight' = inflight \cup {k}
    BY <1>2 DEF SendPeerTask
  <2>2. UNCHANGED <<processed, stored>> /\ pc = "select" /\ pc' = "turn"
    BY <1>2 DEF SendPeerTask
  <2>3. k \in Queued /\ k \in Peers /\ Queued' = Queued \ {k}
    BY <1>t, <2>1 DEF PeekPeers, Queued
  <2>4. StatusOf(k) = "queued"
    BY <2>3, StatusIs
  <2>5. ASSUME NEW q \in Peers
        PROVE  StatusOf(q)' = IF q = k THEN "inflight" ELSE StatusOf(q)
    <3>1. CASE q = k
      BY <2>1, <2>2, <2>4, <3>1 DEF StatusOf
    <3>2. CASE q # k
      BY <2>1, <2>2, <2>3, <3>2 DEF StatusOf
    <3> QED
      BY <3>1, <3>2
  <2>6. Life!Start(k)
    BY <2>2, <2>3, <2>4, <2>5 DEF Life!Start
  <2> QED
    BY <2>3, <2>6 DEF Life!LifeNext
<1>3. ASSUME NEW w \in Workers, PeerResult(w) PROVE Life!LifeNext
  <2>1. PICK p \in Peers : p = wtask[w] /\ p \in inflight
    BY <1>3 DEF PeerResult, EngineInv, TypeInv, TasksHeld, Busy, HeldInv, InflightIsHeld, Holders,
                ShutDown
  <2> DEFINE infl == inflight \ {p}
             proc == processed \cup {p}
  <2>2. PICK o \in Outcomes[p] :
          /\ inflight' = infl /\ processed' = proc
          /\ peerQueue' = Enqueue(o.neighbors, infl, proc)
    BY <1>3, <2>1 DEF PeerResult
  <2>3. UNCHANGED stored /\ pc = "select" /\ pc' = "turn"
    BY <1>3 DEF PeerResult
  <2> DEFINE add == Accepted(o.neighbors, infl, proc) \ Queued
  <2>4. o.neighbors \in Neighbors
    BY EngineAssumption
  <2>5. Queued' = Queued \cup add
    BY <2>2, AcceptedQueued
  <2>6. add \in SUBSET Life!Unknown
    BY <2>4, NewlyQueued
  <2>7. StatusOf(p) = "inflight" /\ p \notin add /\ stored[p] = 0
    <3>1. StatusOf(p) = "inflight"
      BY <2>1, StatusIs
    <3>2. p \notin add
      BY DEF Accepted
    <3>3. stored[p] = 0
      BY <3>1, StatusIs
    <3> QED
      BY <3>1, <3>2, <3>3
  <2>8. StatusOf(p)' = "processed"
    BY <2>2, <2>3, <2>7 DEF StatusOf
  <2> HIDE DEF add
  <2>9. ASSUME NEW q \in Peers, q # p
        PROVE  StatusOf(q)' = IF q \in add THEN "queued" ELSE StatusOf(q)
    <3>1. CASE q \in add
      <4>1. StatusOf(q) = "unknown"
        BY <2>6, <3>1 DEF Life!Unknown
      <4>2. q \notin inflight /\ q \notin processed /\ ~(stored[q] > 0)
        BY <4>1 DEF StatusOf
      <4> QED
        BY <2>2, <2>3, <2>5, <2>9, <3>1, <4>2 DEF StatusOf
    <3>2. CASE q \notin add
      BY <2>2, <2>3, <2>5, <2>9, <3>2 DEF StatusOf
    <3> QED
      BY <3>1, <3>2
  <2>10. Life!Finish(p, add)
    BY <2>3, <2>7, <2>8, <2>9 DEF Life!Finish
  <2> QED
    BY <2>6, <2>10 DEF Life!LifeNext
<1>4. ASSUME NEW x \in Writers, Write(x) PROVE Life!LifeNext
  <2>1. PICK p \in Peers : p = xtask[x] /\ x \in Writing(p)
    BY <1>4 DEF Write, Writing, EngineInv, TypeInv, TasksHeld, Busy
  <2>2. /\ stored' = [stored EXCEPT ![p] = @ + 1]
        /\ UNCHANGED <<pc, peerQueue, inflight, processed>> /\ xpc[x] = "working"
    BY <1>4, <2>1 DEF Write
  <2>3. stored[p] = 0 /\ handled[p] # 0
    BY <2>1, OnePlace DEF EngineInv
  <2>4. p \in processed
    BY <2>3 DEF EngineInv, NeverTwice
  <2>5. StatusOf(p) = "processed"
    BY <2>3, <2>4, StatusIs
  <2>6. stored'[p] = 1
    BY <1>t, <2>2, <2>3
  <2>7. ASSUME NEW q \in Peers
        PROVE  StatusOf(q)' = IF q = p THEN "stored" ELSE StatusOf(q)
    <3>1. CASE q = p
      BY <2>6, <3>1 DEF StatusOf
    <3>2. CASE q # p
      BY <1>t, <2>2, <3>2 DEF StatusOf, Queued
    <3> QED
      BY <3>1, <3>2
  <2>8. pc # "returned"
    BY <2>2, EndIsComplete DEF WritersGone
  <2>9. Life!Store(p)
    BY <2>2, <2>5, <2>7, <2>8 DEF Life!Store
  <2> QED
    BY <2>9 DEF Life!LifeNext
<1>5. CASE Return
  <2>1. pc = "ending" /\ pc' = "returned" /\ UNCHANGED <<peerQueue, inflight, processed, stored>>
    BY <1>5 DEF Return
  <2>2. ASSUME NEW q \in Peers
        PROVE  StatusOf(q) \in {"unknown", "stored"}
    <3>1. Queued = {} /\ inflight = {} /\ processed = discovered
          /\ stored[q] = (IF q \in discovered THEN 1 ELSE 0)
      BY <2>1, EndIsComplete
    <3> QED
      BY <3>1 DEF StatusOf
  <2>3. Life!End
    BY <2>1, <2>2 DEF Life!End, StatusOf, Queued
  <2> QED
    BY <2>3 DEF Life!LifeNext
<1>6. CASE UNCHANGED <<peerQueue, inflight, processed, stored>> /\ (pc = "returned") = (pc' = "returned")
  BY <1>6, LifeStutter
<1>7. CASE LoopTurn \/ NaturalEnd \/ TasksClosed \/ PeerResultsClosed \/ WriterResultsClosed
  BY <1>6, <1>7 DEF LoopTurn, NaturalEnd, TasksClosed, PeerResultsClosed, WriterResultsClosed
<1>8. CASE CtxDone \/ CloseTasks \/ PeersDrained \/ WritesDrained
  BY <1>6, <1>8 DEF CtxDone, CloseTasks, PeersDrained, WritesDrained
<1>9. CASE DriverCloses \/ Cancel \/ UNCHANGED vars
  BY <1>6, <1>9 DEF DriverCloses, Cancel, vars
<1>10. ASSUME NEW w \in Workers, DropPeerResult(w) \/ WorkerStep(w)
       PROVE  [Life!LifeNext]_(Life!lifeVars)
  BY <1>6, <1>10 DEF DropPeerResult, WorkerStep, Work, WorkerExit
<1>11. ASSUME NEW x \in Writers,
              SendWriteTask(x) \/ WriteResult(x) \/ DropWriteResult(x) \/ WriterExit(x)
       PROVE  [Life!LifeNext]_(Life!lifeVars)
  BY <1>6, <1>11 DEF SendWriteTask, WriteResult, DropWriteResult, WriterExit
<1> QED
  BY <1>1, <1>2, <1>3, <1>4, <1>5, <1>7, <1>8, <1>9, <1>10, <1>11
     DEF Next, EngineStep, Done, WriterStep

\* A crawl is a life of its peers: whatever the engine, its pools and its
\* driver do is a step of PeerLifecycle or none.
THEOREM LifeCorrect ==
  ASSUME ~DuplicateProcessing
  PROVE  Spec => ImplementsLife
<1>1. Init => Life!LifeInit
  BY InitLife
<1>2. EngineInv /\ EngineInv' /\ [Next]_vars => [Life!LifeNext]_(Life!lifeVars)
  BY NextLife
<1> QED
  BY <1>1, <1>2, EngineInvHolds, PTL DEF Spec, ImplementsLife, Life!LifeSpec
=============================================================================
