---------------------------- MODULE DriverProofs ----------------------------
(***************************************************************************)
(* Proofs about the engine under the drivers that talk back to it.         *)
(*                                                                         *)
(* "nebula monitor": the engine keeps its invariant with a driver that     *)
(* emits a peer again and again, and DialDriver.Close makes sure that      *)
(* monitorDatabase never sends on a closed channel.                        *)
(*                                                                         *)
(* "nebula crawl --gossipsub-px": the count monitorGossipSubPX keeps of    *)
(* the busy crawlers, for any number of crawlers and streams, and the      *)
(* natural end of the engine with this driver.                             *)
(***************************************************************************)
EXTENDS Monitor, GossipPX, EngineProofs

-----------------------------------------------------------------------------
(***************************************************************************)
(* nebula monitor.                                                         *)
(***************************************************************************)

\* Types.

MonTypes ==
  /\ dpc \in {"query", "emit", "tick", "stopped"}
  /\ due \subseteq Peers
  /\ rounds \in 0..MaxRounds

\* The order in which SelectPeersToProbe returns the due peers is a sequence.
LEMMA OrderIsSeq ==
  ASSUME NEW S, S \subseteq Peers, NEW order \in SetToSeqs(S)
  PROVE  [i \in DOMAIN order |-> [peer |-> order[i], addrs |-> AddrsOf[order[i]]]] \in Seq(Task)
<1> DEFINE tasks == [i \in DOMAIN order |-> [peer |-> order[i], addrs |-> AddrsOf[order[i]]]]
<1>1. order \in [1..Cardinality(S) -> S]
  BY DEF SetToSeqs
<1>2. Cardinality(S) \in Nat
  BY EngineAssumption, FS_Subset, FS_CardinalityType
<1>3. tasks \in [1..Cardinality(S) -> Task]
  BY <1>1, MonitorAssumption DEF Task
<1> QED
  BY <1>2, <1>3

\* monitorDatabase has stopped whenever its channel is closed, and that is when
\* the engine gets past driver.Close: the natural end needs the channel closed
\* as much as a cancelled run does.
DriverInv ==
  /\ ~driverOpen => dpc = "stopped"
  /\ ~tasksOpen => ~driverOpen
  /\ pc \in {"drainPeers", "drainWrites", "cancelledReturn"} => ~driverOpen

MonInv == EngineInv /\ MonTypes /\ DriverInv

LEMMA InitMon == MonInit => MonInv
<1>1. MonInit => EngineInv
  BY InitEngine DEF MonInit
<1>2. MonInit => MonTypes /\ DriverInv
  BY MonitorAssumption DEF MonInit, MonTypes, DriverInv, Init
<1> QED
  BY <1>1, <1>2 DEF MonInv

\* The engine's own steps neither close the channel nor start the monitor.
LEMMA EngineLeavesDriver ==
  ASSUME EngineStep
  PROVE  driverOpen' = driverOpen
<1> USE DEF driverVars
<1>1. CASE LoopTurn \/ NaturalEnd \/ Return \/ RecvTask \/ TasksClosed
  BY <1>1 DEF LoopTurn, NaturalEnd, Return, RecvTask, TasksClosed
<1>2. CASE PeerResultsClosed \/ WriterResultsClosed \/ CtxDone \/ CloseTasks
           \/ PeersDrained \/ WritesDrained
  BY <1>2 DEF PeerResultsClosed, WriterResultsClosed, CtxDone, CloseTasks, PeersDrained,
              WritesDrained
<1>3. ASSUME NEW w \in Workers, SendPeerTask(w) \/ PeerResult(w) \/ DropPeerResult(w)
      PROVE  driverOpen' = driverOpen
  BY <1>3 DEF SendPeerTask, PeerResult, DropPeerResult
<1>4. ASSUME NEW x \in Writers, SendWriteTask(x) \/ WriteResult(x) \/ DropWriteResult(x)
      PROVE  driverOpen' = driverOpen
  BY <1>4 DEF SendWriteTask, WriteResult, DropWriteResult
<1> QED
  BY <1>1, <1>2, <1>3, <1>4 DEF EngineStep

\* The engine notes the end of the driver's tasks only when the channel is
\* closed, and drains only after driver.Close.
LEMMA EngineRespectsClose ==
  ASSUME DriverInv, EngineStep, pc = "closing" => ~driverOpen
  PROVE  /\ ~tasksOpen' => ~driverOpen
         /\ pc' \in {"drainPeers", "drainWrites", "cancelledReturn"} => ~driverOpen
<1> USE DEF DriverInv, driverVars
<1>1. CASE LoopTurn \/ NaturalEnd \/ Return \/ RecvTask \/ TasksClosed
  BY <1>1 DEF LoopTurn, NaturalEnd, Return, RecvTask, TasksClosed
<1>2. CASE PeerResultsClosed \/ WriterResultsClosed \/ CtxDone \/ CloseTasks
           \/ PeersDrained \/ WritesDrained
  BY <1>2 DEF PeerResultsClosed, WriterResultsClosed, CtxDone, CloseTasks, PeersDrained,
              WritesDrained
<1>3. ASSUME NEW w \in Workers, SendPeerTask(w) \/ PeerResult(w) \/ DropPeerResult(w)
      PROVE  UNCHANGED tasksOpen /\ (pc' = pc \/ pc' = "turn")
  BY <1>3 DEF SendPeerTask, PeerResult, DropPeerResult
<1>4. ASSUME NEW x \in Writers, SendWriteTask(x) \/ WriteResult(x) \/ DropWriteResult(x)
      PROVE  UNCHANGED tasksOpen /\ (pc' = pc \/ pc' = "turn")
  BY <1>4 DEF SendWriteTask, WriteResult, DropWriteResult
<1> QED
  BY <1>1, <1>2, <1>3, <1>4 DEF EngineStep

LEMMA NextMon == MonInv /\ [MonNext]_monAllVars => MonInv'
<1> SUFFICES ASSUME MonInv, [MonNext]_monAllVars PROVE MonInv'
  OBVIOUS
<1> USE DEF MonInv
<1>e. ASSUME [Next]_vars PROVE EngineInv'
  BY <1>e, NextEngine
<1>d. ASSUME DriverMoves PROVE EngineInv'
  BY <1>d, DriverKeeps
<1>t. toEmit \in Seq(Task) /\ driverOpen \in BOOLEAN
  BY DEF EngineInv, TypeInv, TypeOK
<1>1. CASE MonEngineStep
  <2>1. EngineStep /\ (pc = "closing" => ~driverOpen) /\ UNCHANGED monVars
    BY <1>1 DEF MonEngineStep
  <2>2. EngineInv'
    BY <2>1, <1>e DEF Next
  <2>3. DriverInv'
    BY <2>1, EngineLeavesDriver, EngineRespectsClose DEF DriverInv, monVars
  <2> QED
    BY <2>1, <2>2, <2>3 DEF MonTypes, monVars
<1>2. CASE CloseTaskQueue
  <2>1. DriverCloses /\ dpc = "stopped" /\ UNCHANGED monVars
    BY <1>2 DEF CloseTaskQueue
  <2>2. EngineInv'
    BY <2>1, <1>e DEF Next
  <2> QED
    BY <2>1, <2>2 DEF MonTypes, DriverInv, DriverCloses, monVars
<1>3. CASE QuerySucceeds
  <2>1. PICK order \in SetToSeqs(due) :
          toEmit' = [i \in DOMAIN order |-> [peer |-> order[i], addrs |-> AddrsOf[order[i]]]]
    BY <1>3 DEF QuerySucceeds
  <2>2. toEmit' \in Seq(Task)
    BY <2>1, OrderIsSeq DEF MonTypes
  <2>3. DriverMoves
    BY <1>3, <1>t, <2>2 DEF QuerySucceeds, DriverMoves
  <2>4. MonTypes' /\ DriverInv'
    BY <1>3, MonitorAssumption DEF QuerySucceeds, MonTypes, DriverInv
  <2> QED
    BY <2>3, <2>4, <1>d
<1>4. CASE EmitEnds
  <2>1. DriverMoves
    BY <1>4, <1>t DEF EmitEnds, DriverMoves
  <2>2. MonTypes' /\ DriverInv'
    BY <1>4 DEF EmitEnds, MonTypes, DriverInv
  <2> QED
    BY <2>1, <2>2, <1>d
<1>5. CASE QueryFails \/ Tick \/ Stop
  <2>1. UNCHANGED vars
    BY <1>5 DEF QueryFails, Tick, Stop
  <2>2. MonTypes' /\ DriverInv'
    BY <1>5, <2>1 DEF QueryFails, Tick, Stop, MonTypes, DriverInv, vars, driverVars
  <2> QED
    BY <2>1, <2>2, <1>e
<1>6. ASSUME NEW w \in Workers, MonWorkerStep(w) PROVE MonInv'
  <2>1. EngineInv'
    BY <1>6, <1>e DEF MonWorkerStep, Next
  <2> QED
    BY <1>6, <2>1 DEF MonWorkerStep, WorkerStep, Work, WorkerExit, MonTypes, DriverInv, monVars,
                      driverVars
<1>7. ASSUME NEW x \in Writers, MonWriterStep(x) PROVE MonInv'
  <2>1. EngineInv'
    BY <1>7, <1>e DEF MonWriterStep, MonWrite, WriterStep, Next
  <2> QED
    BY <1>7, <2>1 DEF MonWriterStep, MonWrite, Write, WriterExit, MonTypes, DriverInv, monVars,
                      driverVars
<1>8. ASSUME NEW p \in Peers, BecomeDue(p) PROVE MonInv'
  <2>1. EngineInv'
    BY <1>8, <1>e DEF BecomeDue
  <2> QED
    BY <1>8, <2>1 DEF BecomeDue, MonTypes, DriverInv, vars, driverVars
<1>9. CASE Cancel /\ UNCHANGED monVars
  <2>1. EngineInv'
    BY <1>9, <1>e DEF Next
  <2> QED
    BY <1>9, <2>1 DEF Cancel, MonTypes, DriverInv, monVars, driverVars
<1>10. CASE UNCHANGED monAllVars \/ (Done /\ UNCHANGED monVars)
  <2>1. UNCHANGED vars /\ UNCHANGED monVars
    BY <1>10 DEF monAllVars, Done
  <2> QED
    BY <2>1, <1>e DEF MonTypes, DriverInv, vars, monVars, driverVars
<1> QED
  BY <1>1, <1>2, <1>3, <1>4, <1>5, <1>6, <1>7, <1>8, <1>9, <1>10 DEF MonNext, DriverStep

LEMMA MonInvHolds == MonSpec => []MonInv
BY InitMon, NextMon, PTL DEF MonSpec

-----------------------------------------------------------------------------
\* The inflight map is what the workers hold also when the driver emits a peer
\* again that is queued or being dialed.
THEOREM MonitorHoldsInflight == MonSpec => []InflightIsHeld
<1>1. MonInv => InflightIsHeld
  BY DEF MonInv, EngineInv, HeldInv
<1> QED
  BY <1>1, MonInvHolds, PTL

\* monitorDatabase never sends on a closed channel, and is gone when Run returns.
\* A run that ends by itself would need the workers to have left, hence their
\* task channel closed, hence the driver's channel closed.
THEOREM MonitorStopsFirst == MonSpec => []NoSendAfterClose
<1>1. ASSUME MonInv PROVE NoSendAfterClose
  <2>1. MonTypeOK
    BY <1>1 DEF MonInv, EngineInv, TypeInv, MonTypes, MonTypeOK
  <2>2. pc = "returned" => ~driverOpen
    BY <1>1, EndIsComplete DEF MonInv, DriverInv
  <2> QED
    BY <1>1, <2>1, <2>2 DEF NoSendAfterClose, Returned, MonInv, DriverInv
<1> QED
  BY <1>1, MonInvHolds, PTL

-----------------------------------------------------------------------------
(***************************************************************************)
(* nebula crawl --gossipsub-px.                                            *)
(***************************************************************************)

\* Counting announcements.

\* How many of the first k announcements of a channel are s.
Count(chan, k, s) == Cardinality({i \in 1..k : chan[i] = s})

LEMMA CountType ==
  ASSUME NEW chan, NEW k \in Nat, NEW s
  PROVE  IsFiniteSet({i \in 1..k : chan[i] = s}) /\ Count(chan, k, s) \in Nat
<1>1. IsFiniteSet(1..k)
  BY FS_Interval
<1>2. {i \in 1..k : chan[i] = s} \in SUBSET (1..k)
  OBVIOUS
<1> QED
  BY <1>1, <1>2, FS_Subset, FS_CardinalityType DEF Count

LEMMA CountNone ==
  ASSUME NEW chan, NEW s
  PROVE  Count(chan, 0, s) = 0
<1>1. {i \in 1..0 : chan[i] = s} = {}
  OBVIOUS
<1> QED
  BY <1>1, FS_EmptySet DEF Count

\* One announcement more.
LEMMA CountNext ==
  ASSUME NEW chan, NEW k \in Nat, NEW s
  PROVE  Count(chan, k + 1, s) = Count(chan, k, s) + (IF chan[k + 1] = s THEN 1 ELSE 0)
<1> DEFINE A == {i \in 1..k : chan[i] = s}
           B == {i \in 1..(k + 1) : chan[i] = s}
<1>1. IsFiniteSet(A) /\ Cardinality(A) \in Nat
  BY CountType DEF Count
<1>2. CASE chan[k + 1] = s
  <2>1. B = A \cup {k + 1} /\ k + 1 \notin A
    BY <1>2
  <2> HIDE DEF A, B
  <2>2. Cardinality(B) = Cardinality(A) + 1
    BY <1>1, <2>1, FS_AddElement
  <2> QED
    BY <1>2, <2>2 DEF Count, A, B
<1>3. CASE chan[k + 1] # s
  <2>1. B = A
    BY <1>3
  <2> HIDE DEF A, B
  <2> QED
    BY <1>1, <1>3, <2>1 DEF Count, A, B
<1> QED
  BY <1>2, <1>3

\* Two channels that agree on their first k announcements.
LEMMA CountSame ==
  ASSUME NEW chan, NEW other, NEW k \in Nat, NEW s, \A i \in 1..k : other[i] = chan[i]
  PROVE  Count(other, k, s) = Count(chan, k, s)
<1>1. {i \in 1..k : other[i] = s} = {i \in 1..k : chan[i] = s}
  OBVIOUS
<1> QED
  BY <1>1 DEF Count

\* An announcement is added.
LEMMA CountAppend ==
  ASSUME NEW T, NEW chan \in Seq(T), NEW e \in T, NEW s
  PROVE  /\ \A k \in 0..Len(chan) : Count(Append(chan, e), k, s) = Count(chan, k, s)
         /\ Count(Append(chan, e), Len(chan) + 1, s)
              = Count(chan, Len(chan), s) + (IF e = s THEN 1 ELSE 0)
<1> DEFINE n == Len(chan)
           longer == Append(chan, e)
<1>1. n \in Nat /\ longer[n + 1] = e /\ \A i \in 1..n : longer[i] = chan[i]
  OBVIOUS
<1> HIDE DEF n, longer
<1>2. ASSUME NEW k \in 0..n PROVE Count(longer, k, s) = Count(chan, k, s)
  <2>1. k \in Nat /\ \A i \in 1..k : longer[i] = chan[i]
    BY <1>1
  <2> QED
    BY <2>1, CountSame
<1>3. Count(longer, n + 1, s) = Count(longer, n, s) + (IF longer[n + 1] = s THEN 1 ELSE 0)
  BY <1>1, CountNext
<1>4. Count(longer, n, s) = Count(chan, n, s)
  BY <1>1, <1>2
<1>5. Count(longer, n + 1, s) = Count(chan, n, s) + (IF e = s THEN 1 ELSE 0)
  BY <1>1, <1>3, <1>4
<1> QED
  BY <1>2, <1>5 DEF n, longer

\* The first announcement is taken off.
LEMMA CountTail ==
  ASSUME NEW T, NEW chan \in Seq(T), chan # <<>>, NEW k \in 0..(Len(chan) - 1), NEW s
  PROVE  Count(chan, k + 1, s) = (IF Head(chan) = s THEN 1 ELSE 0) + Count(Tail(chan), k, s)
<1> DEFINE A == {i \in 1..k : Tail(chan)[i] = s}
           B == {i \in 2..(k + 1) : chan[i] = s}
           C == {i \in 1..(k + 1) : chan[i] = s}
           f == [i \in A |-> i + 1]
<1>1. k \in Nat /\ Len(chan) \in Nat /\ \A i \in 1..k : Tail(chan)[i] = chan[i + 1]
  OBVIOUS
<1>2. f \in Bijection(A, B)
  <2>1. f \in [A -> B]
    BY <1>1
  <2>2. \A i, j \in A : f[i] = f[j] => i = j
    BY <1>1
  <2>3. \A j \in B : \E i \in A : f[i] = j
    <3> TAKE j \in B
    <3>1. j - 1 \in 1..k /\ (j - 1) + 1 = j
      BY <1>1
    <3>2. j - 1 \in A
      BY <1>1, <3>1
    <3> QED
      BY <3>1, <3>2
  <2> HIDE DEF f, A, B
  <2> QED
    BY <2>1, <2>2, <2>3 DEF Bijection, Injection, Surjection, IsInjective
<1>3. IsFiniteSet(A) /\ Cardinality(A) \in Nat
  BY <1>1, CountType DEF Count
<1>4. IsFiniteSet(B) /\ Cardinality(B) = Cardinality(A)
  <2> HIDE DEF f, A, B
  <2> QED
    BY <1>2, <1>3, FS_Bijection DEF ExistsBijection
<1>5. chan[1] = Head(chan)
  OBVIOUS
<1>c. Count(chan, k + 1, s) = Cardinality(C) /\ Count(Tail(chan), k, s) = Cardinality(A)
  BY DEF Count
<1>6. CASE chan[1] = s
  <2>1. C = B \cup {1} /\ 1 \notin B
    BY <1>1, <1>6
  <2> HIDE DEF f, A, B, C
  <2>2. Cardinality(C) = Cardinality(A) + 1
    BY <1>4, <2>1, FS_AddElement
  <2> QED
    BY <1>3, <1>5, <1>6, <1>c, <2>2
<1>7. CASE chan[1] # s
  <2>1. C = B
    BY <1>1, <1>7
  <2> HIDE DEF f, A, B, C
  <2> QED
    BY <1>3, <1>4, <1>5, <1>7, <1>c, <2>1
<1> QED
  BY <1>6, <1>7

-----------------------------------------------------------------------------
\* Invariants.

PxTypes ==
  /\ Len(toEmit) <= TaskCap
  /\ stateChan \in Seq({"busy", "idle"}) /\ Len(stateChan) <= Cardinality(Workers)
  /\ crawling \subseteq Workers
  /\ mpc \in {"select", "emit", "stopped"}
  /\ timerSet \in BOOLEAN
  /\ batch \in Seq(Task) /\ (mpc = "emit" <=> batch # <<>>)
  /\ hpc \in [Handlers -> {"reading", "sending", "done"}]
  /\ found \in [Handlers -> Exchanges \cup {<<>>}]
  /\ spc \in {"none", "hosts", "draining", "done"}
  /\ pxClosed \in BOOLEAN
  /\ crashed \in BOOLEAN

\* A handler that sends has read peers.
FoundInv == \A h \in Handlers : hpc[h] = "sending" => found[h] \in Exchanges

\* The monitor's count once it has received the first k announcements.
BusyAfter(k) == busyWorkers + Count(stateChan, k, "busy") - Count(stateChan, k, "idle")

\* The accounts balance, and at no point of the channel has the monitor seen
\* more "idle" than "busy", or its count would not stay a count.
CountInv ==
  /\ busyWorkers \in 0..Cardinality(Workers)
  /\ mpc # "stopped" =>
       /\ \A k \in 0..Len(stateChan) : BusyAfter(k) \in 0..Cardinality(Workers)
       /\ BusyAfter(Len(stateChan)) = Cardinality(crawling)
  /\ timerSet => busyWorkers = 0

PxInv == EngineInv /\ PxTypes /\ FoundInv /\ CountInv

LEMMA InitPx == PxInit => PxInv
<1> SUFFICES ASSUME PxInit PROVE PxInv
  OBVIOUS
<1> USE DEF PxInit
<1>1. EngineInv
  BY InitEngine
<1>2. Cardinality(Workers) \in Nat
  BY EngineAssumption, FS_CardinalityType
<1>3. PxTypes
  <2>1. Len(toEmit) <= TaskCap
    BY GossipPXAssumption DEF Init
  <2>2. stateChan \in Seq({"busy", "idle"}) /\ Len(stateChan) <= Cardinality(Workers)
    BY <1>2
  <2>3. batch \in Seq(Task) /\ ~(mpc = "emit") /\ batch = <<>>
    OBVIOUS
  <2>4. hpc \in [Handlers -> {"reading", "sending", "done"}]
        /\ found \in [Handlers -> Exchanges \cup {<<>>}]
    OBVIOUS
  <2> QED
    BY <2>1, <2>2, <2>3, <2>4 DEF PxTypes
<1>4. FoundInv
  BY DEF FoundInv
<1>5. CountInv
  <2>1. Len(stateChan) = 0 /\ Cardinality(crawling) = 0
    BY FS_EmptySet
  <2>2. \A k \in 0..Len(stateChan) : BusyAfter(k) = 0
    BY <2>1, CountNone DEF BusyAfter
  <2> QED
    BY <1>2, <2>1, <2>2 DEF CountInv
<1> QED
  BY <1>1, <1>3, <1>4, <1>5 DEF PxInv

\* What the engine does to the task channel: nothing, or take the first task.
LEMMA EngineTakesTasks ==
  ASSUME TypeInv, EngineStep
  PROVE  toEmit' = toEmit \/ (toEmit # <<>> /\ toEmit' = Tail(toEmit))
<1> USE DEF driverVars
<1>1. CASE LoopTurn \/ NaturalEnd \/ Return \/ RecvTask \/ TasksClosed
  BY <1>1 DEF LoopTurn, NaturalEnd, Return, RecvTask, TasksClosed
<1>2. CASE PeerResultsClosed \/ WriterResultsClosed \/ CtxDone \/ CloseTasks
           \/ PeersDrained \/ WritesDrained
  BY <1>2 DEF PeerResultsClosed, WriterResultsClosed, CtxDone, CloseTasks, PeersDrained,
              WritesDrained
<1>3. ASSUME NEW w \in Workers, SendPeerTask(w) \/ PeerResult(w) \/ DropPeerResult(w)
      PROVE  toEmit' = toEmit
  BY <1>3 DEF SendPeerTask, PeerResult, DropPeerResult
<1>4. ASSUME NEW x \in Writers, SendWriteTask(x) \/ WriteResult(x) \/ DropWriteResult(x)
      PROVE  toEmit' = toEmit
  BY <1>4 DEF SendWriteTask, WriteResult, DropWriteResult
<1> QED
  BY <1>1, <1>2, <1>3, <1>4 DEF EngineStep

LEMMA TailShorter ==
  ASSUME NEW T, NEW s \in Seq(T), s # <<>>
  PROVE  Tail(s) \in Seq(T) /\ Len(Tail(s)) = Len(s) - 1 /\ Len(s) \in Nat \ {0}
         /\ Head(s) \in T
OBVIOUS

\* A crawler announces s: the monitor will count it last.
LEMMA Announce ==
  ASSUME PxTypes, CountInv, NEW s \in {"busy", "idle"}, StateSlotFree,
         stateChan' = Append(stateChan, s), crawling' \subseteq Workers,
         Cardinality(crawling') = (IF s = "busy" THEN Cardinality(crawling) + 1
                                                 ELSE Cardinality(crawling) - 1),
         UNCHANGED <<busyWorkers, timerSet, mpc>>
  PROVE  CountInv'
<1>0. PICK n \in Nat : n = Len(stateChan)
  BY DEF PxTypes
<1>1. /\ Len(stateChan') = n + 1 /\ stateChan'[n + 1] = s
      /\ \A i \in 1..n : stateChan'[i] = stateChan[i]
  BY <1>0 DEF PxTypes
<1>2. Cardinality(Workers) \in Nat /\ Cardinality(crawling') \in 0..Cardinality(Workers)
  BY EngineAssumption, FS_CardinalityType, FS_Subset
<1>3. \A k \in 0..n : \A t \in {"busy", "idle"} : Count(stateChan', k, t) = Count(stateChan, k, t)
  <2> TAKE k \in 0..n
  <2> TAKE t \in {"busy", "idle"}
  <2>1. stateChan \in Seq({"busy", "idle"}) /\ k \in 0..Len(stateChan)
    BY <1>0 DEF PxTypes
  <2>2. \A j \in 0..Len(stateChan) : Count(Append(stateChan, s), j, t) = Count(stateChan, j, t)
    BY <2>1, CountAppend
  <2> QED
    BY <2>1, <2>2
<1>4. \A k \in 0..n : BusyAfter(k)' = BusyAfter(k)
  BY <1>3 DEF BusyAfter
<1>5. BusyAfter(n + 1)' = BusyAfter(n) + (IF s = "busy" THEN 1 ELSE -1)
  <2>1. \A t \in {"busy", "idle"} :
          Count(stateChan', n + 1, t) = Count(stateChan, n, t) + (IF s = t THEN 1 ELSE 0)
    BY <1>0, CountAppend DEF PxTypes
  <2>2. Count(stateChan, n, "busy") \in Nat /\ Count(stateChan, n, "idle") \in Nat
    BY <1>1, CountType
  <2>3. busyWorkers \in Nat
    BY <1>2 DEF CountInv
  <2>4. BusyAfter(n + 1)' = busyWorkers + Count(stateChan', n + 1, "busy")
                                        - Count(stateChan', n + 1, "idle")
    BY DEF BusyAfter
  <2> QED
    BY <2>1, <2>2, <2>3, <2>4 DEF BusyAfter
<1>6. ASSUME mpc # "stopped"
      PROVE  /\ \A k \in 0..(n + 1) : BusyAfter(k)' \in 0..Cardinality(Workers)
             /\ BusyAfter(n + 1)' = Cardinality(crawling')
  <2>1. BusyAfter(n) = Cardinality(crawling)
    BY <1>0, <1>6 DEF CountInv
  <2>2. Cardinality(crawling) \in Nat
    BY EngineAssumption, FS_CardinalityType, FS_Subset DEF PxTypes
  <2>3. BusyAfter(n + 1)' = Cardinality(crawling')
    BY <1>5, <2>1, <2>2
  <2>4. ASSUME NEW k \in 0..(n + 1)
        PROVE  BusyAfter(k)' \in 0..Cardinality(Workers)
    <3>1. CASE k \in 0..n
      BY <1>0, <1>4, <1>6, <3>1 DEF CountInv
    <3>2. CASE k = n + 1
      BY <1>2, <2>3, <3>2
    <3> QED
      BY <1>1, <3>1, <3>2
  <2> QED
    BY <2>3, <2>4
<1> QED
  BY <1>1, <1>6 DEF CountInv

\* The monitor receives the first announcement: what it will have counted then
\* is what it has counted now.
LEMMA Receive ==
  ASSUME PxTypes, CountInv, RecvState
  PROVE  CountInv'
<1>0. PICK n \in Nat : n = Len(stateChan)
  BY DEF PxTypes
<1>1. /\ mpc = "select" /\ mpc' = mpc /\ stateChan # <<>> /\ stateChan' = Tail(stateChan)
      /\ busyWorkers' = (IF Head(stateChan) = "busy" THEN busyWorkers + 1 ELSE busyWorkers - 1)
      /\ timerSet' = (busyWorkers' = 0) /\ crawling' = crawling
  BY DEF RecvState
<1>2. stateChan \in Seq({"busy", "idle"})
  BY DEF PxTypes
<1>3. n # 0 /\ Len(stateChan') = n - 1 /\ Head(stateChan) \in {"busy", "idle"}
  BY <1>0, <1>1, <1>2, TailShorter
<1>4. Cardinality(Workers) \in Nat /\ busyWorkers \in Nat
  BY EngineAssumption, FS_CardinalityType DEF CountInv
<1>5. ASSUME NEW k \in 0..(n - 1) PROVE BusyAfter(k)' = BusyAfter(k + 1)
  <2>1. \A s \in {"busy", "idle"} :
          Count(stateChan, k + 1, s)
            = (IF Head(stateChan) = s THEN 1 ELSE 0) + Count(stateChan', k, s)
    BY <1>0, <1>1, <1>2, CountTail
  <2>2. Count(stateChan', k, "busy") \in Nat /\ Count(stateChan', k, "idle") \in Nat
    <3>1. k \in Nat
      OBVIOUS
    <3> QED
      BY <3>1, CountType, Zenon
  <2>3. BusyAfter(k)' = busyWorkers' + Count(stateChan', k, "busy") - Count(stateChan', k, "idle")
    BY DEF BusyAfter
  <2>4. BusyAfter(k + 1) = busyWorkers + Count(stateChan, k + 1, "busy")
                                       - Count(stateChan, k + 1, "idle")
    BY DEF BusyAfter
  <2>5. CASE Head(stateChan) = "busy"
    <3>1. Count(stateChan, k + 1, "busy") = 1 + Count(stateChan', k, "busy")
          /\ Count(stateChan, k + 1, "idle") = 0 + Count(stateChan', k, "idle")
      BY <2>1, <2>5
    <3> QED
      BY <1>1, <1>4, <2>2, <2>3, <2>4, <2>5, <3>1
  <2>6. CASE Head(stateChan) = "idle"
    <3>1. Count(stateChan, k + 1, "busy") = 0 + Count(stateChan', k, "busy")
          /\ Count(stateChan, k + 1, "idle") = 1 + Count(stateChan', k, "idle")
      BY <2>1, <2>6
    <3> QED
      BY <1>1, <1>4, <2>2, <2>3, <2>4, <2>6, <3>1
  <2> QED
    BY <1>3, <2>5, <2>6
<1>6. \A k \in 0..(n - 1) : BusyAfter(k)' \in 0..Cardinality(Workers)
  BY <1>0, <1>1, <1>3, <1>5 DEF CountInv
<1>7. BusyAfter(Len(stateChan))' = Cardinality(crawling')
  BY <1>0, <1>1, <1>3, <1>5 DEF CountInv
<1>8. busyWorkers' \in 0..Cardinality(Workers)
  <2>1. BusyAfter(0)' = busyWorkers'
    <3>1. Count(stateChan', 0, "busy") = 0 /\ Count(stateChan', 0, "idle") = 0
      BY CountNone
    <3>2. busyWorkers' \in Int
      BY <1>1, <1>4
    <3>3. BusyAfter(0)' = busyWorkers' + Count(stateChan', 0, "busy")
                                       - Count(stateChan', 0, "idle")
      BY DEF BusyAfter
    <3> QED
      BY <3>1, <3>2, <3>3
  <2> QED
    BY <1>3, <1>6, <2>1
<1>9. timerSet' => busyWorkers' = 0
  BY <1>1
<1>10. mpc' # "stopped" => \A k \in 0..Len(stateChan') : BusyAfter(k)' \in 0..Cardinality(Workers)
  BY <1>3, <1>6
<1> QED
  BY <1>7, <1>8, <1>9, <1>10 DEF CountInv

\* Steps that leave the counts alone.
LEMMA CountKept ==
  ASSUME CountInv, UNCHANGED <<stateChan, crawling, busyWorkers>>,
         mpc' # "stopped" => mpc # "stopped", timerSet' = timerSet
  PROVE  CountInv'
<1>1. \A k : BusyAfter(k)' = BusyAfter(k)
  BY DEF BusyAfter
<1> QED
  BY <1>1 DEF CountInv

LEMMA CloseKeeps == driverOpen' = FALSE /\ UNCHANGED <<engineVars, toEmit>> /\ EngineInv => EngineInv'
BY DriverKeeps DEF DriverMoves, engineVars, EngineInv, TypeInv, TypeOK

LEMMA CrawlingCount ==
  ASSUME PxTypes
  PROVE  IsFiniteSet(crawling) /\ Cardinality(crawling) \in Nat
BY EngineAssumption, FS_Subset, FS_CardinalityType DEF PxTypes

\* The crawlers.
LEMMA NextCrawler ==
  ASSUME PxInv, NEW w \in Workers, AnnounceBusy(w) \/ AnnounceIdle(w)
  PROVE  PxInv'
<1> USE DEF PxInv
<1>0. Len(stateChan) \in Nat /\ Cardinality(Workers) \in Nat
  BY EngineAssumption, FS_CardinalityType DEF PxTypes
<1>f. IsFiniteSet(crawling) /\ Cardinality(crawling) \in Nat
  BY CrawlingCount
<1>1. CASE AnnounceBusy(w)
  <2>1. /\ UNCHANGED vars /\ w \notin crawling /\ StateSlotFree
        /\ stateChan' = Append(stateChan, "busy") /\ crawling' = crawling \cup {w}
        /\ UNCHANGED <<mpc, busyWorkers, timerSet, batch, hpc, found, spc, pxClosed, crashed>>
    BY <1>1 DEF AnnounceBusy
  <2>2. EngineInv'
    BY <2>1, NextEngine
  <2>3. Cardinality(crawling') = Cardinality(crawling) + 1
    BY <1>f, <2>1, FS_AddElement
  <2>4. crawling' \subseteq Workers
    BY <2>1 DEF PxTypes
  <2>5. CountInv'
    BY <2>1, <2>3, <2>4, Announce
  <2>6. PxTypes' /\ FoundInv'
    BY <1>0, <2>1, <2>4 DEF PxTypes, FoundInv, StateSlotFree, vars, driverVars
  <2> QED
    BY <2>2, <2>5, <2>6
<1>2. CASE AnnounceIdle(w)
  <2>1. /\ Work(w) /\ w \in crawling /\ StateSlotFree
        /\ stateChan' = Append(stateChan, "idle") /\ crawling' = crawling \ {w}
        /\ UNCHANGED <<mpc, busyWorkers, timerSet, batch, hpc, found, spc, pxClosed, crashed>>
    BY <1>2 DEF AnnounceIdle
  <2>2. EngineInv'
    BY <2>1, NextEngine DEF Next, WorkerStep
  <2>3. Cardinality(crawling') = Cardinality(crawling) - 1
    BY <1>f, <2>1, FS_RemoveElement
  <2>4. crawling' \subseteq Workers
    BY <2>1 DEF PxTypes
  <2>5. CountInv'
    BY <2>1, <2>3, <2>4, Announce
  <2>6. PxTypes' /\ FoundInv'
    BY <1>0, <2>1, <2>4 DEF PxTypes, FoundInv, StateSlotFree, Work, driverVars
  <2> QED
    BY <2>2, <2>5, <2>6
<1> QED
  BY <1>1, <1>2

\* monitorGossipSubPX.
LEMMA NextMonitor ==
  ASSUME PxInv, MonitorStep \/ TimerFires
  PROVE  PxInv'
<1> USE DEF PxInv
<1>t. toEmit \in Seq(Task) /\ driverOpen \in BOOLEAN
  BY DEF EngineInv, TypeInv, TypeOK
<1>1. CASE RecvState
  <2>1. EngineInv'
    BY <1>1, NextEngine DEF RecvState
  <2>2. CountInv'
    BY <1>1, Receive
  <2>3. stateChan' \in Seq({"busy", "idle"}) /\ Len(stateChan') <= Cardinality(Workers)
    <3>1. stateChan # <<>> /\ stateChan' = Tail(stateChan) /\ stateChan \in Seq({"busy", "idle"})
          /\ Len(stateChan) <= Cardinality(Workers)
      BY <1>1 DEF RecvState, PxTypes
    <3>2. Cardinality(Workers) \in Nat
      BY EngineAssumption, FS_CardinalityType
    <3> QED
      BY <3>1, <3>2, TailShorter
  <2>4. timerSet' \in BOOLEAN
    BY <1>1 DEF RecvState
  <2>5. PxTypes' /\ FoundInv'
    BY <1>1, <2>3, <2>4 DEF RecvState, PxTypes, FoundInv, vars, driverVars
  <2> QED
    BY <2>1, <2>2, <2>5
<1>2. CASE TimerFires \/ PxChanClosed
  <2>1. /\ mpc = "select" /\ mpc' = "stopped" /\ driverOpen' = FALSE
        /\ UNCHANGED <<engineVars, toEmit, stateChan, crawling, busyWorkers, timerSet, batch, hpc,
                       found, spc, pxClosed, crashed>>
    BY <1>2 DEF TimerFires, PxChanClosed
  <2>2. EngineInv'
    BY <2>1, CloseKeeps
  <2>3. CountInv'
    BY <2>1, CountKept
  <2>4. PxTypes' /\ FoundInv'
    BY <2>1 DEF PxTypes, FoundInv
  <2> QED
    BY <2>2, <2>3, <2>4
<1>3. ASSUME NEW h \in Handlers, RecvPx(h) PROVE PxInv'
  <2>1. /\ UNCHANGED vars /\ mpc = "select" /\ mpc' = "emit" /\ hpc[h] = "sending"
        /\ batch' = found[h]
        /\ hpc' = [hpc EXCEPT ![h] = "done"] /\ found' = [found EXCEPT ![h] = <<>>]
        /\ UNCHANGED <<stateChan, crawling, busyWorkers, timerSet, spc, pxClosed, crashed>>
    BY <1>3 DEF RecvPx
  <2>2. EngineInv'
    BY <2>1, NextEngine
  <2>3. CountInv'
    BY <2>1, CountKept
  <2>4. found[h] \in Seq(Task) /\ found[h] # <<>>
    BY <2>1, GossipPXAssumption DEF FoundInv
  <2>5. hpc' \in [Handlers -> {"reading", "sending", "done"}]
        /\ found' \in [Handlers -> Exchanges \cup {<<>>}]
    BY <2>1 DEF PxTypes
  <2>6. FoundInv'
    BY <2>1 DEF FoundInv, PxTypes
  <2>7. PxTypes'
    BY <2>1, <2>4, <2>5 DEF PxTypes, vars, driverVars
  <2> QED
    BY <2>2, <2>3, <2>6, <2>7
<1>4. CASE EmitPx
  <2>1. /\ mpc = "emit" /\ Len(toEmit) < TaskCap /\ toEmit' = Append(toEmit, Head(batch))
        /\ batch' = Tail(batch) /\ mpc' = (IF batch' = <<>> THEN "select" ELSE "emit")
        /\ UNCHANGED <<engineVars, driverOpen, stateChan, crawling, busyWorkers, timerSet, hpc,
                       found, spc, pxClosed, crashed>>
    BY <1>4 DEF EmitPx
  <2>2. Head(batch) \in Task /\ batch' \in Seq(Task)
    BY <2>1, TailShorter DEF PxTypes
  <2>3. toEmit' \in Seq(Task) /\ Len(toEmit') <= TaskCap
    BY <1>t, <2>1, <2>2, GossipPXAssumption
  <2>4. EngineInv'
    BY <1>t, <2>1, <2>3, DriverKeeps DEF DriverMoves, engineVars
  <2>5. CountInv'
    BY <2>1, CountKept
  <2>6. PxTypes' /\ FoundInv'
    BY <2>1, <2>2, <2>3 DEF PxTypes, FoundInv
  <2> QED
    BY <2>4, <2>5, <2>6
<1> QED
  BY <1>1, <1>2, <1>3, <1>4 DEF MonitorStep

\* The stream handlers.
LEMMA NextHandler ==
  ASSUME PxInv, NEW h \in Handlers, ReadPrune(h) \/ StreamReset(h) \/ SendOnClosed(h)
  PROVE  PxInv'
<1> USE DEF PxInv
<1>1. UNCHANGED vars /\ UNCHANGED <<stateChan, crawling, mpc, busyWorkers, timerSet, batch, spc,
                                    pxClosed>>
  BY DEF ReadPrune, StreamReset, SendOnClosed
<1>2. EngineInv'
  BY <1>1, NextEngine
<1>3. CountInv'
  BY <1>1, CountKept
<1>4. hpc' \in [Handlers -> {"reading", "sending", "done"}]
      /\ found' \in [Handlers -> Exchanges \cup {<<>>}] /\ crashed' \in BOOLEAN
  BY DEF ReadPrune, StreamReset, SendOnClosed, PxTypes
<1>5. PxTypes'
  BY <1>1, <1>4 DEF PxTypes, vars, driverVars
<1>6. FoundInv'
  BY DEF ReadPrune, StreamReset, SendOnClosed, PxTypes, FoundInv
<1> QED
  BY <1>2, <1>3, <1>5, <1>6

\* CrawlDriver.Close.
LEMMA NextShutdown ==
  ASSUME PxInv, ShutdownStep
  PROVE  PxInv'
<1> USE DEF PxInv
<1>t. toEmit \in Seq(Task) /\ driverOpen \in BOOLEAN
  BY DEF EngineInv, TypeInv, TypeOK
<1>1. CASE CallClose \/ HostsClosed \/ TasksDrained
  <2>1. /\ UNCHANGED vars
        /\ UNCHANGED <<stateChan, crawling, mpc, busyWorkers, timerSet, batch, hpc, found, crashed>>
        /\ spc' \in {"none", "hosts", "draining", "done"} /\ pxClosed' \in BOOLEAN
    BY <1>1 DEF CallClose, HostsClosed, TasksDrained, PxTypes
  <2>2. EngineInv'
    BY <2>1, NextEngine
  <2>3. CountInv'
    BY <2>1, CountKept
  <2>4. PxTypes' /\ FoundInv'
    BY <2>1 DEF PxTypes, FoundInv, vars, driverVars
  <2> QED
    BY <2>2, <2>3, <2>4
<1>2. CASE DrainTask
  <2>1. toEmit # <<>> /\ toEmit' = Tail(toEmit) /\ UNCHANGED <<engineVars, driverOpen, pxVars>>
    BY <1>2 DEF DrainTask
  <2>2. toEmit' \in Seq(Task) /\ Len(toEmit') = Len(toEmit) - 1 /\ Len(toEmit) \in Nat
    BY <1>t, <2>1, TailShorter
  <2>3. EngineInv'
    BY <1>t, <2>1, <2>2, DriverKeeps DEF DriverMoves, engineVars
  <2>4. CountInv'
    BY <2>1, CountKept DEF pxVars
  <2>5. Len(toEmit') <= TaskCap
    BY <2>2, GossipPXAssumption DEF PxTypes
  <2>6. PxTypes' /\ FoundInv'
    BY <2>1, <2>5 DEF PxTypes, FoundInv, pxVars
  <2> QED
    BY <2>3, <2>4, <2>6
<1> QED
  BY <1>1, <1>2 DEF ShutdownStep

LEMMA NextPx == PxInv /\ [PxNext]_pxAllVars => PxInv'
<1> SUFFICES ASSUME PxInv, [PxNext]_pxAllVars PROVE PxInv'
  OBVIOUS
<1>1. ASSUME UNCHANGED pxVars, [Next]_vars,
             toEmit' = toEmit \/ (toEmit # <<>> /\ toEmit' = Tail(toEmit))
      PROVE  PxInv'
  <2>1. EngineInv'
    BY <1>1, NextEngine DEF PxInv
  <2>2. CountInv'
    BY <1>1, CountKept DEF PxInv, pxVars
  <2>3. Len(toEmit') <= TaskCap
    <3>1. Len(toEmit) <= TaskCap /\ TaskCap \in Nat /\ toEmit \in Seq(Task)
      BY GossipPXAssumption DEF PxInv, PxTypes, EngineInv, TypeInv, TypeOK
    <3>2. CASE toEmit' = toEmit
      BY <3>1, <3>2
    <3>3. CASE toEmit # <<>> /\ toEmit' = Tail(toEmit)
      <4>1. Len(toEmit') = Len(toEmit) - 1 /\ Len(toEmit) \in Nat
        BY <3>1, <3>3, TailShorter
      <4> QED
        BY <3>1, <4>1
    <3> QED
      BY <1>1, <3>2, <3>3
  <2>4. PxTypes' /\ FoundInv'
    BY <1>1, <2>3 DEF PxInv, PxTypes, FoundInv, pxVars
  <2> QED
    BY <2>1, <2>2, <2>4 DEF PxInv
<1>2. CASE PxEngineStep
  <2>1. EngineStep /\ UNCHANGED pxVars /\ TypeInv
    BY <1>2 DEF PxEngineStep, PxInv, EngineInv
  <2>2. toEmit' = toEmit \/ (toEmit # <<>> /\ toEmit' = Tail(toEmit))
    BY <2>1, EngineTakesTasks
  <2> QED
    BY <1>1, <2>1, <2>2 DEF Next
<1>3. CASE MonitorStep \/ TimerFires
  BY <1>3, NextMonitor
<1>4. CASE ShutdownStep
  BY <1>4, NextShutdown
<1>5. ASSUME NEW h \in Handlers, ReadPrune(h) \/ StreamReset(h) \/ SendOnClosed(h) PROVE PxInv'
  BY <1>5, NextHandler
<1>6. ASSUME NEW w \in Workers, PxWorkerStep(w) PROVE PxInv'
  <2>1. CASE WorkerExit(w) /\ UNCHANGED pxVars
    <3>1. toEmit' = toEmit
      BY <2>1 DEF WorkerExit, driverVars
    <3> QED
      BY <1>1, <2>1, <3>1 DEF Next, WorkerStep
  <2> QED
    BY <1>6, <2>1, NextCrawler DEF PxWorkerStep
<1>7. ASSUME NEW x \in Writers, PxWriterStep(x) PROVE PxInv'
  <2>1. toEmit' = toEmit
    BY <1>7 DEF PxWriterStep, WriterStep, Write, WriterExit, driverVars
  <2> QED
    BY <1>1, <1>7, <2>1 DEF PxWriterStep, Next
<1>8. CASE Cancel /\ UNCHANGED pxVars
  <2>1. toEmit' = toEmit
    BY <1>8 DEF Cancel, driverVars
  <2> QED
    BY <1>1, <1>8, <2>1 DEF Next
<1>9. CASE UNCHANGED pxAllVars
  <2>1. toEmit' = toEmit /\ UNCHANGED vars /\ UNCHANGED pxVars
    BY <1>9 DEF pxAllVars, vars, driverVars
  <2> QED
    BY <1>1, <2>1
<1> QED
  BY <1>2, <1>3, <1>4, <1>5, <1>6, <1>7, <1>8, <1>9 DEF PxNext

LEMMA PxInvHolds == PxSpec => []PxInv
BY InitPx, NextPx, PTL DEF PxSpec

-----------------------------------------------------------------------------
\* The monitor's count and the announcements on their way add up to the workers
\* that are crawling, and the timer is set only on a count of zero.
THEOREM BusyAccounts == PxSpec => []BusyAccounting
<1>1. ASSUME PxInv PROVE BusyAccounting
  <2>1. PxTypeOK
    BY <1>1 DEF PxInv, PxTypeOK, PxTypes, CountInv, EngineInv, TypeInv
  <2>2. timerSet => busyWorkers = 0
    BY <1>1 DEF PxInv, CountInv
  <2>3. ASSUME mpc # "stopped"
        PROVE  busyWorkers + Announced("busy") = Cardinality(crawling) + Announced("idle")
    <3>1. DOMAIN stateChan = 1..Len(stateChan) /\ Len(stateChan) \in Nat
      BY <1>1 DEF PxInv, PxTypes
    <3>2. Announced("busy") = Count(stateChan, Len(stateChan), "busy")
          /\ Announced("idle") = Count(stateChan, Len(stateChan), "idle")
      BY <3>1 DEF Announced, Count
    <3>3. Announced("busy") \in Nat /\ Announced("idle") \in Nat
      BY <3>1, <3>2, CountType
    <3>4. BusyAfter(Len(stateChan)) = Cardinality(crawling) /\ busyWorkers \in Nat
      BY <1>1, <2>1, <2>3 DEF PxInv, CountInv, PxTypeOK
    <3>5. Cardinality(crawling) \in Nat
      BY <1>1, CrawlingCount DEF PxInv
    <3> QED
      BY <3>2, <3>3, <3>4, <3>5 DEF BusyAfter
  <2> QED
    BY <2>1, <2>2, <2>3 DEF BusyAccounting
<1> QED
  BY <1>1, PxInvHolds, PTL

\* A crawl with peer exchange that returns without an error has visited and
\* stored every peer it has heard of, those of the exchanges included.
THEOREM ExchangeEndCorrect == PxSpec => []NaturalEndComplete
<1>1. PxInv => NaturalEndComplete
  BY EndAddsUp DEF PxInv
<1> QED
  BY <1>1, PxInvHolds, PTL
=============================================================================
