----------------------------- MODULE Telemetry -----------------------------
(***************************************************************************)
(* The gauges of the engine.  A gauge's callback runs in a goroutine of    *)
(* the metrics SDK and hands a function over obsChan to the engine's loop, *)
(* which runs it between two other events.  When the engine is cancelled   *)
(* it drains its pools and stops the telemetry; when it ends by itself it  *)
(* does not.                                                               *)
(*                                                                         *)
(* Callbacks register with a WaitGroup, of which newTelemetry puts a copy  *)
(* into the struct that Stop belongs to: Stop waits for the copy, whose    *)
(* counter stays what it was then.                                         *)
(***************************************************************************)
EXTENDS Integers

CONSTANT Callback   \* gauges whose callbacks may be underway at once

VARIABLES
  loop,       \* the goroutine of newTelemetry, then of Engine.Run
  shutdown,   \* the channel shutdown is closed
  obsOpen,    \* the channel obsChan is open
  waiting,    \* counter of the WaitGroup the callbacks know
  copied,     \* counter of the copy in the struct
  callback    \* where each callback is

vars == <<loop, shutdown, obsOpen, waiting, copied, callback>>

TeleInit ==
  /\ loop = "creating"
  /\ shutdown = FALSE /\ obsOpen = TRUE
  /\ waiting = 0 /\ copied = 0
  /\ callback = [c \in Callback |-> "idle"]

\* newTelemetry returns.  Gauges it has registered may have been called by now.
Created ==
  /\ loop = "creating"
  /\ loop' = "running" /\ copied' = waiting
  /\ UNCHANGED <<shutdown, obsOpen, waiting, callback>>

\* The SDK collects: the callback enters and looks whether it is too late.
Enter(c) ==
  /\ callback[c] = "idle"
  /\ waiting' = waiting + 1
  /\ callback' = [callback EXCEPT ![c] = "check"]
  /\ UNCHANGED <<loop, shutdown, obsOpen, copied>>

LeaveWith(c) ==
  /\ waiting' = waiting - 1
  /\ callback' = [callback EXCEPT ![c] = "idle"]

Check(c) ==
  /\ callback[c] = "check"
  /\ IF shutdown THEN LeaveWith(c)
     ELSE callback' = [callback EXCEPT ![c] = "select"] /\ UNCHANGED waiting
  /\ UNCHANGED <<loop, shutdown, obsOpen, copied>>

\* The select: the loop takes the function, or shutdown has been closed, or
\* the channel it sends on has.
Observe(c) ==
  /\ callback[c] = "select" /\ obsOpen /\ loop = "running"
  /\ LeaveWith(c)
  /\ UNCHANGED <<loop, shutdown, obsOpen, copied>>

SeeShutdown(c) ==
  /\ callback[c] = "select" /\ shutdown
  /\ LeaveWith(c)
  /\ UNCHANGED <<loop, shutdown, obsOpen, copied>>

SendOnClosed(c) ==
  /\ callback[c] = "select" /\ ~obsOpen
  /\ callback' = [callback EXCEPT ![c] = "panic"]
  /\ UNCHANGED <<loop, shutdown, obsOpen, waiting, copied>>

\* The context is done: the loop leaves the select and drains the pools.
CtxDone ==
  /\ loop = "running"
  /\ loop' = "draining"
  /\ UNCHANGED <<shutdown, obsOpen, waiting, copied, callback>>

\* Stop.
CloseShutdown ==
  /\ loop = "draining"
  /\ shutdown' = TRUE
  /\ loop' = "stopping"
  /\ UNCHANGED <<obsOpen, waiting, copied, callback>>

CloseObsChan ==
  /\ loop = "stopping" /\ copied = 0
  /\ obsOpen' = FALSE
  /\ loop' = "returned"
  /\ UNCHANGED <<shutdown, waiting, copied, callback>>

NaturalEnd ==
  /\ loop = "running"
  /\ loop' = "returned"
  /\ UNCHANGED <<shutdown, obsOpen, waiting, copied, callback>>

Next ==
  \/ Created \/ CtxDone \/ CloseShutdown \/ CloseObsChan \/ NaturalEnd
  \/ \E c \in Callback :
       Enter(c) \/ Check(c) \/ Observe(c) \/ SeeShutdown(c) \/ SendOnClosed(c)

Spec == TeleInit /\ [][Next]_vars

\* Stop closes obsChan only when no callback is left that could send on it, as
\* its Wait is there to see to.  The code does not do so.
NoSendAfterStop == \A c \in Callback : callback[c] # "panic"
=============================================================================
