------------------------------ MODULE Dialer ------------------------------
(***************************************************************************)
(* Dialer.Work: the visit of a monitored peer.  Up to three attempts, with *)
(* a pause after each failed one, which some errors and a cancellation cut *)
(* short.  How long a pause is (ten seconds per attempt, seventy after a   *)
(* refusal) is left to the clock of the module that composes this one.     *)
(***************************************************************************)
EXTENDS Integers

CONSTANTS
  Workers,     \* the dialers of the pool
  NetErrors    \* the errors of DialPeer, as db.NetError names them

MaxAttempts == 3
Canceled == "canceled"
Refused == "connection_refused"

\* The errors another attempt cannot mend.
GiveUpAtOnce == {"peer_id_mismatch", "no_ip_address", "no_good_addresses"}

VARIABLES
  dial,    \* what each dialer does; reached is history: an attempt succeeded
  ctxDone  \* the context of the pool

dialVars == <<dial, ctxDone>>

NoDial == [pc |-> "idle"]

DialInit ==
  /\ dial = [d \in Workers |-> NoDial]
  /\ ctxDone = FALSE

StartDial(d, p, time) ==
  /\ dial[d] = NoDial
  /\ dial' = [dial EXCEPT ![d] = [pc |-> "dial", peer |-> p, start |-> time, retry |-> 0,
                                  error |-> "none", reached |-> FALSE]]

DialSucceeds_KeepsErrorBug(d) ==
  /\ dial[d].pc = "dial"
  /\ dial' = [dial EXCEPT ![d].pc = "close", ![d].reached = TRUE]
DialSucceeds(d) ==
  /\ dial[d].pc = "dial"
  /\ dial' = [dial EXCEPT ![d].pc = "close", ![d].error = "none", ![d].reached = TRUE]

\* A peer that refuses a second time or later is not dialed again.
Hopeless(d, error) ==
  \/ error \in GiveUpAtOnce
  \/ error = Refused /\ dial[d].retry >= 1

DialFails(d, error) ==
  /\ dial[d].pc = "dial"
  /\ dial' = [dial EXCEPT ![d].pc = IF Hopeless(d, error) THEN "close" ELSE "pause",
                          ![d].error = error]

DialCanceled(d) ==
  /\ dial[d].pc = "dial" /\ ctxDone
  /\ dial' = [dial EXCEPT ![d].pc = "close", ![d].error = Canceled]

\* The pause is over.  There is one after the last attempt, too.
PauseEnds_NoCountBug(d) ==
  /\ dial[d].pc = "pause"
  /\ dial' = [dial EXCEPT ![d].pc = IF dial[d].retry + 1 < MaxAttempts THEN "dial" ELSE "close"]
PauseEnds(d) ==
  /\ dial[d].pc = "pause"
  /\ dial' = [dial EXCEPT ![d].retry = @ + 1,
                          ![d].pc = IF dial[d].retry + 1 < MaxAttempts THEN "dial" ELSE "close"]

PauseCanceled(d) ==
  /\ dial[d].pc = "pause" /\ ctxDone
  /\ dial' = [dial EXCEPT ![d].pc = "close"]

DialStep(d) ==
  \/ DialSucceeds(d)
  \/ \E e \in NetErrors : DialFails(d, e)
  \/ DialCanceled(d)
  \/ PauseEnds(d)
  \/ PauseCanceled(d)
=============================================================================
