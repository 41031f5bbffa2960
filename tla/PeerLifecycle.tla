--------------------------- MODULE PeerLifecycle ---------------------------
(***************************************************************************)
(* What a crawl promises, with neither queues, pools nor channels: a peer  *)
(* goes through its life once, from discovery to one stored result, and a  *)
(* run that ends on its own leaves no peer behind.                         *)
(***************************************************************************)
CONSTANT Peers

VARIABLES
  status,   \* where each peer is in its life
  ended     \* the run has ended on its own

lifeVars == <<status, ended>>

Status == {"unknown", "queued", "inflight", "processed", "stored"}

LifeTypeOK ==
  /\ status \in [Peers -> Status]
  /\ ended \in BOOLEAN

LifeInit ==
  /\ status = [p \in Peers |-> "unknown"]
  /\ ended = FALSE

Unknown == {p \in Peers : status[p] = "unknown"}

\* The peers of new become known.
Discover(new) ==
  /\ ~ended
  /\ status' = [p \in Peers |-> IF p \in new THEN "queued" ELSE status[p]]
  /\ UNCHANGED ended

Start(p) ==
  /\ ~ended /\ status[p] = "queued"
  /\ status' = [status EXCEPT ![p] = "inflight"]
  /\ UNCHANGED ended

\* p has been visited, and the visit revealed the peers of new.
Finish(p, new) ==
  /\ ~ended /\ status[p] = "inflight"
  /\ status' = [q \in Peers |-> CASE q = p -> "processed"
                                  [] q \in new -> "queued"
                                  [] OTHER -> status[q]]
  /\ UNCHANGED ended

Store(p) ==
  /\ ~ended /\ status[p] = "processed"
  /\ status' = [status EXCEPT ![p] = "stored"]
  /\ UNCHANGED ended

End ==
  /\ ~ended
  /\ \A p \in Peers : status[p] \in {"unknown", "stored"}
  /\ ended' = TRUE
  /\ UNCHANGED status

LifeNext ==
  \/ \E new \in SUBSET Unknown : Discover(new)
  \/ \E p \in Peers : Start(p) \/ Store(p)
  \/ \E p \in Peers, new \in SUBSET Unknown : Finish(p, new)
  \/ End

LifeSpec == LifeInit /\ [][LifeNext]_lifeVars
=============================================================================
