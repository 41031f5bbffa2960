----------------------------- MODULE MCMonitor -----------------------------
(***************************************************************************)
(* Two monitored peers, one of which has no address the dialer may use,    *)
(* one writer for the results of two workers.                              *)
(***************************************************************************)
EXTENDS Monitor, TLC

CONSTANTS p1, p2, aPriv, aPub

MCPeers == {p1, p2}
MCAddrs == {aPriv, aPub}
MCDialAddrs == {aPub}
MCAddrsOf == (p1 :> {aPriv, aPub}) @@ (p2 :> {aPriv})

\* DialHandler ignores the outcome of a dial and returns no peers.
MCDialOutcomes == [p \in MCPeers |-> {[connErr |-> FALSE, neighbors |-> [k \in {} |-> {}]]}]

\* The batches come from the database, none is there at the start.
MCNoEmission == {<<>>}
=============================================================================
