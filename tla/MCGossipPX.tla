----------------------------- MODULE MCGossipPX -----------------------------
(***************************************************************************)
(* A bootstrap peer p1 that knows p2, and an inbound stream whose exchange *)
(* names p3, alone or after p1: more than the task channel holds.          *)
(***************************************************************************)
EXTENDS GossipPX, TLC

CONSTANTS p1, p2, p3, aPub

MCPeers == {p1, p2, p3}
MCAddrs == {aPub}

Nothing == [k \in {} |-> {}]
Finds(nb) == [connErr |-> FALSE, neighbors |-> nb]
MCOutcomes == [p \in MCPeers |-> {Finds(IF p = p1 THEN p2 :> {aPub} ELSE Nothing)}]

Found(p) == [peer |-> p, addrs |-> {aPub}]
MCBootstrap == {<<Found(p1)>>}
MCExchanges == {<<Found(p3)>>, <<Found(p1), Found(p3)>>}
=============================================================================
