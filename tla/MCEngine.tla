----------------------------- MODULE MCEngine -----------------------------
(***************************************************************************)
(* Small instances of Engine.  Three peers on a chain with a shortcut:     *)
(* the bootstrap peer p1 knows p2 without an address to dial and p3 with   *)
(* one; visiting p3 or p2 reveals another address of p2, so a parked peer  *)
(* is promoted while it is queued.                                         *)
(***************************************************************************)
EXTENDS Engine, TLC

CONSTANTS p1, p2, p3, aPriv, aPub

MCPeers == {p1, p2, p3}
MCAddrs == {aPriv, aPub}
MCDialAddrs == {aPub}

Nothing == [k \in {} |-> {}]
Fails == [connErr |-> TRUE, neighbors |-> Nothing]
Finds(nb) == [connErr |-> FALSE, neighbors |-> nb]

MCOutcomes ==
  [p \in MCPeers |->
    CASE p = p1 -> {Fails, Finds((p2 :> {aPriv}) @@ (p3 :> {aPub}))}
      [] p = p2 -> {Finds(p1 :> {aPub})}
      [] p = p3 -> {Finds((p2 :> {aPub}) @@ (p3 :> {aPub}))}]

Boot(p, a) == [peer |-> p, addrs |-> {a}]

\* The bootstrap peers of a crawl, or none.
MCBootstrap == {<<>>, <<Boot(p1, aPub)>>, <<Boot(p1, aPub), Boot(p2, aPriv)>>}
===========================================================================
