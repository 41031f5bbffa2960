---------------------------- MODULE MCClickHouse ----------------------------
(***************************************************************************)
(* Two visits with one and two neighbours and batches of two rows: the     *)
(* second fills that of the visits, and one or both that of the neighbours.*)
(***************************************************************************)
EXTENDS ClickHouse, TLC

CONSTANTS v1, v2

MCVisits == {v1, v2}
MCNeighborCount == (v1 :> 1) @@ (v2 :> 2)
=============================================================================
