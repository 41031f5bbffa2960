------------------------------ MODULE MCVisit ------------------------------
(***************************************************************************)
(* A peer with up to three IPs: one fails, one answers, one is not asked.  *)
(***************************************************************************)
EXTENDS Visit
=============================================================================
