--------------------------- MODULE MCHostSession ---------------------------
(***************************************************************************)
(* HostSession for TLC: two admins and one host, whose games are made at   *)
(* one of two addresses.                                                   *)
(***************************************************************************)
EXTENDS HostSession

CONSTANTS a1, a2, g1, g2
=============================================================================
