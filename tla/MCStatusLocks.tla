--------------------------- MODULE MCStatusLocks ---------------------------
(***************************************************************************)
(* StatusLocks for TLC: three threads, one of which upgrades, two levels.  *)
(***************************************************************************)
EXTENDS StatusLocks

CONSTANTS t1, t2, t3
=============================================================================
