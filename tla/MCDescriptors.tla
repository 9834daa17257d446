--------------------------- MODULE MCDescriptors ---------------------------
(***************************************************************************)
(* Descriptors for TLC: two hosts and one admin, or one host and two       *)
(* admins.  Twelve numbers are just enough for two launches at a time, so  *)
(* that a connection makes one of them fail.                               *)
(***************************************************************************)
EXTENDS Descriptors

CONSTANTS h1, h2, a1, a2

\* Every property speaks of what happens up to the first close of somebody
\* else's number; states after it are looked at but not left.
NobodyRobbed == foreign = {}
=============================================================================
