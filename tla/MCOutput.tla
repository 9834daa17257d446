------------------------------ MODULE MCOutput ------------------------------
(***************************************************************************)
(* Output for TLC: the terminal, an admin on a socket and a host.          *)
(***************************************************************************)
EXTENDS Output

CONSTANTS term, sock, h1
=============================================================================
