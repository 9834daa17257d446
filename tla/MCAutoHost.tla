---------------------------- MODULE MCAutoHost ----------------------------
(***************************************************************************)
(* AutoHost for TLC.  With MaxQueueSize 2 at most four scenarios are       *)
(* allocated at a time, so five addresses never run out and leave a choice *)
(* of reusing a freed one.                                                 *)
(***************************************************************************)
EXTENDS AutoHost

CONSTANTS a1, a2, a3, a4, a5
=============================================================================
