--------------------------- MODULE MCGameControl ---------------------------
(***************************************************************************)
(* GameControl for TLC.  All its values are numbers and strings, so the    *)
(* configurations give the constants directly; the recursion is at most    *)
(* MaxExecTrials deep, which bounds everything but execTrials, and that    *)
(* grows by at most one per frame.                                         *)
(***************************************************************************)
EXTENDS GameControl
=============================================================================
