----------------------------- MODULE MCMsgTimer -----------------------------
(* Small instances of MsgTimer: two games, a clock of a few ticks.         *)
EXTENDS MsgTimer

CONSTANTS g1, g2

MCGames  == {g1, g2}
MCDelays == {0, 1, 2}
=============================================================================
