------------------------------ MODULE MCStream ------------------------------
(***************************************************************************)
(* Stream for TLC.  A buffer of four characters is read into three at a    *)
(* time: a line may span three reads, a pair of line ends two.             *)
(***************************************************************************)
EXTENDS Stream
=============================================================================
