--------------------------- MODULE MCChessRestart ---------------------------
(* Instances of ChessRestart for TLC. *)
EXTENDS ChessRestart, MCChessSystem
=============================================================================
