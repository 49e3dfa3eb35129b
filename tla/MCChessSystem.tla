--------------------------- MODULE MCChessSystem ---------------------------
(***************************************************************************)
(* Instances of ChessSystem for TLC: two moves, one of each type, with     *)
(* different fields.                                                       *)
(***************************************************************************)
EXTENDS ChessHandshake

MCMoves == { [source |-> 12, dest |-> 28, type |-> NORMAL_MOVE],
             [source |-> 28, dest |-> 35, type |-> HIT_MOVE] }
\* One move, where the properties do not depend on which one it is.
MCOneMove == { [source |-> 12, dest |-> 28, type |-> HIT_MOVE] }
=============================================================================
