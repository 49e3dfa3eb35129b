------------------------------ MODULE ChessBoard ------------------------------
(***************************************************************************)
(* What the robot does to the board, seen from the board: a move takes the *)
(* piece of one field to another, and in a hit move what stood there to    *)
(* the drop point, all at once, and it touches nothing else.  It is made   *)
(* once for each command, and once more after each stop of the robot's     *)
(* program that finds the command still standing, on what is there then.   *)
(* Only a stop leaves a move half done.                                    *)
(***************************************************************************)
EXTENDS Naturals

CONSTANTS
  Fields,   \* the fields of the board
  Pieces,   \* the chess pieces
  Jobs      \* the moves that may be asked for: records source, dest, hit

VARIABLES
  board,    \* what stands on each field: a piece or None
  dropped,  \* the pieces at the drop point
  command,  \* the move that was asked for last, or NoJob
  standing, \* whether its command is still there
  made,     \* whether it has been made
  due,      \* whether the robot is about to make it, or to make it again
  stops     \* how often the robot's program was stopped and started again

boardVars == <<board, dropped, command, standing, made, due, stops>>

None  == "none"
NoJob == [source |-> "none", dest |-> "none", hit |-> FALSE]

\* What is asked for: no normal move to a field where something stands.
Allowed(j, b) == j.source # j.dest /\ (j.hit \/ b[j.dest] = None)

\* The board in the course of a move: without the hit piece, with the mover in the
\* hand, and after the move.  If there is nothing on the source, nothing is carried.
Cleared(j, b) == IF j.hit THEN [b EXCEPT ![j.dest] = None] ELSE b
Lifted(j, b)  == [Cleared(j, b) EXCEPT ![j.source] = None]
After(j, b)   == IF b[j.source] = None THEN Lifted(j, b)
                 ELSE [Lifted(j, b) EXCEPT ![j.dest] = b[j.source]]

\* What a move takes to the drop point.
Victim(j, b) == IF j.hit THEN {b[j.dest]} \ {None} ELSE {}

\* The positions: some piece stands on the board, and none on two fields.
Positions == {b \in [Fields -> Pieces \union {None}] :
                /\ \E f \in Fields : b[f] # None
                /\ \A f, g \in Fields : f # g /\ b[f] = b[g] => b[f] = None}

BoardInit ==
  /\ board \in Positions /\ dropped = {}
  /\ command = NoJob /\ ~standing /\ ~made /\ ~due
  /\ stops = 0

AskMove ==
  /\ ~standing /\ ~due
  /\ \E j \in Jobs : Allowed(j, board) /\ command' = j
  /\ standing' = TRUE /\ made' = FALSE /\ due' = TRUE
  /\ UNCHANGED <<board, dropped, stops>>

MakeMove ==
  /\ due /\ due' = FALSE /\ made' = TRUE
  /\ board' = After(command, board)
  /\ dropped' = dropped \union Victim(command, board)
  /\ UNCHANGED <<command, standing, stops>>

\* The command is taken back.  The robot may have begun to make it, or to make it again.
TakeBack ==
  /\ standing
  /\ standing' = FALSE /\ due' \in {due, FALSE}
  /\ UNCHANGED <<board, dropped, command, made, stops>>

\* A stop: some of the motions of a move that is due have been made, in their order.
\* The piece that is in the hand then stands nowhere.
Stop ==
  /\ stops' = stops + 1 /\ due' = standing
  /\ \/ UNCHANGED <<board, dropped>>
     \/ /\ due
        /\ \/ board' = Cleared(command, board) /\ dropped' = dropped
           \/ /\ board' \in {Cleared(command, board), Lifted(command, board), After(command, board)}
              /\ dropped' = dropped \union Victim(command, board)
  /\ UNCHANGED <<command, standing, made>>

BoardNext == AskMove \/ MakeMove \/ TakeBack \/ Stop

BoardSpec == BoardInit /\ [][BoardNext]_boardVars
=============================================================================
