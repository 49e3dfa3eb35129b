------------------------------ MODULE RobotArm ------------------------------
(***************************************************************************)
(* The motions of the robot programs: what robotchess_modbus.prg does      *)
(* between *startHitMove and the end of the move, and robotchess_simple.prg*)
(* between *startMove and *main, statement by statement, on a board with   *)
(* pieces.  The delays are left out.  Between any two motions the program  *)
(* may be stopped and started again: the hand stays as it is, with what it *)
(* holds, and the program begins without a look at it or at the board.  If *)
(* the command of the move still stands in its input words it makes that   *)
(* move again, on the board as the first time has left it.                 *)
(***************************************************************************)
EXTENDS Naturals, Sequences

CONSTANTS Fields, Pieces, Jobs,
          MaxRestarts     \* bound on the restarts

ASSUME ArmAssumption ==
  /\ MaxRestarts \in Nat
  /\ Jobs \subseteq [source : Fields, dest : Fields, hit : BOOLEAN]
  /\ "none" \notin Pieces
  /\ Fields \intersect {"pObs", "pDrop", "hand", "none"} = {}

VARIABLES
  board,    \* what stands on each field: a piece or None
  dropped,  \* the pieces at the drop point
  at,       \* the point the arm is at or over
  low,      \* the arm is down at the point, not "over" it
  hand,     \* "open" or "closed"
  held,     \* the piece in the hand, or None
  job,      \* the move the program carries out, or NoJob
  pc,       \* the next of its motions
  waiting,  \* the program is at *waitforpc
  command,  \* the parameters in the input words: the move ordered last, or NoJob
  standing, \* both command words are in the input words
  made,     \* history: READY has been signalled for the command
  asked,    \* history: board when it was ordered
  before,   \* history: board and dropped when the move was begun
  restarts, \* how often the program was started again
  carried   \* history: the pieces that were in the hand then

armVars == <<board, dropped, at, low, hand, held, job, pc, waiting, command, standing,
             made, asked, before, restarts, carried>>

NoJob == [source |-> "none", dest |-> "none", hit |-> FALSE]

\* Seen from the board, a move is not begun until it is done.
Board == INSTANCE ChessBoard WITH
  board   <- IF job = NoJob THEN board ELSE before.board,
  dropped <- IF job = NoJob THEN dropped ELSE before.dropped,
  due     <- IF job = NoJob THEN ~waiting /\ standing ELSE TRUE,
  stops   <- restarts

None == Board!None

Now == [board |-> board, dropped |-> dropped]

ArmInit ==
  /\ job = NoJob /\ pc = 1 /\ waiting = FALSE
  /\ board \in Board!Positions /\ dropped = {}
  /\ before = Now
  /\ at = "pObs" /\ low = FALSE
  /\ hand \in {"open", "closed"} /\ held = None
  /\ command = NoJob /\ standing = FALSE /\ made = FALSE /\ asked = board
  /\ restarts = 0 /\ carried = {}

-----------------------------------------------------------------------------
\* The statements, as <<what, where>>.
Over(f) == <<"over", f>>    \* mvs pGoal, over
Down(f) == <<"down", f>>    \* mvs pGoal
HOpen   == <<"HOpen">>      \* HOpen 1
HClose  == <<"HClose">>     \* HClose 1
Drop    == <<"drop">>       \* mvs pDrop

\* Mutant: the hit piece is not let go at the drop point.
HitMotionsKeep(j) == <<Over(j.dest), HOpen, Down(j.dest), HClose, Over(j.dest), Drop>>
HitMotions(j)     == <<Over(j.dest), HOpen, Down(j.dest), HClose, Over(j.dest), Drop, HOpen>>

\* Mutants: not raised with the piece; let go over the field; not opened before.
NormalMotionsLow(j) == <<Over(j.source), HOpen, Down(j.source), HClose,
                         Over(j.dest), Down(j.dest), HOpen, Over(j.dest)>>
NormalMotionsThrow(j) == <<Over(j.source), HOpen, Down(j.source), HClose, Over(j.source),
                           Over(j.dest), HOpen, Down(j.dest), Over(j.dest)>>
NormalMotionsUnopened(j) == <<Over(j.source), Down(j.source), HClose, Over(j.source),
                              Over(j.dest), Down(j.dest), HOpen, Over(j.dest)>>
NormalMotions(j)    == <<Over(j.source), HOpen, Down(j.source), HClose, Over(j.source),
                         Over(j.dest), Down(j.dest), HOpen, Over(j.dest)>>

\* *startHitMove runs on into *startNormalMove.
Motions == (IF job.hit THEN HitMotions(job) ELSE <<>>) \o NormalMotions(job)

Next1(what) == /\ job # NoJob
               /\ pc <= Len(Motions)
               /\ Motions[pc][1] = what
               /\ pc' = pc + 1
               /\ UNCHANGED <<job, before, restarts, carried, waiting, command, standing, made, asked>>

\* mvs: the arm goes over a point, or down to it.
MoveOver == /\ Next1("over")
            /\ at' = Motions[pc][2] /\ low' = FALSE
            /\ UNCHANGED <<board, dropped, hand, held>>
MoveDown == /\ Next1("down")
            /\ at' = Motions[pc][2] /\ low' = TRUE
            /\ UNCHANGED <<board, dropped, hand, held>>
MoveDrop == /\ Next1("drop")
            /\ at' = "pDrop" /\ low' = FALSE
            /\ UNCHANGED <<board, dropped, hand, held>>

\* HClose 1: down at a field the hand takes what stands there.
CloseHand ==
  /\ Next1("HClose")
  /\ hand' = "closed"
  /\ IF low /\ hand = "open" /\ at \in Fields
       THEN held' = board[at] /\ board' = [board EXCEPT ![at] = None]
       ELSE UNCHANGED <<held, board>>
  /\ UNCHANGED <<dropped, at, low>>

\* HOpen 1: what is in the hand stands on the field, or lies at the drop point;
\* from anywhere else it falls.
OpenHand ==
  /\ Next1("HOpen")
  /\ hand' = "open" /\ held' = None
  /\ board' = IF low /\ at \in Fields /\ held # None THEN [board EXCEPT ![at] = held] ELSE board
  /\ dropped' = IF at = "pDrop" /\ held # None THEN dropped \union {held} ELSE dropped
  /\ UNCHANGED <<at, low>>

\* robot_sendMove: the parameters and both command words are written.  The application
\* has waited until READY was taken back, and asks for no normal move to a field where
\* something stands; it does not look whether there is anything to be moved.
Order ==
  /\ job = NoJob /\ ~waiting /\ ~standing
  /\ \E j \in Jobs : Board!Allowed(j, board) /\ command' = j
  /\ standing' = TRUE /\ made' = FALSE /\ asked' = board
  /\ UNCHANGED <<board, dropped, at, low, hand, held, job, pc, waiting, before, restarts, carried>>

\* robot_sendMove after READY, or modbusClearCommand at any time: the command words
\* are taken back, CMD_CLR_READY stands there.  The robot may be making the move (again).
Withdraw ==
  /\ standing /\ standing' = FALSE
  /\ UNCHANGED <<board, dropped, at, low, hand, held, job, pc, waiting, command, made, asked,
                 before, restarts, carried>>

\* *main: both command words are there, the parameters are read.  Nobody looks at the board.
BeginMove ==
  /\ job = NoJob /\ ~waiting /\ standing
  /\ job' = command /\ pc' = 1
  /\ before' = Now
  /\ UNCHANGED <<board, dropped, at, low, hand, held, waiting, command, standing, made, asked,
                 restarts, carried>>

\* The motions are made: READY is signalled, then *waitforpc.
EndMove ==
  /\ job # NoJob
  /\ pc > Len(Motions)
  /\ job' = NoJob /\ waiting' = TRUE /\ made' = TRUE
  /\ before' = Now
  /\ UNCHANGED <<board, dropped, at, low, hand, held, pc, command, standing, asked, restarts, carried>>

\* *waitforpc sees CMD_CLR_READY; *main: mov pObs.
BackToMain ==
  /\ waiting /\ ~standing
  /\ waiting' = FALSE
  /\ at' = "pObs" /\ low' = FALSE
  /\ UNCHANGED <<board, dropped, hand, held, job, pc, command, standing, made, asked,
                 before, restarts, carried>>

\* The program from its first line to the end of *main's mov pObs.  The input words
\* are the PLC's: a command that stands there is begun again.
ProgramRestart ==
  /\ restarts < MaxRestarts
  /\ restarts' = restarts + 1
  /\ carried' = carried \union ({held} \ {None})
  /\ job' = NoJob /\ pc' = 1 /\ waiting' = FALSE
  /\ at' = "pObs" /\ low' = FALSE
  /\ before' = Now
  /\ UNCHANGED <<board, dropped, hand, held, command, standing, made, asked>>

ArmNext == \/ Order \/ Withdraw
           \/ BeginMove \/ EndMove \/ BackToMain
           \/ MoveOver \/ MoveDown \/ MoveDrop \/ CloseHand \/ OpenHand
           \/ ProgramRestart

ArmSpec == ArmInit /\ [][ArmNext]_armVars

-----------------------------------------------------------------------------
\* The sixteen motions of a move together do what the move says and nothing
\* else, once for each command and once more after a restart that finds it still
\* standing, also when the hand then still holds the piece of the move cut off.
ImplementsBoard == Board!BoardSpec

\* The piece the command is about, if there is one.
Mover == asked[command.source]

\* The program lets the arm travel only when it is raised, and go down only with
\* the open hand or to an empty field.  When it makes a move again after a restart,
\* the closed empty hand may come down on the piece of that very move, which stands
\* on its field already, but on no other.
NoCollision ==
  [][ restarts' = restarts =>
        /\ at' # at => ~low
        /\ low' /\ ~low => \/ hand = "open"
                           \/ board[at'] = None
                           \/ /\ restarts > 0 /\ hand = "closed" /\ held = None
                              /\ at' = command.dest /\ board[at'] = Mover ]_armVars

\* READY means that the move stands on the board, whatever restarts have made of
\* it: it does not only if its piece was in the hand at one of them, or was taken
\* away as the piece hit when a hit move was made again.
ReadyMeansMoved ==
  job = NoJob /\ made =>
    \/ board = Board!After(command, asked)
    \/ Mover \in carried
    \/ command.hit /\ Mover \in dropped

\* Every piece stays in one place: on one field, in the hand or at the drop
\* point.  What gets lost was in the hand at a restart: no other piece is knocked
\* over, put on top of another or dropped elsewhere, also when a move is made again.
Place(p) == {f \in Fields : board[f] = p}
              \union (IF held = p THEN {"hand"} ELSE {})
              \union (IF p \in dropped THEN {"pDrop"} ELSE {})
LosesOnlyCarried ==
  [][\A p \in Pieces : Place(p) # {} =>
       \/ \E x \in Place(p)' : Place(p)' = {x}
       \/ Place(p)' = {} /\ p \in carried]_armVars

-----------------------------------------------------------------------------
\* No piece is in two places.
Apart ==
  /\ board \in [Fields -> Pieces \union {None}]
  /\ dropped \subseteq Pieces
  /\ held \in (Pieces \union {None}) \ dropped
  /\ \A f \in Fields : board[f] # None =>
       /\ board[f] \notin dropped /\ board[f] # held
       /\ \A g \in Fields : board[g] = board[f] => g = f

\* A piece that is still in the hand when a move begins was there at a restart.
Leftover == held \in carried \union {None}

\* What the board can be when a move is begun, for the first time or again: the
\* fields of the move may have been cleared or filled, the others are untouched.
Stage(b) ==
  /\ b \in [Fields -> Pieces \union {None}]
  /\ \A f \in Fields \ {command.source, command.dest} : b[f] = asked[f]
  /\ \/ b[command.source] = Mover /\ b[command.dest] \in {asked[command.dest], None}
     \/ b[command.source] = None  /\ b[command.dest] \in {Mover, None}

\* The next motion, numbered as in a hit move: 1 to 7 are those of HitMotions,
\* 8 to 16 those of NormalMotions, and at 17 the move is done.
Motion == IF job.hit THEN pc ELSE pc + 7
First  == IF job.hit THEN 1 ELSE 8

\* Where the arm, the hand and the pieces are before motion n of the move.
ArmBefore(n) ==
  /\ n = First => at = "pObs"
  /\ n \in 2 .. 6 \/ n >= 14 => at = job.dest
  /\ n \in {7, 8} \ {First} => at = "pDrop"
  /\ n \in 9 .. 13 => at = job.source
  /\ low <=> n \in {4, 5, 11, 12, 15, 16}
HandBefore(n) ==
  /\ n \in {3, 4, 10, 11, 16, 17} => hand = "open"
  /\ n \in 5 .. 7   => held = before.board[job.dest]
  /\ n \in 12 .. 15 => hand = "closed" /\ held = before.board[job.source]
  /\ n \in {1, 2, 8, 9} => Leftover
BoardBefore(n) ==
  /\ n <= 4         => board = before.board
  /\ n \in 5 .. 11  => board = Board!Cleared(job, before.board)
  /\ n \in 12 .. 15 => board = Board!Lifted(job, before.board)
  /\ n >= 16        => board = Board!After(job, before.board)
  /\ n <= 7         => dropped = before.dropped
  /\ n >= 8         => dropped = before.dropped \union Board!Victim(job, before.board)

\* The piece of the command is on one of its two fields, unless the hand holds it,
\* or held it at a restart, or has taken it to the drop point.
MoverKept ==
  Mover = None \/ board[command.source] = Mover \/ board[command.dest] = Mover
    \/ held = Mover \/ Mover \in carried \/ (command.hit /\ Mover \in dropped)

\* There is a command.
Ordered ==
  /\ command \in Jobs /\ command.source # command.dest
  /\ asked \in [Fields -> Pieces \union {None}]
  /\ ~command.hit => asked[command.dest] = None
  /\ Stage(board) /\ MoverKept
  /\ made => board[command.source] = None /\ board[command.dest] \in {Mover, None}

\* The program at rest, over pObs or at *waitforpc.
Resting ==
  /\ ~low /\ Leftover /\ before = Now
  /\ ~waiting => at = "pObs"
  /\ ~waiting /\ standing /\ restarts = 0 => board = asked

\* Some motions of the move have been made on the board it began with.
Moving ==
  /\ job = command /\ ~waiting
  /\ Stage(before.board)
  /\ restarts = 0 => before.board = asked
  /\ Motion \in First .. 17
  /\ ArmBefore(Motion) /\ HandBefore(Motion) /\ BoardBefore(Motion)

\* The inductive invariant.
ArmInv ==
  /\ Apart
  /\ hand \in {"open", "closed"} /\ (hand = "open" => held = None)
  /\ pc \in Nat /\ restarts \in Nat /\ standing \in BOOLEAN
  /\ IF command = NoJob THEN job = NoJob /\ ~waiting /\ ~standing /\ ~made ELSE Ordered
  /\ waiting => made
  /\ IF job = NoJob THEN Resting ELSE Moving
=============================================================================
