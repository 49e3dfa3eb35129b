-------------------------- MODULE RobotArmProofs --------------------------
(***************************************************************************)
(* The motions make the move on the board: proofs about RobotArm, for any  *)
(* fields, pieces, moves and restarts.                                     *)
(***************************************************************************)
EXTENDS RobotArm, TLAPS

-----------------------------------------------------------------------------
(* The motions.                                                              *)

\* Motion n of the sixteen.
MotionIs(n, m) ==
  \/ n \in {1, 5, 13, 16} /\ m = Over(job.dest)
  \/ n \in {8, 12}        /\ m = Over(job.source)
  \/ n \in {3, 14}        /\ m = Down(job.dest)
  \/ n = 10               /\ m = Down(job.source)
  \/ n \in {2, 7, 9, 15}  /\ m = HOpen
  \/ n \in {4, 11}        /\ m = HClose
  \/ n = 6                /\ m = Drop

LEMMA HitMotion ==
  \A n \in 1 .. 7 : MotionIs(n, HitMotions(job)[n])
<1> DEFINE m == HitMotions(job)
<1>1. /\ m[1] = Over(job.dest) /\ m[2] = HOpen /\ m[3] = Down(job.dest)
      /\ m[4] = HClose /\ m[5] = Over(job.dest) /\ m[6] = Drop /\ m[7] = HOpen
  BY DEF HitMotions
<1> HIDE DEF m
<1>2. /\ MotionIs(1, m[1]) /\ MotionIs(2, m[2]) /\ MotionIs(3, m[3]) /\ MotionIs(4, m[4])
      /\ MotionIs(5, m[5]) /\ MotionIs(6, m[6]) /\ MotionIs(7, m[7])
  BY <1>1 DEF MotionIs
<1>3. \A n \in 1 .. 7 : n \in {1, 2, 3, 4, 5, 6, 7}
  OBVIOUS
<1> QED BY <1>2, <1>3 DEF m

LEMMA NormalMotion ==
  \A n \in 1 .. 9 : MotionIs(n + 7, NormalMotions(job)[n])
<1> DEFINE m == NormalMotions(job)
<1>1. /\ m[1] = Over(job.source) /\ m[2] = HOpen /\ m[3] = Down(job.source)
      /\ m[4] = HClose /\ m[5] = Over(job.source)
      /\ m[6] = Over(job.dest) /\ m[7] = Down(job.dest)
      /\ m[8] = HOpen /\ m[9] = Over(job.dest)
  BY DEF NormalMotions
<1> HIDE DEF m
<1>2. /\ MotionIs(8, m[1]) /\ MotionIs(9, m[2]) /\ MotionIs(10, m[3])
      /\ MotionIs(11, m[4]) /\ MotionIs(12, m[5]) /\ MotionIs(13, m[6])
      /\ MotionIs(14, m[7]) /\ MotionIs(15, m[8]) /\ MotionIs(16, m[9])
  BY <1>1 DEF MotionIs
<1>3. \A n \in 1 .. 9 : n \in {1, 2, 3, 4, 5, 6, 7, 8, 9}
  OBVIOUS
<1> QED BY <1>2, <1>3 DEF m

\* Both programs run through the same sixteen motions.
LEMMA MotionNumbers ==
  ASSUME ArmInv, job # NoJob
  PROVE  /\ pc <= Len(Motions) <=> Motion <= 16
         /\ Motion <= 16 => MotionIs(Motion, Motions[pc])
<1>1. Motion \in First .. 17 /\ pc \in Nat
  BY DEF ArmInv, Moving
<1>2. CASE job.hit
  <2>1. Motions = HitMotions(job) \o NormalMotions(job)
    BY <1>2 DEF Motions
  <2>2. Len(HitMotions(job)) = 7 /\ Len(NormalMotions(job)) = 9
    BY DEF HitMotions, NormalMotions
  <2>3. Len(Motions) = 16
    BY <2>1, <2>2 DEF HitMotions, NormalMotions
  <2>4. \A n \in 1 .. 7 : Motions[n] = HitMotions(job)[n]
    BY <2>1, <2>2 DEF HitMotions, NormalMotions
  <2>5. \A n \in 1 .. 9 : Motions[n + 7] = NormalMotions(job)[n]
    BY <2>1, <2>2 DEF HitMotions, NormalMotions
  <2>6. pc \in 1 .. 17 /\ Motion = pc
    BY <1>1, <1>2 DEF Motion, First
  <2>7. CASE pc <= 7
    BY <2>3, <2>4, <2>6, <2>7, HitMotion
  <2>8. CASE pc \in 8 .. 16
    <3>1. PICK n \in 1 .. 9 : pc = n + 7
      <4>1. pc - 7 \in 1 .. 9 /\ pc = (pc - 7) + 7
        BY <2>8
      <4> QED BY <4>1
    <3> QED BY <2>3, <2>5, <2>6, <3>1, NormalMotion
  <2>9. CASE pc = 17
    BY <2>3, <2>6, <2>9
  <2> QED BY <2>6, <2>7, <2>8, <2>9
<1>3. CASE ~job.hit
  <2>1. Motions = <<>> \o NormalMotions(job)
    BY <1>3 DEF Motions
  <2>2. Motions = NormalMotions(job) /\ Len(Motions) = 9
    BY <2>1 DEF NormalMotions
  <2>3. pc \in 1 .. 10 /\ Motion = pc + 7
    BY <1>1, <1>3 DEF Motion, First
  <2> QED BY <2>2, <2>3, NormalMotion
<1> QED BY <1>1, <1>2, <1>3

LEMMA Statements ==
  ASSUME NEW f PROVE /\ Over(f)[1] = "over" /\ Over(f)[2] = f
                     /\ Down(f)[1] = "down" /\ Down(f)[2] = f
                     /\ HOpen[1] = "HOpen" /\ HClose[1] = "HClose" /\ Drop[1] = "drop"
BY DEF Over, Down, HOpen, HClose, Drop

\* A motion is made.
LEMMA MotionMade ==
  ASSUME ArmInv, NEW what, Next1(what)
  PROVE  /\ job # NoJob /\ UNCHANGED <<job, before, restarts, carried, waiting, command, standing, made, asked>>
         /\ Motion \in First .. 16 /\ Motion' = Motion + 1 /\ First' = First
         /\ pc' \in Nat
         /\ Motions[pc][1] = what /\ MotionIs(Motion, Motions[pc])
<1>1. /\ job # NoJob /\ UNCHANGED <<job, before, restarts, carried, waiting, command, standing, made, asked>>
      /\ pc <= Len(Motions) /\ Motions[pc][1] = what /\ pc' = pc + 1
  BY DEF Next1
<1>2. Motion \in First .. 17 /\ pc \in Nat
  BY <1>1 DEF ArmInv, Moving
<1>3. Motion <= 16 /\ MotionIs(Motion, Motions[pc])
  BY <1>1, MotionNumbers
<1>4. Motion \in First .. 16 /\ First \in {1, 8}
  BY <1>2, <1>3 DEF First
<1>5. Motion' = Motion + 1 /\ First' = First /\ pc' \in Nat
  BY <1>1, <1>2 DEF Motion, First
<1> QED BY <1>1, <1>3, <1>4, <1>5

LEMMA OverMade ==
  ASSUME ArmInv, MoveOver
  PROVE  \/ Motion \in {1, 5, 13, 16} /\ at' = job.dest
         \/ Motion \in {8, 12} /\ at' = job.source
<1>1. Next1("over") /\ at' = Motions[pc][2]
  BY DEF MoveOver
<1>2. Motions[pc][1] = "over" /\ MotionIs(Motion, Motions[pc])
  BY <1>1, MotionMade
<1>3. Motions[pc] \in {Over(job.dest), Over(job.source)}
  BY <1>2, Statements DEF MotionIs
<1> QED BY <1>1, <1>2, <1>3, Statements DEF MotionIs

LEMMA DownMade ==
  ASSUME ArmInv, MoveDown
  PROVE  \/ Motion \in {3, 14} /\ at' = job.dest
         \/ Motion = 10 /\ at' = job.source
<1>1. Next1("down") /\ at' = Motions[pc][2]
  BY DEF MoveDown
<1>2. Motions[pc][1] = "down" /\ MotionIs(Motion, Motions[pc])
  BY <1>1, MotionMade
<1> QED BY <1>1, <1>2, Statements DEF MotionIs

LEMMA OthersMade ==
  ASSUME ArmInv
  PROVE  /\ MoveDrop  => Motion = 6
         /\ CloseHand => Motion \in {4, 11}
         /\ OpenHand  => Motion \in {2, 7, 9, 15}
<1>1. ASSUME NEW what, Next1(what) PROVE Motions[pc][1] = what /\ MotionIs(Motion, Motions[pc])
  BY <1>1, MotionMade
<1>2. MoveDrop => Motion = 6
  BY <1>1, Statements DEF MoveDrop, MotionIs
<1>3. CloseHand => Motion \in {4, 11}
  BY <1>1, Statements DEF CloseHand, MotionIs
<1>4. OpenHand => Motion \in {2, 7, 9, 15}
  BY <1>1, Statements DEF OpenHand, MotionIs
<1> QED BY <1>2, <1>3, <1>4

-----------------------------------------------------------------------------
(* The invariant.                                                            *)

\* What the state says in the middle of a move.
LEMMA InMove ==
  ASSUME ArmInv, job # NoJob
  PROVE  /\ job = command /\ ~waiting /\ Ordered
         /\ job \in [source : Fields, dest : Fields, hit : BOOLEAN]
         /\ job.source # job.dest /\ (~job.hit => asked[job.dest] = None)
         /\ Stage(before.board)
         /\ before.board \in [Fields -> Pieces \union {None}]
         /\ First \in {1, 8} /\ Motion \in First .. 17
         /\ ArmBefore(Motion) /\ HandBefore(Motion) /\ BoardBefore(Motion)
<1>1. job = command /\ ~waiting /\ Stage(before.board) /\ Motion \in First .. 17
      /\ ArmBefore(Motion) /\ HandBefore(Motion) /\ BoardBefore(Motion)
  BY DEF ArmInv, Moving
<1>2. Ordered
  BY <1>1 DEF ArmInv
<1> QED BY <1>1, <1>2, ArmAssumption DEF Ordered, Stage, First

\* The board a move is begun on, and the stages of the move on it.
LEMMA Stages ==
  ASSUME ArmInv, job # NoJob
  PROVE  /\ Board!Cleared(job, before.board) \in [Fields -> Pieces \union {None}]
         /\ Board!Lifted(job, before.board) \in [Fields -> Pieces \union {None}]
         /\ Board!After(job, before.board) \in [Fields -> Pieces \union {None}]
         /\ Stage(Board!Cleared(job, before.board))
         /\ Stage(Board!Lifted(job, before.board))
         /\ Stage(Board!After(job, before.board))
<1> DEFINE b == before.board  c == Board!Cleared(job, b)  l == Board!Lifted(job, b)
           a == Board!After(job, b)
<1>1. /\ job \in [source : Fields, dest : Fields, hit : BOOLEAN] /\ job.source # job.dest
      /\ (~job.hit => asked[job.dest] = None) /\ job = command
      /\ Stage(b) /\ b \in [Fields -> Pieces \union {None}]
  BY InMove
<1>2. c \in [Fields -> Pieces \union {None}] /\ Stage(c)
  BY <1>1 DEF Board!Cleared, Stage, None, Board!None
<1>3. l \in [Fields -> Pieces \union {None}] /\ Stage(l)
  <2>1. l = [c EXCEPT ![job.source] = None]
    BY DEF Board!Lifted, None, Board!None
  <2>2. l \in [Fields -> Pieces \union {None}]
    BY <1>1, <1>2, <2>1
  <2>3. l[job.dest] \in {Mover, None}
    BY <1>1, <1>2, <2>1 DEF Board!Cleared, Stage, None, Board!None
  <2> HIDE DEF c, l
  <2>4. Stage(l)
    BY <1>1, <1>2, <2>1, <2>2, <2>3 DEF Stage
  <2> QED BY <2>2, <2>4
<1>4. a \in [Fields -> Pieces \union {None}] /\ Stage(a)
  <2>1. CASE b[job.source] = None
    BY <1>3, <2>1 DEF Board!After, None, Board!None
  <2>2. CASE b[job.source] # None
    <3>1. a = [l EXCEPT ![job.dest] = b[job.source]] /\ b[job.source] = Mover
      BY <1>1, <2>2 DEF Board!After, None, Board!None, Stage
    <3>2. l[job.source] = None
      BY <1>1, <1>2 DEF Board!Lifted, None, Board!None
    <3> HIDE DEF l, a
    <3> QED BY <1>1, <1>3, <3>1, <3>2 DEF Stage
  <2> QED BY <2>1, <2>2
<1> QED BY <1>2, <1>3, <1>4

\* After a motion only these can have changed.
LEMMA StillInMove ==
  ASSUME ArmInv, NEW what, Next1(what),
         Apart', hand' \in {"open", "closed"}, hand' = "open" => held' = None,
         MoverKept', made => board'[job.source] = None /\ board'[job.dest] \in {Mover, None},
         ArmBefore(Motion)', HandBefore(Motion)', BoardBefore(Motion)'
  PROVE  ArmInv'
<1>1. /\ job # NoJob
      /\ UNCHANGED <<job, before, restarts, carried, waiting, command, standing, made, asked>>
      /\ Motion \in First .. 16 /\ Motion' = Motion + 1 /\ First' = First /\ pc' \in Nat
  BY MotionMade
<1>2. job = command /\ ~waiting /\ Ordered /\ Stage(before.board) /\ First \in {1, 8}
  BY <1>1, InMove
<1>3. Motion' \in First' .. 17 /\ Motion' \in 2 .. 17
  BY <1>1, <1>2
<1>4. board' = before.board \/ board' = Board!Cleared(job, before.board)
        \/ board' = Board!Lifted(job, before.board) \/ board' = Board!After(job, before.board)
  <2>1. PICK n \in 2 .. 17 : n = Motion'
    BY <1>3
  <2> QED BY <1>1, <2>1 DEF BoardBefore, Board!Cleared, Board!Lifted, Board!After, Board!None
<1>5. Stage(board')
  BY <1>1, <1>2, <1>4, Stages
<1>6. Stage(board)' /\ Stage(before.board)'
  BY <1>1, <1>2, <1>5 DEF Stage, Mover, None, Board!None
<1>7. Ordered'
  BY <1>1, <1>2, <1>6 DEF Ordered, Mover, None, Board!None
<1>8. restarts = 0 => before.board = asked
  BY <1>1 DEF ArmInv, Moving
<1>9. Moving'
  BY <1>1, <1>2, <1>3, <1>6, <1>8 DEF Moving
<1>10. restarts' \in Nat /\ command' # NoJob' /\ job' # NoJob' /\ ~waiting'
  BY <1>1, <1>2 DEF ArmInv, NoJob
<1> QED BY <1>1, <1>7, <1>9, <1>10 DEF ArmInv, None, Board!None

\* Nothing changes about the command while the pieces stay where they are.
LEMMA SamePieces ==
  ASSUME Ordered, UNCHANGED <<board, dropped, held, command, made, asked, carried>>
  PROVE  Ordered' /\ MoverKept' /\ (made => board'[command.source] = None
                                            /\ board'[command.dest] \in {Mover, None})
BY DEF Ordered, Stage, MoverKept, Mover, None, Board!None

LEMMA InitArm == ArmInit => ArmInv
<1> SUFFICES ASSUME ArmInit PROVE ArmInv
  OBVIOUS
<1>1. board \in Board!Positions /\ dropped = {} /\ held = None
  BY DEF ArmInit
<1>2. Apart
  BY <1>1, ArmAssumption DEF Apart, Board!Positions, None, Board!None
<1>3. Resting
  BY <1>1 DEF ArmInit, Resting, Leftover
<1> QED BY <1>1, <1>2, <1>3 DEF ArmInit, ArmInv

LEMMA MoveOverInv == ArmInv /\ MoveOver => ArmInv'
<1> SUFFICES ASSUME ArmInv, MoveOver PROVE ArmInv'
  OBVIOUS
<1>1. Next1("over") /\ low' = FALSE /\ UNCHANGED <<board, dropped, hand, held>>
  BY DEF MoveOver
<1>2. PICK n \in 1 .. 16 : n = Motion
  BY <1>1, MotionMade DEF First
<1>3. /\ job # NoJob
      /\ UNCHANGED <<job, before, restarts, carried, waiting, command, standing, made, asked>>
      /\ n \in First .. 16 /\ Motion' = n + 1 /\ First' = First /\ pc' \in Nat
  BY <1>1, <1>2, MotionMade
<1>4. \/ n \in {1, 5, 13, 16} /\ at' = job.dest
      \/ n \in {8, 12} /\ at' = job.source
  BY <1>2, OverMade
<1>5. ArmBefore(n) /\ HandBefore(n) /\ BoardBefore(n) /\ First \in {1, 8}
      /\ Ordered /\ job = command
  BY <1>2, <1>3, InMove
<1>6. (ArmBefore(Motion))'
  BY <1>1, <1>3, <1>4, <1>5 DEF ArmBefore
<1>7. (HandBefore(Motion))'
  BY <1>1, <1>3, <1>4, <1>5 DEF HandBefore, Leftover, None, Board!None
<1>8. (BoardBefore(Motion))'
  BY <1>1, <1>3, <1>4, <1>5 DEF BoardBefore, Board!Cleared, Board!Lifted, Board!After,
                                Board!Victim, Board!None
<1>9. Apart'
  BY <1>1 DEF ArmInv, Apart, None, Board!None
<1>10. hand' \in {"open", "closed"} /\ (hand' = "open" => held' = None)
  BY <1>1 DEF ArmInv, None, Board!None
<1> QED BY <1>1, <1>3, <1>5, <1>6, <1>7, <1>8, <1>9, <1>10, SamePieces, StillInMove

LEMMA MoveDownInv == ArmInv /\ MoveDown => ArmInv'
<1> SUFFICES ASSUME ArmInv, MoveDown PROVE ArmInv'
  OBVIOUS
<1>1. Next1("down") /\ low' = TRUE /\ UNCHANGED <<board, dropped, hand, held>>
  BY DEF MoveDown
<1>2. PICK n \in 1 .. 16 : n = Motion
  BY <1>1, MotionMade DEF First
<1>3. /\ job # NoJob
      /\ UNCHANGED <<job, before, restarts, carried, waiting, command, standing, made, asked>>
      /\ n \in First .. 16 /\ Motion' = n + 1 /\ First' = First /\ pc' \in Nat
  BY <1>1, <1>2, MotionMade
<1>4. \/ n \in {3, 14} /\ at' = job.dest
      \/ n = 10 /\ at' = job.source
  BY <1>2, DownMade
<1>5. ArmBefore(n) /\ HandBefore(n) /\ BoardBefore(n) /\ First \in {1, 8}
      /\ Ordered /\ job = command
  BY <1>2, <1>3, InMove
<1>6. ArmBefore(Motion)'
  BY <1>1, <1>3, <1>4, <1>5 DEF ArmBefore
<1>7. HandBefore(Motion)'
  BY <1>1, <1>3, <1>4, <1>5 DEF HandBefore, Leftover, None, Board!None
<1>8. BoardBefore(Motion)'
  BY <1>1, <1>3, <1>4, <1>5 DEF BoardBefore, Board!Cleared, Board!Lifted, Board!After,
                                Board!Victim, Board!None
<1>9. Apart' /\ hand' \in {"open", "closed"} /\ (hand' = "open" => held' = None)
  BY <1>1 DEF ArmInv, Apart, None, Board!None
<1> QED BY <1>1, <1>3, <1>5, <1>6, <1>7, <1>8, <1>9, SamePieces, StillInMove

LEMMA MoveDropInv == ArmInv /\ MoveDrop => ArmInv'
<1> SUFFICES ASSUME ArmInv, MoveDrop PROVE ArmInv'
  OBVIOUS
<1>1. Next1("drop") /\ at' = "pDrop" /\ low' = FALSE /\ UNCHANGED <<board, dropped, hand, held>>
  BY DEF MoveDrop
<1>2. /\ job # NoJob
      /\ UNCHANGED <<job, before, restarts, carried, waiting, command, standing, made, asked>>
      /\ Motion = 6 /\ Motion' = 7 /\ First = 1 /\ First' = 1
  BY <1>1, MotionMade, OthersMade DEF First
<1>3. ArmBefore(6) /\ HandBefore(6) /\ BoardBefore(6) /\ Ordered /\ job = command
  BY <1>2, InMove
<1>4. ArmBefore(Motion)'
  BY <1>1, <1>2, <1>3 DEF ArmBefore
<1>5. HandBefore(Motion)'
  BY <1>1, <1>2, <1>3 DEF HandBefore
<1>6. BoardBefore(Motion)'
  BY <1>1, <1>2, <1>3 DEF BoardBefore, Board!Cleared, Board!None
<1>7. Apart' /\ hand' \in {"open", "closed"} /\ (hand' = "open" => held' = None)
  BY <1>1 DEF ArmInv, Apart, None, Board!None
<1> QED BY <1>1, <1>2, <1>3, <1>4, <1>5, <1>6, <1>7, SamePieces, StillInMove

\* What stands in the move when the hand closes.
LEMMA CloseMade ==
  ASSUME ArmInv, CloseHand
  PROVE  /\ Motion \in {4, 11} /\ job # NoJob /\ held = None
         /\ at = (IF Motion = 4 THEN job.dest ELSE job.source) /\ at \in Fields
         /\ held' = board[at] /\ board' = [board EXCEPT ![at] = None]
<1>1. Motion \in {4, 11} /\ job # NoJob
  BY OthersMade DEF CloseHand, Next1
<1>2. ArmBefore(Motion) /\ HandBefore(Motion) /\ First \in {1, 8}
      /\ job \in [source : Fields, dest : Fields, hit : BOOLEAN]
  BY <1>1, InMove
<1>3. low /\ hand = "open" /\ at = (IF Motion = 4 THEN job.dest ELSE job.source)
  BY <1>1, <1>2 DEF ArmBefore, HandBefore
<1>4. at \in Fields
  BY <1>2, <1>3
<1>5. held = None
  BY <1>3 DEF ArmInv
<1> QED BY <1>1, <1>3, <1>4, <1>5 DEF CloseHand

LEMMA CloseHandInv == ArmInv /\ CloseHand => ArmInv'
<1> SUFFICES ASSUME ArmInv, CloseHand PROVE ArmInv'
  OBVIOUS
<1>1. Next1("HClose") /\ hand' = "closed" /\ UNCHANGED <<dropped, at, low>>
  BY DEF CloseHand
<1>2. PICK n \in {4, 11} : n = Motion
  BY OthersMade
<1>3. /\ job # NoJob
      /\ UNCHANGED <<job, before, restarts, carried, waiting, command, standing, made, asked>>
      /\ Motion' = n + 1 /\ First' = First
  BY <1>1, <1>2, MotionMade
<1>4. ArmBefore(n) /\ HandBefore(n) /\ BoardBefore(n) /\ First \in {1, 8}
  BY <1>2, <1>3, InMove
<1>5. /\ job \in [source : Fields, dest : Fields, hit : BOOLEAN] /\ job.source # job.dest
      /\ before.board \in [Fields -> Pieces \union {None}]
      /\ job = command /\ Ordered
  BY <1>3, InMove
<1>6. at = (IF n = 4 THEN job.dest ELSE job.source) /\ held = None
  BY <1>2, CloseMade
<1>7. held' = board[at] /\ board' = [board EXCEPT ![at] = None]
  BY CloseMade
<1>8. Apart
  BY DEF ArmInv
<1>9. n = 4 => job.hit
  BY <1>2, <1>3, InMove DEF First
<1>10. ArmBefore(Motion)'
  BY <1>1, <1>3, <1>4 DEF ArmBefore
<1>11. HandBefore(Motion)'
  <2>1. n = 11 => board[job.source] = before.board[job.source]
    BY <1>4, <1>5 DEF BoardBefore, Board!Cleared
  <2> QED BY <1>1, <1>3, <1>4, <1>5, <1>6, <1>7, <2>1 DEF HandBefore, BoardBefore
<1>12. BoardBefore(Motion)'
  <2>1. CASE n = 4
    <3>1. board' = Board!Cleared(job, before.board) /\ dropped' = before.dropped
      <4>1. board = before.board /\ at = job.dest /\ dropped = before.dropped
        BY <1>4, <1>6, <2>1 DEF BoardBefore
      <4>2. Board!Cleared(job, before.board) = [before.board EXCEPT ![job.dest] = None]
        BY <1>9, <2>1 DEF Board!Cleared, None, Board!None
      <4> QED BY <1>1, <1>7, <4>1, <4>2
    <3>2. Motion' = 5 /\ (Board!Cleared(job, before.board))' = Board!Cleared(job, before.board)
      BY <1>3, <2>1 DEF Board!Cleared, Board!None
    <3> QED BY <1>3, <3>1, <3>2 DEF BoardBefore
  <2>2. CASE n = 11
    <3>1. board' = Board!Lifted(job, before.board)
      BY <1>4, <1>6, <1>7, <2>2 DEF BoardBefore, Board!Lifted, None, Board!None
    <3>2. dropped' = before.dropped \union Board!Victim(job, before.board)
      BY <1>1, <1>4, <2>2 DEF BoardBefore
    <3>3. /\ Motion' = 12
          /\ (Board!Lifted(job, before.board))' = Board!Lifted(job, before.board)
          /\ (Board!Victim(job, before.board))' = Board!Victim(job, before.board)
      BY <1>3, <2>2 DEF Board!Lifted, Board!Cleared, Board!Victim, Board!None
    <3> QED BY <1>3, <3>1, <3>2, <3>3 DEF BoardBefore
  <2> QED BY <1>2, <2>1, <2>2
<1>13. Apart'
  BY <1>1, <1>5, <1>6, <1>7, <1>8 DEF Apart, None, Board!None
<1>14. /\ MoverKept'
       /\ made => board'[job.source] = None /\ board'[job.dest] \in {Mover, None}
  <2>1. /\ MoverKept /\ board \in [Fields -> Pieces \union {None}]
        /\ made => board[job.source] = None /\ board[job.dest] \in {Mover, None}
    BY <1>5, <1>8 DEF Ordered, Apart
  <2>2. at \in {job.source, job.dest}
    BY <1>2, <1>6
  <2>3. MoverKept'
    BY <1>1, <1>3, <1>5, <1>6, <1>7, <2>1, <2>2 DEF MoverKept, Mover, None, Board!None
  <2> QED BY <1>5, <1>7, <2>1, <2>2, <2>3
<1> QED BY <1>1, <1>10, <1>11, <1>12, <1>13, <1>14, StillInMove

\* What stands in the move when the hand opens: over a field a piece left in the
\* hand at a restart falls; otherwise a piece in it goes where it belongs.
LEMMA OpenMade ==
  ASSUME ArmInv, OpenHand
  PROVE  /\ job # NoJob
         /\ \/ /\ Motion \in {2, 9} /\ Leftover
               /\ board' = board /\ dropped' = dropped
            \/ /\ Motion = 7 /\ job.hit /\ held = before.board[job.dest]
               /\ board' = board /\ dropped' = dropped \union ({held} \ {None})
            \/ /\ Motion = 15 /\ held = before.board[job.source] /\ held = None
               /\ board' = board /\ dropped' = dropped
            \/ /\ Motion = 15 /\ at = job.dest /\ at \in Fields
               /\ held = before.board[job.source] /\ held # None
               /\ held = Mover /\ board[at] = None
               /\ board' = [board EXCEPT ![at] = held] /\ dropped' = dropped
<1>1. Next1("HOpen")
  BY DEF OpenHand
<1>2. PICK n \in {2, 7, 9, 15} : n = Motion
  BY OthersMade
<1>3. job # NoJob /\ n \in First .. 16
  BY <1>1, <1>2, MotionMade
<1>4. ArmBefore(n) /\ HandBefore(n) /\ BoardBefore(n) /\ First \in {1, 8}
  BY <1>2, <1>3, InMove
<1>5. /\ job \in [source : Fields, dest : Fields, hit : BOOLEAN] /\ job.source # job.dest
      /\ before.board \in [Fields -> Pieces \union {None}]
      /\ job = command /\ Stage(before.board) /\ (~job.hit => asked[job.dest] = None)
  BY <1>3, InMove
<1>6. CASE n \in {2, 9}
  <2>1. ~low /\ at # "pDrop" /\ Leftover
    BY <1>3, <1>4, <1>5, <1>6, ArmAssumption DEF ArmBefore, HandBefore
  <2>2. board' = board /\ dropped' = dropped
    BY <2>1 DEF OpenHand
  <2> QED BY <1>2, <1>3, <1>6, <2>1, <2>2
<1>7. CASE n = 7
  <2>1. ~low /\ at = "pDrop" /\ held = before.board[job.dest] /\ job.hit
    BY <1>3, <1>4, <1>5, <1>7 DEF ArmBefore, HandBefore, First
  <2>2. board' = board /\ dropped' = dropped \union ({held} \ {None})
    BY <2>1 DEF OpenHand
  <2> QED BY <1>2, <1>3, <1>7, <2>1, <2>2
<1>8. CASE n = 15
  <2>1. low /\ at = job.dest /\ held = before.board[job.source] /\ at \in Fields
    BY <1>3, <1>4, <1>5, <1>8 DEF ArmBefore, HandBefore
  <2>2. dropped' = dropped
    BY <1>5, <2>1, ArmAssumption DEF OpenHand
  <2>3. CASE held = None
    BY <1>2, <1>3, <1>8, <2>1, <2>2, <2>3 DEF OpenHand
  <2>4. CASE held # None
    <3>1. held = Mover /\ before.board[job.dest] \in {asked[job.dest], None}
      BY <1>5, <2>1, <2>4 DEF Stage
    <3>2. board = Board!Lifted(job, before.board)
      BY <1>4, <1>8 DEF BoardBefore
    <3>3. board[at] = None
      BY <1>5, <2>1, <3>1, <3>2 DEF Board!Lifted, Board!Cleared, None, Board!None
    <3>4. board' = [board EXCEPT ![at] = held]
      BY <2>1, <2>4 DEF OpenHand
    <3> QED BY <1>2, <1>3, <1>8, <2>1, <2>2, <2>4, <3>1, <3>3, <3>4
  <2> QED BY <2>3, <2>4
<1> QED BY <1>2, <1>6, <1>7, <1>8

LEMMA OpenHandInv == ArmInv /\ OpenHand => ArmInv'
<1> SUFFICES ASSUME ArmInv, OpenHand PROVE ArmInv'
  OBVIOUS
<1>1. Next1("HOpen") /\ hand' = "open" /\ held' = None /\ UNCHANGED <<at, low>>
  BY DEF OpenHand
<1>2. PICK n \in {2, 7, 9, 15} : n = Motion
  BY OthersMade
<1>3. /\ job # NoJob
      /\ UNCHANGED <<job, before, restarts, carried, waiting, command, standing, made, asked>>
      /\ Motion' = n + 1 /\ First' = First /\ n \in First .. 16
  BY <1>1, <1>2, MotionMade
<1>4. ArmBefore(n) /\ HandBefore(n) /\ BoardBefore(n) /\ First \in {1, 8}
  BY <1>2, <1>3, InMove
<1>5. /\ job \in [source : Fields, dest : Fields, hit : BOOLEAN] /\ job.source # job.dest
      /\ before.board \in [Fields -> Pieces \union {None}]
      /\ job = command /\ Ordered
  BY <1>3, InMove
<1>6. Apart
  BY DEF ArmInv
<1>7. ArmBefore(Motion)'
  BY <1>1, <1>3, <1>4 DEF ArmBefore
<1>8. HandBefore(Motion)'
  BY <1>1, <1>3, <1>4 DEF HandBefore, Leftover, None, Board!None
<1>9. /\ MoverKept /\ board \in [Fields -> Pieces \union {None}]
      /\ made => board[job.source] = None /\ board[job.dest] \in {Mover, None}
  BY <1>5, <1>6 DEF Ordered, Apart
<1>10. /\ (Board!Cleared(job, before.board))' = Board!Cleared(job, before.board)
       /\ (Board!Lifted(job, before.board))' = Board!Lifted(job, before.board)
       /\ (Board!After(job, before.board))' = Board!After(job, before.board)
       /\ (Board!Victim(job, before.board))' = Board!Victim(job, before.board)
  BY <1>3 DEF Board!Cleared, Board!Lifted, Board!After, Board!Victim, Board!None
<1>11. CASE n \in {2, 9}
  <2>1. board' = board /\ dropped' = dropped /\ Leftover
    BY <1>2, <1>11, OpenMade
  <2>2. BoardBefore(Motion)'
    BY <1>3, <1>4, <1>10, <1>11, <2>1 DEF BoardBefore
  <2>3. Apart'
    BY <1>1, <1>6, <2>1, ArmAssumption DEF Apart, None, Board!None
  <2>4. MoverKept'
    BY <1>1, <1>3, <1>9, <2>1 DEF MoverKept, Leftover, Mover, None, Board!None
  <2> QED BY <1>1, <1>7, <1>8, <1>9, <2>1, <2>2, <2>3, <2>4, StillInMove
<1>12. CASE n = 7
  <2>1. job.hit /\ held = before.board[job.dest]
        /\ board' = board /\ dropped' = dropped \union ({held} \ {None})
    BY <1>2, <1>12, OpenMade
  <2>2. dropped' = before.dropped \union Board!Victim(job, before.board)
    BY <1>4, <1>12, <2>1 DEF BoardBefore, Board!Victim, None, Board!None
  <2>3. BoardBefore(Motion)'
    BY <1>3, <1>4, <1>10, <1>12, <2>1, <2>2 DEF BoardBefore
  <2>4. Apart'
    BY <1>1, <1>6, <2>1, ArmAssumption DEF Apart, None, Board!None
  <2>5. MoverKept'
    BY <1>1, <1>3, <1>5, <1>9, <2>1 DEF MoverKept, Mover, None, Board!None
  <2> QED BY <1>1, <1>7, <1>8, <1>9, <2>1, <2>3, <2>4, <2>5, StillInMove
<1>13. CASE n = 15
  <2>1. board = Board!Lifted(job, before.board)
        /\ dropped = before.dropped \union Board!Victim(job, before.board)
    BY <1>4, <1>13 DEF BoardBefore
  <2>2. CASE held = None
    <3>1. before.board[job.source] = None /\ board' = board /\ dropped' = dropped
      BY <1>2, <1>13, <2>2, OpenMade
    <3>2. board' = Board!After(job, before.board)
      BY <2>1, <3>1 DEF Board!After, None, Board!None
    <3>3. BoardBefore(Motion)'
      BY <1>3, <1>10, <1>13, <2>1, <3>1, <3>2 DEF BoardBefore
    <3>4. Apart' /\ MoverKept'
      BY <1>1, <1>3, <1>6, <1>9, <2>2, <3>1 DEF Apart, MoverKept, Mover, None, Board!None
    <3> QED BY <1>1, <1>7, <1>8, <1>9, <3>1, <3>3, <3>4, StillInMove
  <2>3. CASE held # None
    <3>1. /\ at = job.dest /\ held = before.board[job.source] /\ held = Mover
          /\ board[at] = None /\ board' = [board EXCEPT ![at] = held] /\ dropped' = dropped
      BY <1>2, <1>13, <2>3, OpenMade
    <3>2. board' = Board!After(job, before.board)
      BY <2>1, <2>3, <3>1 DEF Board!After, None, Board!None
    <3>3. BoardBefore(Motion)'
      BY <1>3, <1>10, <1>13, <2>1, <3>1, <3>2 DEF BoardBefore
    <3>4. Apart'
      BY <1>1, <1>5, <1>6, <3>1, ArmAssumption DEF Apart, None, Board!None
    <3>5. /\ MoverKept'
          /\ made => board'[job.source] = None /\ board'[job.dest] \in {Mover, None}
      BY <1>1, <1>3, <1>5, <1>9, <3>1 DEF MoverKept, Mover, None, Board!None
    <3> QED BY <1>1, <1>7, <1>8, <3>3, <3>4, <3>5, StillInMove
  <2> QED BY <2>2, <2>3
<1> QED BY <1>2, <1>11, <1>12, <1>13

\* The motions are made: the board is the one after the move.
LEMMA MoveDone ==
  ASSUME ArmInv, EndMove
  PROVE  /\ job # NoJob /\ Motion = 17
         /\ board = Board!After(job, before.board)
         /\ dropped = before.dropped \union Board!Victim(job, before.board)
         /\ hand = "open" /\ held = None /\ ~low
<1>1. job # NoJob /\ pc > Len(Motions)
  BY DEF EndMove
<1>2. Len(Motions) \in Nat
  BY DEF Motions, HitMotions, NormalMotions
<1>3. Motion \in First .. 17 /\ First \in {1, 8} /\ pc \in Nat
  BY <1>1, InMove DEF ArmInv
<1>4. Motion = 17
  <2>1. ~(pc <= Len(Motions))
    BY <1>1, <1>2, <1>3
  <2> QED BY <1>1, <1>3, <2>1, MotionNumbers
<1>5. ArmBefore(17) /\ HandBefore(17) /\ BoardBefore(17)
  BY <1>1, <1>4, InMove
<1>6. hand = "open" /\ held = None /\ ~low
  BY <1>5 DEF ArmBefore, HandBefore, ArmInv
<1> QED BY <1>1, <1>4, <1>5, <1>6 DEF BoardBefore

\* After a move nothing stands on its source, and nothing but its piece on its goal.
LEMMA AfterMove ==
  ASSUME ArmInv, job # NoJob
  PROVE  /\ Board!After(job, before.board)[job.source] = None
         /\ Board!After(job, before.board)[job.dest] \in {Mover, None}
<1> DEFINE b == before.board  l == Board!Lifted(job, b)  a == Board!After(job, b)
<1>1. /\ job \in [source : Fields, dest : Fields, hit : BOOLEAN] /\ job.source # job.dest
      /\ (~job.hit => asked[job.dest] = None) /\ job = command
      /\ Stage(b) /\ b \in [Fields -> Pieces \union {None}]
      /\ l \in [Fields -> Pieces \union {None}]
  BY InMove, Stages
<1>2. l[job.source] = None /\ l[job.dest] \in {Mover, None}
  BY <1>1 DEF Board!Lifted, Board!Cleared, Stage, None, Board!None
<1>3. CASE b[job.source] = None
  BY <1>2, <1>3 DEF Board!After, None, Board!None
<1>4. CASE b[job.source] # None
  <2>1. a = [l EXCEPT ![job.dest] = b[job.source]] /\ b[job.source] = Mover
    BY <1>1, <1>4 DEF Board!After, None, Board!None, Stage
  <2> HIDE DEF l, a
  <2>2. a[job.source] = None /\ a[job.dest] \in {Mover, None}
    BY <1>1, <1>2, <2>1
  <2> QED BY <2>2 DEF a
<1> QED BY <1>3, <1>4

LEMMA OrderInv == ArmInv /\ Order => ArmInv'
<1> SUFFICES ASSUME ArmInv, Order PROVE ArmInv'
  OBVIOUS
<1>1. /\ job = NoJob /\ ~waiting
      /\ command' \in Jobs /\ Board!Allowed(command', board)
      /\ standing' = TRUE /\ made' = FALSE /\ asked' = board
      /\ UNCHANGED <<board, dropped, at, low, hand, held, job, pc, waiting, before,
                     restarts, carried>>
  BY DEF Order
<1>2. Apart /\ Resting
  BY <1>1 DEF ArmInv
<1>3. /\ command' \in [source : Fields, dest : Fields, hit : BOOLEAN]
      /\ command'.source # command'.dest /\ (~command'.hit => board[command'.dest] = None)
  BY <1>1, ArmAssumption DEF Board!Allowed, None
<1>4. command' # NoJob
  BY <1>3, ArmAssumption DEF NoJob
<1>5. board \in [Fields -> Pieces \union {None}]
  BY <1>2 DEF Apart
<1>6. Stage(board)' /\ MoverKept'
  BY <1>1, <1>3, <1>5 DEF Stage, MoverKept, Mover, None, Board!None
<1>7. Ordered'
  BY <1>1, <1>3, <1>5, <1>6 DEF Ordered, None, Board!None
<1>8. Resting'
  BY <1>1, <1>2 DEF Resting, Leftover, Now, None, Board!None
<1>9. Apart' /\ job' = NoJob' /\ command' # NoJob' /\ ~waiting'
  BY <1>1, <1>2, <1>4 DEF Apart, NoJob, None, Board!None
<1> QED BY <1>1, <1>7, <1>8, <1>9 DEF ArmInv, None, Board!None

LEMMA WithdrawInv == ArmInv /\ Withdraw => ArmInv'
<1> SUFFICES ASSUME ArmInv, Withdraw PROVE ArmInv'
  OBVIOUS
<1>1. /\ standing /\ standing' = FALSE
      /\ UNCHANGED <<board, dropped, at, low, hand, held, job, pc, waiting, command, made,
                     asked, before, restarts, carried>>
  BY DEF Withdraw
<1>2. Ordered => Ordered'
  BY <1>1, SamePieces
<1>3. Resting => Resting'
  BY <1>1 DEF Resting, Leftover, Now, None, Board!None
<1>4. Moving => Moving'
  BY <1>1 DEF Moving, Stage, Mover, Motion, First, ArmBefore, HandBefore, BoardBefore, Leftover,
              None, Board!None, Board!Cleared, Board!Lifted, Board!After, Board!Victim
<1>5. Apart => Apart'
  BY <1>1 DEF Apart, None, Board!None
<1> QED BY <1>1, <1>2, <1>3, <1>4, <1>5 DEF ArmInv, NoJob, None, Board!None

LEMMA BeginMoveInv == ArmInv /\ BeginMove => ArmInv'
<1> SUFFICES ASSUME ArmInv, BeginMove PROVE ArmInv'
  OBVIOUS
<1>1. /\ job = NoJob /\ ~waiting /\ standing /\ job' = command /\ pc' = 1
      /\ before' = [board |-> board, dropped |-> dropped]
      /\ UNCHANGED <<board, dropped, at, low, hand, held, waiting, command, standing, made,
                     asked, restarts, carried>>
  BY DEF BeginMove, Now
<1>2. /\ restarts \in Nat /\ command # NoJob /\ Ordered
      /\ Apart /\ hand \in {"open", "closed"} /\ (hand = "open" => held = None)
      /\ at = "pObs" /\ ~low /\ Leftover /\ (restarts = 0 => board = asked)
  BY <1>1 DEF ArmInv, Resting
<1>3. job' \in [source : Fields, dest : Fields, hit : BOOLEAN]
  BY <1>1, <1>2, ArmAssumption DEF Ordered
<1>4. Motion' \in First' .. 17 /\ Motion' = First' /\ First' \in {1, 8}
      /\ (First' = 1 <=> job'.hit)
  BY <1>1, <1>3 DEF Motion, First
<1>5. before'.board = board' /\ before'.dropped = dropped' /\ board' = board /\ dropped' = dropped
  BY <1>1
<1>6. ArmBefore(Motion)'
  BY <1>1, <1>2, <1>4 DEF ArmBefore
<1>7. HandBefore(Motion)'
  BY <1>1, <1>2, <1>4 DEF HandBefore, Leftover, None, Board!None
<1>8. BoardBefore(Motion)'
  <2>1. CASE First' = 1
    BY <1>4, <1>5, <2>1 DEF BoardBefore
  <2>2. CASE First' = 8
    <3>1. (Board!Cleared(job, before.board))' = board' /\ (Board!Victim(job, before.board))' = {}
      BY <1>4, <1>5, <2>2 DEF Board!Cleared, Board!Victim
    <3> QED BY <1>4, <1>5, <2>2, <3>1 DEF BoardBefore
  <2> QED BY <1>4, <2>1, <2>2
<1>9. Ordered' /\ Stage(board)'
  BY <1>1, <1>2, SamePieces DEF Ordered
<1>10. Stage(before.board)'
  BY <1>5, <1>9 DEF Stage, Mover, None, Board!None
<1>11. Moving'
  BY <1>1, <1>2, <1>4, <1>5, <1>6, <1>7, <1>8, <1>10 DEF Moving
<1>12. Apart' /\ job' # NoJob' /\ command' # NoJob' /\ ~waiting'
  BY <1>1, <1>2 DEF Apart, NoJob, None, Board!None
<1> QED BY <1>1, <1>2, <1>9, <1>11, <1>12 DEF ArmInv, None, Board!None

LEMMA EndMoveInv == ArmInv /\ EndMove => ArmInv'
<1> SUFFICES ASSUME ArmInv, EndMove PROVE ArmInv'
  OBVIOUS
<1>1. /\ job # NoJob /\ job' = NoJob /\ waiting' = TRUE /\ made' = TRUE
      /\ before' = [board |-> board, dropped |-> dropped]
      /\ UNCHANGED <<board, dropped, at, low, hand, held, pc, command, standing, asked,
                     restarts, carried>>
  BY DEF EndMove, Now
<1>2. /\ Apart /\ pc \in Nat /\ restarts \in Nat /\ hand = "open" /\ held = None /\ ~low
      /\ board = Board!After(job, before.board)
  BY MoveDone DEF ArmInv
<1>3. job = command /\ Ordered
  BY <1>1, InMove
<1>4. board[command.source] = None /\ board[command.dest] \in {Mover, None}
  BY <1>1, <1>2, <1>3, AfterMove
<1>5. Ordered'
  BY <1>1, <1>3, <1>4 DEF Ordered, Stage, MoverKept, Mover, None, Board!None
<1>6. Resting'
  BY <1>1, <1>2 DEF Resting, Leftover, Now, None, Board!None
<1>7. Apart' /\ job' = NoJob' /\ command' # NoJob'
  BY <1>1, <1>2, <1>3 DEF Apart, NoJob, None, Board!None
<1> QED BY <1>1, <1>2, <1>5, <1>6, <1>7 DEF ArmInv, None, Board!None

LEMMA BackToMainInv == ArmInv /\ BackToMain => ArmInv'
<1> SUFFICES ASSUME ArmInv, BackToMain PROVE ArmInv'
  OBVIOUS
<1>1. /\ waiting /\ ~standing /\ waiting' = FALSE /\ at' = "pObs" /\ low' = FALSE
      /\ UNCHANGED <<board, dropped, hand, held, job, pc, command, standing, made, asked,
                     before, restarts, carried>>
  BY DEF BackToMain
<1>2. job = NoJob /\ Resting /\ Apart
  BY <1>1 DEF ArmInv, Moving
<1>3. Resting'
  BY <1>1, <1>2 DEF Resting, Leftover, Now, None, Board!None
<1>4. command # NoJob /\ Ordered /\ Ordered'
  BY <1>1, SamePieces DEF ArmInv
<1>5. Apart' /\ job' = NoJob' /\ command' # NoJob'
  BY <1>1, <1>2, <1>4 DEF Apart, NoJob, None, Board!None
<1> QED BY <1>1, <1>3, <1>4, <1>5 DEF ArmInv, None, Board!None

LEMMA ProgramRestartInv == ArmInv /\ ProgramRestart => ArmInv'
<1> SUFFICES ASSUME ArmInv, ProgramRestart PROVE ArmInv'
  OBVIOUS
<1>1. /\ job' = NoJob /\ pc' = 1 /\ waiting' = FALSE /\ at' = "pObs" /\ low' = FALSE
      /\ before' = [board |-> board, dropped |-> dropped]
      /\ carried' = carried \union ({held} \ {None})
      /\ restarts' = restarts + 1
      /\ UNCHANGED <<board, dropped, hand, held, command, standing, made, asked>>
  BY DEF ProgramRestart, Now
<1>2. restarts \in Nat /\ Apart /\ hand \in {"open", "closed"} /\ (hand = "open" => held = None)
  BY DEF ArmInv
<1>3. Resting'
  BY <1>1, <1>2 DEF Resting, Leftover, Now, None, Board!None
<1>4. Ordered => Ordered'
  BY <1>1 DEF Ordered, Stage, MoverKept, Mover, None, Board!None
<1>5. command = NoJob => ~standing /\ ~made
  BY DEF ArmInv
<1>6. command # NoJob => Ordered
  BY DEF ArmInv
<1>7. Apart' /\ job' = NoJob' /\ NoJob' = NoJob
  BY <1>1, <1>2 DEF Apart, NoJob, None, Board!None
<1> QED BY <1>1, <1>2, <1>3, <1>4, <1>5, <1>6, <1>7 DEF ArmInv, None, Board!None

LEMMA NextArm == ArmInv /\ [ArmNext]_armVars => ArmInv'
<1> SUFFICES ASSUME ArmInv, [ArmNext]_armVars PROVE ArmInv'
  OBVIOUS
<1>1. CASE ArmNext
  BY <1>1, OrderInv, WithdrawInv, BeginMoveInv, EndMoveInv, BackToMainInv, MoveOverInv,
     MoveDownInv, MoveDropInv, CloseHandInv, OpenHandInv, ProgramRestartInv DEF ArmNext
<1>2. CASE UNCHANGED armVars
  <2>1. (Ordered => Ordered') /\ (Resting => Resting') /\ (Apart => Apart')
    BY <1>2 DEF armVars, Ordered, Stage, MoverKept, Mover, Resting, Leftover, Now, Apart,
                None, Board!None
  <2>2. Moving => Moving'
    BY <1>2 DEF armVars, Moving, Stage, Mover, Motion, First, ArmBefore, HandBefore, BoardBefore,
                Leftover, None, Board!None, Board!Cleared, Board!Lifted, Board!After, Board!Victim
  <2> QED BY <1>2, <2>1, <2>2 DEF armVars, ArmInv, NoJob, None, Board!None
<1> QED BY <1>1, <1>2

\* At every point of a move, made for the first time or again, the arm, the hand and
\* the pieces are where the motions made so far have put them; and wherever the
\* program is, the fields of the command are as it found them, cleared or filled.
THEOREM ArmInvariant == ArmSpec => []ArmInv
BY InitArm, NextArm, PTL DEF ArmSpec

-----------------------------------------------------------------------------
(* The arm travels raised.                                                   *)

\* Going down, the hand is open, or over an empty field, or in a move made again over
\* the piece of that move.
DownGoal ==
  \/ hand = "open"
  \/ board[at'] = None
  \/ /\ restarts > 0 /\ hand = "closed" /\ held = None
     /\ at' = command.dest /\ board[at'] = Mover

LEMMA DownSafe ==
  ASSUME ArmInv, MoveDown
  PROVE  ~low /\ DownGoal
<1>1. Next1("down")
  BY DEF MoveDown
<1>2. PICK n \in 1 .. 16 : n = Motion
  BY <1>1, MotionMade DEF First
<1>3. job # NoJob /\ n \in First .. 16
  BY <1>1, <1>2, MotionMade
<1>4. \/ n \in {3, 14} /\ at' = job.dest
      \/ n = 10 /\ at' = job.source
  BY <1>2, DownMade
<1>5. /\ ArmBefore(n) /\ HandBefore(n) /\ BoardBefore(n) /\ First \in {1, 8}
      /\ job \in [source : Fields, dest : Fields, hit : BOOLEAN] /\ job.source # job.dest
      /\ before.board \in [Fields -> Pieces \union {None}]
      /\ job = command /\ Stage(before.board) /\ (~job.hit => asked[job.dest] = None)
  BY <1>2, <1>3, InMove
<1>6. ~low
  BY <1>4, <1>5 DEF ArmBefore
<1>7. CASE n \in {3, 10}
  BY <1>5, <1>6, <1>7 DEF HandBefore, DownGoal
<1>8. CASE n = 14
  <2>1. hand = "closed" /\ held = before.board[job.source] /\ at' = job.dest
        /\ board = Board!Lifted(job, before.board)
    BY <1>4, <1>5, <1>8 DEF HandBefore, BoardBefore
  <2>2. job.hit => board[job.dest] = None
    BY <1>5, <2>1 DEF Board!Lifted, Board!Cleared, None, Board!None
  <2>3. ~job.hit => board[job.dest] = before.board[job.dest]
    BY <1>5, <2>1 DEF Board!Lifted, Board!Cleared, None, Board!None
  <2>4. restarts \in Nat /\ (restarts = 0 => before.board = asked)
    BY <1>3 DEF ArmInv, Moving
  <2>5. CASE ~job.hit /\ board[job.dest] # None
    <3>1. before.board[job.source] = None /\ before.board[job.dest] = Mover
      BY <1>5, <2>3, <2>5 DEF Stage
    <3>2. restarts # 0
      BY <1>5, <2>3, <2>4, <2>5
    <3>3. restarts > 0
      BY <2>4, <3>2
    <3>4. hand = "closed" /\ held = None /\ at' = command.dest
      BY <1>5, <2>1, <3>1
    <3>5. board[at'] = Mover
      BY <2>1, <2>3, <2>5, <3>1
    <3> QED BY <1>6, <3>3, <3>4, <3>5 DEF DownGoal
  <2> QED BY <1>6, <2>1, <2>2, <2>5 DEF DownGoal
<1> QED BY <1>4, <1>6, <1>7, <1>8

\* Going over a point, the arm is raised, or it is over that point already.
LEMMA OverSafe ==
  ASSUME ArmInv, MoveOver \/ MoveDrop
  PROVE  at' # at => ~low
<1>1. CASE MoveOver
  <2>1. Next1("over")
    BY <1>1 DEF MoveOver
  <2>2. PICK n \in 1 .. 16 : n = Motion
    BY <2>1, MotionMade DEF First
  <2>3. job # NoJob
    BY <2>1, MotionMade
  <2>4. \/ n \in {1, 5, 13, 16} /\ at' = job.dest
        \/ n \in {8, 12} /\ at' = job.source
    BY <1>1, <2>2, OverMade
  <2> QED BY <2>2, <2>3, <2>4, InMove DEF ArmBefore
<1>2. CASE MoveDrop
  <2>1. Motion = 6 /\ job # NoJob
    BY <1>2, OthersMade DEF MoveDrop, Next1
  <2> QED BY <2>1, InMove DEF ArmBefore
<1> QED BY <1>1, <1>2

\* Whatever the board, the moves, the commands taken back and the restarts, the program
\* moves the arm sideways only when it is raised, and lowers it only with the hand open
\* or to an empty field, but for a move made again after a restart that has its piece on
\* the goal already: there it comes down, closed and empty, on that piece.
THEOREM ArmNeverCollides == ArmSpec => NoCollision
<1>1. ArmInv /\ [ArmNext]_armVars =>
        [ restarts' = restarts =>
            /\ at' # at => ~low
            /\ low' /\ ~low => \/ hand = "open"
                               \/ board[at'] = None
                               \/ /\ restarts > 0 /\ hand = "closed" /\ held = None
                                  /\ at' = command.dest /\ board[at'] = Mover ]_armVars
  <2> SUFFICES ASSUME ArmInv, ArmNext, restarts' = restarts
               PROVE  /\ at' # at => ~low
                      /\ low' /\ ~low => DownGoal
    BY DEF armVars, DownGoal
  <2>1. CASE MoveDown
    BY <2>1, DownSafe
  <2>2. CASE MoveOver \/ MoveDrop
    BY <2>2, OverSafe DEF MoveOver, MoveDrop
  <2>3. CASE BackToMain
    <3>1. ~low' /\ job = NoJob
      BY <2>3 DEF BackToMain, ArmInv, Moving
    <3> QED BY <3>1 DEF ArmInv, Resting
  <2>4. CASE Order \/ Withdraw \/ BeginMove \/ EndMove \/ CloseHand \/ OpenHand
    BY <2>4 DEF Order, Withdraw, BeginMove, EndMove, CloseHand, OpenHand
  <2>5. ~ProgramRestart
    <3>1. ASSUME ProgramRestart PROVE FALSE
      BY <3>1 DEF ProgramRestart, ArmInv
    <3> QED BY <3>1
  <2> QED BY <2>1, <2>2, <2>3, <2>4, <2>5 DEF ArmNext
<1> QED BY ArmInvariant, <1>1, PTL DEF ArmSpec, NoCollision

-----------------------------------------------------------------------------
(* No piece is lost but those the hand held at a restart.                    *)

LEMMA OnePlace ==
  Apart => \A p \in Pieces : Place(p) # {} => \E x \in Place(p) : Place(p) = {x}
<1> SUFFICES ASSUME Apart, NEW p \in Pieces, Place(p) # {}
             PROVE  \E x \in Place(p) : Place(p) = {x}
  OBVIOUS
<1>1. p # None
  BY ArmAssumption DEF None, Board!None
<1>2. CASE held = p
  <2>1. p \notin dropped /\ \A f \in Fields : board[f] # p
    BY <1>1, <1>2 DEF Apart
  <2>2. Place(p) = {"hand"}
    BY <1>2, <2>1 DEF Place
  <2> QED BY <2>2
<1>3. CASE held # p /\ p \in dropped
  <2>1. \A f \in Fields : board[f] # p
    BY <1>1, <1>3 DEF Apart
  <2>2. Place(p) = {"pDrop"}
    BY <1>3, <2>1 DEF Place
  <2> QED BY <2>2
<1>4. CASE held # p /\ p \notin dropped
  <2>1. PICK f \in Fields : board[f] = p
    BY <1>4 DEF Place
  <2>2. \A g \in Fields : board[g] = p => g = f
    BY <1>1, <2>1 DEF Apart
  <2>3. Place(p) = {f}
    BY <1>4, <2>1, <2>2 DEF Place
  <2> QED BY <2>3
<1> QED BY <1>2, <1>3, <1>4

\* A motion leaves every piece somewhere, but for one that falls from the hand.
LEMMA NothingVanishes ==
  ASSUME ArmInv, ArmNext, NEW p \in Pieces, Place(p) # {}
  PROVE  Place(p)' # {} \/ p \in carried
<1>1. p # None /\ Apart
  BY ArmAssumption DEF None, Board!None, ArmInv
<1>2. held = p \/ p \in dropped \/ \E f \in Fields : board[f] = p
  BY DEF Place
<1>3. SUFFICES held' = p \/ p \in dropped' \/ (\E f \in Fields : board'[f] = p) \/ p \in carried
  BY DEF Place
<1>4. CASE UNCHANGED <<board, dropped, held>>
  BY <1>2, <1>4
<1>5. CASE CloseHand
  <2>1. /\ held = None /\ at \in Fields /\ held' = board[at]
        /\ board' = [board EXCEPT ![at] = None] /\ dropped' = dropped
    BY <1>5, CloseMade DEF CloseHand
  <2>2. \A f \in Fields : board[f] = p => held' = p \/ board'[f] = p
    BY <1>1, <2>1 DEF Apart
  <2> QED BY <1>1, <1>2, <2>1, <2>2
<1>6. CASE OpenHand
  <2>1. CASE board' = board /\ dropped' = dropped /\ Leftover
    BY <1>1, <1>2, <2>1 DEF Leftover
  <2>2. CASE board' = board /\ dropped' = dropped \union ({held} \ {None})
    BY <1>1, <1>2, <2>2
  <2>3. CASE board' = board /\ dropped' = dropped /\ held = None
    BY <1>1, <1>2, <2>3
  <2>4. CASE /\ at \in Fields /\ board[at] = None
             /\ board' = [board EXCEPT ![at] = held] /\ dropped' = dropped
    <3>1. board'[at] = held /\ \A f \in Fields : board[f] = p => board'[f] = p
      BY <1>1, <2>4 DEF Apart
    <3> QED BY <1>2, <2>4, <3>1
  <2> QED BY <1>6, <2>1, <2>2, <2>3, <2>4, OpenMade
<1> QED BY <1>4, <1>5, <1>6
        DEF ArmNext, Order, Withdraw, BeginMove, EndMove, BackToMain, MoveOver, MoveDown,
            MoveDrop, ProgramRestart

\* However often the program is stopped and started again, and whatever moves it makes
\* again, a piece that is lost was in the hand at a restart: no other is knocked over,
\* put on top of another or dropped elsewhere.
THEOREM OnlyCarriedLost == ArmSpec => LosesOnlyCarried
<1>1. (Apart => \A p \in Pieces : Place(p) # {} => \E x \in Place(p) : Place(p) = {x})'
  BY OnePlace, PTL
<1>2. ArmInv /\ [ArmNext]_armVars =>
        [\A p \in Pieces : Place(p) # {} =>
           \/ \E x \in Place(p)' : Place(p)' = {x}
           \/ Place(p)' = {} /\ p \in carried]_armVars
  BY <1>1, NextArm, NothingVanishes DEF ArmInv
<1> QED BY ArmInvariant, <1>2, PTL DEF ArmSpec, LosesOnlyCarried

-----------------------------------------------------------------------------
(* READY means moved.                                                        *)

\* At rest after READY, the board is the one after the move, or the piece is known to
\* have been in the hand at a restart or to have been thrown away.
LEMMA MovedAtRest == ArmInv => ReadyMeansMoved
<1> SUFFICES ASSUME ArmInv, job = NoJob, made, Mover \notin carried,
                    ~(command.hit /\ Mover \in dropped)
             PROVE  board = Board!After(command, asked)
  BY DEF ReadyMeansMoved
<1>1. Ordered /\ Leftover /\ board \in [Fields -> Pieces \union {None}]
  BY DEF ArmInv, Resting, Apart
<1>2. /\ command \in [source : Fields, dest : Fields, hit : BOOLEAN]
      /\ command.source # command.dest
      /\ asked \in [Fields -> Pieces \union {None}]
      /\ (~command.hit => asked[command.dest] = None)
      /\ \A f \in Fields \ {command.source, command.dest} : board[f] = asked[f]
      /\ board[command.source] = None /\ board[command.dest] \in {Mover, None}
  BY <1>1, ArmAssumption DEF Ordered, Stage
<1>3. Mover = None \/ board[command.dest] = Mover
  <2>1. Mover # None => held # Mover
    BY <1>1 DEF Leftover
  <2> QED BY <1>1, <1>2, <2>1 DEF Ordered, MoverKept
<1> DEFINE l == Board!Lifted(command, asked)  a == Board!After(command, asked)
<1>4. /\ l \in [Fields -> Pieces \union {None}]
      /\ l[command.source] = None /\ l[command.dest] = None
      /\ \A f \in Fields \ {command.source, command.dest} : l[f] = asked[f]
  BY <1>2 DEF Board!Lifted, Board!Cleared, None, Board!None
<1>5. CASE Mover = None
  <2>1. a = l
    BY <1>5 DEF Board!After, Mover, None, Board!None
  <2> HIDE DEF l, a
  <2>2. board = a
    BY <1>1, <1>2, <1>4, <1>5, <2>1
  <2> QED BY <2>2 DEF a
<1>6. CASE Mover # None
  <2>1. a = [l EXCEPT ![command.dest] = Mover]
    BY <1>6 DEF Board!After, Mover, None, Board!None
  <2> HIDE DEF l, a
  <2>2. /\ a \in [Fields -> Pieces \union {None}]
        /\ \A f \in Fields : board[f] = a[f]
    BY <1>1, <1>2, <1>3, <1>4, <1>6, <2>1
  <2>3. board = a
    BY <1>1, <2>2
  <2> QED BY <2>3 DEF a
<1> QED BY <1>5, <1>6

\* Whenever the program has signalled READY for a command, however often it was stopped
\* on the way and has made the move again, the move stands on the board, unless its
\* piece was in the hand at a stop or was thrown away when a hit was made again.
THEOREM ReadyIsTrue == ArmSpec => []ReadyMeansMoved
BY ArmInvariant, MovedAtRest, PTL

-----------------------------------------------------------------------------
(* The motions make the move.                                                *)

LEMMA InitBoard == ArmInit => Board!BoardInit
BY DEF ArmInit, Board!BoardInit, NoJob, Board!NoJob

\* A restart between two motions leaves the board as after some of the move.
LEMMA RestartStops == ArmInv /\ ProgramRestart => Board!Stop
<1> SUFFICES ASSUME ArmInv, ProgramRestart PROVE Board!Stop
  OBVIOUS
<1>1. job' = NoJob /\ ~waiting' /\ restarts' = restarts + 1
      /\ UNCHANGED <<board, dropped, command, standing, made>>
  BY DEF ProgramRestart
<1>2. job' = NoJob' /\ (~waiting' /\ standing') = standing
  <2>1. standing \in BOOLEAN
    BY DEF ArmInv
  <2> QED BY <1>1, <2>1 DEF NoJob
<1>3. CASE job = NoJob
  BY <1>1, <1>2, <1>3 DEF Board!Stop
<1>4. CASE job # NoJob
  <2> DEFINE b == before.board
             e == before.dropped \union Board!Victim(job, b)
  <2>1. job = command /\ BoardBefore(Motion) /\ Motion \in 1 .. 17
    BY <1>4, InMove
  <2>2. \/ board = b /\ dropped = before.dropped
        \/ board = Board!Cleared(job, b) /\ dropped = before.dropped
        \/ /\ board \in {Board!Cleared(job, b), Board!Lifted(job, b), Board!After(job, b)}
           /\ dropped = e
    <3>1. PICK n \in 1 .. 17 : n = Motion
      BY <2>1
    <3> QED BY <2>1, <3>1 DEF BoardBefore
  <2> QED BY <1>1, <1>2, <1>4, <2>1, <2>2 DEF Board!Stop
<1> QED BY <1>3, <1>4

LEMMA EndMakesMove == ArmInv /\ EndMove => Board!MakeMove
<1> SUFFICES ASSUME ArmInv, EndMove PROVE Board!MakeMove
  OBVIOUS
<1>1. job # NoJob /\ board = Board!After(job, before.board)
      /\ dropped = before.dropped \union Board!Victim(job, before.board)
  BY MoveDone
<1>2. job' = NoJob /\ waiting' /\ made' = TRUE
      /\ UNCHANGED <<board, dropped, restarts, command, standing>>
  BY DEF EndMove
<1>3. job = command
  BY <1>1, InMove
<1> QED BY <1>1, <1>2, <1>3 DEF Board!MakeMove, NoJob

LEMMA OrderAsks == Order => Board!AskMove
<1> SUFFICES ASSUME Order PROVE Board!AskMove
  OBVIOUS
<1>1. /\ job = NoJob /\ ~waiting /\ ~standing
      /\ command' \in Jobs /\ Board!Allowed(command', board)
      /\ standing' = TRUE /\ made' = FALSE
      /\ UNCHANGED <<board, dropped, job, waiting, restarts>>
  BY DEF Order
<1> QED BY <1>1 DEF Board!AskMove, Board!Allowed, NoJob

LEMMA WithdrawTakesBack == Withdraw => Board!TakeBack
BY DEF Withdraw, Board!TakeBack, NoJob

LEMMA ArmStep == ArmInv /\ [ArmNext]_armVars => [Board!BoardNext]_(Board!boardVars)
<1> SUFFICES ASSUME ArmInv, [ArmNext]_armVars
             PROVE  [Board!BoardNext]_(Board!boardVars)
  OBVIOUS
<1>1. CASE Order \/ Withdraw \/ EndMove \/ ProgramRestart
  BY <1>1, OrderAsks, WithdrawTakesBack, EndMakesMove, RestartStops DEF Board!BoardNext
<1>2. CASE BeginMove
  <2>1. /\ job = NoJob /\ ~waiting /\ standing = TRUE /\ job' = command
        /\ before' = [board |-> board, dropped |-> dropped]
        /\ UNCHANGED <<waiting, command, standing, made, restarts>>
    BY <1>2 DEF BeginMove, Now
  <2>2. job' # NoJob'
    BY <2>1 DEF NoJob, ArmInv
  <2> QED BY <2>1, <2>2 DEF Board!boardVars
<1>3. CASE BackToMain
  <2>1. ~standing /\ job = NoJob /\ job' = NoJob' /\ waiting
        /\ UNCHANGED <<board, dropped, command, standing, made, restarts>>
    BY <1>3 DEF BackToMain, NoJob, ArmInv, Moving
  <2> QED BY <2>1 DEF Board!boardVars
<1>4. CASE MoveOver \/ MoveDown \/ MoveDrop \/ CloseHand \/ OpenHand
  <2>1. job # NoJob /\ UNCHANGED <<job, before, restarts, waiting, command, standing, made>>
    BY <1>4 DEF MoveOver, MoveDown, MoveDrop, CloseHand, OpenHand, Next1
  <2> QED BY <2>1 DEF Board!boardVars, NoJob
<1>5. CASE UNCHANGED armVars
  BY <1>5 DEF armVars, Board!boardVars, NoJob
<1> QED BY <1>1, <1>2, <1>3, <1>4, <1>5 DEF ArmNext

\* Seen from the board, the motions of a move are one step that takes the piece
\* to its field, and a piece that stood there to the drop point; a restart leaves
\* a part of it done, and while the command stands the same move is made once more
\* from what stands there then.
THEOREM ArmImplementsBoard == ArmSpec => ImplementsBoard
BY InitBoard, ArmInvariant, ArmStep, PTL DEF ArmSpec, ImplementsBoard, Board!BoardSpec
=============================================================================
