---------------------------- MODULE RobotProgram ----------------------------
(***************************************************************************)
(* robotchess_modbus.prg: the program of the robot controller.  "label" is *)
(* the line the program has reached; every read of an input word is a step *)
(* of its own, since the PLC overwrites the words while the program runs.  *)
(* The arm's motions between two labels are one step here.                 *)
(***************************************************************************)
EXTENDS RegisterMap

VARIABLES
  label,      \* where the program is
  nW,         \* the words it has read: cmd1, type, source, dest
  performed   \* history: the moves carried out on the board, in order

robotVars == <<label, nW, performed>>

Labels == {"main", "cmd1", "readsecond", "type", "source", "dest",
           "startHitMove", "startNormalMove", "moveReady", "waitforpc",
           "clearReady", "exit", "stopped"}

\* The fields of the pallet (Def Plt 1, ..., 8, 8, 2).  Any other field number is
\* an error that stops the program.
Fields == 1 .. 64

Execution == [call : Nat, source : REG16, dest : REG16, type : REG16]

RobotInit ==
  /\ label = "main"
  /\ nW = [cmd1 |-> Zero, type |-> Zero, source |-> Zero, dest |-> Zero]
  /\ performed = <<>>

RobotTypeOK ==
  /\ label \in Labels
  /\ nW \in [cmd1 : Word, type : Word, source : Word, dest : Word]
  /\ performed \in Seq(Execution)

-----------------------------------------------------------------------------
Goto(l) == /\ label' = l
           /\ UNCHANGED <<robotOut, performed>>

\* *main: back to the observation point, then has the exit command come?
RobotMain ==
  /\ label = "main"
  /\ Goto(IF robotIn[ADDR_CMD_EXIT].val = CMD_EXIT THEN "exit" ELSE "cmd1")
  /\ UNCHANGED nW

\* Has the first command word come?  If not, start again.
RobotReadCmd1 ==
  /\ label = "cmd1"
  /\ nW' = [nW EXCEPT !.cmd1 = robotIn[ADDR_CMD_1]]
  /\ Goto(IF robotIn[ADDR_CMD_1].val = CMD_ALLOW_MOVE_1 THEN "readsecond" ELSE "main")

\* *readsecond: and the second?
\* Mutant: the second command word is not looked at.
RobotSkipSecond ==
  /\ label = "readsecond"
  /\ Goto("type")
  /\ UNCHANGED nW
RobotReadSecond ==
  /\ label = "readsecond"
  /\ Goto(IF robotIn[ADDR_CMD_2].val = CMD_ALLOW_MOVE_2 THEN "type" ELSE "main")
  /\ UNCHANGED nW

\* *readMoveParams: three reads, then the jump on the type; a type that is
\* neither runs on into *exit.
RobotReadType ==
  /\ label = "type"
  /\ nW' = [nW EXCEPT !.type = robotIn[ADDR_MOVETYPE]]
  /\ Goto("source")

RobotReadSource ==
  /\ label = "source"
  /\ nW' = [nW EXCEPT !.source = robotIn[ADDR_MOVESOURCE]]
  /\ Goto("dest")

AfterParams(type) == IF type = NORMAL_MOVE THEN "startNormalMove"
                     ELSE IF type = HIT_MOVE THEN "startHitMove" ELSE "exit"

RobotReadDest ==
  /\ label = "dest"
  /\ nW' = [nW EXCEPT !.dest = robotIn[ADDR_MOVEDEST]]
  /\ Goto(AfterParams(nW.type.val))

\* *startHitMove: take the piece on the destination field to the drop point,
\* then run on into the normal move.
RobotStartHitMove ==
  /\ label = "startHitMove"
  /\ Goto(IF nW.dest.val \in Fields THEN "startNormalMove" ELSE "stopped")
  /\ UNCHANGED nW

\* *startNormalMove: carry the piece from the source to the destination.
RobotStartNormalMove ==
  /\ label = "startNormalMove"
  /\ {nW.source.val, nW.dest.val} \subseteq Fields
  /\ label' = "moveReady"
  /\ performed' = Append(performed, [call |-> nW.cmd1.by, source |-> nW.source.val,
                                     dest |-> nW.dest.val, type |-> nW.type.val])
  /\ UNCHANGED <<nW, robotOut>>

RobotOffBoard ==
  /\ label = "startNormalMove"
  /\ ~ ({nW.source.val, nW.dest.val} \subseteq Fields)
  /\ Goto("stopped")
  /\ UNCHANGED nW

\* Signal the end of the move.
\* Mutant: the signal is set to the value that asks to clear it.
RobotWrongReady ==
  /\ label = "moveReady"
  /\ robotOut' = [val |-> CMD_CLR_READY, by |-> nW.cmd1.by]
  /\ label' = "waitforpc"
  /\ UNCHANGED <<nW, performed>>
RobotMoveReady ==
  /\ label = "moveReady"
  /\ robotOut' = [val |-> CMD_READY, by |-> nW.cmd1.by]
  /\ label' = "waitforpc"
  /\ UNCHANGED <<nW, performed>>

\* *waitforpc: read the first command word until it asks to clear the signal.
\* Mutant: no waiting.
RobotDoNotWait ==
  /\ label = "waitforpc"
  /\ Goto("clearReady")
  /\ UNCHANGED nW
RobotWaitForPc ==
  /\ label = "waitforpc"
  /\ robotIn[ADDR_CMD_1].val = CMD_CLR_READY
  /\ Goto("clearReady")
  /\ UNCHANGED nW

\* M_out(nWcmd1Addr) = 0 clears one output bit, the lowest of the READY word.
RobotClearReady ==
  /\ label = "clearReady"
  /\ robotOut' = [robotOut EXCEPT !.val = @ - (@ % 2)]
  /\ label' = "main"
  /\ UNCHANGED <<nW, performed>>

=============================================================================
