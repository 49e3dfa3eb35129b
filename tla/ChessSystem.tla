---------------------------- MODULE ChessSystem ----------------------------
(***************************************************************************)
(* The whole system: the PC program, the PLC and the robot program, each   *)
(* taking its steps in any interleaving with the others', and the faults   *)
(* the code may meet.                                                      *)
(***************************************************************************)
EXTENDS RobotDriver, Plc, RobotProgram

CONSTANTS
  FaultKinds,  \* which faults may happen
  MaxFaults,   \* bound: how many of them in a behaviour
  Paced        \* the application waits with the next move until the READY
               \* signal of the last one is gone from the PLC

ASSUME FaultAssumption ==
  /\ FaultKinds \subseteq {"timeout", "exception", "loss", "restart"}
  /\ MaxFaults \in Nat
  /\ Paced \in BOOLEAN

VARIABLE faults  \* the kinds of the faults so far, in their order

vars == <<linkVars, driverVars, plcVars, robotVars, faults>>

Init == LinkInit /\ DriverInit /\ PlcInit /\ RobotInit /\ faults = <<>>

FaultsOK == faults \in Seq(FaultKinds) /\ Len(faults) <= MaxFaults

TypeOK ==
  LinkTypeOK /\ DriverTypeOK /\ PlcTypeOK /\ RobotTypeOK /\ FaultsOK

-----------------------------------------------------------------------------
\* The libmodbus calls of the driver function that runs.
Send    == ModbusSend /\ UNCHANGED <<plcVars, robotVars, faults>>
Receive == ModbusReceive /\ UNCHANGED <<plcVars, robotVars, faults>>
Fail    == ModbusNoConnection /\ UNCHANGED <<plcVars, robotVars, faults>>

\* What the application does at its prompt.
OrderMove == /\ StartSendMove
             /\ Paced => ready.val # CMD_READY
             /\ UNCHANGED <<plcVars, robotVars, faults>>
OrderExit  == StartExit /\ UNCHANGED <<plcVars, robotVars, faults>>
Disconnect == RobotDisconnect /\ UNCHANGED <<plcVars, robotVars, faults>>

\* The PLC's scan and the robot's program.
Serve     == PlcServe /\ UNCHANGED <<driverVars, robotVars, faults>>
NoRequest == PlcNoRequest /\ UNCHANGED <<driverVars, robotVars, faults>>
CopyWord  == PlcCopyWord /\ UNCHANGED <<driverVars, robotVars, faults>>

Robot(A) == A /\ UNCHANGED <<driverVars, plcVars, reqs, rsps, connected, robotIn, faults>>

RobotReads ==
  \/ Robot(RobotMain)
  \/ Robot(RobotReadCmd1)
  \/ Robot(RobotReadSecond)
  \/ Robot(RobotReadType)
  \/ Robot(RobotReadSource)
  \/ Robot(RobotReadDest)
RobotActs ==
  \/ Robot(RobotStartHitMove)
  \/ Robot(RobotStartNormalMove)
  \/ Robot(RobotOffBoard)
  \/ Robot(RobotMoveReady)
  \/ Robot(RobotWaitForPc)
  \/ Robot(RobotClearReady)

\* The faults: a response timeout, a Modbus exception, the connection broken,
\* the PC program killed or ended and started again.
Fault(kind) == /\ kind \in FaultKinds
               /\ Len(faults) < MaxFaults
               /\ faults' = Append(faults, kind)
Timeout == Fault("timeout") /\ ModbusTimeout /\ UNCHANGED <<plcVars, robotVars>>
Reject  == Fault("exception") /\ PlcReject /\ UNCHANGED <<driverVars, robotVars>>
Break   == Fault("loss") /\ ConnectionLost /\ UNCHANGED <<plcVars, robotVars>>
Reboot  == Fault("restart") /\ Restart /\ UNCHANGED <<plcVars, robotVars>>

Next ==
  \/ Send \/ Receive \/ Fail
  \/ OrderMove \/ OrderExit \/ Disconnect
  \/ Serve \/ NoRequest \/ CopyWord
  \/ RobotReads \/ RobotActs
  \/ Timeout \/ Reject \/ Break \/ Reboot

Spec == Init /\ [][Next]_vars

\* The PLC scans cyclically, the robot's program runs, and the PC program's
\* calls return; nothing makes the application order anything.
Fairness == /\ WF_vars(Send) /\ WF_vars(Receive) /\ WF_vars(Fail)
            /\ WF_vars(Serve) /\ WF_vars(NoRequest) /\ WF_vars(CopyWord)
            /\ WF_vars(RobotReads \/ RobotActs)

FairSpec == Spec /\ Fairness

-----------------------------------------------------------------------------
\* The execution that a call of robot_sendMove asks for.
JobOf(k, m) == [call |-> k, source |-> Reg16(m.source), dest |-> Reg16(m.dest), type |-> m.type]
Ordered(k)  == JobOf(k, issued[k].move)

\* No call of robot_sendMove makes the robot move twice, and the robot carries
\* the calls out in order: the two-word command, the READY handshake and the
\* robot's wait for CMD_CLR_READY together keep a command that is still in the
\* registers from being obeyed again.
AtMostOnce ==
  /\ \A i, j \in 1 .. Len(performed) : i < j => performed[i].call < performed[j].call
  /\ \A i \in 1 .. Len(performed) : performed[i].call \in 1 .. calls

\* Why it holds.  The words written to CMD_1 travel from the connection through
\* D540 to the robot in the order they were sent.  A word that follows another
\* was sent by the same call or a later one, and by a later one if it is
\* CMD_ALLOW_MOVE_1, which each call sends first and once.
Follows(w, v) == w.by <= v.by /\ (v.val = CMD_ALLOW_MOVE_1 => w.by < v.by)

Cmd1Writes == {i \in 1 .. Len(reqs) : reqs[i].addr = ADDR_CMD_1}
Cmd1Word(i) == reqs[i].words[1]

CommandOrder ==
  /\ \/ d[ADDR_CMD_1] = robotIn[ADDR_CMD_1]
     \/ Follows(robotIn[ADDR_CMD_1], d[ADDR_CMD_1])
  /\ \A i \in Cmd1Writes : /\ 1 \in DOMAIN reqs[i].words
                           /\ Follows(robotIn[ADDR_CMD_1], Cmd1Word(i))
                           /\ Follows(d[ADDR_CMD_1], Cmd1Word(i))
  /\ \A i, j \in Cmd1Writes : i < j => Follows(Cmd1Word(i), Cmd1Word(j))

\* The calls behind those words have been made, and the word of a call that has
\* sent nothing yet is still to come.
Unsent == fn = "robot_sendMove" /\ step = 1 /\ pending = NoTid
CallOrder ==
  LET latest == IF Unsent THEN calls - 1 ELSE calls IN
    /\ robotIn[ADDR_CMD_1].by <= latest
    /\ d[ADDR_CMD_1].by <= latest
    /\ \A i \in Cmd1Writes : Cmd1Word(i).by <= latest

\* The robot, back at *main, has seen CMD_CLR_READY since its last move, so a
\* CMD_ALLOW_MOVE_1 it finds there belongs to a later call.
LastCall == IF performed = <<>> THEN 0 ELSE performed[Len(performed)].call

RobotOrder ==
  /\ LastCall <= robotIn[ADDR_CMD_1].by
  /\ label \notin {"moveReady", "waitforpc"} =>
       (robotIn[ADDR_CMD_1].val = CMD_ALLOW_MOVE_1 => LastCall < robotIn[ADDR_CMD_1].by)
  /\ label \in {"readsecond", "type", "source", "dest", "startHitMove", "startNormalMove"} =>
       LastCall < nW.cmd1.by /\ nW.cmd1.by <= robotIn[ADDR_CMD_1].by

\* The inductive invariant behind AtMostOnce.
OnceInv == AtMostOnce /\ CommandOrder /\ CallOrder /\ RobotOrder

\* When robot_sendMove has returned true, the robot has carried out exactly
\* its move.
TrueMeansPerformed ==
  \A k \in 1 .. calls : issued[k].outcome = "true" =>
     \E i \in 1 .. Len(performed) : performed[i] = Ordered(k)

\* A timeout or a broken connection never makes robot_sendMove return true for
\* a move that was not made: only a write that the PLC refuses, of which the
\* driver does not look at the result, can do that.
Refused == \E i \in DOMAIN faults : faults[i] = "exception"
TrueUnlessRefused == Refused \/ TrueMeansPerformed

\* Every motion of the robot is a move that was ordered: its source, its
\* destination and its type were sent by one and the same call.
MovesAsOrdered ==
  \A i \in 1 .. Len(performed) : performed[i] = Ordered(performed[i].call)

\* The robot's program ends only because it has read CMD_EXIT: no mixture of
\* words it can see makes it run on into *exit.
ExitOnlyOnCommand ==
  [][label' = "exit" /\ label # "exit" => robotIn[ADDR_CMD_EXIT].val = CMD_EXIT]_vars

\* robot_sendMove returns: the poll for READY ends.
SendMoveReturns == fn = "robot_sendMove" ~> fn = "idle"

\* The READY signal is taken back after every move, so that the robot gets
\* back to *main and can be given the next command.
ReadyTakenBack == robotOut.val = CMD_READY ~> label = "main"

\* When the application sends the exit command, the robot's program ends.
ExitHonoured == fn = "exit" ~> label = "exit"

-----------------------------------------------------------------------------
\* The abstract service: what has been ordered, done and reported, and whether
\* the exit command is out.
OrderedMoves == [k \in 1 .. calls |-> Ordered(k)]
TrueCalls    == {k \in 1 .. calls : issued[k].outcome = "true"}
Exiting      == fn \in {"exit", "disconnect"} \/ d[ADDR_CMD_EXIT].val = CMD_EXIT

Service == INSTANCE MoveService WITH
  Jobs     <- {JobOf(k, m) : k \in 1 .. MaxMoves, m \in Moves},
  ordered  <- OrderedMoves,
  done     <- performed,
  reported <- Cardinality(TrueCalls),
  exiting  <- Exiting,
  on       <- label # "exit",
  lost     <- faults # <<>>

\* With an application that waits for the READY signal to go before its next
\* move, and no fault but the loss of the connection, the whole system is the
\* service modbus_driver.h describes: every step of it is one of the service's or
\* none, and while the connection lasts what the service owes is done.
ImplementsService == Service!ServiceInit /\ [][Service!ServiceNext]_(Service!serviceVars)
ServiceProgresses == Service!ServiceFairness
=============================================================================
