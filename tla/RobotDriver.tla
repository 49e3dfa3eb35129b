---------------------------- MODULE RobotDriver ----------------------------
(***************************************************************************)
(* The PC program: modbus_driver.c and the main loop of main.c.            *)
(*                                                                         *)
(* A driver function is a script of libmodbus calls made one after the     *)
(* other; each call is two steps, the request sent and its answer (or the  *)
(* end of the response timeout) received.  "fn" is the function that runs  *)
(* ("idle": the application is at its prompt), "step" the call it has      *)
(* reached.                                                                *)
(***************************************************************************)
EXTENDS RegisterMap

CONSTANT MaxMoves    \* bound: robot_sendMove calls in a behaviour

ASSUME MaxMovesAssumption == MaxMoves \in Nat

VARIABLES
  fn,       \* the driver function that runs
  step,     \* the libmodbus call of its script
  tId,      \* libmodbus' static transaction counter
  pending,  \* the transaction whose answer is awaited, or NoTid
  issued    \* history: the moves given to robot_sendMove, with their outcome

driverVars == <<fn, step, tId, pending, issued>>

NoTid    == -1
Running  == {"robot_connect", "modbusClearCommand", "robot_sendMove", "exit"}
Outcomes == {"pending", "true", "false", "killed"}

DriverInit ==
  /\ fn = "robot_connect"
  /\ step = 1
  /\ tId = 0
  /\ pending = NoTid
  /\ issued = <<>>

DriverTypeOK ==
  /\ fn \in Running \union {"idle", "disconnect", "closed"}
  /\ step \in 1 .. 7
  /\ tId \in Tid
  /\ pending \in Tid \union {NoTid}
  /\ issued \in Seq([move : Moves, outcome : Outcomes])

-----------------------------------------------------------------------------
\* The libmodbus calls.
WriteRegister(a, v)   == [op |-> "write_register", addr |-> a, vals |-> <<v>>]
WriteRegisters(a, vs) == [op |-> "write_registers", addr |-> a, vals |-> vs]
ReadReady             == [op |-> "read_registers", addr |-> ADDR_READY, vals |-> <<>>]

\* robot_sendCmd: the register a command goes to.
\* Mutant: the exit command goes where the move commands go.
SendCmdExitToCmd1(cmd) ==
  WriteRegister(IF cmd = CMD_ALLOW_MOVE_2 THEN ADDR_CMD_2 ELSE ADDR_CMD_1, cmd)
SendCmd(cmd) ==
  WriteRegister(CASE cmd \in {CMD_CLR_READY, CMD_ALLOW_MOVE_1} -> ADDR_CMD_1
                  [] cmd = CMD_ALLOW_MOVE_2 -> ADDR_CMD_2
                  [] cmd = CMD_EXIT -> ADDR_CMD_EXIT, cmd)

ConnectScript ==
  << WriteRegister(ADDR_CMD_1, 0), WriteRegister(ADDR_CMD_2, 0),
     WriteRegister(ADDR_MOVESOURCE, 0), WriteRegister(ADDR_MOVEDEST, 0),
     WriteRegister(ADDR_MOVETYPE, 0), WriteRegister(ADDR_CMD_EXIT, 0) >>

ClearScript ==
  << WriteRegister(ADDR_CMD_1, 0), WriteRegister(ADDR_CMD_2, 0), SendCmd(CMD_CLR_READY) >>

\* Mutants: the parameters after the second command; no CMD_CLR_READY at the
\* end; the first command repeated when the second has been sent.
SendMoveParamsLast(m) ==
  << SendCmd(CMD_ALLOW_MOVE_1), SendCmd(CMD_ALLOW_MOVE_2),
     WriteRegisters(ADDR_MOVESOURCE, <<Reg16(m.source), Reg16(m.dest), Reg16(m.type)>>),
     ReadReady,
     WriteRegister(ADDR_CMD_1, 0), WriteRegister(ADDR_CMD_2, 0), SendCmd(CMD_CLR_READY) >>
SendMoveNoClear(m) ==
  << SendCmd(CMD_ALLOW_MOVE_1),
     WriteRegisters(ADDR_MOVESOURCE, <<Reg16(m.source), Reg16(m.dest), Reg16(m.type)>>),
     SendCmd(CMD_ALLOW_MOVE_2), ReadReady,
     WriteRegister(ADDR_CMD_1, 0), WriteRegister(ADDR_CMD_2, 0) >>
SendMoveRepeated(m) ==
  << SendCmd(CMD_ALLOW_MOVE_1),
     WriteRegisters(ADDR_MOVESOURCE, <<Reg16(m.source), Reg16(m.dest), Reg16(m.type)>>),
     SendCmd(CMD_ALLOW_MOVE_2), ReadReady,
     WriteRegister(ADDR_CMD_1, 0), SendCmd(CMD_CLR_READY), SendCmd(CMD_ALLOW_MOVE_1) >>
SendMoveScript(m) ==
  << SendCmd(CMD_ALLOW_MOVE_1),
     WriteRegisters(ADDR_MOVESOURCE, <<Reg16(m.source), Reg16(m.dest), Reg16(m.type)>>),
     SendCmd(CMD_ALLOW_MOVE_2), ReadReady,
     WriteRegister(ADDR_CMD_1, 0), WriteRegister(ADDR_CMD_2, 0), SendCmd(CMD_CLR_READY) >>

ParamsStep == 2
PollStep   == 4

calls == Len(issued)

Script == CASE fn = "robot_connect"      -> ConnectScript
            [] fn = "modbusClearCommand" -> ClearScript
            [] fn = "robot_sendMove"     -> SendMoveScript(issued[calls].move)
            [] fn = "exit"               -> << SendCmd(CMD_EXIT) >>

-----------------------------------------------------------------------------
\* The static counter of _modbus_tcp_build_request_basis wraps at its end.
\* Mutant: it does not.
NextTidUnbounded(t) == t + 1
NextTid(t) == (t + 1) % TidCount

\* modbus_write_register, modbus_write_registers and modbus_read_registers
\* send their request under the next transaction identifier.
ModbusSend ==
  /\ fn \in Running
  /\ connected
  /\ pending = NoTid
  /\ LET c == Script[step] IN
       /\ tId' = NextTid(tId)
       /\ reqs' = Append(reqs, [tid |-> tId', op |-> c.op, addr |-> c.addr,
                                words |-> [i \in DOMAIN c.vals |->
                                             [val |-> c.vals[i], by |-> calls]]])
  /\ pending' = tId'
  /\ UNCHANGED <<fn, step, issued, rsps, connected, robotIn, robotOut>>

\* What follows the running function when its last call is done.
AfterLast == CASE fn = "robot_connect"      -> "modbusClearCommand"
               [] fn = "modbusClearCommand" -> "idle"
               [] fn = "robot_sendMove"     -> "idle"
               [] fn = "exit"               -> "disconnect"

Finish(outcome) ==
  issued' = IF fn = "robot_sendMove" THEN [issued EXCEPT ![calls].outcome = outcome] ELSE issued

\* Of all the results only two are looked at: a parameter write or a poll that
\* returned -1 ends robot_sendMove, and a poll that has not read CMD_READY is
\* made again.
\* Mutants: the parameter write is not looked at either; the poll is not repeated;
\* it is repeated whatever it returned.
FailsOnPollOnly(ok) == fn = "robot_sendMove" /\ step = PollStep /\ ~ok
Fails(ok) == fn = "robot_sendMove" /\ step \in {ParamsStep, PollStep} /\ ~ok
PollsOnce(ok, val) == FALSE
PollsOnError(ok, val) == fn = "robot_sendMove" /\ step = PollStep /\ (ok => val # CMD_READY)
PollsAgain(ok, val) == fn = "robot_sendMove" /\ step = PollStep /\ ok /\ val # CMD_READY

\* A call has returned; ok: not -1; val: the register it has read.
Continue(ok, val) ==
  /\ pending' = NoTid
  /\ \/ /\ Fails(ok)
        /\ fn' = "idle" /\ step' = 1
        /\ Finish("false")
     \/ /\ PollsAgain(ok, val)
        /\ UNCHANGED <<fn, step, issued>>
     \/ /\ ~Fails(ok) /\ ~PollsAgain(ok, val)
        /\ step < Len(Script)
        /\ step' = step + 1
        /\ UNCHANGED <<fn, issued>>
     \/ /\ ~Fails(ok) /\ ~PollsAgain(ok, val)
        /\ step = Len(Script)
        /\ fn' = AfterLast /\ step' = 1
        /\ Finish("true")

\* An answer is taken for the pending call only under its own transaction and
\* its own function code.
\* Mutant: answers are taken as they come.
ConfirmsAnyAnswer(r) == r.ok
Confirms(r) == r.ok /\ r.tid = pending /\ r.op = Script[step].op

ModbusReceive ==
  /\ pending # NoTid
  /\ rsps # <<>>
  /\ Continue(Confirms(Head(rsps)), Head(rsps).word.val)
  /\ rsps' = Tail(rsps)
  /\ UNCHANGED <<tId, reqs, connected, robotIn, robotOut>>

\* The response timeout ends the call with -1; the answer may still come.
ModbusTimeout ==
  /\ pending # NoTid
  /\ rsps = <<>>
  /\ Continue(FALSE, 0)
  /\ UNCHANGED <<tId, linkVars>>

\* Once the connection is gone every call returns -1: one that is made then
\* fails to send, one that waits fails to receive when it has read what had
\* arrived; nothing connects again.
ModbusNoConnection ==
  /\ fn \in Running
  /\ ~connected
  /\ pending = NoTid \/ rsps = <<>>
  /\ tId' = IF pending = NoTid THEN NextTid(tId) ELSE tId
  /\ Continue(FALSE, 0)
  /\ UNCHANGED linkVars

\* The other end, or the network, breaks the connection: the last requests and
\* the last answers under way are lost.
ConnectionLost ==
  /\ connected
  /\ connected' = FALSE
  /\ \E n \in 0 .. Len(reqs) : reqs' = SubSeq(reqs, 1, n)
  /\ \E n \in 0 .. Len(rsps) : rsps' = SubSeq(rsps, 1, n)
  /\ UNCHANGED <<driverVars, robotIn, robotOut>>

-----------------------------------------------------------------------------
\* The application orders a move, or asks the robot to exit, or disconnects
\* (after an exit, or at once: the move loop of main is commented out).
StartSendMove ==
  /\ fn = "idle"
  /\ calls < MaxMoves
  /\ \E m \in Moves : issued' = Append(issued, [move |-> m, outcome |-> "pending"])
  /\ fn' = "robot_sendMove"
  /\ UNCHANGED <<step, tId, pending, linkVars>>

StartExit ==
  /\ fn = "idle"
  /\ fn' = "exit"
  /\ UNCHANGED <<step, tId, pending, issued, linkVars>>

\* The requests still under way may reach the PLC or not; no answer is read.
RobotDisconnect ==
  /\ fn \in {"idle", "disconnect"}
  /\ fn' = "closed"
  /\ reqs' \in {reqs, <<>>}
  /\ rsps' = <<>>
  /\ connected' = FALSE
  /\ UNCHANGED <<step, tId, pending, issued, robotIn, robotOut>>

\* The process is killed, or ends and is started again: a new connection, and
\* robot_connect from its first write.
Restart ==
  /\ fn' = "robot_connect" /\ step' = 1
  /\ tId' = 0 /\ pending' = NoTid
  /\ issued' = IF fn = "robot_sendMove" THEN [issued EXCEPT ![calls].outcome = "killed"] ELSE issued
  /\ reqs' = <<>> /\ rsps' = <<>> /\ connected' = TRUE
  /\ UNCHANGED <<robotIn, robotOut>>
=============================================================================
