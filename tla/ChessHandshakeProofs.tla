------------------------ MODULE ChessHandshakeProofs ------------------------
(***************************************************************************)
(* Proofs about ChessSystem, by the invariants of ChessHandshake: what the *)
(* robot carries out is what was ordered, robot_sendMove returns true for  *)
(* nothing else, and the robot's program ends only on CMD_EXIT.            *)
(***************************************************************************)
EXTENDS ChessHandshake, ChessSystemProofs, FiniteSetTheorems

-----------------------------------------------------------------------------
(* The driver's calls and what they store.                                   *)

LEMMA Addresses ==
  /\ CommandAddrs = {ADDR_CMD_1, ADDR_CMD_2, ADDR_MOVESOURCE, ADDR_MOVEDEST, ADDR_MOVETYPE,
                     ADDR_CMD_EXIT}
  /\ ADDR_CMD_1 = 540 /\ ADDR_CMD_2 = 541 /\ ADDR_MOVESOURCE = 542 /\ ADDR_MOVEDEST = 543
  /\ ADDR_MOVETYPE = 544 /\ ADDR_CMD_EXIT = 545 /\ ADDR_READY = 1040
  BY DEF CommandAddrs, ADDR_CMD_1, ADDR_CMD_2, ADDR_MOVESOURCE, ADDR_MOVEDEST, ADDR_MOVETYPE,
         ADDR_CMD_EXIT, ADDR_READY

LEMMA Commands ==
  /\ CMD_ALLOW_MOVE_1 \notin {0, CMD_CLR_READY}
  /\ CMD_ALLOW_MOVE_2 \notin {0, CMD_CLR_READY}
  /\ CMD_READY \notin {0, CMD_CLR_READY}
  /\ NORMAL_MOVE # HIT_MOVE /\ Reg16(NORMAL_MOVE) = NORMAL_MOVE /\ Reg16(HIT_MOVE) = HIT_MOVE
  BY DEF CMD_ALLOW_MOVE_1, CMD_ALLOW_MOVE_2, CMD_CLR_READY, CMD_READY, NORMAL_MOVE, HIT_MOVE, Reg16

\* The move of a call of robot_sendMove.
LEMMA MoveOf ==
  ASSUME TypeInv, NEW k \in 1 .. calls
  PROVE  issued[k].move \in Moves /\ issued[k].move.type \in MoveTypes
         /\ Reg16(issued[k].move.type) = issued[k].move.type
<1>1. issued \in Seq(Issue) /\ k \in 1 .. Len(issued)
  BY DEF TypeInv, TypeOK, DriverTypeOK, Issue, calls
<1>2. issued[k] \in Issue
  BY <1>1, ElementOfSeq
<1>3. issued[k].move \in Moves
  BY <1>2 DEF Issue
<1>4. issued[k].move.type \in MoveTypes
  BY <1>3, MovesAssumption DEF MOVE, MoveTypes
<1> QED BY <1>3, <1>4, Commands DEF MoveTypes

\* The call that the script of the running function has at the step reached.
LEMMA ScriptAt ==
  ASSUME TypeInv, fn \in Running
  PROVE  LET c == Script[step]
             m == issued[calls].move IN
         /\ fn = "robot_connect" => \E a \in CommandAddrs : c = WriteRegister(a, 0)
         /\ fn = "modbusClearCommand" => \/ c = WriteRegister(ADDR_CMD_1, 0)
                                         \/ c = WriteRegister(ADDR_CMD_2, 0)
                                         \/ c = WriteRegister(ADDR_CMD_1, CMD_CLR_READY)
         /\ fn = "exit" => c = WriteRegister(ADDR_CMD_EXIT, CMD_EXIT)
         /\ fn = "robot_sendMove" =>
              /\ step = 1 => c = WriteRegister(ADDR_CMD_1, CMD_ALLOW_MOVE_1)
              /\ step = 2 => c = WriteRegisters(ADDR_MOVESOURCE,
                                   <<Reg16(m.source), Reg16(m.dest), Reg16(m.type)>>)
              /\ step = 3 => c = WriteRegister(ADDR_CMD_2, CMD_ALLOW_MOVE_2)
              /\ step = 4 => c = ReadReady
              /\ step = 5 => c = WriteRegister(ADDR_CMD_1, 0)
              /\ step = 6 => c = WriteRegister(ADDR_CMD_2, 0)
              /\ step = 7 => c = WriteRegister(ADDR_CMD_1, CMD_CLR_READY)
<1>1. CASE fn = "robot_connect"
  <2>1. Script = ConnectScript /\ step \in 1 .. 6
    BY <1>1 DEF Script, TypeInv, StepOK
  <2>2. \E a \in CommandAddrs : Script[step] = WriteRegister(a, 0)
    BY <2>1, Addresses DEF ConnectScript
  <2> QED BY <1>1, <2>2
<1>2. CASE fn = "modbusClearCommand"
  <2>1. Script = ClearScript /\ step \in 1 .. 3
    BY <1>2 DEF Script, TypeInv, StepOK
  <2> QED BY <1>2, <2>1, SendCmdRegister, Addresses DEF ClearScript
<1>3. CASE fn = "robot_sendMove"
  <2>1. Script = SendMoveScript(issued[calls].move)
    BY <1>3 DEF Script
  <2> QED BY <1>3, <2>1, SendCmdRegister, Addresses DEF SendMoveScript
<1>4. CASE fn = "exit"
  <2>1. Script = << SendCmd(CMD_EXIT) >> /\ step = 1
    BY <1>4 DEF Script, TypeInv, StepOK
  <2> QED BY <1>4, <2>1, SendCmdRegister, Addresses
<1> QED BY <1>1, <1>2, <1>3, <1>4 DEF Running

\* What a request of each form does to the registers.
LEMMA StoreWords ==
  ASSUME NEW r \in Request, Shape(r), NEW a \in CommandAddrs
  PROVE  /\ r.op = "write_register" => Store(r)[a] = IF a = r.addr THEN r.words[1] ELSE d[a]
         /\ r.op = "write_registers" =>
              Store(r)[a] = CASE a = ADDR_MOVESOURCE -> r.words[1]
                              [] a = ADDR_MOVEDEST -> r.words[2]
                              [] a = ADDR_MOVETYPE -> r.words[3]
                              [] OTHER -> d[a]
         /\ r.op = "read_registers" => Store(r)[a] = d[a]
<1>1. r.words \in Seq(Word) /\ a \in Int /\ a \in 540 .. 545
  BY Constants DEF Request
<1>2. Store(r)[a] = IF a - r.addr + 1 \in DOMAIN r.words THEN r.words[a - r.addr + 1] ELSE d[a]
  BY DEF Store
<1>3. CASE r.op = "write_register"
  <2>1. r.addr \in 540 .. 545 /\ DOMAIN r.words = {1}
    BY <1>1, <1>3, Constants DEF Shape
  <2>2. a - r.addr + 1 \in DOMAIN r.words <=> a = r.addr
    BY <1>1, <2>1
  <2>3. a = r.addr => a - r.addr + 1 = 1
    BY <1>1, <2>1
  <2> QED BY <1>2, <1>3, <2>2, <2>3
<1>4. CASE r.op = "write_registers"
  <2>1. r.addr = 542 /\ DOMAIN r.words = 1 .. 3
    BY <1>1, <1>4, Addresses DEF Shape
  <2>2. /\ a = 542 => a - r.addr + 1 = 1
        /\ a = 543 => a - r.addr + 1 = 2
        /\ a = 544 => a - r.addr + 1 = 3
        /\ a \notin {542, 543, 544} => a - r.addr + 1 \notin 1 .. 3
    BY <1>1, <2>1
  <2> QED BY <1>2, <1>4, <2>1, <2>2, Addresses
<1>5. CASE r.op = "read_registers"
  <2>1. DOMAIN r.words = {}
    BY <1>5 DEF Shape
  <2> QED BY <1>2, <1>5, <2>1
<1> QED BY <1>3, <1>4, <1>5

\* The number of words, from the domain of the sequence.
LEMMA WordCount ==
  ASSUME NEW ws \in Seq(Word), NEW n \in Nat, DOMAIN ws = 1 .. n
  PROVE  Len(ws) = n
<1>1. DOMAIN ws = 1 .. Len(ws) /\ Len(ws) \in Nat
  BY LenProperties
<1>2. n <= Len(ws) /\ Len(ws) <= n
  <2>1. n = 0 \/ n \in 1 .. Len(ws)
    BY <1>1
  <2>2. Len(ws) = 0 \/ Len(ws) \in 1 .. n
    BY <1>1
  <2> QED BY <1>1, <2>1, <2>2
<1> QED BY <1>1, <1>2

\* The request a call puts on the connection, by the function that runs.
LEMMA SendShape ==
  ASSUME TypeInv, ModbusSend
  PROVE  \E r \in Request :
           /\ reqs' = Append(reqs, r) /\ r.tid = tId' /\ r.op = Script[step].op
           /\ Shape(r)
           /\ fn # "robot_connect" => r.addr # ADDR_MOVETYPE
           /\ fn \notin {"robot_connect", "robot_sendMove"} => r.addr \notin ParamAddrs
           /\ fn # "robot_sendMove" =>
                /\ r.op = "write_register"
                /\ r.words[1].val \notin {CMD_ALLOW_MOVE_1, CMD_ALLOW_MOVE_2}
                /\ r.words[1].by = calls
           /\ fn = "robot_sendMove" =>
                /\ step # 2 => r.op # "write_registers"
                /\ step = 1 => /\ r.addr = ADDR_CMD_1
                               /\ r.words[1].by = calls /\ r.words[1].val = CMD_ALLOW_MOVE_1
                /\ step = 2 => /\ r.op = "write_registers"
                               /\ r.words[1].val = Ordered(calls).source
                               /\ r.words[2].val = Ordered(calls).dest
                               /\ r.words[3].val = Ordered(calls).type
                /\ step = 3 => r.op = "write_register" /\ r.addr = ADDR_CMD_2
                /\ step = 4 => r.op = "read_registers" /\ r.addr = ADDR_READY
                /\ step \in {5, 7} => Clears1(r, calls)
                /\ step = 5 => r.words[1].val # CMD_CLR_READY
                /\ step = 6 => Clears2(r)
           /\ r.addr = ADDR_CMD_2 /\ r.words[1].val = CMD_ALLOW_MOVE_2 =>
                fn = "robot_sendMove" /\ step = 3
<1>1. PICK r \in Request :
        /\ reqs' = Append(reqs, r)
        /\ r.tid = tId' /\ r.op = Script[step].op /\ r.addr = Script[step].addr
        /\ DOMAIN r.words = DOMAIN Script[step].vals
        /\ \A i \in DOMAIN r.words : /\ r.words[i].by = calls
                                     /\ r.words[i].val = Script[step].vals[i]
  BY SendType
<1>2. fn \in Running /\ calls \in Nat /\ r.words \in Seq(Word)
  BY OrderTypes DEF ModbusSend, Request
<1> DEFINE c == Script[step]
<1>3. ASSUME NEW a \in CommandAddrs, NEW v, c = WriteRegister(a, v)
      PROVE  /\ r.op = "write_register" /\ r.addr = a /\ Len(r.words) = 1
             /\ r.words[1].by = calls /\ r.words[1].val = v
  <2>1. c.op = "write_register" /\ c.addr = a /\ c.vals = <<v>>
    BY <1>3 DEF WriteRegister
  <2>2. DOMAIN r.words = 1 .. 1 /\ <<v>>[1] = v
    BY <1>1, <2>1
  <2>3. Len(r.words) = 1
    <3>1. 1 \in Nat
      OBVIOUS
    <3> HIDE DEF c
    <3> QED BY <1>2, <2>2, <3>1, WordCount
  <2> QED BY <1>1, <2>1, <2>2, <2>3
<1>4. CASE fn # "robot_sendMove"
  <2>1. PICK a \in CommandAddrs, v \in {0, CMD_CLR_READY, CMD_EXIT} :
            /\ c = WriteRegister(a, v)
            /\ a \in ParamAddrs => fn = "robot_connect"
    <3>1. fn = "robot_connect" \/ fn = "modbusClearCommand" \/ fn = "exit"
      BY <1>2, <1>4 DEF Running
    <3> QED BY <1>2, <3>1, ScriptAt, Addresses DEF ParamAddrs
  <2>2. /\ r.op = "write_register" /\ r.addr = a /\ Len(r.words) = 1
        /\ r.words[1].by = calls /\ r.words[1].val = v
    BY <1>3, <2>1
  <2>3. v \notin {CMD_ALLOW_MOVE_1, CMD_ALLOW_MOVE_2}
    BY <2>1, Commands DEF CMD_ALLOW_MOVE_1, CMD_ALLOW_MOVE_2, CMD_EXIT
  <2>4. Shape(r)
    BY <2>2 DEF Shape
  <2> QED BY <1>1, <1>4, <2>1, <2>2, <2>3, <2>4 DEF ParamAddrs
<1>5. CASE fn = "robot_sendMove"
  <2> DEFINE m == issued[calls].move
  <2>1. step \in 1 .. 7 /\ calls \in 1 .. calls
    BY <1>2, <1>5 DEF TypeInv, StepOK
  <2>2. CASE step = 2
    <3>1. c = WriteRegisters(ADDR_MOVESOURCE, <<Reg16(m.source), Reg16(m.dest), Reg16(m.type)>>)
      BY <1>2, <1>5, <2>2, ScriptAt
    <3>2. /\ c.op = "write_registers" /\ c.addr = ADDR_MOVESOURCE
          /\ c.vals = <<Reg16(m.source), Reg16(m.dest), Reg16(m.type)>>
      BY <3>1 DEF WriteRegisters
    <3>3. DOMAIN r.words = 1 .. 3 /\ Len(r.words) = 3
      BY <1>1, <1>2, <3>2
    <3>4. /\ r.words[1].val = Reg16(m.source) /\ r.words[2].val = Reg16(m.dest)
          /\ r.words[3].val = Reg16(m.type)
      BY <1>1, <3>2, <3>3
    <3>5. Reg16(m.type) = m.type /\ m.type \in MoveTypes
      BY <2>1, MoveOf
    <3>6. /\ r.words[1].val = Ordered(calls).source /\ r.words[2].val = Ordered(calls).dest
          /\ r.words[3].val = Ordered(calls).type
      BY <3>4, <3>5 DEF Ordered, JobOf
    <3>7. Shape(r)
      BY <1>1, <3>2, <3>3, <3>4, <3>5 DEF Shape
    <3> QED BY <1>1, <1>5, <2>2, <3>2, <3>6, <3>7, Addresses
  <2>3. CASE step = 4
    <3>1. c.op = "read_registers" /\ c.addr = ADDR_READY /\ c.vals = <<>>
      BY <1>2, <1>5, <2>3, ScriptAt DEF ReadReady
    <3>2. r.words = <<>>
      <4>1. DOMAIN c.vals = 1 .. 0
        BY <3>1
      <4>2. Len(r.words) = 0
        BY <1>1, <1>2, <4>1, WordCount
      <4> QED BY <1>2, <4>2, EmptySeq
    <3>3. Shape(r)
      BY <1>1, <3>1, <3>2 DEF Shape
    <3> QED BY <1>1, <1>5, <2>3, <3>1, <3>3, Addresses
  <2>4. CASE step \in {1, 3, 5, 6, 7}
    <3>1. PICK a, v :
            /\ a \in CommandAddrs
            /\ c = WriteRegister(a, v)
            /\ step = 1 => a = ADDR_CMD_1 /\ v = CMD_ALLOW_MOVE_1
            /\ step = 3 => a = ADDR_CMD_2
            /\ step \in {5, 7} => a = ADDR_CMD_1 /\ v \in {0, CMD_CLR_READY}
            /\ step = 5 => v = 0
            /\ step = 6 => a = ADDR_CMD_2 /\ v = 0
            /\ a \in {ADDR_CMD_1, ADDR_CMD_2}
      BY <1>2, <1>5, <2>4, ScriptAt, Addresses
    <3>2. /\ r.op = "write_register" /\ r.addr = a /\ Len(r.words) = 1
          /\ r.words[1].by = calls /\ r.words[1].val = v
      BY <1>3, <3>1
    <3>3. Shape(r)
      BY <3>1, <3>2 DEF Shape
    <3>4. /\ step \in {5, 7} => Clears1(r, calls)
          /\ step = 5 => r.words[1].val # CMD_CLR_READY
          /\ step = 6 => Clears2(r)
      BY <1>2, <3>1, <3>2, Commands DEF Clears1, Clears2, CMD_CLR_READY
    <3>5. r.addr = ADDR_CMD_2 /\ r.words[1].val = CMD_ALLOW_MOVE_2 => step = 3
      BY <2>4, <3>1, <3>2, Addresses, Commands
    <3> QED BY <1>1, <1>5, <2>4, <3>1, <3>2, <3>3, <3>4, <3>5, Addresses
  <2> QED BY <2>1, <2>2, <2>3, <2>4
<1> QED BY <1>4, <1>5

-----------------------------------------------------------------------------
(* Frames: which actions touch what.                                         *)

\* Only a scan of the PLC changes its registers and the robot's inputs.
LEMMA PlcStep ==
  ASSUME [Next]_vars
  PROVE  \/ UNCHANGED <<d, ready, scan, robotIn>>
         \/ Serve \/ Reject \/ NoRequest \/ CopyWord
<1>1. ASSUME Send \/ Receive \/ Fail \/ Timeout \/ OrderMove \/ OrderExit \/ Disconnect
             \/ Break \/ Reboot
      PROVE  UNCHANGED <<d, ready, scan, robotIn>>
  BY <1>1 DEF Send, Receive, Fail, Timeout, OrderMove, OrderExit, Disconnect, Break, Reboot,
              ModbusSend, ModbusReceive, ModbusNoConnection, ModbusTimeout, StartSendMove,
              StartExit, RobotDisconnect, ConnectionLost, Restart, plcVars, linkVars
<1>2. ASSUME RobotReads \/ RobotActs PROVE UNCHANGED <<d, ready, scan, robotIn>>
  BY <1>2 DEF RobotReads, RobotActs, Robot, plcVars
<1>3. ASSUME UNCHANGED vars PROVE UNCHANGED <<d, ready, scan, robotIn>>
  BY <1>3 DEF vars, plcVars, linkVars
<1> QED BY <1>1, <1>2, <1>3 DEF Next

\* Only the robot changes its variables and its output word.
LEMMA RobotStep ==
  ASSUME [Next]_vars
  PROVE  \/ UNCHANGED <<label, nW, performed, robotOut>>
         \/ RobotReads \/ RobotActs
<1>1. ASSUME Send \/ Receive \/ Fail \/ Timeout \/ OrderMove \/ OrderExit \/ Disconnect
             \/ Break \/ Reboot
      PROVE  UNCHANGED <<label, nW, performed, robotOut>>
  BY <1>1 DEF Send, Receive, Fail, Timeout, OrderMove, OrderExit, Disconnect, Break, Reboot,
              ModbusSend, ModbusReceive, ModbusNoConnection, ModbusTimeout, StartSendMove,
              StartExit, RobotDisconnect, ConnectionLost, Restart, robotVars, linkVars
<1>2. ASSUME Serve \/ Reject \/ NoRequest \/ CopyWord
      PROVE  UNCHANGED <<label, nW, performed, robotOut>>
  BY <1>2 DEF Serve, Reject, NoRequest, CopyWord, PlcServe, PlcReject, PlcNoRequest,
              PlcCopyWord, robotVars, linkVars
<1>3. ASSUME UNCHANGED vars PROVE UNCHANGED <<label, nW, performed, robotOut>>
  BY <1>3 DEF vars, robotVars, linkVars
<1> QED BY <1>1, <1>2, <1>3 DEF Next

\* Only a driver step changes the driver's variables.
LEMMA DriverStep ==
  ASSUME [Next]_vars
  PROVE  \/ UNCHANGED <<fn, step, tId, pending, issued>>
         \/ Send \/ Receive \/ Fail \/ Timeout \/ OrderMove \/ OrderExit \/ Disconnect \/ Reboot
<1>1. ASSUME Serve \/ Reject \/ NoRequest \/ CopyWord \/ RobotReads \/ RobotActs \/ Break
      PROVE  UNCHANGED <<fn, step, tId, pending, issued>>
  BY <1>1 DEF Serve, Reject, NoRequest, CopyWord, RobotReads, RobotActs, Robot, Break,
              ConnectionLost, driverVars
<1>2. ASSUME UNCHANGED vars PROVE UNCHANGED <<fn, step, tId, pending, issued>>
  BY <1>2 DEF vars, driverVars
<1> QED BY <1>1, <1>2 DEF Next

\* The requests still on the connection after a step are the last of those
\* before, in their order, unless one has been sent.
Shifted(n) == \A i \in 1 .. Len(reqs') : i + n \in 1 .. Len(reqs) /\ reqs'[i] = reqs[i + n]

LEMMA ReqsStep ==
  ASSUME TypeInv, [Next]_vars
  PROVE  Send \/ \E n \in 0 .. 1 : Shifted(n)
<1>0. reqs \in Seq(Request)
  BY DEF TypeInv, TypeOK, LinkTypeOK
<1>1. ASSUME reqs' = reqs PROVE Shifted(0)
  BY <1>0, <1>1 DEF Shifted
<1>2. ASSUME reqs' = <<>> PROVE Shifted(0)
  BY <1>2 DEF Shifted
<1>3. CASE Serve \/ Reject
  <2>1. reqs # <<>> /\ reqs' = Tail(reqs)
    BY <1>3 DEF Serve, Reject, PlcServe, PlcReject
  <2>2. Shifted(1)
    BY <1>0, <2>1 DEF Shifted
  <2> QED BY <2>2
<1>4. CASE Break
  <2>1. PICK n \in 0 .. Len(reqs) : reqs' = SubSeq(reqs, 1, n)
    BY <1>4 DEF Break, ConnectionLost
  <2>2. Shifted(0)
    BY <1>0, <2>1, Prefix DEF Shifted
  <2> QED BY <2>2
<1>5. CASE Receive \/ Fail \/ Timeout \/ OrderMove \/ OrderExit \/ NoRequest \/ CopyWord
  <2>1. reqs' = reqs
    BY <1>5 DEF Receive, Fail, Timeout, OrderMove, OrderExit, NoRequest, CopyWord, ModbusReceive,
                ModbusNoConnection, ModbusTimeout, StartSendMove, StartExit, PlcNoRequest,
                PlcCopyWord, linkVars
  <2> QED BY <1>1, <2>1
<1>6. CASE RobotReads \/ RobotActs \/ UNCHANGED vars
  <2>1. reqs' = reqs
    BY <1>6 DEF RobotReads, RobotActs, Robot, vars, linkVars
  <2> QED BY <1>1, <2>1
<1>7. CASE Disconnect \/ Reboot
  <2>1. reqs' = reqs \/ reqs' = <<>>
    BY <1>7 DEF Disconnect, Reboot, RobotDisconnect, Restart
  <2> QED BY <1>1, <1>2, <2>1
<1> QED BY <1>3, <1>4, <1>5, <1>6, <1>7 DEF Next

\* Every answer after a step was there before, unless a request has been
\* answered: then the last one is its answer.
Answered(r, ok) ==
  rsps' = rsps \/ \E w \in Word : rsps' = Append(rsps, [tid |-> r.tid, op |-> r.op, ok |-> ok, word |-> w])

LEMMA RspsStep ==
  ASSUME TypeInv, [Next]_vars
  PROVE  \/ Serve /\ Answered(Head(reqs), TRUE)
         \/ Reject /\ Answered(Head(reqs), FALSE)
         \/ \A i \in 1 .. Len(rsps') : \E j \in 1 .. Len(rsps) : rsps'[i] = rsps[j]
<1>0. rsps \in Seq(Response) /\ ready \in Word
  BY DEF TypeInv, TypeOK, LinkTypeOK, PlcTypeOK
<1> DEFINE Kept == \A i \in 1 .. Len(rsps') : \E j \in 1 .. Len(rsps) : rsps'[i] = rsps[j]
<1>1. ASSUME rsps' = rsps \/ rsps' = <<>> PROVE Kept
  BY <1>0, <1>1
<1>2. CASE Serve
  BY <1>0, <1>2, ZeroWord DEF Serve, PlcServe, Answer, Answered
<1>3. CASE Reject
  BY <1>0, <1>3, ZeroWord DEF Reject, PlcReject, Answer, Answered
<1>4. CASE Receive
  <2>1. rsps # <<>> /\ rsps' = Tail(rsps)
    BY <1>4 DEF Receive, ModbusReceive
  <2>2. \A i \in 1 .. Len(rsps') : i + 1 \in 1 .. Len(rsps) /\ rsps'[i] = rsps[i + 1]
    BY <1>0, <2>1
  <2> QED BY <2>2
<1>5. CASE Break
  <2>1. PICK n \in 0 .. Len(rsps) : rsps' = SubSeq(rsps, 1, n)
    BY <1>5 DEF Break, ConnectionLost
  <2>2. \A i \in 1 .. Len(rsps') : i \in 1 .. Len(rsps) /\ rsps'[i] = rsps[i]
    BY <1>0, <2>1, Prefix
  <2> QED BY <2>2
<1>6. CASE Send \/ Fail \/ Timeout \/ OrderMove \/ OrderExit \/ NoRequest \/ CopyWord
  <2>1. rsps' = rsps
    BY <1>6 DEF Send, Fail, Timeout, OrderMove, OrderExit, NoRequest, CopyWord, ModbusSend,
                ModbusNoConnection, ModbusTimeout, StartSendMove, StartExit, PlcNoRequest,
                PlcCopyWord, linkVars
  <2> QED BY <1>1, <2>1
<1>7. CASE RobotReads \/ RobotActs \/ UNCHANGED vars
  <2>1. rsps' = rsps
    BY <1>7 DEF RobotReads, RobotActs, Robot, vars, linkVars
  <2> QED BY <1>1, <2>1
<1>8. CASE Disconnect \/ Reboot
  <2>1. rsps' = <<>>
    BY <1>8 DEF Disconnect, Reboot, RobotDisconnect, Restart
  <2> QED BY <1>1, <2>1
<1> QED BY <1>2, <1>3, <1>4, <1>5, <1>6, <1>7, <1>8 DEF Next

\* The answer that a served or refused request adds.
LEMMA LastAnswer ==
  ASSUME TypeInv, NEW r, NEW ok, Answered(r, ok), NEW i \in 1 .. Len(rsps')
  PROVE  \/ i \in 1 .. Len(rsps) /\ rsps'[i] = rsps[i]
         \/ /\ i = Len(rsps) + 1
            /\ rsps'[i].tid = r.tid /\ rsps'[i].op = r.op /\ rsps'[i].ok = ok
<1>1. rsps \in Seq(Response)
  BY DEF TypeInv, TypeOK, LinkTypeOK
<1>2. CASE rsps' = rsps
  BY <1>2
<1>3. CASE rsps' # rsps
  <2>1. PICK w \in Word :
          rsps' = Append(rsps, [tid |-> r.tid, op |-> r.op, ok |-> ok, word |-> w])
    BY <1>3 DEF Answered
  <2> DEFINE a == [tid |-> r.tid, op |-> r.op, ok |-> ok, word |-> w]
  <2>2. a.tid = r.tid /\ a.op = r.op /\ a.ok = ok /\ rsps' = Append(rsps, a)
    BY <2>1
  <2> HIDE DEF a
  <2>3. \/ i \in 1 .. Len(rsps) /\ rsps'[i] = rsps[i]
        \/ i = Len(rsps) + 1 /\ rsps'[i] = a
    BY <1>1, <2>2
  <2> QED BY <2>2, <2>3
<1> QED BY <1>2, <1>3

-----------------------------------------------------------------------------
(* The scan, and the forms of the requests.                                  *)

LEMMA NextScan ==
  ASSUME TypeInv, ScanInv, [Next]_vars
  PROVE  ScanInv'
<1>1. scan \in 0 .. 6 /\ robotIn \in [CommandAddrs -> Word]
  BY DEF TypeInv, TypeOK, PlcTypeOK, LinkTypeOK
<1>2. CASE UNCHANGED <<d, ready, scan, robotIn>>
  BY <1>2 DEF ScanInv
<1>3. CASE Serve \/ Reject \/ NoRequest
  <2>1. scan' = 1
    BY <1>3 DEF Serve, Reject, NoRequest, PlcServe, PlcReject, PlcNoRequest
  <2> QED BY <2>1, Addresses, Constants DEF ScanInv
<1>4. CASE CopyWord
  <2>1. /\ scan > 0 /\ d' = d /\ scan' = (scan + 1) % 7
        /\ robotIn' = [robotIn EXCEPT ![ADDR_CMD_1 + scan - 1] = d[ADDR_CMD_1 + scan - 1]]
    BY <1>4 DEF CopyWord, PlcCopyWord
  <2>2. scan' = IF scan = 6 THEN 0 ELSE scan + 1
    BY <1>1, <2>1
  <2>3. ASSUME NEW a \in CommandAddrs, scan' = 0 \/ a < ADDR_CMD_1 + scan' - 1
        PROVE  robotIn'[a] = d'[a]
    <3>1. a \in 540 .. 545
      BY Constants
    <3>2. CASE a = ADDR_CMD_1 + scan - 1
      BY <1>1, <2>1, <3>2
    <3>3. CASE a # ADDR_CMD_1 + scan - 1
      <4>1. a < ADDR_CMD_1 + scan - 1
        BY <1>1, <2>1, <2>2, <2>3, <3>1, <3>3, Addresses
      <4> QED BY <1>1, <2>1, <3>3, <4>1 DEF ScanInv
    <3> QED BY <3>2, <3>3
  <2> QED BY <2>3 DEF ScanInv
<1> QED BY <1>2, <1>3, <1>4, PlcStep

LEMMA NextShapes ==
  ASSUME TypeInv, Shapes, [Next]_vars
  PROVE  Shapes'
<1>1. CASE Send
  <2>1. PICK r \in Request : reqs' = Append(reqs, r) /\ Shape(r)
    BY <1>1, SendShape DEF Send
  <2>2. \A i \in 1 .. Len(reqs') : reqs'[i] = r \/ (i \in 1 .. Len(reqs) /\ reqs'[i] = reqs[i])
    BY <2>1 DEF TypeInv, TypeOK, LinkTypeOK
  <2> QED BY <2>1, <2>2 DEF Shapes, Shape
<1>2. CASE \E n \in 0 .. 1 : Shifted(n)
  BY <1>2 DEF Shifted, Shapes, Shape
<1> QED BY <1>1, <1>2, ReqsStep

\* What a returned call makes of the function that runs: robot_sendMove gives
\* up, polls again, goes on or ends.
GivesUp(ok)        == /\ step \in {2, 4} /\ ~ok
                      /\ fn' = "idle" /\ step' = 1 /\ Finish("false")
PollsOn(ok, val)   == /\ step = 4 /\ ok /\ val # CMD_READY
                      /\ UNCHANGED <<fn, step, issued>>
GoesOn(ok, val)    == /\ step \in 1 .. 6 /\ (step \in {2, 4} => ok)
                      /\ step = 4 => val = CMD_READY
                      /\ step' = step + 1
                      /\ UNCHANGED <<fn, issued>>
Ends               == step = 7 /\ fn' = "idle" /\ step' = 1 /\ Finish("true")
GoesElsewhere      == /\ issued' = issued /\ fn' # "robot_sendMove"
                      /\ fn # "robot_connect" => fn' # "robot_connect"

LEMMA ContinueStep ==
  ASSUME TypeInv, fn \in Running, NEW ok, NEW val, Continue(ok, val)
  PROVE  /\ pending' = NoTid
         /\ fn = "robot_sendMove" => GivesUp(ok) \/ PollsOn(ok, val) \/ GoesOn(ok, val) \/ Ends
         /\ fn # "robot_sendMove" => GoesElsewhere
<1>1. pending' = NoTid
  BY DEF Continue
<1>2. CASE fn = "robot_sendMove"
  <2> DEFINE L == Len(Script)
  <2>1. L = 7 /\ step \in 1 .. 7
    BY <1>2, ScriptLengths DEF TypeInv, StepOK
  <2>2. AfterLast = "idle"
    BY <1>2 DEF AfterLast
  <2>3. \/ /\ Fails(ok)
           /\ fn' = "idle" /\ step' = 1 /\ Finish("false")
        \/ PollsAgain(ok, val) /\ UNCHANGED <<fn, step, issued>>
        \/ /\ ~Fails(ok) /\ ~PollsAgain(ok, val)
           /\ step < L /\ step' = step + 1 /\ UNCHANGED <<fn, issued>>
        \/ /\ step = L /\ fn' = AfterLast /\ step' = 1 /\ Finish("true")
    BY DEF Continue
  <2> HIDE DEF L
  <2>4. GivesUp(ok) \/ PollsOn(ok, val) \/ GoesOn(ok, val) \/ Ends
    BY <1>2, <2>1, <2>2, <2>3
       DEF Fails, PollsAgain, ParamsStep, PollStep, GivesUp, PollsOn, GoesOn, Ends
  <2> QED BY <1>1, <1>2, <2>4
<1>3. CASE fn # "robot_sendMove"
  <2>1. ~Fails(ok) /\ ~PollsAgain(ok, val)
    BY <1>3 DEF Fails, PollsAgain
  <2>2. \/ UNCHANGED <<fn, issued>>
        \/ fn' = AfterLast /\ Finish("true")
    BY <2>1 DEF Continue
  <2>3. issued' = issued
    BY <1>3, <2>2 DEF Finish
  <2>4. fn' = fn \/ fn' \in {"modbusClearCommand", "idle", "disconnect"}
    BY <1>3, <2>2 DEF AfterLast, Running
  <2> QED BY <1>1, <1>3, <2>3, <2>4 DEF GoesElsewhere
<1> QED BY <1>2, <1>3

\* The three ways a call returns.
LEMMA Returned ==
  ASSUME TypeInv, Receive \/ Fail \/ Timeout
  PROVE  /\ fn \in Running /\ reqs' = reqs /\ connected' = connected
         /\ \/ Continue(FALSE, 0)
            \/ /\ Receive /\ pending # NoTid /\ rsps # <<>> /\ rsps' = Tail(rsps)
               /\ Continue(Confirms(Head(rsps)), Head(rsps).word.val)
BY DEF Receive, Fail, Timeout, ModbusReceive, ModbusNoConnection, ModbusTimeout, linkVars,
       TypeInv, StepOK

-----------------------------------------------------------------------------
(* The robot's program ends only on CMD_EXIT.                                *)

\* A type once set stays: nothing under way takes it back.
LEMMA TypeStays ==
  ASSUME "restart" \notin FaultKinds, TypeInv, Shapes, TypeSet, [Next]_vars
  PROVE  TypeSet'
<1>1. fn # "robot_connect" /\ fn' # "robot_connect"
  <2>1. ~Reboot
    BY DEF Reboot, Fault
  <2>2. CASE Receive \/ Fail \/ Timeout
    BY <2>2, Returned, ContinueStep DEF TypeSet, GivesUp, PollsOn, GoesOn, Ends, GoesElsewhere
  <2>3. CASE Send \/ OrderMove \/ OrderExit \/ Disconnect
    BY <2>3 DEF Send, OrderMove, OrderExit, Disconnect, ModbusSend, StartSendMove, StartExit,
                RobotDisconnect, TypeSet
  <2> QED BY <2>1, <2>2, <2>3, DriverStep DEF TypeSet
<1>2. \A i \in 1 .. Len(reqs') : reqs'[i].addr # ADDR_MOVETYPE
  <2>1. CASE Send
    <3>1. PICK r \in Request : reqs' = Append(reqs, r) /\ r.addr # ADDR_MOVETYPE
      BY <1>1, <2>1, SendShape DEF Send
    <3>2. \A i \in 1 .. Len(reqs') : reqs'[i] = r \/ (i \in 1 .. Len(reqs) /\ reqs'[i] = reqs[i])
      BY <3>1 DEF TypeInv, TypeOK, LinkTypeOK
    <3> QED BY <3>1, <3>2 DEF TypeSet
  <2>2. CASE \E n \in 0 .. 1 : Shifted(n)
    BY <2>2 DEF Shifted, TypeSet
  <2> QED BY <2>1, <2>2, ReqsStep
<1>3. d'[ADDR_MOVETYPE].val \in MoveTypes
  <2>1. CASE Serve
    <3> DEFINE r == Head(reqs)
    <3>1. /\ reqs \in Seq(Request) /\ reqs # <<>> /\ d' = Store(r)
      BY <2>1 DEF Serve, PlcServe, TypeInv, TypeOK, LinkTypeOK
    <3>2. r = reqs[1] /\ 1 \in 1 .. Len(reqs) /\ r \in Request
      BY <3>1
    <3>3. Shape(r) /\ r.addr # ADDR_MOVETYPE /\ r.op \in Op
      BY <3>2 DEF Shapes, TypeSet, Request
    <3> HIDE DEF r
    <3> QED BY <3>1, <3>2, <3>3, StoreWords, Addresses DEF Op, Shape, TypeSet
  <2>2. CASE Reject \/ NoRequest \/ CopyWord
    BY <2>2 DEF Reject, NoRequest, CopyWord, PlcReject, PlcNoRequest, PlcCopyWord, TypeSet
  <2> QED BY <2>1, <2>2, PlcStep DEF TypeSet
<1> QED BY <1>1, <1>2, <1>3 DEF TypeSet

\* The robot reads only such a type from then on.
LEMMA TypeStaysRead ==
  ASSUME "restart" \notin FaultKinds, TypeInv, Shapes, TypeRead, [Next]_vars
  PROVE  TypeRead'
<1>1. TypeSet'
  BY TypeStays DEF TypeRead
<1>2. CASE CopyWord
  BY <1>1, <1>2, Addresses DEF CopyWord, PlcCopyWord, TypeRead, TypeSet, TypeInv, TypeOK, LinkTypeOK
<1>3. CASE UNCHANGED robotIn
  BY <1>1, <1>3 DEF TypeRead
<1>4. CASE Serve \/ Reject \/ NoRequest
  BY <1>3, <1>4 DEF Serve, Reject, NoRequest, PlcServe, PlcReject, PlcNoRequest, linkVars
<1> QED BY <1>2, <1>3, <1>4, PlcStep

\* The zero of robot_connect stays ahead of the parameters, and the second
\* command behind them.
LEMMA NextParamsFirst ==
  ASSUME "restart" \notin FaultKinds, TypeInv, Shapes, ParamsFirst, [Next]_vars
  PROVE  ParamsFirst'
<1>0. reqs \in Seq(Request) /\ rsps \in Seq(Response)
  BY DEF TypeInv, TypeOK, LinkTypeOK
<1>1. TypeSet => TypeSet'
  BY TypeStays
<1>a. fn # "robot_connect" => fn' # "robot_connect"
  <2>1. ~Reboot
    BY DEF Reboot, Fault
  <2>2. CASE Receive \/ Fail \/ Timeout
    BY <2>2, Returned, ContinueStep DEF GivesUp, PollsOn, GoesOn, Ends, GoesElsewhere
  <2>3. CASE Send \/ OrderMove \/ OrderExit \/ Disconnect
    BY <2>3 DEF Send, OrderMove, OrderExit, Disconnect, ModbusSend, StartSendMove, StartExit,
                RobotDisconnect
  <2> QED BY <2>1, <2>2, <2>3, DriverStep
<1>2. \A i \in 1 .. Len(reqs') :
        /\ reqs'[i].op = "write_registers" =>
             fn' # "robot_connect" /\ \A j \in i .. Len(reqs') : reqs'[j].addr # ADDR_MOVETYPE
        /\ reqs'[i].addr = ADDR_CMD_2 /\ reqs'[i].words[1].val = CMD_ALLOW_MOVE_2 => TypeSet'
  <2>1. CASE Send
    <3>1. PICK r \in Request :
            /\ reqs' = Append(reqs, r) /\ Shape(r)
            /\ fn # "robot_connect" => r.addr # ADDR_MOVETYPE
            /\ fn # "robot_sendMove" => r.op = "write_register"
            /\ r.addr = ADDR_CMD_2 /\ r.words[1].val = CMD_ALLOW_MOVE_2 =>
                 fn = "robot_sendMove" /\ step = 3
      BY <2>1, SendShape DEF Send
    <3>2. /\ Len(reqs') = Len(reqs) + 1 /\ Len(reqs) \in Nat
          /\ \A i \in 1 .. Len(reqs') : \/ i = Len(reqs) + 1 /\ reqs'[i] = r
                                        \/ i \in 1 .. Len(reqs) /\ reqs'[i] = reqs[i]
      BY <1>0, <3>1
    <3>3. r.op = "write_registers" => fn = "robot_sendMove" /\ r.addr # ADDR_MOVETYPE
      BY <3>1, Addresses DEF Shape
    <3>4. r.addr = ADDR_CMD_2 /\ r.words[1].val = CMD_ALLOW_MOVE_2 => TypeSet'
      BY <1>1, <3>1 DEF ParamsFirst
    <3> TAKE i \in 1 .. Len(reqs')
    <3>5. CASE i = Len(reqs) + 1 /\ reqs'[i] = r
      <4>1. \A j \in i .. Len(reqs') : j = i
        BY <3>2, <3>5
      <4> QED BY <1>a, <3>3, <3>4, <3>5, <4>1
    <3>6. CASE i \in 1 .. Len(reqs) /\ reqs'[i] = reqs[i]
      <4>1. ASSUME reqs[i].op = "write_registers", NEW j \in i .. Len(reqs')
            PROVE  reqs'[j].addr # ADDR_MOVETYPE
        <5>1. fn # "robot_connect"
          BY <3>6, <4>1 DEF ParamsFirst
        <5>2. j \in 1 .. Len(reqs')
          BY <3>2, <4>1
        <5>3. CASE reqs'[j] = r
          BY <3>1, <5>1, <5>3
        <5>4. CASE j \in 1 .. Len(reqs) /\ reqs'[j] = reqs[j]
          BY <3>6, <4>1, <5>4 DEF ParamsFirst
        <5> QED BY <3>2, <5>2, <5>3, <5>4
      <4> QED BY <1>1, <1>a, <3>6, <4>1 DEF ParamsFirst
    <3> QED BY <3>2, <3>5, <3>6
  <2>2. CASE \E n \in 0 .. 1 : Shifted(n)
    <3>1. PICK n \in 0 .. 1 : Shifted(n)
      BY <2>2
    <3> TAKE i \in 1 .. Len(reqs')
    <3>2. i + n \in 1 .. Len(reqs) /\ reqs'[i] = reqs[i + n]
      BY <3>1 DEF Shifted
    <3>3. \A j \in i .. Len(reqs') : j + n \in i + n .. Len(reqs) /\ reqs'[j] = reqs[j + n]
      BY <1>0, <3>1, <3>2 DEF Shifted
    <3> QED BY <1>1, <1>a, <3>2, <3>3 DEF ParamsFirst
  <2> QED BY <2>1, <2>2, ReqsStep
<1>3. ASSUME NEW i \in 1 .. Len(rsps'), rsps'[i].op = "write_registers", rsps'[i].ok
      PROVE  TypeSet'
  <2>1. CASE \E j \in 1 .. Len(rsps) : rsps'[i] = rsps[j]
    BY <1>1, <1>3, <2>1 DEF ParamsFirst
  <2>2. CASE Reject /\ Answered(Head(reqs), FALSE)
    <3>1. rsps'[i].ok = FALSE \/ \E j \in 1 .. Len(rsps) : rsps'[i] = rsps[j]
      BY <1>3, <2>2, LastAnswer
    <3> QED BY <1>3, <2>1, <3>1
  <2>3. CASE Serve /\ Answered(Head(reqs), TRUE)
    <3> DEFINE r == Head(reqs)
    <3>1. r.op = "write_registers" \/ \E j \in 1 .. Len(rsps) : rsps'[i] = rsps[j]
      BY <1>3, <2>3, LastAnswer
    <3>2. CASE r.op = "write_registers"
      <4>1. reqs # <<>> /\ reqs' = Tail(reqs) /\ d' = Store(r) /\ fn' = fn
        BY <2>3 DEF Serve, PlcServe, driverVars
      <4>2. r = reqs[1] /\ 1 \in 1 .. Len(reqs) /\ r \in Request
        BY <1>0, <4>1
      <4>3. Shape(r) /\ fn # "robot_connect"
            /\ \A j \in 1 .. Len(reqs) : reqs[j].addr # ADDR_MOVETYPE
        BY <3>2, <4>2 DEF Shapes, ParamsFirst
      <4>4. \A j \in 1 .. Len(reqs') : j + 1 \in 1 .. Len(reqs) /\ reqs'[j] = reqs[j + 1]
        BY <1>0, <4>1
      <4> HIDE DEF r
      <4>5. d'[ADDR_MOVETYPE].val \in MoveTypes
        BY <3>2, <4>1, <4>2, <4>3, StoreWords, Addresses DEF Shape
      <4> QED BY <4>1, <4>3, <4>4, <4>5 DEF TypeSet
    <3> QED BY <2>1, <3>1, <3>2
  <2> QED BY <2>1, <2>2, <2>3, RspsStep
<1>4. ASSUME fn' = "robot_sendMove", step' >= 3 PROVE TypeSet'
  <2>1. CASE fn = "robot_sendMove" /\ step >= 3
    BY <1>1, <2>1 DEF ParamsFirst
  <2>2. CASE Receive \/ Fail \/ Timeout
    <3>1. ASSUME ~(fn = "robot_sendMove" /\ step >= 3)
          PROVE  /\ fn = "robot_sendMove" /\ step = 2
                 /\ rsps # <<>> /\ Confirms(Head(rsps))
      <4>1. fn \in Running /\ Running \subseteq {"robot_connect", "modbusClearCommand",
                                                "robot_sendMove", "exit"}
        BY <2>2, Returned DEF Running
      <4>2. fn = "robot_sendMove"
        BY <1>4, <2>2, <4>1, Returned, ContinueStep DEF GoesElsewhere
      <4>3. step \in 1 .. 7
        BY <4>2 DEF TypeInv, StepOK
      <4>4. step = 2
        <5>1. PICK ok, val : Continue(ok, val)
          BY <2>2, Returned
        <5>2. step' = 1 \/ step' = step \/ step' = step + 1
          BY <4>1, <4>2, <5>1, ContinueStep DEF GivesUp, PollsOn, GoesOn, Ends
        <5> QED BY <1>4, <3>1, <4>2, <4>3, <5>2
      <4>5. ~Continue(FALSE, 0)
        BY <1>4, <4>1, <4>2, <4>4, ContinueStep DEF GivesUp, PollsOn, GoesOn, Ends
      <4>6. /\ rsps # <<>> /\ Continue(Confirms(Head(rsps)), Head(rsps).word.val)
        BY <2>2, <4>5, Returned
      <4>7. Confirms(Head(rsps))
        BY <1>4, <4>1, <4>2, <4>4, <4>6, ContinueStep DEF GivesUp, PollsOn, GoesOn, Ends
      <4> QED BY <4>2, <4>4, <4>6, <4>7
    <3>2. ASSUME fn = "robot_sendMove", step = 2, rsps # <<>>, Confirms(Head(rsps))
          PROVE  TypeSet
      <4>1. Script[step].op = "write_registers"
        <5>1. fn \in Running
          BY <2>2, Returned
        <5>2. \E vs : Script[step] = WriteRegisters(ADDR_MOVESOURCE, vs)
          BY <3>2, <5>1, ScriptAt
        <5> QED BY <5>2 DEF WriteRegisters
      <4>2. Head(rsps) = rsps[1] /\ 1 \in 1 .. Len(rsps)
        BY <1>0, <3>2
      <4> QED BY <3>2, <4>1, <4>2 DEF Confirms, ParamsFirst
    <3> QED BY <1>1, <2>1, <3>1, <3>2
  <2>3. CASE Send
    BY <1>4, <2>1, <2>3 DEF Send, ModbusSend
  <2>4. CASE OrderMove
    BY <1>4, <2>4 DEF OrderMove, StartSendMove, TypeInv, StepOK, Running
  <2>5. CASE OrderExit \/ Disconnect \/ Reboot
    BY <1>4, <2>5 DEF OrderExit, Disconnect, Reboot, StartExit, RobotDisconnect, Restart
  <2> QED BY <1>4, <2>1, <2>2, <2>3, <2>4, <2>5, DriverStep
<1> QED BY <1>2, <1>3, <1>4 DEF ParamsFirst

\* The PLC stores CMD_ALLOW_MOVE_2 at the start of a scan, when the robot has
\* every word stored before: the type is there first.
LEMMA NextTypeBefore ==
  ASSUME "restart" \notin FaultKinds, TypeInv, ScanInv, Shapes, ParamsFirst, TypeBeforeCommand,
         [Next]_vars
  PROVE  TypeBeforeCommand'
<1>0. /\ robotIn \in [CommandAddrs -> Word] /\ reqs \in Seq(Request)
      /\ nW \in [cmd1 : Word, type : Word, source : Word, dest : Word]
  BY DEF TypeInv, TypeOK, LinkTypeOK, RobotTypeOK
<1>1. TypeRead => TypeRead'
  BY TypeStaysRead
<1> DEFINE Second(w) == w.val = CMD_ALLOW_MOVE_2
<1>2. ASSUME Second(d'[ADDR_CMD_2]) PROVE TypeRead'
  <2>1. CASE d' = d
    BY <1>1, <1>2, <2>1 DEF TypeBeforeCommand
  <2>2. CASE Serve
    <3> DEFINE r == Head(reqs)
    <3>1. reqs # <<>> /\ d' = Store(r) /\ scan = 0
      BY <2>2 DEF Serve, PlcServe
    <3>2. r = reqs[1] /\ 1 \in 1 .. Len(reqs) /\ r \in Request
      BY <1>0, <3>1
    <3>3. Shape(r) /\ r.op \in Op
      BY <3>2 DEF Shapes, Request
    <3>4. \/ d'[ADDR_CMD_2] = d[ADDR_CMD_2]
          \/ r.addr = ADDR_CMD_2 /\ d'[ADDR_CMD_2] = r.words[1]
      <4> HIDE DEF r
      <4> QED BY <3>1, <3>2, <3>3, StoreWords, Addresses DEF Op, Shape
    <3>5. CASE d'[ADDR_CMD_2] = d[ADDR_CMD_2]
      BY <1>1, <1>2, <3>5 DEF TypeBeforeCommand
    <3>6. CASE r.addr = ADDR_CMD_2 /\ d'[ADDR_CMD_2] = r.words[1]
      <4>1. TypeSet
        BY <1>2, <3>2, <3>6 DEF ParamsFirst
      <4>2. robotIn[ADDR_MOVETYPE] = d[ADDR_MOVETYPE]
        BY <3>1, Addresses DEF ScanInv
      <4> QED BY <1>1, <4>1, <4>2 DEF TypeRead, TypeSet
    <3> QED BY <3>4, <3>5, <3>6
  <2>3. CASE Reject \/ NoRequest \/ CopyWord
    BY <2>1, <2>3 DEF Reject, NoRequest, CopyWord, PlcReject, PlcNoRequest, PlcCopyWord
  <2> QED BY <2>1, <2>2, <2>3, PlcStep
<1>3. ASSUME Second(robotIn'[ADDR_CMD_2]) PROVE TypeRead'
  <2>1. CASE robotIn' = robotIn
    BY <1>1, <1>3, <2>1 DEF TypeBeforeCommand
  <2>2. CASE CopyWord
    <3>1. robotIn'[ADDR_CMD_2] = robotIn[ADDR_CMD_2] \/ robotIn'[ADDR_CMD_2] = d[ADDR_CMD_2]
      BY <1>0, <2>2, Addresses DEF CopyWord, PlcCopyWord
    <3> QED BY <1>1, <1>3, <3>1 DEF TypeBeforeCommand
  <2>3. CASE Serve \/ Reject \/ NoRequest
    BY <2>1, <2>3 DEF Serve, Reject, NoRequest, PlcServe, PlcReject, PlcNoRequest, linkVars
  <2> QED BY <2>1, <2>2, <2>3, PlcStep
<1>4. /\ label' \in ParamLabels => TypeRead'
      /\ label' \in {"source", "dest"} => nW'.type.val \in MoveTypes
  <2>1. CASE UNCHANGED <<label, nW>>
    BY <1>1, <2>1 DEF TypeBeforeCommand
  <2>2. CASE RobotReads
    <3>1. \/ label' \notin ParamLabels
          \/ label = "readsecond" /\ label' = "type" /\ Second(robotIn[ADDR_CMD_2])
          \/ label = "type" /\ label' = "source" /\ nW'.type = robotIn[ADDR_MOVETYPE]
          \/ label = "source" /\ label' = "dest" /\ nW'.type = nW.type
          \/ label = "dest" /\ label' \in {"startHitMove", "startNormalMove"}
      BY <1>0, <2>2 DEF RobotReads, Robot, RobotMain, RobotReadCmd1, RobotReadSecond, RobotReadType,
                        RobotReadSource, RobotReadDest, Goto, ParamLabels, AfterParams
    <3>2. label' \in ParamLabels => TypeRead
      BY <3>1 DEF TypeBeforeCommand, ParamLabels
    <3>3. label' \in {"source", "dest"} => label' \in ParamLabels
      BY DEF ParamLabels
    <3> QED BY <1>1, <3>1, <3>2, <3>3 DEF TypeBeforeCommand, TypeRead
  <2>3. CASE RobotActs
    <3>1. label' \in {"startNormalMove", "stopped", "moveReady", "waitforpc", "clearReady", "main"}
          /\ (label' = "startNormalMove" => label = "startHitMove")
      BY <2>3 DEF RobotActs, Robot, RobotStartHitMove, RobotStartNormalMove, RobotOffBoard,
                  RobotMoveReady, RobotWaitForPc, RobotClearReady, Goto
    <3> QED BY <1>1, <3>1 DEF TypeBeforeCommand, ParamLabels
  <2> QED BY <2>1, <2>2, <2>3, RobotStep
<1> QED BY <1>2, <1>3, <1>4 DEF TypeBeforeCommand

LEMMA InitExit == Init => ExitInv
<1> SUFFICES ASSUME Init PROVE ExitInv
  OBVIOUS
<1>1. /\ reqs = <<>> /\ rsps = <<>> /\ scan = 0 /\ label = "main" /\ fn = "robot_connect"
      /\ robotIn = [a \in CommandAddrs |-> Zero] /\ d = [a \in CommandAddrs |-> Zero]
  BY DEF Init, LinkInit, PlcInit, DriverInit, RobotInit
<1>2. ScanInv /\ Shapes
  BY <1>1 DEF ScanInv, Shapes
<1>3. ParamsFirst
  BY <1>1 DEF ParamsFirst
<1>4. TypeBeforeCommand
  BY <1>1, ZeroWord, Addresses, Commands DEF TypeBeforeCommand, ParamLabels
<1> QED BY <1>2, <1>3, <1>4 DEF ExitInv

\* A step into *exit is the one from *main: the other way there needs a type
\* that is none.
LEMMA ExitStep ==
  ASSUME TypeBeforeCommand, [Next]_vars, label' = "exit", label # "exit"
  PROVE  robotIn[ADDR_CMD_EXIT].val = CMD_EXIT
<1>1. CASE RobotReads
  BY <1>1 DEF RobotReads, Robot, RobotMain, RobotReadCmd1, RobotReadSecond, RobotReadType,
              RobotReadSource, RobotReadDest, Goto, AfterParams, TypeBeforeCommand, MoveTypes
<1>2. CASE RobotActs
  BY <1>2 DEF RobotActs, Robot, RobotStartHitMove, RobotStartNormalMove, RobotOffBoard,
              RobotMoveReady, RobotWaitForPc, RobotClearReady, Goto
<1> QED BY <1>1, <1>2, RobotStep

\* The order of the writes survives timeouts, refusals and broken connections
\* in any number: where the robot finds the second command, it finds a type.
THEOREM ExitInvariant == ASSUME "restart" \notin FaultKinds PROVE Spec => []ExitInv
<1>1. TypeInv /\ ExitInv /\ [Next]_vars => ExitInv'
  BY NextScan, NextShapes, NextParamsFirst, NextTypeBefore DEF ExitInv
<1> QED BY InitType, NextType, InitExit, <1>1, PTL DEF Spec

\* Without a restart of the PC program, the robot's program ends only because it
\* has read CMD_EXIT, however many answers are late, refused or lost, and
\* whether or not the application waits between the moves.
THEOREM ExitsOnlyOnCommand == ASSUME "restart" \notin FaultKinds PROVE Spec => ExitOnlyOnCommand
<1>1. ExitInv /\ [Next]_vars =>
        [label' = "exit" /\ label # "exit" => robotIn[ADDR_CMD_EXIT].val = CMD_EXIT]_vars
  BY ExitStep DEF ExitInv
<1>2. Spec => []ExitInv
  BY ExitInvariant
<1> QED BY <1>1, <1>2, PTL DEF Spec, ExitOnlyOnCommand

-----------------------------------------------------------------------------
(* What is carried out is what was ordered.                                  *)

\* Setting an outcome leaves the moves.
LEMMA FinishMoves ==
  ASSUME TypeInv, calls > 0, NEW o \in Outcomes, issued' = [issued EXCEPT ![calls].outcome = o]
  PROVE  /\ calls' = calls
         /\ issued'[calls].outcome = o
         /\ \A k \in 1 .. calls : /\ issued'[k].move = issued[k].move
                                  /\ k # calls => issued'[k] = issued[k]
<1>1. issued \in Seq(Issue) /\ calls \in 1 .. Len(issued) /\ calls = Len(issued)
  BY DEF TypeInv, TypeOK, DriverTypeOK, Issue, calls
<1>2. calls' = calls
  BY <1>1, SetOutcome DEF calls
<1>3. \A k \in 1 .. calls : issued[k] \in Issue
  BY <1>1, ElementOfSeq
<1>4. issued'[calls] = [issued[calls] EXCEPT !.outcome = o]
      /\ \A k \in 1 .. calls : k # calls => issued'[k] = issued[k]
  BY <1>1
<1>5. issued'[calls].outcome = o /\ issued'[calls].move = issued[calls].move
  BY <1>1, <1>3, <1>4 DEF Issue
<1> QED BY <1>2, <1>4, <1>5

\* No step changes a move once ordered.
LEMMA OrderedStays ==
  ASSUME TypeInv, [Next]_vars, NEW k \in 1 .. calls
  PROVE  k \in 1 .. calls' /\ Ordered(k)' = Ordered(k)
<1>0. issued \in Seq(Issue) /\ calls = Len(issued) /\ calls \in Nat
  BY DEF TypeInv, TypeOK, DriverTypeOK, Issue, calls
<1> SUFFICES calls' >= calls /\ calls' \in Nat /\ issued'[k].move = issued[k].move
  BY <1>0 DEF Ordered, JobOf
<1>1. CASE issued' = issued
  BY <1>0, <1>1 DEF calls
<1>2. CASE OrderMove
  <2>1. PICK m \in Moves : issued' = Append(issued, [move |-> m, outcome |-> "pending"])
    BY <1>2 DEF OrderMove, StartSendMove
  <2> DEFINE e == [move |-> m, outcome |-> "pending"]
  <2>2. issued' = Append(issued, e)
    BY <2>1
  <2> HIDE DEF e
  <2>3. Len(issued') = Len(issued) + 1 /\ \A i \in 1 .. Len(issued) : issued'[i] = issued[i]
    BY <1>0, <2>2
  <2> QED BY <1>0, <2>3 DEF calls
<1>3. ASSUME NEW o \in Outcomes, issued' = [issued EXCEPT ![calls].outcome = o]
      PROVE  calls' >= calls /\ calls' \in Nat /\ issued'[k].move = issued[k].move
  <2>1. calls > 0
    BY <1>0
  <2>2. calls' = calls /\ issued'[k].move = issued[k].move
    BY <1>3, <2>1, FinishMoves
  <2> QED BY <1>0, <2>2
<1>4. {"true", "false", "killed"} \subseteq Outcomes
  BY DEF Outcomes
<1>5. CASE Receive \/ Fail \/ Timeout
  <2>1. issued' = issued \/ Finish("true") \/ Finish("false")
    <3>1. PICK ok, val : Continue(ok, val)
      BY <1>5, Returned
    <3> QED BY <3>1 DEF Continue
  <2>2. issued' = issued \/ \E o \in Outcomes : issued' = [issued EXCEPT ![calls].outcome = o]
    BY <1>4, <2>1 DEF Finish
  <2> QED BY <1>1, <1>3, <2>2
<1>6. CASE Reboot
  <2>1. issued' = issued \/ issued' = [issued EXCEPT ![calls].outcome = "killed"]
    BY <1>6 DEF Reboot, Restart
  <2> QED BY <1>1, <1>3, <1>4, <2>1
<1>7. CASE Send \/ OrderExit \/ Disconnect
  BY <1>1, <1>7 DEF Send, OrderExit, Disconnect, ModbusSend, StartExit, RobotDisconnect
<1> QED BY <1>1, <1>2, <1>5, <1>6, <1>7, DriverStep

\* The signal stands while the robot waits for the PC.
LEMMA NextSignalHeld ==
  ASSUME SignalHeld, [Next]_vars
  PROVE  SignalHeld'
<1>1. CASE UNCHANGED <<label, nW, performed, robotOut>>
  BY <1>1 DEF SignalHeld
<1>2. CASE RobotReads
  BY <1>2 DEF RobotReads, Robot, RobotMain, RobotReadCmd1, RobotReadSecond, RobotReadType,
              RobotReadSource, RobotReadDest, Goto, AfterParams, SignalHeld
<1>3. CASE RobotActs
  BY <1>3 DEF RobotActs, Robot, RobotStartHitMove, RobotStartNormalMove, RobotOffBoard,
              RobotMoveReady, RobotWaitForPc, RobotClearReady, Goto, SignalHeld
<1> QED BY <1>1, <1>2, <1>3, RobotStep

\* The signal stands exactly while the robot waits for the PC.
LEMMA NextReadySignal ==
  ASSUME TypeInv, ReadySignal, [Next]_vars
  PROVE  ReadySignal'
<1>1. robotOut \in Word
  BY DEF TypeInv, TypeOK, LinkTypeOK
<1>2. CASE UNCHANGED <<label, nW, performed, robotOut>>
  BY <1>2 DEF ReadySignal
<1>3. CASE RobotReads
  BY <1>3 DEF RobotReads, Robot, RobotMain, RobotReadCmd1, RobotReadSecond, RobotReadType,
              RobotReadSource, RobotReadDest, Goto, AfterParams, ReadySignal
<1>4. CASE RobotActs
  <2>1. CASE RobotMoveReady
    BY <2>1 DEF RobotMoveReady, ReadySignal
  <2>2. CASE RobotClearReady
    <3>1. robotOut.val = 1111 /\ robotOut' = [robotOut EXCEPT !.val = @ - (@ % 2)]
          /\ label' = "main"
      BY <2>2 DEF RobotClearReady, ReadySignal, CMD_READY
    <3>2. robotOut'.val = 1111 - (1111 % 2)
      BY <1>1, <3>1 DEF Word
    <3> QED BY <3>1, <3>2 DEF ReadySignal, CMD_READY
  <2>3. CASE RobotStartHitMove \/ RobotStartNormalMove \/ RobotOffBoard \/ RobotWaitForPc
    BY <2>3 DEF RobotStartHitMove, RobotStartNormalMove, RobotOffBoard, RobotWaitForPc, Goto,
                ReadySignal
  <2> QED BY <1>4, <2>1, <2>2, <2>3 DEF RobotActs, Robot
<1> QED BY <1>2, <1>3, <1>4, RobotStep

\* A behaviour without timeouts, refusals and restarts is one of which no step
\* is one of these.
LEMMA CleanStep ==
  ASSUME TypeInv, [Next]_vars, Clean'
  PROVE  Clean /\ ~Timeout /\ ~Reject /\ ~Reboot
<1>0. faults \in Seq(FaultKinds)
  BY DEF TypeInv, TypeOK, FaultsOK
<1>1. ASSUME NEW kind, Fault(kind)
      PROVE  Clean /\ kind = "loss"
  <2>1. faults' = Append(faults, kind)
    BY <1>1 DEF Fault
  <2>2. /\ DOMAIN faults = 1 .. Len(faults) /\ DOMAIN faults' = 1 .. (Len(faults) + 1)
        /\ Len(faults) \in Nat /\ faults'[Len(faults) + 1] = kind
        /\ \A i \in 1 .. Len(faults) : faults'[i] = faults[i]
    BY <1>0, <2>1
  <2> QED BY <2>2 DEF Clean
<1>2. ~Timeout /\ ~Reject /\ ~Reboot
  BY <1>1 DEF Timeout, Reject, Reboot
<1>3. faults' = faults \/ Break
  BY <1>2 DEF Next, Send, Receive, Fail, OrderMove, OrderExit, Disconnect, Serve, NoRequest,
              CopyWord, RobotReads, RobotActs, Robot, vars
<1>4. Clean
  BY <1>1, <1>3 DEF Break, Clean
<1> QED BY <1>2, <1>4

\* The ranges of the words and histories that the stages speak of.
LEMMA StageTypes ==
  ASSUME TypeInv
  PROVE  /\ calls \in Nat /\ LastCall \in Nat /\ nW.cmd1.by \in Nat
         /\ d[ADDR_CMD_1].by \in Nat /\ robotIn[ADDR_CMD_1].by \in Nat
         /\ reqs \in Seq(Request) /\ rsps \in Seq(Response)
         /\ robotIn \in [CommandAddrs -> Word] /\ d \in [CommandAddrs -> Word]
         /\ nW \in [cmd1 : Word, type : Word, source : Word, dest : Word]
         /\ robotOut \in Word /\ ready \in Word /\ scan \in 0 .. 6
  BY OrderTypes, WordFields DEF TypeInv, TypeOK, LinkTypeOK, PlcTypeOK, RobotTypeOK

\* A step of the driver or of the connection leaves the stage of the PLC and of
\* the robot as it is.
LEMMA StageFrame ==
  ASSUME NEW k \in Nat, NEW n \in 0 .. 6, n < 6 => k >= 1,
         k >= 1 => Ordered(k)' = Ordered(k),
         UNCHANGED <<d, ready, robotIn, label, nW, performed, robotOut>>
  PROVE  /\ PlcAt(k, n) => PlcAt(k, n)'
         /\ RobotInAt(k, n) => RobotInAt(k, n)'
         /\ Seen(k)' = Seen(k)
         /\ RobotAt(k, n) /\ (\A i \in 1 .. Len(rsps') : \E j \in 1 .. Len(rsps) : rsps'[i] = rsps[j])
              => RobotAt(k, n)'
         /\ \A r : Fits(r, k, n) => Fits(r, k, n)'
<1>1. LastCall' = LastCall
  BY DEF LastCall
<1>2. Seen(k)' = Seen(k)
  BY <1>1 DEF Seen
<1>3. n <= 5 => Ordered(k)' = Ordered(k)
  OBVIOUS
<1>4. PlcAt(k, n) => PlcAt(k, n)'
  BY <1>3 DEF PlcAt, Params
<1>5. RobotInAt(k, n) => RobotInAt(k, n)'
  BY <1>3 DEF RobotInAt, Params
<1>6. ASSUME RobotAt(k, n), \A i \in 1 .. Len(rsps') : \E j \in 1 .. Len(rsps) : rsps'[i] = rsps[j]
      PROVE  RobotAt(k, n)'
  <2>1. \A i \in 1 .. Len(rsps') : rsps'[i].word.val = CMD_READY => Seen(k)
    BY <1>6 DEF RobotAt
  <2>2. label \in {"startHitMove", "startNormalMove"} => label \in ParamLabels
    BY DEF ParamLabels
  <2>3. label \in ParamLabels => k >= 1
    BY <1>6 DEF RobotAt, Reading
  <2>4. label \in ParamLabels => Ordered(k)' = Ordered(k)
    BY <2>3
  <2> QED BY <1>1, <1>2, <1>6, <2>1, <2>2, <2>4 DEF RobotAt
<1>7. ASSUME NEW r, Fits(r, k, n) PROVE Fits(r, k, n)'
  BY <1>2, <1>3, <1>7 DEF Fits, Clears1, Clears2
<1> QED BY <1>2, <1>4, <1>5, <1>6, <1>7

\* A request is sent when nothing else is under way, and it is the one that its
\* stage allows.
LEMMA SendStage ==
  ASSUME TypeInv, NEW k \in 0 .. calls, NEW n \in 0 .. 6, Stage(k, n), Send
  PROVE  Stage(k, n)'
<1>0. [Next]_vars
  BY DEF Next
<1>1. /\ fn \in Running /\ connected /\ pending = NoTid /\ ModbusSend
      /\ UNCHANGED <<fn, step, issued, rsps, connected>>
      /\ UNCHANGED <<d, ready, robotIn, label, nW, performed, robotOut>>
      /\ pending' = tId'
  BY DEF Send, ModbusSend, plcVars, robotVars
<1>2. k = calls /\ n = StageBefore /\ reqs = <<>> /\ rsps = <<>>
      /\ (fn # "robot_sendMove" \/ step >= 5 => Seen(k))
      /\ (fn = "robot_connect" => k = 0)
  BY <1>1 DEF Stage, Link
<1>3. PICK r \in Request :
        /\ reqs' = Append(reqs, r) /\ r.tid = tId' /\ r.op = Script[step].op
        /\ Shape(r)
        /\ fn # "robot_sendMove" =>
             /\ r.op = "write_register"
             /\ r.words[1].val \notin {CMD_ALLOW_MOVE_1, CMD_ALLOW_MOVE_2}
             /\ r.words[1].by = calls
             /\ r.addr \in ParamAddrs => fn = "robot_connect"
        /\ fn = "robot_sendMove" =>
             /\ step = 1 => /\ r.addr = ADDR_CMD_1
                            /\ r.words[1].by = calls /\ r.words[1].val = CMD_ALLOW_MOVE_1
             /\ step = 2 => /\ r.op = "write_registers"
                            /\ r.words[1].val = Ordered(calls).source
                            /\ r.words[2].val = Ordered(calls).dest
                            /\ r.words[3].val = Ordered(calls).type
             /\ step = 3 => r.op = "write_register" /\ r.addr = ADDR_CMD_2
             /\ step = 4 => r.op = "read_registers" /\ r.addr = ADDR_READY
             /\ step \in {5, 7} => Clears1(r, calls)
             /\ step = 5 => r.words[1].val # CMD_CLR_READY
             /\ step = 6 => Clears2(r)
  BY <1>1, SendShape
<1>4. reqs' = <<r>> /\ Len(reqs') = 1 /\ reqs'[1] = r /\ reqs' # <<>>
  BY <1>2, <1>3
<1>5. calls \in Nat /\ (fn = "robot_sendMove" => step \in 1 .. 7)
  BY StageTypes DEF TypeInv, StepOK
<1>6. Fits(r, k, n)
  <2>1. CASE fn # "robot_sendMove"
    <3>1. n = 6
      BY <1>2, <2>1 DEF StageBefore
    <3> QED BY <1>2, <1>3, <1>5, <2>1, <3>1 DEF Fits, Clears1, Clears2
  <2>2. CASE fn = "robot_sendMove"
    <3>1. n = IF step <= 4 THEN step - 1 ELSE step - 2
      BY <1>2, <2>2 DEF StageBefore
    <3> QED BY <1>2, <1>3, <1>5, <2>2, <3>1 DEF Fits
  <2> QED BY <2>1, <2>2
<1>7. n < 6 => k >= 1
  BY DEF Stage
<1>8. k >= 1 => Ordered(k)' = Ordered(k)
  BY <1>0, <1>5, OrderedStays
<1>9. k \in Nat
  BY <1>5
<1>10. /\ PlcAt(k, n)' /\ RobotInAt(k, n)' /\ RobotAt(k, n)' /\ Fits(r, k, n)'
       /\ Seen(k)' = Seen(k)
  BY <1>1, <1>6, <1>7, <1>8, <1>9, StageFrame DEF Stage
<1>11. Link(k, n)'
  <2>1. calls' = calls /\ StageBefore' = StageBefore /\ Script' = Script
    BY <1>1 DEF calls, StageBefore, Script
  <2>2. pending' # NoTid
    BY <1>1, SendType DEF Tid, NoTid
  <2> QED BY <1>1, <1>2, <1>3, <1>4, <1>10, <2>1, <2>2 DEF Link
<1> QED BY <1>4, <1>7, <1>10, <1>11 DEF Stage

\* An answer is read when it is the only one and the awaited one, and the poll is
\* left when the robot has carried out the move.
LEMMA ReceiveStage ==
  ASSUME TypeInv, NEW k \in 0 .. calls, NEW n \in 0 .. 6, Stage(k, n), Receive
  PROVE  Stage(k, n)' /\ k \in 0 .. calls'
<1>0. [Next]_vars
  BY DEF Next
<1>1. /\ pending # NoTid /\ rsps # <<>> /\ rsps' = Tail(rsps) /\ UNCHANGED <<reqs, connected>>
      /\ UNCHANGED <<d, ready, robotIn, label, nW, performed, robotOut>>
      /\ Continue(Confirms(Head(rsps)), Head(rsps).word.val)
      /\ fn \in Running
  BY DEF Receive, ModbusReceive, plcVars, robotVars, TypeInv, StepOK
<1>2. /\ k = calls /\ n = StageAfter /\ reqs = <<>> /\ Len(rsps) = 1
      /\ rsps[1].tid = pending /\ rsps[1].op = Script[step].op /\ rsps[1].ok
      /\ fn # "robot_sendMove" \/ step >= 5 => Seen(k)
      /\ fn = "robot_connect" => k = 0
  BY <1>1 DEF Stage, Link
<1>3. rsps \in Seq(Response) /\ Head(rsps) = rsps[1] /\ rsps' = <<>>
  BY <1>1, <1>2, StageTypes
<1>4. Confirms(Head(rsps))
  BY <1>2, <1>3 DEF Confirms
<1>5. PICK ok, val : ok = TRUE /\ val = rsps[1].word.val /\ Continue(ok, val)
  <2>1. Confirms(Head(rsps)) = TRUE
    BY <1>4 DEF Confirms
  <2> QED BY <1>1, <1>3, <2>1
<1>6. calls' = calls
  BY <1>0, <1>1, <1>5, ContinueInv DEF Receive, ModbusReceive, TypeInv, TypeOK, DriverTypeOK, DriverInv
<1>7. calls \in Nat /\ (fn = "robot_sendMove" => step \in 1 .. 7)
  BY StageTypes DEF TypeInv, StepOK
<1>8. n < 6 => k >= 1
  BY DEF Stage
<1>9. k >= 1 => Ordered(k)' = Ordered(k)
  BY <1>0, <1>7, OrderedStays
<1>10. k \in Nat
  BY <1>7
<1>11. /\ PlcAt(k, n)' /\ RobotInAt(k, n)' /\ RobotAt(k, n)' /\ Seen(k)' = Seen(k)
  <2>1. \A i \in 1 .. Len(rsps') : \E j \in 1 .. Len(rsps) : rsps'[i] = rsps[j]
    BY <1>3
  <2> QED BY <1>1, <1>8, <1>9, <1>10, <2>1, StageFrame DEF Stage
<1>12. pending' = NoTid /\ n = StageBefore'
       /\ (fn' # "robot_sendMove" \/ step' >= 5 => Seen(k))
       /\ (fn' = "robot_connect" => k = 0)
  <2>1. CASE fn # "robot_sendMove"
    <3>1. pending' = NoTid /\ fn' # "robot_sendMove"
          /\ (fn' = "robot_connect" => fn = "robot_connect")
      BY <1>1, <1>5, <2>1, ContinueStep DEF GoesElsewhere
    <3> QED BY <1>2, <2>1, <3>1 DEF StageBefore, StageAfter
  <2>2. CASE fn = "robot_sendMove"
    <3>1. /\ pending' = NoTid
          /\ \/ step = 4 /\ fn' = fn /\ step' = step
             \/ step \in 1 .. 6 /\ (step = 4 => val = CMD_READY) /\ fn' = fn /\ step' = step + 1
             \/ step = 7 /\ fn' = "idle"
      <4>1. /\ pending' = NoTid
            /\ GivesUp(ok) \/ PollsOn(ok, val) \/ GoesOn(ok, val) \/ Ends
        BY <1>1, <1>5, <2>2, ContinueStep
      <4> QED BY <1>5, <4>1 DEF GivesUp, PollsOn, GoesOn, Ends
    <3>2. step = 4 /\ val = CMD_READY => Seen(k)
      <4>1. RobotAt(k, n) /\ 1 \in 1 .. Len(rsps)
        BY <1>2 DEF Stage
      <4> QED BY <1>5, <4>1 DEF RobotAt
    <3>3. step' >= 5 /\ fn' = fn => Seen(k)
      BY <1>2, <1>7, <2>2, <3>1, <3>2
    <3>4. fn' # "robot_sendMove" => step = 7
      BY <2>2, <3>1
    <3> QED BY <1>2, <1>7, <2>2, <3>1, <3>3, <3>4 DEF StageBefore, StageAfter
  <2> QED BY <2>1, <2>2
<1>13. Link(k, n)'
  BY <1>1, <1>2, <1>3, <1>6, <1>11, <1>12 DEF Link
<1> QED BY <1>1, <1>2, <1>6, <1>8, <1>11, <1>13 DEF Stage

\* Nothing moves on when a call fails, the application asks for the exit or
\* leaves, the connection breaks, or a scan finds nothing.
LEMMA QuietStage ==
  ASSUME TypeInv, NEW k \in 0 .. calls, NEW n \in 0 .. 6, Stage(k, n),
         Fail \/ OrderExit \/ Disconnect \/ Break \/ NoRequest \/ UNCHANGED vars
  PROVE  Stage(k, n)' /\ k \in 0 .. calls'
<1>0. [Next]_vars
  BY DEF Next
<1>1. UNCHANGED <<d, ready, robotIn, label, nW, performed, robotOut>>
  BY DEF Fail, OrderExit, Disconnect, Break, NoRequest, ModbusNoConnection, StartExit,
         RobotDisconnect, ConnectionLost, PlcNoRequest, vars, linkVars, plcVars, robotVars
<1>2. calls \in Nat /\ reqs \in Seq(Request) /\ rsps \in Seq(Response)
  BY StageTypes
<1>3. calls' = calls
  <2>1. CASE Fail
    <3>1. tId' \in Tid
      BY <1>0, NextType DEF TypeInv, TypeOK, DriverTypeOK
    <3> QED BY <2>1, <3>1, ContinueInv DEF Fail, ModbusNoConnection, TypeInv, TypeOK, DriverInv
  <2>2. CASE ~Fail
    BY <2>2 DEF OrderExit, Disconnect, Break, NoRequest, StartExit, RobotDisconnect,
                ConnectionLost, vars, driverVars, calls
  <2> QED BY <2>1, <2>2
<1>4. Stage(k, n) /\ (n < 6 => k >= 1) /\ k \in Nat
  BY <1>2 DEF Stage
<1>5. k >= 1 => Ordered(k)' = Ordered(k)
  BY <1>0, <1>2, OrderedStays
<1>6. /\ \A i \in 1 .. Len(rsps') : i \in 1 .. Len(rsps) /\ rsps'[i] = rsps[i]
      /\ \A i \in 1 .. Len(reqs') : i \in 1 .. Len(reqs) /\ reqs'[i] = reqs[i]
      /\ rsps' \in Seq(Response) /\ reqs' \in Seq(Request)
  <2>1. CASE Break
    <3>1. PICK p \in 0 .. Len(reqs) : reqs' = SubSeq(reqs, 1, p)
      BY <2>1 DEF Break, ConnectionLost
    <3>2. PICK q \in 0 .. Len(rsps) : rsps' = SubSeq(rsps, 1, q)
      BY <2>1 DEF Break, ConnectionLost
    <3>3. reqs' \in Seq(Request) /\ \A j \in 1 .. Len(reqs') : j \in 1 .. Len(reqs) /\ reqs'[j] = reqs[j]
      BY <1>2, <3>1, Prefix
    <3>4. rsps' \in Seq(Response) /\ \A j \in 1 .. Len(rsps') : j \in 1 .. Len(rsps) /\ rsps'[j] = rsps[j]
      BY <1>2, <3>2, Prefix
    <3> QED BY <3>3, <3>4
  <2>2. CASE ~Break
    <3>1. rsps' \in {rsps, <<>>} /\ reqs' \in {reqs, <<>>}
      BY <2>2 DEF Fail, OrderExit, Disconnect, NoRequest, ModbusNoConnection, StartExit,
                  RobotDisconnect, PlcNoRequest, vars, linkVars
    <3>2. rsps' \in Seq(Response) /\ \A i \in 1 .. Len(rsps') : i \in 1 .. Len(rsps) /\ rsps'[i] = rsps[i]
      <4>1. CASE rsps' = rsps
        BY <1>2, <4>1
      <4>2. CASE rsps' = <<>>
        BY <4>2
      <4> QED BY <3>1, <4>1, <4>2
    <3>3. reqs' \in Seq(Request) /\ \A i \in 1 .. Len(reqs') : i \in 1 .. Len(reqs) /\ reqs'[i] = reqs[i]
      <4>1. CASE reqs' = reqs
        BY <1>2, <4>1
      <4>2. CASE reqs' = <<>>
        BY <4>2
      <4> QED BY <3>1, <4>1, <4>2
    <3> QED BY <3>2, <3>3
  <2> QED BY <2>1, <2>2
<1>7. /\ PlcAt(k, n)' /\ RobotInAt(k, n)' /\ RobotAt(k, n)' /\ Seen(k)' = Seen(k)
      /\ \A r : Fits(r, k, n) => Fits(r, k, n)'
  <2>1. \A i \in 1 .. Len(rsps') : \E j \in 1 .. Len(rsps) : rsps'[i] = rsps[j]
    BY <1>6
  <2> QED BY <1>1, <1>4, <1>5, <2>1, StageFrame DEF Stage
<1>8. Len(reqs') <= 1 /\ (reqs' # <<>> => Fits(reqs[1], k, n)')
  <2>1. Len(reqs') <= Len(reqs) /\ (reqs' # <<>> => 1 \in 1 .. Len(reqs') /\ reqs # <<>>)
    <3>1. Len(reqs') = 0 \/ Len(reqs') \in 1 .. Len(reqs')
      BY <1>6
    <3> QED BY <1>2, <1>6, <3>1
  <2>2. ASSUME reqs' # <<>> PROVE Fits(reqs[1], k, n)'
    <3>1. PICK r : r = reqs'[1] /\ Fits(r, k, n)
      BY <1>4, <1>6, <2>1, <2>2 DEF Stage
    <3> QED BY <1>7, <3>1
  <2> QED BY <1>2, <1>4, <1>6, <2>1, <2>2 DEF Stage
<1>9. Link(k, n)'
  <2>1. CASE Fail
    <3>1. ~connected' /\ rsps' = rsps /\ rsps = <<>>
      BY <1>4, <2>1 DEF Fail, ModbusNoConnection, linkVars, Stage, Link
    <3> QED BY <3>1 DEF Link
  <2>2. CASE Disconnect
    BY <2>2 DEF Disconnect, RobotDisconnect, Link
  <2>3. CASE OrderExit
    <3>1. /\ fn = "idle" /\ fn' = "exit" /\ pending = NoTid
          /\ UNCHANGED <<reqs, rsps, connected, pending>>
      BY <2>3 DEF OrderExit, StartExit, linkVars, TypeInv, StepOK, Running
    <3> QED BY <1>3, <1>4, <1>7, <3>1 DEF Stage, Link, StageBefore
  <2>4. CASE NoRequest \/ UNCHANGED vars
    <3>1. UNCHANGED <<reqs, rsps, connected, pending, fn, step, issued>>
      BY <2>4 DEF NoRequest, PlcNoRequest, vars, linkVars, driverVars
    <3>2. StageBefore' = StageBefore /\ StageAfter' = StageAfter /\ Script' = Script
      BY <3>1 DEF StageBefore, StageAfter, Script, calls
    <3> QED BY <1>3, <1>4, <1>7, <3>1, <3>2 DEF Stage, Link
  <2>5. CASE Break
    <3>1. connected /\ connected' = FALSE /\ UNCHANGED <<pending, fn, step, issued>>
      BY <2>5 DEF Break, ConnectionLost, driverVars
    <3>2. StageBefore' = StageBefore /\ StageAfter' = StageAfter /\ Script' = Script
      BY <3>1 DEF StageBefore, StageAfter, Script, calls
    <3>3. ASSUME rsps' # <<>>
          PROVE  /\ rsps # <<>> /\ Len(rsps') \in Nat /\ Len(rsps) \in Nat
                 /\ 1 \in 1 .. Len(rsps') /\ rsps'[1] = rsps[1]
                 /\ Len(rsps) = 1 => Len(rsps') = 1
      <4>1. 1 \in 1 .. Len(rsps') /\ Len(rsps') \in 1 .. Len(rsps')
        BY <1>6, <3>3
      <4> QED BY <1>2, <1>6, <4>1
    <3>4. reqs = <<>> => reqs' = <<>>
      BY <1>2, <1>6
    <3> QED BY <1>3, <1>4, <1>7, <3>1, <3>2, <3>3, <3>4 DEF Stage, Link
  <2> QED BY <2>1, <2>2, <2>3, <2>4, <2>5
<1> QED BY <1>3, <1>4, <1>7, <1>8, <1>9 DEF Stage

\* An order starts the next call at its first stage: the application has waited
\* until the signal of the last one is gone.  Without a connection nothing of
\* the new call will ever be sent.
LEMMA OrderStage ==
  ASSUME TypeInv, Paced, NEW k \in 0 .. calls, NEW n \in 0 .. 6, Stage(k, n), OrderMove
  PROVE  \E l \in 0 .. calls', m \in 0 .. 6 :
           Stage(l, m)' /\ (l = k \/ (l = k + 1 /\ LastCall = k))
<1>0. [Next]_vars
  BY DEF Next
<1>1. /\ UNCHANGED <<d, ready, robotIn, label, nW, performed, robotOut, reqs, rsps, connected>>
      /\ UNCHANGED <<step, pending>>
      /\ fn = "idle" /\ fn' = "robot_sendMove" /\ step = 1 /\ pending = NoTid
      /\ ready.val # CMD_READY
  BY DEF OrderMove, StartSendMove, linkVars, plcVars, robotVars, TypeInv, StepOK, Running
<1>2. calls \in Nat /\ LastCall \in Nat /\ calls' = calls + 1
  <2>1. PICK e : issued' = Append(issued, e)
    BY DEF OrderMove, StartSendMove
  <2>2. issued \in Seq(Issue)
    BY DEF TypeInv, TypeOK, DriverTypeOK, Issue
  <2> QED BY <2>1, <2>2, StageTypes DEF calls
<1>3. CASE connected \/ rsps # <<>>
  <2>1. k = calls /\ n = 6 /\ Seen(k) /\ reqs = <<>> /\ rsps = <<>>
    BY <1>1, <1>3 DEF Stage, Link, StageBefore
  <2>2. LastCall = k /\ label \notin Busy /\ robotOut.val # CMD_READY
    BY <1>1, <2>1 DEF Seen
  <2>3. /\ LastCall' = LastCall /\ label \notin Reading /\ label \notin ParamLabels
        /\ label \notin {"moveReady", "waitforpc", "clearReady"}
    BY <1>1, <2>2 DEF LastCall, Busy, Reading
  <2>l. PICK l \in Nat : l = calls + 1
    BY <1>2
  <2>4. l \in 0 .. calls' /\ l = calls' /\ l >= 1 /\ k < l /\ k \in Nat
        /\ k <= l /\ \A i \in Nat : i <= k => i <= l
    BY <1>2, <2>1, <2>l
  <2>5. d[ADDR_CMD_1].by \in Nat /\ robotIn[ADDR_CMD_1].by \in Nat
    BY StageTypes
  <2>6. PlcAt(l, 0)'
    BY <1>1, <2>1, <2>4, <2>5 DEF Stage, PlcAt
  <2>7. RobotInAt(l, 0)'
    BY <1>1, <2>1, <2>4, <2>5 DEF Stage, RobotInAt
  <2>8. RobotAt(l, 0)'
    BY <1>1, <2>1, <2>2, <2>3, <2>4 DEF RobotAt, ParamLabels
  <2>9. Link(l, 0)'
    BY <1>1, <2>1, <2>4 DEF Link, StageBefore
  <2>10. Stage(l, 0)'
    BY <1>1, <2>1, <2>4, <2>6, <2>7, <2>8, <2>9 DEF Stage
  <2> QED BY <2>1, <2>2, <2>l, <2>4, <2>10
<1>4. CASE ~(connected \/ rsps # <<>>)
  <2>1. Stage(k, n) /\ (n < 6 => k >= 1) /\ k \in Nat /\ k \in 0 .. calls'
    BY <1>2 DEF Stage
  <2>2. k >= 1 => Ordered(k)' = Ordered(k)
    BY <1>0, <1>2, OrderedStays
  <2>3. \A i \in 1 .. Len(rsps') : \E j \in 1 .. Len(rsps) : rsps'[i] = rsps[j]
    BY <1>1
  <2>4. /\ PlcAt(k, n)' /\ RobotInAt(k, n)' /\ RobotAt(k, n)'
        /\ \A r : Fits(r, k, n) => Fits(r, k, n)'
    BY <1>1, <2>1, <2>2, <2>3, StageFrame DEF Stage
  <2>5. reqs' # <<>> => Fits(reqs[1], k, n)'
    <3>1. PICK r : r = reqs[1]
      OBVIOUS
    <3> QED BY <1>1, <2>1, <2>4, <3>1 DEF Stage
  <2>6. Link(k, n)'
    BY <1>1, <1>4 DEF Link
  <2>7. Stage(k, n)'
    BY <1>1, <2>1, <2>4, <2>5, <2>6 DEF Stage
  <2> QED BY <2>1, <2>7
<1> QED BY <1>3, <1>4

\* A step that leaves the driver, the connection and the registers as they are
\* keeps the stage, if it keeps what the robot holds and has done.
LEMMA SeenFrame ==
  ASSUME NEW k \in Nat, NEW n \in 0 .. 6, Stage(k, n),
         UNCHANGED <<fn, step, pending, issued, reqs, rsps, connected, d>>,
         Seen(k) => Seen(k)', RobotInAt(k, n)', RobotAt(k, n)'
  PROVE  Stage(k, n)'
<1>1. /\ calls' = calls /\ StageBefore' = StageBefore /\ StageAfter' = StageAfter
      /\ Script' = Script /\ Ordered(k)' = Ordered(k)
  BY DEF calls, StageBefore, StageAfter, Script, Ordered, JobOf
<1>2. PlcAt(k, n)'
  BY <1>1 DEF Stage, PlcAt, Params
<1>3. Link(k, n)'
  BY <1>1 DEF Stage, Link
<1>4. reqs # <<>> => Fits(reqs[1], k, n)'
  BY <1>1 DEF Stage, Fits, Clears1, Clears2
<1> QED BY <1>2, <1>3, <1>4 DEF Stage

\* The PLC copies a word to the robot, or the signal to the PC.
LEMMA CopyStage ==
  ASSUME TypeInv, LastCall <= robotIn[ADDR_CMD_1].by,
         NEW k \in 0 .. calls, NEW n \in 0 .. 6, Stage(k, n), CopyWord
  PROVE  Stage(k, n)' /\ k \in 0 .. calls'
<1>1. /\ UNCHANGED <<fn, step, pending, issued, reqs, rsps, connected, d>>
      /\ UNCHANGED <<label, nW, performed, robotOut>>
      /\ ready' = ready \/ ready' = robotOut
  BY DEF CopyWord, PlcCopyWord, driverVars, robotVars
<1>2. \A a \in CommandAddrs : robotIn'[a] = robotIn[a] \/ robotIn'[a] = d[a]
  BY StageTypes DEF CopyWord, PlcCopyWord
<1>3. /\ calls' = calls /\ LastCall' = LastCall /\ Ordered(k)' = Ordered(k) /\ k \in Nat
  BY <1>1, StageTypes DEF calls, LastCall, Ordered, JobOf
<1>4. PlcAt(k, n) /\ RobotInAt(k, n) /\ RobotAt(k, n)
  BY DEF Stage
<1>5. RobotInAt(k, n)'
  BY <1>2, <1>3, <1>4, Addresses DEF RobotInAt, PlcAt, Params
<1>6. Seen(k) => Seen(k)'
  <2> SUFFICES ASSUME Seen(k) PROVE Seen(k)'
    OBVIOUS
  <2>1. ASSUME robotIn[ADDR_CMD_1].val # CMD_ALLOW_MOVE_1
        PROVE  d[ADDR_CMD_1].val # CMD_ALLOW_MOVE_1
    <3>1. robotIn[ADDR_CMD_1].by \in Nat /\ robotIn[ADDR_CMD_1].by <= k /\ LastCall = k
      BY <1>4, StageTypes DEF RobotInAt, Seen
    <3>2. robotIn[ADDR_CMD_1].by = k
      BY <1>3, <3>1
    <3>3. n \notin 1 .. 3
      BY <1>4, <2>1, <3>2 DEF RobotInAt
    <3>4. n \in {0, 4, 5, 6}
      BY <3>3
    <3> QED BY <1>4, <3>4 DEF PlcAt
  <2>2. robotIn[ADDR_CMD_1].val # CMD_ALLOW_MOVE_1 => robotIn'[ADDR_CMD_1].val # CMD_ALLOW_MOVE_1
    BY <1>2, <2>1, Addresses
  <2> QED BY <1>1, <1>3, <2>2 DEF Seen
<1>7. RobotAt(k, n)'
  <2>1. ready'.val = CMD_READY => Seen(k)'
    <3>1. CASE ready' = ready
      BY <1>4, <1>6, <3>1 DEF RobotAt
    <3>2. CASE ready' = robotOut /\ robotOut.val = CMD_READY
      <4>1. LastCall = k
        BY <1>3, <1>4, <3>2, StageTypes DEF RobotAt
      <4> QED BY <1>1, <1>3, <3>2, <4>1 DEF Seen
    <3> QED BY <1>1, <3>1, <3>2
  <2> QED BY <1>1, <1>3, <1>4, <1>6, <2>1 DEF RobotAt
<1> QED BY <1>1, <1>3, <1>5, <1>6, <1>7, SeenFrame

\* A queue that holds at most one thing.
LEMMA OnlyOne ==
  ASSUME NEW S, NEW s \in Seq(S), s # <<>>
  PROVE  /\ Head(s) = s[1] /\ s[1] \in S /\ 1 \in 1 .. Len(s)
         /\ Len(s) <= 1 => Len(s) = 1 /\ Tail(s) = <<>>
<1>1. Len(s) \in Nat /\ Len(s) > 0
  OBVIOUS
<1>2. Head(s) = s[1] /\ s[1] \in S /\ 1 \in 1 .. Len(s)
  BY <1>1
<1>3. ASSUME Len(s) <= 1 PROVE Len(s) = 1 /\ Tail(s) = <<>>
  <2>1. \A l \in Nat : l > 0 /\ l <= 1 => l = 1
    OBVIOUS
  <2>2. Len(s) = 1
    BY <1>1, <1>3, <2>1, Zenon
  <2>3. Len(Tail(s)) = 0 /\ Tail(s) \in Seq(S)
    BY <2>2
  <2> QED BY <2>2, <2>3, EmptySeq
<1> QED BY <1>2, <1>3

\* The request under way takes the call to its next stage when it is stored; a
\* poll leaves it where it is.
Served(n) == IF n = 3 /\ reqs[1].addr = ADDR_READY THEN 3 ELSE IF n = 6 THEN 6 ELSE n + 1

\* What is stored at each stage.  The robot holds, at the start of a scan, what
\* the PLC holds.
LEMMA ServePlc ==
  ASSUME TypeInv, ScanInv, Shapes, CommandOrder,
         NEW k \in 0 .. calls, NEW n \in 0 .. 6, Stage(k, n), Serve,
         NEW m \in 0 .. 6, m = Served(n)
  PROVE  PlcAt(k, m)' /\ RobotInAt(k, m)'
<1> DEFINE r == reqs[1]
<1>1. /\ scan = 0 /\ reqs # <<>> /\ d' = Store(r) /\ robotIn' = robotIn
      /\ UNCHANGED <<issued, label, performed, robotOut, ready>>
  BY DEF Serve, PlcServe, driverVars, robotVars
<1>2. Head(reqs) = r /\ 1 \in 1 .. Len(reqs) /\ r \in Request
  BY <1>1, StageTypes
<1>3. Shape(r) /\ r.op \in Op /\ Fits(r, k, n) /\ PlcAt(k, n) /\ RobotInAt(k, n)
  BY <1>1, <1>2 DEF Shapes, Request, Stage
<1>4. d' = Store(r)
  BY <1>1, <1>2
<1>5. calls' = calls /\ Ordered(k)' = Ordered(k) /\ k \in Nat
  BY <1>1, StageTypes DEF calls, Ordered, JobOf
<1>6. \A a \in CommandAddrs : robotIn[a] = d[a]
  BY <1>1 DEF ScanInv
<1>7. m = IF n = 3 /\ r.addr = ADDR_READY THEN 3 ELSE IF n = 6 THEN 6 ELSE n + 1
  BY DEF Served
<1> HIDE DEF r
<1>8. \A a \in CommandAddrs :
        /\ r.op = "write_register" => d'[a] = IF a = r.addr THEN r.words[1] ELSE d[a]
        /\ r.op = "write_registers" =>
             d'[a] = CASE a = ADDR_MOVESOURCE -> r.words[1]
                       [] a = ADDR_MOVEDEST -> r.words[2]
                       [] a = ADDR_MOVETYPE -> r.words[3]
                       [] OTHER -> d[a]
        /\ r.op = "read_registers" => d'[a] = d[a]
  BY <1>2, <1>3, <1>4, StoreWords
<1>9. /\ r.addr \in {ADDR_CMD_1, ADDR_CMD_2} => r.op = "write_register"
      /\ r.addr = ADDR_READY => r.op = "read_registers"
  BY <1>3, Addresses DEF Op, Shape
<1>10. PlcAt(k, m)'
  <2>1. CASE n = 0
    BY <1>3, <1>5, <1>7, <1>8, <1>9, <2>1, Addresses DEF PlcAt, Params, Fits
  <2>2. CASE n = 1
    BY <1>3, <1>5, <1>7, <1>8, <1>9, <2>2, Addresses DEF PlcAt, Params, Fits
  <2>3. CASE n = 2
    BY <1>3, <1>5, <1>7, <1>8, <1>9, <2>3, Addresses DEF PlcAt, Params, Fits
  <2>4. CASE n = 3
    BY <1>3, <1>5, <1>7, <1>8, <1>9, <2>4, Addresses DEF PlcAt, Params, Fits, Clears1
  <2>5. CASE n = 4
    BY <1>3, <1>5, <1>7, <1>8, <1>9, <2>5, Addresses DEF PlcAt, Params, Fits, Clears2
  <2>6. CASE n = 5
    BY <1>3, <1>5, <1>7, <1>8, <1>9, <2>6, Addresses DEF PlcAt, Params, Fits, Clears1
  <2>7. CASE n = 6
    <3>1. r.op = "write_register" /\ m = 6
      BY <1>3, <1>7, <2>7 DEF Fits
    <3>2. CASE r.addr = ADDR_CMD_1
      BY <1>3, <1>5, <1>8, <2>7, <3>1, <3>2, Addresses DEF PlcAt, Params, Fits, Clears1
    <3>3. CASE r.addr = ADDR_CMD_2
      BY <1>3, <1>5, <1>8, <2>7, <3>1, <3>3, Addresses DEF PlcAt, Params, Fits, Clears2
    <3>4. CASE r.addr \notin {ADDR_CMD_1, ADDR_CMD_2}
      <4>1. r.addr \in ParamAddrs => k = 0
        BY <1>3, <2>7 DEF Fits
      <4>2. k >= 1 => Params(d', k)
        BY <1>3, <1>5, <1>8, <2>7, <3>1, <4>1, Addresses DEF PlcAt, Params, ParamAddrs
      <4> QED BY <1>3, <1>5, <1>8, <2>7, <3>1, <3>4, <4>2, Addresses DEF PlcAt, Params
    <3> QED BY <3>2, <3>3, <3>4
  <2> QED BY <2>1, <2>2, <2>3, <2>4, <2>5, <2>6, <2>7
<1>11. RobotInAt(k, m)'
  <2>1. ADDR_CMD_1 \in CommandAddrs /\ ADDR_CMD_2 \in CommandAddrs /\ ADDR_MOVESOURCE \in CommandAddrs
        /\ ADDR_MOVEDEST \in CommandAddrs /\ ADDR_MOVETYPE \in CommandAddrs
    BY Addresses
  <2>2. robotIn' = robotIn
    BY <1>1
  <2>3. CASE n = 0
    <3>1. r.addr = ADDR_CMD_1 /\ r.words[1].by = k /\ r.words[1].val = CMD_ALLOW_MOVE_1
      BY <1>3, <2>3 DEF Fits
    <3>2. 1 \in Cmd1Writes /\ Cmd1Word(1) = r.words[1]
      BY <1>2, <3>1 DEF Cmd1Writes, Cmd1Word, r
    <3>3. robotIn[ADDR_CMD_1].by < k
      BY <3>1, <3>2 DEF CommandOrder, Follows
    <3>4. robotIn[ADDR_CMD_1].by # k
      BY <1>5, <3>3, StageTypes
    <3> QED BY <1>3, <1>5, <1>7, <2>1, <2>2, <2>3, <3>1, <3>4, Addresses DEF RobotInAt
  <2>4. CASE n # 0
    BY <1>3, <1>5, <1>6, <1>7, <2>1, <2>2, <2>4, Commands DEF RobotInAt, PlcAt, Params
  <2> QED BY <2>3, <2>4
<1> QED BY <1>10, <1>11

\* The robot's program and the answers, when a request has been stored.
LEMMA ServeStage ==
  ASSUME TypeInv, ScanInv, Shapes, CommandOrder,
         NEW k \in 0 .. calls, NEW n \in 0 .. 6, Stage(k, n), Serve
  PROVE  \E m \in 0 .. 6 : Stage(k, m)' /\ k \in 0 .. calls'
<1> DEFINE r == reqs[1]
<1>1. /\ reqs # <<>> /\ reqs' = Tail(reqs)
      /\ UNCHANGED <<fn, step, pending, issued, connected, robotIn>>
      /\ UNCHANGED <<label, nW, performed, robotOut, ready>>
  BY DEF Serve, PlcServe, driverVars, robotVars
<1>2. /\ Head(reqs) = r /\ 1 \in 1 .. Len(reqs) /\ r \in Request /\ reqs' = <<>>
      /\ rsps \in Seq(Response)
  <2>1. reqs \in Seq(Request) /\ rsps \in Seq(Response) /\ Len(reqs) <= 1
    BY StageTypes DEF Stage
  <2> QED BY <1>1, <2>1, OnlyOne
<1>3. Shape(r) /\ r.op \in Op /\ Fits(r, k, n) /\ RobotAt(k, n) /\ Link(k, n) /\ (n < 6 => k >= 1)
  BY <1>1, <1>2 DEF Shapes, Request, Stage
<1>4. /\ rsps' = IF connected
                   THEN Append(rsps, [tid |-> r.tid, op |-> r.op, ok |-> TRUE,
                                      word |-> IF r.op = "read_registers" THEN ready ELSE Zero])
                   ELSE rsps
  BY <1>2 DEF Serve, PlcServe, Answer
<1>5. PICK m \in 0 .. 6 : m = Served(n)
  BY DEF Served
<1>6. m = IF n = 3 /\ r.addr = ADDR_READY THEN 3 ELSE IF n = 6 THEN 6 ELSE n + 1
  BY <1>5 DEF Served
<1>7. rsps = <<>>
  BY <1>1 DEF Stage, Link
<1>8. PlcAt(k, m)' /\ RobotInAt(k, m)'
  BY <1>5, ServePlc
<1>9. /\ calls' = calls /\ LastCall' = LastCall /\ Ordered(k)' = Ordered(k) /\ k \in Nat
      /\ Seen(k)' = Seen(k) /\ LastCall \in Nat
      /\ StageBefore' = StageBefore /\ StageAfter' = StageAfter /\ Script' = Script
  BY <1>1, StageTypes
     DEF calls, LastCall, Ordered, JobOf, Seen, StageBefore, StageAfter, Script
<1> HIDE DEF r
<1>10. PICK w : /\ w.val = CMD_READY => Seen(k)
                /\ connected => /\ rsps' = <<[tid |-> r.tid, op |-> r.op, ok |-> TRUE, word |-> w]>>
                /\ ~connected => rsps' = <<>>
  <2> DEFINE w == IF r.op = "read_registers" THEN ready ELSE Zero
  <2>1. w.val = CMD_READY => Seen(k)
    <3>1. ready.val = CMD_READY => Seen(k)
      BY <1>3, <1>9 DEF RobotAt, Seen
    <3>2. Zero.val # CMD_READY
      BY ZeroWord, Commands
    <3> QED BY <3>1, <3>2
  <2>2. ~connected => rsps' = <<>>
    BY <1>4, <1>7
  <2>3. connected => rsps' = Append(<<>>, [tid |-> r.tid, op |-> r.op, ok |-> TRUE, word |-> w])
    BY <1>4, <1>7
  <2> HIDE DEF w
  <2> QED BY <2>1, <2>2, <2>3
<1>11. RobotAt(k, m)'
  <2>1. \A i \in 1 .. Len(rsps') : rsps'[i].word.val = CMD_READY => Seen(k)
    BY <1>10
  <2>2. m >= 4 => Seen(k)
    <3>1. CASE n >= 4
      BY <1>3, <3>1 DEF RobotAt
    <3>2. CASE n < 4 /\ m >= 4
      BY <1>3, <1>6, <3>2 DEF Fits
    <3> QED BY <3>1, <3>2
  <2>3. n <= m /\ m # 0 /\ (n = 6 => m = 6)
    BY <1>6
  <2>4. /\ label \in Reading => m >= 1
        /\ label \in ParamLabels => m >= 3
        /\ label = "clearReady" => m = 6
    BY <1>3, <2>3 DEF RobotAt
  <2> QED BY <1>1, <1>3, <1>9, <2>1, <2>2, <2>3, <2>4 DEF RobotAt
<1>12. Link(k, m)'
  <2>1. CASE ~connected
    BY <1>1, <1>10, <2>1 DEF Link
  <2>2. CASE connected
    <3>1. /\ k = calls /\ pending # NoTid /\ n = StageBefore /\ r.tid = pending
          /\ r.op = Script[step].op
          /\ fn # "robot_sendMove" \/ step >= 5 => Seen(k)
          /\ fn = "robot_connect" => k = 0
      BY <1>1, <1>3, <1>7, <2>2 DEF Link, r
    <3>2. m = StageAfter
      <4>1. CASE fn # "robot_sendMove"
        BY <1>6, <3>1, <4>1 DEF StageBefore, StageAfter
      <4>2. CASE fn = "robot_sendMove"
        <5>1. fn \in Running /\ step \in 1 .. 7
          BY <4>2 DEF TypeInv, StepOK, Running
        <5>2. n = IF step <= 4 THEN step - 1 ELSE step - 2
          BY <3>1, <4>2 DEF StageBefore
        <5>3. step = 4 => r.addr = ADDR_READY
          <6>1. step = 4 => Script[step] = ReadReady
            BY <4>2, <5>1, ScriptAt
          <6> QED BY <1>3, <3>1, <6>1 DEF ReadReady, Shape
        <5>4. step = 5 => r.addr # ADDR_READY
          <6>1. step = 5 => Script[step] = WriteRegister(ADDR_CMD_1, 0)
            BY <4>2, <5>1, ScriptAt
          <6> QED BY <1>3, <3>1, <6>1, Addresses DEF WriteRegister, Shape
        <5>5. StageAfter = IF step <= 3 THEN step ELSE step - 1
          BY <4>2 DEF StageAfter
        <5> QED BY <1>6, <5>1, <5>2, <5>3, <5>4, <5>5
      <4> QED BY <4>1, <4>2
    <3>3. /\ Len(rsps') = 1 /\ rsps'[1].tid = r.tid /\ rsps'[1].op = r.op /\ rsps'[1].ok
      BY <1>10, <2>2
    <3> QED BY <1>1, <1>2, <1>9, <3>1, <3>2, <3>3 DEF Link
  <2> QED BY <2>1, <2>2
<1>13. m < 6 => k >= 1
  BY <1>3, <1>6
<1>14. Stage(k, m)'
  BY <1>2, <1>8, <1>11, <1>12, <1>13 DEF Stage
<1> QED BY <1>9, <1>14

\* The robot reads the words of the call that is at the stage it has reached: the
\* second command word sends it on only when the parameters of that call are in
\* its input words.
LEMMA ReadsStage ==
  ASSUME TypeInv, LastCall <= robotIn[ADDR_CMD_1].by,
         NEW k \in 0 .. calls, NEW n \in 0 .. 6, Stage(k, n), RobotReads
  PROVE  Stage(k, n)' /\ k \in 0 .. calls'
<1>1. /\ UNCHANGED <<fn, step, pending, issued, reqs, rsps, connected, d>>
      /\ UNCHANGED <<ready, robotIn, robotOut, performed>>
  BY DEF RobotReads, Robot, RobotMain, RobotReadCmd1, RobotReadSecond, RobotReadType,
         RobotReadSource, RobotReadDest, Goto, driverVars, plcVars
<1>2. /\ calls' = calls /\ LastCall' = LastCall /\ Ordered(k)' = Ordered(k) /\ k \in Nat
      /\ LastCall \in Nat /\ robotIn[ADDR_CMD_1].by \in Nat
      /\ nW \in [cmd1 : Word, type : Word, source : Word, dest : Word]
  BY <1>1, StageTypes DEF calls, LastCall, Ordered, JobOf
<1>3. RobotInAt(k, n) /\ RobotAt(k, n) /\ (n < 6 => k >= 1)
  BY DEF Stage
<1>4. label' \notin {"moveReady", "waitforpc", "clearReady"}
  BY DEF RobotReads, Robot, RobotMain, RobotReadCmd1, RobotReadSecond, RobotReadType,
         RobotReadSource, RobotReadDest, Goto, AfterParams
<1>5. Seen(k) => Seen(k)'
  <2>1. \/ label' \notin Busy
        \/ label \in Busy
        \/ robotIn[ADDR_CMD_1].val = CMD_ALLOW_MOVE_1
    BY DEF RobotReads, Robot, RobotMain, RobotReadCmd1, RobotReadSecond, RobotReadType,
           RobotReadSource, RobotReadDest, Goto, Busy, Reading, ParamLabels
  <2> QED BY <1>1, <1>2, <2>1 DEF Seen
<1>6. RobotInAt(k, n)'
  BY <1>1, <1>2, <1>3 DEF RobotInAt, Params
<1>7. /\ LastCall <= k /\ (n = 0 => LastCall < k)
      /\ LastCall < k => robotOut.val # CMD_READY
      /\ ready.val = CMD_READY => Seen(k)
      /\ \A i \in 1 .. Len(rsps) : rsps[i].word.val = CMD_READY => Seen(k)
      /\ n >= 4 => Seen(k)
  BY <1>3 DEF RobotAt
<1> DEFINE Past == /\ label' \in Reading => k >= 1 /\ n >= 1 /\ nW'.cmd1.by = k
                   /\ label' \in ParamLabels => n >= 3
                   /\ label' \in ParamLabels \ {"type"} => nW'.type.val = Ordered(k).type
                   /\ label' \in ParamLabels \ {"type", "source"} =>
                        nW'.source.val = Ordered(k).source
                   /\ label' \in {"startHitMove", "startNormalMove"} =>
                        nW'.dest.val = Ordered(k).dest
<1>8. Past
  <2>1. CASE RobotMain
    BY <2>1 DEF RobotMain, Goto, Reading, ParamLabels
  <2>2. CASE RobotReadCmd1
    <3>1. label = "cmd1" /\ nW'.cmd1 = robotIn[ADDR_CMD_1]
          /\ \/ label' = "main"
             \/ label' = "readsecond" /\ robotIn[ADDR_CMD_1].val = CMD_ALLOW_MOVE_1
      BY <1>2, <2>2 DEF RobotReadCmd1, Goto
    <3>2. CASE label' = "main"
      BY <3>2 DEF Reading, ParamLabels
    <3>3. CASE label' = "readsecond"
      <4>1. n \in 1 .. 4 /\ k >= 1
        BY <1>3, <3>1, <3>3 DEF RobotInAt
      <4>2. robotIn[ADDR_CMD_1].by = k
        <5>1. CASE n \in 1 .. 3
          BY <1>3, <3>1, <3>3, <5>1 DEF RobotInAt
        <5>2. CASE n = 4
          <6>1. LastCall = k /\ robotIn[ADDR_CMD_1].by <= k
            BY <1>3, <1>7, <5>2 DEF RobotInAt, Seen
          <6> QED BY <1>2, <6>1
        <5> QED BY <4>1, <5>1, <5>2
      <4> QED BY <3>1, <3>3, <4>1, <4>2 DEF ParamLabels
    <3> QED BY <3>1, <3>2, <3>3
  <2>3. CASE RobotReadSecond
    <3>1. /\ label = "readsecond" /\ nW' = nW
          /\ \/ label' = "main"
             \/ label' = "type" /\ robotIn[ADDR_CMD_2].val = CMD_ALLOW_MOVE_2
      BY <2>3 DEF RobotReadSecond, Goto
    <3>2. k >= 1 /\ n >= 1 /\ nW.cmd1.by = k
      BY <1>3, <3>1 DEF RobotAt, Reading
    <3>3. label' = "type" => n >= 3
      BY <1>3, <3>1, <3>2 DEF RobotInAt
    <3> QED BY <3>1, <3>2, <3>3 DEF Reading, ParamLabels
  <2>4. CASE RobotReadType \/ RobotReadSource \/ RobotReadDest
    <3>1. label \in {"type", "source", "dest"} /\ nW'.cmd1 = nW.cmd1
      BY <1>2, <2>4 DEF RobotReadType, RobotReadSource, RobotReadDest
    <3>2. k >= 1 /\ n >= 3 /\ nW.cmd1.by = k
      BY <1>3, <3>1 DEF RobotAt, Reading, ParamLabels
    <3>3. Params(robotIn, k)
      BY <1>3, <3>2 DEF RobotInAt
    <3>4. CASE RobotReadType
      BY <1>2, <3>2, <3>3, <3>4 DEF RobotReadType, Goto, Params, Reading, ParamLabels
    <3>5. CASE RobotReadSource
      <4>1. nW.type.val = Ordered(k).type
        BY <1>3, <3>5 DEF RobotReadSource, RobotAt, ParamLabels
      <4> QED BY <1>2, <3>2, <3>3, <3>5, <4>1 DEF RobotReadSource, Goto, Params, Reading, ParamLabels
    <3>6. CASE RobotReadDest
      <4>1. nW.type.val = Ordered(k).type /\ nW.source.val = Ordered(k).source
        BY <1>3, <3>6 DEF RobotReadDest, RobotAt, ParamLabels
      <4>2. nW'.dest = robotIn[ADDR_MOVEDEST] /\ nW'.type = nW.type /\ nW'.source = nW.source
        BY <1>2, <3>6 DEF RobotReadDest
      <4>3. nW'.dest.val = Ordered(k).dest
        BY <3>3, <4>2 DEF Params
      <4> QED BY <3>1, <3>2, <4>1, <4>2, <4>3
    <3> QED BY <2>4, <3>4, <3>5, <3>6
  <2> QED BY <2>1, <2>2, <2>3, <2>4 DEF RobotReads, Robot
<1>9. RobotAt(k, n)'
  BY <1>1, <1>2, <1>4, <1>5, <1>7, <1>8 DEF RobotAt
<1> QED BY <1>1, <1>2, <1>5, <1>6, <1>9, SeenFrame

\* The robot makes the move of the call at hand, signals it, and goes back to
\* *main when the PC has taken the signal back.
LEMMA ActsStage ==
  ASSUME TypeInv, SignalHeld, LastCall <= robotIn[ADDR_CMD_1].by,
         NEW k \in 0 .. calls, NEW n \in 0 .. 6, Stage(k, n), RobotActs
  PROVE  Stage(k, n)' /\ k \in 0 .. calls'
<1>1. /\ UNCHANGED <<fn, step, pending, issued, reqs, rsps, connected, d>>
      /\ UNCHANGED <<ready, robotIn>>
  BY DEF RobotActs, Robot, driverVars, plcVars
<1>2. /\ calls' = calls /\ Ordered(k)' = Ordered(k) /\ k \in Nat
      /\ LastCall \in Nat /\ robotOut \in Word /\ robotIn[ADDR_CMD_1].by \in Nat
  BY <1>1, StageTypes DEF calls, Ordered, JobOf
<1>3. RobotInAt(k, n) /\ RobotAt(k, n)
  BY DEF Stage
<1>4. RobotInAt(k, n)'
  BY <1>1, <1>2, <1>3 DEF RobotInAt, Params
<1>5. CASE RobotStartHitMove \/ RobotOffBoard
  <2>1. LastCall' = LastCall /\ nW' = nW /\ robotOut' = robotOut
    BY <1>5 DEF RobotStartHitMove, RobotOffBoard, Goto, LastCall
  <2>2. \/ label = "startHitMove" /\ label' \in {"startNormalMove", "stopped"}
        \/ label = "startNormalMove" /\ label' = "stopped"
    BY <1>5 DEF RobotStartHitMove, RobotOffBoard, Goto
  <2>3. Seen(k) => Seen(k)'
    BY <1>1, <2>1, <2>2 DEF Seen, Busy, Reading, ParamLabels
  <2>4. RobotAt(k, n)'
    BY <1>1, <1>2, <1>3, <2>1, <2>2, <2>3 DEF RobotAt, Reading, ParamLabels
  <2> QED BY <1>1, <1>2, <1>4, <2>3, <2>4, SeenFrame
<1>6. CASE RobotStartNormalMove
  <2>1. label = "startNormalMove" /\ label' = "moveReady" /\ nW' = nW /\ robotOut' = robotOut
    BY <1>6 DEF RobotStartNormalMove
  <2>2. n >= 3 /\ nW.cmd1.by = k
    BY <1>3, <2>1 DEF RobotAt, Reading, ParamLabels
  <2>3. LastCall' = k
    <3>1. PICK e : performed' = Append(performed, e) /\ e.call = nW.cmd1.by
      BY <1>6 DEF RobotStartNormalMove
    <3>2. performed \in Seq(Execution)
      BY DEF TypeInv, TypeOK, RobotTypeOK
    <3>3. /\ Len(performed') = Len(performed) + 1 /\ Len(performed) \in Nat
          /\ performed'[Len(performed) + 1] = e
      BY <3>1, <3>2
    <3>4. performed' # <<>>
      BY <3>3
    <3> QED BY <2>2, <3>1, <3>3, <3>4 DEF LastCall
  <2>4. Seen(k) => Seen(k)'
    BY <1>1, <2>1, <2>3 DEF Seen, Busy, Reading, ParamLabels
  <2>5. RobotAt(k, n)'
    BY <1>1, <1>2, <1>3, <2>1, <2>2, <2>3, <2>4 DEF RobotAt, Reading, ParamLabels
  <2> QED BY <1>1, <1>2, <1>4, <2>4, <2>5, SeenFrame
<1>7. CASE RobotMoveReady
  <2>1. /\ label = "moveReady" /\ label' = "waitforpc" /\ LastCall' = LastCall /\ nW' = nW
        /\ robotOut'.val = CMD_READY
    BY <1>7 DEF RobotMoveReady, LastCall
  <2>2. LastCall = k
    BY <1>2, <1>3, <2>1 DEF RobotAt
  <2>3. Seen(k) => Seen(k)'
    BY <1>1, <2>1 DEF Seen, Busy
  <2>4. RobotAt(k, n)'
    BY <1>1, <1>2, <1>3, <2>1, <2>2, <2>3 DEF RobotAt, Reading, ParamLabels
  <2> QED BY <1>1, <1>2, <1>4, <2>3, <2>4, SeenFrame
<1>8. CASE RobotWaitForPc
  <2>1. /\ label = "waitforpc" /\ label' = "clearReady" /\ LastCall' = LastCall /\ nW' = nW
        /\ robotOut' = robotOut /\ robotIn[ADDR_CMD_1].val = CMD_CLR_READY
    BY <1>8 DEF RobotWaitForPc, Goto, LastCall
  <2>2. LastCall = k
    BY <1>2, <1>3, <2>1 DEF RobotAt
  <2>3. n = 6
    <3>1. n # 0 /\ n \notin {4, 5}
      BY <1>2, <1>3, <2>1, <2>2 DEF RobotAt, RobotInAt
    <3>2. robotIn[ADDR_CMD_1].by = k
      BY <1>2, <1>3, <2>2 DEF RobotInAt
    <3>3. n \notin 1 .. 3
      BY <1>3, <2>1, <3>2, Commands DEF RobotInAt
    <3> QED BY <3>1, <3>3
  <2>4. Seen(k) => Seen(k)'
    BY <1>1, <2>1 DEF Seen, Busy
  <2>5. RobotAt(k, n)'
    BY <1>1, <1>2, <1>3, <2>1, <2>2, <2>3, <2>4 DEF RobotAt, Reading, ParamLabels
  <2> QED BY <1>1, <1>2, <1>4, <2>4, <2>5, SeenFrame
<1>9. CASE RobotClearReady
  <2>1. label = "clearReady" /\ label' = "main" /\ LastCall' = LastCall /\ nW' = nW
    BY <1>9 DEF RobotClearReady, LastCall
  <2>2. robotOut'.val # CMD_READY
    <3>1. robotOut.val = 1111 /\ robotOut' = [robotOut EXCEPT !.val = @ - (@ % 2)]
      BY <1>9 DEF RobotClearReady, SignalHeld, CMD_READY
    <3>2. robotOut'.val = 1111 - (1111 % 2)
      BY <1>2, <3>1 DEF Word
    <3> QED BY <3>2 DEF CMD_READY
  <2>3. n = 6 /\ Seen(k)
    BY <1>3, <2>1 DEF RobotAt
  <2>4. Seen(k)'
    BY <1>1, <1>3, <2>1, <2>2, <2>3 DEF Seen, RobotInAt, Busy, Reading, ParamLabels
  <2>5. RobotAt(k, n)'
    BY <1>1, <1>2, <1>3, <2>1, <2>2, <2>3, <2>4 DEF RobotAt, Reading, ParamLabels
  <2> QED BY <1>1, <1>2, <1>4, <2>4, <2>5, SeenFrame
<1> QED BY <1>5, <1>6, <1>7, <1>8, <1>9 DEF RobotActs, Robot

\* What has been carried out are calls that were made.
CallsMade == \A i \in 1 .. Len(performed) : performed[i].call \in 1 .. calls

\* What the robot adds to its history is the call at hand as it was ordered.
LEMMA NextPerformed ==
  ASSUME TypeInv, CallsMade, MovesAsOrdered, NEW k \in 0 .. calls, NEW n \in 0 .. 6, Stage(k, n),
         [Next]_vars
  PROVE  MovesAsOrdered'
<1>1. calls \in Nat /\ k \in Nat /\ performed \in Seq(Execution)
  BY StageTypes DEF TypeInv, TypeOK, RobotTypeOK
<1>2. ASSUME NEW i \in 1 .. Len(performed)
      PROVE  performed[i] = JobOf(performed[i].call, issued'[performed[i].call].move)
  <2>1. PICK c \in 1 .. calls : c = performed[i].call
    BY DEF CallsMade
  <2>2. performed[i] = Ordered(c)
    BY <2>1 DEF MovesAsOrdered
  <2>3. Ordered(c)' = Ordered(c)
    BY OrderedStays
  <2>4. Ordered(c)' = JobOf(c, issued'[c].move)
    BY DEF Ordered, JobOf
  <2> QED BY <2>1, <2>2, <2>3, <2>4
<1>3. CASE performed' = performed
  BY <1>2, <1>3 DEF MovesAsOrdered, Ordered
<1>4. CASE RobotActs /\ RobotStartNormalMove
  <2> DEFINE e == [call |-> nW.cmd1.by, source |-> nW.source.val, dest |-> nW.dest.val,
                   type |-> nW.type.val]
  <2>1. /\ label = "startNormalMove" /\ performed' = Append(performed, e) /\ issued' = issued
    BY <1>4 DEF RobotActs, Robot, RobotStartNormalMove, driverVars
  <2>2. /\ nW.cmd1.by = k /\ nW.source.val = Ordered(k).source /\ nW.dest.val = Ordered(k).dest
        /\ nW.type.val = Ordered(k).type
    BY <2>1 DEF Stage, RobotAt, Reading, ParamLabels
  <2>3. e = Ordered(k) /\ e.call = k
    BY <2>2 DEF Ordered, JobOf
  <2> HIDE DEF e
  <2>4. \A i \in 1 .. Len(performed') : \/ performed'[i] = e
                                        \/ i \in 1 .. Len(performed) /\ performed'[i] = performed[i]
    BY <1>1, <2>1
  <2>5. Ordered(k)' = Ordered(k)
    BY <2>1 DEF Ordered, JobOf
  <2> QED BY <1>2, <2>3, <2>4, <2>5 DEF MovesAsOrdered, Ordered, JobOf
<1>5. performed' = performed \/ (RobotActs /\ RobotStartNormalMove)
  <2>1. RobotReads => performed' = performed
    BY DEF RobotReads, Robot, RobotMain, RobotReadCmd1, RobotReadSecond, RobotReadType,
           RobotReadSource, RobotReadDest, Goto
  <2>2. RobotActs => performed' = performed \/ RobotStartNormalMove
    BY DEF RobotActs, Robot, RobotStartHitMove, RobotOffBoard, RobotMoveReady, RobotWaitForPc,
           RobotClearReady, Goto
  <2> QED BY <2>1, <2>2, RobotStep
<1> QED BY <1>3, <1>4, <1>5

\* Before the first call everything is zero.
LEMMA InitHandshake == Init => HandshakeInv
<1> SUFFICES ASSUME Init PROVE HandshakeInv
  OBVIOUS
<1>1. /\ reqs = <<>> /\ rsps = <<>> /\ scan = 0 /\ label = "main" /\ fn = "robot_connect"
      /\ pending = NoTid /\ issued = <<>> /\ performed = <<>> /\ robotOut = Zero /\ ready = Zero
      /\ robotIn = [a \in CommandAddrs |-> Zero] /\ d = [a \in CommandAddrs |-> Zero]
  BY DEF Init, LinkInit, PlcInit, DriverInit, RobotInit
<1>2. ScanInv /\ Shapes
  BY <1>1 DEF ScanInv, Shapes
<1>3. ReadySignal /\ SignalHeld
  BY <1>1, ZeroWord, Commands DEF ReadySignal, SignalHeld
<1>4. MovesAsOrdered
  BY <1>1 DEF MovesAsOrdered
<1>5. calls = 0 /\ LastCall = 0 /\ Seen(0)
  <2>1. calls = 0 /\ LastCall = 0
    BY <1>1 DEF calls, LastCall
  <2>2. label \notin Busy /\ robotOut.val # CMD_READY
    BY <1>1, ZeroWord, Commands DEF Busy, Reading, ParamLabels
  <2>3. robotIn[ADDR_CMD_1].val # CMD_ALLOW_MOVE_1
    BY <1>1, ZeroWord, Addresses, Commands
  <2> QED BY <2>1, <2>2, <2>3 DEF Seen
<1>6. PlcAt(0, 6) /\ RobotInAt(0, 6)
  BY <1>1, ZeroWord, Addresses, Commands DEF PlcAt, RobotInAt
<1>7. RobotAt(0, 6)
  BY <1>1, <1>5, ZeroWord, Commands DEF RobotAt, Reading, ParamLabels
<1>8. Link(0, 6)
  BY <1>1, <1>5 DEF Link, StageBefore
<1>9. Stage(0, 6)
  BY <1>1, <1>6, <1>7, <1>8 DEF Stage
<1> QED BY <1>2, <1>3, <1>4, <1>5, <1>9 DEF HandshakeInv, HandshakeHeld

\* Every step keeps a call at one of its stages.
LEMMA NextHeld ==
  ASSUME Paced, TypeInv, CommandOrder, Clean => CallsMade, LastCall <= robotIn[ADDR_CMD_1].by,
         HandshakeHeld, [Next]_vars
  PROVE  HandshakeHeld'
<1>1. ScanInv' /\ Shapes' /\ SignalHeld'
  BY NextScan, NextShapes, NextSignalHeld DEF HandshakeHeld
<1>2. ASSUME Clean'
      PROVE  MovesAsOrdered' /\ \E k \in 0 .. calls', n \in 0 .. 6 : Stage(k, n)'
  <2>1. Clean /\ ~Timeout /\ ~Reject /\ ~Reboot
    BY <1>2, CleanStep
  <2>2. PICK k \in 0 .. calls, n \in 0 .. 6 : Stage(k, n)
    BY <2>1 DEF HandshakeHeld
  <2>3. MovesAsOrdered'
    BY <2>1, <2>2, NextPerformed DEF HandshakeHeld
  <2>4. CASE Send
    <3>1. calls' = calls
      BY <2>4 DEF Send, ModbusSend, calls
    <3>2. Stage(k, n)'
      BY <2>2, <2>4, SendStage
    <3> QED BY <2>3, <3>1, <3>2
  <2>5. CASE Receive
    BY <2>2, <2>3, <2>5, ReceiveStage
  <2>6. CASE Fail \/ OrderExit \/ Disconnect \/ Break \/ NoRequest \/ UNCHANGED vars
    BY <2>2, <2>3, <2>6, QuietStage
  <2>7. CASE OrderMove
    BY <2>2, <2>3, <2>7, OrderStage
  <2>8. CASE Serve
    BY <2>2, <2>3, <2>8, ServeStage DEF HandshakeHeld
  <2>9. CASE CopyWord
    BY <2>2, <2>3, <2>9, CopyStage
  <2>10. CASE RobotReads
    BY <2>2, <2>3, <2>10, ReadsStage
  <2>11. CASE RobotActs
    BY <2>2, <2>3, <2>11, ActsStage DEF HandshakeHeld
  <2> QED BY <2>1, <2>4, <2>5, <2>6, <2>7, <2>8, <2>9, <2>10, <2>11 DEF Next
<1> QED BY <1>1, <1>2 DEF HandshakeHeld

LEMMA NextHandshake ==
  ASSUME Paced, TypeInv, OnceInv, HandshakeInv, [Next]_vars
  PROVE  HandshakeInv'
<1>1. HandshakeHeld /\ ReadySignal'
  BY NextReadySignal DEF HandshakeInv
<1>2. CommandOrder /\ CallsMade /\ LastCall <= robotIn[ADDR_CMD_1].by
  BY DEF OnceInv, AtMostOnce, CallsMade, RobotOrder
<1> QED BY <1>1, <1>2, NextHeld DEF HandshakeInv

\* For an application that waits for the signal to go before its next move: as
\* long as nothing but the connection has failed, the registers, the robot and
\* the driver are at one stage of one call.
THEOREM HandshakeInvariant == ASSUME Paced PROVE Spec => []HandshakeInv
<1>1. TypeInv /\ OnceInv /\ HandshakeInv /\ [Next]_vars => HandshakeInv'
  BY NextHandshake
<1> QED BY InitType, NextType, InitHandshake, OnceInvariant, <1>1, PTL DEF Spec

\* Then every motion of the robot is a move that was ordered, with the source, the
\* destination and the type of one and the same call, also when the connection
\* breaks at any point.
THEOREM MovesOnlyAsOrdered ==
  ASSUME Paced, FaultKinds \subseteq {"loss"}
  PROVE  Spec => []MovesAsOrdered
<1>1. TypeInv => Clean
  <2> SUFFICES ASSUME TypeInv PROVE Clean
    OBVIOUS
  <2>1. faults \in Seq(FaultKinds)
    BY DEF TypeInv, TypeOK, FaultsOK
  <2>2. \A i \in 1 .. Len(faults) : faults[i] \in FaultKinds
    BY <2>1, ElementOfSeq
  <2>3. DOMAIN faults = 1 .. Len(faults)
    BY <2>1
  <2> QED BY <2>2, <2>3 DEF Clean
<1>2. Clean /\ HandshakeInv => MovesAsOrdered
  BY DEF HandshakeInv, HandshakeHeld
<1> QED BY InitType, NextType, HandshakeInvariant, <1>1, <1>2, PTL DEF Spec

-----------------------------------------------------------------------------
(* robot_sendMove returns true for no other move.                            *)

\* The transaction counter wraps at its end.
LEMMA NextTidValue ==
  ASSUME NEW t \in Tid
  PROVE  NextTid(t) = IF t + 1 = TidCount THEN 0 ELSE t + 1
<1>0. TidCount \in Nat \ {0} /\ t \in 0 .. TidCount - 1
  BY TidAssumption DEF Tid
<1>1. TidCount % TidCount = 0
  BY <1>0
<1>2. \A x \in 0 .. TidCount - 1 : x % TidCount = x
  BY <1>0
<1>3. t + 1 = TidCount \/ t + 1 \in 0 .. TidCount - 1
  BY <1>0
<1> QED BY <1>0, <1>1, <1>2, <1>3 DEF NextTid

\* Transactions counted back from the last: after a new one, each is one further
\* back, and none of the last TidCount is the last one again.
LEMMA BackStep ==
  ASSUME tId \in Tid, NEW n \in Nat, n < TidCount
  PROVE  /\ n + 1 <= TidCount /\ tId' = NextTid(tId) => Back(n + 1)' = Back(n)
         /\ n = 0 => Back(n) = tId
         /\ n # 0 => Back(n) # tId
<1>0. TidCount \in Nat \ {0} /\ tId \in 0 .. TidCount - 1
  BY TidAssumption DEF Tid
<1>1. ASSUME tId' = NextTid(tId) PROVE Back(n + 1)' = Back(n)
  <2>1. tId' = IF tId + 1 = TidCount THEN 0 ELSE tId + 1
    BY <1>1, NextTidValue
  <2>2. Back(n + 1)' = IF tId' >= n + 1 THEN tId' - (n + 1) ELSE tId' - (n + 1) + TidCount
    BY DEF Back
  <2> QED BY <1>0, <2>1, <2>2 DEF Back
<1>2. (n = 0 => Back(n) = tId) /\ (n # 0 => Back(n) # tId)
  BY <1>0 DEF Back
<1> QED BY <1>1, <1>2

\* How many faults there are, and whether one is a timeout.
LEMMA FaultStep ==
  ASSUME TypeInv, [Next]_vars
  PROVE  /\ Len(faults) \in Nat /\ Len(faults) <= MaxFaults
         /\ Len(faults') \in Nat /\ Len(faults) <= Len(faults')
         /\ TimedOut' => TimedOut \/ Timeout
         /\ Timeout => Len(faults') = Len(faults) + 1
         /\ Refused => Refused'
<1>0. faults \in Seq(FaultKinds) /\ Len(faults) \in Nat /\ Len(faults) <= MaxFaults
  BY DEF TypeInv, TypeOK, FaultsOK
<1>1. ASSUME NEW kind, Fault(kind)
      PROVE  /\ Len(faults') = Len(faults) + 1
             /\ TimedOut' => TimedOut \/ kind = "timeout"
             /\ Refused => Refused'
  <2>1. faults' = Append(faults, kind)
    BY <1>1 DEF Fault
  <2>2. /\ DOMAIN faults = 1 .. Len(faults) /\ DOMAIN faults' = 1 .. (Len(faults) + 1)
        /\ Len(faults') = Len(faults) + 1 /\ faults'[Len(faults) + 1] = kind
        /\ \A i \in 1 .. Len(faults) : faults'[i] = faults[i]
    BY <1>0, <2>1
  <2> QED BY <1>0, <2>2 DEF TimedOut, Refused
<1>2. faults' = faults \/ Timeout \/ Reject \/ Break \/ Reboot
  BY DEF Next, Send, Receive, Fail, OrderMove, OrderExit, Disconnect, Serve, NoRequest,
         CopyWord, RobotReads, RobotActs, Robot, vars
<1>3. CASE faults' = faults /\ ~Timeout
  BY <1>0, <1>3 DEF TimedOut, Refused
<1>4. CASE Timeout
  BY <1>0, <1>1, <1>4 DEF Timeout
<1>5. CASE (Reject \/ Break \/ Reboot) /\ ~Timeout
  BY <1>0, <1>1, <1>5 DEF Reject, Break, Reboot
<1> QED BY <1>2, <1>3, <1>4, <1>5

\* What is under way, as far as the transactions are concerned, is as it was.
LEMMA OwedFrame ==
  ASSUME NEW n \in Nat, Owed(n), UNCHANGED <<tId, reqs, rsps, connected>>,
         pending' = pending \/ pending' = NoTid
  PROVE  Owed(n)'
<1>1. \A i : Back(i)' = Back(i)
  BY DEF Back
<1> QED BY <1>1 DEF Owed

\* A request is sent.
LEMMA SendOwed ==
  ASSUME TypeInv, NEW n \in Nat, n < TidCount, Owed(n), Send
  PROVE  Owed(n + 1)'
<1>1. /\ connected /\ pending = NoTid /\ UNCHANGED <<rsps, connected>>
      /\ tId' = NextTid(tId) /\ pending' = tId' /\ ModbusSend
  BY DEF Send, ModbusSend
<1>2. tId \in Tid /\ tId' \in Tid /\ reqs \in Seq(Request) /\ rsps \in Seq(Response)
  BY <1>1, SendType, StageTypes DEF TypeInv, TypeOK, DriverTypeOK
<1>3. PICK r \in Request : reqs' = Append(reqs, r) /\ r.tid = tId'
  BY <1>1, SendType
<1>4. PICK R \in Nat, A \in Nat :
        /\ R = Len(reqs) /\ A = Len(rsps) /\ A + R = n
        /\ \A i \in 1 .. A : rsps[i].tid = Back(n - i)
        /\ \A i \in 1 .. R : reqs[i].tid = Back(n - A - i)
  <2>1. Len(reqs) \in Nat /\ Len(rsps) \in Nat
    BY <1>2
  <2> QED BY <1>1, <2>1, Zenon DEF Owed
<1>5. R \in Nat /\ A \in Nat /\ A + R = n
  BY <1>4
<1>6. /\ Len(reqs') = R + 1 /\ reqs'[R + 1] = r /\ Len(rsps') = A
      /\ \A i \in 1 .. R : reqs'[i] = reqs[i]
  BY <1>1, <1>2, <1>3, <1>4
<1>7. \A b \in 0 .. n : Back(b + 1)' = Back(b)
  <2> TAKE b \in 0 .. n
  <2>1. b \in Nat /\ b < TidCount /\ b + 1 <= TidCount
    BY TidAssumption
  <2> QED BY <1>1, <1>2, <2>1, BackStep
<1>8. Back(0)' = tId'
  <2>1. tId' \in Int /\ tId' >= 0
    BY <1>2, TidAssumption DEF Tid
  <2>2. Back(0)' = IF tId' >= 0 THEN tId' - 0 ELSE tId' - 0 + TidCount
    BY DEF Back
  <2> QED BY <2>1, <2>2
<1>9. \A i \in 1 .. A : rsps'[i].tid = Back(n + 1 - i)'
  <2> TAKE i \in 1 .. A
  <2>1. PICK b \in 0 .. n : b = n - i /\ b + 1 = n + 1 - i
    BY <1>5
  <2>2. rsps[i].tid = Back(b)
    BY <1>4, <2>1
  <2>3. Back(b + 1)' = Back(b)
    BY <1>7
  <2> QED BY <1>1, <2>1, <2>2, <2>3
<1>10. \A i \in 1 .. R + 1 : reqs'[i].tid = Back(n + 1 - A - i)'
  <2> TAKE i \in 1 .. R + 1
  <2>1. CASE i = R + 1
    <3>1. n + 1 - A - i = 0
      BY <1>5, <2>1
    <3> QED BY <1>3, <1>6, <1>8, <2>1, <3>1
  <2>2. CASE i # R + 1
    <3>1. i \in 1 .. R
      BY <1>5, <2>2
    <3>2. PICK b \in 0 .. n : b = n - A - i /\ b + 1 = n + 1 - A - i
      BY <1>5, <3>1
    <3>3. reqs'[i].tid = Back(b)
      BY <1>4, <1>6, <3>1, <3>2
    <3>4. Back(b + 1)' = Back(b)
      BY <1>7
    <3> QED BY <3>2, <3>3, <3>4
  <2> QED BY <2>1, <2>2
<1>11. A + (R + 1) = n + 1 /\ A <= n + 1
  BY <1>5
<1>12. /\ Len(rsps') + Len(reqs') = n + 1 /\ Len(rsps') <= n + 1
       /\ \A i \in 1 .. Len(rsps') : rsps'[i].tid = Back(n + 1 - i)'
       /\ \A i \in 1 .. Len(reqs') : reqs'[i].tid = Back(n + 1 - Len(rsps) - i)'
  <2>1. Len(rsps') = A /\ Len(reqs') = R + 1
    BY <1>6
  <2>2. \A i \in 1 .. R + 1 : Back(n + 1 - Len(rsps) - i)' = Back(n + 1 - A - i)'
    BY <2>1
  <2> QED BY <1>9, <1>10, <1>11, <2>1, <2>2
<1>13. (connected => Len(rsps) + Len(reqs) = n + 1)'
  BY <1>12
<1>14. (connected \/ pending # NoTid =>
          Len(rsps) <= n + 1 /\ \A i \in 1 .. Len(rsps) : rsps[i].tid = Back(n + 1 - i))'
  BY <1>12
<1>15. (connected => \A i \in 1 .. Len(reqs) : reqs[i].tid = Back(n + 1 - Len(rsps) - i))'
  BY <1>12
<1> QED BY <1>13, <1>14, <1>15 DEF Owed

\* An answer is read.
LEMMA ReceiveOwed ==
  ASSUME TypeInv, NEW n \in Nat, Owed(n + 1), Receive
  PROVE  Owed(n)'
<1>1. /\ pending # NoTid /\ rsps # <<>> /\ rsps' = Tail(rsps) /\ pending' = NoTid
      /\ UNCHANGED <<tId, reqs, connected>>
  BY DEF Receive, ModbusReceive, Continue
<1>2. reqs \in Seq(Request) /\ rsps \in Seq(Response)
  BY StageTypes
<1>3. \A i : Back(i)' = Back(i)
  BY <1>1 DEF Back
<1>4. PICK A \in Nat : A + 1 = Len(rsps) /\ Len(rsps') = A
                       /\ \A i \in 1 .. A : i + 1 \in 1 .. Len(rsps) /\ rsps'[i] = rsps[i + 1]
  <2>1. /\ Len(rsps) - 1 \in Nat /\ Len(rsps') = Len(rsps) - 1 /\ (Len(rsps) - 1) + 1 = Len(rsps)
        /\ \A i \in 1 .. Len(rsps) - 1 : i + 1 \in 1 .. Len(rsps) /\ rsps'[i] = rsps[i + 1]
    BY <1>1, <1>2
  <2> QED BY <2>1
<1>5. A + 1 <= n + 1 /\ \A i \in 1 .. A + 1 : rsps[i].tid = Back(n + 1 - i)
  BY <1>1, <1>4 DEF Owed
<1>6. A <= n
  BY <1>5
<1>7. \A i \in 1 .. A : rsps'[i].tid = Back(n - i)'
  <2> TAKE i \in 1 .. A
  <2>1. i + 1 \in 1 .. A + 1 /\ n + 1 - (i + 1) = n - i
    OBVIOUS
  <2>2. rsps'[i].tid = Back(n + 1 - (i + 1))
    BY <1>4, <1>5, <2>1
  <2> QED BY <1>3, <2>1, <2>2
<1>8. ASSUME connected
      PROVE  /\ A + Len(reqs) = n
             /\ \A i \in 1 .. Len(reqs) : reqs[i].tid = Back(n - A - i)'
  <2>1. PICK R \in Nat : R = Len(reqs)
    BY <1>2
  <2>2. (A + 1) + R = n + 1 /\ \A i \in 1 .. R : reqs[i].tid = Back(n + 1 - (A + 1) - i)
    BY <1>4, <1>8, <2>1 DEF Owed
  <2>3. A + R = n
    BY <2>2
  <2>4. \A i \in 1 .. R : n + 1 - (A + 1) - i = n - A - i
    OBVIOUS
  <2>5. \A i \in 1 .. R : reqs[i].tid = Back(n - A - i)
    BY <2>2, <2>4
  <2> QED BY <1>3, <2>1, <2>3, <2>5
<1> QED BY <1>1, <1>4, <1>6, <1>7, <1>8 DEF Owed

\* A request is answered, or its answer goes nowhere.
LEMMA AnswerOwed ==
  ASSUME TypeInv, NEW n \in Nat, Owed(n), Serve \/ Reject
  PROVE  Owed(n)'
<1> DEFINE r == Head(reqs)
<1>1. /\ reqs # <<>> /\ reqs' = Tail(reqs) /\ UNCHANGED <<tId, pending, connected>>
      /\ \E a : /\ rsps' = IF connected THEN Append(rsps, a) ELSE rsps
                /\ a.tid = r.tid
  BY DEF Serve, Reject, PlcServe, PlcReject, Answer, driverVars
<1>2. reqs \in Seq(Request) /\ rsps \in Seq(Response)
  BY StageTypes
<1>3. \A i : Back(i)' = Back(i)
  BY <1>1 DEF Back
<1>4. CASE ~connected
  BY <1>1, <1>3, <1>4 DEF Owed
<1>5. CASE connected
  <2>1. PICK A \in Nat, R \in Nat :
          /\ A = Len(rsps) /\ R + 1 = Len(reqs) /\ Len(reqs') = R
          /\ \A i \in 1 .. R : i + 1 \in 1 .. Len(reqs) /\ reqs'[i] = reqs[i + 1]
    <3>1. /\ Len(reqs) - 1 \in Nat /\ Len(reqs') = Len(reqs) - 1 /\ (Len(reqs) - 1) + 1 = Len(reqs)
          /\ \A i \in 1 .. Len(reqs) - 1 : i + 1 \in 1 .. Len(reqs) /\ reqs'[i] = reqs[i + 1]
      BY <1>1, <1>2
    <3>2. Len(rsps) \in Nat
      BY <1>2
    <3> QED BY <3>1, <3>2
  <2>2. r = reqs[1]
    BY <1>1, <1>2
  <2> HIDE DEF r
  <2>3. PICK a : rsps' = Append(rsps, a) /\ a.tid = r.tid
    BY <1>1, <1>5
  <2>4. Len(rsps') = A + 1 /\ rsps'[A + 1] = a /\ \A i \in 1 .. A : rsps'[i] = rsps[i]
    BY <1>2, <2>1, <2>3
  <2>5. /\ A + (R + 1) = n
        /\ \A i \in 1 .. A : rsps[i].tid = Back(n - i)
        /\ \A i \in 1 .. R + 1 : reqs[i].tid = Back(n - A - i)
    BY <1>5, <2>1 DEF Owed
  <2>6. (A + 1) + R = n /\ A + 1 <= n
    BY <2>5
  <2>7. \A i \in 1 .. A + 1 : rsps'[i].tid = Back(n - i)'
    <3> TAKE i \in 1 .. A + 1
    <3>1. CASE i = A + 1
      <4>1. n - i = n - A - 1 /\ 1 \in 1 .. R + 1
        BY <3>1
      <4>2. reqs[1].tid = Back(n - A - 1)
        BY <2>5, <4>1
      <4> QED BY <1>3, <2>2, <2>3, <2>4, <3>1, <4>1, <4>2
    <3>2. CASE i # A + 1
      <4>1. i \in 1 .. A
        BY <3>2
      <4> QED BY <1>3, <2>4, <2>5, <4>1
    <3> QED BY <3>1, <3>2
  <2>8. \A i \in 1 .. R : reqs'[i].tid = Back(n - (A + 1) - i)'
    <3> TAKE i \in 1 .. R
    <3>1. i + 1 \in 1 .. R + 1 /\ n - A - (i + 1) = n - (A + 1) - i
      OBVIOUS
    <3>2. reqs'[i].tid = Back(n - A - (i + 1))
      BY <2>1, <2>5, <3>1
    <3> QED BY <1>3, <3>1, <3>2
  <2> QED BY <1>1, <1>5, <2>1, <2>4, <2>6, <2>7, <2>8 DEF Owed
<1> QED BY <1>4, <1>5

\* The connection breaks: some of the last answers are gone, and no request will
\* be answered.
LEMMA BreakOwed ==
  ASSUME TypeInv, NEW n \in Nat, Owed(n), Break
  PROVE  Owed(n)'
<1>1. connected /\ connected' = FALSE /\ UNCHANGED <<tId, pending>>
  BY DEF Break, ConnectionLost, driverVars
<1>2. PICK l \in 0 .. Len(rsps) : rsps' = SubSeq(rsps, 1, l)
  BY DEF Break, ConnectionLost
<1>3. rsps \in Seq(Response)
  BY StageTypes
<1>4. \A i \in 1 .. Len(rsps') : i \in 1 .. Len(rsps) /\ rsps'[i] = rsps[i]
  BY <1>2, <1>3, Prefix
<1>5. Len(rsps') <= Len(rsps) /\ Len(rsps') \in Nat /\ Len(rsps) \in Nat
  BY <1>2, <1>3
<1>6. \A i : Back(i)' = Back(i)
  BY <1>1 DEF Back
<1>7. Len(rsps) <= n
  BY <1>1 DEF Owed
<1>8. Len(rsps') <= n
  BY <1>5, <1>7
<1> QED BY <1>1, <1>4, <1>6, <1>8 DEF Owed

\* Every step keeps the transactions under way in order; a timeout leaves the
\* driver one answer further behind.
LEMMA NextTidInv ==
  ASSUME "restart" \notin FaultKinds, MaxFaults < TidCount, TypeInv, TidInv, [Next]_vars
  PROVE  TidInv'
<1>1. PICK m \in 0 .. Len(faults) : Behind(m)
  BY DEF TidInv
<1>2. /\ Len(faults) \in Nat /\ Len(faults) <= MaxFaults /\ MaxFaults \in Nat
      /\ Len(faults') \in Nat /\ Len(faults) <= Len(faults')
      /\ TimedOut' => TimedOut \/ Timeout
      /\ Timeout => Len(faults') = Len(faults) + 1
  BY FaultStep, FaultAssumption
<1>3. m \in Nat /\ m < TidCount /\ m \in 0 .. Len(faults') /\ TidCount \in Nat
      /\ (Timeout => m + 1 \in 0 .. Len(faults'))
  BY <1>2, TidAssumption
<1>4. pending \in {NoTid, tId} /\ tId # NoTid /\ NoTid \notin Tid /\ tId \in Tid
  BY DEF TidInv, TypeInv, TypeOK, DriverTypeOK, Tid, NoTid
<1>5. (pending = NoTid => Waits = 0) /\ (pending # NoTid => Waits = 1)
      /\ (pending' = NoTid => Waits' = 0) /\ (pending' # NoTid => Waits' = 1)
  BY DEF Waits
<1>6. (pending = NoTid => Owed(m)) /\ (pending # NoTid => Owed(m + 1))
      /\ m + 0 = m /\ (m + 1) + 0 = m + 1
  <2>1. m + 0 = m /\ (m + 1) + 0 = m + 1
    BY <1>3
  <2>2. Owed(m + Waits)
    BY <1>1 DEF Behind
  <2> QED BY <1>5, <2>1, <2>2, Zenon
<1>7. ~Reboot
  BY DEF Reboot, Fault
<1>8. ASSUME pending' \in {NoTid, tId'}, ~Timeout,
             pending' = NoTid => Owed(m)', pending' # NoTid => Owed(m + 1)'
      PROVE  TidInv'
  <2>1. TimedOut' => m > 0
    BY <1>1, <1>2, <1>8 DEF Behind
  <2>2. Owed(m + Waits)'
    BY <1>5, <1>6, <1>8, Zenon
  <2>3. Behind(m)'
    BY <2>1, <2>2 DEF Behind
  <2> QED BY <1>3, <1>8, <2>3 DEF TidInv
<1>9. CASE Send
  <2>1. pending = NoTid /\ pending' = tId' /\ tId' \in Tid /\ ~Timeout
    BY <1>9, SendType DEF Send, ModbusSend, Timeout, ModbusTimeout
  <2>2. pending' # NoTid /\ Owed(m + 1)'
    BY <1>3, <1>4, <1>6, <1>9, <2>1, SendOwed
  <2> QED BY <1>8, <2>1, <2>2
<1>10. CASE Receive
  <2>1. pending # NoTid /\ pending' = NoTid /\ ~Timeout
    BY <1>10 DEF Receive, ModbusReceive, Continue, Timeout, ModbusTimeout
  <2>2. Owed(m)'
    BY <1>3, <1>6, <1>10, <2>1, ReceiveOwed
  <2> QED BY <1>8, <2>1, <2>2
<1>11. CASE Timeout
  <2>1. pending # NoTid /\ pending' = NoTid /\ UNCHANGED <<tId, reqs, rsps, connected>>
    BY <1>11 DEF Timeout, ModbusTimeout, Continue, linkVars
  <2>2. m + 1 \in Nat /\ m + 1 > 0 /\ m + 1 \in 0 .. Len(faults')
    BY <1>3, <1>11
  <2>3. Owed(m + 1)'
    BY <1>6, <2>1, <2>2, OwedFrame
  <2>4. Owed((m + 1) + Waits)'
    BY <1>5, <1>6, <2>1, <2>3, Zenon
  <2>5. Behind(m + 1)'
    BY <2>2, <2>4 DEF Behind
  <2> QED BY <2>1, <2>2, <2>5 DEF TidInv
<1>12. CASE Fail \/ Disconnect
  <2>1. pending' = NoTid /\ connected' = FALSE /\ ~Timeout
    <3>1. CASE Fail
      BY <3>1 DEF Fail, ModbusNoConnection, Continue, linkVars, TypeInv, TypeOK, LinkTypeOK,
                  Timeout, Fault
    <3>2. CASE Disconnect
      BY <3>2 DEF Disconnect, RobotDisconnect, TypeInv, StepOK, Running, Timeout, ModbusTimeout,
                  linkVars, Continue
    <3> QED BY <1>12, <3>1, <3>2
  <2>2. Owed(m)'
    BY <2>1 DEF Owed
  <2> QED BY <1>8, <2>1, <2>2
<1>13. CASE Serve \/ Reject
  <2>a. UNCHANGED <<tId, pending>> /\ scan = 0 /\ scan' = 1
    BY <1>13 DEF Serve, Reject, PlcServe, PlcReject, driverVars
  <2>1. UNCHANGED <<tId, pending>> /\ ~Timeout
    BY <2>a DEF Timeout, plcVars
  <2>2. (pending = NoTid => Owed(m)') /\ (pending # NoTid => Owed(m + 1)')
    BY <1>3, <1>6, <1>13, AnswerOwed
  <2> QED BY <1>4, <1>8, <2>1, <2>2
<1>14. CASE Break
  <2>1. UNCHANGED <<tId, pending>> /\ ~Timeout
    BY <1>14 DEF Break, ConnectionLost, driverVars, Timeout, ModbusTimeout, linkVars
  <2>2. (pending = NoTid => Owed(m)') /\ (pending # NoTid => Owed(m + 1)')
    BY <1>3, <1>6, <1>14, BreakOwed
  <2> QED BY <1>4, <1>8, <2>1, <2>2
<1>15. CASE \/ OrderMove \/ OrderExit \/ NoRequest \/ CopyWord \/ RobotReads \/ RobotActs
            \/ UNCHANGED vars
  <2>1. UNCHANGED <<tId, pending, reqs, rsps, connected, faults>>
    BY <1>15 DEF OrderMove, OrderExit, NoRequest, CopyWord, RobotReads, RobotActs, Robot, vars,
                 StartSendMove, StartExit, PlcNoRequest, PlcCopyWord, linkVars, driverVars
  <2>2. ~Timeout
    BY <1>2, <2>1
  <2>3. (pending = NoTid => Owed(m)') /\ (pending # NoTid => Owed(m + 1)')
    BY <1>3, <1>6, <2>1, OwedFrame
  <2> QED BY <1>4, <1>8, <2>1, <2>2, <2>3
<1> QED BY <1>7, <1>9, <1>10, <1>11, <1>12, <1>13, <1>14, <1>15 DEF Next

\* What is done stays done.
LEMMA DoneStays ==
  ASSUME TypeInv, [Next]_vars, NEW k \in 1 .. calls, Done(k)
  PROVE  Done(k)'
<1>1. performed' = performed \/ \E e : performed' = Append(performed, e)
  <2>1. RobotReads => performed' = performed
    BY DEF RobotReads, Robot, RobotMain, RobotReadCmd1, RobotReadSecond, RobotReadType,
           RobotReadSource, RobotReadDest, Goto
  <2>2. RobotActs => performed' = performed \/ \E e : performed' = Append(performed, e)
    BY DEF RobotActs, Robot, RobotStartHitMove, RobotStartNormalMove, RobotOffBoard,
           RobotMoveReady, RobotWaitForPc, RobotClearReady, Goto
  <2> QED BY <2>1, <2>2, RobotStep
<1>2. performed \in Seq(Execution)
  BY DEF TypeInv, TypeOK, RobotTypeOK
<1>3. \A i \in 1 .. Len(performed) : i \in 1 .. Len(performed') /\ performed'[i] = performed[i]
  BY <1>1, <1>2
<1>4. Ordered(k)' = Ordered(k)
  BY OrderedStays
<1> QED BY <1>3, <1>4 DEF Done

\* A driver that has read CMD_READY as the answer to the poll it has just made is
\* not behind: the robot has carried out its call.
LEMMA ReadyMeansDone ==
  ASSUME "restart" \notin FaultKinds, MaxFaults < TidCount,
         TypeInv, HandshakeHeld, TidInv, ~Refused, fn = "robot_sendMove",
         pending # NoTid, rsps # <<>>, Confirms(Head(rsps)), Head(rsps).word.val = CMD_READY
  PROVE  Done(calls)
<1>1. rsps \in Seq(Response) /\ Head(rsps) = rsps[1] /\ 1 \in 1 .. Len(rsps)
  BY StageTypes, OnlyOne
<1>2. faults \in Seq(FaultKinds) /\ Len(faults) \in Nat /\ Len(faults) <= MaxFaults
      /\ DOMAIN faults = 1 .. Len(faults)
  BY DEF TypeInv, TypeOK, FaultsOK
<1>3. ~TimedOut
  <2>1. PICK m \in 0 .. Len(faults) : Behind(m)
    BY DEF TidInv
  <2>2. m \in Nat /\ m < TidCount /\ Waits = 1
    BY <1>2, <2>1, FaultAssumption, TidAssumption DEF Waits
  <2>3. Owed(m + 1)
    BY <2>1, <2>2 DEF Behind
  <2>4. rsps[1].tid = Back(m + 1 - 1) /\ m + 1 - 1 = m
    BY <1>1, <2>2, <2>3 DEF Owed
  <2>5. rsps[1].tid = tId /\ tId \in Tid
    BY <1>1 DEF Confirms, TidInv, TypeInv, TypeOK, DriverTypeOK
  <2>6. m = 0
    BY <2>2, <2>4, <2>5, BackStep
  <2> QED BY <2>1, <2>6 DEF Behind
<1>4. Clean
  <2> SUFFICES ASSUME NEW i \in DOMAIN faults PROVE faults[i] = "loss"
    BY DEF Clean
  <2>1. faults[i] \in FaultKinds
    BY <1>2, ElementOfSeq
  <2>2. faults[i] \notin {"timeout", "exception"}
    BY <1>3 DEF TimedOut, Refused
  <2> QED BY <2>1, <2>2, FaultAssumption
<1>5. PICK k \in 0 .. calls, n \in 0 .. 6 : Stage(k, n)
  BY <1>4 DEF HandshakeHeld
<1>6. k = calls /\ Seen(k)
  <2>1. RobotAt(k, n) /\ Link(k, n)
    BY <1>5 DEF Stage
  <2>2. Seen(k)
    BY <1>1, <2>1 DEF RobotAt
  <2> QED BY <2>1, <2>2 DEF Link
<1>7. calls \in Nat /\ calls > 0 /\ performed \in Seq(Execution)
  BY StageTypes DEF TypeInv, StepOK, TypeOK, RobotTypeOK
<1>8. performed # <<>> /\ performed[Len(performed)].call = calls
  BY <1>6, <1>7 DEF Seen, LastCall
<1>9. Len(performed) \in 1 .. Len(performed)
  BY <1>7, <1>8
<1>10. performed[Len(performed)] = Ordered(calls)
  BY <1>4, <1>8, <1>9 DEF HandshakeHeld, MovesAsOrdered
<1> QED BY <1>9, <1>10 DEF Done

\* At the start nothing is under way.
LEMMA InitTrue == Init => TrueInv
<1> SUFFICES ASSUME Init PROVE TrueInv
  OBVIOUS
<1>1. reqs = <<>> /\ rsps = <<>> /\ faults = <<>> /\ pending = NoTid /\ issued = <<>>
      /\ fn = "robot_connect"
  BY DEF Init, LinkInit, DriverInit
<1>2. Waits = 0 /\ ~TimedOut /\ calls = 0
  BY <1>1 DEF Waits, TimedOut, calls
<1>3. Owed(0)
  BY <1>1 DEF Owed
<1>4. Behind(0)
  <2>1. 0 + 0 = 0
    OBVIOUS
  <2> QED BY <1>2, <1>3, <2>1, Zenon DEF Behind
<1>5. 0 \in 0 .. Len(faults)
  BY <1>1
<1>6. TrueMeansPerformed
  BY <1>2 DEF TrueMeansPerformed
<1> QED BY <1>1, <1>4, <1>5, <1>6 DEF TrueInv, TidInv

\* What a returned call reports, and how far it brings robot_sendMove.
LEMMA NextTrue ==
  ASSUME "restart" \notin FaultKinds, MaxFaults < TidCount,
         TypeInv, HandshakeHeld, TrueInv, [Next]_vars
  PROVE  TrueInv'
<1>1. TidInv'
  BY NextTidInv DEF TrueInv
<1>2. ASSUME ~Refused'
      PROVE  TrueMeansPerformed' /\ (fn' = "robot_sendMove" /\ step' >= 5 => Done(calls)')
  <2>1. ~Refused
    BY <1>2, FaultStep
  <2>2. \A k \in 1 .. calls : issued[k].outcome = "true" => Done(k)
    BY <2>1 DEF TrueInv, TrueMeansPerformed, Done
  <2>3. fn = "robot_sendMove" /\ step >= 5 => Done(calls)
    BY <2>1 DEF TrueInv
  <2>4. \A k \in 1 .. calls : Done(k) => Done(k)'
    BY DoneStays
  <2>5. calls \in Nat
    BY StageTypes
  <2>6. (\A k \in 1 .. calls' : issued'[k].outcome = "true" => Done(k)') => TrueMeansPerformed'
    BY DEF TrueMeansPerformed, Done
  <2>7. CASE Receive \/ Fail \/ Timeout
    <3>1. fn \in Running
      BY <2>7, Returned
    <3>2. CASE fn # "robot_sendMove"
      <4>1. issued' = issued /\ fn' # "robot_sendMove"
        BY <2>7, <3>1, <3>2, Returned, ContinueStep DEF GoesElsewhere
      <4> QED BY <2>2, <2>4, <2>6, <4>1 DEF calls
    <3>3. CASE fn = "robot_sendMove"
      <4>1. calls > 0 /\ calls \in 1 .. calls /\ step \in 1 .. 7
        BY <2>5, <3>3 DEF TypeInv, StepOK
      <4>2. PICK ok, val : /\ Continue(ok, val)
                           /\ ok = FALSE \/ /\ pending # NoTid /\ rsps # <<>>
                                            /\ ok = Confirms(Head(rsps)) /\ val = Head(rsps).word.val
        BY <2>7, Returned
      <4>3. GivesUp(ok) \/ PollsOn(ok, val) \/ GoesOn(ok, val) \/ Ends
        BY <3>1, <3>3, <4>2, ContinueStep
      <4>4. CASE GivesUp(ok)
        <5>1. issued' = [issued EXCEPT ![calls].outcome = "false"] /\ fn' = "idle"
          BY <3>3, <4>4 DEF GivesUp, Finish
        <5>2. "false" \in Outcomes
          BY DEF Outcomes
        <5>3. calls' = calls /\ issued'[calls].outcome = "false"
              /\ \A k \in 1 .. calls : k # calls => issued'[k] = issued[k]
          BY <4>1, <5>1, <5>2, FinishMoves
        <5> QED BY <2>2, <2>4, <2>6, <5>1, <5>3
      <4>5. CASE PollsOn(ok, val)
        BY <2>2, <2>3, <2>4, <2>6, <4>1, <4>5 DEF PollsOn, calls
      <4>6. CASE GoesOn(ok, val)
        <5>1. UNCHANGED <<fn, issued>> /\ step' = step + 1 /\ calls' = calls
          BY <4>6 DEF GoesOn, calls
        <5>2. step' >= 5 => Done(calls)
          <6>1. CASE step >= 5
            BY <2>3, <3>3, <6>1
          <6>2. CASE step = 4
            <7>1. Confirms(Head(rsps)) /\ Head(rsps).word.val = CMD_READY
                  /\ pending # NoTid /\ rsps # <<>>
              BY <4>2, <4>6, <6>2 DEF GoesOn
            <7> QED BY <2>1, <3>3, <7>1, ReadyMeansDone DEF TrueInv
          <6> QED BY <4>1, <5>1, <6>1, <6>2
        <5>3. step' >= 5 => Done(calls)'
          <6>1. PICK c \in 1 .. calls : c = calls
            BY <4>1
          <6>2. Done(calls) => Done(c)
            BY <6>1
          <6>3. Done(c)' => Done(calls)'
            BY <5>1, <6>1 DEF Done
          <6> QED BY <2>4, <5>2, <6>2, <6>3
        <5> QED BY <2>2, <2>4, <2>6, <5>1, <5>3
      <4>7. CASE Ends
        <5>1. issued' = [issued EXCEPT ![calls].outcome = "true"] /\ fn' = "idle" /\ step = 7
          BY <3>3, <4>7 DEF Ends, Finish
        <5>2. "true" \in Outcomes
          BY DEF Outcomes
        <5>3. calls' = calls /\ \A k \in 1 .. calls : k # calls => issued'[k] = issued[k]
          BY <4>1, <5>1, <5>2, FinishMoves
        <5>4. Done(calls)
          BY <2>3, <3>3, <5>1
        <5>5. \A k \in 1 .. calls : k = calls => Done(k)
          BY <5>4
        <5> QED BY <2>2, <2>4, <2>6, <5>1, <5>3, <5>5
      <4> QED BY <4>3, <4>4, <4>5, <4>6, <4>7
    <3> QED BY <3>2, <3>3
  <2>8. CASE OrderMove
    <3>1. PICK m : issued' = Append(issued, [move |-> m, outcome |-> "pending"])
      BY <2>8 DEF OrderMove, StartSendMove
    <3> DEFINE e == [move |-> m, outcome |-> "pending"]
    <3>2. issued' = Append(issued, e) /\ e.outcome = "pending"
      BY <3>1
    <3> HIDE DEF e
    <3>3. issued \in Seq(Issue)
      BY DEF TypeInv, TypeOK, DriverTypeOK, Issue
    <3>4. /\ calls' = calls + 1 /\ issued'[calls + 1] = e
          /\ \A k \in 1 .. calls : issued'[k] = issued[k]
      BY <3>2, <3>3 DEF calls
    <3>5. \A k \in 1 .. calls' : k \in 1 .. calls \/ k = calls + 1
      BY <2>5, <3>4
    <3>6. step' = 1
      BY <2>8 DEF OrderMove, StartSendMove, TypeInv, StepOK, Running
    <3>7. ASSUME NEW k \in 1 .. calls', issued'[k].outcome = "true" PROVE Done(k)'
      <4>1. k \in 1 .. calls
        BY <3>2, <3>4, <3>5, <3>7
      <4> QED BY <2>2, <2>4, <3>4, <3>7, <4>1
    <3> QED BY <2>6, <3>6, <3>7
  <2>9. CASE Reboot
    BY <2>9 DEF Reboot, Fault
  <2>10. CASE \/ Send \/ OrderExit \/ Disconnect \/ UNCHANGED <<fn, step, tId, pending, issued>>
    <3>1. issued' = issued /\ (fn' = "robot_sendMove" => fn = "robot_sendMove" /\ step' = step)
      BY <2>10 DEF Send, OrderExit, Disconnect, ModbusSend, StartExit, RobotDisconnect
    <3>2. calls' = calls
      BY <3>1 DEF calls
    <3>3. fn' = "robot_sendMove" /\ step' >= 5 => Done(calls)'
      <4>1. ASSUME fn' = "robot_sendMove", step' >= 5 PROVE Done(calls)'
        <5>1. PICK c \in 1 .. calls : c = calls
          BY <2>5, <3>1, <4>1 DEF TypeInv, StepOK
        <5>2. Done(c)
          BY <2>3, <3>1, <4>1, <5>1
        <5>3. Done(c)' => Done(calls)'
          BY <3>2, <5>1 DEF Done
        <5> QED BY <2>4, <5>2, <5>3
      <4> QED BY <4>1
    <3> QED BY <2>2, <2>4, <2>6, <3>1, <3>2, <3>3
  <2> QED BY <2>7, <2>8, <2>9, <2>10, DriverStep
<1> QED BY <1>1, <1>2 DEF TrueInv

\* With timeouts, refusals and broken connections, but no restart, the driver is
\* behind by one answer for every timeout of its connection; as long as the
\* transaction identifiers do not come round (there are 2^16 of them), it takes
\* no answer of an earlier transaction for that of a later one.
THEOREM TrueInvariant ==
  ASSUME Paced, "restart" \notin FaultKinds, MaxFaults < TidCount
  PROVE  Spec => []TrueInv
<1>1. TypeInv /\ HandshakeInv /\ TrueInv /\ [Next]_vars => TrueInv'
  BY NextTrue DEF HandshakeInv
<1> QED BY InitType, NextType, InitTrue, HandshakeInvariant, <1>1, PTL DEF Spec

\* Timeouts and broken connections never make robot_sendMove return true for a
\* move that was not made, though the driver never resynchronises after a timeout.
THEOREM TrueUnlessRefusedAlways ==
  ASSUME Paced, "restart" \notin FaultKinds, MaxFaults < TidCount
  PROVE  Spec => []TrueUnlessRefused
<1>1. TrueInv => TrueUnlessRefused
  BY DEF TrueInv, TrueUnlessRefused
<1> QED BY TrueInvariant, <1>1, PTL

\* Where the PLC never refuses a request, true always means that the robot has
\* carried out exactly this move.
THEOREM TrueAlwaysPerformed ==
  ASSUME Paced, FaultKinds \subseteq {"timeout", "loss"}, MaxFaults < TidCount
  PROVE  Spec => []TrueMeansPerformed
<1>1. TypeInv => ~Refused
  <2> SUFFICES ASSUME TypeInv PROVE ~Refused
    OBVIOUS
  <2>1. faults \in Seq(FaultKinds) /\ DOMAIN faults = 1 .. Len(faults)
    BY DEF TypeInv, TypeOK, FaultsOK
  <2>2. \A i \in 1 .. Len(faults) : faults[i] \in FaultKinds
    BY <2>1, ElementOfSeq
  <2> QED BY <2>1, <2>2 DEF Refused
<1>2. "restart" \notin FaultKinds
  OBVIOUS
<1>3. Spec => []TrueUnlessRefused
  BY <1>2, TrueUnlessRefusedAlways
<1>4. TrueUnlessRefused /\ ~Refused => TrueMeansPerformed
  BY DEF TrueUnlessRefused
<1> QED BY InitType, NextType, <1>1, <1>3, <1>4, PTL DEF Spec

-----------------------------------------------------------------------------
(* The system is the move service.                                           *)

\* The call that the robot carries out is the next one.
LEMMA TurnPerforms ==
  ASSUME TypeInv, RobotOrder, NEW k \in 0 .. calls, NEW n \in 0 .. 6, Stage(k, n), InTurn(k),
         RobotStartNormalMove
  PROVE  k = Len(performed) + 1 /\ k \in 1 .. calls /\ InTurn(k)'
<1>1. performed \in Seq(Execution) /\ Len(performed) \in Nat /\ calls \in Nat
  BY StageTypes DEF TypeInv, TypeOK, RobotTypeOK
<1>2. PICK e : performed' = Append(performed, e) /\ e.call = nW.cmd1.by
  BY DEF RobotStartNormalMove
<1>3. LastCall < k /\ nW.cmd1.by = k
  BY DEF RobotStartNormalMove, RobotOrder, Stage, RobotAt, Reading, ParamLabels
<1>4. LastCall = Len(performed)
  <2>1. CASE performed = <<>>
    BY <2>1 DEF LastCall
  <2>2. CASE performed # <<>>
    <3>1. Len(performed) \in 1 .. Len(performed)
      BY <1>1, <2>2
    <3> QED BY <2>2, <3>1 DEF LastCall, InTurn
  <2> QED BY <2>1, <2>2
<1>5. k = Len(performed) + 1
  BY <1>1, <1>3, <1>4 DEF InTurn
<1>6. /\ Len(performed') = Len(performed) + 1
      /\ performed'[Len(performed) + 1] = e
      /\ \A i \in 1 .. Len(performed) : performed'[i] = performed[i]
  BY <1>1, <1>2
<1>7. ASSUME NEW i \in 1 .. Len(performed') PROVE performed'[i].call = i
  <2>1. i \in 1 .. Len(performed) \/ i = Len(performed) + 1
    BY <1>1, <1>6
  <2> QED BY <1>2, <1>3, <1>5, <1>6, <2>1 DEF InTurn
<1>8. k <= Len(performed') + 1
  BY <1>1, <1>5, <1>6
<1> QED BY <1>1, <1>5, <1>7, <1>8 DEF InTurn

\* Only this step adds to what has been done.
LEMMA PerformedStep ==
  ASSUME [Next]_vars
  PROVE  \/ performed' = performed
         \/ RobotActs /\ RobotStartNormalMove
<1>1. RobotReads => performed' = performed
  BY DEF RobotReads, Robot, RobotMain, RobotReadCmd1, RobotReadSecond, RobotReadType,
         RobotReadSource, RobotReadDest, Goto
<1>2. RobotActs => performed' = performed \/ RobotStartNormalMove
  BY DEF RobotActs, Robot, RobotStartHitMove, RobotOffBoard, RobotMoveReady, RobotWaitForPc,
         RobotClearReady, Goto
<1> QED BY <1>1, <1>2, RobotStep

\* The calls are carried out in turn.
LEMMA NextTurn ==
  ASSUME Paced, TypeInv, OnceInv, HandshakeInv, ~Timeout, ~Reject, ~Reboot,
         NEW k \in 0 .. calls, NEW n \in 0 .. 6, Stage(k, n), InTurn(k), [Next]_vars
  PROVE  \E l \in 0 .. calls', m \in 0 .. 6 : Stage(l, m)' /\ InTurn(l)'
<1>1. calls \in Nat /\ performed \in Seq(Execution) /\ Len(performed) \in Nat
  BY StageTypes DEF TypeInv, TypeOK, RobotTypeOK
<1>2. InTurn(k)'
  <2>1. CASE performed' = performed
    BY <2>1 DEF InTurn
  <2> QED BY <2>1, PerformedStep, TurnPerforms DEF OnceInv
<1>3. CASE Send
  <2>1. calls' = calls
    BY <1>3 DEF Send, ModbusSend, calls
  <2>2. Stage(k, n)'
    BY <1>3, SendStage
  <2> QED BY <1>2, <2>1, <2>2
<1>4. CASE Receive
  BY <1>2, <1>4, ReceiveStage
<1>5. CASE Fail \/ OrderExit \/ Disconnect \/ Break \/ NoRequest \/ UNCHANGED vars
  BY <1>2, <1>5, QuietStage
<1>6. CASE OrderMove
  <2>1. PICK l \in 0 .. calls', m \in 0 .. 6 :
               Stage(l, m)' /\ (l = k \/ (l = k + 1 /\ LastCall = k))
    BY <1>6, OrderStage
  <2>2. performed' = performed
    BY <1>6 DEF OrderMove, robotVars
  <2>3. CASE l = k
    BY <1>2, <2>1, <2>3
  <2>4. CASE l = k + 1 /\ LastCall = k
    <3>1. k <= Len(performed)
      <4>1. CASE performed = <<>>
        BY <1>1, <2>4, <4>1 DEF LastCall
      <4>2. CASE performed # <<>>
        <5>1. Len(performed) \in 1 .. Len(performed)
          BY <1>1, <4>2
        <5> QED BY <1>1, <2>4, <4>2, <5>1 DEF LastCall, InTurn
      <4> QED BY <4>1, <4>2
    <3>2. InTurn(l)'
      BY <1>1, <2>2, <2>4, <3>1 DEF InTurn
    <3> QED BY <2>1, <3>2
  <2> QED BY <2>1, <2>3, <2>4
<1>7. CASE Serve
  BY <1>2, <1>7, ServeStage DEF HandshakeInv, HandshakeHeld, OnceInv
<1>8. CASE CopyWord
  BY <1>2, <1>8, CopyStage DEF OnceInv, RobotOrder
<1>9. CASE RobotReads
  BY <1>2, <1>9, ReadsStage DEF OnceInv, RobotOrder
<1>10. CASE RobotActs
  BY <1>2, <1>10, ActsStage DEF HandshakeInv, HandshakeHeld, OnceInv, RobotOrder
<1> QED BY <1>3, <1>4, <1>5, <1>6, <1>7, <1>8, <1>9, <1>10 DEF Next

\* The exit command is the one request of its function, and of no other.
LEMMA SendExit ==
  ASSUME TypeInv, ModbusSend
  PROVE  \E r \in Request : /\ reqs' = Append(reqs, r)
                            /\ ExitWord(r) => fn = "exit"
                            /\ fn = "exit" => ExitWord(r)
<1>1. PICK r \in Request :
        /\ reqs' = Append(reqs, r)
        /\ r.tid = tId' /\ r.op = Script[step].op /\ r.addr = Script[step].addr
        /\ DOMAIN r.words = DOMAIN Script[step].vals
        /\ \A i \in DOMAIN r.words : /\ r.words[i].by = calls
                                     /\ r.words[i].val = Script[step].vals[i]
  BY SendType
<1> DEFINE c == Script[step]
<1>2. fn \in Running
  BY DEF ModbusSend
<1>3. ASSUME NEW a, NEW v, c = WriteRegister(a, v)
      PROVE  r.addr = a /\ r.words[1].val = v
  <2>1. c.addr = a /\ c.vals = <<v>>
    BY <1>3 DEF WriteRegister
  <2>2. 1 \in DOMAIN r.words /\ c.vals[1] = v
    BY <1>1, <2>1
  <2> QED BY <1>1, <2>1, <2>2
<1>4. CASE fn = "exit"
  <2>1. c = WriteRegister(ADDR_CMD_EXIT, CMD_EXIT)
    BY <1>2, <1>4, ScriptAt
  <2>2. ExitWord(r)
    BY <1>3, <2>1 DEF ExitWord
  <2> QED BY <1>1, <1>4, <2>2
<1>5. CASE fn = "robot_connect"
  <2>1. PICK a \in CommandAddrs : c = WriteRegister(a, 0)
    BY <1>2, <1>5, ScriptAt
  <2>2. r.words[1].val = 0
    BY <1>3, <2>1
  <2> QED BY <1>1, <1>5, <2>2 DEF ExitWord, CMD_EXIT
<1>6. CASE fn = "modbusClearCommand"
  <2>1. PICK a, v : c = WriteRegister(a, v) /\ a \in {ADDR_CMD_1, ADDR_CMD_2}
    BY <1>2, <1>6, ScriptAt
  <2>2. r.addr # ADDR_CMD_EXIT
    BY <1>3, <2>1, Addresses
  <2> QED BY <1>1, <1>6, <2>2 DEF ExitWord
<1>7. CASE fn = "robot_sendMove"
  <2>1. step \in 1 .. 7
    BY <1>7 DEF TypeInv, StepOK
  <2>2. c.addr \in {ADDR_CMD_1, ADDR_CMD_2, ADDR_MOVESOURCE, ADDR_READY}
    BY <1>2, <1>7, <2>1, ScriptAt DEF WriteRegister, WriteRegisters, ReadReady
  <2>3. r.addr # ADDR_CMD_EXIT
    BY <1>1, <2>2, Addresses
  <2> QED BY <1>1, <1>7, <2>3 DEF ExitWord
<1> QED BY <1>2, <1>4, <1>5, <1>6, <1>7 DEF Running

\* The function that runs leaves the exit for nothing else.
LEMMA LeavingStays ==
  ASSUME TypeInv, [Next]_vars, ~Reboot, fn \in Leaving
  PROVE  fn' \in Leaving
<1>1. CASE Receive \/ Fail \/ Timeout
  <2>1. PICK ok, val : Continue(ok, val) /\ fn = "exit"
    BY <1>1, Returned DEF Leaving, Running
  <2>2. fn' = fn \/ fn' = AfterLast
    BY <2>1 DEF Continue, Fails
  <2> QED BY <2>1, <2>2 DEF AfterLast, Leaving
<1>2. CASE Send \/ OrderMove \/ OrderExit \/ Disconnect
  BY <1>2 DEF Send, OrderMove, OrderExit, Disconnect, ModbusSend, StartSendMove, StartExit,
              RobotDisconnect, Leaving
<1> QED BY <1>1, <1>2, DriverStep

\* What a scan stores where the exit command belongs.
LEMMA ExitStored ==
  ASSUME TypeInv, Shapes, [Next]_vars
  PROVE  \/ d'[ADDR_CMD_EXIT] = d[ADDR_CMD_EXIT]
         \/ /\ Serve /\ reqs # <<>> /\ reqs[1].addr = ADDR_CMD_EXIT
            /\ d'[ADDR_CMD_EXIT] = reqs[1].words[1]
<1>1. CASE Serve
  <2>1. reqs # <<>> /\ d' = Store(Head(reqs))
    BY <1>1 DEF Serve, PlcServe
  <2>2. PICK r \in Request : r = reqs[1] /\ r = Head(reqs) /\ Shape(r)
    BY <2>1, StageTypes, OnlyOne DEF Shapes
  <2>3. r.op \in {"write_register", "write_registers", "read_registers"}
    BY DEF Request, Op
  <2>4. \/ d'[ADDR_CMD_EXIT] = d[ADDR_CMD_EXIT]
        \/ r.addr = ADDR_CMD_EXIT /\ d'[ADDR_CMD_EXIT] = r.words[1]
    BY <2>1, <2>2, <2>3, StoreWords, Addresses
  <2> QED BY <1>1, <2>1, <2>2, <2>4
<1>2. CASE ~Serve
  <2>1. d' = d
    BY <1>2, PlcStep DEF Reject, NoRequest, CopyWord, PlcReject, PlcNoRequest, PlcCopyWord
  <2> QED BY <2>1
<1> QED BY <1>1, <1>2

LEMMA NextExitLast ==
  ASSUME "restart" \notin FaultKinds, TypeInv, Shapes, TypeBeforeCommand, Len(reqs) <= 1,
         ExitLast, [Next]_vars
  PROVE  ExitLast'
<1>1. ~Reboot
  BY DEF Reboot, Fault
<1>2. reqs \in Seq(Request) /\ Len(reqs) \in Nat
  BY StageTypes
<1>3. fn \in Leaving => fn' \in Leaving
  BY <1>1, LeavingStays
<1>4. \A i \in 1 .. Len(reqs') :
        \/ \E j \in 1 .. Len(reqs) : reqs'[i] = reqs[j]
        \/ /\ Send /\ fn' = fn /\ (ExitWord(reqs'[i]) => fn = "exit")
           /\ fn = "exit" => ExitWord(reqs'[i])
  <2>1. CASE Send
    <3>1. ModbusSend /\ fn' = fn
      BY <2>1 DEF Send, ModbusSend
    <3>2. PICK r \in Request : /\ reqs' = Append(reqs, r)
                               /\ ExitWord(r) => fn = "exit"
                               /\ fn = "exit" => ExitWord(r)
      BY <3>1, SendExit
    <3>3. \A i \in 1 .. Len(reqs') : (i \in 1 .. Len(reqs) /\ reqs'[i] = reqs[i]) \/ reqs'[i] = r
      BY <1>2, <3>2
    <3> QED BY <2>1, <3>1, <3>2, <3>3
  <2>2. CASE ~Send
    <3>1. PICK n \in 0 .. 1 : Shifted(n)
      BY <2>2, ReqsStep
    <3> QED BY <3>1 DEF Shifted
  <2> QED BY <2>1, <2>2
<1>5. \A i \in 1 .. Len(reqs') : ExitWord(reqs'[i]) => fn' \in Leaving
  <2> TAKE i \in 1 .. Len(reqs')
  <2> HAVE ExitWord(reqs'[i])
  <2>1. CASE \E j \in 1 .. Len(reqs) : reqs'[i] = reqs[j]
    BY <1>3, <2>1 DEF ExitLast
  <2>2. CASE fn' = fn /\ fn = "exit"
    BY <2>2 DEF Leaving
  <2> QED BY <1>4, <2>1, <2>2
<1>6. d[ADDR_CMD_EXIT].val = CMD_EXIT => d'[ADDR_CMD_EXIT].val = CMD_EXIT
  <2>1. ASSUME reqs # <<>>, reqs[1].addr = ADDR_CMD_EXIT, d[ADDR_CMD_EXIT].val = CMD_EXIT
        PROVE  reqs[1].words[1].val = CMD_EXIT
    <3>1. 1 \in 1 .. Len(reqs)
      BY <1>2, <2>1
    <3> QED BY <2>1, <3>1 DEF ExitLast, ExitWord
  <2> QED BY <2>1, ExitStored
<1>7. d'[ADDR_CMD_EXIT].val = CMD_EXIT =>
        /\ fn' \in Leaving
        /\ \A i \in 1 .. Len(reqs') : reqs'[i].addr = ADDR_CMD_EXIT => ExitWord(reqs'[i])
  <2>1. CASE d[ADDR_CMD_EXIT].val = CMD_EXIT
    <3>1. fn \in Leaving /\ \A i \in 1 .. Len(reqs) : reqs[i].addr = ADDR_CMD_EXIT => ExitWord(reqs[i])
      BY <2>1 DEF ExitLast
    <3>2. Send => fn = "exit"
      BY <3>1 DEF Send, ModbusSend, Leaving, Running
    <3> QED BY <1>3, <1>4, <3>1, <3>2
  <2>2. CASE d[ADDR_CMD_EXIT].val # CMD_EXIT
    <3> SUFFICES ASSUME d'[ADDR_CMD_EXIT].val = CMD_EXIT
                 PROVE  fn' \in Leaving /\ reqs' = <<>>
      OBVIOUS
    <3>1. Serve /\ reqs # <<>> /\ ExitWord(reqs[1])
      BY <2>2, ExitStored DEF ExitWord
    <3>2. 1 \in 1 .. Len(reqs) /\ Tail(reqs) = <<>>
      BY <1>2, <3>1, OnlyOne
    <3>3. fn \in Leaving
      BY <3>1, <3>2 DEF ExitLast
    <3> QED BY <1>3, <3>1, <3>2, <3>3 DEF Serve, PlcServe
  <2> QED BY <2>1, <2>2
<1>8. robotIn'[ADDR_CMD_EXIT].val = CMD_EXIT \/ label' = "exit" => d'[ADDR_CMD_EXIT].val = CMD_EXIT
  <2>1. robotIn'[ADDR_CMD_EXIT] = robotIn[ADDR_CMD_EXIT] \/ robotIn'[ADDR_CMD_EXIT] = d[ADDR_CMD_EXIT]
    <3>1. robotIn' = robotIn \/ CopyWord
      BY PlcStep DEF Serve, Reject, NoRequest, PlcServe, PlcReject, PlcNoRequest, linkVars
    <3>2. ADDR_CMD_EXIT \in CommandAddrs
      BY Addresses
    <3> QED BY <3>1, <3>2, StageTypes DEF CopyWord, PlcCopyWord
  <2>2. label' = "exit" => label = "exit" \/ robotIn[ADDR_CMD_EXIT].val = CMD_EXIT
    BY ExitStep
  <2> QED BY <1>6, <2>1, <2>2 DEF ExitLast
<1> QED BY <1>5, <1>7, <1>8 DEF ExitLast

\* While no fault has happened, none is happening.
LEMMA FaultFree ==
  ASSUME TypeInv, [Next]_vars, faults' = <<>>
  PROVE  faults = <<>> /\ ~Timeout /\ ~Reject /\ ~Break /\ ~Reboot
<1>1. faults \in Seq(FaultKinds)
  BY DEF TypeInv, TypeOK, FaultsOK
<1>2. ASSUME NEW kind, Fault(kind) PROVE FALSE
  <2>1. faults' = Append(faults, kind)
    BY <1>2 DEF Fault
  <2>2. Len(faults') = Len(faults) + 1 /\ Len(faults) \in Nat /\ Len(faults') = 0
    BY <1>1, <2>1
  <2> QED BY <2>2
<1>3. ~Timeout /\ ~Reject /\ ~Break /\ ~Reboot
  BY <1>2 DEF Timeout, Reject, Break, Reboot
<1>4. faults' = faults
  BY <1>3 DEF Next, Send, Receive, Fail, OrderMove, OrderExit, Disconnect, Serve, NoRequest,
              CopyWord, RobotReads, RobotActs, Robot, vars
<1> QED BY <1>3, <1>4

\* On a connection that stands, an answer is the answer to the pending call, and
\* between two calls nothing is under way.
LEMMA Linked ==
  ASSUME TypeInv, NEW k \in 0 .. calls, NEW n \in 0 .. 6, Stage(k, n), connected
  PROVE  /\ pending = NoTid => reqs = <<>> /\ rsps = <<>>
         /\ pending # NoTid /\ rsps # <<>> => reqs = <<>> /\ Confirms(Head(rsps))
<1>1. Link(k, n)
  BY DEF Stage
<1>2. pending # NoTid /\ rsps # <<>> =>
        /\ reqs = <<>> /\ rsps[1].tid = pending /\ rsps[1].op = Script[step].op /\ rsps[1].ok
  BY <1>1 DEF Link
<1>3. rsps # <<>> => Head(rsps) = rsps[1]
  BY StageTypes, OnlyOne
<1> QED BY <1>1, <1>2, <1>3 DEF Link, Confirms

\* The outcomes after a call has returned.
LEMMA OutcomeSet ==
  ASSUME TypeInv, Receive \/ Fail \/ Timeout
  PROVE  \/ issued' = issued /\ (fn' = "robot_sendMove" => fn = "robot_sendMove")
         \/ /\ fn = "robot_sendMove" /\ fn' = "idle" /\ calls > 0 /\ calls' = calls
            /\ \A k \in 1 .. calls : k # calls => issued'[k] = issued[k]
            /\ \/ step = 7 /\ issued'[calls].outcome = "true"
               \/ /\ issued'[calls].outcome = "false"
                  /\ ~ (pending # NoTid /\ rsps # <<>> /\ Confirms(Head(rsps)))
<1>1. PICK ok, val :
        /\ Continue(ok, val) /\ fn \in Running
        /\ (pending # NoTid /\ rsps # <<>> /\ Confirms(Head(rsps))) => ok
  <2>1. Continue(FALSE, 0) /\ (Fail \/ Timeout) => ~ (pending # NoTid /\ rsps # <<>>)
    BY DEF Fail, Timeout, ModbusNoConnection, ModbusTimeout
  <2>2. Receive => Continue(Confirms(Head(rsps)), Head(rsps).word.val)
    BY DEF Receive, ModbusReceive
  <2>3. Fail \/ Timeout => Continue(FALSE, 0)
    BY DEF Fail, Timeout, ModbusNoConnection, ModbusTimeout
  <2> QED BY <2>1, <2>2, <2>3, Returned
<1>2. CASE fn # "robot_sendMove"
  BY <1>1, <1>2, ContinueStep DEF GoesElsewhere
<1>3. CASE fn = "robot_sendMove"
  <2>0. calls > 0 /\ {"true", "false"} \subseteq Outcomes
    BY <1>3 DEF TypeInv, StepOK, Outcomes
  <2>1. GivesUp(ok) \/ PollsOn(ok, val) \/ GoesOn(ok, val) \/ Ends
    BY <1>1, <1>3, ContinueStep
  <2>2. CASE PollsOn(ok, val) \/ GoesOn(ok, val)
    BY <1>3, <2>2 DEF PollsOn, GoesOn
  <2>3. CASE GivesUp(ok)
    <3>1. fn' = "idle" /\ ~ok /\ issued' = [issued EXCEPT ![calls].outcome = "false"]
      BY <1>3, <2>3 DEF GivesUp, Finish
    <3>2. /\ calls' = calls /\ issued'[calls].outcome = "false"
          /\ \A k \in 1 .. calls : k # calls => issued'[k] = issued[k]
      BY <2>0, <3>1, FinishMoves
    <3> QED BY <1>1, <1>3, <2>0, <3>1, <3>2
  <2>4. CASE Ends
    <3>1. fn' = "idle" /\ step = 7 /\ issued' = [issued EXCEPT ![calls].outcome = "true"]
      BY <1>3, <2>4 DEF Ends, Finish
    <3>2. /\ calls' = calls /\ issued'[calls].outcome = "true"
          /\ \A k \in 1 .. calls : k # calls => issued'[k] = issued[k]
      BY <2>0, <3>1, FinishMoves
    <3> QED BY <1>3, <2>0, <3>1, <3>2
  <2> QED BY <2>1, <2>2, <2>3, <2>4
<1> QED BY <1>2, <1>3

\* A new call is added at the end, without an outcome.
LEMMA OrderAdds ==
  ASSUME TypeInv, OrderMove
  PROVE  /\ calls' = calls + 1 /\ calls \in Nat
         /\ \E m \in Moves : issued'[calls + 1] = [move |-> m, outcome |-> "pending"]
         /\ \A k \in 1 .. calls : issued'[k] = issued[k]
<1>1. PICK m \in Moves : issued' = Append(issued, [move |-> m, outcome |-> "pending"])
  BY DEF OrderMove, StartSendMove
<1> DEFINE e == [move |-> m, outcome |-> "pending"]
<1>2. issued' = Append(issued, e) /\ e = [move |-> m, outcome |-> "pending"]
  BY <1>1
<1> HIDE DEF e
<1>3. issued \in Seq(Issue)
  BY DEF TypeInv, TypeOK, DriverTypeOK, Issue
<1>4. /\ Len(issued') = Len(issued) + 1 /\ issued'[Len(issued) + 1] = e
      /\ \A k \in 1 .. Len(issued) : issued'[k] = issued[k]
  BY <1>2, <1>3
<1>5. calls' = calls + 1 /\ calls \in Nat
  BY <1>3, <1>4, StageTypes DEF calls
<1>6. issued'[calls + 1] = e
  BY <1>4 DEF calls
<1>7. \A k \in 1 .. calls : issued'[k] = issued[k]
  BY <1>4 DEF calls
<1> QED BY <1>2, <1>5, <1>6, <1>7

LEMMA NextOutcomeOpen ==
  ASSUME TypeInv, ~Reboot, OutcomeOpen, [Next]_vars
  PROVE  OutcomeOpen'
<1>1. CASE Receive \/ Fail \/ Timeout
  BY <1>1, OutcomeSet DEF OutcomeOpen, calls
<1>2. CASE OrderMove
  <2>1. PICK m \in Moves : issued'[calls + 1] = [move |-> m, outcome |-> "pending"]
    BY <1>2, OrderAdds
  <2>2. issued'[calls'].outcome = "pending"
    BY <1>2, <2>1, OrderAdds
  <2> QED BY <2>2 DEF OutcomeOpen
<1>3. CASE \/ Send \/ OrderExit \/ Disconnect \/ UNCHANGED <<fn, step, tId, pending, issued>>
  <2>1. issued' = issued /\ (fn' = "robot_sendMove" => fn = "robot_sendMove")
    BY <1>3 DEF Send, OrderExit, Disconnect, ModbusSend, StartExit, RobotDisconnect
  <2> QED BY <2>1 DEF OutcomeOpen, calls
<1> QED BY <1>1, <1>2, <1>3, DriverStep

\* Without faults every call succeeds.
LEMMA NextAllWell ==
  ASSUME TypeInv, Shapes, ExitLast, OutcomeOpen, faults = <<>>, AllWell,
         ~Timeout, ~Reject, ~Break, ~Reboot,
         NEW k \in 0 .. calls, NEW n \in 0 .. 6, Stage(k, n), [Next]_vars
  PROVE  AllWell'
<1>0. calls \in Nat /\ reqs \in Seq(Request) /\ Len(reqs) <= 1 /\ Len(reqs) \in Nat
  BY StageTypes DEF Stage
<1>1. (connected \/ (fn = "closed" /\ reqs = <<>>))'
  <2>1. CASE Disconnect
    <3>1. fn' = "closed" /\ reqs' \in {reqs, <<>>} /\ fn \in {"idle", "disconnect"}
      BY <2>1 DEF Disconnect, RobotDisconnect
    <3>2. pending = NoTid /\ connected
      BY <3>1 DEF TypeInv, StepOK, Running, AllWell
    <3> QED BY <3>1, <3>2, Linked
  <2>2. CASE ~Disconnect
    <3>1. connected' = connected
      BY <2>2 DEF Next, Send, Receive, Fail, Timeout, OrderMove, OrderExit, Serve, Reject,
                  NoRequest, CopyWord, RobotReads, RobotActs, Robot, Reboot, vars, linkVars,
                  ModbusSend, ModbusReceive, ModbusNoConnection, ModbusTimeout, StartSendMove,
                  StartExit, PlcServe, PlcReject, PlcNoRequest, PlcCopyWord
    <3>2. fn = "closed" /\ reqs = <<>> => fn' = "closed" /\ reqs' = <<>>
      BY <2>2, ~Timeout, ~Reject, ~Break, ~Reboot
         DEF Next, Send, Receive, Fail, OrderMove, OrderExit, Serve,
             NoRequest, CopyWord, RobotReads, RobotActs, Robot, vars, linkVars, driverVars,
             ModbusSend, ModbusReceive, ModbusNoConnection, StartSendMove,
             StartExit, PlcServe, PlcNoRequest, PlcCopyWord, TypeInv, StepOK, Running
    <3> QED BY <3>1, <3>2 DEF AllWell
  <2> QED BY <2>1, <2>2
<1>2. ~Fail
  BY DEF Fail, ModbusNoConnection, AllWell, Running
<1>3. (\A l \in 1 .. calls : issued[l].outcome = "true" \/ (l = calls /\ fn = "robot_sendMove"))'
  <2>1. CASE Receive
    <3>1. pending # NoTid /\ rsps # <<>> /\ connected /\ fn \in Running
      BY <2>1 DEF Receive, ModbusReceive, AllWell, TypeInv, StepOK, Running
    <3>2. Confirms(Head(rsps))
      BY <3>1, Linked
    <3>3. \/ issued' = issued /\ fn # "robot_sendMove"
          \/ issued' = issued /\ fn' = "robot_sendMove"
          \/ /\ issued'[calls].outcome = "true" /\ calls' = calls
             /\ \A l \in 1 .. calls : l # calls => issued'[l] = issued[l]
      <4>1. fn = "robot_sendMove" /\ issued' = issued => fn' = "robot_sendMove"
        <5>1. ASSUME fn = "robot_sendMove", issued' = issued PROVE fn' = "robot_sendMove"
          <6>1. PICK ok, val : Continue(ok, val)
            BY <2>1 DEF Receive, ModbusReceive
          <6>2. GivesUp(ok) \/ PollsOn(ok, val) \/ GoesOn(ok, val) \/ Ends
            BY <3>1, <5>1, <6>1, ContinueStep
          <6>3. ~GivesUp(ok) /\ ~Ends
            <7>1. calls > 0 /\ {"true", "false"} \subseteq Outcomes
              BY <5>1 DEF TypeInv, StepOK, Outcomes
            <7>2. ASSUME NEW o \in {"true", "false"}, Finish(o) PROVE FALSE
              <8>1. issued' = [issued EXCEPT ![calls].outcome = o]
                BY <5>1, <7>2 DEF Finish
              <8>2. issued'[calls].outcome = o
                BY <7>1, <8>1, FinishMoves
              <8> QED BY <5>1, <8>2 DEF OutcomeOpen
            <7> QED BY <7>2 DEF GivesUp, Ends
          <6> QED BY <5>1, <6>2, <6>3 DEF PollsOn, GoesOn
        <5> QED BY <5>1
      <4> QED BY <2>1, <3>1, <3>2, <4>1, OutcomeSet
    <3>4. CASE issued' = issued /\ fn # "robot_sendMove"
      BY <3>4 DEF AllWell, calls
    <3>5. CASE issued' = issued /\ fn' = "robot_sendMove"
      BY <3>5 DEF AllWell, calls
    <3>6. CASE /\ issued'[calls].outcome = "true" /\ calls' = calls
               /\ \A l \in 1 .. calls : l # calls => issued'[l] = issued[l]
      BY <3>6 DEF AllWell
    <3> QED BY <3>3, <3>4, <3>5, <3>6
  <2>2. CASE OrderMove
    <3>1. fn = "idle" /\ fn' = "robot_sendMove"
      BY <2>2 DEF OrderMove, StartSendMove
    <3>2. calls' = calls + 1 /\ \A l \in 1 .. calls : issued'[l] = issued[l]
      BY <2>2, OrderAdds
    <3>3. \A l \in 1 .. calls' : l \in 1 .. calls \/ l = calls'
      BY <1>0, <3>2
    <3> QED BY <3>1, <3>2, <3>3 DEF AllWell
  <2>3. CASE \/ Send \/ OrderExit \/ Disconnect \/ UNCHANGED <<fn, step, tId, pending, issued>>
    <3>1. issued' = issued /\ (fn = "robot_sendMove" => fn' = "robot_sendMove")
      BY <2>3 DEF Send, OrderExit, Disconnect, ModbusSend, StartExit, RobotDisconnect
    <3> QED BY <3>1 DEF AllWell, calls
  <2> QED BY <1>2, <2>1, <2>2, <2>3, DriverStep
<1>4. d[ADDR_CMD_EXIT].val = CMD_EXIT => d'[ADDR_CMD_EXIT].val = CMD_EXIT
  <2>1. ASSUME reqs # <<>>, reqs[1].addr = ADDR_CMD_EXIT, d[ADDR_CMD_EXIT].val = CMD_EXIT
        PROVE  reqs[1].words[1].val = CMD_EXIT
    <3>1. 1 \in 1 .. Len(reqs)
      BY <1>0, <2>1
    <3> QED BY <2>1, <3>1 DEF ExitLast, ExitWord
  <2> QED BY <2>1, ExitStored
<1>5. (fn = "exit" /\ pending # NoTid =>
         d[ADDR_CMD_EXIT].val = CMD_EXIT \/ (reqs # <<>> /\ ExitWord(reqs[1])))'
  <2>1. CASE Send
    <3>1. ModbusSend /\ fn' = fn /\ connected /\ pending = NoTid
      BY <2>1 DEF Send, ModbusSend
    <3>2. reqs = <<>>
      BY <3>1, Linked
    <3>3. PICK r \in Request : reqs' = Append(reqs, r) /\ (fn = "exit" => ExitWord(r))
      BY <3>1, SendExit
    <3>4. reqs' # <<>> /\ reqs'[1] = r
      BY <3>2, <3>3
    <3> QED BY <3>1, <3>3, <3>4
  <2>2. CASE Serve
    <3> SUFFICES ASSUME fn = "exit", pending # NoTid PROVE d'[ADDR_CMD_EXIT].val = CMD_EXIT
      BY <2>2 DEF Serve, driverVars
    <3>1. CASE d[ADDR_CMD_EXIT].val = CMD_EXIT
      BY <1>4, <3>1
    <3>2. CASE reqs # <<>> /\ ExitWord(reqs[1])
      <4>1. d' = Store(Head(reqs))
        BY <2>2 DEF Serve, PlcServe
      <4>2. PICK r \in Request : r = reqs[1] /\ r = Head(reqs) /\ Shape(r) /\ ExitWord(r)
        BY <1>0, <3>2, OnlyOne DEF Shapes
      <4>3. r.op = "write_register"
        <5>1. r.op \in {"write_register", "write_registers", "read_registers"}
          BY DEF Request, Op
        <5> QED BY <4>2, <5>1, Addresses DEF Shape, ExitWord
      <4>4. d'[ADDR_CMD_EXIT] = r.words[1]
        BY <4>1, <4>2, <4>3, StoreWords, Addresses DEF ExitWord
      <4> QED BY <4>2, <4>4 DEF ExitWord
    <3> QED BY <3>1, <3>2 DEF AllWell
  <2>3. CASE Receive \/ OrderMove \/ OrderExit \/ Disconnect
    <3>1. pending' = NoTid \/ fn' # "exit"
      BY <2>3 DEF Receive, OrderMove, OrderExit, Disconnect, ModbusReceive, Continue,
                  StartSendMove, StartExit, RobotDisconnect, TypeInv, StepOK, Running
    <3> QED BY <3>1
  <2>4. CASE NoRequest \/ CopyWord \/ RobotReads \/ RobotActs \/ UNCHANGED vars
    <3>1. UNCHANGED <<fn, pending, reqs, d>>
      BY <2>4 DEF NoRequest, CopyWord, RobotReads, RobotActs, Robot, PlcNoRequest, PlcCopyWord,
                  vars, driverVars, linkVars, plcVars
    <3> QED BY <3>1 DEF AllWell, ExitWord
  <2> QED BY <1>2, <2>1, <2>2, <2>3, <2>4 DEF Next
<1>6. (fn = "disconnect" => d[ADDR_CMD_EXIT].val = CMD_EXIT)'
  <2>1. CASE Receive
    <3> SUFFICES ASSUME fn' = "disconnect" PROVE d[ADDR_CMD_EXIT].val = CMD_EXIT
      BY <1>4
    <3>1. pending # NoTid /\ rsps # <<>> /\ connected /\ fn \in Running
      BY <2>1 DEF Receive, ModbusReceive, AllWell, TypeInv, StepOK, Running
    <3>2. reqs = <<>>
      BY <3>1, Linked
    <3>3. fn = "exit"
      <4>1. fn' \in {fn, "idle", AfterLast}
        BY <2>1 DEF Receive, ModbusReceive, Continue
      <4> QED BY <3>1, <4>1 DEF AfterLast, Running
    <3> QED BY <3>1, <3>2, <3>3 DEF AllWell
  <2>2. CASE ~Receive
    <3>1. fn' = "disconnect" => fn = "disconnect"
      BY <1>2, <2>2, DriverStep DEF Send, OrderMove, OrderExit, Disconnect, ModbusSend,
             StartSendMove, StartExit, RobotDisconnect
    <3> QED BY <1>4, <3>1 DEF AllWell
  <2> QED BY <2>1, <2>2
<1> QED BY <1>1, <1>3, <1>5, <1>6 DEF AllWell

\* At the start nothing is done and nothing is lost.
LEMMA InitService == Init => ServiceInv
<1> SUFFICES ASSUME Init PROVE ServiceInv
  OBVIOUS
<1>1. /\ reqs = <<>> /\ connected /\ label = "main" /\ fn = "robot_connect"
      /\ pending = NoTid /\ issued = <<>> /\ performed = <<>> /\ faults = <<>>
      /\ robotIn = [a \in CommandAddrs |-> Zero] /\ d = [a \in CommandAddrs |-> Zero]
  BY DEF Init, LinkInit, PlcInit, DriverInit, RobotInit
<1>2. calls = 0
  BY <1>1 DEF calls
<1>3. Clean
  BY <1>1 DEF Clean
<1>4. PICK k \in 0 .. calls, n \in 0 .. 6 : Stage(k, n)
  BY <1>3, InitHandshake DEF HandshakeInv, HandshakeHeld
<1>5. InTurn(k)
  BY <1>1, <1>2 DEF InTurn
<1>6. ExitLast
  BY <1>1, ZeroWord, Addresses DEF ExitLast, CMD_EXIT
<1>7. OutcomeOpen /\ AllWell
  BY <1>1, <1>2 DEF OutcomeOpen, AllWell
<1> QED BY <1>4, <1>5, <1>6, <1>7 DEF ServiceInv

LEMMA NextService ==
  ASSUME Paced, "restart" \notin FaultKinds, TypeInv, OnceInv, HandshakeInv, ExitInv, ServiceInv,
         [Next]_vars
  PROVE  ServiceInv'
<1> SUFFICES ASSUME Clean'
             PROVE  /\ \E k \in 0 .. calls', n \in 0 .. 6 : Stage(k, n)' /\ InTurn(k)'
                    /\ ExitLast' /\ OutcomeOpen' /\ (faults' = <<>> => AllWell')
  BY DEF ServiceInv
<1>1. Clean /\ ~Timeout /\ ~Reject /\ ~Reboot
  BY CleanStep
<1>2. PICK k \in 0 .. calls, n \in 0 .. 6 : Stage(k, n) /\ InTurn(k)
  BY <1>1 DEF ServiceInv
<1>3. ExitLast /\ OutcomeOpen /\ Len(reqs) <= 1
  BY <1>1, <1>2 DEF ServiceInv, Stage
<1>4. faults' = <<>> => AllWell'
  BY <1>1, <1>2, <1>3, FaultFree, NextAllWell DEF ServiceInv, HandshakeInv, HandshakeHeld
<1>5. ExitLast'
  BY <1>3, NextExitLast DEF ExitInv
<1>6. OutcomeOpen'
  BY <1>1, <1>3, NextOutcomeOpen
<1>7. \E l \in 0 .. calls', m \in 0 .. 6 : Stage(l, m)' /\ InTurn(l)'
  BY <1>1, <1>2, NextTurn
<1> QED BY <1>4, <1>5, <1>6, <1>7

\* What the refinement rests on: nothing but the connection has failed.
Kept == /\ TypeInv /\ OnceInv /\ HandshakeInv /\ ExitInv /\ TrueInv /\ ServiceInv
        /\ Clean /\ ~Refused

LEMMA OrderedIsExecution ==
  ASSUME TypeInv, NEW k \in 1 .. calls
  PROVE  Ordered(k) \in Execution
<1>1. issued[k].move \in Moves /\ Reg16(issued[k].move.type) = issued[k].move.type
  BY MoveOf
<1>2. issued[k].move.source \in Int /\ issued[k].move.dest \in Int /\ issued[k].move.type \in Int
  BY <1>1, MovesAssumption DEF MOVE, NORMAL_MOVE, HIT_MOVE
<1>3. /\ Reg16(issued[k].move.source) \in REG16 /\ Reg16(issued[k].move.dest) \in REG16
      /\ issued[k].move.type \in REG16 /\ k \in Nat
  BY <1>1, <1>2, Reg16Type, StageTypes
<1> QED BY <1>3 DEF Ordered, JobOf, Execution

\* A function on 1 .. n is a sequence of length n.
LEMMA FunctionIsSeq ==
  ASSUME NEW S, NEW n \in Nat, NEW f \in [1 .. n -> S]
  PROVE  f \in Seq(S) /\ Len(f) = n
<1>1. f \in Seq(S)
  BY SeqDef
<1>2. DOMAIN f = 1 .. Len(f) /\ Len(f) \in Nat /\ DOMAIN f = 1 .. n
  BY <1>1, LenProperties
<1>3. n <= Len(f) /\ Len(f) <= n
  <2>1. n = 0 \/ n \in 1 .. Len(f)
    BY <1>2
  <2>2. Len(f) = 0 \/ Len(f) \in 1 .. n
    BY <1>2
  <2> QED BY <1>2, <2>1, <2>2
<1> QED BY <1>1, <1>2, <1>3

LEMMA OrderedSeq ==
  ASSUME TypeInv
  PROVE  /\ OrderedMoves \in Seq(Execution) /\ Len(OrderedMoves) = calls
         /\ IsFiniteSet(TrueCalls) /\ Cardinality(TrueCalls) \in Nat /\ TrueCalls \subseteq 1 .. calls
         /\ IsFiniteSet(1 .. calls) /\ Cardinality(1 .. calls) = calls
<1>1. calls \in Nat
  BY StageTypes
<1>2. OrderedMoves \in [1 .. calls -> Execution]
  BY OrderedIsExecution DEF OrderedMoves
<1>3. OrderedMoves \in Seq(Execution) /\ Len(OrderedMoves) = calls
  BY <1>1, <1>2, FunctionIsSeq
<1>4. IsFiniteSet(1 .. calls) /\ Cardinality(1 .. calls) = calls
  BY <1>1, FS_Interval
<1>5. TrueCalls \subseteq 1 .. calls
  BY DEF TrueCalls
<1> QED BY <1>3, <1>4, <1>5, FS_Subset, FS_CardinalityType

\* What has been ordered stays as it is while nothing is added.
LEMMA OrdersKept ==
  ASSUME TypeInv, [Next]_vars, calls' = calls
  PROVE  OrderedMoves' = OrderedMoves
<1>1. \A k \in 1 .. calls : Ordered(k)' = Ordered(k)
  BY OrderedStays
<1>2. OrderedMoves' = [k \in 1 .. calls |-> Ordered(k)']
  BY DEF OrderedMoves
<1> QED BY <1>1, <1>2 DEF OrderedMoves

\* The abstract state is as it was.
ServiceKept == /\ calls' = calls /\ TrueCalls' = TrueCalls /\ performed' = performed
               /\ Exiting' = Exiting /\ (label' = "exit" <=> label = "exit")
               /\ (faults' = <<>> <=> faults = <<>>)

LEMMA Stutters ==
  ASSUME TypeInv, [Next]_vars, ServiceKept
  PROVE  UNCHANGED Service!serviceVars
<1>1. OrderedMoves' = OrderedMoves
  BY OrdersKept DEF ServiceKept
<1>2. Cardinality(TrueCalls)' = Cardinality(TrueCalls)
  BY DEF ServiceKept
<1>3. (label # "exit")' = (label # "exit") /\ (faults # <<>>)' = (faults # <<>>)
  BY DEF ServiceKept
<1> QED BY <1>1, <1>2, <1>3 DEF ServiceKept, Service!serviceVars

\* All that was ordered has been reported, unless the connection is lost.
LEMMA AllReported ==
  ASSUME Kept, fn = "idle"
  PROVE  ~Exiting /\ (Cardinality(TrueCalls) = Len(OrderedMoves) \/ faults # <<>>)
<1>1. ~Exiting
  BY DEF Kept, ServiceInv, ExitLast, Leaving, Exiting
<1>2. ASSUME faults = <<>> PROVE Cardinality(TrueCalls) = Len(OrderedMoves)
  <2>1. TrueCalls = 1 .. calls
    BY <1>2 DEF Kept, ServiceInv, AllWell, TrueCalls
  <2> QED BY <2>1, OrderedSeq DEF Kept
<1> QED BY <1>1, <1>2

LEMMA MapsOrder ==
  ASSUME Kept, TypeInv', OrderMove
  PROVE  Service!Order
<1>0. [Next]_vars /\ TypeInv
  BY DEF Next, Kept
<1>1. /\ fn = "idle" /\ fn' = "robot_sendMove" /\ calls < MaxMoves
      /\ UNCHANGED <<d, label, performed, faults>>
  BY DEF OrderMove, StartSendMove, plcVars, robotVars
<1>2. PICK m \in Moves : /\ calls' = calls + 1 /\ calls \in Nat
                         /\ issued'[calls + 1] = [move |-> m, outcome |-> "pending"]
                         /\ \A k \in 1 .. calls : issued'[k] = issued[k]
  BY <1>0, OrderAdds
<1> DEFINE job == JobOf(calls + 1, m)
<1>3. job \in {JobOf(k, x) : k \in 1 .. MaxMoves, x \in Moves}
  <2>1. calls + 1 \in 1 .. MaxMoves
    BY <1>1, <1>2, MaxMovesAssumption
  <2> QED BY <2>1
<1>4. OrderedMoves' = Append(OrderedMoves, job)
  <2>1. OrderedMoves' = [k \in 1 .. calls + 1 |-> Ordered(k)']
    BY <1>2 DEF OrderedMoves
  <2>2. \A k \in 1 .. calls : OrderedMoves'[k] = OrderedMoves[k]
    <3>1. \A k \in 1 .. calls : Ordered(k)' = Ordered(k)
      BY <1>0, OrderedStays
    <3>2. \A k \in 1 .. calls : k \in 1 .. calls + 1
      BY <1>2
    <3> QED BY <2>1, <3>1, <3>2 DEF OrderedMoves
  <2>3. OrderedMoves'[calls + 1] = job
    <3>1. calls + 1 \in 1 .. calls + 1
      BY <1>2
    <3>2. \A k : Ordered(k)' = JobOf(k, issued'[k].move)
      BY DEF Ordered, JobOf
    <3>3. OrderedMoves'[calls + 1] = JobOf(calls + 1, issued'[calls + 1].move)
      <4>1. PICK c \in 1 .. calls + 1 : c = calls + 1
        BY <3>1
      <4>2. OrderedMoves'[c] = JobOf(c, issued'[c].move)
        BY <2>1, <3>2
      <4> QED BY <4>1, <4>2
    <3> QED BY <1>2, <3>3
  <2>4. OrderedMoves' \in Seq(Execution) /\ Len(OrderedMoves') = calls + 1
    <3>1. (OrderedMoves \in Seq(Execution) /\ Len(OrderedMoves) = calls)'
      <4>1. (TypeInv => OrderedMoves \in Seq(Execution) /\ Len(OrderedMoves) = calls)'
        BY OrderedSeq, PTL
      <4> QED BY <4>1
    <3> QED BY <1>2, <3>1
  <2>5. OrderedMoves \in Seq(Execution) /\ Len(OrderedMoves) = calls
    BY <1>0, OrderedSeq
  <2>6. job \in Execution
    <3>1. calls + 1 \in 1 .. Len(OrderedMoves')
      BY <1>2, <2>4
    <3> QED BY <2>3, <2>4, <3>1, ElementOfSeq
  <2> HIDE DEF job
  <2>7. PICK s \in Seq(Execution) : s = Append(OrderedMoves, job)
    BY <2>5, <2>6, AppendProperties
  <2>8. /\ Len(s) = calls + 1 /\ s[calls + 1] = job
        /\ \A k \in 1 .. calls : s[k] = OrderedMoves[k]
    BY <2>5, <2>6, <2>7
  <2>9. \A k \in 1 .. calls + 1 : k \in 1 .. calls \/ k = calls + 1
    BY <1>2
  <2>10. OrderedMoves' = s
    <3>1. \A k \in 1 .. Len(s) : OrderedMoves'[k] = s[k]
      BY <2>2, <2>3, <2>8, <2>9
    <3>2. PICK t \in Seq(Execution) : t = OrderedMoves'
      BY <2>4
    <3> QED BY <2>4, <2>7, <2>8, <3>1, <3>2, SeqEqual
  <2> QED BY <2>7, <2>10
<1>5. TrueCalls' = TrueCalls
  <2>1. \A k \in 1 .. calls' : k \in 1 .. calls \/ k = calls + 1
    BY <1>2
  <2>2. \A k \in 1 .. calls : k \in 1 .. calls'
    BY <1>2
  <2>3. issued'[calls + 1].outcome # "true"
    BY <1>2
  <2> QED BY <1>2, <2>1, <2>2, <2>3 DEF TrueCalls
<1>6. Exiting' = Exiting
  BY <1>1 DEF Exiting
<1>7. ~Exiting /\ (Cardinality(TrueCalls) = Len(OrderedMoves) \/ faults # <<>>)
  BY <1>1, AllReported
<1> QED BY <1>1, <1>3, <1>4, <1>5, <1>6, <1>7 DEF Service!Order

LEMMA MapsExit ==
  ASSUME Kept, OrderExit
  PROVE  Service!AskExit
<1>0. [Next]_vars /\ TypeInv
  BY DEF Next, Kept
<1>1. /\ fn = "idle" /\ fn' = "exit" /\ issued' = issued
      /\ UNCHANGED <<d, label, performed, faults>>
  BY DEF OrderExit, StartExit, plcVars, robotVars
<1>2. TrueCalls' = TrueCalls /\ calls' = calls /\ Exiting'
  BY <1>1 DEF TrueCalls, calls, Exiting
<1>3. OrderedMoves' = OrderedMoves
  BY <1>0, <1>2, OrdersKept
<1>4. ~Exiting /\ (Cardinality(TrueCalls) = Len(OrderedMoves) \/ faults # <<>>)
  BY <1>1, AllReported
<1>5. Exiting' = TRUE
  BY <1>2 DEF Exiting
<1> QED BY <1>1, <1>2, <1>3, <1>4, <1>5 DEF Service!AskExit

\* The move that the robot makes is the next one ordered.
LEMMA MapsPerform ==
  ASSUME Kept, RobotActs, RobotStartNormalMove
  PROVE  Service!Perform
<1>0. [Next]_vars /\ TypeInv
  BY DEF Next, Kept
<1>1. /\ label = "startNormalMove" /\ label' = "moveReady"
      /\ performed' = Append(performed, [call |-> nW.cmd1.by, source |-> nW.source.val,
                                         dest |-> nW.dest.val, type |-> nW.type.val])
      /\ UNCHANGED <<fn, issued, d, faults>>
  BY DEF RobotActs, Robot, RobotStartNormalMove, driverVars, plcVars
<1>2. PICK k \in 0 .. calls, n \in 0 .. 6 : Stage(k, n) /\ InTurn(k)
  BY DEF Kept, ServiceInv
<1>3. k = Len(performed) + 1 /\ k \in 1 .. calls
  BY <1>0, <1>2, TurnPerforms DEF Kept, OnceInv
<1>4. /\ nW.cmd1.by = k /\ nW.source.val = Ordered(k).source /\ nW.dest.val = Ordered(k).dest
      /\ nW.type.val = Ordered(k).type
  BY <1>1, <1>2 DEF Stage, RobotAt, Reading, ParamLabels
<1>5. performed' = Append(performed, OrderedMoves[Len(performed) + 1])
  <2>1. OrderedMoves[k] = Ordered(k)
    BY <1>3 DEF OrderedMoves
  <2>2. Ordered(k) = [call |-> nW.cmd1.by, source |-> nW.source.val, dest |-> nW.dest.val,
                      type |-> nW.type.val]
    BY <1>4 DEF Ordered, JobOf
  <2> QED BY <1>1, <1>3, <2>1, <2>2
<1>6. Len(performed) < Len(OrderedMoves)
  <2>1. Len(performed) \in Nat /\ calls \in Nat /\ Len(OrderedMoves) = calls
    BY <1>0, OrderedSeq, StageTypes DEF TypeInv, TypeOK, RobotTypeOK
  <2> QED BY <1>3, <2>1
<1>7. TrueCalls' = TrueCalls /\ calls' = calls /\ Exiting' = Exiting
  BY <1>1 DEF TrueCalls, calls, Exiting
<1>8. OrderedMoves' = OrderedMoves
  BY <1>0, <1>7, OrdersKept
<1> QED BY <1>1, <1>5, <1>6, <1>7, <1>8 DEF Service!Perform

\* robot_sendMove reports a move that has been made and not been reported.
LEMMA MapsReturn ==
  ASSUME Kept, Receive \/ Fail
  PROVE  Service!Report \/ UNCHANGED Service!serviceVars
<1>0. [Next]_vars /\ TypeInv
  BY DEF Next, Kept
<1>1. UNCHANGED <<d, label, performed, faults>>
  BY DEF Receive, Fail, plcVars, robotVars
<1>2. Exiting' = Exiting
  <2>1. PICK ok, val : Continue(ok, val) /\ fn \in Running
    BY <1>0, Returned
  <2>2. fn' = fn \/ fn' = AfterLast \/ (fn = "robot_sendMove" /\ fn' = "idle")
    BY <2>1 DEF Continue, Fails
  <2>3. fn' \in {"exit", "disconnect"} <=> fn \in {"exit", "disconnect"}
    BY <2>1, <2>2 DEF AfterLast, Running
  <2> QED BY <1>1, <2>3 DEF Exiting
<1>3. CASE TrueCalls' = TrueCalls /\ calls' = calls
  BY <1>0, <1>1, <1>2, <1>3, Stutters DEF ServiceKept
<1>4. CASE issued' = issued
  BY <1>3, <1>4 DEF TrueCalls, calls
<1>5. CASE /\ fn = "robot_sendMove" /\ calls > 0 /\ calls' = calls
           /\ \A k \in 1 .. calls : k # calls => issued'[k] = issued[k]
           /\ issued'[calls].outcome = "false"
  <2>1. issued[calls].outcome # "true"
    BY <1>5 DEF Kept, ServiceInv, OutcomeOpen
  <2>2. \A k \in 1 .. calls : issued'[k].outcome = "true" <=> issued[k].outcome = "true"
    BY <1>5, <2>1
  <2> QED BY <1>3, <1>5, <2>2 DEF TrueCalls
<1>6. CASE /\ fn = "robot_sendMove" /\ calls > 0 /\ calls' = calls /\ step = 7
           /\ \A k \in 1 .. calls : k # calls => issued'[k] = issued[k]
           /\ issued'[calls].outcome = "true"
  <2>0. calls \in 1 .. calls /\ performed \in Seq(Execution) /\ Len(performed) \in Nat
    BY <1>0, <1>6, StageTypes DEF TypeInv, TypeOK, RobotTypeOK
  <2>1. calls \notin TrueCalls
    BY <1>6 DEF Kept, ServiceInv, OutcomeOpen, TrueCalls
  <2>2. TrueCalls' = TrueCalls \cup {calls}
    BY <1>6, <2>0 DEF TrueCalls
  <2>3. \A k \in TrueCalls \cup {calls} : k \in 1 .. calls /\ Done(k)
    <3>1. TrueMeansPerformed /\ Done(calls)
      BY <1>6 DEF Kept, TrueInv
    <3>2. \A k \in TrueCalls : Done(k)
      BY <3>1 DEF TrueMeansPerformed, TrueCalls, Done
    <3>3. \A k \in {calls} : Done(k)
      BY <3>1
    <3> QED BY <2>0, <3>2, <3>3 DEF TrueCalls
  <2>4. \A i \in 1 .. Len(performed) : performed[i].call = i
    BY DEF Kept, ServiceInv, InTurn
  <2>5. TrueCalls' \subseteq 1 .. Len(performed)
    <3> SUFFICES ASSUME NEW k \in TrueCalls \cup {calls} PROVE k \in 1 .. Len(performed)
      BY <2>2
    <3>1. PICK i \in 1 .. Len(performed) : performed[i] = Ordered(k)
      BY <2>3 DEF Done
    <3>2. Ordered(k).call = k
      BY DEF Ordered, JobOf
    <3> QED BY <2>4, <3>1, <3>2
  <2>6. Cardinality(TrueCalls') = Cardinality(TrueCalls) + 1
    BY <1>0, <2>1, <2>2, OrderedSeq, FS_AddElement
  <2>7. Cardinality(TrueCalls') <= Len(performed)
    <3>1. IsFiniteSet(1 .. Len(performed)) /\ Cardinality(1 .. Len(performed)) = Len(performed)
      <4>1. PICK p \in Nat : p = Len(performed)
        BY <2>0
      <4>2. IsFiniteSet(1 .. p) /\ Cardinality(1 .. p) = p
        BY FS_Interval
      <4> QED BY <4>1, <4>2
    <3>2. Cardinality(TrueCalls') <= Cardinality(1 .. Len(performed))
      BY <2>5, <3>1, FS_Subset
    <3> QED BY <3>1, <3>2
  <2>8. Cardinality(TrueCalls) \in Nat
    BY <1>0, OrderedSeq
  <2>9. Cardinality(TrueCalls) < Len(performed)
    BY <2>0, <2>6, <2>7, <2>8
  <2>10. OrderedMoves' = OrderedMoves
    BY <1>0, <1>6, OrdersKept
  <2> QED BY <1>1, <1>2, <2>6, <2>9, <2>10 DEF Service!Report
<1> QED BY <1>0, <1>4, <1>5, <1>6, OutcomeSet

\* A scan may store the exit command of a program that has gone already.
LEMMA MapsServe ==
  ASSUME Kept, Serve
  PROVE  Service!AskExit \/ UNCHANGED Service!serviceVars
<1>0. [Next]_vars /\ TypeInv /\ Shapes
  BY DEF Next, Kept, HandshakeInv, HandshakeHeld
<1>1. UNCHANGED <<fn, pending, issued, label, performed, faults>>
  BY DEF Serve, driverVars, robotVars
<1>2. TrueCalls' = TrueCalls /\ calls' = calls
  BY <1>1 DEF TrueCalls, calls
<1>3. CASE Exiting' = Exiting
  BY <1>0, <1>1, <1>2, <1>3, Stutters DEF ServiceKept
<1>4. PICK k \in 0 .. calls, n \in 0 .. 6 : Stage(k, n) /\ Len(reqs) <= 1 /\ ExitLast
  BY DEF Kept, ServiceInv, Stage
<1>5. reqs # <<>> /\ reqs \in Seq(Request) /\ 1 \in 1 .. Len(reqs)
  BY <1>0, StageTypes, OnlyOne DEF Serve, PlcServe
<1>6. CASE Exiting' # Exiting
  <2>1. d'[ADDR_CMD_EXIT].val # d[ADDR_CMD_EXIT].val /\ fn \notin {"exit", "disconnect"}
    BY <1>1, <1>6 DEF Exiting
  <2>2. reqs[1].addr = ADDR_CMD_EXIT /\ d'[ADDR_CMD_EXIT] = reqs[1].words[1]
    BY <1>0, <2>1, ExitStored
  <2>3. d[ADDR_CMD_EXIT].val # CMD_EXIT
    BY <1>4, <1>5, <2>1, <2>2 DEF ExitLast, ExitWord
  <2>4. d'[ADDR_CMD_EXIT].val = CMD_EXIT
    BY <1>1, <1>6, <2>1, <2>3 DEF Exiting
  <2>5. fn = "closed"
    BY <1>4, <1>5, <2>1, <2>2, <2>4 DEF ExitLast, ExitWord, Leaving
  <2>6. faults # <<>>
    <3> SUFFICES ASSUME faults = <<>> PROVE FALSE
      OBVIOUS
    <3>1. connected
      BY <1>5 DEF Kept, ServiceInv, AllWell
    <3>2. pending = NoTid
      BY <1>0, <2>5 DEF TypeInv, StepOK, Running
    <3> QED BY <1>0, <1>4, <1>5, <3>1, <3>2, Linked
  <2>7. Exiting = FALSE /\ Exiting' = TRUE
    BY <2>1, <2>3, <2>4 DEF Exiting
  <2>8. OrderedMoves' = OrderedMoves
    BY <1>0, <1>2, OrdersKept
  <2> QED BY <1>1, <1>2, <2>6, <2>7, <2>8 DEF Service!AskExit
<1> QED BY <1>3, <1>6

\* The robot's program ends after the exit command.
LEMMA MapsRobot ==
  ASSUME Kept, RobotReads \/ (RobotActs /\ ~RobotStartNormalMove)
  PROVE  Service!SwitchOff \/ UNCHANGED Service!serviceVars
<1>0. [Next]_vars /\ TypeInv /\ ~(RobotActs /\ RobotStartNormalMove)
  <2>1. ASSUME RobotReads, RobotActs, RobotStartNormalMove PROVE FALSE
    BY <2>1 DEF RobotReads, Robot, RobotStartNormalMove, RobotMain, RobotReadCmd1,
                RobotReadSecond, RobotReadType, RobotReadSource, RobotReadDest
  <2> QED BY <2>1 DEF Next, Kept
<1>1. UNCHANGED <<fn, issued, d, performed, faults>>
  <2>1. performed' = performed
    BY <1>0, PerformedStep
  <2> QED BY <2>1 DEF RobotReads, RobotActs, Robot, driverVars, plcVars
<1>2. TrueCalls' = TrueCalls /\ calls' = calls /\ Exiting' = Exiting
  BY <1>1 DEF TrueCalls, calls, Exiting
<1>3. label = "exit" => label' = "exit"
  BY DEF RobotReads, RobotActs, Robot, RobotMain, RobotReadCmd1, RobotReadSecond,
         RobotReadType, RobotReadSource, RobotReadDest, RobotStartHitMove, RobotStartNormalMove,
         RobotOffBoard, RobotMoveReady, RobotWaitForPc, RobotClearReady
<1>4. CASE label' = "exit" /\ label # "exit"
  <2>1. robotIn[ADDR_CMD_EXIT].val = CMD_EXIT
    BY <1>0, <1>4, ExitStep DEF Kept, ExitInv
  <2>2. Exiting
    BY <2>1 DEF Kept, ServiceInv, ExitLast, Exiting
  <2>3. OrderedMoves' = OrderedMoves
    BY <1>0, <1>2, OrdersKept
  <2>4. (label # "exit")' = FALSE
    BY <1>4
  <2> QED BY <1>1, <1>2, <1>4, <2>2, <2>3, <2>4 DEF Service!SwitchOff
<1>5. CASE ~(label' = "exit" /\ label # "exit")
  BY <1>0, <1>1, <1>2, <1>3, <1>5, Stutters DEF ServiceKept
<1> QED BY <1>4, <1>5

LEMMA MapsBreak ==
  ASSUME Kept, Break
  PROVE  Service!Lose \/ UNCHANGED Service!serviceVars
<1>0. [Next]_vars /\ TypeInv
  BY DEF Next, Kept
<1>1. UNCHANGED <<fn, issued, d, label, performed>>
  BY DEF Break, ConnectionLost, driverVars, plcVars, robotVars
<1>2. TrueCalls' = TrueCalls /\ calls' = calls /\ Exiting' = Exiting
  BY <1>1 DEF TrueCalls, calls, Exiting
<1>3. faults' # <<>>
  <2>1. faults' = Append(faults, "loss") /\ faults \in Seq(FaultKinds) /\ "loss" \in FaultKinds
    BY <1>0 DEF Break, Fault, TypeInv, TypeOK, FaultsOK
  <2> QED BY <2>1, AppendProperties
<1>4. CASE faults = <<>>
  <2>1. OrderedMoves' = OrderedMoves
    BY <1>0, <1>2, OrdersKept
  <2>2. (faults # <<>>)' = TRUE
    BY <1>3
  <2> QED BY <1>1, <1>2, <1>4, <2>1, <2>2 DEF Service!Lose
<1>5. CASE faults # <<>>
  BY <1>0, <1>1, <1>2, <1>3, <1>5, Stutters DEF ServiceKept
<1> QED BY <1>4, <1>5

\* A program that goes after an exit command that was lost takes it with it.
LEMMA MapsDisconnect ==
  ASSUME Kept, Disconnect
  PROVE  Service!LoseExit \/ UNCHANGED Service!serviceVars
<1>0. [Next]_vars /\ TypeInv
  BY DEF Next, Kept
<1>1. /\ fn \in {"idle", "disconnect"} /\ fn' = "closed"
      /\ UNCHANGED <<issued, d, label, performed, faults>>
  BY DEF Disconnect, RobotDisconnect, plcVars, robotVars
<1>2. TrueCalls' = TrueCalls /\ calls' = calls
  BY <1>1 DEF TrueCalls, calls
<1>3. CASE Exiting' = Exiting
  BY <1>0, <1>1, <1>2, <1>3, Stutters DEF ServiceKept
<1>4. CASE Exiting' # Exiting
  <2>1. fn = "disconnect" /\ d[ADDR_CMD_EXIT].val # CMD_EXIT
    BY <1>1, <1>4 DEF Exiting
  <2>2. faults # <<>> /\ label # "exit"
    BY <2>1 DEF Kept, ServiceInv, AllWell, ExitLast
  <2>3. Exiting = TRUE /\ Exiting' = FALSE
    BY <1>1, <2>1 DEF Exiting
  <2>4. OrderedMoves' = OrderedMoves
    BY <1>0, <1>2, OrdersKept
  <2> QED BY <1>1, <1>2, <2>2, <2>3, <2>4 DEF Service!LoseExit
<1> QED BY <1>3, <1>4

\* The other steps are none of the service.
LEMMA MapsQuiet ==
  ASSUME Kept, Send \/ NoRequest \/ CopyWord \/ UNCHANGED vars
  PROVE  UNCHANGED Service!serviceVars
<1>0. [Next]_vars /\ TypeInv
  BY DEF Next, Kept
<1>1. UNCHANGED <<fn, issued, d, label, performed, faults>>
  BY DEF Send, NoRequest, CopyWord, ModbusSend, PlcNoRequest, PlcCopyWord, vars, driverVars,
         plcVars, robotVars
<1>2. TrueCalls' = TrueCalls /\ calls' = calls /\ Exiting' = Exiting
  BY <1>1 DEF TrueCalls, calls, Exiting
<1> QED BY <1>0, <1>1, <1>2, Stutters DEF ServiceKept

LEMMA ServiceStep ==
  ASSUME Kept, TypeInv', Clean', [Next]_vars
  PROVE  [Service!ServiceNext]_(Service!serviceVars)
<1>1. ~Timeout /\ ~Reject /\ ~Reboot
  BY CleanStep DEF Kept
<1>2. CASE OrderMove
  BY <1>2, MapsOrder DEF Service!ServiceNext
<1>3. CASE OrderExit
  BY <1>3, MapsExit DEF Service!ServiceNext
<1>4. CASE Receive \/ Fail
  BY <1>4, MapsReturn DEF Service!ServiceNext
<1>5. CASE Serve
  BY <1>5, MapsServe DEF Service!ServiceNext
<1>6. CASE RobotActs /\ RobotStartNormalMove
  BY <1>6, MapsPerform DEF Service!ServiceNext
<1>7. CASE RobotReads \/ (RobotActs /\ ~RobotStartNormalMove)
  BY <1>7, MapsRobot DEF Service!ServiceNext
<1>8. CASE Break
  BY <1>8, MapsBreak DEF Service!ServiceNext
<1>9. CASE Disconnect
  BY <1>9, MapsDisconnect DEF Service!ServiceNext
<1>10. CASE Send \/ NoRequest \/ CopyWord \/ UNCHANGED vars
  BY <1>10, MapsQuiet
<1> QED BY <1>1, <1>2, <1>3, <1>4, <1>5, <1>6, <1>7, <1>8, <1>9, <1>10 DEF Next

LEMMA InitMaps == Init => Service!ServiceInit
<1> SUFFICES ASSUME Init PROVE Service!ServiceInit
  OBVIOUS
<1>1. /\ label = "main" /\ fn = "robot_connect" /\ issued = <<>> /\ performed = <<>>
      /\ faults = <<>> /\ d = [a \in CommandAddrs |-> Zero]
  BY DEF Init, LinkInit, PlcInit, DriverInit, RobotInit
<1>2. calls = 0 /\ 1 .. calls = {}
  BY <1>1 DEF calls
<1>3. TrueCalls = {} /\ Cardinality(TrueCalls) = 0
  BY <1>2, FS_EmptySet DEF TrueCalls
<1>4. OrderedMoves = <<>>
  <2>1. OrderedMoves \in Seq(Execution) /\ Len(OrderedMoves) = 0
    BY <1>2, InitType, OrderedSeq
  <2> QED BY <2>1, EmptySeq
<1>5. Exiting = FALSE
  BY <1>1, ZeroWord, Addresses DEF Exiting, CMD_EXIT
<1> QED BY <1>1, <1>3, <1>4, <1>5 DEF Service!ServiceInit

\* The invariant that the refinement rests on.
THEOREM ServiceInvariant ==
  ASSUME Paced, "restart" \notin FaultKinds
  PROVE  Spec => []ServiceInv
<1>1. TypeInv /\ OnceInv /\ HandshakeInv /\ ExitInv /\ ServiceInv /\ [Next]_vars => ServiceInv'
  BY NextService
<1> QED BY InitType, NextType, InitService, OnceInvariant, HandshakeInvariant, ExitInvariant,
           <1>1, PTL DEF Spec

\* For an application that waits for the signal to go, and whatever breaks the
\* connection at any point, the PC program, the PLC and the robot together are the
\* move service: every move is made once, as ordered and in turn, before it is
\* reported, and the robot's program ends only after the exit command, which the
\* application gives when all its moves have been reported or the connection is lost.
THEOREM SystemIsService ==
  ASSUME Paced, FaultKinds \subseteq {"loss"}, MaxFaults < TidCount
  PROVE  Spec => ImplementsService
<1>1. "restart" \notin FaultKinds
  OBVIOUS
<1>2. TypeInv => Clean /\ ~Refused
  <2> SUFFICES ASSUME TypeInv PROVE Clean /\ ~Refused
    OBVIOUS
  <2>1. faults \in Seq(FaultKinds) /\ DOMAIN faults = 1 .. Len(faults)
    BY DEF TypeInv, TypeOK, FaultsOK
  <2>2. \A i \in 1 .. Len(faults) : faults[i] \in FaultKinds
    BY <2>1, ElementOfSeq
  <2> QED BY <2>1, <2>2 DEF Clean, Refused
<1>3. Spec => []Kept
  <2>1. TypeInv /\ OnceInv /\ HandshakeInv /\ ExitInv /\ TrueInv /\ ServiceInv => Kept
    BY <1>2 DEF Kept
  <2>2. Spec => []TrueInv
    BY <1>1, TrueInvariant
  <2>3. Spec => []ServiceInv
    BY <1>1, ServiceInvariant
  <2>4. Spec => []ExitInv
    BY <1>1, ExitInvariant
  <2> QED BY InitType, NextType, OnceInvariant, HandshakeInvariant, <2>1, <2>2, <2>3, <2>4, PTL
          DEF Spec
<1>4. Kept /\ Kept' /\ [Next]_vars => [Service!ServiceNext]_(Service!serviceVars)
  <2>1. Kept' => TypeInv' /\ Clean'
    BY DEF Kept
  <2> QED BY <2>1, ServiceStep
<1> QED BY InitMaps, <1>3, <1>4, PTL DEF Spec, ImplementsService
=============================================================================
