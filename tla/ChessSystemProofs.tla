------------------------- MODULE ChessSystemProofs -------------------------
(***************************************************************************)
(* Proofs about ChessSystem, for every set of moves, every number of       *)
(* calls, every number and kind of faults, and with or without a pause     *)
(* between the moves.                                                      *)
(***************************************************************************)
EXTENDS ChessSystem, SequenceTheorems, TLAPS

-----------------------------------------------------------------------------
(* Types.  TypeOK is not inductive: the running function's script must have *)
(* a call at "step", a call is pending only while a function runs, and      *)
(* robot_sendMove has a move.                                               *)

StepOK ==
  /\ fn = "robot_connect" => step \in 1 .. 6
  /\ fn = "modbusClearCommand" => step \in 1 .. 3
  /\ fn = "robot_sendMove" => step \in 1 .. 7 /\ calls > 0
  /\ fn = "exit" => step = 1
  /\ fn \notin Running => step = 1 /\ pending = NoTid

TypeInv == TypeOK /\ StepOK

\* A libmodbus call of the driver: where it writes, and how much.
Call == [op : Op, addr : CommandAddrs \union {ADDR_READY}, vals : Seq(REG16)]

\* Only the first call of robot_sendMove writes CMD_ALLOW_MOVE_1.
GoodCall(c, first) ==
  /\ c \in Call
  /\ c.addr = ADDR_CMD_1 => /\ 1 \in DOMAIN c.vals
                            /\ c.vals[1] = CMD_ALLOW_MOVE_1 => first

\* (REG16) n is a 16-bit value, whatever the int.
LEMMA Reg16Type == ASSUME NEW n \in Int PROVE Reg16(n) \in REG16
  BY DEF Reg16, REG16

\* The addresses are different, and the commands are 16-bit values.
LEMMA Constants ==
  /\ CommandAddrs = 540 .. 545
  /\ {CMD_ALLOW_MOVE_1, CMD_ALLOW_MOVE_2, CMD_EXIT, CMD_CLR_READY, CMD_READY, 0} \subseteq REG16
  /\ CMD_ALLOW_MOVE_1 \notin {0, CMD_CLR_READY}
  BY DEF CommandAddrs, REG16, ADDR_CMD_1, ADDR_CMD_EXIT, CMD_ALLOW_MOVE_1, CMD_ALLOW_MOVE_2,
         CMD_EXIT, CMD_CLR_READY, CMD_READY

\* robot_sendCmd picks the register of the command.
LEMMA SendCmdRegister ==
  /\ SendCmd(CMD_ALLOW_MOVE_1) = WriteRegister(540, CMD_ALLOW_MOVE_1)
  /\ SendCmd(CMD_CLR_READY) = WriteRegister(540, CMD_CLR_READY)
  /\ SendCmd(CMD_ALLOW_MOVE_2) = WriteRegister(541, CMD_ALLOW_MOVE_2)
  /\ SendCmd(CMD_EXIT) = WriteRegister(545, CMD_EXIT)
  BY DEF SendCmd, ADDR_CMD_1, ADDR_CMD_2, ADDR_CMD_EXIT, CMD_ALLOW_MOVE_1,
         CMD_ALLOW_MOVE_2, CMD_EXIT, CMD_CLR_READY

\* A write of one register is a proper call.
LEMMA WriteRegisterGood ==
  ASSUME NEW a \in CommandAddrs, NEW v \in REG16
  PROVE  /\ WriteRegister(a, v) \in Call
         /\ WriteRegister(a, v).addr = a
         /\ 1 \in DOMAIN WriteRegister(a, v).vals
         /\ WriteRegister(a, v).vals[1] = v
<1>1. <<v>> \in Seq(REG16) /\ DOMAIN <<v>> = {1} /\ <<v>>[1] = v
  OBVIOUS
<1> QED BY <1>1 DEF Call, Op, WriteRegister

\* So are the write of the three parameters and the read of the READY word.
LEMMA OtherCallsGood ==
  /\ \A x, y, z \in REG16 : GoodCall(WriteRegisters(ADDR_MOVESOURCE, <<x, y, z>>), FALSE)
  /\ GoodCall(ReadReady, FALSE)
<1>1. ADDR_MOVESOURCE = 542 /\ ADDR_CMD_1 = 540 /\ ADDR_READY = 1040
  BY DEF ADDR_MOVESOURCE, ADDR_CMD_1, ADDR_READY
<1>2. ASSUME NEW x \in REG16, NEW y \in REG16, NEW z \in REG16
      PROVE  GoodCall(WriteRegisters(ADDR_MOVESOURCE, <<x, y, z>>), FALSE)
  BY <1>1, Constants DEF GoodCall, Call, Op, WriteRegisters
<1>3. GoodCall(ReadReady, FALSE)
  BY <1>1, Constants DEF GoodCall, Call, Op, ReadReady
<1> QED BY <1>2, <1>3

\* Every entry of the running script is a proper call.
LEMMA ScriptCalls ==
  ASSUME TypeInv, fn \in Running
  PROVE  /\ Len(Script) \in 1 .. 7
         /\ GoodCall(Script[step], fn = "robot_sendMove" /\ step = 1)
<1> DEFINE first == fn = "robot_sendMove" /\ step = 1
<1> HIDE DEF first
<1>0. 540 \in CommandAddrs /\ 541 \in CommandAddrs /\ 545 \in CommandAddrs
  BY Constants
<1>a. ADDR_CMD_1 = 540 /\ ADDR_CMD_2 = 541 /\ ADDR_MOVESOURCE = 542 /\ ADDR_MOVEDEST = 543
      /\ ADDR_MOVETYPE = 544 /\ ADDR_CMD_EXIT = 545
  BY DEF ADDR_CMD_1, ADDR_CMD_2, ADDR_MOVESOURCE, ADDR_MOVEDEST, ADDR_MOVETYPE, ADDR_CMD_EXIT
<1>c. \A v \in {0, CMD_ALLOW_MOVE_2, CMD_EXIT, CMD_CLR_READY} : v # CMD_ALLOW_MOVE_1
  BY DEF CMD_ALLOW_MOVE_1, CMD_ALLOW_MOVE_2, CMD_EXIT, CMD_CLR_READY
<1>1. CASE fn = "robot_connect"
  <2>1. Script = ConnectScript
    BY <1>1 DEF Script
  <2>2. Len(Script) = 6 /\ step \in 1 .. 6
    BY <1>1, <2>1 DEF ConnectScript, TypeInv, StepOK
  <2>3. PICK a \in CommandAddrs : Script[step] = WriteRegister(a, 0)
    BY <2>1, <2>2, <1>a, Constants DEF ConnectScript
  <2>4. GoodCall(Script[step], first)
    BY <2>3, <1>c, Constants, WriteRegisterGood DEF GoodCall
  <2> QED BY <2>2, <2>4 DEF first
<1>2. CASE fn = "modbusClearCommand"
  <2>1. Script = ClearScript
    BY <1>2 DEF Script
  <2>2. Len(Script) = 3 /\ step \in 1 .. 3
    BY <1>2, <2>1 DEF ClearScript, TypeInv, StepOK
  <2>3. \/ Script[step] = WriteRegister(540, 0)
        \/ Script[step] = WriteRegister(541, 0)
        \/ Script[step] = WriteRegister(540, CMD_CLR_READY)
    BY <2>1, <2>2, <1>a, SendCmdRegister DEF ClearScript
  <2>4. GoodCall(Script[step], first)
    BY <2>3, <1>0, <1>c, Constants, WriteRegisterGood DEF GoodCall
  <2> QED BY <2>2, <2>4 DEF first
<1>3. CASE fn = "robot_sendMove"
  <2> DEFINE m == issued[calls].move
  <2>1. Script = SendMoveScript(m)
    BY <1>3 DEF Script
  <2>2. Len(Script) = 7 /\ step \in 1 .. 7
    BY <1>3, <2>1 DEF SendMoveScript, TypeInv, StepOK
  <2>3. Reg16(m.source) \in REG16 /\ Reg16(m.dest) \in REG16 /\ Reg16(m.type) \in REG16
    <3>1. issued \in Seq([move : Moves, outcome : Outcomes]) /\ calls \in 1 .. Len(issued)
      BY <1>3 DEF TypeInv, StepOK, TypeOK, DriverTypeOK, calls
    <3>2. m \in Moves
      <4>1. issued[calls] \in [move : Moves, outcome : Outcomes]
        BY <3>1, ElementOfSeq
      <4> QED BY <4>1
    <3>3. m.source \in Int /\ m.dest \in Int /\ m.type \in Int
      BY <3>2, MovesAssumption DEF MOVE, NORMAL_MOVE, HIT_MOVE
    <3> QED BY <3>3, Reg16Type
  <2>4. \/ step = 1 /\ Script[step] = WriteRegister(540, CMD_ALLOW_MOVE_1)
        \/ Script[step] = WriteRegisters(ADDR_MOVESOURCE,
                                         <<Reg16(m.source), Reg16(m.dest), Reg16(m.type)>>)
        \/ Script[step] = WriteRegister(541, CMD_ALLOW_MOVE_2)
        \/ Script[step] = ReadReady
        \/ Script[step] = WriteRegister(540, 0)
        \/ Script[step] = WriteRegister(541, 0)
        \/ Script[step] = WriteRegister(540, CMD_CLR_READY)
    BY <2>1, <2>2, <1>a, SendCmdRegister DEF SendMoveScript
  <2>5. GoodCall(Script[step], first)
    <3>1. \A c : GoodCall(c, FALSE) => GoodCall(c, first)
      BY DEF GoodCall
    <3>2. CASE step = 1 /\ Script[step] = WriteRegister(540, CMD_ALLOW_MOVE_1)
      BY <3>2, <1>0, <1>3, Constants, WriteRegisterGood DEF GoodCall, first
    <3>3. CASE \/ Script[step] = WriteRegister(541, CMD_ALLOW_MOVE_2)
               \/ Script[step] = WriteRegister(540, 0)
               \/ Script[step] = WriteRegister(541, 0)
               \/ Script[step] = WriteRegister(540, CMD_CLR_READY)
      BY <3>3, <1>0, <1>c, Constants, WriteRegisterGood DEF GoodCall
    <3>4. CASE Script[step] = ReadReady
      BY <3>1, <3>4, OtherCallsGood
    <3>5. CASE Script[step] = WriteRegisters(ADDR_MOVESOURCE,
                                  <<Reg16(m.source), Reg16(m.dest), Reg16(m.type)>>)
      BY <2>3, <3>1, <3>5, OtherCallsGood
    <3> QED BY <2>4, <3>2, <3>3, <3>4, <3>5
  <2> QED BY <2>2, <2>5 DEF first
<1>4. CASE fn = "exit"
  <2>1. Script = << SendCmd(CMD_EXIT) >>
    BY <1>4 DEF Script
  <2>2. Len(Script) = 1 /\ step = 1
    BY <1>4, <2>1 DEF TypeInv, StepOK
  <2>3. Script[step] = WriteRegister(545, CMD_EXIT)
    BY <2>1, <2>2, SendCmdRegister
  <2>4. GoodCall(Script[step], first)
    BY <2>3, <1>0, <1>c, Constants, WriteRegisterGood DEF GoodCall
  <2> QED BY <2>2, <2>4 DEF first
<1> QED BY <1>1, <1>2, <1>3, <1>4 DEF Running

-----------------------------------------------------------------------------
(* The steps of the driver.                                                  *)

Issue == [move : Moves, outcome : Outcomes]

\* Setting the outcome of the last call leaves the number of calls.
LEMMA SetOutcome ==
  ASSUME issued \in Seq(Issue), calls > 0, NEW o \in Outcomes
  PROVE  /\ [issued EXCEPT ![calls].outcome = o] \in Seq(Issue)
         /\ Len([issued EXCEPT ![calls].outcome = o]) = Len(issued)
<1> DEFINE e == [issued[calls] EXCEPT !.outcome = o]
<1>1. calls \in 1 .. Len(issued)
  BY DEF calls
<1>2. issued[calls] \in Issue
  BY <1>1, ElementOfSeq
<1>3. e \in Issue
  BY <1>2 DEF Issue
<1>4. [issued EXCEPT ![calls].outcome = o] = [issued EXCEPT ![calls] = e]
  OBVIOUS
<1> HIDE DEF e
<1> QED BY <1>1, <1>3, <1>4, ExceptSeq

\* Script only depends on the function that runs and on its move.
LEMMA ScriptLengths ==
  /\ fn = "robot_connect" => Len(Script) = 6
  /\ fn = "modbusClearCommand" => Len(Script) = 3
  /\ fn = "robot_sendMove" => Len(Script) = 7
  /\ fn = "exit" => Len(Script) = 1
<1>1. fn = "robot_connect" => Script = ConnectScript
  BY DEF Script
<1>2. fn = "modbusClearCommand" => Script = ClearScript
  BY DEF Script
<1>3. fn = "robot_sendMove" => Script = SendMoveScript(issued[calls].move)
  BY DEF Script
<1>4. fn = "exit" => Script = << SendCmd(CMD_EXIT) >>
  BY DEF Script
<1>5. Len(ConnectScript) = 6 /\ Len(ClearScript) = 3
  BY DEF ConnectScript, ClearScript
<1>6. \A m : Len(SendMoveScript(m)) = 7
  BY DEF SendMoveScript
<1>7. Len(<< SendCmd(CMD_EXIT) >>) = 1
  OBVIOUS
<1> QED BY <1>1, <1>2, <1>3, <1>4, <1>5, <1>6, <1>7

DriverInv == DriverTypeOK /\ StepOK

\* What a returned call does to the driver's variables.
LEMMA ContinueInv ==
  ASSUME DriverInv, fn \in Running, NEW ok, NEW val, Continue(ok, val), tId' \in Tid
  PROVE  /\ DriverInv'
         /\ calls' = calls
         /\ ~ (fn' = "robot_sendMove" /\ step' = 1)
<1>1. fn \in Running /\ pending' = NoTid
  BY DEF Continue
<1>2. issued \in Seq(Issue) /\ step \in 1 .. 7
  BY DEF DriverInv, DriverTypeOK, Issue
<1>3. ASSUME NEW o \in Outcomes, Finish(o)
      PROVE  issued' \in Seq(Issue) /\ Len(issued') = Len(issued)
  <2>1. CASE fn = "robot_sendMove"
    <3>1. calls > 0
      BY <2>1 DEF DriverInv, StepOK
    <3> QED BY <1>2, <1>3, <2>1, <3>1, SetOutcome DEF Finish
  <2>2. CASE fn # "robot_sendMove"
    BY <1>2, <1>3, <2>2 DEF Finish
  <2> QED BY <2>1, <2>2
<1>4. {"true", "false"} \subseteq Outcomes
  BY DEF Outcomes
<1>5. CASE Fails(ok) /\ fn' = "idle" /\ step' = 1 /\ Finish("false")
  <2>1. issued' \in Seq(Issue) /\ Len(issued') = Len(issued)
    BY <1>3, <1>4, <1>5
  <2> QED BY <1>1, <1>2, <1>5, <2>1 DEF DriverInv, DriverTypeOK, StepOK, Issue, Running, calls
<1>6. CASE PollsAgain(ok, val) /\ UNCHANGED <<fn, step, issued>>
  BY <1>1, <1>6 DEF DriverInv, DriverTypeOK, StepOK, PollsAgain, PollStep, calls
<1>7. CASE step < Len(Script) /\ step' = step + 1 /\ UNCHANGED <<fn, issued>>
  <2> DEFINE L == Len(Script)
  <2>1. /\ fn = "robot_connect" => L = 6
        /\ fn = "modbusClearCommand" => L = 3
        /\ fn = "robot_sendMove" => L = 7
        /\ fn = "exit" => L = 1
    BY ScriptLengths
  <2>2. step < L /\ step' = step + 1 /\ UNCHANGED <<fn, issued>>
    BY <1>7
  <2> HIDE DEF L
  <2>3. step' \in 2 .. 7
    BY <1>1, <1>2, <2>1, <2>2 DEF Running
  <2>4. StepOK'
    BY <1>1, <1>2, <2>1, <2>2 DEF DriverInv, StepOK, Running, calls
  <2> QED BY <1>1, <2>2, <2>3, <2>4 DEF DriverInv, DriverTypeOK, calls
<1>8. CASE step = Len(Script) /\ fn' = AfterLast /\ step' = 1 /\ Finish("true")
  <2>1. issued' \in Seq(Issue) /\ Len(issued') = Len(issued)
    BY <1>3, <1>4, <1>8
  <2>2. fn' \in {"modbusClearCommand", "idle", "disconnect"}
    BY <1>1, <1>8 DEF AfterLast, Running
  <2> QED BY <1>1, <1>2, <1>8, <2>1, <2>2 DEF DriverInv, DriverTypeOK, StepOK, Issue, Running, calls
<1> QED BY <1>5, <1>6, <1>7, <1>8 DEF Continue

-----------------------------------------------------------------------------
(* Type correctness of the system.                                           *)

LEMMA ZeroWord == Zero \in Word /\ Zero.by = 0 /\ Zero.val = 0
  BY DEF Zero, Word, REG16

LEMMA InitType == Init => TypeInv
<1> SUFFICES ASSUME Init PROVE TypeInv
  OBVIOUS
<1>1. LinkTypeOK
  BY ZeroWord DEF Init, LinkInit, LinkTypeOK
<1>2. DriverTypeOK /\ StepOK
  BY TidAssumption DEF Init, DriverInit, DriverTypeOK, StepOK, Running, Tid
<1>3. PlcTypeOK
  BY ZeroWord DEF Init, PlcInit, PlcTypeOK
<1>4. RobotTypeOK
  BY ZeroWord DEF Init, RobotInit, RobotTypeOK, Labels
<1>5. FaultsOK
  <2>1. faults = <<>>
    BY DEF Init
  <2> QED BY <2>1, FaultAssumption DEF FaultsOK
<1> QED BY <1>1, <1>2, <1>3, <1>4, <1>5 DEF TypeInv, TypeOK

\* The request a call puts on the connection.
LEMMA SendType ==
  ASSUME TypeInv, ModbusSend
  PROVE  /\ tId' \in Tid
         /\ \E r \in Request :
              /\ reqs' = Append(reqs, r)
              /\ r.tid = tId' /\ r.op = Script[step].op /\ r.addr = Script[step].addr
              /\ DOMAIN r.words = DOMAIN Script[step].vals
              /\ \A i \in DOMAIN r.words : /\ r.words[i].by = calls
                                           /\ r.words[i].val = Script[step].vals[i]
<1> DEFINE c == Script[step]
           ws == [i \in DOMAIN c.vals |-> [val |-> c.vals[i], by |-> calls]]
           r  == [tid |-> tId', op |-> c.op, addr |-> c.addr, words |-> ws]
<1>1. c \in Call
  BY ScriptCalls DEF ModbusSend, GoodCall
<1>2. tId' \in Tid
  BY TidAssumption DEF ModbusSend, NextTid, TypeInv, TypeOK, DriverTypeOK, Tid
<1>3. calls \in Nat
  BY DEF TypeInv, TypeOK, DriverTypeOK, calls
<1>4. c.vals \in Seq(REG16) /\ c.op \in Op
      /\ c.addr \in CommandAddrs \union {ADDR_READY}
  BY <1>1 DEF Call
<1>5. reqs' = Append(reqs, r)
  BY DEF ModbusSend
<1> HIDE DEF c
<1>6. ws \in Seq(Word)
  <2>1. \A i \in 1 .. Len(c.vals) : [val |-> c.vals[i], by |-> calls] \in Word
    BY <1>3, <1>4 DEF Word
  <2>2. ws = [i \in 1 .. Len(c.vals) |-> [val |-> c.vals[i], by |-> calls]] /\ Len(c.vals) \in Nat
    BY <1>4
  <2> QED BY <2>1, <2>2
<1>7. DOMAIN ws = DOMAIN c.vals /\ \A i \in DOMAIN ws : ws[i].by = calls /\ ws[i].val = c.vals[i]
  OBVIOUS
<1> HIDE DEF ws
<1>8. r \in Request
  BY <1>2, <1>4, <1>6 DEF Request
<1> QED BY <1>2, <1>5, <1>7, <1>8 DEF c

\* An answer, if it goes anywhere, is a proper one.
LEMMA AnswerType ==
  ASSUME LinkTypeOK, NEW r \in Request, NEW ok \in BOOLEAN, NEW w \in Word, Answer(r, ok, w)
  PROVE  rsps' \in Seq(Response)
<1>1. [tid |-> r.tid, op |-> r.op, ok |-> ok, word |-> w] \in Response
  BY DEF Request, Response
<1> QED BY <1>1 DEF Answer, LinkTypeOK

\* A prefix of a sequence.
LEMMA Prefix ==
  ASSUME NEW S, NEW s \in Seq(S), NEW n \in 0 .. Len(s)
  PROVE  /\ SubSeq(s, 1, n) \in Seq(S)
         /\ \A i \in 1 .. Len(SubSeq(s, 1, n)) : i \in 1 .. Len(s) /\ SubSeq(s, 1, n)[i] = s[i]
  OBVIOUS

\* Clearing the lowest bit of a register leaves a register.
LEMMA ClearBit0 == ASSUME NEW v \in REG16 PROVE v - (v % 2) \in REG16
  BY DEF REG16

\* Every step preserves the types, one action at a time.
LEMMA NextType == TypeInv /\ [Next]_vars => TypeInv'
<1> SUFFICES ASSUME TypeInv, [Next]_vars PROVE TypeInv'
  OBVIOUS
<1>0. LinkTypeOK /\ DriverTypeOK /\ StepOK /\ PlcTypeOK /\ RobotTypeOK /\ FaultsOK
  BY DEF TypeInv, TypeOK
<1>a. ASSUME UNCHANGED linkVars PROVE LinkTypeOK'
  BY <1>0, <1>a DEF LinkTypeOK, linkVars
<1>b. ASSUME UNCHANGED driverVars PROVE DriverTypeOK' /\ StepOK'
  BY <1>0, <1>b DEF DriverTypeOK, StepOK, driverVars, calls
<1>c. ASSUME UNCHANGED plcVars PROVE PlcTypeOK'
  BY <1>0, <1>c DEF PlcTypeOK, plcVars
<1>d. ASSUME UNCHANGED robotVars PROVE RobotTypeOK'
  BY <1>0, <1>d DEF RobotTypeOK, robotVars
<1>e. ASSUME NEW kind, Fault(kind) PROVE FaultsOK'
  <2>1. /\ faults \in Seq(FaultKinds) /\ Len(faults) < MaxFaults
        /\ kind \in FaultKinds /\ faults' = Append(faults, kind)
    BY <1>0, <1>e DEF Fault, FaultsOK
  <2>2. faults' \in Seq(FaultKinds) /\ Len(faults') = Len(faults) + 1
    BY <2>1
  <2> QED BY <2>1, <2>2, FaultAssumption DEF FaultsOK
<1>f. ASSUME UNCHANGED faults PROVE FaultsOK'
  BY <1>0, <1>f DEF FaultsOK
<1>1. CASE Send
  <2>1. ModbusSend /\ UNCHANGED <<plcVars, robotVars, faults>>
    BY <1>1 DEF Send
  <2>2. tId' \in Tid /\ \E r \in Request : reqs' = Append(reqs, r)
    BY <2>1, SendType
  <2>3. LinkTypeOK'
    BY <1>0, <2>1, <2>2 DEF LinkTypeOK, ModbusSend
  <2>4. DriverTypeOK' /\ StepOK'
    BY <1>0, <2>1, <2>2 DEF DriverTypeOK, StepOK, ModbusSend, calls
  <2> QED BY <1>0, <1>f, <1>c, <1>d, <2>1, <2>3, <2>4 DEF TypeInv, TypeOK
<1>2. CASE Receive
  <2>1. ModbusReceive /\ UNCHANGED <<plcVars, robotVars, faults>>
    BY <1>2 DEF Receive
  <2>2. DriverTypeOK' /\ StepOK'
    <3>1. fn \in Running /\ tId' \in Tid
      BY <1>0, <2>1 DEF ModbusReceive, DriverTypeOK, StepOK
    <3> QED BY <1>0, <2>1, <3>1, ContinueInv DEF ModbusReceive, DriverInv
  <2>3. LinkTypeOK'
    BY <1>0, <2>1 DEF LinkTypeOK, ModbusReceive
  <2> QED BY <1>0, <1>f, <1>c, <1>d, <2>1, <2>2, <2>3 DEF TypeInv, TypeOK
<1>3. CASE OrderMove
  <2>1. StartSendMove /\ UNCHANGED <<plcVars, robotVars, faults>>
    BY <1>3 DEF OrderMove
  <2>2. step = 1 /\ pending = NoTid
    BY <1>0, <2>1 DEF StepOK, StartSendMove, Running
  <2>3. issued' \in Seq(Issue) /\ Len(issued') = Len(issued) + 1
    <3>1. PICK m \in Moves : issued' = Append(issued, [move |-> m, outcome |-> "pending"])
      BY <2>1 DEF StartSendMove
    <3>2. [move |-> m, outcome |-> "pending"] \in Issue
      BY DEF Issue, Outcomes
    <3>3. issued \in Seq(Issue)
      BY <1>0 DEF DriverTypeOK, Issue
    <3> QED BY <3>1, <3>2, <3>3
  <2>4. DriverTypeOK' /\ StepOK'
    <3>1. Len(issued) \in Nat
      BY <1>0 DEF DriverTypeOK
    <3> QED BY <1>0, <2>1, <2>2, <2>3, <3>1
            DEF DriverTypeOK, StepOK, StartSendMove, Running, calls, Issue
  <2>5. LinkTypeOK'
    BY <1>a, <2>1 DEF StartSendMove
  <2> QED BY <1>0, <1>f, <1>c, <1>d, <2>1, <2>4, <2>5 DEF TypeInv, TypeOK
<1>4. CASE OrderExit
  <2>1. StartExit /\ UNCHANGED <<plcVars, robotVars, faults>>
    BY <1>4 DEF OrderExit
  <2>2. DriverTypeOK' /\ StepOK'
    BY <1>0, <2>1 DEF DriverTypeOK, StepOK, StartExit, Running, calls
  <2>3. LinkTypeOK'
    BY <1>a, <2>1 DEF StartExit
  <2> QED BY <1>0, <1>f, <1>c, <1>d, <2>1, <2>2, <2>3 DEF TypeInv, TypeOK
<1>5. CASE Disconnect
  <2>1. RobotDisconnect /\ UNCHANGED <<plcVars, robotVars, faults>>
    BY <1>5 DEF Disconnect
  <2>2. DriverTypeOK' /\ StepOK'
    BY <1>0, <2>1 DEF DriverTypeOK, StepOK, RobotDisconnect, Running, calls
  <2>3. LinkTypeOK'
    <3>1. reqs' \in Seq(Request) /\ rsps' \in Seq(Response)
      <4>1. <<>> \in Seq(Request) /\ <<>> \in Seq(Response)
        BY EmptySeq
      <4>2. (reqs' = reqs \/ reqs' = <<>>) /\ rsps' = <<>>
        BY <2>1 DEF RobotDisconnect
      <4> QED BY <1>0, <4>1, <4>2 DEF LinkTypeOK
    <3> QED BY <1>0, <2>1, <3>1 DEF LinkTypeOK, RobotDisconnect
  <2> QED BY <1>0, <1>f, <1>c, <1>d, <2>1, <2>2, <2>3 DEF TypeInv, TypeOK
<1>6. CASE Serve
  <2>1. PlcServe /\ UNCHANGED <<driverVars, robotVars, faults>>
    BY <1>6 DEF Serve
  <2> DEFINE r == Head(reqs)
  <2>2. r \in Request /\ Tail(reqs) \in Seq(Request)
    BY <1>0, <2>1 DEF LinkTypeOK, PlcServe
  <2>3. Store(r) \in [CommandAddrs -> Word]
    <3>1. \A a \in CommandAddrs : (a - r.addr + 1 \in DOMAIN r.words) => r.words[a - r.addr + 1] \in Word
      BY <2>2, ElementOfSeq DEF Request
    <3> QED BY <1>0, <3>1 DEF Store, PlcTypeOK
  <2>4. PlcTypeOK'
    BY <1>0, <2>1, <2>3 DEF PlcTypeOK, PlcServe
  <2>5. LinkTypeOK'
    <3>1. (IF r.op = "read_registers" THEN ready ELSE Zero) \in Word
      BY <1>0, ZeroWord DEF PlcTypeOK
    <3>2. rsps' \in Seq(Response)
      BY <1>0, <2>1, <2>2, <3>1, AnswerType DEF PlcServe
    <3> QED BY <1>0, <2>1, <2>2, <3>2 DEF LinkTypeOK, PlcServe
  <2> QED BY <1>0, <1>f, <1>b, <1>d, <2>1, <2>4, <2>5 DEF TypeInv, TypeOK
<1>7. CASE NoRequest
  <2>1. PlcNoRequest /\ UNCHANGED <<driverVars, robotVars, faults>>
    BY <1>7 DEF NoRequest
  <2>2. PlcTypeOK'
    BY <1>0, <2>1 DEF PlcTypeOK, PlcNoRequest
  <2>3. LinkTypeOK'
    BY <1>a, <2>1 DEF PlcNoRequest
  <2> QED BY <1>0, <1>f, <1>b, <1>d, <2>1, <2>2, <2>3 DEF TypeInv, TypeOK
<1>8. CASE CopyWord
  <2>1. PlcCopyWord /\ UNCHANGED <<driverVars, robotVars, faults>>
    BY <1>8 DEF CopyWord
  <2>2. ADDR_CMD_1 + scan - 1 \in CommandAddrs
    BY <1>0, <2>1, Constants DEF PlcTypeOK, PlcCopyWord, ADDR_CMD_1
  <2>3. PlcTypeOK'
    BY <1>0, <2>1 DEF PlcTypeOK, LinkTypeOK, PlcCopyWord
  <2>4. LinkTypeOK'
    BY <1>0, <2>1, <2>2 DEF PlcTypeOK, LinkTypeOK, PlcCopyWord
  <2> QED BY <1>0, <1>f, <1>b, <1>d, <2>1, <2>3, <2>4 DEF TypeInv, TypeOK
<1>9. CASE RobotReads
  <2>1. UNCHANGED <<driverVars, plcVars, reqs, rsps, connected, robotIn, robotOut, performed, faults>>
    BY <1>9 DEF RobotReads, Robot, RobotMain, RobotReadCmd1, RobotReadSecond, RobotReadType,
                RobotReadSource, RobotReadDest, Goto
  <2>2. \A a \in CommandAddrs : robotIn[a] \in Word
    BY <1>0 DEF LinkTypeOK
  <2>3. {ADDR_CMD_1, ADDR_MOVETYPE, ADDR_MOVESOURCE, ADDR_MOVEDEST} \subseteq CommandAddrs
    BY Constants DEF ADDR_CMD_1, ADDR_MOVETYPE, ADDR_MOVESOURCE, ADDR_MOVEDEST
  <2>4. label' \in Labels
    BY <1>0, <1>9 DEF RobotReads, Robot, RobotMain, RobotReadCmd1, RobotReadSecond, RobotReadType,
                      RobotReadSource, RobotReadDest, Goto, RobotTypeOK, Labels, AfterParams
  <2>5. nW' \in [cmd1 : Word, type : Word, source : Word, dest : Word]
    BY <1>0, <1>9, <2>2, <2>3
       DEF RobotReads, Robot, RobotMain, RobotReadCmd1, RobotReadSecond, RobotReadType,
           RobotReadSource, RobotReadDest, Goto, RobotTypeOK
  <2>6. RobotTypeOK'
    BY <1>0, <2>1, <2>4, <2>5 DEF RobotTypeOK
  <2>7. LinkTypeOK'
    BY <1>a, <2>1 DEF linkVars
  <2> QED BY <1>0, <1>f, <1>b, <1>c, <2>1, <2>6, <2>7 DEF TypeInv, TypeOK
<1>10. CASE RobotActs
  <2>1. UNCHANGED <<driverVars, plcVars, reqs, rsps, connected, robotIn, faults>>
    BY <1>10 DEF RobotActs, Robot
  <2>2. label' \in Labels /\ nW' = nW
    BY <1>10 DEF RobotActs, Robot, RobotStartHitMove, RobotStartNormalMove, RobotOffBoard, RobotMoveReady,
                 RobotWaitForPc, RobotClearReady, Goto, Labels
  <2>3. performed' \in Seq(Execution)
    <3>1. [call |-> nW.cmd1.by, source |-> nW.source.val, dest |-> nW.dest.val,
           type |-> nW.type.val] \in Execution
      BY <1>0 DEF RobotTypeOK, Execution, Word
    <3> QED BY <1>0, <1>10, <3>1
            DEF RobotActs, Robot, RobotStartHitMove, RobotStartNormalMove, RobotOffBoard, RobotMoveReady,
                RobotWaitForPc, RobotClearReady, Goto, RobotTypeOK
  <2>4. robotOut' \in Word
    <3>1. [val |-> CMD_READY, by |-> nW.cmd1.by] \in Word
      BY <1>0, Constants DEF RobotTypeOK, Word
    <3>2. [robotOut EXCEPT !.val = @ - (@ % 2)] \in Word
      <4>1. robotOut \in Word /\ robotOut.val \in REG16
        BY <1>0 DEF LinkTypeOK, Word
      <4>2. robotOut.val - (robotOut.val % 2) \in REG16
        BY <4>1, ClearBit0
      <4> QED BY <4>1, <4>2 DEF Word
    <3> QED BY <1>0, <1>10, <3>1, <3>2
            DEF RobotActs, Robot, RobotStartHitMove, RobotStartNormalMove, RobotOffBoard, RobotMoveReady,
                RobotWaitForPc, RobotClearReady, Goto, LinkTypeOK
  <2>5. RobotTypeOK' /\ LinkTypeOK'
    BY <1>0, <2>1, <2>2, <2>3, <2>4 DEF RobotTypeOK, LinkTypeOK
  <2> QED BY <1>0, <1>f, <1>b, <1>c, <2>1, <2>5 DEF TypeInv, TypeOK
<1>11. CASE Timeout
  <2>1. ModbusTimeout /\ UNCHANGED <<plcVars, robotVars>> /\ Fault("timeout")
    BY <1>11 DEF Timeout
  <2>2. DriverTypeOK' /\ StepOK'
    <3>1. fn \in Running /\ tId' \in Tid
      BY <1>0, <2>1 DEF ModbusTimeout, DriverTypeOK, StepOK
    <3> QED BY <1>0, <2>1, <3>1, ContinueInv DEF ModbusTimeout, DriverInv
  <2>3. LinkTypeOK'
    BY <1>a, <2>1 DEF ModbusTimeout
  <2> QED BY <1>c, <1>d, <1>e, <2>1, <2>2, <2>3 DEF TypeInv, TypeOK
<1>12. CASE Reject
  <2>1. PlcReject /\ UNCHANGED <<driverVars, robotVars>> /\ Fault("exception")
    BY <1>12 DEF Reject
  <2> DEFINE r == Head(reqs)
  <2>2. r \in Request /\ Tail(reqs) \in Seq(Request)
    BY <1>0, <2>1 DEF LinkTypeOK, PlcReject
  <2>3. PlcTypeOK'
    BY <1>0, <2>1 DEF PlcTypeOK, PlcReject
  <2>4. LinkTypeOK'
    <3>1. rsps' \in Seq(Response)
      BY <1>0, <2>1, <2>2, ZeroWord, AnswerType DEF PlcReject
    <3> QED BY <1>0, <2>1, <2>2, <3>1 DEF LinkTypeOK, PlcReject
  <2> QED BY <1>b, <1>d, <1>e, <2>1, <2>3, <2>4 DEF TypeInv, TypeOK
<1>13. CASE Reboot
  <2>1. Restart /\ UNCHANGED <<plcVars, robotVars>> /\ Fault("restart")
    BY <1>13 DEF Reboot
  <2>2. issued' \in Seq(Issue)
    <3>1. issued \in Seq(Issue) /\ "killed" \in Outcomes
      BY <1>0 DEF DriverTypeOK, Issue, Outcomes
    <3>2. CASE fn = "robot_sendMove"
      <4>1. calls > 0
        BY <1>0, <3>2 DEF StepOK
      <4> QED BY <2>1, <3>1, <3>2, <4>1, SetOutcome DEF Restart
    <3>3. CASE fn # "robot_sendMove"
      BY <2>1, <3>1, <3>3 DEF Restart
    <3> QED BY <3>2, <3>3
  <2>3. DriverTypeOK' /\ StepOK'
    BY <1>0, <2>1, <2>2, TidAssumption DEF DriverTypeOK, StepOK, Restart, Running, Tid, Issue
  <2>4. LinkTypeOK'
    BY <1>0, <2>1 DEF LinkTypeOK, Restart
  <2> QED BY <1>c, <1>d, <1>e, <2>1, <2>3, <2>4 DEF TypeInv, TypeOK
<1>14. CASE Fail
  <2>1. ModbusNoConnection /\ UNCHANGED <<plcVars, robotVars, faults>>
    BY <1>14 DEF Fail
  <2>2. DriverTypeOK' /\ StepOK'
    <3>1. tId' \in Tid
      BY <1>0, <2>1, TidAssumption DEF ModbusNoConnection, NextTid, DriverTypeOK, Tid
    <3> QED BY <1>0, <2>1, <3>1, ContinueInv DEF ModbusNoConnection, DriverInv
  <2>3. LinkTypeOK'
    BY <1>a, <2>1 DEF ModbusNoConnection
  <2> QED BY <1>0, <1>f, <1>c, <1>d, <2>1, <2>2, <2>3 DEF TypeInv, TypeOK
<1>15. CASE Break
  <2>1. ConnectionLost /\ UNCHANGED <<plcVars, robotVars>> /\ Fault("loss")
    BY <1>15 DEF Break
  <2>2. reqs' \in Seq(Request) /\ rsps' \in Seq(Response)
    BY <1>0, <2>1, Prefix DEF ConnectionLost, LinkTypeOK
  <2>3. LinkTypeOK'
    BY <1>0, <2>1, <2>2 DEF LinkTypeOK, ConnectionLost
  <2> QED BY <1>b, <1>c, <1>d, <1>e, <2>1, <2>3 DEF ConnectionLost, TypeInv, TypeOK
<1>16. CASE UNCHANGED vars
  <2>1. UNCHANGED <<linkVars, driverVars, plcVars, robotVars, faults>>
    BY <1>16 DEF vars
  <2> QED BY <1>0, <1>a, <1>f, <1>b, <1>c, <1>d, <2>1 DEF TypeInv, TypeOK
<1> QED BY <1>1, <1>2, <1>3, <1>4, <1>5, <1>6, <1>7, <1>8, <1>9, <1>10, <1>11, <1>12, <1>13, <1>14,
          <1>15, <1>16
       DEF Next

\* Every variable keeps its type: the driver never leaves its scripts, every
\* request and answer on the connection is well-formed, every register holds
\* a 16-bit value.
THEOREM TypeCorrect == Spec => []TypeOK
<1>1. TypeInv => TypeOK
  BY DEF TypeInv
<1> QED BY InitType, NextType, <1>1, PTL DEF Spec

-----------------------------------------------------------------------------
(* No call of robot_sendMove is carried out twice.                           *)

LEMMA WordFields == ASSUME NEW w \in Word PROVE w.by \in Nat /\ w.val \in REG16
  BY DEF Word

\* The types of the words the invariant speaks of.
LEMMA OrderTypes ==
  ASSUME TypeInv
  PROVE  /\ robotIn[ADDR_CMD_1] \in Word
         /\ d[ADDR_CMD_1] \in Word
         /\ nW.cmd1 \in Word
         /\ calls \in Nat
         /\ LastCall \in Nat
         /\ \A i \in 1 .. Len(performed) : performed[i].call \in Nat
         /\ \A i \in Cmd1Writes : 1 \in DOMAIN reqs[i].words => Cmd1Word(i) \in Word
<1>0. LinkTypeOK /\ DriverTypeOK /\ PlcTypeOK /\ RobotTypeOK
  BY DEF TypeInv, TypeOK
<1>1. ADDR_CMD_1 \in CommandAddrs
  BY Constants DEF ADDR_CMD_1
<1>2. robotIn[ADDR_CMD_1] \in Word /\ d[ADDR_CMD_1] \in Word
  BY <1>0, <1>1 DEF LinkTypeOK, PlcTypeOK
<1>3. nW.cmd1 \in Word
  BY <1>0 DEF RobotTypeOK
<1>4. calls \in Nat
  BY <1>0 DEF DriverTypeOK, calls
<1>5. performed \in Seq(Execution)
  BY <1>0 DEF RobotTypeOK
<1>6. \A i \in 1 .. Len(performed) : performed[i].call \in Nat
  <2>1. \A i \in 1 .. Len(performed) : performed[i] \in Execution
    BY <1>5, ElementOfSeq
  <2> QED BY <2>1 DEF Execution
<1>7. LastCall \in Nat
  <2>1. CASE performed = <<>>
    BY <2>1 DEF LastCall
  <2>2. CASE performed # <<>>
    <3>1. Len(performed) \in 1 .. Len(performed)
      BY <1>5, <2>2, EmptySeq
    <3> QED BY <1>6, <2>2, <3>1 DEF LastCall
  <2> QED BY <2>1, <2>2
<1>8. ASSUME NEW i \in Cmd1Writes, 1 \in DOMAIN reqs[i].words PROVE Cmd1Word(i) \in Word
  <2>1. reqs[i] \in Request
    BY <1>0, ElementOfSeq DEF LinkTypeOK, Cmd1Writes
  <2>2. reqs[i].words \in Seq(Word)
    BY <2>1 DEF Request
  <2> QED BY <1>8, <2>2, ElementOfSeq DEF Cmd1Word
<1> QED BY <1>2, <1>3, <1>4, <1>6, <1>7, <1>8

\* Dropping requests from the front of the queue, or none, leaves the order of
\* the others.
LEMMA ShiftedWrites ==
  ASSUME NEW n \in Nat, \A i \in 1 .. Len(reqs') : i + n \in 1 .. Len(reqs) /\ reqs'[i] = reqs[i + n],
         NEW j \in Cmd1Writes'
  PROVE  j \in Int /\ j + n \in Cmd1Writes /\ reqs'[j] = reqs[j + n] /\ Cmd1Word(j)' = Cmd1Word(j + n)
<1>1. j \in 1 .. Len(reqs') /\ reqs'[j].addr = ADDR_CMD_1
  BY DEF Cmd1Writes
<1> QED BY <1>1 DEF Cmd1Writes, Cmd1Word

Latest == IF Unsent THEN calls - 1 ELSE calls

\* A step gives the robot its first command word anew, or one that follows it.
InputFollows == \/ robotIn'[ADDR_CMD_1] = robotIn[ADDR_CMD_1]
                \/ Follows(robotIn[ADDR_CMD_1], robotIn'[ADDR_CMD_1])

LEMMA InputType == ASSUME TypeInv' PROVE robotIn'[ADDR_CMD_1] \in Word
  BY Constants DEF TypeInv, TypeOK, LinkTypeOK, ADDR_CMD_1

\* The steps that neither send a word nor move one on.
LEMMA PipeFrame ==
  ASSUME TypeInv, TypeInv', CommandOrder, CallOrder,
         robotIn'[ADDR_CMD_1] = robotIn[ADDR_CMD_1], d'[ADDR_CMD_1] = d[ADDR_CMD_1],
         NEW n \in Nat,
         \A i \in 1 .. Len(reqs') : i + n \in 1 .. Len(reqs) /\ reqs'[i] = reqs[i + n],
         Latest <= Latest'
  PROVE  CommandOrder' /\ CallOrder'
<1>1. CommandOrder'
  <2>1. \A i \in Cmd1Writes' : i \in Int /\ i + n \in Cmd1Writes /\ reqs'[i] = reqs[i + n]
                               /\ Cmd1Word(i)' = Cmd1Word(i + n)
    BY ShiftedWrites
  <2>2. \A i \in Cmd1Writes' : /\ 1 \in DOMAIN reqs'[i].words
                               /\ Follows(robotIn'[ADDR_CMD_1], Cmd1Word(i)')
                               /\ Follows(d'[ADDR_CMD_1], Cmd1Word(i)')
    BY <2>1 DEF CommandOrder
  <2>3. \A i, j \in Cmd1Writes' : i < j => Follows(Cmd1Word(i)', Cmd1Word(j)')
    BY <2>1 DEF CommandOrder
  <2>4. \/ d'[ADDR_CMD_1] = robotIn'[ADDR_CMD_1]
        \/ Follows(robotIn'[ADDR_CMD_1], d'[ADDR_CMD_1])
    BY DEF CommandOrder
  <2> QED BY <2>2, <2>3, <2>4 DEF CommandOrder, Follows
<1>2. CallOrder'
  <2>1. /\ robotIn[ADDR_CMD_1].by <= Latest
        /\ d[ADDR_CMD_1].by <= Latest
        /\ \A i \in Cmd1Writes : Cmd1Word(i).by <= Latest
    BY DEF CallOrder, Latest
  <2>2. Latest \in Int /\ Latest' \in Int
    <3>1. calls \in Nat /\ calls' \in Nat
      BY OrderTypes DEF TypeInv, TypeOK, DriverTypeOK, calls
    <3> QED BY <3>1 DEF Latest
  <2>3. robotIn[ADDR_CMD_1].by \in Nat /\ d[ADDR_CMD_1].by \in Nat
    BY OrderTypes, WordFields
  <2>4. \A i \in Cmd1Writes' : Cmd1Word(i)'.by <= Latest'
    <3> TAKE i \in Cmd1Writes'
    <3>1. i + n \in Cmd1Writes /\ Cmd1Word(i)' = Cmd1Word(i + n)
      BY ShiftedWrites
    <3>2. Cmd1Word(i + n).by \in Nat
      BY <3>1, OrderTypes, WordFields DEF CommandOrder
    <3> QED BY <2>1, <2>2, <3>1, <3>2
  <2>5. robotIn'[ADDR_CMD_1].by <= Latest' /\ d'[ADDR_CMD_1].by <= Latest'
    BY <2>1, <2>2, <2>3
  <2> QED BY <2>4, <2>5 DEF CallOrder, Latest
<1> QED BY <1>1, <1>2

\* Steps of the others may give the robot a later word; the robot's part of the
\* invariant looks at nothing else of theirs.
LEMMA RobotFrame ==
  ASSUME AtMostOnce, RobotOrder, TypeInv, TypeInv', UNCHANGED robotVars, calls <= calls',
         InputFollows
  PROVE  AtMostOnce' /\ RobotOrder'
<1>1. LastCall' = LastCall /\ label' = label /\ nW' = nW
  BY DEF robotVars, LastCall
<1>2. /\ robotIn[ADDR_CMD_1].by \in Nat /\ robotIn'[ADDR_CMD_1].by \in Nat
      /\ nW.cmd1.by \in Nat /\ LastCall \in Nat
  BY OrderTypes, WordFields, InputType
<1>3. RobotOrder'
  BY <1>1, <1>2 DEF RobotOrder, InputFollows, Follows
<1>4. calls \in Nat /\ calls' \in Nat
  BY OrderTypes DEF TypeInv, TypeOK, DriverTypeOK, calls
<1>5. AtMostOnce'
  BY <1>4 DEF robotVars, AtMostOnce
<1> QED BY <1>3, <1>5

\* A word that a call has just sent follows every word sent before it.
LEMMA SendOrder ==
  ASSUME TypeInv, TypeInv', CommandOrder, CallOrder, ModbusSend, UNCHANGED plcVars
  PROVE  CommandOrder' /\ CallOrder'
<1>1. PICK r \in Request :
        /\ reqs' = Append(reqs, r)
        /\ r.addr = Script[step].addr
        /\ DOMAIN r.words = DOMAIN Script[step].vals
        /\ \A i \in DOMAIN r.words : /\ r.words[i].by = calls
                                     /\ r.words[i].val = Script[step].vals[i]
  BY SendType
<1>2. UNCHANGED <<robotIn, d, fn, step, issued>> /\ fn \in Running /\ pending = NoTid /\ pending' # NoTid
  <2>1. tId' \in Tid
    BY SendType
  <2>2. tId' # NoTid
    BY <2>1 DEF Tid, NoTid
  <2> QED BY <2>2 DEF ModbusSend, plcVars
<1>3. calls' = calls /\ Latest' = calls /\ Latest <= calls /\ calls \in Nat
  BY <1>2, OrderTypes DEF calls, Latest, Unsent
<1>4. reqs \in Seq(Request)
  BY DEF TypeInv, TypeOK, LinkTypeOK
<1> DEFINE n == Len(reqs)
           w == r.words[1]
<1>5. /\ Len(reqs') = n + 1 /\ reqs'[n + 1] = r /\ n \in Nat
      /\ \A i \in 1 .. n : reqs'[i] = reqs[i]
  BY <1>1, <1>4
<1>6. r.addr = ADDR_CMD_1 => /\ 1 \in DOMAIN r.words
                             /\ w.by = calls
                             /\ w.val = CMD_ALLOW_MOVE_1 => Unsent
  BY <1>1, <1>2, ScriptCalls DEF GoodCall, Unsent
<1>7. \A v \in Word : v.by <= Latest /\ r.addr = ADDR_CMD_1 => Follows(v, w)
  BY <1>3, <1>6, WordFields DEF Follows, Latest
<1>8. \A i \in Cmd1Writes' :
        \/ i \in Cmd1Writes /\ Cmd1Word(i)' = Cmd1Word(i) /\ reqs'[i] = reqs[i]
        \/ i = n + 1 /\ r.addr = ADDR_CMD_1 /\ Cmd1Word(i)' = w /\ reqs'[i] = r
  BY <1>5 DEF Cmd1Writes, Cmd1Word
<1>9. \A i \in Cmd1Writes : i \in 1 .. n /\ Cmd1Word(i) \in Word /\ Cmd1Word(i).by <= Latest
  BY OrderTypes DEF CommandOrder, CallOrder, Latest, Cmd1Writes
<1>10. /\ robotIn[ADDR_CMD_1] \in Word /\ robotIn[ADDR_CMD_1].by <= Latest
       /\ d[ADDR_CMD_1] \in Word /\ d[ADDR_CMD_1].by <= Latest
  BY OrderTypes DEF CallOrder, Latest
<1> HIDE DEF n, w
<1>11. CommandOrder'
  <2>1. ASSUME NEW i \in Cmd1Writes'
        PROVE  /\ 1 \in DOMAIN reqs'[i].words
               /\ Follows(robotIn[ADDR_CMD_1], Cmd1Word(i)')
               /\ Follows(d[ADDR_CMD_1], Cmd1Word(i)')
    <3>1. CASE i \in Cmd1Writes /\ Cmd1Word(i)' = Cmd1Word(i) /\ reqs'[i] = reqs[i]
      BY <3>1 DEF CommandOrder
    <3>2. CASE i = n + 1 /\ r.addr = ADDR_CMD_1 /\ Cmd1Word(i)' = w /\ reqs'[i] = r
      BY <3>2, <1>6, <1>7, <1>10
    <3> QED BY <1>8, <3>1, <3>2
  <2>2. ASSUME NEW i \in Cmd1Writes', NEW j \in Cmd1Writes', i < j
        PROVE  Follows(Cmd1Word(i)', Cmd1Word(j)')
    <3>1. CASE i \in Cmd1Writes /\ j \in Cmd1Writes
      <4>1. j # n + 1 /\ i # n + 1
        BY <3>1, <1>5, <1>9
      <4>2. Cmd1Word(i)' = Cmd1Word(i) /\ Cmd1Word(j)' = Cmd1Word(j)
        BY <4>1, <1>8
      <4> QED BY <2>2, <3>1, <4>2 DEF CommandOrder
    <3>2. CASE i \in Cmd1Writes /\ j = n + 1
      <4>1. i # n + 1
        BY <3>2, <1>5, <1>9
      <4>2. Cmd1Word(i)' = Cmd1Word(i)
        BY <4>1, <1>8
      <4>3. r.addr = ADDR_CMD_1 /\ Cmd1Word(j)' = w
        BY <3>2, <1>8, <1>9, <1>5
      <4> QED BY <3>2, <4>2, <4>3, <1>7, <1>9
    <3>3. CASE i = n + 1
      <4>1. j <= n + 1
        BY <1>5, <1>8, <1>9
      <4> QED BY <2>2, <3>3, <4>1, <1>5, <1>8, <1>9
    <3> QED BY <1>8, <3>1, <3>2, <3>3
  <2>3. \/ d'[ADDR_CMD_1] = robotIn'[ADDR_CMD_1]
        \/ Follows(robotIn'[ADDR_CMD_1], d'[ADDR_CMD_1])
    BY <1>2 DEF CommandOrder
  <2> QED BY <1>2, <2>1, <2>2, <2>3 DEF CommandOrder, Follows
<1>12. CallOrder'
  <2>1. /\ robotIn'[ADDR_CMD_1].by <= Latest'
        /\ d'[ADDR_CMD_1].by <= Latest'
    <3>1. robotIn[ADDR_CMD_1].by \in Nat /\ d[ADDR_CMD_1].by \in Nat /\ Latest \in Int
      BY <1>3, <1>10, WordFields DEF Latest
    <3> QED BY <1>2, <1>3, <1>10, <3>1
  <2>2. ASSUME NEW i \in Cmd1Writes' PROVE Cmd1Word(i)'.by <= Latest'
    <3>1. CASE i \in Cmd1Writes /\ Cmd1Word(i)' = Cmd1Word(i)
      <4>1. Cmd1Word(i).by \in Nat /\ Cmd1Word(i).by <= Latest /\ Latest \in Int
        BY <3>1, <1>3, <1>9, WordFields DEF Latest
      <4> QED BY <3>1, <4>1, <1>3
    <3>2. CASE r.addr = ADDR_CMD_1 /\ Cmd1Word(i)' = w
      BY <3>2, <1>3, <1>6
    <3> QED BY <1>8, <3>1, <3>2
  <2> QED BY <2>1, <2>2 DEF CallOrder, Latest
<1> QED BY <1>11, <1>12

\* The server stores the oldest request: a command word moves to D540, and the
\* words still on the connection follow it.
LEMMA ServeOrder ==
  ASSUME TypeInv, TypeInv', CommandOrder, CallOrder, PlcServe, UNCHANGED driverVars
  PROVE  CommandOrder' /\ CallOrder'
<1> DEFINE r == Head(reqs)
<1>1. /\ reqs \in Seq(Request) /\ reqs # <<>> /\ reqs' = Tail(reqs)
      /\ robotIn' = robotIn /\ d' = Store(r)
  BY DEF PlcServe, TypeInv, TypeOK, LinkTypeOK
<1>2. r = reqs[1] /\ 1 \in 1 .. Len(reqs) /\ r \in Request
  BY <1>1
<1>3. \A i \in 1 .. Len(reqs') : i + 1 \in 1 .. Len(reqs) /\ reqs'[i] = reqs[i + 1]
  BY <1>1
<1>4. Latest' = Latest
  BY DEF Latest, Unsent, driverVars, calls
<1>5. CASE r.addr # ADDR_CMD_1
  <2>1. d'[ADDR_CMD_1] = d[ADDR_CMD_1]
    <3>1. r.addr \in 541 .. 545 \/ r.addr = 1040
      BY <1>2, <1>5, Constants DEF Request, ADDR_CMD_1, ADDR_READY
    <3>2. DOMAIN r.words = 1 .. Len(r.words)
      BY <1>2 DEF Request
    <3>3. 540 - r.addr + 1 \notin DOMAIN r.words
      BY <3>1, <3>2
    <3> QED BY <1>1, <3>3, Constants DEF Store, ADDR_CMD_1
  <2>2. Latest \in Int
    BY OrderTypes DEF Latest
  <2>3. Latest <= Latest' /\ robotIn'[ADDR_CMD_1] = robotIn[ADDR_CMD_1] /\ 1 \in Nat
    BY <1>1, <1>4, <2>2
  <2> HIDE DEF r
  <2> QED BY <1>3, <2>1, <2>3, PipeFrame
<1>6. CASE r.addr = ADDR_CMD_1
  <2> DEFINE w == Cmd1Word(1)
  <2>1. 1 \in Cmd1Writes /\ 1 \in DOMAIN r.words
    BY <1>2, <1>6 DEF Cmd1Writes, CommandOrder
  <2>2. d'[ADDR_CMD_1] = w
    <3>1. ADDR_CMD_1 \in CommandAddrs /\ ADDR_CMD_1 - r.addr + 1 = 1
      BY <1>6, Constants DEF ADDR_CMD_1
    <3> QED BY <1>1, <1>2, <2>1, <3>1 DEF Store, Cmd1Word
  <2> HIDE DEF w
  <2>3. Follows(robotIn[ADDR_CMD_1], w) /\ w.by <= Latest
    BY <2>1 DEF w, CommandOrder, CallOrder, Latest
  <2>4. ASSUME NEW j \in Cmd1Writes'
        PROVE  /\ j + 1 \in Cmd1Writes /\ Cmd1Word(j)' = Cmd1Word(j + 1) /\ j \in Int
               /\ reqs'[j] = reqs[j + 1] /\ j + 1 > 1
    <3>1. j + 1 \in Cmd1Writes /\ Cmd1Word(j)' = Cmd1Word(j + 1) /\ j \in Int
          /\ reqs'[j] = reqs[j + 1]
      BY <1>3, ShiftedWrites
    <3> QED BY <3>1 DEF Cmd1Writes
  <2>5. CommandOrder'
    <3>1. \A j \in Cmd1Writes' : /\ 1 \in DOMAIN reqs'[j].words
                                 /\ Follows(robotIn[ADDR_CMD_1], Cmd1Word(j)')
                                 /\ Follows(w, Cmd1Word(j)')
      BY <2>1, <2>4 DEF CommandOrder, w
    <3>2. \A i, j \in Cmd1Writes' : i < j => Follows(Cmd1Word(i)', Cmd1Word(j)')
      BY <2>4 DEF CommandOrder
    <3> QED BY <1>1, <2>2, <2>3, <3>1, <3>2 DEF CommandOrder, Follows
  <2>6. CallOrder'
    BY <1>1, <1>4, <2>2, <2>3, <2>4 DEF CallOrder, Latest
  <2> QED BY <2>5, <2>6
<1> QED BY <1>5, <1>6

\* The copying of D540 hands the robot a word that follows the last one.
LEMMA CopyOrder ==
  ASSUME TypeInv, CommandOrder, CallOrder, PlcCopyWord, UNCHANGED driverVars
  PROVE  CommandOrder' /\ CallOrder' /\ InputFollows
<1>1. d' = d /\ reqs' = reqs /\ Latest' = Latest
  BY DEF PlcCopyWord, driverVars, calls, Latest, Unsent
<1>2. \/ robotIn'[ADDR_CMD_1] = robotIn[ADDR_CMD_1]
      \/ robotIn'[ADDR_CMD_1] = d[ADDR_CMD_1]
  BY Constants DEF PlcCopyWord, TypeInv, TypeOK, LinkTypeOK, ADDR_CMD_1
<1>3. InputFollows
  BY <1>2 DEF CommandOrder, InputFollows
<1>4. Cmd1Writes' = Cmd1Writes /\ \A i : Cmd1Word(i)' = Cmd1Word(i)
  BY <1>1 DEF Cmd1Writes, Cmd1Word
<1>5. CommandOrder'
  BY <1>1, <1>2, <1>4 DEF CommandOrder, Follows
<1>6. CallOrder'
  BY <1>1, <1>2, <1>4 DEF CallOrder, Latest
<1> QED BY <1>3, <1>5, <1>6

\* Every step keeps the words of CMD_1 in order, whatever the robot is doing.
LEMMA NextPipe ==
  ASSUME TypeInv, CommandOrder, CallOrder, [Next]_vars
  PROVE  /\ CommandOrder' /\ CallOrder' /\ InputFollows /\ calls <= calls'
         /\ \/ UNCHANGED robotVars
            \/ (RobotReads \/ RobotActs) /\ UNCHANGED calls
<1>0. TypeInv'
  BY NextType
<1>a. calls \in Nat /\ calls' \in Nat
  BY <1>0, OrderTypes DEF TypeInv, TypeOK, DriverTypeOK, calls
<1>b. Latest \in Int /\ Latest' \in Int /\ Latest <= calls
  BY <1>a DEF Latest
<1>d. ASSUME UNCHANGED <<robotIn, d, reqs>>, Latest <= Latest'
      PROVE  CommandOrder' /\ CallOrder' /\ InputFollows
  <2>1. \A i \in 1 .. Len(reqs') : i + 0 \in 1 .. Len(reqs) /\ reqs'[i] = reqs[i + 0]
    BY <1>d
  <2> QED BY <1>0, <1>d, <2>1, PipeFrame DEF InputFollows
<1>e. ASSUME UNCHANGED <<robotIn, d>>, reqs' = <<>>, Latest <= Latest'
      PROVE  CommandOrder' /\ CallOrder' /\ InputFollows
  <2>1. \A i \in 1 .. Len(reqs') : i + 0 \in 1 .. Len(reqs) /\ reqs'[i] = reqs[i + 0]
    BY <1>e
  <2> QED BY <1>0, <1>e, <2>1, PipeFrame DEF InputFollows
<1>1. CASE Send
  <2>1. ModbusSend /\ UNCHANGED <<plcVars, robotVars>> /\ robotIn' = robotIn /\ calls' = calls
    BY <1>1 DEF Send, ModbusSend, calls
  <2>2. CommandOrder' /\ CallOrder'
    BY <1>0, <2>1, SendOrder
  <2> QED BY <1>a, <2>1, <2>2 DEF InputFollows
<1>2. CASE Receive \/ Timeout \/ Fail
  <2>1. PICK ok, val : Continue(ok, val)
    BY <1>2 DEF Receive, Timeout, Fail, ModbusReceive, ModbusTimeout, ModbusNoConnection
  <2>0. fn \in Running /\ tId' \in Tid
    BY <1>0, <1>2 DEF Receive, Timeout, Fail, ModbusReceive, ModbusTimeout, ModbusNoConnection,
                      TypeInv, StepOK, TypeOK, DriverTypeOK
  <2>2. UNCHANGED <<plcVars, robotVars, reqs, robotIn>>
    BY <1>2 DEF Receive, Timeout, Fail, ModbusReceive, ModbusTimeout, ModbusNoConnection, linkVars
  <2>3. calls' = calls /\ ~ (fn' = "robot_sendMove" /\ step' = 1)
    BY <2>0, <2>1, ContinueInv DEF TypeInv, TypeOK, DriverInv
  <2>4. Latest <= Latest'
    BY <1>a, <1>b, <2>3 DEF Latest, Unsent
  <2> QED BY <1>a, <1>d, <2>2, <2>3, <2>4 DEF plcVars
<1>3. CASE OrderMove
  <2>1. StartSendMove /\ UNCHANGED <<plcVars, robotVars, linkVars>>
    BY <1>3 DEF OrderMove, StartSendMove
  <2>2. calls' = calls + 1
    <3>1. issued \in Seq(Issue)
      BY DEF TypeInv, TypeOK, DriverTypeOK, Issue
    <3> QED BY <2>1, <3>1 DEF StartSendMove, calls
  <2>3. calls <= calls' /\ Latest <= Latest'
    BY <1>a, <1>b, <2>2 DEF Latest
  <2> QED BY <1>d, <2>1, <2>3 DEF plcVars, linkVars
<1>4. CASE OrderExit \/ Disconnect
  <2>1. UNCHANGED <<plcVars, robotVars, robotIn, issued>> /\ (reqs' = reqs \/ reqs' = <<>>)
        /\ fn' # "robot_sendMove"
    BY <1>4 DEF OrderExit, Disconnect, StartExit, RobotDisconnect, linkVars
  <2>2. calls' = calls /\ Latest <= Latest'
    BY <1>a, <1>b, <2>1 DEF Latest, Unsent, calls
  <2> QED BY <1>a, <1>d, <1>e, <2>1, <2>2 DEF plcVars
<1>5. CASE Serve
  <2>1. PlcServe /\ UNCHANGED <<driverVars, robotVars>> /\ robotIn' = robotIn /\ calls' = calls
    BY <1>5 DEF Serve, PlcServe, driverVars, calls
  <2>2. CommandOrder' /\ CallOrder'
    BY <1>0, <2>1, ServeOrder
  <2> QED BY <1>a, <2>1, <2>2 DEF InputFollows
<1>6. CASE NoRequest
  <2>1. UNCHANGED <<driverVars, robotVars, d, reqs, robotIn>>
    BY <1>6 DEF NoRequest, PlcNoRequest, linkVars
  <2>2. calls' = calls /\ Latest' = Latest
    BY <2>1 DEF driverVars, calls, Latest, Unsent
  <2> QED BY <1>a, <1>b, <1>d, <2>1, <2>2
<1>7. CASE CopyWord
  <2>1. PlcCopyWord /\ UNCHANGED <<driverVars, robotVars>>
    BY <1>7 DEF CopyWord
  <2>2. calls' = calls
    BY <2>1 DEF driverVars, calls
  <2> QED BY <1>a, <2>1, <2>2, CopyOrder
<1>8. CASE RobotReads \/ RobotActs
  <2>1. UNCHANGED <<driverVars, d, reqs, robotIn>>
    BY <1>8 DEF RobotReads, RobotActs, Robot, plcVars
  <2>2. calls' = calls /\ Latest' = Latest
    BY <2>1 DEF driverVars, calls, Latest, Unsent
  <2> QED BY <1>a, <1>b, <1>d, <1>8, <2>1, <2>2
<1>9. CASE Reject
  <2>1. PlcReject /\ UNCHANGED <<driverVars, robotVars, robotIn, d>>
    BY <1>9 DEF Reject, PlcReject
  <2>2. calls' = calls /\ Latest' = Latest
    BY <2>1 DEF driverVars, calls, Latest, Unsent
  <2>3. \A i \in 1 .. Len(reqs') : i + 1 \in 1 .. Len(reqs) /\ reqs'[i] = reqs[i + 1]
    <3>1. reqs \in Seq(Request) /\ reqs # <<>> /\ reqs' = Tail(reqs)
      BY <2>1 DEF PlcReject, TypeInv, TypeOK, LinkTypeOK
    <3> QED BY <3>1
  <2>4. 1 \in Nat /\ Latest <= Latest' /\ robotIn'[ADDR_CMD_1] = robotIn[ADDR_CMD_1]
        /\ d'[ADDR_CMD_1] = d[ADDR_CMD_1]
    BY <1>b, <2>1, <2>2
  <2>5. CommandOrder' /\ CallOrder'
    BY <1>0, <2>3, <2>4, PipeFrame
  <2> QED BY <1>a, <2>1, <2>2, <2>5 DEF InputFollows
<1>10. CASE Reboot
  <2>1. Restart /\ UNCHANGED <<plcVars, robotVars>>
    BY <1>10 DEF Reboot
  <2>2. calls' = calls
    <3>1. issued \in Seq(Issue) /\ "killed" \in Outcomes
      BY DEF TypeInv, TypeOK, DriverTypeOK, Issue, Outcomes
    <3>2. CASE fn = "robot_sendMove"
      <4>1. calls > 0
        BY <3>2 DEF TypeInv, StepOK
      <4> QED BY <2>1, <3>1, <3>2, <4>1, SetOutcome DEF Restart, calls
    <3>3. CASE fn # "robot_sendMove"
      BY <2>1, <3>3 DEF Restart, calls
    <3> QED BY <3>2, <3>3
  <2>3. Latest <= Latest'
    BY <1>a, <1>b, <2>1, <2>2 DEF Latest, Unsent, Restart
  <2> QED BY <1>a, <1>e, <2>1, <2>2, <2>3 DEF Restart, plcVars
<1>11. CASE Break
  <2>1. ConnectionLost /\ UNCHANGED <<plcVars, robotVars, driverVars, robotIn>>
    BY <1>11 DEF Break, ConnectionLost
  <2>2. calls' = calls /\ Latest' = Latest
    BY <2>1 DEF driverVars, calls, Latest, Unsent
  <2>3. \A i \in 1 .. Len(reqs') : i + 0 \in 1 .. Len(reqs) /\ reqs'[i] = reqs[i + 0]
    <3>1. PICK n \in 0 .. Len(reqs) : reqs' = SubSeq(reqs, 1, n)
      BY <2>1 DEF ConnectionLost
    <3>2. \A i \in 1 .. Len(reqs') : i \in 1 .. Len(reqs) /\ reqs'[i] = reqs[i]
      BY <3>1, Prefix DEF TypeInv, TypeOK, LinkTypeOK
    <3> QED BY <3>2
  <2>4. 0 \in Nat /\ Latest <= Latest' /\ robotIn'[ADDR_CMD_1] = robotIn[ADDR_CMD_1]
        /\ d'[ADDR_CMD_1] = d[ADDR_CMD_1]
    BY <1>b, <2>1, <2>2 DEF plcVars
  <2>5. CommandOrder' /\ CallOrder'
    BY <1>0, <2>3, <2>4, PipeFrame
  <2> QED BY <1>a, <2>1, <2>2, <2>5 DEF InputFollows
<1>12. CASE UNCHANGED vars
  <2>1. UNCHANGED <<driverVars, robotVars, d, reqs, robotIn>>
    BY <1>12 DEF vars, linkVars, plcVars
  <2>2. calls' = calls /\ Latest' = Latest
    BY <2>1 DEF driverVars, calls, Latest, Unsent
  <2> QED BY <1>a, <1>b, <1>d, <2>1, <2>2
<1> QED BY <1>1, <1>2, <1>3, <1>4, <1>5, <1>6, <1>7, <1>8, <1>9, <1>10, <1>11, <1>12
       DEF Next

\* The robot's reads: only a CMD_ALLOW_MOVE_1 takes the program past *main, and
\* it is a later call's than the last one carried out.
LEMMA ReadsOrder ==
  ASSUME TypeInv, RobotOrder, AtMostOnce, RobotReads
  PROVE  RobotOrder' /\ AtMostOnce'
<1> DEFINE in == robotIn[ADDR_CMD_1]
<1>1. UNCHANGED <<driverVars, plcVars, reqs, rsps, robotIn, robotOut, performed>>
  BY DEF RobotReads, Robot, RobotMain, RobotReadCmd1, RobotReadSecond, RobotReadType,
         RobotReadSource, RobotReadDest, Goto
<1>2. LastCall' = LastCall
  BY <1>1 DEF LastCall
<1>3. in.by \in Nat /\ LastCall \in Nat
  BY OrderTypes, WordFields
<1>4. nW \in [cmd1 : Word, type : Word, source : Word, dest : Word]
  BY DEF TypeInv, TypeOK, RobotTypeOK
<1>5. AtMostOnce'
  BY <1>1 DEF AtMostOnce, driverVars, calls
<1> DEFINE Reading == {"readsecond", "type", "source", "dest", "startHitMove", "startNormalMove"}
<1>6. label' \notin {"moveReady", "waitforpc"} /\ label \notin {"moveReady", "waitforpc"}
  BY DEF RobotReads, Robot, RobotMain, RobotReadCmd1, RobotReadSecond, RobotReadType,
         RobotReadSource, RobotReadDest, Goto, AfterParams
<1>7. label' \in Reading => \/ label \in Reading /\ nW'.cmd1 = nW.cmd1
                            \/ in.val = CMD_ALLOW_MOVE_1 /\ nW'.cmd1 = in
  BY <1>4 DEF RobotReads, Robot, RobotMain, RobotReadCmd1, RobotReadSecond, RobotReadType,
              RobotReadSource, RobotReadDest, Goto
<1>8. label' \in Reading => LastCall < nW'.cmd1.by /\ nW'.cmd1.by <= in.by
  <2>1. CASE label \in Reading /\ nW'.cmd1 = nW.cmd1
    BY <2>1 DEF RobotOrder
  <2>2. CASE in.val = CMD_ALLOW_MOVE_1 /\ nW'.cmd1 = in
    BY <1>3, <1>6, <2>2 DEF RobotOrder
  <2> QED BY <1>7, <2>1, <2>2
<1>9. robotIn' = robotIn
  BY <1>1
<1>10. RobotOrder'
  BY <1>2, <1>6, <1>8, <1>9 DEF RobotOrder
<1> QED BY <1>5, <1>10

\* The robot's motions and signals: the move that is carried out belongs to a
\* later call than the last one, and *main is reached again only by way of
\* CMD_CLR_READY.
LEMMA ActsOrder ==
  ASSUME TypeInv, RobotOrder, AtMostOnce, CallOrder, RobotActs
  PROVE  RobotOrder' /\ AtMostOnce'
<1> DEFINE in == robotIn[ADDR_CMD_1]
<1>1. UNCHANGED <<driverVars, plcVars, reqs, rsps, robotIn>>
  BY DEF RobotActs, Robot
<1>2. in.by \in Nat /\ LastCall \in Nat /\ nW.cmd1.by \in Nat /\ calls \in Nat
  BY OrderTypes, WordFields
<1>3. calls' = calls
  BY <1>1 DEF driverVars, calls
<1>4. performed \in Seq(Execution) /\ Len(performed) \in Nat
  BY DEF TypeInv, TypeOK, RobotTypeOK
<1>5. CASE RobotStartNormalMove
  <2> DEFINE e == [call |-> nW.cmd1.by, source |-> nW.source.val, dest |-> nW.dest.val,
                   type |-> nW.type.val]
             n == Len(performed)
  <2>1. performed' = Append(performed, e) /\ label' = "moveReady" /\ nW' = nW
        /\ label = "startNormalMove"
    BY <1>5 DEF RobotStartNormalMove
  <2>2. e.call = nW.cmd1.by
    OBVIOUS
  <2> HIDE DEF e
  <2>3. /\ Len(performed') = n + 1 /\ performed'[n + 1] = e /\ n \in Nat
        /\ \A i \in 1 .. n : performed'[i] = performed[i]
    BY <1>4, <2>1
  <2>4. performed' # <<>> /\ LastCall' = nW.cmd1.by
    <3>1. performed' # <<>>
      BY <2>3
    <3> QED BY <2>2, <2>3, <3>1 DEF LastCall
  <2>5. LastCall < nW.cmd1.by /\ nW.cmd1.by <= in.by /\ in.by <= calls
    <3>1. LastCall < nW.cmd1.by /\ nW.cmd1.by <= in.by
      BY <2>1 DEF RobotOrder
    <3>2. in.by <= calls
      BY <1>2 DEF CallOrder
    <3> QED BY <3>1, <3>2
  <2> HIDE DEF n
  <2>6. \A i \in 1 .. n : performed[i].call \in Nat /\ performed[i].call <= LastCall
    <3> TAKE i \in 1 .. n
    <3>1. n # 0 /\ performed # <<>> /\ LastCall = performed[n].call
      BY <2>3 DEF LastCall, n
    <3>2. performed[i].call \in Nat
      BY OrderTypes DEF n
    <3>3. i < n => performed[i].call < performed[n].call
      BY <2>3 DEF AtMostOnce, n
    <3>4. i < n \/ i = n
      BY <2>3
    <3> QED BY <1>2, <3>1, <3>2, <3>3, <3>4
  <2>7. AtMostOnce'
    <3>1. ASSUME NEW i \in 1 .. n + 1, NEW j \in 1 .. n + 1, i < j
          PROVE  performed'[i].call < performed'[j].call
      <4>1. CASE j = n + 1
        <5>1. i \in 1 .. n
          BY <3>1, <4>1, <2>3
        <5> QED BY <1>2, <2>2, <2>3, <2>5, <2>6, <4>1, <5>1
      <4>2. CASE j # n + 1
        <5>1. i \in 1 .. n /\ j \in 1 .. n
          BY <3>1, <4>2, <2>3
        <5> QED BY <2>3, <3>1, <5>1 DEF AtMostOnce, n
      <4> QED BY <4>1, <4>2
    <3>2. ASSUME NEW i \in 1 .. n + 1 PROVE performed'[i].call \in 1 .. calls'
      <4>1. CASE i = n + 1
        BY <1>2, <1>3, <2>2, <2>3, <2>5, <4>1
      <4>2. CASE i # n + 1
        <5>1. i \in 1 .. n
          BY <4>2, <2>3
        <5> QED BY <1>3, <2>3, <5>1 DEF AtMostOnce, n
      <4> QED BY <4>1, <4>2
    <3> QED BY <2>3, <3>1, <3>2 DEF AtMostOnce
  <2>8. RobotOrder'
    BY <1>1, <2>1, <2>4, <2>5 DEF RobotOrder
  <2> QED BY <2>7, <2>8
<1>6. CASE ~RobotStartNormalMove
  <2>1. performed' = performed /\ nW' = nW
    BY <1>6 DEF RobotActs, Robot, RobotStartHitMove, RobotOffBoard, RobotMoveReady, RobotWaitForPc,
                RobotClearReady, Goto
  <2>2. LastCall' = LastCall /\ AtMostOnce'
    BY <1>3, <2>1 DEF LastCall, AtMostOnce
  <2>3. \/ label \in {"startHitMove", "startNormalMove"} /\ label' \in {"startNormalMove", "stopped"}
        \/ label = "moveReady" /\ label' = "waitforpc"
        \/ label = "waitforpc" /\ label' = "clearReady" /\ in.val = CMD_CLR_READY
        \/ label = "clearReady" /\ label' = "main"
    BY <1>6 DEF RobotActs, Robot, RobotStartHitMove, RobotOffBoard, RobotMoveReady, RobotWaitForPc,
                RobotClearReady, Goto
  <2>4. RobotOrder'
    BY <1>1, <2>1, <2>2, <2>3, Constants DEF RobotOrder
  <2> QED BY <2>2, <2>4
<1> QED BY <1>5, <1>6

\* At the start nothing has been sent and nothing done.
LEMMA InitOnce == Init => OnceInv
<1> SUFFICES ASSUME Init PROVE OnceInv
  OBVIOUS
<1>1. /\ robotIn[ADDR_CMD_1] = Zero /\ d[ADDR_CMD_1] = Zero
      /\ reqs = <<>> /\ performed = <<>> /\ issued = <<>> /\ label = "main"
  BY Constants DEF Init, LinkInit, PlcInit, DriverInit, RobotInit, ADDR_CMD_1
<1>2. Cmd1Writes = {} /\ LastCall = 0 /\ calls = 0 /\ ~Unsent
  BY <1>1 DEF Cmd1Writes, LastCall, calls, Init, DriverInit, Unsent
<1>3. CommandOrder /\ CallOrder
  BY <1>1, <1>2, ZeroWord DEF CommandOrder, CallOrder
<1>4. RobotOrder
  BY <1>1, <1>2, ZeroWord DEF RobotOrder, CMD_ALLOW_MOVE_1
<1>5. AtMostOnce
  BY <1>1 DEF AtMostOnce
<1> QED BY <1>3, <1>4, <1>5 DEF OnceInv

\* Every step preserves the invariant: it is one of the robot's, or leaves the
\* robot's variables alone.
LEMMA NextOnce == TypeInv /\ OnceInv /\ [Next]_vars => OnceInv'
<1> SUFFICES ASSUME TypeInv, OnceInv, [Next]_vars PROVE OnceInv'
  OBVIOUS
<1>1. TypeInv' /\ AtMostOnce /\ CommandOrder /\ CallOrder /\ RobotOrder
  BY NextType DEF OnceInv
<1>2. /\ CommandOrder' /\ CallOrder' /\ InputFollows /\ calls <= calls'
      /\ UNCHANGED robotVars \/ RobotReads \/ RobotActs
  BY <1>1, NextPipe
<1>3. AtMostOnce' /\ RobotOrder'
  BY <1>1, <1>2, RobotFrame, ReadsOrder, ActsOrder
<1> QED BY <1>2, <1>3 DEF OnceInv

\* The words in flight keep their order, whatever is lost, refused, answered
\* late or cut short by a restart of the PC program.
THEOREM OnceInvariant == Spec => []OnceInv
  BY InitType, NextType, InitOnce, NextOnce, PTL DEF Spec

\* robot_sendMove makes the robot move at most once: also with timed-out and
\* refused requests, broken connections and restarts of the PC program in any
\* number, and also when the application does not wait between two calls.
THEOREM NoMoveTwice == Spec => []AtMostOnce
<1>1. OnceInv => AtMostOnce
  BY DEF OnceInv
<1> QED BY OnceInvariant, <1>1, PTL
=============================================================================
