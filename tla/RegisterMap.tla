---------------------------- MODULE RegisterMap ----------------------------
(***************************************************************************)
(* What the three parts of the system share: the command words (types.h),  *)
(* the register addresses (consts.h), the Modbus/TCP connection between    *)
(* the PC program and the PLC, and the multi-CPU memory between the PLC    *)
(* and the robot controller.                                               *)
(***************************************************************************)
EXTENDS Integers, Sequences, FiniteSets

CONSTANTS
  Moves,      \* the moves the application may order (values of MOVE, types.h)
  TidCount    \* number of Modbus/TCP transaction identifiers: 2^16 in libmodbus

NORMAL_MOVE == 33
HIT_MOVE    == 173

CMD_ALLOW_MOVE_1 == 21331
CMD_ALLOW_MOVE_2 == 6425
CMD_EXIT         == 13107
CMD_CLR_READY    == 2
CMD_READY        == 1111

ADDR_CMD_1      == 540
ADDR_CMD_2      == 541
ADDR_MOVESOURCE == 542
ADDR_MOVEDEST   == 543
ADDR_MOVETYPE   == 544
ADDR_CMD_EXIT   == 545
ADDR_READY      == 1040

CommandAddrs == ADDR_CMD_1 .. ADDR_CMD_EXIT

REG16 == {n \in Nat : n < 65536}

\* (REG16) n: an int stored into a 16-bit register keeps its low 16 bits.
Reg16(n) == n % 65536

MOVE == [source : Int, dest : Int, type : {NORMAL_MOVE, HIT_MOVE}]

ASSUME MovesAssumption == Moves \subseteq MOVE
ASSUME TidAssumption   == TidCount \in Nat \ {0}

-----------------------------------------------------------------------------
\* A register word.  "val" is the 16-bit content.  "by" is history only, never
\* tested by an action: the number of robot_sendMove calls the PC program had
\* started when it sent the word (for the READY word: the number of the call
\* whose command word started the motion).
Word   == [val : REG16, by : Nat]
Zero   == [val |-> 0, by |-> 0]

\* A request writes its words to consecutive registers from "addr" on; a read
\* of the READY register carries none.
Tid      == 0 .. TidCount - 1
Op       == {"write_register", "write_registers", "read_registers"}
Request  == [tid : Tid, op : Op,
             addr : CommandAddrs \union {ADDR_READY}, words : Seq(Word)]
Response == [tid : Tid, op : Op, ok : BOOLEAN, word : Word]

VARIABLES
  reqs,      \* requests on the connection, oldest first (PC to PLC)
  rsps,      \* answers on the connection, oldest first (PLC to PC)
  connected, \* the connection stands
  robotIn,   \* the robot's input words M_In(10800 ...), one per command register
  robotOut   \* the robot's output word M_Out(10800 ...), the READY word

linkVars == <<reqs, rsps, connected, robotIn, robotOut>>

LinkInit ==
  /\ reqs = <<>>
  /\ rsps = <<>>
  /\ connected = TRUE
  /\ robotIn = [a \in CommandAddrs |-> Zero]
  /\ robotOut = Zero

LinkTypeOK ==
  /\ reqs \in Seq(Request)
  /\ rsps \in Seq(Response)
  /\ connected \in BOOLEAN
  /\ robotIn \in [CommandAddrs -> Word]
  /\ robotOut \in Word
=============================================================================
