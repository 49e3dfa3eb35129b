-------------------------------- MODULE Plc --------------------------------
(***************************************************************************)
(* The PLC between the PC program and the robot.  Its own program is a     *)
(* binary engineering project, so it is modelled from how the PC program   *)
(* and the robot program use it: a Modbus/TCP server over the data         *)
(* registers D540 ... D545 and D1040, and a cyclic program that copies,    *)
(* word by word and in address order, the command registers to the robot   *)
(* and the robot's output word to D1040.  One scan answers at most one     *)
(* request and then copies every word.                                     *)
(***************************************************************************)
EXTENDS RegisterMap

VARIABLES
  d,       \* D540 ... D545
  ready,   \* D1040, the READY word as the PC program reads it
  scan     \* 0: start of a scan; n > 0: the n-th word is copied next

plcVars == <<d, ready, scan>>

PlcInit ==
  /\ d = [a \in CommandAddrs |-> Zero]
  /\ ready = Zero
  /\ scan = 0

PlcTypeOK ==
  /\ d \in [CommandAddrs -> Word]
  /\ ready \in Word
  /\ scan \in 0 .. 6

\* The registers after the words of a request have been stored.
Store(r) == [a \in CommandAddrs |-> IF a - r.addr + 1 \in DOMAIN r.words
                                     THEN r.words[a - r.addr + 1] ELSE d[a]]

\* An answer to a connection that no longer stands goes nowhere.
Answer(r, ok, word) ==
  rsps' = IF connected
            THEN Append(rsps, [tid |-> r.tid, op |-> r.op, ok |-> ok, word |-> word])
            ELSE rsps

\* The Modbus server answers the oldest request with the registers' contents.
PlcServe ==
  /\ scan = 0
  /\ reqs # <<>>
  /\ LET r == Head(reqs) IN
       /\ d' = Store(r)
       /\ Answer(r, TRUE, IF r.op = "read_registers" THEN ready ELSE Zero)
  /\ reqs' = Tail(reqs)
  /\ scan' = 1
  /\ UNCHANGED <<ready, connected, robotIn, robotOut>>

\* The server refuses the oldest request with a Modbus exception.
PlcReject ==
  /\ scan = 0
  /\ reqs # <<>>
  /\ Answer(Head(reqs), FALSE, Zero)
  /\ reqs' = Tail(reqs)
  /\ scan' = 1
  /\ UNCHANGED <<d, ready, connected, robotIn, robotOut>>

\* A scan that finds no request goes straight to copying.
PlcNoRequest ==
  /\ scan = 0
  /\ reqs = <<>>
  /\ scan' = 1
  /\ UNCHANGED <<d, ready, linkVars>>

\* One word to the robot; with the first word, the READY word from the robot.
PlcCopyWord ==
  /\ scan > 0
  /\ LET a == ADDR_CMD_1 + scan - 1 IN
       /\ robotIn' = [robotIn EXCEPT ![a] = d[a]]
       /\ ready' = IF a = ADDR_CMD_1 THEN robotOut ELSE ready
  /\ scan' = (scan + 1) % 7
  /\ UNCHANGED <<d, reqs, rsps, connected, robotOut>>
=============================================================================
