----------------------------- MODULE DataTables -----------------------------
(***************************************************************************)
(* What the calls of libmodbus promise to a program that makes them: the   *)
(* tables of the server are read and written as if they were the program's *)
(* own, one whole call at a time, within the limits of the protocol.       *)
(***************************************************************************)
EXTENDS Integers, Sequences

CONSTANTS
  Calls,      \* the calls that may be made: records fn, addr, nb, src, raddr, rnb
  InitTabs,   \* the tables there may be at the start
  SlaveId     \* what the server says of itself

VARIABLES
  tabs,       \* bits, input_bits, registers, input_registers
  call,       \* the call that runs, or NoCall
  last,       \* the last call made
  result      \* what it has returned

tableVars == <<tabs, call, last, result>>

NoCall == [fn |-> "none", addr |-> 0, nb |-> 0, src |-> <<>>, raddr |-> 0, rnb |-> 0]

\* The table of a call, and how many values it may ask for.
Table(fn) == CASE fn \in {"read_bits", "write_bit", "write_bits"} -> "bits"
               [] fn = "read_input_bits" -> "input_bits"
               [] fn = "read_input_registers" -> "input_registers"
               [] OTHER -> "registers"

Limit(fn) == CASE fn \in {"read_bits", "read_input_bits"} -> 2000
               [] fn = "write_bits" -> 1968
               [] fn \in {"read_registers", "read_input_registers"} -> 125
               [] fn = "write_registers" -> 123
               [] fn = "write_and_read_registers" -> 121
               [] OTHER -> 1

Cells(addr, nb) == addr + 1 .. addr + nb

Legal(c) ==
  \/ c.fn = "report_slave_id"
  \/ /\ c.fn \notin {"report_slave_id", "raw"}
     /\ c.nb \in 1 .. Limit(c.fn)
     /\ Cells(c.addr, c.nb) \subseteq DOMAIN tabs[Table(c.fn)]
     /\ c.fn = "write_and_read_registers" =>
          c.rnb \in 1 .. 125 /\ Cells(c.raddr, c.rnb) \subseteq DOMAIN tabs.registers

\* The tables after a call, and the values it hands over.
Writes == {"write_bit", "write_register", "write_bits", "write_registers", "write_and_read_registers"}

Written(c) ==
  IF c.fn \notin Writes THEN tabs
  ELSE [tabs EXCEPT ![Table(c.fn)] =
          [i \in DOMAIN @ |-> IF i \in Cells(c.addr, c.nb) THEN c.src[i - c.addr] ELSE @[i]]]

Values(c) ==
  CASE c.fn \in {"read_bits", "read_input_bits", "read_registers", "read_input_registers"} ->
         [i \in 1 .. c.nb |-> tabs[Table(c.fn)][c.addr + i]]
    [] c.fn = "write_and_read_registers" ->
         [i \in 1 .. c.rnb |-> Written(c).registers[c.raddr + i]]
    [] c.fn = "report_slave_id" -> SlaveId
    [] OTHER -> <<>>

Count(c) == CASE c.fn = "write_and_read_registers" -> c.rnb
              [] c.fn = "report_slave_id" -> Len(SlaveId)
              [] OTHER -> c.nb

-----------------------------------------------------------------------------
TablesInit == tabs \in InitTabs /\ call = NoCall /\ last = NoCall /\ result.rc = -1

Ask ==
  /\ call = NoCall
  /\ \E c \in Calls : call' = c /\ last' = c
  /\ result'.rc = -1
  /\ UNCHANGED tabs

\* A legal call does what it says, and returns the number of values.
Succeed(c) ==
  /\ Legal(c)
  /\ tabs' = Written(c)
  /\ result' = [rc |-> Count(c), errno |-> "none", dest |-> Values(c)]

\* A call that is not legal changes nothing and returns -1; so may a legal one,
\* if the server's program refuses it (report_slave_id cannot tell a refusal from
\* bad data).
Fail(c) ==
  /\ c.fn # "raw"
  /\ result'.rc = -1
  /\ Legal(c) => \/ result'.errno = "EMBXSBUSY"
                 \/ c.fn = "report_slave_id" /\ result'.errno = "EMBBADDATA"
  /\ UNCHANGED tabs

\* A raw request of a function the server does not have changes nothing.
Raw(c) == c.fn = "raw" /\ UNCHANGED tabs

Answer ==
  /\ call # NoCall
  /\ Succeed(call) \/ Fail(call) \/ Raw(call)
  /\ call' = NoCall
  /\ UNCHANGED last

\* Too large a number is refused without asking.
RefuseAtOnce ==
  /\ call = NoCall
  /\ \E c \in Calls : ~Legal(c) /\ last' = c
  /\ result'.rc = -1
  /\ UNCHANGED <<tabs, call>>

TablesNext == Ask \/ Answer \/ RefuseAtOnce
TablesSpec == TablesInit /\ [][TablesNext]_tableVars
=============================================================================
