---------------------------- MODULE ModbusClient ----------------------------
(***************************************************************************)
(* The calls of the libmodbus client: each checks its arguments, builds a  *)
(* request, sends it, receives the answer, checks it against the request   *)
(* and hands over what was read.                                           *)
(***************************************************************************)
EXTENDS ModbusFrames

CONSTANTS
  Calls,     \* the calls that may be made: records fn, addr, nb, src, raddr, rnb
  TidCount   \* number of transaction identifiers: 2^16 in libmodbus

\* The calls of modbus.h.  No number is negative, the array a call is given holds
\* what its number says, and a raw request is only its function code.
Fns == {"read_bits", "read_input_bits", "read_registers", "read_input_registers",
        "write_bit", "write_register", "write_bits", "write_registers",
        "write_and_read_registers", "report_slave_id", "raw"}

Addr == {a \in Nat : a < 65536}
CALL == [fn : Fns, addr : Addr, nb : Nat, src : Seq(Int), raddr : Addr, rnb : Nat]

ASSUME ClientAssumption ==
  /\ TidCount \in Nat \ {0}
  /\ Calls \subseteq CALL
  /\ \A c \in Calls : c.fn = "raw" => c.nb \in 7 .. 127 \ {15, 16, 23}

VARIABLES
  call,    \* the call that runs, or NoCall
  sent,    \* its request
  tId,     \* the static transaction counter
  result,  \* what the last call has returned: rc, errno and the values read
  last     \* history: the last call made

clientVars == <<call, sent, tId, result, last>>

NoCall     == [fn |-> "none", addr |-> 0, nb |-> 0, src |-> <<>>, raddr |-> 0, rnb |-> 0]
Result(rc, errno, dest) == [rc |-> rc, errno |-> errno, dest |-> dest]
Failure(errno) == Result(-1, errno, <<>>)
NoResult   == Failure("none")

ClientInit ==
  /\ call = NoCall /\ sent = NoMsg
  /\ tId = 0
  /\ result = NoResult /\ last = NoCall
  /\ req = NoMsg /\ rsp = NoMsg

-----------------------------------------------------------------------------
\* The calls that refuse too large a number before they send anything.
\* Mutant: the limits of reading are used for writing.
TooManyToRead(c) ==
  \/ c.fn \in {"read_bits", "read_input_bits", "write_bits"} /\ c.nb > MAX_READ_BITS
  \/ c.fn \in {"read_registers", "read_input_registers", "write_registers"} /\ c.nb > MAX_READ_REGISTERS
  \/ c.fn = "write_and_read_registers" /\ (c.nb > MAX_READ_REGISTERS \/ c.rnb > MAX_READ_REGISTERS)
TooMany(c) ==
  \/ c.fn \in {"read_bits", "read_input_bits"} /\ c.nb > MAX_READ_BITS
  \/ c.fn = "write_bits" /\ c.nb > MAX_WRITE_BITS
  \/ c.fn \in {"read_registers", "read_input_registers"} /\ c.nb > MAX_READ_REGISTERS
  \/ c.fn = "write_registers" /\ c.nb > MAX_WRITE_REGISTERS
  \/ c.fn = "write_and_read_registers" /\ (c.nb > MAX_RW_WRITE_REGISTERS \/ c.rnb > MAX_READ_REGISTERS)

\* _MODBUS_TCP_PRESET_REQ_LENGTH: header, function, address, number.
Plain(function, addr, nb) == Basis(function, addr, nb, header_length + 5)

\* The request of a call.  write_bit and write_register send their value where the
\* others send the number; report_slave_id takes address and number off again;
\* "raw" is modbus_send_raw_request with a function code and nothing else.
Request(c) ==
  CASE c.fn = "read_bits"            -> Plain(READ_COILS, c.addr, c.nb)
    [] c.fn = "read_input_bits"      -> Plain(READ_DISCRETE_INPUTS, c.addr, c.nb)
    [] c.fn = "read_registers"       -> Plain(READ_HOLDING_REGISTERS, c.addr, c.nb)
    [] c.fn = "read_input_registers" -> Plain(READ_INPUT_REGISTERS, c.addr, c.nb)
    [] c.fn = "write_bit"            -> Plain(WRITE_SINGLE_COIL, c.addr, IF c.src[1] # 0 THEN 65280 ELSE 0)
    [] c.fn = "write_register"       -> Plain(WRITE_SINGLE_REGISTER, c.addr, c.src[1] % 65536)
    [] c.fn = "write_bits" ->
         WithData(Plain(WRITE_MULTIPLE_COILS, c.addr, c.nb), ByteCount(c.nb), PackBits(c.src))
    [] c.fn = "write_registers" ->
         WithData(Plain(WRITE_MULTIPLE_REGISTERS, c.addr, c.nb), 2 * c.nb, c.src)
    [] c.fn = "write_and_read_registers" ->
         WithData([Plain(WRITE_AND_READ_REGISTERS, c.raddr, c.rnb) EXCEPT
                     !.waddr = c.addr, !.wnb = c.nb, !.len = @ + 4], 2 * c.nb, c.src)
    [] c.fn = "report_slave_id"      -> [Plain(REPORT_SLAVE_ID, 0, 0) EXCEPT !.len = @ - 4]
    [] c.fn = "raw"                  -> Basis(c.nb, 0, 0, header_length + 1)

\* A call is made: it fails at once, or sends its request and waits.
Invoke ==
  /\ call = NoCall
  /\ \E c \in Calls :
     /\ last' = c
     /\ \/ /\ TooMany(c)
           /\ result' = Failure("EMBMDATA")
           /\ UNCHANGED <<call, sent, tId, req, rsp>>
        \/ /\ ~TooMany(c)
           /\ tId' = IF c.fn = "raw" THEN tId ELSE (tId + 1) % TidCount
           /\ sent' = [Request(c) EXCEPT !.tid = IF c.fn = "raw" THEN 0 ELSE tId']
           /\ call' = c /\ req' = sent' /\ result' = NoResult
           /\ UNCHANGED rsp

-----------------------------------------------------------------------------
\* The number of values, as check_confirmation takes it from the request and
\* from the answer.
Asked(q, r) ==
  CASE q.function \in {READ_COILS, READ_DISCRETE_INPUTS} -> ByteCount(q.nb)
    [] q.function \in {WRITE_AND_READ_REGISTERS, READ_HOLDING_REGISTERS, READ_INPUT_REGISTERS,
                       WRITE_MULTIPLE_COILS, WRITE_MULTIPLE_REGISTERS} -> q.nb
    [] q.function = REPORT_SLAVE_ID -> r.count
    [] OTHER -> 1
Answered(r) ==
  CASE r.function \in {READ_COILS, READ_DISCRETE_INPUTS, REPORT_SLAVE_ID} -> r.count
    [] r.function \in {WRITE_AND_READ_REGISTERS, READ_HOLDING_REGISTERS, READ_INPUT_REGISTERS} ->
         r.count \div 2
    [] r.function \in {WRITE_MULTIPLE_COILS, WRITE_MULTIPLE_REGISTERS} -> r.nb
    [] OTHER -> 1

Exception(code) ==
  IF code \in 1 .. 11
    THEN <<"EMBXILFUN", "EMBXILADD", "EMBXILVAL", "EMBXSFAIL", "EMBXACK", "EMBXSBUSY",
           "EMBXNACK", "EMBXMEMPAR", "not defined", "EMBXGPATH", "EMBXGTAR">>[code]
    ELSE "EMBBADEXC"

\* check_confirmation.  An exception to a read of no values has just the length
\* of its regular answer, and any answer to report_slave_id has: the function
\* code is then found wrong before the exception is seen.
CheckConfirmation(q, r) ==
  LET regular == q.function = REPORT_SLAVE_ID \/ AnswerBytes(r) = AnswerLength(q) IN
    CASE q.tid # r.tid \/ AnswerBytes(r) > max_adu_length -> Failure("EMBBADDATA")
      [] q.tid = r.tid /\ AnswerBytes(r) <= max_adu_length /\ regular ->
           IF q.function = r.function /\ Asked(q, r) = Answered(r)
             THEN Result(Answered(r), "none", <<>>) ELSE Failure("EMBBADDATA")
      [] q.tid = r.tid /\ AnswerBytes(r) <= max_adu_length /\ ~regular ->
           IF AnswerBytes(r) = header_length + 2 /\ q.function = r.function - 128
             THEN Failure(Exception(r.count)) ELSE Failure("EMBBADDATA")

\* What a call returns when its answer is in order: the bit reads return nb, and
\* only nb bits are handed over.
Deliver(c, r, checked) ==
  IF checked.rc = -1 THEN checked
  ELSE CASE c.fn \in {"read_bits", "read_input_bits"} ->
              Result(c.nb, "none", UnpackBits(r.data, c.nb))
         [] c.fn \in {"read_registers", "read_input_registers",
                      "write_and_read_registers", "report_slave_id"} ->
              Result(checked.rc, "none", SubSeq(r.data, 1, checked.rc))
         [] OTHER -> checked

\* modbus_receive_confirmation, after a raw request, checks nothing.
Confirm ==
  /\ call # NoCall
  /\ rsp # NoMsg
  /\ result' = IF call.fn = "raw" THEN Result(AnswerBytes(rsp), "none", <<>>)
               ELSE Deliver(call, rsp, CheckConfirmation(sent, rsp))
  /\ call' = NoCall /\ sent' = NoMsg /\ rsp' = NoMsg
  /\ UNCHANGED <<tId, last, req>>

\* receive_msg: no answer comes.
TimedOut ==
  /\ call # NoCall
  /\ req = NoMsg /\ rsp = NoMsg
  /\ result' = Failure("ETIMEDOUT")
  /\ call' = NoCall /\ sent' = NoMsg
  /\ UNCHANGED <<tId, last, req, rsp>>
=============================================================================
