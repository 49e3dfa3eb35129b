---------------------------- MODULE ModbusServer ----------------------------
(***************************************************************************)
(* modbus_reply: a server takes a request, checks it, carries it out on    *)
(* its tables (modbus_mapping_t) and answers.  One action per case of its  *)
(* switch.                                                                 *)
(***************************************************************************)
EXTENDS ModbusFrames

CONSTANT InitTabs   \* the tables as the server's application may have filled them

VARIABLE tabs   \* bits, input_bits, registers, input_registers; address a is at a + 1

\* "REPORT_SLAVE_ID": id, run indicator, "LMB3.0.6".
SlaveId == <<180, 255, 76, 77, 66, 51, 46, 48, 46, 54>>

ServerInit == tabs \in InitTabs

-----------------------------------------------------------------------------
Part(tab, addr, nb) == SubSeq(tab, addr + 1, addr + nb)
Put(tab, addr, vals) ==
  [i \in 1 .. Len(tab) |-> IF i - addr \in 1 .. Len(vals) THEN vals[i - addr] ELSE tab[i]]

Inside(tab, addr, nb) == addr + nb <= Len(tab)

NoException == 0
Verdict(valid, inside) ==
  IF ~valid THEN ILLEGAL_DATA_VALUE ELSE IF ~inside THEN ILLEGAL_DATA_ADDRESS ELSE NoException

\* build_response_basis (the header, up to the function code), with the identifier
\* of the request.
Header(function) == [Basis(function, 0, 0, header_length + 1) EXCEPT !.tid = req.tid]

\* response_exception.
ExceptionResponse(code) ==
  [Header((req.function + 128) % 256) EXCEPT !.count = code, !.len = @ + 1]

\* The answer to a write repeats the address and the number (or the value).
Echo == [Header(req.function) EXCEPT !.addr = req.addr, !.nb = req.nb, !.len = @ + 4]

\* The request is obeyed, or answered by an exception.
Obey(verdict, answer, tables) ==
  /\ req' = NoMsg
  /\ IF verdict = NoException THEN rsp' = answer /\ tabs' = tables
                              ELSE rsp' = ExceptionResponse(verdict) /\ UNCHANGED tabs

ReplyReadBits(function, tab) ==
  /\ req.function = function
  /\ Obey(Verdict(req.nb \in 1 .. MAX_READ_BITS, Inside(tab, req.addr, req.nb)),
          WithData(Header(function), ByteCount(req.nb), PackBits(Part(tab, req.addr, req.nb))),
          tabs)

\* Mutant: the limit itself is refused.
ReplyReadRegistersLess(function, tab) ==
  /\ req.function = function
  /\ Obey(Verdict(req.nb \in 1 .. MAX_READ_REGISTERS - 1, Inside(tab, req.addr, req.nb)),
          WithData(Header(function), 2 * req.nb, Part(tab, req.addr, req.nb)),
          tabs)
ReplyReadRegisters(function, tab) ==
  /\ req.function = function
  /\ Obey(Verdict(req.nb \in 1 .. MAX_READ_REGISTERS, Inside(tab, req.addr, req.nb)),
          WithData(Header(function), 2 * req.nb, Part(tab, req.addr, req.nb)),
          tabs)

\* The address is looked at before the value.
ReplyWriteBit ==
  /\ req.function = WRITE_SINGLE_COIL
  /\ Obey(IF ~Inside(tabs.bits, req.addr, 1) THEN ILLEGAL_DATA_ADDRESS
          ELSE IF req.nb \notin {65280, 0} THEN ILLEGAL_DATA_VALUE ELSE NoException,
          Echo,
          [tabs EXCEPT !.bits = Put(@, req.addr, <<IF req.nb # 0 THEN 1 ELSE 0>>)])

ReplyWriteRegister ==
  /\ req.function = WRITE_SINGLE_REGISTER
  /\ Obey(Verdict(TRUE, Inside(tabs.registers, req.addr, 1)),
          Echo,
          [tabs EXCEPT !.registers = Put(@, req.addr, <<req.nb>>)])

ReplyWriteBits ==
  /\ req.function = WRITE_MULTIPLE_COILS
  /\ Obey(Verdict(req.nb \in 1 .. MAX_WRITE_BITS, Inside(tabs.bits, req.addr, req.nb)),
          Echo,
          [tabs EXCEPT !.bits = Put(@, req.addr, UnpackBits(req.data, req.nb))])

ReplyWriteRegisters ==
  /\ req.function = WRITE_MULTIPLE_REGISTERS
  /\ Obey(Verdict(req.nb \in 1 .. MAX_WRITE_REGISTERS, Inside(tabs.registers, req.addr, req.nb)),
          Echo,
          [tabs EXCEPT !.registers = Put(@, req.addr, req.data)])

\* Write first, then read.
\* Mutant: read first.
ReplyReadAndWrite ==
  /\ req.function = WRITE_AND_READ_REGISTERS
  /\ Obey(Verdict(/\ req.wnb \in 1 .. MAX_RW_WRITE_REGISTERS
                  /\ req.nb \in 1 .. MAX_READ_REGISTERS
                  /\ req.count = 2 * req.wnb,
                  /\ Inside(tabs.registers, req.addr, req.nb)
                  /\ Inside(tabs.registers, req.waddr, req.wnb)),
          WithData(Header(req.function), 2 * req.nb, Part(tabs.registers, req.addr, req.nb)),
          [tabs EXCEPT !.registers = Put(@, req.waddr, req.data)])
ReplyWriteAndRead ==
  /\ req.function = WRITE_AND_READ_REGISTERS
  /\ LET written == Put(tabs.registers, req.waddr, req.data) IN
       Obey(Verdict(/\ req.wnb \in 1 .. MAX_RW_WRITE_REGISTERS
                    /\ req.nb \in 1 .. MAX_READ_REGISTERS
                    /\ req.count = 2 * req.wnb,
                    /\ Inside(tabs.registers, req.addr, req.nb)
                    /\ Inside(tabs.registers, req.waddr, req.wnb)),
            WithData(Header(req.function), 2 * req.nb, Part(written, req.addr, req.nb)),
            [tabs EXCEPT !.registers = written])

ReplySlaveId ==
  /\ req.function = REPORT_SLAVE_ID
  /\ Obey(NoException, WithData(Header(req.function), Len(SlaveId), SlaveId), tabs)

\* Not implemented: no answer at all.
ReplyNothing ==
  /\ req.function = READ_EXCEPTION_STATUS
  /\ req' = NoMsg
  /\ UNCHANGED <<rsp, tabs>>

Known == 1 .. 7 \union 15 .. 17 \union {WRITE_AND_READ_REGISTERS}
ReplyUnknown ==
  /\ req # NoMsg
  /\ req.function \notin Known
  /\ Obey(ILLEGAL_FUNCTION, NoMsg, tabs)

Reply ==
  \/ ReplyReadBits(READ_COILS, tabs.bits)
  \/ ReplyReadBits(READ_DISCRETE_INPUTS, tabs.input_bits)
  \/ ReplyReadRegisters(READ_HOLDING_REGISTERS, tabs.registers)
  \/ ReplyReadRegisters(READ_INPUT_REGISTERS, tabs.input_registers)
  \/ ReplyWriteBit \/ ReplyWriteRegister \/ ReplyWriteBits \/ ReplyWriteRegisters
  \/ ReplyWriteAndRead \/ ReplySlaveId \/ ReplyNothing \/ ReplyUnknown

\* modbus_reply_exception: the application of the server refuses.
ReplyException ==
  /\ req # NoMsg
  /\ rsp' = ExceptionResponse(SERVER_BUSY)
  /\ req' = NoMsg
  /\ UNCHANGED tabs
=============================================================================
