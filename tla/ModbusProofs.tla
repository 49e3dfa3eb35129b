---------------------------- MODULE ModbusProofs ----------------------------
(***************************************************************************)
(* Theorems about ModbusTransaction: whatever calls are made, the two ends *)
(* agree on the length of every message; and client, server and connection *)
(* together do what DataTables says; and the data helpers read back what   *)
(* they have written.                                                      *)
(***************************************************************************)
EXTENDS MCModbus, SequenceTheorems, TLAPS

\* FramesAgree is inductive together with the range of the function code of a
\* request, which tells a request from an exception.
FramesInv == FramesAgree /\ req.function \in 0 .. 127

\* k bytes hold 8k bits.
LEMMA ByteCountBound ==
  ASSUME NEW nb \in Nat, NEW k \in Nat, nb <= 8 * k
  PROVE  ByteCount(nb) \in 0 .. k
  BY DEF ByteCount

\* The largest number of bits a server hands over fills 250 bytes.
LEMMA ReadByteCount ==
  \A nb \in 1 .. MAX_READ_BITS : ByteCount(nb) \in 0 .. 250
BY DEF ByteCount, MAX_READ_BITS

\* Every request a call builds is as long as the server takes it to be.
LEMMA RequestFrames ==
  ASSUME NEW c \in Calls, ~TooMany(c), NEW t,
         NEW q, q = [Request(c) EXCEPT !.tid = t]
  PROVE  /\ RequestBytes(q) = q.len
         /\ q.len <= max_adu_length
         /\ q.function \in 0 .. 127
<1>1. c \in CALL /\ (c.fn = "raw" => c.nb \in 7 .. 127 \ {15, 16, 23})
  BY ClientAssumption
<1>2. c.fn \in Fns /\ c.nb \in Nat /\ c.rnb \in Nat
  BY <1>1 DEF CALL
<1> USE DEF Plain, Basis, WithData, RequestBytes, RequestMeta, RequestData, header_length,
            max_adu_length, WRITE_SINGLE_REGISTER, WRITE_MULTIPLE_COILS,
            WRITE_MULTIPLE_REGISTERS, WRITE_AND_READ_REGISTERS
<1>3. CASE c.fn \in {"read_bits", "read_input_bits", "read_registers", "read_input_registers",
                     "write_bit", "write_register", "report_slave_id"}
  <2>1. ASSUME NEW f \in 1 .. 6, NEW n, Request(c) = Plain(f, c.addr, n)
        PROVE  q.function = f /\ q.len = 12 /\ RequestBytes(q) = 12
    BY <2>1
  <2>2. CASE c.fn = "read_bits"
    <3>1. Request(c) = Plain(1, c.addr, c.nb)
      BY <2>2 DEF Request, READ_COILS
    <3> QED
      BY <3>1, <2>1
  <2>3. CASE c.fn = "read_input_bits"
    <3>1. Request(c) = Plain(2, c.addr, c.nb)
      BY <2>3 DEF Request, READ_DISCRETE_INPUTS
    <3> QED
      BY <3>1, <2>1
  <2>4. CASE c.fn = "read_registers"
    <3>1. Request(c) = Plain(3, c.addr, c.nb)
      BY <2>4 DEF Request, READ_HOLDING_REGISTERS
    <3> QED
      BY <3>1, <2>1
  <2>5. CASE c.fn = "read_input_registers"
    <3>1. Request(c) = Plain(4, c.addr, c.nb)
      BY <2>5 DEF Request, READ_INPUT_REGISTERS
    <3> QED
      BY <3>1, <2>1
  <2>6. CASE c.fn = "write_bit"
    <3>1. Request(c) = Plain(5, c.addr, IF c.src[1] # 0 THEN 65280 ELSE 0)
      BY <2>6 DEF Request, WRITE_SINGLE_COIL
    <3> QED
      BY <3>1, <2>1
  <2>7. CASE c.fn = "write_register"
    <3>1. Request(c) = Plain(6, c.addr, c.src[1] % 65536)
      BY <2>7 DEF Request, WRITE_SINGLE_REGISTER
    <3> QED
      BY <3>1, <2>1
  <2>8. CASE c.fn = "report_slave_id"
    <3>1. Request(c) = [Plain(17, 0, 0) EXCEPT !.len = @ - 4]
      BY <2>8 DEF Request, REPORT_SLAVE_ID
    <3> QED
      BY <3>1
  <2> QED
    BY <1>3, <2>2, <2>3, <2>4, <2>5, <2>6, <2>7, <2>8
<1>4. CASE c.fn = "write_bits"
  <2>1. c.nb <= 8 * 246
    BY <1>2, <1>4 DEF TooMany, MAX_WRITE_BITS
  <2>2. ByteCount(c.nb) \in 0 .. 246
    BY <1>2, <2>1, ByteCountBound
  <2>3. Request(c) = WithData(Plain(15, c.addr, c.nb), ByteCount(c.nb), PackBits(c.src))
    BY <1>4 DEF Request
  <2> QED
    BY <2>2, <2>3
<1>5. CASE c.fn = "write_registers"
  <2>1. c.nb <= 123
    BY <1>2, <1>5 DEF TooMany, MAX_WRITE_REGISTERS
  <2>2. Request(c) = WithData(Plain(16, c.addr, c.nb), 2 * c.nb, c.src)
    BY <1>5 DEF Request
  <2> QED
    BY <1>2, <2>1, <2>2
<1>6. CASE c.fn = "write_and_read_registers"
  <2>1. c.nb <= 121
    BY <1>2, <1>6 DEF TooMany, MAX_RW_WRITE_REGISTERS
  <2>2. Request(c) = WithData([Plain(23, c.raddr, c.rnb) EXCEPT
                                 !.waddr = c.addr, !.wnb = c.nb, !.len = @ + 4], 2 * c.nb, c.src)
    BY <1>6 DEF Request
  <2> QED
    BY <1>2, <2>1, <2>2
<1>7. CASE c.fn = "raw"
  <2>1. Request(c) = Basis(c.nb, 0, 0, 8)
    BY <1>7 DEF Request
  <2>2. c.nb \in Nat /\ 7 <= c.nb /\ c.nb <= 127 /\ c.nb \notin {15, 16, 23}
    BY <1>1, <1>7
  <2>3. q.function = c.nb /\ q.len = 8 /\ q.count = 0
    BY <2>1
  <2>4. RequestMeta(c.nb) = 0
    BY <2>2
  <2>5. RequestData(q) = 0
    BY <2>2, <2>3
  <2> QED
    BY <2>2, <2>3, <2>4, <2>5
<1> QED
  BY <1>2, <1>3, <1>4, <1>5, <1>6, <1>7 DEF Fns

-----------------------------------------------------------------------------
\* An answer that the client reads to its end, and no further.
WholeAnswer(r) == AnswerBytes(r) = r.len /\ r.len <= max_adu_length

\* The client reads an answer that carries data to its end.
LEMMA DataFrames ==
  ASSUME NEW f \in {1, 2, 3, 4, 17, 23}, NEW n \in 0 .. 250, NEW data, NEW t,
         NEW r, r = WithData([Basis(f, 0, 0, 8) EXCEPT !.tid = t], n, data)
  PROVE  WholeAnswer(r)
<1>1. r.function = f /\ r.count = n % 256 /\ r.len = 9 + n
  BY DEF WithData, Basis
<1>2. n % 256 = n
  OBVIOUS
<1>3. AnswerMeta(f) = 1
  BY DEF AnswerMeta, WRITE_SINGLE_COIL, WRITE_SINGLE_REGISTER, WRITE_MULTIPLE_COILS,
         WRITE_MULTIPLE_REGISTERS
<1>4. AnswerData(r) = n
  BY <1>1, <1>2 DEF AnswerData, READ_INPUT_REGISTERS, REPORT_SLAVE_ID, WRITE_AND_READ_REGISTERS
<1> QED
  BY <1>1, <1>3, <1>4 DEF WholeAnswer, AnswerBytes, header_length, max_adu_length

\* And the answer to a write.
LEMMA EchoFrames ==
  ASSUME NEW f \in {5, 6, 15, 16}, NEW a, NEW n, NEW t, NEW r,
         r = [[Basis(f, 0, 0, 8) EXCEPT !.tid = t] EXCEPT !.addr = a, !.nb = n, !.len = @ + 4]
  PROVE  WholeAnswer(r)
<1>1. r.function = f /\ r.len = 12
  BY DEF Basis
<1>2. AnswerMeta(f) = 4
  BY DEF AnswerMeta, WRITE_SINGLE_COIL, WRITE_SINGLE_REGISTER, WRITE_MULTIPLE_COILS,
         WRITE_MULTIPLE_REGISTERS
<1>3. AnswerData(r) = 0
  BY <1>1 DEF AnswerData, READ_INPUT_REGISTERS, REPORT_SLAVE_ID, WRITE_AND_READ_REGISTERS
<1> QED
  BY <1>1, <1>2, <1>3 DEF WholeAnswer, AnswerBytes, header_length, max_adu_length

\* And an exception.
LEMMA ExceptionFrames ==
  ASSUME NEW f \in 0 .. 127, NEW code, NEW t, NEW r,
         r = [[Basis((f + 128) % 256, 0, 0, 8) EXCEPT !.tid = t] EXCEPT !.count = code, !.len = @ + 1]
  PROVE  WholeAnswer(r)
<1>1. (f + 128) % 256 = f + 128
  OBVIOUS
<1>2. r.function = f + 128 /\ r.len = 9
  BY <1>1 DEF Basis
<1>3. AnswerMeta(f + 128) = 1
  BY DEF AnswerMeta, WRITE_SINGLE_COIL, WRITE_SINGLE_REGISTER, WRITE_MULTIPLE_COILS,
         WRITE_MULTIPLE_REGISTERS
<1>4. AnswerData(r) = 0
  BY <1>2 DEF AnswerData, READ_INPUT_REGISTERS, REPORT_SLAVE_ID, WRITE_AND_READ_REGISTERS
<1> QED
  BY <1>2, <1>3, <1>4 DEF WholeAnswer, AnswerBytes, header_length, max_adu_length

-----------------------------------------------------------------------------
\* What the server sends, seen as such messages.
LEMMA ServerFrames ==
  ASSUME req.function \in 0 .. 127
  PROVE  /\ \A code : WholeAnswer(ExceptionResponse(code))
         /\ \A f \in {1, 2, 3, 4, 17, 23} : \A n \in 0 .. 250 : \A data :
              WholeAnswer(WithData(Header(f), n, data))
         /\ req.function \in {5, 6, 15, 16} => WholeAnswer(Echo)
<1>1. ASSUME NEW f
      PROVE  Header(f) = [Basis(f, 0, 0, 8) EXCEPT !.tid = req.tid]
  BY DEF Header, header_length
<1>2. ASSUME NEW code
      PROVE  WholeAnswer(ExceptionResponse(code))
  <2>1. ExceptionResponse(code) =
          [[Basis((req.function + 128) % 256, 0, 0, 8) EXCEPT !.tid = req.tid]
             EXCEPT !.count = code, !.len = @ + 1]
    BY <1>1 DEF ExceptionResponse
  <2> QED
    BY <2>1, ExceptionFrames
<1>3. ASSUME NEW f \in {1, 2, 3, 4, 17, 23}, NEW n \in 0 .. 250, NEW data
      PROVE  WholeAnswer(WithData(Header(f), n, data))
  <2>1. WithData(Header(f), n, data) = WithData([Basis(f, 0, 0, 8) EXCEPT !.tid = req.tid], n, data)
    BY <1>1
  <2> QED
    BY <2>1, DataFrames
<1>4. ASSUME req.function \in {5, 6, 15, 16}
      PROVE  WholeAnswer(Echo)
  <2>1. Echo = [[Basis(req.function, 0, 0, 8) EXCEPT !.tid = req.tid]
                  EXCEPT !.addr = req.addr, !.nb = req.nb, !.len = @ + 4]
    BY <1>1 DEF Echo
  <2> QED
    BY <1>4, <2>1, EchoFrames
<1> QED
  BY <1>2, <1>3, <1>4

\* A server that obeys with a whole answer, or answers with an exception, keeps
\* the invariant.
LEMMA ObeyKeeps ==
  ASSUME req.function \in 0 .. 127, NEW verdict, NEW answer, NEW tables,
         Obey(verdict, answer, tables),
         verdict = NoException => WholeAnswer(answer)
  PROVE  FramesInv'
<1>1. WholeAnswer(ExceptionResponse(verdict))
  BY ServerFrames
<1>2. req' = NoMsg /\ (\/ rsp' = answer /\ WholeAnswer(answer)
                       \/ rsp' = ExceptionResponse(verdict))
  BY DEF Obey
<1>3. WholeAnswer(rsp')
  BY <1>1, <1>2
<1> QED
  BY <1>2, <1>3 DEF FramesInv, FramesAgree, WholeAnswer, NoMsg, Basis

\* Every case of modbus_reply keeps it.
LEMMA ReplyKeeps ==
  ASSUME FramesInv, Reply
  PROVE  FramesInv'
<1> DEFINE full(f, n, data) == WithData(Header(f), n, data)
<1>1. req.function \in 0 .. 127
  BY DEF FramesInv
<1>2. \A f \in {1, 2, 3, 4, 17, 23} : \A n \in 0 .. 250 : \A data : WholeAnswer(full(f, n, data))
  BY <1>1, ServerFrames
<1>3. req.function \in {5, 6, 15, 16} => WholeAnswer(Echo)
  BY <1>1, ServerFrames
<1>4. ASSUME NEW f \in {1, 2}, NEW tab, ReplyReadBits(f, tab)
      PROVE  FramesInv'
  <2> DEFINE verdict == Verdict(req.nb \in 1 .. MAX_READ_BITS, Inside(tab, req.addr, req.nb))
             answer  == full(f, ByteCount(req.nb), PackBits(Part(tab, req.addr, req.nb)))
  <2>1. ASSUME verdict = NoException
        PROVE  WholeAnswer(answer)
    <3>1. req.nb \in 1 .. MAX_READ_BITS
      BY <2>1 DEF Verdict, NoException, ILLEGAL_DATA_VALUE
    <3>2. ByteCount(req.nb) \in 0 .. 250
      BY <3>1, ReadByteCount
    <3> QED
      BY <1>2, <3>2
  <2>2. Obey(verdict, answer, tabs)
    BY <1>4 DEF ReplyReadBits
  <2> QED
    BY <1>1, <2>1, <2>2, ObeyKeeps
<1>5. ASSUME NEW f \in {3, 4}, NEW tab, ReplyReadRegisters(f, tab)
      PROVE  FramesInv'
  <2> DEFINE verdict == Verdict(req.nb \in 1 .. MAX_READ_REGISTERS, Inside(tab, req.addr, req.nb))
             answer  == full(f, 2 * req.nb, Part(tab, req.addr, req.nb))
  <2>1. ASSUME verdict = NoException
        PROVE  WholeAnswer(answer)
    <3>1. req.nb \in 1 .. 125
      BY <2>1 DEF Verdict, NoException, ILLEGAL_DATA_VALUE, MAX_READ_REGISTERS
    <3>2. 2 * req.nb \in 0 .. 250
      BY <3>1
    <3> QED
      BY <1>2, <3>2
  <2>2. Obey(verdict, answer, tabs)
    BY <1>5 DEF ReplyReadRegisters
  <2> QED
    BY <1>1, <2>1, <2>2, ObeyKeeps
<1>6. ASSUME NEW verdict, NEW tables, Obey(verdict, Echo, tables), req.function \in {5, 6, 15, 16}
      PROVE  FramesInv'
  BY <1>1, <1>3, <1>6, ObeyKeeps
<1>7. CASE ReplyWriteBit
  BY <1>6, <1>7 DEF ReplyWriteBit, WRITE_SINGLE_COIL
<1>8. CASE ReplyWriteRegister
  BY <1>6, <1>8 DEF ReplyWriteRegister, WRITE_SINGLE_REGISTER
<1>9. CASE ReplyWriteBits
  BY <1>6, <1>9 DEF ReplyWriteBits, WRITE_MULTIPLE_COILS
<1>10. CASE ReplyWriteRegisters
  BY <1>6, <1>10 DEF ReplyWriteRegisters, WRITE_MULTIPLE_REGISTERS
<1>11. CASE ReplyWriteAndRead
  <2> DEFINE valid == /\ req.wnb \in 1 .. MAX_RW_WRITE_REGISTERS
                      /\ req.nb \in 1 .. MAX_READ_REGISTERS
                      /\ req.count = 2 * req.wnb
             inside == /\ Inside(tabs.registers, req.addr, req.nb)
                       /\ Inside(tabs.registers, req.waddr, req.wnb)
             written == Put(tabs.registers, req.waddr, req.data)
             verdict == Verdict(valid, inside)
             answer  == full(23, 2 * req.nb, Part(written, req.addr, req.nb))
  <2>1. ASSUME verdict = NoException
        PROVE  WholeAnswer(answer)
    <3>1. req.nb \in 1 .. 125
      BY <2>1 DEF Verdict, NoException, ILLEGAL_DATA_VALUE, MAX_READ_REGISTERS
    <3>2. 2 * req.nb \in 0 .. 250
      BY <3>1
    <3> QED
      BY <1>2, <3>2
  <2>2. Obey(verdict, answer, [tabs EXCEPT !.registers = written])
    BY <1>11 DEF ReplyWriteAndRead, WRITE_AND_READ_REGISTERS
  <2> QED
    BY <1>1, <2>1, <2>2, ObeyKeeps
<1>12. CASE ReplySlaveId
  <2>1. Len(SlaveId) \in 0 .. 250
    BY DEF SlaveId
  <2>2. Obey(NoException, full(17, Len(SlaveId), SlaveId), tabs)
    BY <1>12 DEF ReplySlaveId, REPORT_SLAVE_ID
  <2> QED
    BY <1>1, <1>2, <2>1, <2>2, ObeyKeeps
<1>13. CASE ReplyNothing
  BY <1>13 DEF ReplyNothing, FramesInv, FramesAgree, NoMsg, Basis
<1>14. CASE ReplyUnknown
  <2>1. Obey(ILLEGAL_FUNCTION, NoMsg, tabs) /\ ILLEGAL_FUNCTION # NoException
    BY <1>14 DEF ReplyUnknown, ILLEGAL_FUNCTION, NoException
  <2> QED
    BY <1>1, <2>1, ObeyKeeps
<1> QED
  BY <1>4, <1>5, <1>7, <1>8, <1>9, <1>10, <1>11, <1>12, <1>13, <1>14
     DEF Reply, READ_COILS, READ_DISCRETE_INPUTS, READ_HOLDING_REGISTERS, READ_INPUT_REGISTERS

-----------------------------------------------------------------------------
\* The invariant holds in every state: no message is ever read short, long or
\* into a buffer that is too small, for any tables and any calls.
THEOREM FramesInvariant == Spec => []FramesInv
<1>1. Init => FramesInv
  BY DEF Init, ClientInit, FramesInv, FramesAgree, NoMsg, Basis
<1>2. FramesInv /\ [Next]_vars => FramesInv'
  <2> SUFFICES ASSUME FramesInv, [Next]_vars
               PROVE  FramesInv'
    OBVIOUS
  <2>1. CASE Ask
    <3>1. CASE UNCHANGED <<req, rsp>>
      BY <3>1 DEF FramesInv, FramesAgree
    <3>2. ASSUME NEW c \in Calls, ~TooMany(c),
                 req' = [Request(c) EXCEPT !.tid = IF c.fn = "raw" THEN 0 ELSE tId'],
                 UNCHANGED rsp
          PROVE  FramesInv'
      BY <3>2, RequestFrames DEF FramesInv, FramesAgree
    <3> QED
      BY <2>1, <3>1, <3>2 DEF Ask, Invoke
  <2>2. CASE Serve
    BY <2>2, ReplyKeeps DEF Serve
  <2>3. CASE Refuse
    <3>1. WholeAnswer(rsp') /\ req' = NoMsg
      BY <2>3, ServerFrames DEF Refuse, ReplyException, FramesInv
    <3> QED
      BY <3>1 DEF FramesInv, FramesAgree, WholeAnswer, NoMsg, Basis
  <2>4. CASE Return
    BY <2>4 DEF Return, Confirm, FramesInv, FramesAgree
  <2>5. CASE GiveUp
    BY <2>5 DEF GiveUp, TimedOut, FramesInv, FramesAgree
  <2>6. CASE UNCHANGED vars
    BY <2>6 DEF vars, FramesInv, FramesAgree
  <2> QED
    BY <2>1, <2>2, <2>3, <2>4, <2>5, <2>6 DEF Next
<1> QED
  BY <1>1, <1>2, PTL DEF Spec

\* Both ends agree on the length of every message on the connection.
THEOREM NoMessageCut == Spec => []FramesAgree
<1>1. FramesInv => FramesAgree
  BY DEF FramesInv
<1> QED
  BY <1>1, FramesInvariant, PTL

-----------------------------------------------------------------------------
(* Bits, bytes and ranges.                                                   *)

\* The place of bit i in its byte.
LEMMA BitPlace ==
  ASSUME NEW n \in Nat, NEW i \in 1 .. n
  PROVE  /\ (i - 1) \div 8 + 1 \in 1 .. ByteCount(n)
         /\ (i - 1) % 8 \in 0 .. 7
         /\ 8 * ((i - 1) \div 8) + ((i - 1) % 8) = i - 1
<1> DEFINE b == (i - 1) \div 8
           p == (i - 1) % 8
<1>1. b \in Nat /\ p \in 0 .. 7 /\ i - 1 = 8 * b + p
  OBVIOUS
<1>2. ByteCount(n) \in Int /\ b + 1 <= ByteCount(n)
  BY <1>1 DEF ByteCount
<1> HIDE DEF b, p
<1>3. b + 1 \in 1 .. ByteCount(n) /\ p \in 0 .. 7 /\ 8 * b + p = i - 1
  BY <1>1, <1>2
<1> QED BY <1>3, Zenon DEF b, p

\* What is packed and unpacked again is what it was.
LEMMA Unpacked ==
  ASSUME NEW bits \in BitTable
  PROVE  UnpackBits(PackBits(bits), Len(bits)) = bits
<1> DEFINE n == Len(bits)
           Places(k) == {p \in 0 .. 7 : 8 * (k - 1) + p < n /\ bits[8 * (k - 1) + p + 1] = 1}
<1>1. n \in Nat /\ DOMAIN bits = 1 .. n /\ \A i \in 1 .. n : bits[i] \in {0, 1}
  BY LenProperties, ElementOfSeq DEF BitTable
<1>2. ASSUME NEW i \in 1 .. n
      PROVE  UnpackBits(PackBits(bits), n)[i] = bits[i]
  <2>1. PICK b \in Int, p \in 0 .. 7 :
          b = (i - 1) \div 8 /\ p = (i - 1) % 8 /\ b + 1 \in 1 .. ByteCount(n) /\ 8 * b + p = i - 1
    BY <1>1, BitPlace
  <2>2. PackBits(bits)[b + 1] = Places(b + 1)
    BY <2>1 DEF PackBits
  <2>3. p \in Places(b + 1) <=> bits[i] = 1
    <3>1. 8 * ((b + 1) - 1) + p < n /\ 8 * ((b + 1) - 1) + p + 1 = i
      BY <1>1, <2>1
    <3> QED BY <3>1
  <2>4. UnpackBits(PackBits(bits), n)[i] = IF p \in PackBits(bits)[b + 1] THEN 1 ELSE 0
    BY <2>1 DEF UnpackBits
  <2> QED BY <1>1, <2>2, <2>3, <2>4
<1>3. DOMAIN UnpackBits(PackBits(bits), n) = 1 .. n
  BY DEF UnpackBits
<1>4. UnpackBits(PackBits(bits), n) = [i \in 1 .. n |-> UnpackBits(PackBits(bits), n)[i]]
  BY DEF UnpackBits
<1>5. bits = [i \in 1 .. n |-> bits[i]]
  BY <1>1 DEF BitTable
<1> QED BY <1>2, <1>4, <1>5

\* A part of a table.
LEMMA Parts ==
  ASSUME NEW S, NEW tab \in Seq(S), NEW a \in Nat, NEW n \in Nat, Inside(tab, a, n)
  PROVE  /\ Part(tab, a, n) \in Seq(S) /\ Len(Part(tab, a, n)) = n
         /\ Part(tab, a, n) = [i \in 1 .. n |-> tab[a + i]]
<1>1. Len(tab) \in Nat /\ a + n <= Len(tab)
  BY LenProperties DEF Inside
<1>2. Part(tab, a, n) = [i \in 1 .. (a + n) - (a + 1) + 1 |-> tab[i + (a + 1) - 1]]
  BY <1>1 DEF Part
<1>3. Part(tab, a, n) = [i \in 1 .. n |-> tab[a + i]]
  BY <1>2
<1>4. \A i \in 1 .. n : tab[a + i] \in S
  <2>1. \A i \in 1 .. n : a + i \in 1 .. Len(tab)
    BY <1>1
  <2> QED BY <2>1, ElementOfSeq
<1>5. Part(tab, a, n) \in [1 .. n -> S]
  BY <1>3, <1>4
<1>6. Part(tab, a, n) \in Seq(S)
  BY <1>5, SeqDef
<1>7. DOMAIN Part(tab, a, n) = 1 .. n
  BY <1>3
<1>8. Len(Part(tab, a, n)) = n
  BY <1>6, <1>7, LenProperties
<1> QED BY <1>3, <1>6, <1>8

\* A table that is written to.
Filled(tab, a, n, vals) ==
  [i \in DOMAIN tab |-> IF i \in Tables!Cells(a, n) THEN vals[i - a] ELSE tab[i]]

LEMMA Puts ==
  ASSUME NEW S, NEW tab \in Seq(S), NEW a \in Nat, NEW vals \in Seq(S)
  PROVE  /\ Put(tab, a, vals) \in Seq(S) /\ Len(Put(tab, a, vals)) = Len(tab)
         /\ Put(tab, a, vals) = Filled(tab, a, Len(vals), vals)
<1>1. /\ Len(tab) \in Nat /\ DOMAIN tab = 1 .. Len(tab) /\ Len(vals) \in Nat
      /\ \A i \in 1 .. Len(tab) : tab[i] \in S
      /\ \A i \in 1 .. Len(vals) : vals[i] \in S
  BY LenProperties, ElementOfSeq
<1>2. \A i \in 1 .. Len(tab) : i - a \in 1 .. Len(vals) <=> i \in Tables!Cells(a, Len(vals))
  BY <1>1 DEF Tables!Cells
<1>3. Put(tab, a, vals) = Filled(tab, a, Len(vals), vals)
  BY <1>1, <1>2 DEF Put, Filled
<1>4. Put(tab, a, vals) \in [1 .. Len(tab) -> S]
  BY <1>1 DEF Put
<1>5. Put(tab, a, vals) \in Seq(S)
  BY <1>1, <1>4, SeqDef
<1>6. DOMAIN Put(tab, a, vals) = 1 .. Len(tab)
  BY DEF Put
<1>7. Len(Put(tab, a, vals)) = Len(tab)
  BY <1>1, <1>5, <1>6, LenProperties
<1> QED BY <1>3, <1>5, <1>7

\* The server's test of a range is the one of DataTables.
LEMMA InsideCells ==
  ASSUME NEW tab \in Seq(Int), NEW a \in Nat, NEW n \in Nat, n >= 1
  PROVE  Tables!Cells(a, n) \subseteq DOMAIN tab <=> Inside(tab, a, n)
<1>1. Len(tab) \in Nat /\ DOMAIN tab = 1 .. Len(tab)
  BY LenProperties
<1>2. a + n \in Tables!Cells(a, n)
  BY DEF Tables!Cells
<1> QED BY <1>1, <1>2 DEF Tables!Cells, Inside

-----------------------------------------------------------------------------
(* What the client makes of an answer.                                       *)

Codes == 0 .. 127

\* An answer of the length and the number that were asked for is taken.
LEMMA AnswerTaken ==
  ASSUME NEW q, NEW r, q.tid = r.tid, q.function = r.function, WholeAnswer(r),
         AnswerBytes(r) \in Nat,
         q.function = REPORT_SLAVE_ID \/ AnswerBytes(r) = AnswerLength(q),
         Asked(q, r) = Answered(r)
  PROVE  CheckConfirmation(q, r) = Result(Answered(r), "none", <<>>)
<1>1. ~ (AnswerBytes(r) > max_adu_length)
  BY DEF WholeAnswer, max_adu_length
<1> QED BY <1>1 DEF CheckConfirmation, max_adu_length

\* An exception is never taken for success, and the client sees which it is, unless
\* it is as long as the regular answer would be.
LEMMA ExceptionTaken ==
  ASSUME NEW q, q.function \in Codes, NEW code \in 1 .. 11,
         NEW r, r.function = q.function + 128, r.count = code, r.tid = q.tid,
         AnswerBytes(r) = 9, AnswerLength(q) \in Int
  PROVE  /\ CheckConfirmation(q, r).rc = -1
         /\ q.function # REPORT_SLAVE_ID /\ AnswerLength(q) # 9 =>
              CheckConfirmation(q, r).errno = Exception(code)
         /\ q.function = REPORT_SLAVE_ID => CheckConfirmation(q, r).errno = "EMBBADDATA"
<1> DEFINE regular == q.function = REPORT_SLAVE_ID \/ AnswerBytes(r) = AnswerLength(q)
<1>1. /\ ~ (AnswerBytes(r) > max_adu_length) /\ AnswerBytes(r) <= max_adu_length
      /\ q.function # r.function /\ q.function = r.function - 128
      /\ AnswerBytes(r) = header_length + 2
  BY DEF max_adu_length, header_length, Codes
<1>2. CheckConfirmation(q, r) =
        IF regular THEN Failure("EMBBADDATA") ELSE Failure(Exception(code))
  BY <1>1, Zenon DEF CheckConfirmation
<1>3. \A e : Failure(e).rc = -1 /\ Failure(e).errno = e
  BY DEF Failure, Result
<1>4. CASE regular
  BY <1>2, <1>3, <1>4
<1>5. CASE ~regular
  BY <1>2, <1>3, <1>5
<1> QED BY <1>4, <1>5

\* The length of the answer is known for the requests of the calls.
LEMMA AnswerLengths ==
  ASSUME NEW q, q.nb \in Nat, q.function \in {1, 2, 3, 4, 5, 6, 15, 16, 17, 23}
  PROVE  /\ q.function \in {1, 2} => AnswerLength(q) = 9 + ByteCount(q.nb)
         /\ q.function \in {3, 4, 23} => AnswerLength(q) = 9 + 2 * q.nb
         /\ q.function \in {5, 6, 15, 16, 17} => AnswerLength(q) = 12
         /\ AnswerLength(q) \in Int
         /\ q.nb >= 1 => AnswerLength(q) # 9
<1> USE DEF AnswerLength, header_length, READ_COILS, READ_DISCRETE_INPUTS,
       WRITE_AND_READ_REGISTERS, READ_HOLDING_REGISTERS, READ_INPUT_REGISTERS, READ_EXCEPTION_STATUS
<1>1. CASE q.function \in {1, 2}
  <2>1. AnswerLength(q) = 7 + (2 + ByteCount(q.nb))
    BY <1>1
  <2>2. ByteCount(q.nb) \in Nat /\ (q.nb >= 1 => ByteCount(q.nb) >= 1)
    BY DEF ByteCount
  <2> QED BY <1>1, <2>1, <2>2
<1>2. CASE q.function \in {3, 4, 23}
  BY <1>2
<1>3. CASE q.function \in {5, 6, 15, 16, 17}
  BY <1>3
<1> QED BY <1>1, <1>2, <1>3

-----------------------------------------------------------------------------
(* The requests and answers, field by field.                                 *)

LEMMA AnswerFields ==
  ASSUME NEW f, NEW n, NEW data
  PROVE  /\ WithData(Header(f), n, data).function = f
         /\ WithData(Header(f), n, data).tid = req.tid
         /\ WithData(Header(f), n, data).count = n % 256
         /\ WithData(Header(f), n, data).data = data
         /\ WithData(Header(f), n, data).len = 8 + 1 + n
         /\ Echo.function = req.function /\ Echo.tid = req.tid /\ Echo.nb = req.nb
BY DEF WithData, Header, Echo, Basis, header_length

LEMMA ExceptionFields ==
  ASSUME NEW code, req.function \in Codes
  PROVE  /\ ExceptionResponse(code).function = req.function + 128
         /\ ExceptionResponse(code).count = code
         /\ ExceptionResponse(code).tid = req.tid
         /\ AnswerBytes(ExceptionResponse(code)) = 9
<1> DEFINE r == ExceptionResponse(code)
<1>1. (req.function + 128) % 256 = req.function + 128
  BY DEF Codes
<1>2. r.function = req.function + 128 /\ r.count = code /\ r.tid = req.tid /\ r.len = 9
  BY <1>1 DEF ExceptionResponse, Header, Basis, header_length
<1>3. WholeAnswer(r)
  BY ServerFrames DEF Codes
<1> QED BY <1>2, <1>3 DEF WholeAnswer

\* The word a single value is sent as.
CoilWord(v)     == IF v # 0 THEN 65280 ELSE 0
RegisterWord(v) == v % 65536

LEMMA WordValues ==
  /\ \A v : CoilWord(v) \in Nat
  /\ \A v \in RegisterValues : v \in Nat /\ RegisterWord(v) = v
<1>1. \A v : CoilWord(v) \in Nat
  BY DEF CoilWord
<1>2. ASSUME NEW v \in Nat, v < 65536 PROVE RegisterWord(v) = v
  BY <1>2 DEF RegisterWord
<1> QED BY <1>1, <1>2 DEF RegisterValues

\* The request of call c.
Code(c) ==
  CASE c.fn = "read_bits" -> 1 [] c.fn = "read_input_bits" -> 2
    [] c.fn = "read_registers" -> 3 [] c.fn = "read_input_registers" -> 4
    [] c.fn = "write_bit" -> 5 [] c.fn = "write_register" -> 6
    [] c.fn = "write_bits" -> 15 [] c.fn = "write_registers" -> 16
    [] c.fn = "report_slave_id" -> 17
    [] c.fn = "write_and_read_registers" -> 23
    [] c.fn = "raw" -> c.nb
Asks(c, q) ==
  /\ q.function = Code(c)
  /\ c.fn \notin {"write_and_read_registers", "report_slave_id", "raw"} => q.addr = c.addr
  /\ c.fn \notin {"write_and_read_registers", "report_slave_id", "raw", "write_bit", "write_register"} =>
       q.nb = c.nb
  /\ c.fn = "write_bit" => q.nb = CoilWord(c.src[1])
  /\ c.fn = "write_register" => q.nb = RegisterWord(c.src[1])
  /\ c.fn = "write_bits" => q.data = PackBits(c.src)
  /\ c.fn = "write_registers" => q.data = c.src
  /\ c.fn = "write_and_read_registers" =>
       /\ q.addr = c.raddr /\ q.nb = c.rnb /\ q.waddr = c.addr /\ q.wnb = c.nb
       /\ q.count = (2 * c.nb) % 256 /\ q.data = c.src
  /\ c.fn = "report_slave_id" => q.nb = 0

LEMMA Plainly ==
  ASSUME NEW f, NEW a, NEW n, NEW t
  PROVE  /\ [Plain(f, a, n) EXCEPT !.tid = t].function = f
         /\ [Plain(f, a, n) EXCEPT !.tid = t].addr = a
         /\ [Plain(f, a, n) EXCEPT !.tid = t].nb = n
         /\ \A k, d : /\ [WithData(Plain(f, a, n), k, d) EXCEPT !.tid = t].function = f
                      /\ [WithData(Plain(f, a, n), k, d) EXCEPT !.tid = t].addr = a
                      /\ [WithData(Plain(f, a, n), k, d) EXCEPT !.tid = t].nb = n
                      /\ [WithData(Plain(f, a, n), k, d) EXCEPT !.tid = t].data = d
BY DEF Plain, Basis, WithData

LEMMA RequestFields ==
  ASSUME NEW c \in Calls, NEW t, NEW q, q = [Request(c) EXCEPT !.tid = t]
  PROVE  Asks(c, q)
<1>1. c.fn \in Fns
  BY ClientAssumption DEF CALL
<1>2. CASE c.fn = "read_bits"
  <2>1. Request(c) = Plain(1, c.addr, c.nb)
    BY <1>2 DEF Request, READ_COILS
  <2>2. q.function = 1 /\ q.addr = c.addr /\ q.nb = c.nb
    BY <2>1, Plainly
  <2> QED BY <1>2, <2>2 DEF Asks, Code
<1>3. CASE c.fn = "read_input_bits"
  <2>1. Request(c) = Plain(2, c.addr, c.nb)
    BY <1>3 DEF Request, READ_DISCRETE_INPUTS
  <2>2. q.function = 2 /\ q.addr = c.addr /\ q.nb = c.nb
    BY <2>1, Plainly
  <2> QED BY <1>3, <2>2 DEF Asks, Code
<1>4. CASE c.fn = "read_registers"
  <2>1. Request(c) = Plain(3, c.addr, c.nb)
    BY <1>4 DEF Request, READ_HOLDING_REGISTERS
  <2>2. q.function = 3 /\ q.addr = c.addr /\ q.nb = c.nb
    BY <2>1, Plainly
  <2> QED BY <1>4, <2>2 DEF Asks, Code
<1>5. CASE c.fn = "read_input_registers"
  <2>1. Request(c) = Plain(4, c.addr, c.nb)
    BY <1>5 DEF Request, READ_INPUT_REGISTERS
  <2>2. q.function = 4 /\ q.addr = c.addr /\ q.nb = c.nb
    BY <2>1, Plainly
  <2> QED BY <1>5, <2>2 DEF Asks, Code
<1>6. CASE c.fn = "write_bit"
  <2> DEFINE v == CoilWord(c.src[1])
  <2>1. Request(c) = Plain(5, c.addr, v)
    BY <1>6 DEF Request, CoilWord, WRITE_SINGLE_COIL
  <2>2. q.function = 5 /\ q.addr = c.addr /\ q.nb = v
    <3> HIDE DEF v
    <3> QED BY <2>1, Plainly
  <2> QED BY <1>6, <2>2 DEF Asks, Code
<1>7. CASE c.fn = "write_register"
  <2> DEFINE v == RegisterWord(c.src[1])
  <2>1. Request(c) = Plain(6, c.addr, v)
    BY <1>7 DEF Request, RegisterWord, WRITE_SINGLE_REGISTER
  <2>2. q.function = 6 /\ q.addr = c.addr /\ q.nb = v
    <3> HIDE DEF v
    <3> QED BY <2>1, Plainly
  <2> QED BY <1>7, <2>2 DEF Asks, Code
<1>8. CASE c.fn = "write_bits"
  <2> DEFINE k == ByteCount(c.nb)
             d == PackBits(c.src)
  <2>1. Request(c) = WithData(Plain(15, c.addr, c.nb), k, d)
    BY <1>8 DEF Request, WRITE_MULTIPLE_COILS
  <2>2. q.function = 15 /\ q.addr = c.addr /\ q.nb = c.nb /\ q.data = d
    <3> HIDE DEF k, d
    <3> QED BY <2>1, Plainly
  <2> QED BY <1>8, <2>2 DEF Asks, Code
<1>9. CASE c.fn = "write_registers"
  <2> DEFINE k == 2 * c.nb
             d == c.src
  <2>1. Request(c) = WithData(Plain(16, c.addr, c.nb), k, d)
    BY <1>9 DEF Request, WRITE_MULTIPLE_REGISTERS
  <2>2. q.function = 16 /\ q.addr = c.addr /\ q.nb = c.nb /\ q.data = d
    <3> HIDE DEF k, d
    <3> QED BY <2>1, Plainly
  <2> QED BY <1>9, <2>2 DEF Asks, Code
<1>10. CASE c.fn = "write_and_read_registers"
  <2> DEFINE k == 2 * c.nb
             d == c.src
             plain == [Plain(23, c.raddr, c.rnb) EXCEPT !.waddr = c.addr, !.wnb = c.nb, !.len = @ + 4]
  <2>1. Request(c) = WithData(plain, k, d)
    BY <1>10 DEF Request, WRITE_AND_READ_REGISTERS
  <2>2. /\ plain.function = 23 /\ plain.addr = c.raddr /\ plain.nb = c.rnb
        /\ plain.waddr = c.addr /\ plain.wnb = c.nb
        /\ \A x \in {"tid", "function", "addr", "nb", "waddr", "wnb", "count", "data", "len"} :
             x \in DOMAIN plain
    BY DEF Plain, Basis
  <2>3. /\ q.function = 23 /\ q.addr = c.raddr /\ q.nb = c.rnb
        /\ q.waddr = c.addr /\ q.wnb = c.nb
        /\ q.count = k % 256 /\ q.data = d
    <3> HIDE DEF k, d, plain
    <3>1. PICK w : w = WithData(plain, k, d)
      OBVIOUS
    <3>2. /\ w.function = plain.function /\ w.addr = plain.addr /\ w.nb = plain.nb
          /\ w.waddr = plain.waddr /\ w.wnb = plain.wnb
          /\ w.count = k % 256 /\ w.data = d
          /\ DOMAIN w = DOMAIN plain
      BY <2>2, <3>1 DEF WithData
    <3>3. q = [w EXCEPT !.tid = t]
      BY <2>1, <3>1
    <3> QED BY <2>2, <3>2, <3>3
  <2> QED BY <1>10, <2>3 DEF Asks, Code
<1>11. CASE c.fn = "report_slave_id"
  <2>1. Request(c) = [Plain(17, 0, 0) EXCEPT !.len = @ - 4]
    BY <1>11 DEF Request, REPORT_SLAVE_ID
  <2>2. q.function = 17 /\ q.nb = 0
    BY <2>1 DEF Plain, Basis
  <2> QED BY <1>11, <2>2 DEF Asks, Code
<1>12. CASE c.fn = "raw"
  <2>1. Request(c) = Basis(c.nb, 0, 0, header_length + 1)
    BY <1>12 DEF Request
  <2>2. q.function = c.nb
    BY <2>1 DEF Basis
  <2> QED BY <1>12, <2>2 DEF Asks, Code
<1> QED BY <1>1, <1>2, <1>3, <1>4, <1>5, <1>6, <1>7, <1>8, <1>9, <1>10, <1>11, <1>12 DEF Fns

-----------------------------------------------------------------------------
(* The answers the client takes for success.                                 *)

IsData(r, f, n, data) ==
  /\ WholeAnswer(r) /\ AnswerBytes(r) = 9 + n
  /\ r.function = f /\ r.tid = req.tid /\ r.count = n /\ r.data = data

LEMMA DataArrived ==
  \A f \in {1, 2, 3, 4, 17, 23} : \A n \in 0 .. 250 : \A data :
    req.function = f => IsData(WithData(Header(f), n, data), f, n, data)
<1> SUFFICES ASSUME NEW f \in {1, 2, 3, 4, 17, 23}, NEW n \in 0 .. 250, NEW data, req.function = f
             PROVE  IsData(WithData(Header(f), n, data), f, n, data)
  OBVIOUS
<1> DEFINE r == WithData(Header(f), n, data)
<1>1. WholeAnswer(r)
  <2>1. req.function \in 0 .. 127
    OBVIOUS
  <2>2. \A g \in {1, 2, 3, 4, 17, 23} : \A m \in 0 .. 250 : \A d : WholeAnswer(WithData(Header(g), m, d))
    BY <2>1, ServerFrames
  <2> QED BY <2>2, Zenon
<1>2. r.function = f /\ r.tid = req.tid /\ r.len = 9 + n /\ r.count = n % 256 /\ r.data = data
  BY AnswerFields
<1>3. n % 256 = n
  OBVIOUS
<1> QED BY <1>1, <1>2, <1>3 DEF WholeAnswer, IsData

LEMMA EchoTaken ==
  ASSUME req.function \in {5, 6, 15, 16}, req.nb \in Nat
  PROVE  CheckConfirmation(req, Echo) =
           Result(IF req.function \in {5, 6} THEN 1 ELSE req.nb, "none", <<>>)
<1>1. WholeAnswer(Echo)
  BY ServerFrames
<1>2. Echo.function = req.function /\ Echo.tid = req.tid /\ Echo.nb = req.nb
  BY AnswerFields
<1>3. AnswerBytes(Echo) = 12
  BY <1>2 DEF AnswerBytes, AnswerMeta, AnswerData, header_length, WRITE_SINGLE_COIL,
       WRITE_SINGLE_REGISTER, WRITE_MULTIPLE_COILS, WRITE_MULTIPLE_REGISTERS,
       READ_INPUT_REGISTERS, REPORT_SLAVE_ID, WRITE_AND_READ_REGISTERS
<1>4. AnswerLength(req) = 12
  BY AnswerLengths
<1> USE DEF READ_COILS, READ_DISCRETE_INPUTS, WRITE_AND_READ_REGISTERS, READ_HOLDING_REGISTERS,
       READ_INPUT_REGISTERS, WRITE_MULTIPLE_COILS, WRITE_MULTIPLE_REGISTERS, REPORT_SLAVE_ID
<1>5. /\ Asked(req, Echo) = Answered(Echo)
      /\ Answered(Echo) = IF req.function \in {5, 6} THEN 1 ELSE req.nb
  BY <1>2 DEF Asked, Answered
<1> QED BY <1>1, <1>2, <1>3, <1>4, <1>5, AnswerTaken

-----------------------------------------------------------------------------
(* The server's part of a call.                                              *)

\* Obeyed and Refused, by answer r and with tables t.
Done(c, r, t) ==
  /\ Tables!Legal(c) /\ t = Tables!Written(c)
  /\ Deliver(c, r, CheckConfirmation(sent, r)) = Result(Tables!Count(c), "none", Tables!Values(c))
NotDone(c, r, t) ==
  /\ t = before /\ Deliver(c, r, CheckConfirmation(sent, r)).rc = -1
  /\ Tables!Legal(c) => \/ Deliver(c, r, CheckConfirmation(sent, r)).errno = "EMBXSBUSY"
                        \/ /\ c.fn = "report_slave_id"
                           /\ Deliver(c, r, CheckConfirmation(sent, r)).errno = "EMBBADDATA"

\* The request at the server is that of the call.
Arrived ==
  /\ call \in Calls /\ call \in CALL /\ call # NoCall /\ ~TooMany(call) /\ ProperCall(call)
  /\ sent = req /\ Asks(call, req) /\ req.function \in Codes \ {0}
  /\ tabs = before /\ tabs \in ServerTabs /\ rsp = NoMsg
  /\ call.fn = "raw" => call.nb \in 7 .. 127 \ {15, 16, 23}

LEMMA AtServer ==
  ASSUME ProperUse, TransactionInv, req # NoMsg
  PROVE  Arrived
<1>1. /\ call # NoCall /\ call \in Calls /\ ~TooMany(call)
      /\ sent = [Request(call) EXCEPT !.tid = sent.tid]
      /\ sent = req /\ rsp = NoMsg /\ tabs = before /\ tabs \in ServerTabs
  BY DEF TransactionInv
<1>2. call \in CALL /\ (call.fn = "raw" => call.nb \in 7 .. 127 \ {15, 16, 23})
  BY <1>1, ClientAssumption
<1>3. Asks(call, req)
  BY <1>1, RequestFields
<1>4. req.function \in Codes \ {0}
  <2>1. call.fn \in Fns
    BY <1>2 DEF CALL
  <2>2. CASE call.fn = "raw"
    BY <1>2, <1>3, <2>2 DEF Asks, Code, Codes
  <2>3. CASE call.fn # "raw"
    BY <1>3, <2>1, <2>3 DEF Asks, Code, Codes, Fns
  <2> QED BY <2>2, <2>3
<1> QED BY <1>1, <1>2, <1>3, <1>4 DEF Arrived, ProperUse

\* The server's answer, whatever it is.
LEMMA Served ==
  ASSUME TransactionInv, Arrived, UNCHANGED <<clientVars, before>>,
         req' = NoMsg, tabs' \in ServerTabs,
         IF call.fn = "raw" THEN tabs' = before
                            ELSE rsp' # NoMsg /\ (Done(call, rsp', tabs') \/ NotDone(call, rsp', tabs'))
  PROVE  TransactionInv'
<1>1. UNCHANGED <<call, sent, before>>
  BY DEF clientVars
<1>2. Done(call, rsp', tabs') => Obeyed(call)'
  BY <1>1 DEF Done, Obeyed, Outcome, Tables!Legal, Tables!Written, Tables!Count, Tables!Values
<1>3. NotDone(call, rsp', tabs') => Refused(call)'
  BY <1>1 DEF NotDone, Refused, Outcome, Tables!Legal
<1> QED BY <1>1, <1>2, <1>3 DEF TransactionInv, Arrived

\* An exception ends a call with -1, and a legal one with the exception's errno.
LEMMA Refusals ==
  ASSUME Arrived, call.fn # "raw", NEW code \in 1 .. 11, NEW r, r = ExceptionResponse(code)
  PROVE  /\ r # NoMsg
         /\ Deliver(call, r, CheckConfirmation(sent, r)).rc = -1
         /\ Tables!Legal(call) /\ code = 6 =>
              \/ Deliver(call, r, CheckConfirmation(sent, r)).errno = "EMBXSBUSY"
              \/ /\ call.fn = "report_slave_id"
                 /\ Deliver(call, r, CheckConfirmation(sent, r)).errno = "EMBBADDATA"
<1> DEFINE checked == CheckConfirmation(req, r)
<1>1. req.function \in Codes /\ sent = req
  BY DEF Arrived
<1>2. /\ r.function = req.function + 128 /\ r.count = code /\ r.tid = req.tid
      /\ AnswerBytes(r) = 9
  BY <1>1, ExceptionFields
<1>3. call.fn \in Fns \ {"raw"}
  BY DEF Arrived, CALL
<1>4. req.nb \in Nat
  <2>1. Asks(call, req) /\ ProperCall(call) /\ call.nb \in Nat /\ call.rnb \in Nat
    BY DEF Arrived, CALL
  <2>2. CASE call.fn = "write_bit"
    BY <2>1, <2>2, WordValues DEF Asks
  <2>3. CASE call.fn = "write_register"
    BY <2>1, <2>3, WordValues DEF Asks, ProperCall
  <2>4. CASE call.fn \notin {"write_bit", "write_register"}
    BY <1>3, <2>1, <2>4 DEF Asks
  <2> QED BY <2>2, <2>3, <2>4
<1>5. /\ req.function \in {1, 2, 3, 4, 5, 6, 15, 16, 17, 23}
      /\ req.function = 17 <=> call.fn = "report_slave_id"
      /\ call.fn \in {"write_bit", "write_register"} => req.function \in {5, 6}
  <2>1. req.function = Code(call)
    BY DEF Arrived, Asks
  <2>2. call.fn \in {"read_bits", "read_input_bits", "read_registers", "read_input_registers",
                      "write_bit", "write_register", "write_bits", "write_registers",
                      "write_and_read_registers", "report_slave_id"}
    BY <1>3 DEF Fns
  <2>3. Code(call) \in {1, 2, 3, 4, 5, 6, 15, 16, 17, 23}
    BY <2>2 DEF Code
  <2>4. Code(call) = 17 => call.fn = "report_slave_id"
    BY <2>2 DEF Code
  <2>5. call.fn = "report_slave_id" => Code(call) = 17
    BY DEF Code
  <2>6. call.fn \in {"write_bit", "write_register"} => Code(call) \in {5, 6}
    BY DEF Code
  <2> QED BY <2>1, <2>3, <2>4, <2>5, <2>6
<1>6. /\ AnswerLength(req) \in Int
      /\ req.function \in {5, 6} => AnswerLength(req) = 12
      /\ req.nb >= 1 => AnswerLength(req) # 9
  BY <1>4, <1>5, AnswerLengths
<1>7. /\ checked.rc = -1
      /\ req.function # 17 /\ AnswerLength(req) # 9 => checked.errno = Exception(code)
      /\ req.function = 17 => checked.errno = "EMBBADDATA"
  BY <1>1, <1>2, <1>6, ExceptionTaken DEF REPORT_SLAVE_ID
<1>8. Deliver(call, r, checked) = checked
  <2> HIDE DEF checked
  <2> QED BY <1>7 DEF Deliver
<1>9. Tables!Legal(call) /\ req.function # 17 => AnswerLength(req) # 9
  <2> SUFFICES ASSUME Tables!Legal(call), req.function # 17 PROVE AnswerLength(req) # 9
    OBVIOUS
  <2>1. call.nb >= 1 /\ (call.fn = "write_and_read_registers" => call.rnb >= 1)
    <3>1. call.fn # "report_slave_id"
      BY <1>5
    <3>2. Tables!Limit(call.fn) \in Int
      BY DEF Tables!Limit
    <3> QED BY <3>1, <3>2 DEF Tables!Legal
  <2>2. CASE req.function \in {5, 6}
    BY <1>6, <2>2
  <2>3. CASE req.function \notin {5, 6}
    <3>1. req.nb = call.nb \/ (call.fn = "write_and_read_registers" /\ req.nb = call.rnb)
      BY <1>3, <1>5, <2>3 DEF Arrived, Asks
    <3> QED BY <1>6, <2>1, <3>1
  <2> QED BY <2>2, <2>3
<1>10. Exception(6) = "EMBXSBUSY"
  BY DEF Exception
<1>11. r # NoMsg
  BY <1>1, <1>2 DEF NoMsg, Basis, Codes
<1> QED
  <2> HIDE DEF checked
  <2>1. CheckConfirmation(sent, r) = checked
    BY <1>1 DEF checked
  <2> QED BY <1>5, <1>7, <1>8, <1>9, <1>10, <1>11, <2>1

\* A request that is obeyed or answered by an exception.
LEMMA ObeyServed ==
  ASSUME TransactionInv, Arrived, UNCHANGED <<clientVars, before>>, call.fn # "raw",
         NEW verdict \in 0 .. 3, NEW answer, NEW tables, Obey(verdict, answer, tables),
         verdict = 0 => answer.function # 0 /\ tables \in ServerTabs /\ Done(call, answer, tables),
         verdict # 0 => ~Tables!Legal(call)
  PROVE  TransactionInv'
<1>1. CASE verdict = 0
  <2>1. req' = NoMsg /\ rsp' = answer /\ tabs' = tables
    BY <1>1 DEF Obey, NoException
  <2>2. rsp' # NoMsg
    BY <1>1, <2>1 DEF NoMsg, Basis
  <2> QED BY <1>1, <2>1, <2>2, Served
<1>2. CASE verdict # 0
  <2>1. req' = NoMsg /\ rsp' = ExceptionResponse(verdict) /\ tabs' = tabs
    BY <1>2 DEF Obey, NoException
  <2>2. rsp' # NoMsg /\ Deliver(call, rsp', CheckConfirmation(sent, rsp')).rc = -1
    BY <1>2, <2>1, Refusals
  <2>3. NotDone(call, rsp', tabs')
    BY <1>2, <2>1, <2>2 DEF NotDone, Arrived
  <2> QED BY <2>1, <2>2, <2>3, Served DEF Arrived
<1> QED BY <1>1, <1>2

\* The server's program refuses the request.
LEMMA RefuseServed ==
  ASSUME TransactionInv, Arrived, UNCHANGED <<clientVars, before>>, ReplyException
  PROVE  TransactionInv'
<1>1. req' = NoMsg /\ rsp' = ExceptionResponse(6) /\ tabs' = tabs
  BY DEF ReplyException, SERVER_BUSY
<1>2. CASE call.fn = "raw"
  BY <1>1, <1>2, Served DEF Arrived
<1>3. CASE call.fn # "raw"
  <2>1. rsp' # NoMsg /\ NotDone(call, rsp', tabs')
    BY <1>1, <1>3, Refusals DEF NotDone, Arrived
  <2> QED BY <1>1, <1>3, <2>1, Served DEF Arrived
<1> QED BY <1>2, <1>3

-----------------------------------------------------------------------------
(* Case by case.                                                             *)

\* The call from the function code of its request.
LEMMA CallOf ==
  ASSUME Arrived
  PROVE  /\ req.function = 1 => call.fn = "read_bits"
         /\ req.function = 2 => call.fn = "read_input_bits"
         /\ req.function = 3 => call.fn = "read_registers"
         /\ req.function = 4 => call.fn = "read_input_registers"
         /\ req.function = 5 => call.fn = "write_bit"
         /\ req.function = 6 => call.fn = "write_register"
         /\ req.function = 15 => call.fn = "write_bits"
         /\ req.function = 16 => call.fn = "write_registers"
         /\ req.function = 23 => call.fn = "write_and_read_registers"
         /\ req.function = 17 => call.fn \in {"report_slave_id", "raw"}
         /\ req.function \notin {1, 2, 3, 4, 5, 6, 15, 16, 17, 23} => call.fn = "raw"
<1>1. req.function = Code(call) /\ call.fn \in Fns
  BY DEF Arrived, Asks, CALL
<1>2. CASE call.fn = "raw"
  BY <1>1, <1>2 DEF Code, Arrived
<1>3. CASE call.fn # "raw"
  <2>1. \/ call.fn = "read_bits" /\ Code(call) = 1
        \/ call.fn = "read_input_bits" /\ Code(call) = 2
        \/ call.fn = "read_registers" /\ Code(call) = 3
        \/ call.fn = "read_input_registers" /\ Code(call) = 4
        \/ call.fn = "write_bit" /\ Code(call) = 5
        \/ call.fn = "write_register" /\ Code(call) = 6
        \/ call.fn = "write_bits" /\ Code(call) = 15
        \/ call.fn = "write_registers" /\ Code(call) = 16
        \/ call.fn = "report_slave_id" /\ Code(call) = 17
        \/ call.fn = "write_and_read_registers" /\ Code(call) = 23
    BY <1>1, <1>3 DEF Code, Fns
  <2> QED BY <1>1, <2>1
<1> QED BY <1>2, <1>3

\* A call with one range is legal when the server finds it so.
LEMMA LegalPlain ==
  ASSUME Arrived, NEW tab \in Seq(Int), NEW n \in Nat,
         call.fn \in Fns \ {"report_slave_id", "raw", "write_and_read_registers"},
         tab = before[Tables!Table(call.fn)], n = Tables!Limit(call.fn)
  PROVE  Tables!Legal(call) <=> call.nb \in 1 .. n /\ Inside(tab, call.addr, call.nb)
<1>1. call.nb \in Nat /\ call.addr \in Nat
  BY DEF Arrived, CALL, Addr
<1>2. call.nb >= 1 =>
        (Tables!Cells(call.addr, call.nb) \subseteq DOMAIN tab <=> Inside(tab, call.addr, call.nb))
  BY <1>1, InsideCells
<1> QED BY <1>1, <1>2 DEF Tables!Legal

LEMMA TablesAre ==
  ASSUME Arrived
  PROVE  /\ tabs.bits \in BitTable /\ tabs.input_bits \in BitTable
         /\ tabs.bits \in Seq(Int) /\ tabs.input_bits \in Seq(Int)
         /\ tabs.registers \in Seq(Int) /\ tabs.input_registers \in Seq(Int)
         /\ \A a \in Addr : a \in Nat
         /\ call.nb \in Nat /\ call.addr \in Nat /\ call.rnb \in Nat /\ call.raddr \in Nat
         /\ call.src \in Seq(Int)
<1>1. BitTable \subseteq Seq(Int)
  <2> SUFFICES ASSUME NEW s \in Seq({0, 1}) PROVE s \in Seq(Int)
    BY DEF BitTable
  <2>1. s \in [1 .. Len(s) -> {0, 1}] /\ Len(s) \in Nat
    BY LenProperties, ElementOfSeq
  <2>2. s \in [1 .. Len(s) -> Int]
    BY <2>1
  <2> QED BY <2>1, <2>2, SeqDef
<1> QED BY <1>1 DEF Arrived, ServerTabs, CALL, Addr

\* What a range of a table holds.
Held(tab, a, n) == [i \in 1 .. n |-> tab[a + i]]

\* A read of bits.
LEMMA BitsAnswered ==
  ASSUME NEW f \in {1, 2}, NEW tab \in BitTable, NEW a \in Nat,
         NEW n \in 1 .. MAX_READ_BITS, Inside(tab, a, n), req.function = f, req.nb = n,
         NEW r, r = WithData(Header(f), ByteCount(n), PackBits(Part(tab, a, n)))
  PROVE  /\ CheckConfirmation(req, r) = Result(ByteCount(n), "none", <<>>)
         /\ ByteCount(n) \in Nat
         /\ UnpackBits(r.data, n) = Held(tab, a, n)
         /\ r.function = f
<1>0. n \in Nat
  BY DEF MAX_READ_BITS
<1>1. PICK k \in 0 .. 250 : k = ByteCount(n)
  BY ReadByteCount
<1>2. /\ WholeAnswer(r) /\ AnswerBytes(r) = 9 + k
      /\ r.function = f /\ r.tid = req.tid /\ r.count = k /\ r.data = PackBits(Part(tab, a, n))
  <2>1. IsData(r, f, k, PackBits(Part(tab, a, n)))
    BY <1>1, DataArrived
  <2> QED BY <2>1 DEF IsData
<1>3. AnswerLength(req) = 9 + k
  BY <1>0, <1>1, AnswerLengths
<1>5. Asked(req, r) = k /\ Answered(r) = k
  <2>1. Asked(req, r) = ByteCount(n)
    BY DEF Asked, READ_COILS, READ_DISCRETE_INPUTS, READ_HOLDING_REGISTERS, READ_INPUT_REGISTERS,
             WRITE_MULTIPLE_COILS, WRITE_MULTIPLE_REGISTERS, WRITE_AND_READ_REGISTERS, REPORT_SLAVE_ID
  <2>2. Answered(r) = r.count
    BY <1>2 DEF Answered, READ_COILS, READ_DISCRETE_INPUTS, READ_HOLDING_REGISTERS, READ_INPUT_REGISTERS,
             WRITE_MULTIPLE_COILS, WRITE_MULTIPLE_REGISTERS, WRITE_AND_READ_REGISTERS, REPORT_SLAVE_ID
  <2> QED BY <1>1, <1>2, <2>1, <2>2
<1>6. CheckConfirmation(req, r) = Result(k, "none", <<>>)
  <2>1. AnswerBytes(r) = AnswerLength(req) /\ Asked(req, r) = Answered(r)
    BY <1>2, <1>3, <1>5, Zenon
  <2>2. 9 + k \in Nat
    OBVIOUS
  <2>3. AnswerBytes(r) \in Nat
    BY <1>2, <2>2, Zenon
  <2> QED BY <1>2, <1>5, <2>1, <2>3, AnswerTaken
<1>7. Part(tab, a, n) \in BitTable /\ Len(Part(tab, a, n)) = n
      /\ Part(tab, a, n) = [i \in 1 .. n |-> tab[a + i]]
  BY <1>0, Parts DEF BitTable
<1>8. UnpackBits(PackBits(Part(tab, a, n)), n) = Part(tab, a, n)
  BY <1>7, Unpacked
<1>9. UnpackBits(r.data, n) = Held(tab, a, n)
  BY <1>2, <1>7, <1>8, Zenon DEF Held
<1>10. CheckConfirmation(req, r) = Result(ByteCount(n), "none", <<>>)
  BY <1>1, <1>6, Zenon
<1>11. ByteCount(n) \in Nat
  BY <1>1
<1> QED BY <1>2, <1>9, <1>10, <1>11, Zenon

LEMMA ReadBitsServed ==
  ASSUME TransactionInv, Arrived, UNCHANGED <<clientVars, before>>,
         NEW f \in {1, 2}, NEW tab, tab = IF f = 1 THEN tabs.bits ELSE tabs.input_bits,
         ReplyReadBits(f, tab)
  PROVE  TransactionInv'
<1> DEFINE verdict == Verdict(req.nb \in 1 .. MAX_READ_BITS, Inside(tab, req.addr, req.nb))
           answer == WithData(Header(f), ByteCount(req.nb), PackBits(Part(tab, req.addr, req.nb)))
<1>1. /\ req.function = f /\ call.fn \in {"read_bits", "read_input_bits"}
      /\ call.fn = IF f = 1 THEN "read_bits" ELSE "read_input_bits"
  BY CallOf DEF ReplyReadBits
<1>2. PICK a \in Nat, n \in Nat : /\ a = req.addr /\ n = req.nb
                                  /\ a = call.addr /\ n = call.nb
  BY <1>1, TablesAre DEF Arrived, Asks
<1>3. tab = before[Tables!Table(call.fn)] /\ Tables!Limit(call.fn) = MAX_READ_BITS
  BY <1>1 DEF Arrived, Tables!Table, Tables!Limit, MAX_READ_BITS
<1>4. tab \in BitTable /\ tab \in Seq(Int)
  BY TablesAre
<1>5. Tables!Legal(call) <=> n \in 1 .. MAX_READ_BITS /\ Inside(tab, a, n)
  <2>1. MAX_READ_BITS \in Nat
    BY DEF MAX_READ_BITS
  <2> QED BY <1>1, <1>2, <1>3, <1>4, <2>1, LegalPlain DEF Fns
<1>6. verdict \in 0 .. 3 /\ (verdict = 0 <=> Tables!Legal(call))
  BY <1>2, <1>5 DEF Verdict, ILLEGAL_DATA_VALUE, ILLEGAL_DATA_ADDRESS, NoException
<1>7. Obey(verdict, answer, tabs)
  BY DEF ReplyReadBits
<1>8. ASSUME Tables!Legal(call)
      PROVE  answer.function # 0 /\ Done(call, answer, tabs)
  <2>1. PICK r : r = answer
    OBVIOUS
  <2>2. /\ CheckConfirmation(req, r) = Result(ByteCount(n), "none", <<>>)
        /\ ByteCount(n) \in Nat
        /\ UnpackBits(r.data, n) = Held(tab, a, n)
        /\ r.function = f
    <3>1. n \in 1 .. MAX_READ_BITS /\ Inside(tab, a, n)
      BY <1>5, <1>8
    <3>2. r = WithData(Header(f), ByteCount(n), PackBits(Part(tab, a, n)))
      BY <1>2, <2>1
    <3>3. req.nb = n
      BY <1>2
    <3> QED BY <1>1, <1>4, <3>1, <3>2, <3>3, BitsAnswered
  <2>3. Deliver(call, r, CheckConfirmation(sent, r)) = Result(n, "none", Held(tab, a, n))
    <3>1. sent = req
      BY DEF Arrived
    <3>2. Result(ByteCount(n), "none", <<>>).rc # -1
      BY <2>2 DEF Result
    <3> QED BY <1>1, <1>2, <2>2, <3>1, <3>2 DEF Deliver
  <2>4. /\ Tables!Count(call) = n /\ Tables!Values(call) = Held(tab, a, n)
        /\ Tables!Written(call) = before
    BY <1>1, <1>2, <1>3 DEF Held, Tables!Count, Tables!Values, Tables!Written, Tables!Writes
  <2> HIDE DEF answer
  <2> QED BY <1>8, <2>1, <2>2, <2>3, <2>4 DEF Done, Arrived
<1> HIDE DEF verdict, answer
<1> QED BY <1>1, <1>6, <1>7, <1>8, ObeyServed DEF Arrived

\* A read of registers.
LEMMA RegistersAnswered ==
  ASSUME NEW f \in {3, 4, 23}, NEW tab \in Seq(Int), NEW a \in Nat,
         NEW n \in 1 .. MAX_READ_REGISTERS, Inside(tab, a, n), req.function = f, req.nb = n,
         NEW r, r = WithData(Header(f), 2 * n, Part(tab, a, n))
  PROVE  /\ CheckConfirmation(req, r) = Result(n, "none", <<>>)
         /\ SubSeq(r.data, 1, n) = Held(tab, a, n)
         /\ r.function = f
<1>1. n \in 1 .. 125
  BY DEF MAX_READ_REGISTERS
<1>2. PICK k \in 0 .. 250 : k = 2 * n
  BY <1>1
<1>3. /\ WholeAnswer(r) /\ AnswerBytes(r) = 9 + k
      /\ r.function = f /\ r.tid = req.tid /\ r.count = k /\ r.data = Part(tab, a, n)
  <2>1. IsData(r, f, k, Part(tab, a, n))
    BY <1>2, DataArrived
  <2> QED BY <2>1 DEF IsData
<1>4. AnswerLength(req) = 9 + k
  <2>1. AnswerLength(req) = 9 + 2 * req.nb
    <3>1. req.nb \in Nat /\ req.function \in {3, 4, 23}
      BY <1>1
    <3> QED BY <3>1, AnswerLengths
  <2> QED BY <1>2, <2>1
<1>5. k \div 2 = n
  BY <1>1, <1>2
<1>6. Asked(req, r) = n /\ Answered(r) = n
  <2>1. Asked(req, r) = n
    BY DEF Asked, READ_COILS, READ_DISCRETE_INPUTS, READ_HOLDING_REGISTERS, READ_INPUT_REGISTERS,
             WRITE_MULTIPLE_COILS, WRITE_MULTIPLE_REGISTERS, WRITE_AND_READ_REGISTERS, REPORT_SLAVE_ID
  <2>2. Answered(r) = r.count \div 2
    BY <1>3 DEF Answered, READ_COILS, READ_DISCRETE_INPUTS, READ_HOLDING_REGISTERS, READ_INPUT_REGISTERS,
             WRITE_MULTIPLE_COILS, WRITE_MULTIPLE_REGISTERS, WRITE_AND_READ_REGISTERS, REPORT_SLAVE_ID
  <2> QED BY <1>3, <1>5, <2>1, <2>2
<1>7. CheckConfirmation(req, r) = Result(n, "none", <<>>)
  <2>1. AnswerBytes(r) = AnswerLength(req) /\ Asked(req, r) = Answered(r)
    BY <1>3, <1>4, <1>6, Zenon
  <2>2. 9 + k \in Nat
    OBVIOUS
  <2>3. AnswerBytes(r) \in Nat
    BY <1>3, <2>2, Zenon
  <2> QED BY <1>3, <1>6, <2>1, <2>3, AnswerTaken
<1>8. /\ Part(tab, a, n) \in Seq(Int) /\ Len(Part(tab, a, n)) = n
      /\ Part(tab, a, n) = Held(tab, a, n)
  BY <1>1, Parts DEF Held
<1>9. SubSeq(Part(tab, a, n), 1, n) = Part(tab, a, n)
  BY <1>8, SubSeqFull
<1> QED BY <1>3, <1>7, <1>8, <1>9, Zenon

LEMMA ReadRegistersServed ==
  ASSUME TransactionInv, Arrived, UNCHANGED <<clientVars, before>>,
         NEW f \in {3, 4}, NEW tab, tab = IF f = 3 THEN tabs.registers ELSE tabs.input_registers,
         ReplyReadRegisters(f, tab)
  PROVE  TransactionInv'
<1> DEFINE verdict == Verdict(req.nb \in 1 .. MAX_READ_REGISTERS, Inside(tab, req.addr, req.nb))
           answer == WithData(Header(f), 2 * req.nb, Part(tab, req.addr, req.nb))
<1>1. /\ req.function = f /\ call.fn \in {"read_registers", "read_input_registers"}
      /\ call.fn = IF f = 3 THEN "read_registers" ELSE "read_input_registers"
  BY CallOf DEF ReplyReadRegisters
<1>2. PICK a \in Nat, n \in Nat : /\ a = req.addr /\ n = req.nb
                                  /\ a = call.addr /\ n = call.nb
  BY <1>1, TablesAre DEF Arrived, Asks
<1>3. tab = before[Tables!Table(call.fn)] /\ Tables!Limit(call.fn) = MAX_READ_REGISTERS
  BY <1>1 DEF Arrived, Tables!Table, Tables!Limit, MAX_READ_REGISTERS
<1>4. tab \in Seq(Int)
  BY TablesAre
<1>5. Tables!Legal(call) <=> n \in 1 .. MAX_READ_REGISTERS /\ Inside(tab, a, n)
  <2>1. MAX_READ_REGISTERS \in Nat
    BY DEF MAX_READ_REGISTERS
  <2> QED BY <1>1, <1>2, <1>3, <1>4, <2>1, LegalPlain DEF Fns
<1>6. verdict \in 0 .. 3 /\ (verdict = 0 <=> Tables!Legal(call))
  BY <1>2, <1>5 DEF Verdict, ILLEGAL_DATA_VALUE, ILLEGAL_DATA_ADDRESS, NoException
<1>7. Obey(verdict, answer, tabs)
  BY DEF ReplyReadRegisters
<1>8. ASSUME Tables!Legal(call)
      PROVE  answer.function # 0 /\ Done(call, answer, tabs)
  <2>1. PICK r : r = answer
    OBVIOUS
  <2>2. /\ CheckConfirmation(req, r) = Result(n, "none", <<>>)
        /\ SubSeq(r.data, 1, n) = Held(tab, a, n)
        /\ r.function = f
    <3>1. n \in 1 .. MAX_READ_REGISTERS /\ Inside(tab, a, n)
      BY <1>5, <1>8
    <3>2. r = WithData(Header(f), 2 * n, Part(tab, a, n))
      BY <1>2, <2>1
    <3>3. req.nb = n
      BY <1>2
    <3> QED BY <1>1, <1>4, <3>1, <3>2, <3>3, RegistersAnswered
  <2>3. Deliver(call, r, CheckConfirmation(sent, r)) = Result(n, "none", Held(tab, a, n))
    <3>1. sent = req
      BY DEF Arrived
    <3>2. Result(n, "none", <<>>).rc = n /\ n # -1
      BY DEF Result
    <3> QED BY <1>1, <2>2, <3>1, <3>2 DEF Deliver
  <2>4. /\ Tables!Count(call) = n /\ Tables!Values(call) = Held(tab, a, n)
        /\ Tables!Written(call) = before
    BY <1>1, <1>2, <1>3 DEF Held, Tables!Count, Tables!Values, Tables!Written, Tables!Writes
  <2> HIDE DEF answer
  <2> QED BY <1>1, <1>8, <2>1, <2>2, <2>3, <2>4 DEF Done, Arrived
<1> HIDE DEF verdict, answer
<1> QED BY <1>1, <1>6, <1>7, <1>8, ObeyServed DEF Arrived

\* What a call writes is what the server writes for it.
LEMMA WrittenBits ==
  ASSUME Arrived, call.fn \in {"write_bit", "write_bits"}
  PROVE  /\ Tables!Written(call) = [tabs EXCEPT !.bits = Put(@, call.addr, call.src)]
         /\ Tables!Written(call) \in ServerTabs
<1>1. /\ tabs = before /\ tabs \in ServerTabs /\ call.addr \in Nat
      /\ Len(call.src) = call.nb /\ call.src \in Seq({0, 1}) /\ tabs.bits \in Seq({0, 1})
  BY TablesAre DEF Arrived, ProperCall, Tables!Writes, BitTable
<1>2. PICK new : new = Put(tabs.bits, call.addr, call.src)
  OBVIOUS
<1>3. new \in Seq({0, 1}) /\ new = Filled(tabs.bits, call.addr, call.nb, call.src)
  <2>1. PICK S : S = {0, 1}
    OBVIOUS
  <2>2. PICK tab \in Seq(S), a \in Nat, vals \in Seq(S) :
          tab = tabs.bits /\ a = call.addr /\ vals = call.src
    BY <1>1, <2>1
  <2>3. Put(tab, a, vals) \in Seq(S) /\ Put(tab, a, vals) = Filled(tab, a, Len(vals), vals)
    BY Puts
  <2> QED BY <1>1, <1>2, <2>1, <2>2, <2>3
<1>4. Tables!Written(call) = [tabs EXCEPT !.bits = new]
  BY <1>1, <1>3 DEF Filled, Tables!Written, Tables!Writes, Tables!Table
<1>5. [tabs EXCEPT !.bits = new] \in ServerTabs
  BY <1>1, <1>3 DEF ServerTabs, BitTable
<1> QED BY <1>2, <1>4, <1>5

LEMMA WrittenRegisters ==
  ASSUME Arrived, call.fn \in {"write_register", "write_registers", "write_and_read_registers"}
  PROVE  /\ Tables!Written(call) = [tabs EXCEPT !.registers = Put(@, call.addr, call.src)]
         /\ Tables!Written(call) \in ServerTabs
<1>1. /\ tabs = before /\ tabs \in ServerTabs /\ call.addr \in Nat
      /\ Len(call.src) = call.nb /\ call.src \in Seq(Int) /\ tabs.registers \in Seq(Int)
  BY TablesAre DEF Arrived, ProperCall, Tables!Writes
<1>2. PICK new : new = Put(tabs.registers, call.addr, call.src)
  OBVIOUS
<1>3. new \in Seq(Int) /\ new = Filled(tabs.registers, call.addr, call.nb, call.src)
  <2>1. PICK S : S = Int
    OBVIOUS
  <2>2. PICK tab \in Seq(S), a \in Nat, vals \in Seq(S) :
          tab = tabs.registers /\ a = call.addr /\ vals = call.src
    BY <1>1, <2>1
  <2>3. Put(tab, a, vals) \in Seq(S) /\ Put(tab, a, vals) = Filled(tab, a, Len(vals), vals)
    BY Puts
  <2> QED BY <1>1, <1>2, <2>1, <2>2, <2>3
<1>4. Tables!Written(call) = [tabs EXCEPT !.registers = new]
  BY <1>1, <1>3 DEF Filled, Tables!Written, Tables!Writes, Tables!Table
<1>5. [tabs EXCEPT !.registers = new] \in ServerTabs
  BY <1>1, <1>3 DEF ServerTabs
<1> QED BY <1>2, <1>4, <1>5

\* The answer to a write tells the client that all has been written.
LEMMA EchoDone ==
  ASSUME Arrived, call.fn \in {"write_bit", "write_register", "write_bits", "write_registers"},
         Tables!Legal(call)
  PROVE  Echo.function # 0 /\ Done(call, Echo, Tables!Written(call))
<1>1. PICK n \in Nat : n = call.nb
  BY TablesAre
<1>2. call.fn \in {"write_bit", "write_register"} => n = 1
  BY <1>1 DEF Arrived, ProperCall
<1>3. req.function \in {5, 6, 15, 16}
  BY DEF Arrived, Asks, Code
<1>4. req.function \in {5, 6} <=> call.fn \in {"write_bit", "write_register"}
  BY CallOf, <1>3
<1>5. /\ req.nb \in Nat
      /\ req.function \in {15, 16} => req.nb = n
  BY <1>1, <1>3, <1>4, WordValues DEF Arrived, Asks, ProperCall
<1>6. CheckConfirmation(req, Echo) = Result(n, "none", <<>>)
  <2>1. (IF req.function \in {5, 6} THEN 1 ELSE req.nb) = n
    BY <1>2, <1>3, <1>4, <1>5
  <2> QED BY <1>3, <1>5, <2>1, EchoTaken
<1>7. Deliver(call, Echo, CheckConfirmation(sent, Echo)) = Result(n, "none", <<>>)
  <2>1. sent = req
    BY DEF Arrived
  <2>2. Result(n, "none", <<>>).rc # -1
    BY DEF Result
  <2> QED BY <1>6, <2>1, <2>2 DEF Deliver
<1>8. Tables!Count(call) = n /\ Tables!Values(call) = <<>>
  BY <1>1 DEF Tables!Count, Tables!Values
<1>9. Echo.function = req.function
  BY DEF Echo, Header, Basis
<1> QED BY <1>3, <1>7, <1>8, <1>9 DEF Done

LEMMA WriteBitServed ==
  ASSUME TransactionInv, Arrived, UNCHANGED <<clientVars, before>>, ReplyWriteBit
  PROVE  TransactionInv'
<1> DEFINE verdict == IF ~Inside(tabs.bits, req.addr, 1) THEN ILLEGAL_DATA_ADDRESS
                      ELSE IF req.nb \notin {65280, 0} THEN ILLEGAL_DATA_VALUE ELSE NoException
           written == [tabs EXCEPT !.bits = Put(@, req.addr, <<IF req.nb # 0 THEN 1 ELSE 0>>)]
<1>1. call.fn = "write_bit"
  BY CallOf DEF ReplyWriteBit, WRITE_SINGLE_COIL
<1>2. /\ req.addr = call.addr /\ req.nb = CoilWord(call.src[1])
      /\ call.nb = 1 /\ Len(call.src) = 1 /\ call.src \in Seq({0, 1})
  BY <1>1 DEF Arrived, Asks, ProperCall, Tables!Writes, BitTable
<1>3. PICK v \in {0, 1} : call.src = <<v>> /\ v = call.src[1]
  BY <1>2, LenProperties, ElementOfSeq
<1>4. (IF req.nb # 0 THEN 1 ELSE 0) = v /\ req.nb \in {65280, 0}
  BY <1>2, <1>3 DEF CoilWord
<1>5. written = Tables!Written(call) /\ Tables!Written(call) \in ServerTabs
  BY <1>1, <1>2, <1>3, <1>4, WrittenBits
<1>6. Tables!Legal(call) <=> Inside(tabs.bits, req.addr, 1)
  <2>1. /\ tabs.bits = before[Tables!Table(call.fn)] /\ Tables!Limit(call.fn) = 1
        /\ tabs.bits \in Seq(Int)
    BY <1>1, TablesAre DEF Arrived, Tables!Table, Tables!Limit
  <2>2. Tables!Legal(call) <=> call.nb \in 1 .. 1 /\ Inside(tabs.bits, call.addr, call.nb)
    BY <1>1, <2>1, LegalPlain DEF Fns
  <2> QED BY <1>2, <2>2
<1>7. verdict \in 0 .. 3 /\ (verdict = 0 <=> Tables!Legal(call))
  BY <1>4, <1>6 DEF ILLEGAL_DATA_VALUE, ILLEGAL_DATA_ADDRESS, NoException
<1>8. Obey(verdict, Echo, written)
  BY DEF ReplyWriteBit
<1> HIDE DEF verdict, written
<1> QED BY <1>1, <1>5, <1>7, <1>8, EchoDone, ObeyServed

LEMMA WriteRegisterServed ==
  ASSUME TransactionInv, Arrived, UNCHANGED <<clientVars, before>>, ReplyWriteRegister
  PROVE  TransactionInv'
<1> DEFINE verdict == Verdict(TRUE, Inside(tabs.registers, req.addr, 1))
           written == [tabs EXCEPT !.registers = Put(@, req.addr, <<req.nb>>)]
<1>1. call.fn = "write_register"
  BY CallOf DEF ReplyWriteRegister, WRITE_SINGLE_REGISTER
<1>2. /\ req.addr = call.addr /\ req.nb = RegisterWord(call.src[1])
      /\ call.nb = 1 /\ Len(call.src) = 1 /\ call.src \in Seq(Int)
      /\ call.src[1] \in RegisterValues
  BY <1>1, TablesAre DEF Arrived, Asks, ProperCall, Tables!Writes
<1>3. req.nb = call.src[1]
  BY <1>2, WordValues
<1>4. call.src = <<req.nb>>
  BY <1>2, <1>3, LenProperties
<1>5. written = Tables!Written(call) /\ Tables!Written(call) \in ServerTabs
  BY <1>1, <1>2, <1>4, WrittenRegisters
<1>6. Tables!Legal(call) <=> Inside(tabs.registers, req.addr, 1)
  <2>1. /\ tabs.registers = before[Tables!Table(call.fn)] /\ Tables!Limit(call.fn) = 1
        /\ tabs.registers \in Seq(Int)
    BY <1>1, TablesAre DEF Arrived, Tables!Table, Tables!Limit
  <2>2. Tables!Legal(call) <=> call.nb \in 1 .. 1 /\ Inside(tabs.registers, call.addr, call.nb)
    BY <1>1, <2>1, LegalPlain DEF Fns
  <2> QED BY <1>2, <2>2
<1>7. verdict \in 0 .. 3 /\ (verdict = 0 <=> Tables!Legal(call))
  BY <1>6 DEF Verdict, ILLEGAL_DATA_VALUE, ILLEGAL_DATA_ADDRESS, NoException
<1>8. Obey(verdict, Echo, written)
  BY DEF ReplyWriteRegister
<1> HIDE DEF verdict, written
<1> QED BY <1>1, <1>5, <1>7, <1>8, EchoDone, ObeyServed

LEMMA WriteBitsServed ==
  ASSUME TransactionInv, Arrived, UNCHANGED <<clientVars, before>>, ReplyWriteBits
  PROVE  TransactionInv'
<1> DEFINE verdict == Verdict(req.nb \in 1 .. MAX_WRITE_BITS, Inside(tabs.bits, req.addr, req.nb))
           written == [tabs EXCEPT !.bits = Put(@, req.addr, UnpackBits(req.data, req.nb))]
<1>1. call.fn = "write_bits"
  BY CallOf DEF ReplyWriteBits, WRITE_MULTIPLE_COILS
<1>2. /\ req.addr = call.addr /\ req.nb = call.nb /\ req.data = PackBits(call.src)
      /\ Len(call.src) = call.nb /\ call.src \in BitTable
  BY <1>1 DEF Arrived, Asks, ProperCall, Tables!Writes
<1>3. UnpackBits(req.data, req.nb) = call.src
  BY <1>2, Unpacked
<1>4. written = Tables!Written(call) /\ Tables!Written(call) \in ServerTabs
  BY <1>1, <1>2, <1>3, WrittenBits
<1>5. Tables!Legal(call) <=> req.nb \in 1 .. MAX_WRITE_BITS /\ Inside(tabs.bits, req.addr, req.nb)
  <2>1. /\ tabs.bits = before[Tables!Table(call.fn)] /\ Tables!Limit(call.fn) = MAX_WRITE_BITS
        /\ tabs.bits \in Seq(Int) /\ MAX_WRITE_BITS \in Nat
    BY <1>1, TablesAre DEF Arrived, Tables!Table, Tables!Limit, MAX_WRITE_BITS
  <2> QED BY <1>1, <1>2, <2>1, LegalPlain DEF Fns
<1>6. verdict \in 0 .. 3 /\ (verdict = 0 <=> Tables!Legal(call))
  BY <1>5 DEF Verdict, ILLEGAL_DATA_VALUE, ILLEGAL_DATA_ADDRESS, NoException
<1>7. Obey(verdict, Echo, written)
  BY DEF ReplyWriteBits
<1> HIDE DEF verdict, written
<1> QED BY <1>1, <1>4, <1>6, <1>7, EchoDone, ObeyServed

LEMMA WriteRegistersServed ==
  ASSUME TransactionInv, Arrived, UNCHANGED <<clientVars, before>>, ReplyWriteRegisters
  PROVE  TransactionInv'
<1> DEFINE verdict == Verdict(req.nb \in 1 .. MAX_WRITE_REGISTERS, Inside(tabs.registers, req.addr, req.nb))
           written == [tabs EXCEPT !.registers = Put(@, req.addr, req.data)]
<1>1. call.fn = "write_registers"
  BY CallOf DEF ReplyWriteRegisters, WRITE_MULTIPLE_REGISTERS
<1>2. req.addr = call.addr /\ req.nb = call.nb /\ req.data = call.src
  BY <1>1 DEF Arrived, Asks
<1>3. written = Tables!Written(call) /\ Tables!Written(call) \in ServerTabs
  BY <1>1, <1>2, WrittenRegisters
<1>4. Tables!Legal(call) <=> req.nb \in 1 .. MAX_WRITE_REGISTERS /\ Inside(tabs.registers, req.addr, req.nb)
  <2>1. /\ tabs.registers = before[Tables!Table(call.fn)] /\ Tables!Limit(call.fn) = MAX_WRITE_REGISTERS
        /\ tabs.registers \in Seq(Int) /\ MAX_WRITE_REGISTERS \in Nat
    BY <1>1, TablesAre DEF Arrived, Tables!Table, Tables!Limit, MAX_WRITE_REGISTERS
  <2> QED BY <1>1, <1>2, <2>1, LegalPlain DEF Fns
<1>5. verdict \in 0 .. 3 /\ (verdict = 0 <=> Tables!Legal(call))
  BY <1>4 DEF Verdict, ILLEGAL_DATA_VALUE, ILLEGAL_DATA_ADDRESS, NoException
<1>6. Obey(verdict, Echo, written)
  BY DEF ReplyWriteRegisters
<1> HIDE DEF verdict, written
<1> QED BY <1>1, <1>3, <1>5, <1>6, EchoDone, ObeyServed

LEMMA WriteAndReadServed ==
  ASSUME TransactionInv, Arrived, UNCHANGED <<clientVars, before>>, ReplyWriteAndRead
  PROVE  TransactionInv'
<1> DEFINE new == Put(tabs.registers, req.waddr, req.data)
           valid == /\ req.wnb \in 1 .. MAX_RW_WRITE_REGISTERS
                    /\ req.nb \in 1 .. MAX_READ_REGISTERS
                    /\ req.count = 2 * req.wnb
           inside == /\ Inside(tabs.registers, req.addr, req.nb)
                     /\ Inside(tabs.registers, req.waddr, req.wnb)
           verdict == Verdict(valid, inside)
           answer  == WithData(Header(req.function), 2 * req.nb, Part(new, req.addr, req.nb))
           written == [tabs EXCEPT !.registers = new]
<1>1. call.fn = "write_and_read_registers" /\ req.function = 23
  BY CallOf DEF ReplyWriteAndRead, WRITE_AND_READ_REGISTERS
<1>2. PICK a \in Nat, n \in Nat, w \in Nat, k \in Nat :
        /\ a = call.addr /\ n = call.nb /\ w = call.raddr /\ k = call.rnb
        /\ req.waddr = a /\ req.wnb = n /\ req.addr = w /\ req.nb = k
        /\ req.count = (2 * n) % 256 /\ req.data = call.src
  <2>1. call.addr \in Nat /\ call.nb \in Nat /\ call.raddr \in Nat /\ call.rnb \in Nat
    BY TablesAre
  <2>2. /\ req.waddr = call.addr /\ req.wnb = call.nb /\ req.addr = call.raddr /\ req.nb = call.rnb
        /\ req.count = (2 * call.nb) % 256 /\ req.data = call.src
    BY <1>1 DEF Arrived, Asks
  <2> QED BY <2>1, <2>2
<1>3. n <= 121 /\ req.count = 2 * n
  <2>1. n <= 121
    BY <1>1, <1>2 DEF Arrived, TooMany, MAX_RW_WRITE_REGISTERS
  <2>2. (2 * n) % 256 = 2 * n
    BY <2>1
  <2> QED BY <1>2, <2>1, <2>2
<1>4. /\ tabs = before /\ tabs.registers \in Seq(Int) /\ call.src \in Seq(Int)
      /\ Len(call.src) = n
  BY <1>1, <1>2, TablesAre DEF Arrived, ProperCall, Tables!Writes
<1>5. new \in Seq(Int) /\ Len(new) = Len(tabs.registers)
  BY <1>2, <1>4, Puts
<1>6. written = Tables!Written(call) /\ Tables!Written(call) \in ServerTabs
  BY <1>1, <1>2, WrittenRegisters
<1>7. Tables!Written(call).registers = new
  BY <1>6 DEF Arrived, ServerTabs
<1>8. Tables!Legal(call) <=> valid /\ inside
  <2>1. Tables!Limit(call.fn) = 121 /\ Tables!Table(call.fn) = "registers"
    BY <1>1 DEF Tables!Limit, Tables!Table
  <2>2. n >= 1 => (Tables!Cells(a, n) \subseteq DOMAIN tabs.registers <=> Inside(tabs.registers, a, n))
    BY <1>4, InsideCells
  <2>3. k >= 1 => (Tables!Cells(w, k) \subseteq DOMAIN tabs.registers <=> Inside(tabs.registers, w, k))
    BY <1>4, InsideCells
  <2>4. Tables!Legal(call) <=>
          /\ n \in 1 .. 121 /\ Tables!Cells(a, n) \subseteq DOMAIN tabs.registers
          /\ k \in 1 .. 125 /\ Tables!Cells(w, k) \subseteq DOMAIN tabs.registers
    <3>1. before[Tables!Table(call.fn)] = tabs.registers /\ before.registers = tabs.registers
      BY <1>4, <2>1
    <3>2. Tables!Legal(call) <=>
            /\ call.nb \in 1 .. Tables!Limit(call.fn)
            /\ Tables!Cells(call.addr, call.nb) \subseteq DOMAIN before[Tables!Table(call.fn)]
            /\ call.rnb \in 1 .. 125 /\ Tables!Cells(call.raddr, call.rnb) \subseteq DOMAIN before.registers
      BY <1>1, Zenon DEF Tables!Legal
    <3> QED BY <1>2, <2>1, <3>1, <3>2
  <2>5. valid <=> n \in 1 .. 121 /\ k \in 1 .. 125
    BY <1>2, <1>3 DEF MAX_RW_WRITE_REGISTERS, MAX_READ_REGISTERS
  <2>6. inside <=> Inside(tabs.registers, w, k) /\ Inside(tabs.registers, a, n)
    BY <1>2
  <2> HIDE DEF valid, inside
  <2> QED BY <2>2, <2>3, <2>4, <2>5, <2>6
<1>9. verdict \in 0 .. 3 /\ (verdict = 0 <=> Tables!Legal(call))
  <2> HIDE DEF valid, inside
  <2> QED BY <1>8 DEF Verdict, ILLEGAL_DATA_VALUE, ILLEGAL_DATA_ADDRESS, NoException
<1>10. Obey(verdict, answer, written)
  BY DEF ReplyWriteAndRead
<1>11. ASSUME Tables!Legal(call)
       PROVE  answer.function # 0 /\ Done(call, answer, Tables!Written(call))
  <2>1. PICK r : r = answer
    OBVIOUS
  <2>2. /\ CheckConfirmation(req, r) = Result(k, "none", <<>>)
        /\ SubSeq(r.data, 1, k) = Held(new, w, k)
        /\ r.function = 23
    <3>1. k \in 1 .. MAX_READ_REGISTERS /\ Inside(new, w, k)
      BY <1>2, <1>5, <1>8, <1>11 DEF Inside
    <3>2. PICK tab \in Seq(Int) : tab = new
      BY <1>5
    <3>3. r = WithData(Header(23), 2 * k, Part(tab, w, k)) /\ Inside(tab, w, k)
      BY <1>1, <1>2, <2>1, <3>1, <3>2
    <3>4. CheckConfirmation(req, r) = Result(k, "none", <<>>)
          /\ SubSeq(r.data, 1, k) = Held(tab, w, k) /\ r.function = 23
      <4> HIDE DEF new, answer, valid, inside
      <4>1. PICK f \in {3, 4, 23} : f = 23
        OBVIOUS
      <4>2. req.function = f /\ req.nb = k /\ r = WithData(Header(f), 2 * k, Part(tab, w, k))
        BY <1>1, <1>2, <3>3, <4>1
      <4> QED BY <3>1, <3>3, <4>1, <4>2, RegistersAnswered
    <3> QED BY <3>2, <3>4
  <2>3. Deliver(call, r, CheckConfirmation(sent, r)) = Result(k, "none", Held(new, w, k))
    <3>1. sent = req
      BY DEF Arrived
    <3>2. Result(k, "none", <<>>).rc = k /\ k # -1
      BY DEF Result
    <3> HIDE DEF new
    <3> QED BY <1>1, <2>2, <3>1, <3>2 DEF Deliver
  <2>4. Tables!Count(call) = k /\ Tables!Values(call) = Held(new, w, k)
    <3> HIDE DEF new
    <3> QED BY <1>1, <1>2, <1>7 DEF Held, Tables!Count, Tables!Values
  <2> HIDE DEF answer, new
  <2> QED BY <1>11, <2>1, <2>2, <2>3, <2>4 DEF Done
<1> HIDE DEF verdict, answer, written
<1> QED BY <1>1, <1>6, <1>9, <1>10, <1>11, ObeyServed

\* The server says what it is, to whoever has sent that function code.
LEMMA SlaveIdServed ==
  ASSUME TransactionInv, Arrived, UNCHANGED <<clientVars, before>>, ReplySlaveId
  PROVE  TransactionInv'
<1> DEFINE answer == WithData(Header(17), 10, SlaveId)
<1>1. req.function = 17 /\ call.fn \in {"report_slave_id", "raw"}
  BY CallOf DEF ReplySlaveId, REPORT_SLAVE_ID
<1>2. Len(SlaveId) = 10 /\ SlaveId \in Seq(Int)
  BY DEF SlaveId
<1>3. req' = NoMsg /\ rsp' = answer /\ tabs' = tabs
  BY <1>1, <1>2 DEF ReplySlaveId, Obey, NoException
<1>4. CASE call.fn = "raw"
  BY <1>3, <1>4, Served DEF Arrived
<1>5. CASE call.fn = "report_slave_id"
  <2>1. PICK r : r = answer
    OBVIOUS
  <2>2. IsData(r, 17, 10, SlaveId)
    BY <1>1, <2>1, DataArrived
  <2> HIDE DEF answer
  <2>3. Asked(req, r) = 10 /\ Answered(r) = 10
    BY <1>1, <2>2 DEF IsData, Asked, Answered,
       READ_COILS, READ_DISCRETE_INPUTS, READ_HOLDING_REGISTERS, READ_INPUT_REGISTERS,
       WRITE_MULTIPLE_COILS, WRITE_MULTIPLE_REGISTERS, WRITE_AND_READ_REGISTERS, REPORT_SLAVE_ID
  <2>4. CheckConfirmation(req, r) = Result(10, "none", <<>>)
    <3>1. AnswerBytes(r) \in Nat /\ WholeAnswer(r) /\ req.tid = r.tid /\ req.function = r.function
      BY <1>1, <2>2 DEF IsData
    <3> QED BY <1>1, <2>3, <3>1, AnswerTaken DEF REPORT_SLAVE_ID
  <2>5. SubSeq(SlaveId, 1, 10) = SlaveId
    BY <1>2, SubSeqFull
  <2>6. Deliver(call, r, CheckConfirmation(sent, r)) = Result(10, "none", SlaveId)
    <3>1. PICK x : x = CheckConfirmation(sent, r)
      OBVIOUS
    <3>2. x.rc = 10 /\ x.rc # -1 /\ r.data = SlaveId
      BY <2>2, <2>4, <3>1 DEF Result, Arrived, IsData
    <3>3. Deliver(call, r, x) = Result(x.rc, "none", SubSeq(r.data, 1, x.rc))
      BY <1>5, <3>2 DEF Deliver
    <3> QED BY <2>5, <3>1, <3>2, <3>3
  <2>7. /\ Tables!Legal(call) /\ Tables!Count(call) = 10
        /\ Tables!Values(call) = SlaveId /\ Tables!Written(call) = before
    BY <1>2, <1>5 DEF Tables!Legal, Tables!Count, Tables!Values, Tables!Written, Tables!Writes
  <2>8. rsp' # NoMsg /\ Done(call, rsp', tabs')
    BY <1>3, <2>1, <2>2, <2>6, <2>7 DEF Done, Arrived, IsData, NoMsg, Basis
  <2> QED BY <1>3, <1>5, <2>8, Served DEF Arrived
<1> QED BY <1>1, <1>4, <1>5

\* Nothing is replied to nothing.
LEMMA ReplyToRequest ==
  ASSUME Reply
  PROVE  req # NoMsg
<1>1. NoMsg.function = 0
  BY DEF NoMsg, Basis
<1>2. \A f, tab : ReplyReadBits(f, tab) \/ ReplyReadRegisters(f, tab) => req.function = f
  BY DEF ReplyReadBits, ReplyReadRegisters
<1>3. ReplyWriteBit \/ ReplyWriteRegister \/ ReplyWriteBits \/ ReplyWriteRegisters => req.function \in {5, 6, 15, 16}
  <2>1. ReplyWriteBit => req.function = 5
    BY DEF ReplyWriteBit, WRITE_SINGLE_COIL
  <2>2. ReplyWriteRegister => req.function = 6
    BY DEF ReplyWriteRegister, WRITE_SINGLE_REGISTER
  <2>3. ReplyWriteBits => req.function = 15
    BY DEF ReplyWriteBits, WRITE_MULTIPLE_COILS
  <2>4. ReplyWriteRegisters => req.function = 16
    BY DEF ReplyWriteRegisters, WRITE_MULTIPLE_REGISTERS
  <2> QED BY <2>1, <2>2, <2>3, <2>4
<1>4. ReplyWriteAndRead \/ ReplySlaveId \/ ReplyNothing => req.function \in {7, 17, 23}
  BY Zenon DEF ReplyWriteAndRead, ReplySlaveId, ReplyNothing,
     WRITE_AND_READ_REGISTERS, REPORT_SLAVE_ID, READ_EXCEPTION_STATUS
<1>5. ReplyUnknown => req # NoMsg
  BY DEF ReplyUnknown
<1> QED
  BY <1>1, <1>2, <1>3, <1>4, <1>5
     DEF Reply, READ_COILS, READ_DISCRETE_INPUTS, READ_HOLDING_REGISTERS, READ_INPUT_REGISTERS

\* Every case of the switch, and a request that the server's program refuses.
LEMMA ReplyServed ==
  ASSUME TransactionInv, Arrived, UNCHANGED <<clientVars, before>>, Reply
  PROVE  TransactionInv'
<1>1. ASSUME NEW f \in {1, 2}, NEW tab, ReplyReadBits(f, tab),
             tab = IF f = 1 THEN tabs.bits ELSE tabs.input_bits
      PROVE  TransactionInv'
  BY <1>1, ReadBitsServed
<1>2. ASSUME NEW f \in {3, 4}, NEW tab, ReplyReadRegisters(f, tab),
             tab = IF f = 3 THEN tabs.registers ELSE tabs.input_registers
      PROVE  TransactionInv'
  BY <1>2, ReadRegistersServed
<1>3. ASSUME call.fn = "raw", req' = NoMsg, UNCHANGED tabs
      PROVE  TransactionInv'
  BY <1>3, Served DEF Arrived
<1>4. CASE ReplyNothing
  <2>1. call.fn = "raw"
    BY <1>4, CallOf DEF ReplyNothing, READ_EXCEPTION_STATUS
  <2> QED BY <1>3, <1>4, <2>1 DEF ReplyNothing
<1>5. CASE ReplyUnknown
  <2>1. req.function \notin 1 .. 7 \union 15 .. 17 \union {23}
    BY <1>5 DEF ReplyUnknown, Known, WRITE_AND_READ_REGISTERS
  <2>2. call.fn = "raw"
    BY <2>1, CallOf
  <2>3. req' = NoMsg /\ UNCHANGED tabs
    BY <1>5 DEF ReplyUnknown, Obey, ILLEGAL_FUNCTION, NoException
  <2> QED BY <1>3, <2>2, <2>3
<1> QED
  BY <1>1, <1>2, <1>4, <1>5, WriteBitServed, WriteRegisterServed, WriteBitsServed,
     WriteRegistersServed, WriteAndReadServed, SlaveIdServed
     DEF Reply, READ_COILS, READ_DISCRETE_INPUTS, READ_HOLDING_REGISTERS, READ_INPUT_REGISTERS

-----------------------------------------------------------------------------
(* The client's part of a call.                                              *)

\* A call that is refused at once is not one DataTables has.
LEMMA TooManyIllegal ==
  ASSUME NEW c \in CALL, TooMany(c)
  PROVE  ~Tables!Legal(c)
<1>1. c.nb \in Nat /\ c.rnb \in Nat
  BY DEF CALL
<1>2. CASE c.fn \in {"read_bits", "read_input_bits"} /\ c.nb > 2000
  BY <1>1, <1>2 DEF Tables!Legal, Tables!Limit
<1>3. CASE c.fn = "write_bits" /\ c.nb > 1968
  BY <1>1, <1>3 DEF Tables!Legal, Tables!Limit
<1>4. CASE c.fn \in {"read_registers", "read_input_registers"} /\ c.nb > 125
  BY <1>1, <1>4 DEF Tables!Legal, Tables!Limit
<1>5. CASE c.fn = "write_registers" /\ c.nb > 123
  BY <1>1, <1>5 DEF Tables!Legal, Tables!Limit
<1>6. CASE c.fn = "write_and_read_registers" /\ (c.nb > 121 \/ c.rnb > 125)
  BY <1>1, <1>6 DEF Tables!Legal, Tables!Limit
<1> QED
  BY <1>2, <1>3, <1>4, <1>5, <1>6
     DEF TooMany, MAX_READ_BITS, MAX_WRITE_BITS, MAX_READ_REGISTERS, MAX_WRITE_REGISTERS,
         MAX_RW_WRITE_REGISTERS

\* A call that is not refused puts its request on the connection.
LEMMA AskKeeps ==
  ASSUME TransactionInv, Ask
  PROVE  TransactionInv'
<1>1. /\ call = NoCall /\ req = NoMsg /\ rsp = NoMsg /\ tabs = before /\ tabs \in ServerTabs
      /\ UNCHANGED <<rsp, tabs, before>>
  BY DEF Ask, Invoke, TransactionInv
<1>2. CASE UNCHANGED <<call, sent, req>>
  BY <1>1, <1>2 DEF TransactionInv
<1>3. ASSUME NEW c \in Calls, ~TooMany(c), NEW t,
             sent' = [Request(c) EXCEPT !.tid = t], call' = c, req' = sent'
      PROVE  TransactionInv'
  <2>1. c \in CALL /\ c.fn \in Fns /\ c # NoCall
    BY ClientAssumption DEF CALL, Fns, NoCall
  <2>2. PICK q : q = [Request(c) EXCEPT !.tid = t]
    OBVIOUS
  <2>3. Asks(c, q)
    BY <2>2, RequestFields
  <2>4. c.fn # "raw" => q # NoMsg
    BY <2>1, <2>3 DEF Asks, Code, Fns, NoMsg, Basis
  <2>5. q = [Request(c) EXCEPT !.tid = q.tid]
    BY <2>2
  <2>6. UNCHANGED <<rsp, tabs, before>> /\ sent' = q /\ call' = c /\ req' = q
    BY <1>1, <1>3, <2>2
  <2> HIDE <1>3, <2>2
  <2> QED BY <1>1, <1>3, <2>1, <2>4, <2>5, <2>6 DEF TransactionInv
<1> QED BY <1>2, <1>3 DEF Ask, Invoke

-----------------------------------------------------------------------------
\* The invariant holds in every state: whatever calls are made, in whatever order, the
\* answer on the connection tells the client what has become of the tables.
THEOREM TransactionInvariant ==
  ASSUME ProperUse
  PROVE  Spec => []TransactionInv
<1>1. Init => TransactionInv
  BY DEF Init, ClientInit, ServerInit, ProperUse, TransactionInv
<1>2. TransactionInv /\ [Next]_vars => TransactionInv'
  <2> SUFFICES ASSUME TransactionInv, [Next]_vars
               PROVE  TransactionInv'
    OBVIOUS
  <2>1. CASE Ask
    BY <2>1, AskKeeps
  <2>2. CASE Serve
    <3>1. req # NoMsg
      BY <2>2, ReplyToRequest DEF Serve
    <3>2. Arrived
      BY <3>1, AtServer
    <3> QED BY <2>2, <3>2, ReplyServed DEF Serve
  <2>3. CASE Refuse
    <3>1. req # NoMsg
      BY <2>3 DEF Refuse, ReplyException
    <3>2. Arrived
      BY <3>1, AtServer
    <3> QED BY <2>3, <3>2, RefuseServed DEF Refuse
  <2>4. CASE Return
    BY <2>4 DEF Return, Confirm, TransactionInv
  <2>5. CASE GiveUp
    BY <2>5 DEF GiveUp, TimedOut, TransactionInv
  <2>6. CASE UNCHANGED vars
    <3>1. UNCHANGED <<req, rsp, call, sent, tabs, before>>
      BY <2>6 DEF vars, clientVars
    <3> QED BY <3>1 DEF TransactionInv, Obeyed, Refused, Outcome, Tables!Legal, Tables!Written,
                       Tables!Count, Tables!Values
  <2> QED
    BY <2>1, <2>2, <2>3, <2>4, <2>5, <2>6 DEF Next
<1> QED
  BY <1>1, <1>2, PTL DEF Spec

\* Client, server and connection do what DataTables promises a program: every call
\* reads or writes the whole of its range and says so, or changes nothing and
\* returns -1.
THEOREM TransactionIsTables ==
  ASSUME ProperUse
  PROVE  Spec => ImplementsTables
<1>1. Init => Tables!TablesInit
  BY DEF Init, ClientInit, ServerInit, NoCall, NoResult, Failure, Result,
         Tables!TablesInit, Tables!NoCall
<1>2. TransactionInv /\ [Next]_vars => [Tables!TablesNext]_(Tables!tableVars)
  <2> SUFFICES ASSUME TransactionInv, [Next]_vars
               PROVE  Tables!TablesNext \/ UNCHANGED <<before, call, last, result>>
    BY DEF Tables!tableVars
  <2> USE DEF NoCall, Tables!NoCall
  <2>1. CASE Ask
    <3>1. call = NoCall /\ UNCHANGED before
      BY <2>1 DEF Ask, Invoke
    <3>2. PICK c \in Calls :
            /\ last' = c
            /\ \/ TooMany(c) /\ result' = Failure("EMBMDATA") /\ UNCHANGED call
               \/ call' = c /\ result' = NoResult
      BY <2>1 DEF Ask, Invoke
    <3>3. result'.rc = -1
      BY <3>2 DEF NoResult, Failure, Result
    <3>4. TooMany(c) => ~Tables!Legal(c)
      BY ClientAssumption, TooManyIllegal
    <3>5. CASE TooMany(c) /\ UNCHANGED call
      BY <3>1, <3>2, <3>3, <3>4, <3>5 DEF Tables!TablesNext, Tables!RefuseAtOnce
    <3>6. CASE call' = c
      BY <3>1, <3>2, <3>3, <3>6 DEF Tables!TablesNext, Tables!Ask
    <3> QED BY <3>2, <3>5, <3>6
  <2>2. CASE Serve \/ Refuse
    BY <2>2 DEF Serve, Refuse, clientVars
  <2>3. CASE Return
    <3>1. /\ call # NoCall /\ call' = NoCall /\ UNCHANGED last /\ before' = tabs
          /\ call.fn # "raw" => result' = Outcome(call)
          /\ IF call.fn = "raw" THEN tabs = before ELSE Obeyed(call) \/ Refused(call)
      BY <2>3 DEF Return, Confirm, TransactionInv, Outcome
    <3>2. Tables!Succeed(call) \/ Tables!Fail(call) \/ Tables!Raw(call)
      <4>1. CASE call.fn = "raw"
        BY <3>1, <4>1 DEF Tables!Raw
      <4>2. CASE call.fn # "raw" /\ Obeyed(call)
        BY <3>1, <4>2 DEF Tables!Succeed, Obeyed, Result
      <4>3. CASE call.fn # "raw" /\ Refused(call)
        BY <3>1, <4>3 DEF Tables!Fail, Refused
      <4> QED BY <3>1, <4>1, <4>2, <4>3
    <3> QED BY <3>1, <3>2 DEF Tables!TablesNext, Tables!Answer
  <2>4. CASE GiveUp
    <3>1. /\ call # NoCall /\ call' = NoCall /\ UNCHANGED last /\ before' = tabs
          /\ tabs = before /\ call.fn = "raw"
      BY <2>4 DEF GiveUp, TimedOut, TransactionInv
    <3> QED BY <3>1 DEF Tables!TablesNext, Tables!Answer, Tables!Raw
  <2>5. CASE UNCHANGED vars
    BY <2>5 DEF vars, clientVars
  <2> QED
    BY <2>1, <2>2, <2>3, <2>4, <2>5 DEF Next
<1> QED
  BY <1>1, <1>2, TransactionInvariant, PTL DEF Spec, ImplementsTables, Tables!TablesSpec

-----------------------------------------------------------------------------
(* modbus-data.c, for tables and bytes of any number. *)

\* A byte is the sum of its bits.
LEMMA ByteOfBits ==
  ASSUME NEW x \in 0 .. 255
  PROVE  x = (x % 2) + 2 * ((x \div 2) % 2) + 4 * ((x \div 4) % 2) + 8 * ((x \div 8) % 2)
             + 16 * ((x \div 16) % 2) + 32 * ((x \div 32) % 2) + 64 * ((x \div 64) % 2)
             + 128 * ((x \div 128) % 2)
  BY SMTT(60)

\* Hidden from the solver, which would look at every element.
Byte     == 0 .. 255
Register == 0 .. 65535

LEMMA Ranges ==
  /\ \A x \in Byte : x \in Nat /\ x < 256
  /\ \A x \in Nat : x < 256 => x \in Byte
  /\ \A w \in Register : w \in Nat /\ w < 65536
BY SMT DEF Byte, Register

\* A byte is what ByteAt makes of its bits, wherever they stand.
LEMMA ByteOfPlaces ==
  ASSUME NEW x \in Byte, NEW b, NEW i \in Int, \A k \in 0 .. 7 : b[i + k] = Bit(x, k)
  PROVE  ByteAt(b, i) = x
<1>1. /\ Bit(x, 0) = x % 2 /\ Bit(x, 1) = (x \div 2) % 2 /\ Bit(x, 2) = (x \div 4) % 2
      /\ Bit(x, 3) = (x \div 8) % 2 /\ Bit(x, 4) = (x \div 16) % 2
      /\ Bit(x, 5) = (x \div 32) % 2 /\ Bit(x, 6) = (x \div 64) % 2
      /\ Bit(x, 7) = (x \div 128) % 2
  BY DEF Bit, Byte
<1>2. /\ b[i] = Bit(x, 0) /\ b[i + 1] = Bit(x, 1) /\ b[i + 2] = Bit(x, 2)
      /\ b[i + 3] = Bit(x, 3) /\ b[i + 4] = Bit(x, 4) /\ b[i + 5] = Bit(x, 5)
      /\ b[i + 6] = Bit(x, 6) /\ b[i + 7] = Bit(x, 7)
  <2>1. i + 0 = i
    OBVIOUS
  <2> HIDE DEF Bit
  <2> QED BY <2>1
<1>3. /\ b[i] = x % 2 /\ b[i + 1] = (x \div 2) % 2 /\ b[i + 2] = (x \div 4) % 2
      /\ b[i + 3] = (x \div 8) % 2 /\ b[i + 4] = (x \div 16) % 2
      /\ b[i + 5] = (x \div 32) % 2 /\ b[i + 6] = (x \div 64) % 2
      /\ b[i + 7] = (x \div 128) % 2
  BY <1>1, <1>2, Zenon
<1>4. ByteAt(b, i) = (x % 2) + 2 * ((x \div 2) % 2) + 4 * ((x \div 4) % 2) + 8 * ((x \div 8) % 2)
             + 16 * ((x \div 16) % 2) + 32 * ((x \div 32) % 2) + 64 * ((x \div 64) % 2)
             + 128 * ((x \div 128) % 2)
  BY <1>3, Zenon DEF ByteAt
<1>5. x \in 0 .. 255
  BY DEF Byte
<1> QED BY <1>4, <1>5, ByteOfBits, Zenon

\* The bits of a number, without powers.
LEMMA Bit0 == \A n \in Nat : Bit(n, 0) = n % 2
<1>1. 2^0 = 1 /\ \A n \in Nat : n \div 1 = n
  BY SMT
<1> QED BY <1>1, SMT DEF Bit
LEMMA Bit1 == \A n \in Nat : Bit(n, 1) = (n \div 2) % 2
<1>1. 2^1 = 2
  BY SMT
<1> QED BY <1>1, SMT DEF Bit
LEMMA Bit2 == \A n \in Nat : Bit(n, 2) = (n \div 4) % 2
<1>1. 2^2 = 4
  BY SMT
<1> QED BY <1>1, SMT DEF Bit
LEMMA Bit3 == \A n \in Nat : Bit(n, 3) = (n \div 8) % 2
<1>1. 2^3 = 8
  BY SMT
<1> QED BY <1>1, SMT DEF Bit
LEMMA Bit4 == \A n \in Nat : Bit(n, 4) = (n \div 16) % 2
<1>1. 2^4 = 16
  BY SMT
<1> QED BY <1>1, SMT DEF Bit
LEMMA Bit5 == \A n \in Nat : Bit(n, 5) = (n \div 32) % 2
<1>1. 2^5 = 32
  BY SMT
<1> QED BY <1>1, SMT DEF Bit
LEMMA Bit6 == \A n \in Nat : Bit(n, 6) = (n \div 64) % 2
<1>1. 2^6 = 64
  BY SMT
<1> QED BY <1>1, SMT DEF Bit
LEMMA Bit7 == \A n \in Nat : Bit(n, 7) = (n \div 128) % 2
<1>1. 2^7 = 128
  BY SMT
<1> QED BY <1>1, SMT DEF Bit
LEMMA Bit8 == \A n \in Nat : Bit(n, 8) = (n \div 256) % 2
<1>1. 2^8 = 256
  BY SMT
<1> QED BY <1>1, SMT DEF Bit
LEMMA Bit9 == \A n \in Nat : Bit(n, 9) = (n \div 512) % 2
<1>1. 2^9 = 512
  BY SMT
<1> QED BY <1>1, SMT DEF Bit
LEMMA Bit10 == \A n \in Nat : Bit(n, 10) = (n \div 1024) % 2
<1>1. 2^10 = 1024
  BY SMT
<1> QED BY <1>1, SMT DEF Bit
LEMMA Bit11 == \A n \in Nat : Bit(n, 11) = (n \div 2048) % 2
<1>1. 2^11 = 2048
  BY SMT
<1> QED BY <1>1, SMT DEF Bit
LEMMA Bit12 == \A n \in Nat : Bit(n, 12) = (n \div 4096) % 2
<1>1. 2^12 = 4096
  BY SMT
<1> QED BY <1>1, SMT DEF Bit
LEMMA Bit13 == \A n \in Nat : Bit(n, 13) = (n \div 8192) % 2
<1>1. 2^13 = 8192
  BY SMT
<1> QED BY <1>1, SMT DEF Bit
LEMMA Bit14 == \A n \in Nat : Bit(n, 14) = (n \div 16384) % 2
<1>1. 2^14 = 16384
  BY SMT
<1> QED BY <1>1, SMT DEF Bit
LEMMA Bit15 == \A n \in Nat : Bit(n, 15) = (n \div 32768) % 2
<1>1. 2^15 = 32768
  BY SMT
<1> QED BY <1>1, SMT DEF Bit

\* The two bytes of a word, and where their bits are in it.
LEMMA WordBits ==
  ASSUME NEW w \in Register
  PROVE  \E low, high \in Byte :
           /\ w = low + 256 * high
           /\ \A k \in 0 .. 7 : Bit(w, k) = Bit(low, k) /\ Bit(w, 8 + k) = Bit(high, k)
<1> DEFINE low  == w % 256
           high == w \div 256
<1>1. low \in Nat /\ high \in Nat /\ low < 256 /\ high < 256 /\ w = low + 256 * high
  BY Ranges, SMT
<1>2. /\ w % 2 = low % 2 /\ (w \div 256) % 2 = high % 2
      /\ (w \div 2) % 2 = (low \div 2) % 2 /\ (w \div 512) % 2 = (high \div 2) % 2
      /\ (w \div 4) % 2 = (low \div 4) % 2 /\ (w \div 1024) % 2 = (high \div 4) % 2
      /\ (w \div 8) % 2 = (low \div 8) % 2 /\ (w \div 2048) % 2 = (high \div 8) % 2
      /\ (w \div 16) % 2 = (low \div 16) % 2 /\ (w \div 4096) % 2 = (high \div 16) % 2
      /\ (w \div 32) % 2 = (low \div 32) % 2 /\ (w \div 8192) % 2 = (high \div 32) % 2
      /\ (w \div 64) % 2 = (low \div 64) % 2 /\ (w \div 16384) % 2 = (high \div 64) % 2
      /\ (w \div 128) % 2 = (low \div 128) % 2 /\ (w \div 32768) % 2 = (high \div 128) % 2
  <2>0. w % 2 = low % 2
    <3> HIDE DEF low, high
    <3> QED BY <1>1, SMT
  <2>1. (w \div 2) % 2 = (low \div 2) % 2
    <3> HIDE DEF low, high
    <3>1. w \div 2 = low \div 2 + 128 * high
      BY <1>1, SMT
    <3>2. low \div 2 \in Int
      BY <1>1, SMT
    <3> QED BY <1>1, <3>1, <3>2, SMT
  <2>2. (w \div 4) % 2 = (low \div 4) % 2
    <3> HIDE DEF low, high
    <3>1. w \div 4 = low \div 4 + 64 * high
      BY <1>1, SMT
    <3>2. low \div 4 \in Int
      BY <1>1, SMT
    <3> QED BY <1>1, <3>1, <3>2, SMT
  <2>3. (w \div 8) % 2 = (low \div 8) % 2
    <3> HIDE DEF low, high
    <3>1. w \div 8 = low \div 8 + 32 * high
      BY <1>1, SMT
    <3>2. low \div 8 \in Int
      BY <1>1, SMT
    <3> QED BY <1>1, <3>1, <3>2, SMT
  <2>4. (w \div 16) % 2 = (low \div 16) % 2
    <3> HIDE DEF low, high
    <3>1. w \div 16 = low \div 16 + 16 * high
      BY <1>1, SMT
    <3>2. low \div 16 \in Int
      BY <1>1, SMT
    <3> QED BY <1>1, <3>1, <3>2, SMT
  <2>5. (w \div 32) % 2 = (low \div 32) % 2
    <3> HIDE DEF low, high
    <3>1. w \div 32 = low \div 32 + 8 * high
      BY <1>1, SMT
    <3>2. low \div 32 \in Int
      BY <1>1, SMT
    <3> QED BY <1>1, <3>1, <3>2, SMT
  <2>6. (w \div 64) % 2 = (low \div 64) % 2
    <3> HIDE DEF low, high
    <3>1. w \div 64 = low \div 64 + 4 * high
      BY <1>1, SMT
    <3>2. low \div 64 \in Int
      BY <1>1, SMT
    <3> QED BY <1>1, <3>1, <3>2, SMT
  <2>7. (w \div 128) % 2 = (low \div 128) % 2
    <3> HIDE DEF low, high
    <3>1. w \div 128 = low \div 128 + 2 * high
      BY <1>1, SMT
    <3>2. low \div 128 \in Int
      BY <1>1, SMT
    <3> QED BY <1>1, <3>1, <3>2, SMT
  <2>8. /\ w \div 512 = high \div 2
        /\ w \div 1024 = high \div 4
        /\ w \div 2048 = high \div 8
        /\ w \div 4096 = high \div 16
        /\ w \div 8192 = high \div 32
        /\ w \div 16384 = high \div 64
        /\ w \div 32768 = high \div 128
    <3>0. w \in Nat
      BY Ranges, SMT
    <3>1. w \div 512 = (w \div 256) \div 2
      BY <3>0, SMT
    <3>2. w \div 1024 = (w \div 256) \div 4
      BY <3>0, SMT
    <3>3. w \div 2048 = (w \div 256) \div 8
      BY <3>0, SMT
    <3>4. w \div 4096 = (w \div 256) \div 16
      BY <3>0, SMT
    <3>5. w \div 8192 = (w \div 256) \div 32
      BY <3>0, SMT
    <3>6. w \div 16384 = (w \div 256) \div 64
      BY <3>0, SMT
    <3>7. w \div 32768 = (w \div 256) \div 128
      BY <3>0, SMT
    <3> QED BY <3>1, <3>2, <3>3, <3>4, <3>5, <3>6, <3>7, SMT
  <2> HIDE DEF low, high
  <2>9. (w \div 256) % 2 = high % 2
    BY DEF high
  <2> QED BY <2>0, <2>1, <2>2, <2>3, <2>4, <2>5, <2>6, <2>7, <2>8, <2>9, SMT
<1> HIDE DEF low, high
<1>3. w \in Nat /\ low \in Nat /\ high \in Nat
  BY <1>1, SMT
<1>4. Bit(w, 0) = Bit(low, 0) /\ Bit(w, 8) = Bit(high, 0)
  <2>1. Bit(w, 0) = w % 2 /\ Bit(w, 8) = (w \div 256) % 2
    BY <1>3, Bit0, Bit8, SMT
  <2>2. Bit(low, 0) = low % 2 /\ Bit(high, 0) = high % 2
    BY <1>3, Bit0, SMT
  <2> HIDE DEF Bit
  <2> QED BY <1>2, <2>1, <2>2, SMT
<1>5. Bit(w, 1) = Bit(low, 1) /\ Bit(w, 9) = Bit(high, 1)
  <2>1. Bit(w, 1) = (w \div 2) % 2 /\ Bit(w, 9) = (w \div 512) % 2
    BY <1>3, Bit1, Bit9, SMT
  <2>2. Bit(low, 1) = (low \div 2) % 2 /\ Bit(high, 1) = (high \div 2) % 2
    BY <1>3, Bit1, SMT
  <2> HIDE DEF Bit
  <2> QED BY <1>2, <2>1, <2>2, SMT
<1>6. Bit(w, 2) = Bit(low, 2) /\ Bit(w, 10) = Bit(high, 2)
  <2>1. Bit(w, 2) = (w \div 4) % 2 /\ Bit(w, 10) = (w \div 1024) % 2
    BY <1>3, Bit2, Bit10, SMT
  <2>2. Bit(low, 2) = (low \div 4) % 2 /\ Bit(high, 2) = (high \div 4) % 2
    BY <1>3, Bit2, SMT
  <2> HIDE DEF Bit
  <2> QED BY <1>2, <2>1, <2>2, SMT
<1>7. Bit(w, 3) = Bit(low, 3) /\ Bit(w, 11) = Bit(high, 3)
  <2>1. Bit(w, 3) = (w \div 8) % 2 /\ Bit(w, 11) = (w \div 2048) % 2
    BY <1>3, Bit3, Bit11, SMT
  <2>2. Bit(low, 3) = (low \div 8) % 2 /\ Bit(high, 3) = (high \div 8) % 2
    BY <1>3, Bit3, SMT
  <2> HIDE DEF Bit
  <2> QED BY <1>2, <2>1, <2>2, SMT
<1>8. Bit(w, 4) = Bit(low, 4) /\ Bit(w, 12) = Bit(high, 4)
  <2>1. Bit(w, 4) = (w \div 16) % 2 /\ Bit(w, 12) = (w \div 4096) % 2
    BY <1>3, Bit4, Bit12, SMT
  <2>2. Bit(low, 4) = (low \div 16) % 2 /\ Bit(high, 4) = (high \div 16) % 2
    BY <1>3, Bit4, SMT
  <2> HIDE DEF Bit
  <2> QED BY <1>2, <2>1, <2>2, SMT
<1>9. Bit(w, 5) = Bit(low, 5) /\ Bit(w, 13) = Bit(high, 5)
  <2>1. Bit(w, 5) = (w \div 32) % 2 /\ Bit(w, 13) = (w \div 8192) % 2
    BY <1>3, Bit5, Bit13, SMT
  <2>2. Bit(low, 5) = (low \div 32) % 2 /\ Bit(high, 5) = (high \div 32) % 2
    BY <1>3, Bit5, SMT
  <2> HIDE DEF Bit
  <2> QED BY <1>2, <2>1, <2>2, SMT
<1>10. Bit(w, 6) = Bit(low, 6) /\ Bit(w, 14) = Bit(high, 6)
  <2>1. Bit(w, 6) = (w \div 64) % 2 /\ Bit(w, 14) = (w \div 16384) % 2
    BY <1>3, Bit6, Bit14, SMT
  <2>2. Bit(low, 6) = (low \div 64) % 2 /\ Bit(high, 6) = (high \div 64) % 2
    BY <1>3, Bit6, SMT
  <2> HIDE DEF Bit
  <2> QED BY <1>2, <2>1, <2>2, SMT
<1>11. Bit(w, 7) = Bit(low, 7) /\ Bit(w, 15) = Bit(high, 7)
  <2>1. Bit(w, 7) = (w \div 128) % 2 /\ Bit(w, 15) = (w \div 32768) % 2
    BY <1>3, Bit7, Bit15, SMT
  <2>2. Bit(low, 7) = (low \div 128) % 2 /\ Bit(high, 7) = (high \div 128) % 2
    BY <1>3, Bit7, SMT
  <2> HIDE DEF Bit
  <2> QED BY <1>2, <2>1, <2>2, SMT
<1>12. \A k \in 0 .. 7 : Bit(w, k) = Bit(low, k) /\ Bit(w, 8 + k) = Bit(high, k)
  BY <1>4, <1>5, <1>6, <1>7, <1>8, <1>9, <1>10, <1>11, SMT
<1>13. low \in Byte /\ high \in Byte
  BY <1>1, Ranges, SMT
<1> QED BY <1>1, <1>12, <1>13, Zenon

\* Any two registers hold a float.
THEOREM FloatsKept == \A words \in [0 .. 1 -> Register] : FloatKept(words)
<1> SUFFICES ASSUME NEW words \in [0 .. 1 -> Register] PROVE FloatKept(words)
  BY SMT
<1> DEFINE f == get_float(words)
<1>1. ASSUME NEW h \in 0 .. 1
      PROVE  ByteAt(f, 16 * h) + 256 * ByteAt(f, 16 * h + 8) = words[h]
  <2>1. \A k \in 0 .. 15 : f[16 * h + k] = Bit(words[h], k)
    <3> SUFFICES ASSUME NEW k \in 0 .. 15 PROVE f[16 * h + k] = Bit(words[h], k)
      BY SMT
    <3>1. 16 * h + k \in 0 .. 31 /\ (16 * h + k) \div 16 = h /\ (16 * h + k) % 16 = k
      BY SMT
    <3> QED BY <3>1, Zenon DEF get_float
  <2> HIDE DEF f
  <2>2. words[h] \in Register
    BY SMT
  <2>3. PICK low \in Byte, high \in Byte :
           /\ words[h] = low + 256 * high
           /\ \A k \in 0 .. 7 : /\ Bit(words[h], k) = Bit(low, k)
                              /\ Bit(words[h], 8 + k) = Bit(high, k)
    BY <2>2, WordBits, SMT
  <2>4. \A k \in 0 .. 7 : f[16 * h + k] = Bit(low, k)
    BY <2>1, <2>3, SMT
  <2>5. \A k \in 0 .. 7 : f[(16 * h + 8) + k] = Bit(high, k)
    <3> SUFFICES ASSUME NEW k \in 0 .. 7 PROVE f[(16 * h + 8) + k] = Bit(high, k)
      BY SMT
    <3>1. 8 + k \in 0 .. 15 /\ (16 * h + 8) + k = 16 * h + (8 + k)
      BY SMT
    <3>2. f[16 * h + (8 + k)] = Bit(words[h], 8 + k)
      BY <2>1, <3>1, SMT
    <3> QED BY <2>3, <3>1, <3>2, SMT
  <2>6. 16 * h \in Int /\ 16 * h + 8 \in Int
    BY SMT
  <2>7. ByteAt(f, 16 * h) = low
    BY <2>4, <2>6, ByteOfPlaces, SMT
  <2>8. ByteAt(f, 16 * h + 8) = high
    BY <2>5, <2>6, ByteOfPlaces, SMT
  <2> QED BY <2>3, <2>7, <2>8, SMT
<1>2. set_float(f) = words
  <2> HIDE DEF f
  <2>1. set_float(f) = [h \in 0 .. 1 |-> words[h]]
    BY <1>1, SMT DEF set_float
  <2> QED BY <2>1, SMT
<1>3. f[31] = 1 <=> words[1] >= 32768
  <2>1. f[31] = Bit(words[1], 15)
    <3>1. 31 \in 0 .. 31 /\ 31 \div 16 = 1 /\ 31 % 16 = 15
      BY SMT
    <3> QED BY <3>1, Zenon DEF get_float
  <2>2. words[1] \in Nat /\ words[1] < 65536
    BY Ranges, SMT
  <2> HIDE DEF f
  <2>3. 2^15 = 32768
    BY SMT
  <2> QED BY <2>1, <2>2, <2>3, SMT DEF Bit
<1> QED BY <1>2, <1>3, SMT DEF FloatKept

-----------------------------------------------------------------------------
\* The lowest bits of a byte.
LEMMA Low1 ==
  ASSUME NEW x \in 0 .. 255
  PROVE  x % 2
           = x % 2
BY SMTT(60)

LEMMA Low2 ==
  ASSUME NEW x \in 0 .. 255
  PROVE  (x % 2) + 2 * ((x \div 2) % 2)
           = x % 4
BY SMTT(60)

LEMMA Low3 ==
  ASSUME NEW x \in 0 .. 255
  PROVE  (x % 2) + 2 * ((x \div 2) % 2) + 4 * ((x \div 4) % 2)
           = x % 8
BY SMTT(60)

LEMMA Low4 ==
  ASSUME NEW x \in 0 .. 255
  PROVE  (x % 2) + 2 * ((x \div 2) % 2) + 4 * ((x \div 4) % 2) + 8 * ((x \div 8) % 2)
           = x % 16
BY SMTT(60)

LEMMA Low5 ==
  ASSUME NEW x \in 0 .. 255
  PROVE  (x % 2) + 2 * ((x \div 2) % 2) + 4 * ((x \div 4) % 2) + 8 * ((x \div 8) % 2)
             + 16 * ((x \div 16) % 2)
           = x % 32
BY SMTT(60)

LEMMA Low6 ==
  ASSUME NEW x \in 0 .. 255
  PROVE  (x % 2) + 2 * ((x \div 2) % 2) + 4 * ((x \div 4) % 2) + 8 * ((x \div 8) % 2)
             + 16 * ((x \div 16) % 2) + 32 * ((x \div 32) % 2)
           = x % 64
BY SMTT(60)

LEMMA Low7 ==
  ASSUME NEW x \in 0 .. 255
  PROVE  (x % 2) + 2 * ((x \div 2) % 2) + 4 * ((x \div 4) % 2) + 8 * ((x \div 8) % 2)
             + 16 * ((x \div 16) % 2) + 32 * ((x \div 32) % 2) + 64 * ((x \div 64) % 2)
           = x % 128
BY SMTT(60)

\* The sum of the lowest n bits.
LEMMA LowBits ==
  ASSUME NEW x \in Byte, NEW n \in 1 .. 8, NEW b,
         \A k \in 0 .. 7 : b[k] = IF k < n THEN Bit(x, k) ELSE 0
  PROVE  ByteAt(b, 0) = x % 2^n
<1>1. x \in 0 .. 255 /\ x \in Nat
  BY SMT DEF Byte
<1> DEFINE q0 == x % 2
           q1 == (x \div 2) % 2
           q2 == (x \div 4) % 2
           q3 == (x \div 8) % 2
           q4 == (x \div 16) % 2
           q5 == (x \div 32) % 2
           q6 == (x \div 64) % 2
           q7 == (x \div 128) % 2
<1>2. /\ Bit(x, 0) = q0 /\ Bit(x, 1) = q1 /\ Bit(x, 2) = q2 /\ Bit(x, 3) = q3
      /\ Bit(x, 4) = q4 /\ Bit(x, 5) = q5 /\ Bit(x, 6) = q6 /\ Bit(x, 7) = q7
  <2>0. Bit(x, 0) = q0
    BY <1>1, Bit0, SMT
  <2>1. Bit(x, 1) = q1
    BY <1>1, Bit1, SMT
  <2>2. Bit(x, 2) = q2
    BY <1>1, Bit2, SMT
  <2>3. Bit(x, 3) = q3
    BY <1>1, Bit3, SMT
  <2>4. Bit(x, 4) = q4
    BY <1>1, Bit4, SMT
  <2>5. Bit(x, 5) = q5
    BY <1>1, Bit5, SMT
  <2>6. Bit(x, 6) = q6
    BY <1>1, Bit6, SMT
  <2>7. Bit(x, 7) = q7
    BY <1>1, Bit7, SMT
  <2> HIDE DEF Bit, q0, q1, q2, q3, q4, q5, q6, q7
  <2> QED BY <2>0, <2>1, <2>2, <2>3, <2>4, <2>5, <2>6, <2>7, Zenon
<1>13. q0 \in Int /\ q1 \in Int /\ q2 \in Int /\ q3 \in Int /\ q4 \in Int /\ q5 \in Int /\ q6 \in Int /\ q7 \in Int
  BY <1>1, SMT
<1>3. ByteAt(b, 0) = b[0] + 2 * b[1] + 4 * b[2] + 8 * b[3]
                       + 16 * b[4] + 32 * b[5] + 64 * b[6] + 128 * b[7]
  <2>1. /\ 0 + 1 = 1 /\ 0 + 2 = 2 /\ 0 + 3 = 3 /\ 0 + 4 = 4 /\ 0 + 5 = 5 /\ 0 + 6 = 6
        /\ 0 + 7 = 7
    BY SMT
  <2> QED BY <2>1, Zenon DEF ByteAt
<1>4. CASE n = 1
  <2>1. /\ b[0] = Bit(x, 0) /\ b[1] = 0 /\ b[2] = 0 /\ b[3] = 0
        /\ b[4] = 0 /\ b[5] = 0 /\ b[6] = 0 /\ b[7] = 0
    BY <1>4, SMT
  <2>2. 2^1 = 2
    BY SMT
  <2>3. x % 2 = q0
    BY <1>1, Low1, Zenon
  <2> HIDE DEF Bit, q0, q1, q2, q3, q4, q5, q6, q7
  <2> QED BY <1>2, <1>3, <1>13, <1>4, <2>1, <2>2, <2>3, SMT
<1>5. CASE n = 2
  <2>1. /\ b[0] = Bit(x, 0) /\ b[1] = Bit(x, 1) /\ b[2] = 0 /\ b[3] = 0
        /\ b[4] = 0 /\ b[5] = 0 /\ b[6] = 0 /\ b[7] = 0
    BY <1>5, SMT
  <2>2. 2^2 = 4
    BY SMT
  <2>3. x % 4 = q0 + 2 * q1
    BY <1>1, Low2, Zenon
  <2> HIDE DEF Bit, q0, q1, q2, q3, q4, q5, q6, q7
  <2> QED BY <1>2, <1>3, <1>13, <1>5, <2>1, <2>2, <2>3, SMT
<1>6. CASE n = 3
  <2>1. /\ b[0] = Bit(x, 0) /\ b[1] = Bit(x, 1) /\ b[2] = Bit(x, 2) /\ b[3] = 0
        /\ b[4] = 0 /\ b[5] = 0 /\ b[6] = 0 /\ b[7] = 0
    BY <1>6, SMT
  <2>2. 2^3 = 8
    BY SMT
  <2>3. x % 8 = q0 + 2 * q1 + 4 * q2
    BY <1>1, Low3, Zenon
  <2> HIDE DEF Bit, q0, q1, q2, q3, q4, q5, q6, q7
  <2> QED BY <1>2, <1>3, <1>13, <1>6, <2>1, <2>2, <2>3, SMT
<1>7. CASE n = 4
  <2>1. /\ b[0] = Bit(x, 0) /\ b[1] = Bit(x, 1) /\ b[2] = Bit(x, 2) /\ b[3] = Bit(x, 3)
        /\ b[4] = 0 /\ b[5] = 0 /\ b[6] = 0 /\ b[7] = 0
    BY <1>7, SMT
  <2>2. 2^4 = 16
    BY SMT
  <2>3. x % 16 = q0 + 2 * q1 + 4 * q2 + 8 * q3
    BY <1>1, Low4, Zenon
  <2> HIDE DEF Bit, q0, q1, q2, q3, q4, q5, q6, q7
  <2> QED BY <1>2, <1>3, <1>13, <1>7, <2>1, <2>2, <2>3, SMT
<1>8. CASE n = 5
  <2>1. /\ b[0] = Bit(x, 0) /\ b[1] = Bit(x, 1) /\ b[2] = Bit(x, 2) /\ b[3] = Bit(x, 3)
        /\ b[4] = Bit(x, 4) /\ b[5] = 0 /\ b[6] = 0 /\ b[7] = 0
    BY <1>8, SMT
  <2>2. 2^5 = 32
    BY SMT
  <2>3. x % 32 = q0 + 2 * q1 + 4 * q2 + 8 * q3 + 16 * q4
    BY <1>1, Low5, Zenon
  <2> HIDE DEF Bit, q0, q1, q2, q3, q4, q5, q6, q7
  <2> QED BY <1>2, <1>3, <1>13, <1>8, <2>1, <2>2, <2>3, SMT
<1>9. CASE n = 6
  <2>1. /\ b[0] = Bit(x, 0) /\ b[1] = Bit(x, 1) /\ b[2] = Bit(x, 2) /\ b[3] = Bit(x, 3)
        /\ b[4] = Bit(x, 4) /\ b[5] = Bit(x, 5) /\ b[6] = 0 /\ b[7] = 0
    BY <1>9, SMT
  <2>2. 2^6 = 64
    BY SMT
  <2>3. x % 64 = q0 + 2 * q1 + 4 * q2 + 8 * q3 + 16 * q4 + 32 * q5
    BY <1>1, Low6, Zenon
  <2> HIDE DEF Bit, q0, q1, q2, q3, q4, q5, q6, q7
  <2> QED BY <1>2, <1>3, <1>13, <1>9, <2>1, <2>2, <2>3, SMT
<1>10. CASE n = 7
  <2>1. /\ b[0] = Bit(x, 0) /\ b[1] = Bit(x, 1) /\ b[2] = Bit(x, 2) /\ b[3] = Bit(x, 3)
        /\ b[4] = Bit(x, 4) /\ b[5] = Bit(x, 5) /\ b[6] = Bit(x, 6) /\ b[7] = 0
    BY <1>10, SMT
  <2>2. 2^7 = 128
    BY SMT
  <2>3. x % 128 = q0 + 2 * q1 + 4 * q2 + 8 * q3 + 16 * q4 + 32 * q5 + 64 * q6
    BY <1>1, Low7, Zenon
  <2> HIDE DEF Bit, q0, q1, q2, q3, q4, q5, q6, q7
  <2> QED BY <1>2, <1>3, <1>13, <1>10, <2>1, <2>2, <2>3, SMT
<1>11. CASE n = 8
  <2>1. /\ b[0] = Bit(x, 0) /\ b[1] = Bit(x, 1) /\ b[2] = Bit(x, 2) /\ b[3] = Bit(x, 3)
        /\ b[4] = Bit(x, 4) /\ b[5] = Bit(x, 5) /\ b[6] = Bit(x, 6) /\ b[7] = Bit(x, 7)
    BY <1>11, SMT
  <2>2. 2^8 = 256 /\ x % 256 = x
    BY <1>1, SMT
  <2>3. x = q0 + 2 * q1 + 4 * q2 + 8 * q3 + 16 * q4 + 32 * q5 + 64 * q6 + 128 * q7
    BY <1>1, ByteOfBits, Zenon
  <2> HIDE DEF Bit, q0, q1, q2, q3, q4, q5, q6, q7
  <2> QED BY <1>2, <1>3, <1>13, <1>11, <2>1, <2>2, <2>3, SMT
<1>12. n = 1 \/ n = 2 \/ n = 3 \/ n = 4 \/ n = 5 \/ n = 6 \/ n = 7 \/ n = 8
  BY SMT
<1> QED BY <1>4, <1>5, <1>6, <1>7, <1>8, <1>9, <1>10, <1>11, <1>12, Zenon

\* The bits of 0 and of 1.
LEMMA BitOfBit ==
  ASSUME NEW v \in {0, 1}, NEW j \in 0 .. 7
  PROVE  Bit(v, j) = 1 <=> v = 1 /\ j = 0
<1>1. v \in Nat /\ (v = 0 \/ v = 1)
  BY SMT
<1>2. Bit(v, 0) = v
  BY <1>1, Bit0, SMT
<1>3. j = 0 \/ j = 1 \/ j = 2 \/ j = 3 \/ j = 4 \/ j = 5 \/ j = 6 \/ j = 7
  BY SMT
<1>4. /\ Bit(v, 1) = 0 /\ Bit(v, 2) = 0 /\ Bit(v, 3) = 0 /\ Bit(v, 4) = 0
      /\ Bit(v, 5) = 0 /\ Bit(v, 6) = 0 /\ Bit(v, 7) = 0
  <2>1. Bit(v, 1) = 0
    BY <1>1, Bit1, SMT
  <2>2. Bit(v, 2) = 0
    BY <1>1, Bit2, SMT
  <2>3. Bit(v, 3) = 0
    BY <1>1, Bit3, SMT
  <2>4. Bit(v, 4) = 0
    BY <1>1, Bit4, SMT
  <2>5. Bit(v, 5) = 0
    BY <1>1, Bit5, SMT
  <2>6. Bit(v, 6) = 0
    BY <1>1, Bit6, SMT
  <2>7. Bit(v, 7) = 0
    BY <1>1, Bit7, SMT
  <2> QED BY <2>1, <2>2, <2>3, <2>4, <2>5, <2>6, <2>7, Zenon
<1> HIDE DEF Bit
<1> QED BY <1>1, <1>2, <1>3, <1>4, SMT

\* A bit is 0 or 1.
LEMMA BitIsBit ==
  ASSUME NEW x \in Nat, NEW k \in 0 .. 7
  PROVE  Bit(x, k) \in {0, 1}
<1>1. k = 0 \/ k = 1 \/ k = 2 \/ k = 3 \/ k = 4 \/ k = 5 \/ k = 6 \/ k = 7
  BY SMT
<1>2. Bit(x, 0) \in {0, 1}
  BY Bit0, SMT
<1>3. Bit(x, 1) \in {0, 1}
  BY Bit1, SMT
<1>4. Bit(x, 2) \in {0, 1}
  BY Bit2, SMT
<1>5. Bit(x, 3) \in {0, 1}
  BY Bit3, SMT
<1>6. Bit(x, 4) \in {0, 1}
  BY Bit4, SMT
<1>7. Bit(x, 5) \in {0, 1}
  BY Bit5, SMT
<1>8. Bit(x, 6) \in {0, 1}
  BY Bit6, SMT
<1>9. Bit(x, 7) \in {0, 1}
  BY Bit7, SMT
<1> QED BY <1>1, <1>2, <1>3, <1>4, <1>5, <1>6, <1>7, <1>8, <1>9, SMT

\* What modbus_set_bits_from_bytes wrote, modbus_get_byte_from_bits reads, whatever
\* the table, the index and the number of bits and bytes.
THEOREM BitsAreKept ==
  ASSUME NEW size \in Nat, NEW table \in [0 .. size - 1 -> Nat],
         NEW index \in Nat, NEW nb \in Nat, index + nb <= size,
         NEW m \in Nat, nb <= 8 * m, NEW tab \in [0 .. m - 1 -> Byte]
  PROVE  BitsKept(table, index, nb, tab)
<1> DEFINE dest    == set_bits_from_bytes(table, index, nb, tab)
           Size(b) == IF nb < 8 * b + 8 THEN nb - 8 * b ELSE 8
<1>1. ASSUME NEW i \in 0 .. nb - 1
      PROVE  dest[index + i] = Bit(tab[i \div 8], i % 8)
  <2>1. index + i \in 0 .. size - 1 /\ index + i \in index .. index + nb - 1
        /\ (index + i) - index = i
    BY SMT
  <2> QED BY <2>1, SMT DEF set_bits_from_bytes
<1>2. \A j \in DOMAIN table : j \notin index .. index + nb - 1 => dest[j] = table[j]
  BY SMT DEF set_bits_from_bytes
<1>3. ASSUME NEW b \in 0 .. (nb - 1) \div 8
      PROVE  get_byte_from_bits(dest, index + 8 * b, Size(b)) = tab[b] % 2^Size(b)
  <2> DEFINE n == Size(b)
             x == tab[b]
  <2>1. b \in 0 .. m - 1 /\ n \in 1 .. 8 /\ 8 * b + n <= nb
    BY SMT
  <2>2. x \in Byte /\ x \in Nat
    <3>1. x \in Byte
      BY <2>1, Zenon
    <3> QED BY <3>1, Ranges, SMT
  <2> HIDE DEF dest, n, x, Size
  <2>3. ASSUME NEW k \in 0 .. n - 1
        PROVE  dest[(index + 8 * b) + k] = Bit(x, k)
    <3>1. /\ 8 * b + k \in 0 .. nb - 1 /\ index + (8 * b + k) = (index + 8 * b) + k
          /\ (8 * b + k) \div 8 = b /\ (8 * b + k) % 8 = k
      BY <2>1, SMT
    <3> HIDE DEF Bit
    <3> QED BY <1>1, <3>1, Zenon DEF x
  <2>4. \A k \in 0 .. n - 1 : dest[(index + 8 * b) + k] = Bit(x, k) /\ Bit(x, k) \in {0, 1}
    <3>1. \A k \in 0 .. n - 1 : k \in 0 .. 7
      BY <2>1, SMT
    <3> QED BY <2>2, <2>3, <3>1, BitIsBit, Zenon
  <2> DEFINE Set(k) == \E i \in 0 .. n - 1 : i <= k /\ Bit(dest[(index + 8 * b) + i], k - i) = 1
             c == [k \in 0 .. 7 |-> IF Set(k) THEN 1 ELSE 0]
  <2>5. ASSUME NEW k \in 0 .. 7
        PROVE  Set(k) <=> k < n /\ Bit(x, k) = 1
    <3>1. ASSUME NEW i \in 0 .. n - 1, i <= k
          PROVE  Bit(dest[(index + 8 * b) + i], k - i) = 1 <=> Bit(x, i) = 1 /\ i = k
      <4>1. k - i \in 0 .. 7 /\ (k - i = 0 <=> i = k)
        BY <2>1, <3>1, SMT
      <4>2. dest[(index + 8 * b) + i] = Bit(x, i) /\ Bit(x, i) \in {0, 1}
        BY <2>4, Zenon
      <4>3. \A v \in {0, 1} : Bit(v, k - i) = 1 <=> v = 1 /\ k - i = 0
        BY <4>1, BitOfBit, Zenon
      <4> QED BY <4>1, <4>2, <4>3, Zenon
    <3>2. k < n => k \in 0 .. n - 1 /\ k <= k
      BY <2>1, SMT
    <3>3. \A i \in 0 .. n - 1 : i = k => k < n
      BY <2>1, SMT
    <3> QED BY <3>1, <3>2, <3>3, Zenon
  <2>6. \A k \in 0 .. 7 : c[k] = IF k < n THEN Bit(x, k) ELSE 0
    <3> HIDE DEF Set
    <3> SUFFICES ASSUME NEW k \in 0 .. 7 PROVE c[k] = IF k < n THEN Bit(x, k) ELSE 0
      BY Zenon
    <3>1. c[k] = IF Set(k) THEN 1 ELSE 0
      BY Zenon
    <3>2. k < n => k \in 0 .. n - 1
      BY <2>1, SMT
    <3>3. k < n => Bit(x, k) \in {0, 1}
      BY <2>4, <3>2, Zenon
    <3> HIDE DEF c
    <3> QED BY <2>5, <3>1, <3>3, SMT
  <2>7. ByteAt(c, 0) = x % 2^n
    <3> HIDE DEF c
    <3> QED BY <2>1, <2>2, <2>6, LowBits, Zenon
  <2>8. get_byte_from_bits(dest, index + 8 * b, n) = ByteAt(c, 0)
    BY Zenon DEF get_byte_from_bits
  <2> QED BY <2>7, <2>8, Zenon DEF n, x
<1>4. nb = 8 => dest = set_bits_from_byte(table, index, tab[0])
  <2> SUFFICES ASSUME nb = 8 PROVE dest = set_bits_from_byte(table, index, tab[0])
    OBVIOUS
  <2>1. \A j \in DOMAIN table : j \in index .. index + nb - 1 =>
          (j - index) \div 8 = 0 /\ (j - index) % 8 = j - index
    BY SMT
  <2>2. index + nb - 1 = index + 7
    BY SMT
  <2> HIDE DEF Bit
  <2> QED BY <2>1, <2>2, SMT DEF set_bits_from_bytes, set_bits_from_byte
<1> QED BY <1>2, <1>3, <1>4, Zenon DEF BitsKept

-----------------------------------------------------------------------------
\* The samples of MCModbus are among them.
LEMMA BitSampleKept ==
  ASSUME NEW s \in BitSamples
  PROVE  BitsKept(Table, s.index, s.nb, s.tab)
<1>1. /\ s.index \in 0 .. 7 /\ s.nb \in 0 .. 16 /\ s.tab \in [0 .. 1 -> SampleBytes]
  BY SMT DEF BitSamples, TableSize
<1>2. SampleBytes \subseteq Byte
  BY SMT DEF SampleBytes, Byte
<1>3. s.tab \in [0 .. 2 - 1 -> Byte]
  BY <1>1, <1>2, SMT
<1>4. Table \in [0 .. 24 - 1 -> Nat]
  BY SMT DEF Table, TableSize, Mark
<1>5. /\ s.index \in Nat /\ s.nb \in Nat /\ s.index + s.nb <= 24 /\ s.nb <= 8 * 2
      /\ 24 \in Nat /\ 2 \in Nat
  BY <1>1, SMT
<1> HIDE DEF BitsKept, Table, Byte
<1> QED BY <1>3, <1>4, <1>5, BitsAreKept, Zenon

LEMMA FloatSampleKept ==
  ASSUME NEW s \in FloatSamples
  PROVE  FloatKept(s.words)
<1>1. s.words \in [0 .. 1 -> SampleWords]
  BY SMT DEF FloatSamples
<1>2. SampleWords \subseteq Register
  BY SMT DEF SampleWords, Register
<1>3. s.words \in [0 .. 1 -> Register]
  BY <1>1, <1>2, SMT
<1> QED BY <1>3, FloatsKept, Zenon

Sampled == sample \in BitSamples \/ sample \in FloatSamples \/ sample = NoSample

LEMMA SampleInvariant == MCSpec => []Sampled
<1>1. MCInit => Sampled
  BY DEF MCInit, SampleInit, CallsInit, Sampled
<1>2. Sampled /\ [MCNext]_<<vars, sample>> => Sampled'
  BY DEF MCNext, Sampled
<1> QED BY <1>1, <1>2, PTL DEF MCSpec

\* What is proved of any table, any bytes and any two registers, as the runs have it.
THEOREM BitsReadBackAlways == MCSpec => []BitsReadBack
<1>1. Sampled => BitsReadBack
  <2> SUFFICES ASSUME Sampled, sample.kind = "bits"
               PROVE  BitsKept(Table, sample.index, sample.nb, sample.tab)
    BY DEF BitsReadBack
  <2>1. sample \in BitSamples
    BY SMT DEF Sampled, FloatSamples, NoSample
  <2> QED BY <2>1, BitSampleKept, Zenon
<1> QED BY <1>1, SampleInvariant, PTL

\* A float goes through two registers unchanged, whatever its bits.
THEOREM FloatsReadBackAlways == MCSpec => []FloatsReadBack
<1>1. Sampled => FloatsReadBack
  <2> SUFFICES ASSUME Sampled, sample.kind = "float"
               PROVE  FloatKept(sample.words)
    BY DEF FloatsReadBack
  <2>1. sample \in FloatSamples
    BY SMT DEF Sampled, BitSamples, NoSample
  <2> QED BY <2>1, FloatSampleKept, Zenon
<1> QED BY <1>1, SampleInvariant, PTL
=============================================================================
