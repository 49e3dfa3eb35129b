---------------------------- MODULE ModbusFrames ----------------------------
(***************************************************************************)
(* The messages of libmodbus over TCP, and how long the two ends take them *)
(* to be.  A message is a record of its fields; "len" is the number of     *)
(* bytes its sender has written, header included.  The receiver does not   *)
(* see "len": it reads as many bytes as the function code and the byte     *)
(* count tell it to (receive_msg).                                         *)
(***************************************************************************)
EXTENDS Integers, Sequences

READ_COILS               == 1
READ_DISCRETE_INPUTS     == 2
READ_HOLDING_REGISTERS   == 3
READ_INPUT_REGISTERS     == 4
WRITE_SINGLE_COIL        == 5
WRITE_SINGLE_REGISTER    == 6
READ_EXCEPTION_STATUS    == 7
WRITE_MULTIPLE_COILS     == 15
WRITE_MULTIPLE_REGISTERS == 16
REPORT_SLAVE_ID          == 17
WRITE_AND_READ_REGISTERS == 23

MAX_READ_BITS          == 2000
MAX_WRITE_BITS         == 1968
MAX_READ_REGISTERS     == 125
MAX_WRITE_REGISTERS    == 123
MAX_RW_WRITE_REGISTERS == 121

ILLEGAL_FUNCTION     == 1
ILLEGAL_DATA_ADDRESS == 2
ILLEGAL_DATA_VALUE   == 3
SERVER_BUSY          == 6

header_length  == 7      \* the function code is the byte after it
max_adu_length == 260

-----------------------------------------------------------------------------
\* Eight bits to a byte, the first in the lowest place.  A byte is the set of
\* the places that are 1.
ByteCount(nb) == nb \div 8 + (IF nb % 8 # 0 THEN 1 ELSE 0)

PackBits(bits) ==
  [k \in 1 .. ByteCount(Len(bits)) |->
     {p \in 0 .. 7 : 8 * (k - 1) + p < Len(bits) /\ bits[8 * (k - 1) + p + 1] = 1}]

\* Mutant: the places are counted from 1.
UnpackBitsShifted(bytes, nb) == [i \in 1 .. nb |-> IF i % 8 \in bytes[(i - 1) \div 8 + 1] THEN 1 ELSE 0]
UnpackBits(bytes, nb) == [i \in 1 .. nb |-> IF (i - 1) % 8 \in bytes[(i - 1) \div 8 + 1] THEN 1 ELSE 0]

\* A message as build_request_basis and build_response_basis begin it.  "count" is
\* the byte count of the data, or the exception code; "waddr" and "wnb" are the
\* second range of write-and-read.
Basis(function, addr, nb, len) ==
  [tid |-> 0, function |-> function, addr |-> addr, nb |-> nb,
   waddr |-> 0, wnb |-> 0, count |-> 0, data |-> <<>>, len |-> len]

WithData(msg, count, data) == [msg EXCEPT !.count = count % 256, !.data = data, !.len = @ + 1 + count]

NoMsg == Basis(0, 0, 0, 0)

VARIABLES
  req,   \* the request on the connection, or NoMsg
  rsp    \* the answer on the connection, or NoMsg

-----------------------------------------------------------------------------
\* compute_meta_length_after_function, for a request and for an answer.
\* Mutant: the byte count of the multiple writes is not waited for.
RequestMetaShort(function) ==
  CASE function <= WRITE_SINGLE_REGISTER -> 4
    [] function \in {WRITE_MULTIPLE_COILS, WRITE_MULTIPLE_REGISTERS} -> 4
    [] function = WRITE_AND_READ_REGISTERS -> 9
    [] OTHER -> 0
RequestMeta(function) ==
  CASE function <= WRITE_SINGLE_REGISTER -> 4
    [] function \in {WRITE_MULTIPLE_COILS, WRITE_MULTIPLE_REGISTERS} -> 5
    [] function = WRITE_AND_READ_REGISTERS -> 9
    [] OTHER -> 0

AnswerMeta(function) ==
  IF function \in {WRITE_SINGLE_COIL, WRITE_SINGLE_REGISTER,
                   WRITE_MULTIPLE_COILS, WRITE_MULTIPLE_REGISTERS} THEN 4 ELSE 1

\* compute_data_length_after_meta.
RequestData(msg) ==
  IF msg.function \in {WRITE_MULTIPLE_COILS, WRITE_MULTIPLE_REGISTERS, WRITE_AND_READ_REGISTERS}
    THEN msg.count ELSE 0

AnswerData(msg) ==
  IF \/ msg.function <= READ_INPUT_REGISTERS
     \/ msg.function \in {REPORT_SLAVE_ID, WRITE_AND_READ_REGISTERS}
    THEN msg.count ELSE 0

\* receive_msg: the bytes it reads before it hands the message over.
RequestBytes(msg) == header_length + 1 + RequestMeta(msg.function) + RequestData(msg)
AnswerBytes(msg)  == header_length + 1 + AnswerMeta(msg.function) + AnswerData(msg)

\* compute_response_length_from_request; -1: not known.
AnswerLength(q) ==
  header_length +
    CASE q.function \in {READ_COILS, READ_DISCRETE_INPUTS} -> 2 + ByteCount(q.nb)
      [] q.function \in {WRITE_AND_READ_REGISTERS, READ_HOLDING_REGISTERS, READ_INPUT_REGISTERS} ->
           2 + 2 * q.nb
      [] q.function = READ_EXCEPTION_STATUS -> 3
      [] OTHER -> 5

=============================================================================
