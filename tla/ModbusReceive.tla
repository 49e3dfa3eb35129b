--------------------------- MODULE ModbusReceive ---------------------------
(***************************************************************************)
(* receive_msg: how a message is picked out of a stream of bytes that      *)
(* arrive in pieces.  Nothing in the stream says where a message begins:   *)
(* the receiver reads up to the function code, which tells how much more   *)
(* to read (the "meta" part), which tells how much data follows.           *)
(* A byte is a record of its value "val" and of "by", a history no         *)
(* operator tests: whose byte it is.                                       *)
(***************************************************************************)
EXTENDS Integers, Sequences

CONSTANTS   \* lengths in the messages of a backend
  adu_header,    \* header_length
  adu_checksum,  \* checksum_length
  adu_max        \* max_adu_length

\* The longest message holds at least what is read of one before its data.
ASSUME BackendAssumption ==
  /\ {adu_header, adu_checksum, adu_max} \subseteq Nat
  /\ adu_header + 10 <= adu_max

Frames == INSTANCE ModbusFrames WITH req <- 0, rsp <- 0
Check == INSTANCE ModbusClient WITH
  Calls <- {}, TidCount <- 2, req <- 0, rsp <- 0,
  call <- 0, sent <- 0, tId <- 0, result <- 0, last <- 0

Bytes(vals, by) == [i \in DOMAIN vals |-> [val |-> vals[i], by |-> by]]
Vals(bytes)     == [i \in DOMAIN bytes |-> bytes[i].val]
\* Byte i of a message, counted from 0 as in the code; 0 if it is not there.
ByteAt(bytes, i) == IF i < Len(bytes) THEN bytes[i + 1].val ELSE 0
WordAt(bytes, i) == 256 * ByteAt(bytes, i) + ByteAt(bytes, i + 1)

Function(bytes) == ByteAt(bytes, adu_header)

-----------------------------------------------------------------------------
\* compute_meta_length_after_function and compute_data_length_after_meta, on the
\* bytes read so far.
Meta(bytes, kind) ==
  IF kind = "indication" THEN Frames!RequestMeta(Function(bytes))
                         ELSE Frames!AnswerMeta(Function(bytes))

\* Mutant: the byte count of an answer is looked for one byte too late.
CountAtNext(bytes, kind) ==
  adu_header + CASE kind = "confirmation" -> 2
                    [] kind = "indication" /\ Function(bytes) = Frames!WRITE_AND_READ_REGISTERS -> 9
                    [] OTHER -> 5
CountAt(bytes, kind) ==
  adu_header + CASE kind = "confirmation" -> 1
                    [] kind = "indication" /\ Function(bytes) = Frames!WRITE_AND_READ_REGISTERS -> 9
                    [] OTHER -> 5

\* Mutant: the checksum is not waited for.
DataWithoutChecksum(bytes, kind) ==
  LET msg == [function |-> Function(bytes), count |-> ByteAt(bytes, CountAt(bytes, kind))] IN
    IF kind = "indication" THEN Frames!RequestData(msg) ELSE Frames!AnswerData(msg)
Data(bytes, kind) ==
  LET msg == [function |-> Function(bytes), count |-> ByteAt(bytes, CountAt(bytes, kind))] IN
    adu_checksum + IF kind = "indication" THEN Frames!RequestData(msg) ELSE Frames!AnswerData(msg)

\* A message that is being received.
NewMessage == [bytes |-> <<>>, step |-> "function", length_to_read |-> adu_header + 1]

\* recv has returned some bytes, no more than were asked for.
Read(rx, new, kind) ==
  LET all  == rx.bytes \o new
      left == rx.length_to_read - Len(new)
  IN CASE left > 0 \/ rx.step = "data" -> [rx EXCEPT !.bytes = all, !.length_to_read = left]
       [] left = 0 /\ rx.step = "function" /\ Meta(all, kind) # 0 ->
            [bytes |-> all, step |-> "meta", length_to_read |-> Meta(all, kind)]
       [] OTHER -> [bytes |-> all, step |-> "data", length_to_read |-> Data(all, kind)]

\* How many of n bytes that have arrived the next recv takes.
Taken(rx, n) == IF n < rx.length_to_read THEN n ELSE rx.length_to_read

Begun(rx)    == rx.bytes # <<>>
TooLong(rx)  == rx.step = "data" /\ Len(rx.bytes) + rx.length_to_read > adu_max
Complete(rx) == rx.step = "data" /\ rx.length_to_read = 0

-----------------------------------------------------------------------------
\* check_confirmation of an answer; "q" holds tid, function and nb of the request.
\* "tid" is what the backend's pre_check_confirmation compares.
Answer(bytes, tid) ==
  [tid |-> tid, function |-> Function(bytes), count |-> ByteAt(bytes, adu_header + 1),
   nb |-> WordAt(bytes, adu_header + 3)]
Confirmation(q, bytes, tid) == Check!CheckConfirmation(q, Answer(bytes, tid))

\* The answer of a server whose registers begin at 28 and hold 1111 (modbus_reply).
AnswerPdu(pdu) ==
  CASE 256 * pdu[2] + pdu[3] < 28 -> <<pdu[1] + 128, 2>>
    [] 256 * pdu[2] + pdu[3] >= 28 /\ pdu[1] = 3 ->
         <<3, 2 * pdu[5]>> \o [i \in 1 .. 2 * pdu[5] |-> IF i % 2 = 1 THEN 4 ELSE 87]
    [] OTHER -> SubSeq(pdu, 1, 5)
=============================================================================
