----------------------------- MODULE ModbusCrc -----------------------------
(***************************************************************************)
(* The checksum of an RTU message, as libmodbus computes it with two       *)
(* tables, and CRC-16 as it is defined, one bit at a time.                 *)
(***************************************************************************)
EXTENDS Integers, Sequences

Byte == 0 .. 255

\* Exclusive or of two bytes: the places in which they differ.
XorByte(a, b) ==
  LET Place(p) == IF (a \div p) % 2 # (b \div p) % 2 THEN p ELSE 0
  IN Place(1) + Place(2) + Place(4) + Place(8) + Place(16) + Place(32) + Place(64) + Place(128)

table_crc_hi == <<0, 193, 129, 64, 1, 192, 128, 65, 1, 192, 128, 65, 0, 193, 129, 64, 1, 192, 128, 65, 0, 193,
  129, 64, 0, 193, 129, 64, 1, 192, 128, 65, 1, 192, 128, 65, 0, 193, 129, 64, 0, 193, 129, 64,
  1, 192, 128, 65, 0, 193, 129, 64, 1, 192, 128, 65, 1, 192, 128, 65, 0, 193, 129, 64, 1, 192,
  128, 65, 0, 193, 129, 64, 0, 193, 129, 64, 1, 192, 128, 65, 0, 193, 129, 64, 1, 192, 128, 65,
  1, 192, 128, 65, 0, 193, 129, 64, 0, 193, 129, 64, 1, 192, 128, 65, 1, 192, 128, 65, 0, 193,
  129, 64, 1, 192, 128, 65, 0, 193, 129, 64, 0, 193, 129, 64, 1, 192, 128, 65, 1, 192, 128, 65,
  0, 193, 129, 64, 0, 193, 129, 64, 1, 192, 128, 65, 0, 193, 129, 64, 1, 192, 128, 65, 1, 192,
  128, 65, 0, 193, 129, 64, 0, 193, 129, 64, 1, 192, 128, 65, 1, 192, 128, 65, 0, 193, 129, 64,
  1, 192, 128, 65, 0, 193, 129, 64, 0, 193, 129, 64, 1, 192, 128, 65, 0, 193, 129, 64, 1, 192,
  128, 65, 1, 192, 128, 65, 0, 193, 129, 64, 1, 192, 128, 65, 0, 193, 129, 64, 0, 193, 129, 64,
  1, 192, 128, 65, 1, 192, 128, 65, 0, 193, 129, 64, 0, 193, 129, 64, 1, 192, 128, 65, 0, 193,
  129, 64, 1, 192, 128, 65, 1, 192, 128, 65, 0, 193, 129, 64>>

table_crc_lo == <<0, 192, 193, 1, 195, 3, 2, 194, 198, 6, 7, 199, 5, 197, 196, 4, 204, 12, 13, 205, 15, 207,
  206, 14, 10, 202, 203, 11, 201, 9, 8, 200, 216, 24, 25, 217, 27, 219, 218, 26, 30, 222, 223, 31,
  221, 29, 28, 220, 20, 212, 213, 21, 215, 23, 22, 214, 210, 18, 19, 211, 17, 209, 208, 16, 240, 48,
  49, 241, 51, 243, 242, 50, 54, 246, 247, 55, 245, 53, 52, 244, 60, 252, 253, 61, 255, 63, 62, 254,
  250, 58, 59, 251, 57, 249, 248, 56, 40, 232, 233, 41, 235, 43, 42, 234, 238, 46, 47, 239, 45, 237,
  236, 44, 228, 36, 37, 229, 39, 231, 230, 38, 34, 226, 227, 35, 225, 33, 32, 224, 160, 96, 97, 161,
  99, 163, 162, 98, 102, 166, 167, 103, 165, 101, 100, 164, 108, 172, 173, 109, 175, 111, 110, 174, 170, 106,
  107, 171, 105, 169, 168, 104, 120, 184, 185, 121, 187, 123, 122, 186, 190, 126, 127, 191, 125, 189, 188, 124,
  180, 116, 117, 181, 119, 183, 182, 118, 114, 178, 179, 115, 177, 113, 112, 176, 80, 144, 145, 81, 147, 83,
  82, 146, 150, 86, 87, 151, 85, 149, 148, 84, 156, 92, 93, 157, 95, 159, 158, 94, 90, 154, 155, 91,
  153, 89, 88, 152, 136, 72, 73, 137, 75, 139, 138, 74, 78, 142, 143, 79, 141, 77, 76, 140, 68, 132,
  133, 69, 135, 71, 70, 134, 130, 66, 67, 131, 65, 129, 128, 64>>

\* crc16: the message is passed through the tables byte by byte; the two bytes of
\* the checksum are sent high byte first (send_msg_pre).
\* Mutant: the table is looked up with the wrong half.
crc16Halves(vals) ==
  LET crc[k \in 0 .. Len(vals)] ==
        IF k = 0 THEN <<255, 255>>
        ELSE LET prev == crc[k - 1]
                 i    == XorByte(prev[2], vals[k])
             IN <<XorByte(prev[1], table_crc_hi[i + 1]), table_crc_lo[i + 1]>>
  IN crc[Len(vals)]
crc16(vals) ==
  LET crc[k \in 0 .. Len(vals)] ==
        IF k = 0 THEN <<255, 255>>
        ELSE LET prev == crc[k - 1]
                 i    == XorByte(prev[1], vals[k])
             IN <<XorByte(prev[2], table_crc_hi[i + 1]), table_crc_lo[i + 1]>>
  IN crc[Len(vals)]

\* send_msg_pre and check_integrity of the RTU backend, on the bytes' values.
\* Mutant: the low byte of the checksum is not compared.
CheckHighByte(vals) ==
  LET n == Len(vals) IN crc16(SubSeq(vals, 1, n - 2))[1] = vals[n - 1]
SendMsgPre(vals) == vals \o crc16(vals)
CheckIntegrity(vals) ==
  LET n == Len(vals) IN crc16(SubSeq(vals, 1, n - 2)) = SubSeq(vals, n - 1, n)

\* A message of which one byte has arrived as another.
Corrupted(sent, i, error) == [sent EXCEPT ![i] = XorByte(@, error)]

\* What has been sent of a message with these bytes is accepted, and nothing that
\* differs from it in one byte, be it of the message or of its checksum.
Protected(vals) ==
  \A sent \in {SendMsgPre(vals)} :
    /\ CheckIntegrity(sent)
    /\ \A i \in DOMAIN sent, error \in 1 .. 255 : ~CheckIntegrity(Corrupted(sent, i, error))

-----------------------------------------------------------------------------
\* CRC-16 by its definition: the register starts with all ones; each bit that is
\* shifted out as 1 subtracts the polynomial x^16 + x^15 + x^2 + 1, which is
\* 40961 with its bits turned round.
XorWord(a, b) == 256 * XorByte(a \div 256, b \div 256) + XorByte(a % 256, b % 256)

Shift(r) == IF r % 2 = 1 THEN XorWord(r \div 2, 40961) ELSE r \div 2

ShiftByte(r) == Shift(Shift(Shift(Shift(Shift(Shift(Shift(Shift(r))))))))

Crc16(vals) ==
  LET register[k \in 0 .. Len(vals)] ==
        IF k = 0 THEN 65535 ELSE ShiftByte(XorWord(register[k - 1], vals[k]))
  IN register[Len(vals)]
=============================================================================
