----------------------------- MODULE ModbusData -----------------------------
(***************************************************************************)
(* modbus-data.c: bits of a table set from bytes and read into a byte, and *)
(* a float kept in two registers.  A table has one byte for each bit; a    *)
(* float is the function from the places 0 .. 31 to its bits.              *)
(***************************************************************************)
EXTENDS Integers

\* Bit k of a number.
Bit(n, k) == (n \div 2^k) % 2

\* The byte whose bits stand from place i on, the lowest first.
ByteAt(b, i) ==
  b[i] + 2 * b[i + 1] + 4 * b[i + 2] + 8 * b[i + 3]
    + 16 * b[i + 4] + 32 * b[i + 5] + 64 * b[i + 6] + 128 * b[i + 7]

\* modbus_set_bits_from_byte.
set_bits_from_byte(dest, index, value) ==
  [j \in DOMAIN dest |-> IF j \in index .. index + 7 THEN Bit(value, j - index) ELSE dest[j]]

\* modbus_set_bits_from_bytes.
\* Mutant: the shift is not taken back at the end of a byte.
SetBitsShiftOn(dest, index, nb_bits, tab_byte) ==
  [j \in DOMAIN dest |-> IF j \in index .. index + nb_bits - 1
                           THEN Bit(tab_byte[(j - index) \div 8], j - index)
                           ELSE dest[j]]
set_bits_from_bytes(dest, index, nb_bits, tab_byte) ==
  [j \in DOMAIN dest |-> IF j \in index .. index + nb_bits - 1
                           THEN Bit(tab_byte[(j - index) \div 8], (j - index) % 8)
                           ELSE dest[j]]

\* modbus_get_byte_from_bits: value |= src[index + i] << i in a uint8_t, where the
\* byte of a bit need not be 0 or 1.  More than 8 bits fail its assertion.
get_byte_from_bits(src, index, nb_bits) ==
  LET Set(k) == \E i \in 0 .. nb_bits - 1 : i <= k /\ Bit(src[index + i], k - i) = 1
  IN ByteAt([k \in 0 .. 7 |-> IF Set(k) THEN 1 ELSE 0], 0)

\* modbus_set_float and modbus_get_float: the low half is in the first register.
set_float(f) == [h \in 0 .. 1 |-> ByteAt(f, 16 * h) + 256 * ByteAt(f, 16 * h + 8)]
\* Mutant: the high half is taken from the first register.
GetFloatSwapped(src) == [k \in 0 .. 31 |-> Bit(src[1 - k \div 16], k % 16)]
get_float(src) == [k \in 0 .. 31 |-> Bit(src[k \div 16], k % 16)]
=============================================================================
