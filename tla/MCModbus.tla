------------------------------ MODULE MCModbus ------------------------------
(***************************************************************************)
(* An instance of ModbusTransaction for TLC: every call on small tables,   *)
(* and calls at the limits of the protocol on tables that are larger.      *)
(* Before the first call, a sample of what the data helpers may be given.  *)
(***************************************************************************)
EXTENDS ModbusTransaction, ModbusData

VARIABLE sample

Call(fn, addr, nb, src) ==
  [fn |-> fn, addr |-> addr, nb |-> nb, src |-> src, raddr |-> 0, rnb |-> 0]
ReadWrite(addr, nb, src, raddr, rnb) ==
  [fn |-> "write_and_read_registers", addr |-> addr, nb |-> nb, src |-> src,
   raddr |-> raddr, rnb |-> rnb]

Ones(nb)   == [i \in 1 .. nb |-> 1]
Thirds(nb) == [i \in 1 .. nb |-> IF i % 3 = 1 THEN 1 ELSE 0]
Words(nb)  == [i \in 1 .. nb |-> 65536 - i]

\* Ten bits, so that a second byte is begun; three registers.
SmallTabs == [bits |-> Thirds(10), input_bits |-> Thirds(9),
              registers |-> <<7, 8, 9>>, input_registers |-> <<5, 6>>]

SmallCalls ==
  {Call(fn, a, n, <<>>) : fn \in {"read_bits", "read_input_bits"}, a \in {0, 1, 8}, n \in {0, 1, 2, 8, 9, 10, 11}}
  \union {Call(fn, a, n, <<>>) : fn \in {"read_registers", "read_input_registers"}, a \in 0 .. 3, n \in 0 .. 4}
  \union {Call("write_bit", a, 1, <<v>>) : a \in {0, 9, 10}, v \in {0, 1}}
  \union {Call("write_bits", a, n, Ones(n)) : a \in {0, 8}, n \in {0, 2, 9, 11}}
  \union {Call("write_bits", 1, n, Thirds(n)) : n \in {8, 9, 10}}
  \union {Call("write_register", a, 1, <<v>>) : a \in 0 .. 3, v \in {0, 65535}}
  \union {Call("write_registers", a, n, Words(n)) : a \in 0 .. 2, n \in 0 .. 4}
  \union {ReadWrite(a, 2, Words(2), ra, rn) : a \in 0 .. 2, ra \in {0, 1}, rn \in 0 .. 3}
  \union {Call("report_slave_id", 0, 1, <<>>)}
  \union {Call("raw", 0, function, <<>>) : function \in {7, 43}}

\* Tables that hold what the largest calls ask for, and calls around the limits.
LargeTabs == [bits |-> Thirds(2001), input_bits |-> Thirds(2000),
              registers |-> [i \in 1 .. 126 |-> i], input_registers |-> [i \in 1 .. 125 |-> i]]

LargeCalls ==
  {Call(fn, a, n, <<>>) : fn \in {"read_bits", "read_input_bits"}, a \in {0, 1}, n \in {1992, 2000, 2001}}
  \union {Call(fn, a, n, <<>>) : fn \in {"read_registers", "read_input_registers"}, a \in {0, 1}, n \in {124, 125, 126}}
  \union {Call("write_bits", a, n, Ones(n)) : a \in {0, 33, 34}, n \in {1968, 1969}}
  \union {Call("write_registers", a, n, Words(n)) : a \in {0, 3, 4}, n \in {123, 124}}
  \union {ReadWrite(a, n, Words(n), 0, rn) : a \in {0, 5, 6}, n \in {121, 122}, rn \in {125, 126}}

MCCalls == SmallCalls \union LargeCalls
MCTabs  == {SmallTabs, LargeTabs}

ASSUME MCAssumption == ProperUse

-----------------------------------------------------------------------------
\* Tables of 24 bits that modbus_set_bits_from_bytes is asked to fill from two
\* bytes, from every index and with every number of bits; pairs of registers.
TableSize   == 24
SampleBytes == {0, 1, 85, 128, 165, 255}
SampleWords == {0, 1, 255, 256, 32767, 32768, 65280, 65535}
NoSample    == [kind |-> "none"]
BitSamples  == [kind : {"bits"}, index : 0 .. 7, nb : 0 .. TableSize - 8, tab : [0 .. 1 -> SampleBytes]]
FloatSamples == [kind : {"float"}, words : [0 .. 1 -> SampleWords]]

SampleInit == Init /\ tabs = SmallTabs /\ sample \in BitSamples \union FloatSamples
CallsInit  == Init /\ sample = NoSample
MCInit == SampleInit \/ CallsInit
MCNext == \/ sample = NoSample /\ Next /\ UNCHANGED sample
          \/ sample # NoSample /\ sample' = NoSample /\ UNCHANGED vars
MCSpec == MCInit /\ [][MCNext]_<<vars, sample>>

\* A byte of a table that no helper writes.
Mark  == 5
Table == [j \in 0 .. TableSize - 1 |-> Mark]

\* The bits modbus_set_bits_from_bytes writes are the bytes it was given, cut to
\* nb bits, for a reader that takes them out byte by byte with
\* modbus_get_byte_from_bits, as the server does for a client; the bits around
\* them are untouched, and the last byte, when it is not whole, does not reach
\* past the bit index + nb.
BitsKept(table, index, nb, tab) ==
  LET dest    == set_bits_from_bytes(table, index, nb, tab)
      Size(b) == IF nb < 8 * b + 8 THEN nb - 8 * b ELSE 8
  IN /\ \A b \in 0 .. (nb - 1) \div 8 :
          get_byte_from_bits(dest, index + 8 * b, Size(b)) = tab[b] % 2^Size(b)
     /\ \A j \in DOMAIN table : j \notin index .. index + nb - 1 => dest[j] = table[j]
     /\ nb = 8 => dest = set_bits_from_byte(table, index, tab[0])

\* Two registers hold a float, the ends of the halves included: stored again it
\* is in the same registers, and its sign is the top bit of the second one.
FloatKept(words) ==
  /\ set_float(get_float(words)) = words
  /\ get_float(words)[31] = 1 <=> words[1] >= 32768

\* What the server packs for a client is what modbus_set_bits_from_bytes was given.
BitsReadBack == sample.kind = "bits" => BitsKept(Table, sample.index, sample.nb, sample.tab)

\* A float is read from two registers as it was stored in them.
FloatsReadBack == sample.kind = "float" => FloatKept(sample.words)
=============================================================================
