------------------------ MODULE ModbusSessionProofs ------------------------
(***************************************************************************)
(* A request is executed at most once, no buffer is too small, and only    *)
(* bytes of earlier calls can mislead a call, none if no timeout is early: *)
(* proofs about ModbusSession, for any requests, modes, faults and lengths *)
(* of the stream.                                                          *)
(***************************************************************************)
EXTENDS ModbusSession, SequenceTheorems, TLAPS

Values   == 0 .. 255
Identifiers == {t \in Nat : t <= 65535}
PduMax == 252
ShortPdu(p) == p \in Seq(Values) /\ Len(p) <= PduMax
Sent     == [tid : 0 .. TidCount - 1, pdu : Pdus, own : BOOLEAN]

-----------------------------------------------------------------------------
(* Bytes.                                                                    *)

LEMMA FunctionSeq ==
  ASSUME NEW S, NEW n \in Nat, NEW f \in [1 .. n -> S]
  PROVE  f \in Seq(S) /\ Len(f) = n
<1>1. f \in Seq(S)
  BY SeqDef
<1>2. 1 .. Len(f) = 1 .. n /\ Len(f) \in Nat
  BY <1>1, LenProperties
<1> QED BY <1>1, <1>2

LEMMA BytesSeq ==
  ASSUME NEW vals \in Seq(Values), NEW by \in BOOLEAN
  PROVE  Bytes(vals, by) \in Seq(Byte)
<1>1. DOMAIN vals = 1 .. Len(vals) /\ Len(vals) \in Nat
      /\ \A i \in 1 .. Len(vals) : vals[i] \in Values
  BY LenProperties, ElementOfSeq
<1>2. Bytes(vals, by) \in [1 .. Len(vals) -> Byte]
  BY <1>1 DEF Bytes, Byte, Values
<1> QED BY <1>1, <1>2, FunctionSeq

LEMMA AgedSeq ==
  ASSUME NEW bytes \in Seq(Byte) PROVE Aged(bytes) \in Seq(Byte)
<1>1. DOMAIN bytes = 1 .. Len(bytes) /\ Len(bytes) \in Nat
      /\ \A i \in 1 .. Len(bytes) : bytes[i] \in Byte
  BY LenProperties, ElementOfSeq
<1>2. \A b \in Byte : [b EXCEPT !.by = FALSE] \in Byte
  BY DEF Byte
<1>3. \A i \in 1 .. Len(bytes) : [bytes[i] EXCEPT !.by = FALSE] \in Byte
  BY <1>1, <1>2
<1>4. Aged(bytes) \in [1 .. Len(bytes) -> Byte]
  BY <1>1, <1>3, Zenon DEF Aged
<1> QED BY <1>1, <1>4, FunctionSeq

LEMMA PairSeq ==
  ASSUME NEW S, NEW a \in S, NEW b \in S
  PROVE  <<a, b>> \in Seq(S) /\ Len(<<a, b>>) = 2
OBVIOUS

LEMMA SmallValue == ASSUME NEW v \in Values PROVE v \in Nat
BY DEF Values

LEMMA ExceptionCode == \A f \in {3, 6, 16} : f + 128 \in Values /\ 2 \in Values
BY DEF Values

LEMMA TwiceValue ==
  ASSUME NEW n \in Nat, n <= 125
  PROVE  2 * n \in Nat /\ 2 * n <= 250 /\ 2 * n \in Values /\ 3 \in Values
BY DEF Values

\* The answers fit into a message.
LEMMA AnswerSeq ==
  ASSUME NEW p \in PDU
  PROVE  ShortPdu(AnswerPdu(p))
<1>1. p \in Seq(Values) /\ Len(p) >= 5 /\ p[1] \in {3, 6, 16} /\ (p[1] = 3 => p[5] <= 125)
  <2>1. p \in Seq(Values) /\ Len(p) >= 5 /\ p[1] \in {3, 6, 16} /\ (p[1] = 3 => p[5] \in 1 .. 125)
    BY Zenon DEF PDU, Values
  <2>2. p[5] \in 1 .. 125 => p[5] <= 125
    OBVIOUS
  <2> QED BY <2>1, <2>2
<1>2. \A i \in 1 .. 5 : p[i] \in Values
  <2>1. Len(p) \in Nat
    BY <1>1, LenProperties
  <2>2. \A i \in 1 .. 5 : i \in 1 .. Len(p)
    BY <1>1, <2>1
  <2> QED BY <1>1, <2>2, ElementOfSeq
<1>3. CASE AnswerPdu(p) = <<p[1] + 128, 2>>
  <2>1. p[1] + 128 \in Values /\ 2 \in Values
    BY <1>1, ExceptionCode, Zenon
  <2>2. <<p[1] + 128, 2>> \in Seq(Values) /\ Len(<<p[1] + 128, 2>>) = 2
    BY <2>1, PairSeq
  <2>3. 2 <= PduMax
    BY DEF PduMax
  <2> QED BY <1>3, <2>2, <2>3, Zenon DEF ShortPdu
<1>4. CASE p[1] = 3 /\ AnswerPdu(p) = <<3, 2 * p[5]>> \o [i \in 1 .. 2 * p[5] |-> IF i % 2 = 1 THEN 4 ELSE 87]
  <2>1. PICK n \in Nat : n = p[5] /\ n <= 125
    <3>1. p[5] \in Values /\ p[5] <= 125
      BY <1>1, <1>2, <1>4
    <3> QED BY <3>1, SmallValue
  <2> DEFINE f == [i \in 1 .. 2 * n |-> IF i % 2 = 1 THEN 4 ELSE 87]
             h == <<3, 2 * n>>
  <2>2. 2 * n \in Nat /\ 2 * n <= 250 /\ 2 * n \in Values /\ 3 \in Values
    BY <2>1, TwiceValue
  <2>3. f \in [1 .. 2 * n -> Values]
    BY DEF Values
  <2>4. f \in Seq(Values) /\ Len(f) = 2 * n
    BY <2>2, <2>3, FunctionSeq
  <2>5. h \in Seq(Values) /\ Len(h) = 2
    BY <2>2, PairSeq
  <2>6. AnswerPdu(p) = h \o f
    BY <1>4, <2>1
  <2> HIDE DEF f, h
  <2>7. h \o f \in Seq(Values) /\ Len(h \o f) = Len(h) + Len(f)
    BY <2>4, <2>5, ConcatProperties
  <2>8. Len(h \o f) <= PduMax
    BY <2>2, <2>4, <2>5, <2>7 DEF PduMax
  <2> QED BY <2>6, <2>7, <2>8, Zenon DEF ShortPdu
<1>5. CASE AnswerPdu(p) = SubSeq(p, 1, 5)
  <2>1. SubSeq(p, 1, 5) \in Seq(Values) /\ Len(SubSeq(p, 1, 5)) = 5
    BY <1>2, SubSeqProperties
  <2>2. 5 <= PduMax
    BY DEF PduMax
  <2> QED BY <1>5, <2>1, <2>2, Zenon DEF ShortPdu
<1>6. \/ AnswerPdu(p) = <<p[1] + 128, 2>>
      \/ p[1] = 3 /\ AnswerPdu(p) = <<3, 2 * p[5]>> \o [i \in 1 .. 2 * p[5] |-> IF i % 2 = 1 THEN 4 ELSE 87]
      \/ AnswerPdu(p) = SubSeq(p, 1, 5)
  <2> DEFINE below == 256 * p[2] + p[3] < 28
             read  == 256 * p[2] + p[3] >= 28 /\ p[1] = 3
             x     == <<p[1] + 128, 2>>
             y     == <<3, 2 * p[5]>> \o [i \in 1 .. 2 * p[5] |-> IF i % 2 = 1 THEN 4 ELSE 87]
             z     == SubSeq(p, 1, 5)
  <2>1. AnswerPdu(p) = CASE below -> x [] read -> y [] OTHER -> z
    BY DEF AnswerPdu
  <2>2. read => p[1] = 3
    OBVIOUS
  <2> HIDE DEF below, read, x, y, z
  <2>3. AnswerPdu(p) = x \/ (p[1] = 3 /\ AnswerPdu(p) = y) \/ AnswerPdu(p) = z
    BY <2>1, <2>2
  <2> QED BY <2>3 DEF x, y, z
<1> QED BY <1>3, <1>4, <1>5, <1>6

\* A word in two bytes.
LEMMA HighByte ==
  ASSUME NEW t \in Nat, t <= 65535
  PROVE  /\ t \div 256 \in Int /\ 0 <= t \div 256 /\ t \div 256 <= 255
OBVIOUS
LEMMA LowByte ==
  ASSUME NEW t \in Nat
  PROVE t % 256 \in Int /\ 0 <= t % 256 /\ t % 256 <= 255
BY Z3
LEMMA IntValue == ASSUME NEW x \in Int, 0 <= x, x <= 255 PROVE x \in Values
BY DEF Values
LEMMA WordSeq ==
  ASSUME NEW n \in Nat, n <= 65535 PROVE Word(n) \in Seq(Values)
<1> DEFINE x == n \div 256
           y == n % 256
<1>1. x \in Int /\ 0 <= x /\ x <= 255
  BY HighByte
<1>2. y \in Int /\ 0 <= y /\ y <= 255
  BY LowByte, Z3
<1>3. Word(n) = <<x, y>>
  BY DEF Word
<1> HIDE DEF x, y
<1>4. x \in Values /\ y \in Values
  BY <1>1, <1>2, IntValue
<1> QED BY <1>3, <1>4, PairSeq

LEMMA LengthWord == ASSUME NEW n \in Nat, n <= 252 PROVE Word(n + 1) \in Seq(Values)
<1>1. n + 1 \in Nat /\ n + 1 <= 65535
  OBVIOUS
<1> QED BY <1>1, WordSeq

LEMMA ConstantWords == Word(0) \in Seq(Values) /\ <<255>> \in Seq(Values)
<1>1. 255 \in Values
  BY DEF Values
<1> QED BY <1>1, WordSeq

LEMMA AduSeq ==
  ASSUME NEW t \in Identifiers, NEW p, ShortPdu(p)
  PROVE  Adu(t, p) \in Seq(Values)
<1>1. p \in Seq(Values)
  BY DEF ShortPdu
<1>2. Word(t) \in Seq(Values)
  <2>1. t \in Nat /\ t <= 65535
    BY DEF Identifiers
  <2> QED BY <2>1, WordSeq
<1>3. Word(Len(p) + 1) \in Seq(Values)
  <2>1. Len(p) \in Nat /\ Len(p) <= 252
    BY <1>1, LenProperties DEF ShortPdu, PduMax
  <2> QED BY <2>1, LengthWord
<1>4. \A r, s \in Seq(Values) : r \o s \in Seq(Values)
  BY ConcatProperties
<1> QED BY <1>1, <1>2, <1>3, <1>4, ConstantWords, Zenon DEF Adu

LEMMA ByteAtValue ==
  ASSUME NEW bytes \in Seq(Byte), NEW i \in Nat PROVE ByteAt(bytes, i) \in Values
<1>1. CASE i < Len(bytes)
  <2>1. i + 1 \in 1 .. Len(bytes)
    BY <1>1, LenProperties
  <2>2. bytes[i + 1] \in Byte
    BY <2>1, ElementOfSeq
  <2> QED BY <1>1, <2>2 DEF ByteAt, Byte, Values
<1>2. CASE ~(i < Len(bytes))
  BY <1>2 DEF ByteAt, Values
<1> QED BY <1>1, <1>2

-----------------------------------------------------------------------------
(* The answer of a call: its fields, and the lengths receive_msg computes.   *)

LEMMA AduParts ==
  ASSUME NEW t \in Identifiers, NEW p, ShortPdu(p)
  PROVE  /\ Adu(t, p) \in Seq(Values) /\ Len(Adu(t, p)) = 7 + Len(p)
         /\ Adu(t, p)[1] = t \div 256 /\ Adu(t, p)[2] = t % 256
         /\ \A i \in 1 .. Len(p) : Adu(t, p)[7 + i] = p[i]
<1>1. p \in Seq(Values) /\ Len(p) \in Nat /\ Len(p) <= 252
  BY LenProperties DEF ShortPdu, PduMax
<1> DEFINE w1 == Word(t)
           w2 == Word(0)
           w3 == Word(Len(p) + 1)
           u  == <<255>>
<1>2. t \in Nat /\ t <= 65535
  BY DEF Identifiers
<1>3. w1 \in Seq(Values) /\ w2 \in Seq(Values) /\ w3 \in Seq(Values) /\ u \in Seq(Values)
  BY <1>1, <1>2, WordSeq, LengthWord, ConstantWords
<1>4. Len(w1) = 2 /\ Len(w2) = 2 /\ Len(w3) = 2 /\ Len(u) = 1
  BY DEF Word
<1>5. w1[1] = t \div 256 /\ w1[2] = t % 256
  BY DEF Word
<1>6. Adu(t, p) = (((w1 \o w2) \o w3) \o u) \o p
  BY DEF Adu
<1> HIDE DEF w1, w2, w3, u
<1>7. w1 \o w2 \in Seq(Values) /\ Len(w1 \o w2) = 4
      /\ (w1 \o w2)[1] = w1[1] /\ (w1 \o w2)[2] = w1[2]
  BY <1>3, <1>4, ConcatProperties
<1>8. (w1 \o w2) \o w3 \in Seq(Values) /\ Len((w1 \o w2) \o w3) = 6
      /\ ((w1 \o w2) \o w3)[1] = w1[1] /\ ((w1 \o w2) \o w3)[2] = w1[2]
  BY <1>3, <1>4, <1>7, ConcatProperties
<1> DEFINE h == ((w1 \o w2) \o w3) \o u
<1>9. h \in Seq(Values) /\ Len(h) = 7 /\ h[1] = w1[1] /\ h[2] = w1[2]
  BY <1>3, <1>4, <1>8, ConcatProperties
<1> HIDE DEF h
<1>10. h \o p \in Seq(Values) /\ Len(h \o p) = 7 + Len(p)
       /\ \A i \in 1 .. 7 + Len(p) : (h \o p)[i] = IF i <= 7 THEN h[i] ELSE p[i - 7]
  <2>1. h \o p \in Seq(Values) /\ Len(h \o p) = Len(h) + Len(p)
        /\ \A i \in 1 .. Len(h) + Len(p) : (h \o p)[i] = IF i <= Len(h) THEN h[i] ELSE p[i - Len(h)]
    BY <1>1, <1>9, ConcatProperties
  <2> QED BY <1>9, <2>1
<1>11. (h \o p)[1] = h[1] /\ (h \o p)[2] = h[2] /\ \A i \in 1 .. Len(p) : (h \o p)[7 + i] = p[i]
  BY <1>1, <1>10
<1> QED BY <1>5, <1>6, <1>9, <1>10, <1>11 DEF h

\* An exception, the registers that were read, or what was written.
Excepts(p, a) == Len(a) = 2 /\ a[1] = p[1] + 128 /\ a[2] = 2
Reads(p, a)   == p[1] = 3 /\ Len(a) = 2 + 2 * p[5] /\ a[1] = 3 /\ a[2] = 2 * p[5]
Writes(p, a)  == p[1] \in {6, 16} /\ Len(a) = 5 /\ a[1] = p[1] /\ a[4] = p[4] /\ a[5] = p[5]

LEMMA AnswerFields ==
  ASSUME NEW p \in PDU
  PROVE  \/ Excepts(p, AnswerPdu(p)) \/ Reads(p, AnswerPdu(p)) \/ Writes(p, AnswerPdu(p))
<1>1. p \in Seq(Values) /\ Len(p) >= 5 /\ p[1] \in {3, 6, 16} /\ (p[1] = 3 => p[5] \in 1 .. 125)
  BY Zenon DEF PDU, Values
<1>2. \A i \in 1 .. 5 : p[i] \in Values
  <2>1. Len(p) \in Nat
    BY <1>1, LenProperties
  <2>2. \A i \in 1 .. 5 : i \in 1 .. Len(p)
    BY <1>1, <2>1
  <2> QED BY <1>1, <2>2, ElementOfSeq
<1> DEFINE below == 256 * p[2] + p[3] < 28
           read  == 256 * p[2] + p[3] >= 28 /\ p[1] = 3
           f     == [i \in 1 .. 2 * p[5] |-> IF i % 2 = 1 THEN 4 ELSE 87]
           x     == <<p[1] + 128, 2>>
           y     == <<3, 2 * p[5]>> \o f
           z     == SubSeq(p, 1, 5)
<1>3. AnswerPdu(p) = CASE below -> x [] read -> y [] OTHER -> z
  BY DEF AnswerPdu
<1>4. below \/ read \/ p[1] # 3
  <2>1. p[2] \in Values /\ p[3] \in Values
    BY <1>2
  <2>2. \A v, w \in Values : 256 * v + w < 28 \/ 256 * v + w >= 28
    BY DEF Values
  <2> QED BY <2>1, <2>2
<1>5. Excepts(p, x)
  BY DEF Excepts
<1>6. p[1] = 3 => Reads(p, y)
  <2> SUFFICES ASSUME p[1] = 3 PROVE Reads(p, y)
    OBVIOUS
  <2>1. PICK n \in Nat : n = p[5] /\ n <= 125
    BY <1>1
  <2>2. 2 * n \in Nat /\ 2 * n \in Values /\ 3 \in Values
    BY <2>1, TwiceValue
  <2> DEFINE g == [i \in 1 .. 2 * n |-> IF i % 2 = 1 THEN 4 ELSE 87]
             h == <<3, 2 * n>>
  <2>3. g \in [1 .. 2 * n -> Values]
    BY DEF Values
  <2>4. g \in Seq(Values) /\ Len(g) = 2 * n
    BY <2>2, <2>3, FunctionSeq
  <2>5. h \in Seq(Values) /\ Len(h) = 2 /\ h[1] = 3 /\ h[2] = 2 * n
    BY <2>2, PairSeq
  <2>6. y = h \o g
    BY <2>1
  <2> HIDE DEF f, g, h, y
  <2>7. /\ Len(h \o g) = Len(h) + Len(g)
        /\ \A i \in 1 .. Len(h) + Len(g) : (h \o g)[i] = IF i <= Len(h) THEN h[i] ELSE g[i - Len(h)]
    BY <2>4, <2>5, ConcatProperties
  <2>8. Len(h \o g) = 2 + 2 * n /\ (h \o g)[1] = h[1] /\ (h \o g)[2] = h[2]
    BY <2>2, <2>4, <2>5, <2>7
  <2> QED BY <2>1, <2>5, <2>6, <2>8 DEF Reads
<1>7. p[1] # 3 => Writes(p, z)
  <2>1. Len(z) = 5 /\ \A i \in 1 .. 5 : z[i] = p[i]
    BY <1>2, SubSeqProperties
  <2> QED BY <1>1, <2>1 DEF Writes
<1> HIDE DEF below, read, x, y, z
<1>8. read => p[1] = 3
  BY DEF read
<1> QED BY <1>3, <1>4, <1>5, <1>6, <1>7, <1>8

LEMMA BytesParts ==
  ASSUME NEW vals \in Seq(Values), NEW by \in BOOLEAN
  PROVE  /\ Bytes(vals, by) \in Seq(Byte) /\ Len(Bytes(vals, by)) = Len(vals)
         /\ \A i \in 1 .. Len(vals) : Bytes(vals, by)[i] = [val |-> vals[i], by |-> by]
         /\ \A i \in Nat : i < Len(vals) => ByteAt(Bytes(vals, by), i) = vals[i + 1]
<1>1. DOMAIN vals = 1 .. Len(vals) /\ Len(vals) \in Nat
      /\ \A i \in 1 .. Len(vals) : vals[i] \in Values
  BY LenProperties, ElementOfSeq
<1>2. Bytes(vals, by) \in [1 .. Len(vals) -> Byte]
  BY <1>1 DEF Bytes, Byte, Values
<1>3. Bytes(vals, by) \in Seq(Byte) /\ Len(Bytes(vals, by)) = Len(vals)
  BY <1>1, <1>2, FunctionSeq
<1>4. \A i \in 1 .. Len(vals) : Bytes(vals, by)[i] = [val |-> vals[i], by |-> by]
  BY <1>1 DEF Bytes
<1>5. \A i \in Nat : i < Len(vals) => i + 1 \in 1 .. Len(vals)
  BY <1>1
<1>6. \A i \in Nat : i < Len(vals) => ByteAt(Bytes(vals, by), i) = vals[i + 1]
  <2> SUFFICES ASSUME NEW i \in Nat, i < Len(vals) PROVE ByteAt(Bytes(vals, by), i) = vals[i + 1]
    OBVIOUS
  <2> DEFINE b == Bytes(vals, by)
  <2>1. Len(b) = Len(vals) /\ b[i + 1] = [val |-> vals[i + 1], by |-> by]
    BY <1>3, <1>4, <1>5
  <2> HIDE DEF b
  <2>2. ByteAt(b, i) = b[i + 1].val
    BY <2>1 DEF ByteAt
  <2>3. ByteAt(b, i) = vals[i + 1]
    BY <2>1, <2>2
  <2> QED BY <2>3 DEF b
<1> QED BY <1>3, <1>4, <1>6

\* The answer to request p of transaction t, as the client of the request gets it.
AnswerTo(t, p) == Bytes(Adu(t, AnswerPdu(p)), TRUE)

LEMMA AnswerParts ==
  ASSUME NEW t \in Identifiers, NEW p \in PDU
  PROVE  /\ AnswerTo(t, p) \in Seq(Byte) /\ Len(AnswerTo(t, p)) = 7 + Len(AnswerPdu(p))
         /\ \A i \in 1 .. Len(AnswerTo(t, p)) : AnswerTo(t, p)[i].by
         /\ WordAt(AnswerTo(t, p), 0) = t
         /\ \A i \in 1 .. Len(AnswerPdu(p)) : ByteAt(AnswerTo(t, p), 6 + i) = AnswerPdu(p)[i]
<1> DEFINE a == AnswerPdu(p)
           v == Adu(t, a)
           b == Bytes(v, TRUE)
<1>1. ShortPdu(a)
  BY AnswerSeq
<1>2. Len(a) \in Nat
  BY <1>1, LenProperties DEF ShortPdu
<1>3. /\ v \in Seq(Values) /\ Len(v) = 7 + Len(a)
      /\ v[1] = t \div 256 /\ v[2] = t % 256
      /\ \A i \in 1 .. Len(a) : v[7 + i] = a[i]
  BY <1>1, AduParts
<1>4. AnswerTo(t, p) = b
  BY DEF AnswerTo
<1> HIDE DEF a, v
<1>5. /\ b \in Seq(Byte) /\ Len(b) = Len(v)
      /\ \A i \in 1 .. Len(v) : b[i] = [val |-> v[i], by |-> TRUE]
      /\ \A i \in Nat : i < Len(v) => ByteAt(b, i) = v[i + 1]
  BY <1>3, BytesParts
<1> HIDE DEF b
<1>6. ByteAt(b, 0) = v[1] /\ ByteAt(b, 1) = v[2]
  BY <1>2, <1>3, <1>5
<1>7. 256 * (t \div 256) + (t % 256) = t
  <2>1. t \in Nat
    BY DEF Identifiers
  <2> QED BY <2>1, Z3
<1>8. WordAt(b, 0) = t
  BY <1>3, <1>6, <1>7 DEF WordAt
<1>9. \A i \in 1 .. Len(a) : ByteAt(b, 6 + i) = a[i]
  <2> SUFFICES ASSUME NEW i \in 1 .. Len(a) PROVE ByteAt(b, 6 + i) = a[i]
    OBVIOUS
  <2>1. 6 + i \in Nat /\ 6 + i < Len(v) /\ (6 + i) + 1 = 7 + i
    BY <1>2, <1>3
  <2> QED BY <1>3, <1>5, <2>1
<1> QED BY <1>3, <1>4, <1>5, <1>8, <1>9 DEF a

\* receive_msg takes the answer to be just as long as the server has sent it, ...
LEMMA AnswerFrame ==
  ASSUME NEW t \in Identifiers, NEW p \in PDU
  PROVE  Len(AnswerTo(t, p)) = FrameLength(AnswerTo(t, p)) /\ Len(AnswerTo(t, p)) <= adu_max
<1> DEFINE a == AnswerPdu(p)
           b == AnswerTo(t, p)
           f == Function(b)
           n == ByteAt(b, CountAt(b, "confirmation"))
<1>1. Len(b) = 7 + Len(a) /\ \A i \in 1 .. Len(a) : ByteAt(b, 6 + i) = a[i]
  BY AnswerParts
<1>2. f = ByteAt(b, 7) /\ n = ByteAt(b, 8)
  BY TcpAssumption DEF Function, CountAt
<1>3. FrameLength(b) = 8 + Frames!AnswerMeta(f) + (0 + Frames!AnswerData([function |-> f, count |-> n]))
  BY TcpAssumption DEF FrameLength, Meta, Data
<1>4. p[1] \in {3, 6, 16} /\ (p[1] = 3 => p[5] \in 1 .. 125)
  BY Zenon DEF PDU
<1> HIDE DEF a, b, f, n
<1>5. ASSUME Excepts(p, a) PROVE Len(b) = FrameLength(b) /\ Len(b) <= 260
  <2>1. f = p[1] + 128 /\ Len(b) = 9
    BY <1>1, <1>2, <1>5 DEF Excepts
  <2>2. f \in {131, 134, 144}
    BY <1>4, <2>1
  <2>3. Frames!AnswerMeta(f) = 1 /\ Frames!AnswerData([function |-> f, count |-> n]) = 0
    BY <2>2 DEF Frames!AnswerMeta, Frames!AnswerData, Frames!WRITE_SINGLE_COIL,
         Frames!WRITE_SINGLE_REGISTER, Frames!WRITE_MULTIPLE_COILS, Frames!WRITE_MULTIPLE_REGISTERS,
         Frames!READ_INPUT_REGISTERS, Frames!REPORT_SLAVE_ID, Frames!WRITE_AND_READ_REGISTERS
  <2> QED BY <1>3, <2>1, <2>3
<1>6. ASSUME Reads(p, a) PROVE Len(b) = FrameLength(b) /\ Len(b) <= 260
  <2>1. PICK k \in 1 .. 125 : k = p[5]
    BY <1>4, <1>6 DEF Reads
  <2>2. Len(a) = 2 + 2 * k /\ a[1] = 3 /\ a[2] = 2 * k
    BY <1>6, <2>1 DEF Reads
  <2>3. Len(b) = 9 + 2 * k
    BY <1>1, <2>2
  <2>4. 1 \in 1 .. Len(a) /\ 2 \in 1 .. Len(a)
    BY <2>2
  <2>5. ByteAt(b, 6 + 1) = a[1] /\ ByteAt(b, 6 + 2) = a[2]
    BY <1>1, <2>4
  <2>6. f = 3 /\ n = 2 * k
    BY <1>2, <2>2, <2>5
  <2>7. Frames!AnswerMeta(f) = 1 /\ Frames!AnswerData([function |-> f, count |-> n]) = n
    BY <2>6 DEF Frames!AnswerMeta, Frames!AnswerData, Frames!WRITE_SINGLE_COIL,
         Frames!WRITE_SINGLE_REGISTER, Frames!WRITE_MULTIPLE_COILS, Frames!WRITE_MULTIPLE_REGISTERS,
         Frames!READ_INPUT_REGISTERS, Frames!REPORT_SLAVE_ID, Frames!WRITE_AND_READ_REGISTERS
  <2> QED BY <1>3, <2>3, <2>6, <2>7
<1>7. ASSUME Writes(p, a) PROVE Len(b) = FrameLength(b) /\ Len(b) <= 260
  <2>1. f \in {6, 16} /\ Len(b) = 12
    BY <1>1, <1>2, <1>7 DEF Writes
  <2>2. Frames!AnswerMeta(f) = 4 /\ Frames!AnswerData([function |-> f, count |-> n]) = 0
    BY <2>1 DEF Frames!AnswerMeta, Frames!AnswerData, Frames!WRITE_SINGLE_COIL,
         Frames!WRITE_SINGLE_REGISTER, Frames!WRITE_MULTIPLE_COILS, Frames!WRITE_MULTIPLE_REGISTERS,
         Frames!READ_INPUT_REGISTERS, Frames!REPORT_SLAVE_ID, Frames!WRITE_AND_READ_REGISTERS
  <2> QED BY <1>3, <2>1, <2>2
<1> QED BY <1>5, <1>6, <1>7, AnswerFields, TcpAssumption DEF a, b

\* ... and check_confirmation takes it for the answer.
LEMMA AnswerConfirmed ==
  ASSUME NEW t \in Identifiers, NEW p \in PDU, NEW q, Asks(q, p), q.tid = t
  PROVE  Confirmation(q, AnswerTo(t, p), WordAt(AnswerTo(t, p), 0)).errno # "EMBBADDATA"
<1> DEFINE a == AnswerPdu(p)
           b == AnswerTo(t, p)
           r == Answer(b, t)
<1>1. /\ Len(b) = 7 + Len(a) /\ WordAt(b, 0) = t
      /\ \A i \in 1 .. Len(a) : ByteAt(b, 6 + i) = a[i]
  BY AnswerParts
<1>2. /\ r.tid = t /\ r.function = ByteAt(b, 7) /\ r.count = ByteAt(b, 8)
      /\ r.nb = 256 * ByteAt(b, 10) + ByteAt(b, 11)
  BY TcpAssumption DEF Answer, Function, WordAt
<1>3. p[1] \in {3, 6, 16} /\ (p[1] = 3 => p[4] = 0 /\ p[5] \in 1 .. 125)
      /\ (p[1] = 16 => p[4] = 0 /\ p[5] \in 1 .. 123)
  BY Zenon DEF PDU
<1>4. Confirmation(q, b, t) = Check!CheckConfirmation(q, r)
  BY DEF Confirmation
<1> HIDE DEF a, b, r
<1> USE DEF Check!AnswerBytes, Check!AnswerLength, Check!AnswerMeta, Check!AnswerData,
            Check!READ_COILS, Check!READ_DISCRETE_INPUTS, Check!READ_HOLDING_REGISTERS,
            Check!READ_INPUT_REGISTERS, Check!WRITE_SINGLE_COIL, Check!WRITE_SINGLE_REGISTER,
            Check!READ_EXCEPTION_STATUS, Check!WRITE_MULTIPLE_COILS,
            Check!WRITE_MULTIPLE_REGISTERS, Check!REPORT_SLAVE_ID,
            Check!WRITE_AND_READ_REGISTERS, Check!header_length, Check!max_adu_length
<1>5. ASSUME Excepts(p, a) PROVE Check!CheckConfirmation(q, r).errno # "EMBBADDATA"
  <2>1. r.function = p[1] + 128 /\ r.count = 2
    BY <1>1, <1>2, <1>5 DEF Excepts
  <2>2. Check!AnswerBytes(r) = 9
    BY <1>3, <2>1
  <2>3. Check!AnswerLength(q) # 9 /\ q.function # 17
    BY <1>3 DEF Asks
  <2>4. q.function = r.function - 128 /\ q.tid = r.tid
    BY <1>2, <1>3, <2>1 DEF Asks
  <2>5. Check!Exception(r.count) = "EMBXILADD"
    BY <2>1 DEF Check!Exception
  <2> QED BY <2>2, <2>3, <2>4, <2>5 DEF Check!CheckConfirmation, Check!Failure, Check!Result
<1>6. ASSUME Reads(p, a) PROVE Check!CheckConfirmation(q, r).errno # "EMBBADDATA"
  <2>1. PICK k \in 1 .. 125 : k = p[5]
    BY <1>3, <1>6 DEF Reads
  <2>2. r.function = 3 /\ r.count = 2 * k /\ q.function = 3 /\ q.nb = k
    <3>1. Len(a) = 2 + 2 * k /\ a[1] = 3 /\ a[2] = 2 * k /\ p[1] = 3
      BY <1>6, <2>1 DEF Reads
    <3>2. 1 \in 1 .. Len(a) /\ 2 \in 1 .. Len(a)
      BY <3>1
    <3>3. ByteAt(b, 6 + 1) = a[1] /\ ByteAt(b, 6 + 2) = a[2]
      BY <1>1, <3>2
    <3>4. r.function = 3 /\ r.count = 2 * k
      BY <1>2, <3>1, <3>3
    <3>5. q.function = 3 /\ q.nb = 256 * 0 + k
      BY <1>3, <2>1, <3>1, Zenon DEF Asks
    <3> QED BY <3>4, <3>5
  <2>3. Check!AnswerBytes(r) = 9 + 2 * k /\ Check!AnswerLength(q) = 9 + 2 * k
    BY <2>2
  <2>4. Check!Asked(q, r) = k /\ Check!Answered(r) = k
    BY <2>2 DEF Check!Asked, Check!Answered
  <2>5. q.tid = r.tid
    BY <1>2 DEF Asks
  <2> QED BY <2>2, <2>3, <2>4, <2>5 DEF Check!CheckConfirmation, Check!Failure, Check!Result
<1>7. ASSUME Writes(p, a) PROVE Check!CheckConfirmation(q, r).errno # "EMBBADDATA"
  <2>1. r.function = p[1] /\ r.nb = 256 * p[4] + p[5] /\ p[1] \in {6, 16}
    BY <1>1, <1>2, <1>7 DEF Writes
  <2>2. Check!AnswerBytes(r) = 12 /\ Check!AnswerLength(q) = 12
    BY <2>1 DEF Asks
  <2>3. Check!Asked(q, r) = Check!Answered(r)
    BY <2>1 DEF Check!Asked, Check!Answered, Asks
  <2>4. q.tid = r.tid /\ q.function = r.function
    BY <1>2, <2>1 DEF Asks
  <2> QED BY <2>2, <2>3, <2>4 DEF Check!CheckConfirmation, Check!Failure, Check!Result
<1> QED BY <1>1, <1>4, <1>5, <1>6, <1>7, AnswerFields DEF a, b

-----------------------------------------------------------------------------
(* The receiver.                                                             *)

LEMMA NewFits == Fitting(NewMessage)
BY BackendAssumption DEF Fitting, NewMessage

\* The lengths receive_msg computes are numbers, and the meta part is short.
LEMMA Lengths ==
  ASSUME NEW bytes \in Seq(Byte)
  PROVE  /\ Meta(bytes, "confirmation") \in {1, 4}
         /\ Data(bytes, "confirmation") \in Nat
<1>1. Meta(bytes, "confirmation") \in {1, 4}
  BY DEF Meta, Frames!AnswerMeta
<1> DEFINE count == ByteAt(bytes, CountAt(bytes, "confirmation"))
           msg   == [function |-> Function(bytes), count |-> count]
<1>2. CountAt(bytes, "confirmation") \in Nat
  BY BackendAssumption DEF CountAt
<1>3. count \in Nat
  BY <1>2, ByteAtValue, SmallValue
<1> HIDE DEF count
<1>4. Frames!AnswerData(msg) \in Nat
  BY <1>3 DEF Frames!AnswerData
<1>5. Data(bytes, "confirmation") = adu_checksum + Frames!AnswerData(msg)
  BY DEF Data, count
<1> QED BY <1>1, <1>4, <1>5, BackendAssumption

\* recv returns no more than was asked for; with what follows from it for the
\* next recv the message fits, or it is given up.
LEMMA ReadFits ==
  ASSUME NEW m, Fitting(m), NEW new \in Seq(Byte), Len(new) <= m.length_to_read
  PROVE  \/ TooLong(Read(m, new, "confirmation"))
         \/ Fitting(Read(m, new, "confirmation"))
<1> DEFINE all  == m.bytes \o new
           left == m.length_to_read - Len(new)
           got  == Read(m, new, "confirmation")
           meta == Meta(all, "confirmation")
           data == Data(all, "confirmation")
<1>1. m \in [bytes : Seq(Byte), step : {"function", "meta", "data"}, length_to_read : Nat]
  BY DEF Fitting
<1>2. all \in Seq(Byte) /\ Len(all) = Len(m.bytes) + Len(new)
      /\ Len(m.bytes) \in Nat /\ Len(new) \in Nat
  BY <1>1, ConcatProperties, LenProperties
<1>3. left \in Nat /\ Len(all) + left = Len(m.bytes) + m.length_to_read /\ Len(all) \in Nat
  BY <1>1, <1>2
<1>4. meta \in {1, 4} /\ data \in Nat
  BY <1>2, Lengths
<1>5. \/ got = [m EXCEPT !.bytes = all, !.length_to_read = left]
      \/ /\ left = 0 /\ m.step = "function"
         /\ got = [bytes |-> all, step |-> "meta", length_to_read |-> meta]
      \/ got = [bytes |-> all, step |-> "data", length_to_read |-> data]
  <2>1. got = CASE left > 0 \/ m.step = "data" -> [m EXCEPT !.bytes = all, !.length_to_read = left]
                [] left = 0 /\ m.step = "function" /\ meta # 0 ->
                     [bytes |-> all, step |-> "meta", length_to_read |-> meta]
                [] OTHER -> [bytes |-> all, step |-> "data", length_to_read |-> data]
    BY DEF Read
  <2> HIDE DEF all, left, got, meta, data
  <2> QED BY <2>1
<1> HIDE DEF all, left, got, meta, data
<1>6. CASE got = [m EXCEPT !.bytes = all, !.length_to_read = left]
  <2>1. got \in [bytes : Seq(Byte), step : {"function", "meta", "data"}, length_to_read : Nat]
        /\ got.step = m.step /\ Len(got.bytes) + got.length_to_read = Len(m.bytes) + m.length_to_read
    BY <1>1, <1>2, <1>3, <1>6
  <2>2. Fitting(got)
    BY <2>1 DEF Fitting
  <2> QED BY <2>2 DEF got
<1>7. CASE /\ left = 0 /\ m.step = "function"
           /\ got = [bytes |-> all, step |-> "meta", length_to_read |-> meta]
  <2>1. Len(all) = adu_header + 1
    BY <1>1, <1>2, <1>3, <1>7 DEF Fitting
  <2>2. Len(all) + meta <= adu_header + 5
    BY <1>4, <2>1, BackendAssumption
  <2>3. Fitting(got)
    BY <1>2, <1>4, <1>7, <2>2 DEF Fitting
  <2> QED BY <2>3 DEF got
<1>8. CASE got = [bytes |-> all, step |-> "data", length_to_read |-> data]
  <2>1. TooLong(got) \/ Len(all) + data <= adu_max
    BY <1>3, <1>4, <1>8, BackendAssumption DEF TooLong
  <2>2. TooLong(got) \/ Fitting(got)
    BY <1>2, <1>4, <1>8, <2>1 DEF Fitting
  <2> QED BY <2>2 DEF got
<1> QED BY <1>5, <1>6, <1>7, <1>8

\* So what has been received is never longer than the buffer.
LEMMA FittingShort == ASSUME NEW m, Fitting(m) PROVE Len(m.bytes) <= adu_max
<1>1. m \in [bytes : Seq(Byte), step : {"function", "meta", "data"}, length_to_read : Nat]
  BY DEF Fitting
<1>2. Len(m.bytes) \in Nat /\ m.length_to_read \in Nat
  BY <1>1, LenProperties
<1>3. m.step \in {"function", "meta", "data"}
  BY <1>1
<1> QED BY <1>2, <1>3, BackendAssumption DEF Fitting

LEMMA NewFramed == Framed(NewMessage)
BY DEF Framed, NewMessage

LEMMA SameMeta ==
  ASSUME NEW r \in Seq(Byte), NEW s \in Seq(Byte), Len(r) >= 8, Len(s) >= 8, r[8] = s[8]
  PROVE  Meta(r, "confirmation") = Meta(s, "confirmation")
<1>1. ByteAt(r, 7) = ByteAt(s, 7)
  BY LenProperties DEF ByteAt
<1> QED BY <1>1, TcpAssumption DEF Meta, Function

LEMMA SameData ==
  ASSUME NEW r \in Seq(Byte), NEW s \in Seq(Byte), Len(r) >= 9, Len(s) >= 9,
         r[8] = s[8], r[9] = s[9]
  PROVE  Data(r, "confirmation") = Data(s, "confirmation")
<1>1. ByteAt(r, 7) = ByteAt(s, 7) /\ ByteAt(r, 8) = ByteAt(s, 8)
  BY LenProperties DEF ByteAt
<1>2. CountAt(r, "confirmation") = 8 /\ CountAt(s, "confirmation") = 8
  BY TcpAssumption DEF CountAt
<1> QED BY <1>1, <1>2, TcpAssumption DEF Data, Function

\* The fields of the message as it goes on.
LEMMA ReadTyped ==
  ASSUME NEW m \in [bytes : Seq(Byte), step : {"function", "meta", "data"}, length_to_read : Nat],
         NEW new \in Seq(Byte), Len(new) <= m.length_to_read
  PROVE  /\ Read(m, new, "confirmation")
              \in [bytes : Seq(Byte), step : {"function", "meta", "data"}, length_to_read : Nat]
         /\ Read(m, new, "confirmation").bytes = m.bytes \o new
<1> DEFINE all  == m.bytes \o new
           left == m.length_to_read - Len(new)
           got  == Read(m, new, "confirmation")
           meta == Meta(all, "confirmation")
           data == Data(all, "confirmation")
<1>1. all \in Seq(Byte)
  BY ConcatProperties
<1>2. left \in Nat
  BY LenProperties
<1>3. meta \in Nat /\ data \in Nat
  <2>1. meta \in {1, 4} /\ data \in Nat
    BY <1>1, Lengths
  <2> QED BY <2>1
<1>4. \/ got = [m EXCEPT !.bytes = all, !.length_to_read = left]
      \/ got = [bytes |-> all, step |-> "meta", length_to_read |-> meta]
      \/ got = [bytes |-> all, step |-> "data", length_to_read |-> data]
  <2>1. got = CASE left > 0 \/ m.step = "data" -> [m EXCEPT !.bytes = all, !.length_to_read = left]
                [] left = 0 /\ m.step = "function" /\ meta # 0 ->
                     [bytes |-> all, step |-> "meta", length_to_read |-> meta]
                [] OTHER -> [bytes |-> all, step |-> "data", length_to_read |-> data]
    BY DEF Read
  <2> HIDE DEF all, left, got, meta, data
  <2> QED BY <2>1
<1> HIDE DEF all, left, got, meta, data
<1> DEFINE Typed == got \in [bytes : Seq(Byte), step : {"function", "meta", "data"}, length_to_read : Nat]
                    /\ got.bytes = all
<1>5. got = [m EXCEPT !.bytes = all, !.length_to_read = left] => Typed
  BY <1>1, <1>2
<1>6. got = [bytes |-> all, step |-> "meta", length_to_read |-> meta] => Typed
  BY <1>1, <1>3
<1>7. got = [bytes |-> all, step |-> "data", length_to_read |-> data] => Typed
  BY <1>1, <1>3
<1>8. Typed
  BY <1>4, <1>5, <1>6, <1>7
<1> QED BY <1>8 DEF got, all

\* Each recv keeps to it.
LEMMA ReadFramed ==
  ASSUME NEW m, Fitting(m), Framed(m), NEW new \in Seq(Byte), Len(new) <= m.length_to_read
  PROVE  Framed(Read(m, new, "confirmation"))
<1> DEFINE all  == m.bytes \o new
           left == m.length_to_read - Len(new)
           got  == Read(m, new, "confirmation")
           meta == Meta(all, "confirmation")
           data == Data(all, "confirmation")
<1>1. m \in [bytes : Seq(Byte), step : {"function", "meta", "data"}, length_to_read : Nat]
      /\ (m.step = "function" => Len(m.bytes) + m.length_to_read = 8)
  BY TcpAssumption DEF Fitting
<1>2. /\ all \in Seq(Byte) /\ Len(all) = Len(m.bytes) + Len(new)
      /\ \A i \in 1 .. Len(m.bytes) + Len(new) :
           all[i] = IF i <= Len(m.bytes) THEN m.bytes[i] ELSE new[i - Len(m.bytes)]
  BY <1>1, ConcatProperties
<1>3. Len(m.bytes) \in Nat /\ Len(new) \in Nat /\ Len(all) \in Nat
  BY <1>1, <1>2, LenProperties
<1>4. left \in Nat /\ Len(all) + left = Len(m.bytes) + m.length_to_read
  BY <1>1, <1>2, <1>3
<1>5. meta \in {1, 4} /\ data \in Nat
  BY <1>2, Lengths
<1>6. FrameLength(all) = 8 + meta + data
  BY DEF FrameLength
<1>7. m.step # "function" => Len(m.bytes) >= 8 /\ meta = Meta(m.bytes, "confirmation")
  <2> SUFFICES ASSUME m.step # "function" PROVE Len(m.bytes) >= 8 /\ meta = Meta(m.bytes, "confirmation")
    OBVIOUS
  <2>1. Len(m.bytes) >= 8
    BY DEF Framed
  <2>2. Len(all) >= 8 /\ all[8] = m.bytes[8]
    BY <1>2, <1>3, <2>1
  <2> QED BY <1>1, <1>2, <2>1, <2>2, SameMeta
<1>8. m.step = "data" => data = Data(m.bytes, "confirmation")
  <2> SUFFICES ASSUME m.step = "data" PROVE data = Data(m.bytes, "confirmation")
    OBVIOUS
  <2>1. Len(m.bytes) >= 8 + meta
    BY <1>7 DEF Framed
  <2>2. Len(m.bytes) >= 9 /\ Len(all) >= 9 /\ all[8] = m.bytes[8] /\ all[9] = m.bytes[9]
    BY <1>2, <1>3, <1>5, <2>1
  <2> QED BY <1>1, <1>2, <2>2, SameData
<1>9. \/ got = [m EXCEPT !.bytes = all, !.length_to_read = left]
      \/ /\ left = 0 /\ m.step = "function"
         /\ got = [bytes |-> all, step |-> "meta", length_to_read |-> meta]
      \/ /\ left = 0 /\ m.step = "meta"
         /\ got = [bytes |-> all, step |-> "data", length_to_read |-> data]
  <2>1. got = CASE left > 0 \/ m.step = "data" -> [m EXCEPT !.bytes = all, !.length_to_read = left]
                [] left = 0 /\ m.step = "function" /\ meta # 0 ->
                     [bytes |-> all, step |-> "meta", length_to_read |-> meta]
                [] OTHER -> [bytes |-> all, step |-> "data", length_to_read |-> data]
    BY DEF Read
  <2>2. (left > 0 \/ left = 0) /\ meta # 0
    BY <1>4, <1>5
  <2>3. m.step \in {"function", "meta", "data"}
    BY <1>1
  <2> HIDE DEF all, left, got, meta, data
  <2> QED BY <2>1, <2>2, <2>3
<1> HIDE DEF all, left, got, meta, data
<1>10. CASE got = [m EXCEPT !.bytes = all, !.length_to_read = left]
  <2>1. got.bytes = all /\ got.length_to_read = left /\ got.step = m.step
    BY <1>1, <1>10
  <2>2. m.step # "function" => Len(all) >= 8
    BY <1>2, <1>3, <1>7
  <2>3. m.step = "meta" => Len(all) + left = 8 + meta
    BY <1>4, <1>7 DEF Framed
  <2>4. m.step = "data" => Len(all) >= 8 + meta /\ Len(all) + left = FrameLength(all)
    <3> SUFFICES ASSUME m.step = "data" PROVE Len(all) >= 8 + meta /\ Len(all) + left = FrameLength(all)
      OBVIOUS
    <3>1. Len(m.bytes) >= 8 + meta /\ Len(m.bytes) + m.length_to_read = FrameLength(m.bytes)
      BY <1>7 DEF Framed
    <3>2. FrameLength(m.bytes) = 8 + meta + data
      BY <1>7, <1>8 DEF FrameLength
    <3> QED BY <1>2, <1>3, <1>4, <1>5, <1>6, <3>1, <3>2
  <2>5. Framed(got)
    BY <2>1, <2>2, <2>3, <2>4 DEF Framed, meta
  <2> QED BY <2>5 DEF got
<1>11. CASE /\ left = 0 /\ m.step = "function"
            /\ got = [bytes |-> all, step |-> "meta", length_to_read |-> meta]
  <2>1. Len(all) = 8
    BY <1>1, <1>3, <1>4, <1>11
  <2>2. got.bytes = all /\ got.step = "meta" /\ got.length_to_read = Meta(all, "confirmation")
    BY <1>11 DEF meta
  <2>3. Len(all) >= 8 /\ Len(all) + Meta(all, "confirmation") = 8 + Meta(all, "confirmation")
    BY <1>5, <2>1 DEF meta
  <2>4. Framed(got)
    BY <2>2, <2>3 DEF Framed
  <2> QED BY <2>4 DEF got
<1>12. CASE /\ left = 0 /\ m.step = "meta"
            /\ got = [bytes |-> all, step |-> "data", length_to_read |-> data]
  <2>1. Len(all) + left = 8 + meta
    BY <1>4, <1>7, <1>12 DEF Framed
  <2>2. Len(all) = 8 + meta
    BY <1>3, <1>12, <2>1
  <2>3. Len(all) >= 8 /\ Len(all) + data = FrameLength(all)
    BY <1>5, <1>6, <2>2
  <2>4. Len(all) >= 8 + Meta(all, "confirmation")
    BY <1>3, <2>2 DEF meta
  <2>5. got.bytes = all /\ got.step = "data" /\ got.length_to_read = data
    BY <1>12
  <2>6. Framed(got)
    BY <2>3, <2>4, <2>5 DEF Framed
  <2> QED BY <2>6 DEF got
<1> QED BY <1>9, <1>10, <1>11, <1>12

\* s is the beginning of t.
Begins(s, t) == Len(s) <= Len(t) /\ \A i \in 1 .. Len(s) : s[i] = t[i]

\* So a message that is the beginning of the answer is the whole of it when it is
\* complete, and never too long.
LEMMA WholeAnswer ==
  ASSUME NEW t \in Identifiers, NEW p \in PDU,
         NEW m, m \in [bytes : Seq(Byte), step : {"function", "meta", "data"}, length_to_read : Nat],
         Framed(m), Begins(m.bytes, AnswerTo(t, p))
  PROVE  ~TooLong(m) /\ (Complete(m) => m.bytes = AnswerTo(t, p))
<1> DEFINE b == AnswerTo(t, p)
           s == m.bytes
<1>1. b \in Seq(Byte) /\ s \in Seq(Byte)
  BY AnswerParts
<1>2. Len(b) \in Nat /\ Len(s) \in Nat /\ m.length_to_read \in Nat
  BY <1>1, LenProperties
<1>3. Len(b) = FrameLength(b) /\ Len(b) <= adu_max
  BY AnswerFrame
<1> HIDE DEF b
<1>4. ASSUME m.step = "data" PROVE Len(s) + m.length_to_read = Len(b)
  <2>1. Len(s) >= 8 + Meta(s, "confirmation") /\ Len(s) + m.length_to_read = FrameLength(s)
    BY <1>4 DEF Framed
  <2>2. Meta(s, "confirmation") \in {1, 4}
    BY <1>1, Lengths
  <2>3. Len(s) >= 9 /\ Len(b) >= 9 /\ s[8] = b[8] /\ s[9] = b[9]
    BY <1>2, <2>1, <2>2 DEF Begins, b
  <2>4. FrameLength(s) = FrameLength(b)
    BY <1>1, <1>2, <2>3, SameMeta, SameData DEF FrameLength
  <2> QED BY <1>3, <2>1, <2>4
<1>5. ~TooLong(m)
  BY <1>2, <1>3, <1>4, TcpAssumption DEF TooLong
<1>6. ASSUME Complete(m) PROVE s = b
  <2>1. Len(s) = Len(b)
    BY <1>2, <1>4, <1>6 DEF Complete
  <2>2. \A i \in 1 .. Len(s) : s[i] = b[i]
    BY DEF Begins, b
  <2> QED BY <1>1, <2>1, <2>2, SeqEqual
<1> QED BY <1>5, <1>6 DEF b

\* What one recv takes is a part of what has arrived.
LEMMA TakenParts ==
  ASSUME NEW m, Fitting(m), NEW s \in Seq(Byte)
  PROVE  /\ SubSeq(s, 1, Taken(m, Len(s))) \in Seq(Byte)
         /\ Len(SubSeq(s, 1, Taken(m, Len(s)))) <= m.length_to_read
         /\ SubSeq(s, Taken(m, Len(s)) + 1, Len(s)) \in Seq(Byte)
<1>1. PICK n : n = Taken(m, Len(s))
  OBVIOUS
<1>2. m.length_to_read \in Nat /\ Len(s) \in Nat
  BY LenProperties DEF Fitting
<1>3. n \in Nat /\ n <= Len(s) /\ n <= m.length_to_read
  BY <1>1, <1>2 DEF Taken
<1>4. \A i \in 1 .. Len(s) : s[i] \in Byte
  BY ElementOfSeq
<1>5. SubSeq(s, 1, n) \in Seq(Byte) /\ Len(SubSeq(s, 1, n)) = IF 1 <= n THEN n - 1 + 1 ELSE 0
  <2>1. \A i \in 1 .. n : i \in 1 .. Len(s)
    BY <1>2, <1>3
  <2>2. n \in Int /\ \A i \in 1 .. n : s[i] \in Byte
    BY <2>1, <1>3, <1>4
  <2> QED BY <2>2, SubSeqProperties
<1>6. SubSeq(s, n + 1, Len(s)) \in Seq(Byte)
  <2>1. \A i \in n + 1 .. Len(s) : i \in 1 .. Len(s)
    BY <1>2, <1>3
  <2>2. n + 1 \in Int /\ Len(s) \in Int /\ \A i \in n + 1 .. Len(s) : s[i] \in Byte
    BY <2>1, <1>2, <1>3, <1>4
  <2> QED BY <2>2, SubSeqProperties
<1>7. Len(SubSeq(s, 1, n)) <= m.length_to_read
  BY <1>2, <1>3, <1>5
<1> QED BY <1>1, <1>5, <1>6, <1>7

-----------------------------------------------------------------------------
(* The requests under way.                                                   *)

NoneOwn(s)   == \A i \in 1 .. Len(s) : ~s[i].own
AtMostOne(s) == \A i, j \in 1 .. Len(s) : s[i].own /\ s[j].own => i = j

LEMMA EmptyQueue == <<>> \in Seq(Sent) /\ NoneOwn(<<>>) /\ AtMostOne(<<>>)
BY EmptySeq DEF NoneOwn, AtMostOne

LEMMA NoneIsOne == ASSUME NEW s, NoneOwn(s) PROVE AtMostOne(s)
BY DEF NoneOwn, AtMostOne

LEMMA AppendOwn ==
  ASSUME NEW s \in Seq(Sent), NoneOwn(s), NEW e \in Sent
  PROVE  Append(s, e) \in Seq(Sent) /\ AtMostOne(Append(s, e))
<1>1. /\ Append(s, e) \in Seq(Sent) /\ Len(Append(s, e)) = Len(s) + 1 /\ Len(s) \in Nat
      /\ \A i \in 1 .. Len(s) : Append(s, e)[i] = s[i]
  BY AppendProperties, LenProperties
<1> DEFINE t == Append(s, e)
<1>2. \A i \in 1 .. Len(t) : t[i].own => i = Len(s) + 1
  <2> SUFFICES ASSUME NEW i \in 1 .. Len(t), i # Len(s) + 1 PROVE ~t[i].own
    OBVIOUS
  <2>1. i \in 1 .. Len(s)
    BY <1>1
  <2> QED BY <1>1, <2>1 DEF NoneOwn
<1> QED BY <1>1, <1>2 DEF AtMostOne

LEMMA TailOwn ==
  ASSUME NEW s \in Seq(Sent), s # <<>>, AtMostOne(s)
  PROVE  /\ Head(s) \in Sent /\ Tail(s) \in Seq(Sent) /\ AtMostOne(Tail(s))
         /\ Head(s).own => NoneOwn(Tail(s))
         /\ NoneOwn(s) => ~Head(s).own /\ NoneOwn(Tail(s))
<1> DEFINE t == Tail(s)
<1>1. /\ Head(s) \in Sent /\ t \in Seq(Sent) /\ Len(t) = Len(s) - 1
      /\ \A i \in 1 .. Len(t) : t[i] = s[i + 1]
  BY HeadTailProperties
<1>2. Len(s) \in Nat /\ Len(t) \in Nat
  BY <1>1, LenProperties
<1>3. 1 \in 1 .. Len(s) /\ \A i \in 1 .. Len(t) : i + 1 \in 1 .. Len(s) /\ i + 1 # 1
  BY <1>1, <1>2
<1>4. Head(s) = s[1]
  OBVIOUS
<1>5. \A i, j \in 1 .. Len(t) : i + 1 = j + 1 => i = j
  OBVIOUS
<1> HIDE DEF t
<1>6. AtMostOne(t)
  BY <1>1, <1>3, <1>5 DEF AtMostOne
<1>7. Head(s).own => NoneOwn(t)
  BY <1>1, <1>3, <1>4 DEF AtMostOne, NoneOwn
<1>8. NoneOwn(s) => ~Head(s).own /\ NoneOwn(t)
  BY <1>1, <1>3, <1>4 DEF NoneOwn
<1> QED BY <1>1, <1>6, <1>7, <1>8 DEF t

Disowned(s) == [i \in DOMAIN s |-> [s[i] EXCEPT !.own = FALSE]]

LEMMA DisownedSeq ==
  ASSUME NEW s \in Seq(Sent) PROVE Disowned(s) \in Seq(Sent) /\ NoneOwn(Disowned(s))
<1>1. DOMAIN s = 1 .. Len(s) /\ Len(s) \in Nat /\ \A i \in 1 .. Len(s) : s[i] \in Sent
  BY LenProperties, ElementOfSeq
<1>2. \A b \in Sent : [b EXCEPT !.own = FALSE] \in Sent /\ [b EXCEPT !.own = FALSE].own = FALSE
  BY DEF Sent
<1>3. \A i \in 1 .. Len(s) : Disowned(s)[i] = [s[i] EXCEPT !.own = FALSE]
  BY <1>1, Zenon DEF Disowned
<1>4. Disowned(s) \in [1 .. Len(s) -> Sent]
  BY <1>1, <1>2, Zenon DEF Disowned
<1>5. Disowned(s) \in Seq(Sent) /\ Len(Disowned(s)) = Len(s)
  BY <1>1, <1>4, FunctionSeq
<1>6. \A i \in 1 .. Len(s) : ~Disowned(s)[i].own
  BY <1>1, <1>2, <1>3
<1> QED BY <1>5, <1>6 DEF NoneOwn

-----------------------------------------------------------------------------
(* The inductive invariant, in parts that are as often as not left alone.    *)

Client_OK  == /\ pc \in {"idle", "send", "receive", "flush"}
              /\ tId \in 0 .. TidCount - 1
              /\ request.tid \in 0 .. TidCount - 1 /\ request.pdu \in Pdus \cup {<<>>}
              /\ result.rc \in {"none", "failed"} \cup Ok /\ result.own \in BOOLEAN
Net_OK     == link \in {"up", "broken", "closed"} /\ listening \in BOOLEAN
Bounds_OK  == recovery \in Modes /\ faults \in 0 .. MaxFaults
Streams_OK == reqs \in Seq(Sent) /\ wire \in Seq(Byte) /\ sock \in Seq(Byte)
Own_OK     == /\ AtMostOne(reqs) /\ served \in {0, 1}
              /\ served # 0 \/ pc = "send" => NoneOwn(reqs)
              /\ pc = "send" => served = 0 /\ request.pdu \in Pdus
Core       == Client_OK /\ Net_OK /\ Bounds_OK /\ Streams_OK /\ Fitting(rx) /\ Own_OK

LEMMA CoreParts == TypeOK /\ StreamInv /\ OwnOne /\ ExecutedOnce <=> Core
<1>1. ASSUME TypeOK /\ StreamInv /\ OwnOne /\ ExecutedOnce PROVE Core
  <2>1. served \in {0, 1}
    BY <1>1 DEF TypeOK, ExecutedOnce
  <2>2. Client_OK /\ Net_OK /\ Bounds_OK
    BY <1>1 DEF TypeOK, Client_OK, Net_OK, Bounds_OK
  <2>3. Streams_OK /\ Fitting(rx)
    BY <1>1 DEF StreamInv, Streams_OK, Sent
  <2>4. Own_OK
    BY <1>1, <2>1 DEF OwnOne, Own_OK, AtMostOne, NoneOwn
  <2> QED BY <2>2, <2>3, <2>4 DEF Core
<1>2. ASSUME Core PROVE TypeOK /\ StreamInv /\ OwnOne /\ ExecutedOnce
  <2>1. StreamInv
    BY <1>2 DEF Core, StreamInv, Streams_OK, Sent
  <2>2. OwnOne
    BY <1>2 DEF Core, OwnOne, Own_OK, AtMostOne, NoneOwn
  <2>3. served \in {0, 1} /\ served \in 0 .. 2 /\ ExecutedOnce
    BY <1>2 DEF Core, Own_OK, ExecutedOnce
  <2>4. rx.step \in {"function", "meta", "data"} /\ Len(rx.bytes) <= adu_max
    <3>1. Fitting(rx)
      BY <1>2 DEF Core
    <3>2. rx.step \in {"function", "meta", "data"}
      BY <3>1 DEF Fitting
    <3> QED BY <3>1, <3>2, FittingShort
  <2>5. \A b \in {wire[i] : i \in DOMAIN wire} \cup {sock[i] : i \in DOMAIN sock} : b \in Byte
    <3>1. wire \in Seq(Byte) /\ sock \in Seq(Byte)
      BY <1>2 DEF Core, Streams_OK
    <3>2. DOMAIN wire = 1 .. Len(wire) /\ DOMAIN sock = 1 .. Len(sock)
      BY <3>1, LenProperties
    <3> QED BY <3>1, <3>2, ElementOfSeq
  <2>6. TypeOK
    BY <1>2, <2>3, <2>4, <2>5 DEF Core, Client_OK, Net_OK, Bounds_OK, TypeOK, Byte
  <2> QED BY <2>1, <2>2, <2>3, <2>6
<1> QED BY <1>1, <1>2

LEMMA FirstTid == 0 \in 0 .. TidCount - 1
BY SessionAssumption

LEMMA TidsAreWords == \A t \in 0 .. TidCount - 1 : t \in Identifiers
<1> SUFFICES ASSUME NEW t \in 0 .. TidCount - 1 PROVE t \in Identifiers
  OBVIOUS
<1>1. TidCount \in Nat /\ TidCount <= 65536
  BY SessionAssumption
<1>2. t \in Nat /\ t <= 65535
  BY <1>1
<1> QED BY <1>2 DEF Identifiers

LEMMA InitSession == SessionInit => Core
<1> SUFFICES ASSUME SessionInit PROVE Core
  OBVIOUS
<1>1. Client_OK
  BY FirstTid DEF SessionInit, Client_OK, NoResult
<1>2. Net_OK /\ Bounds_OK
  BY SessionAssumption DEF SessionInit, Net_OK, Bounds_OK
<1>3. Streams_OK
  BY EmptyQueue DEF SessionInit, Streams_OK
<1>4. Fitting(rx)
  BY NewFits DEF SessionInit
<1>5. Own_OK
  BY EmptyQueue DEF SessionInit, Own_OK
<1> QED BY <1>1, <1>2, <1>3, <1>4, <1>5 DEF Core

\* What a step leaves alone.
LEMMA KeepClient == ASSUME Client_OK, UNCHANGED clientVars PROVE Client_OK'
BY DEF Client_OK, clientVars
LEMMA KeepNet == ASSUME Net_OK, UNCHANGED <<link, listening>> PROVE Net_OK'
BY DEF Net_OK
LEMMA KeepBounds == ASSUME Bounds_OK, UNCHANGED <<recovery, faults>> PROVE Bounds_OK'
BY DEF Bounds_OK
LEMMA KeepStreams == ASSUME Streams_OK, UNCHANGED <<reqs, wire, sock>> PROVE Streams_OK'
BY DEF Streams_OK
LEMMA KeepRx == ASSUME Fitting(rx), UNCHANGED rx PROVE Fitting(rx)'
BY DEF Fitting
LEMMA KeepOwn ==
  ASSUME Own_OK, UNCHANGED <<reqs, served, request>>, pc' # "send" \/ UNCHANGED pc
  PROVE  Own_OK'
BY DEF Own_OK, AtMostOne, NoneOwn

\* A step after which no request is under way.
LEMMA NoRequests ==
  ASSUME Own_OK, reqs' = <<>>, UNCHANGED <<served, request>>, pc' # "send" \/ UNCHANGED pc
  PROVE  Own_OK'
<1>1. AtMostOne(<<>>) /\ NoneOwn(<<>>)
  BY EmptyQueue
<1>2. AtMostOne(reqs)' /\ NoneOwn(reqs)'
  BY <1>1 DEF AtMostOne, NoneOwn
<1> QED BY <1>2 DEF Own_OK

LEMMA CountFault ==
  ASSUME Bounds_OK, UNCHANGED recovery, Fault \/ UNCHANGED faults
  PROVE  Bounds_OK'
BY SessionAssumption DEF Bounds_OK, Fault

-----------------------------------------------------------------------------
(* The steps of the client.                                                  *)

LEMMA CallStep == ASSUME Core, Call, UNCHANGED recovery PROVE Core'
<1> USE DEF Call
<1>1. PICK pdu \in Pdus :
        /\ tId' = NextTid
        /\ request' = [tid |-> tId', function |-> pdu[1], nb |-> 256 * pdu[4] + pdu[5], pdu |-> pdu]
  OBVIOUS
<1>2. NextTid \in 0 .. TidCount - 1
  BY SessionAssumption DEF Core, Client_OK, NextTid
<1>3. request'.tid \in 0 .. TidCount - 1 /\ request'.pdu \in Pdus
  BY <1>1, <1>2
<1>4. Client_OK'
  BY <1>1, <1>2, <1>3 DEF Client_OK, NoResult
<1>5. Disowned(reqs) \in Seq(Sent) /\ NoneOwn(Disowned(reqs)) /\ reqs' = Disowned(reqs)
  BY DisownedSeq DEF Core, Streams_OK, Disowned
<1>6. Streams_OK'
  BY <1>5, AgedSeq DEF Core, Streams_OK
<1>7. NoneOwn(reqs)' /\ AtMostOne(reqs)'
  BY <1>5, NoneIsOne DEF NoneOwn, AtMostOne
<1>8. Own_OK'
  BY <1>3, <1>7 DEF Own_OK
<1> QED BY <1>4, <1>6, <1>8, KeepNet, KeepBounds, KeepRx DEF Core

LEMMA SendStep == ASSUME Core, Send, UNCHANGED recovery PROVE Core'
<1> USE DEF Send
<1>1. Client_OK'
  BY DEF Core, Client_OK
<1>2. Fitting(rx)'
  BY NewFits DEF Fitting
<1> DEFINE own == [tid |-> request.tid, pdu |-> request.pdu, own |-> TRUE]
<1>3. own \in Sent /\ NoneOwn(reqs) /\ served = 0 /\ reqs \in Seq(Sent)
  BY DEF Core, Client_OK, Own_OK, Streams_OK, Sent
<1>4. reqs' = reqs \/ reqs' = Append(reqs, own)
  OBVIOUS
<1> HIDE DEF own
<1>5. reqs' \in Seq(Sent) /\ AtMostOne(reqs')
  BY <1>3, <1>4, AppendOwn, NoneIsOne
<1>6. Streams_OK' /\ Own_OK'
  BY <1>3, <1>5 DEF Core, Streams_OK, Own_OK, AtMostOne
<1> QED BY <1>1, <1>2, <1>6, KeepNet, KeepBounds DEF Core

\* modbus_close and modbus_connect leave nothing of the old connection.
LEMMA ReconnectStep ==
  ASSUME Core, Reconnect, UNCHANGED <<listening, served, request>>, pc' # "send" \/ UNCHANGED pc
  PROVE  Net_OK' /\ Streams_OK' /\ Own_OK'
<1>1. Net_OK'
  BY DEF Core, Net_OK, Reconnect
<1>2. Streams_OK'
  BY EmptyQueue, EmptySeq DEF Reconnect, Streams_OK
<1>3. Own_OK'
  BY NoRequests DEF Core, Reconnect
<1> QED BY <1>1, <1>2, <1>3

\* A call that fails, and what it does next.
LEMMA FailStep ==
  ASSUME Core, NEW next \in {"idle", "flush"}, Fail(next), UNCHANGED <<tId, request>>
  PROVE  Client_OK' /\ pc' # "send"
BY DEF Core, Client_OK, Fail

LEMMA SendFailsStep == ASSUME Core, SendFails, UNCHANGED recovery PROVE Core'
<1> USE DEF SendFails
<1>1. Fitting(rx)' /\ Bounds_OK'
  BY KeepRx, KeepBounds DEF Core
<1>2. CASE "link" \in recovery
  <2>1. Client_OK'
    BY <1>2, KeepClient DEF Core, Client_OK
  <2> QED BY <1>1, <1>2, <2>1, ReconnectStep DEF Core
<1>3. CASE "link" \notin recovery
  <2>1. Client_OK' /\ pc' # "send"
    BY <1>3, FailStep
  <2>2. Streams_OK' /\ Own_OK'
    BY <1>3, <2>1, KeepStreams, KeepOwn DEF Core
  <2>3. Net_OK'
    BY <1>3 DEF Core, Net_OK
  <2> QED BY <1>1, <2>1, <2>2, <2>3 DEF Core
<1> QED BY <1>2, <1>3

LEMMA ReopenStep == ASSUME Core, Reopen, UNCHANGED recovery PROVE Core'
<1> USE DEF Reopen, clientVars
<1>1. Fitting(rx)' /\ Bounds_OK' /\ Client_OK'
  BY KeepRx, KeepBounds, KeepClient DEF Core
<1> QED BY <1>1, ReconnectStep DEF Core

\* A complete message ends the call, or has the client flush.
LEMMA CheckedStep ==
  ASSUME Core, NEW bytes, Checked(bytes), UNCHANGED <<tId, request>>
  PROVE  Client_OK' /\ pc' # "send"
<1> DEFINE c == Confirmation(request, bytes, WordAt(bytes, 0))
<1>1. CASE c.errno = "EMBBADDATA"
  <2>1. Fail(IF "protocol" \in recovery THEN "flush" ELSE "idle")
    BY <1>1, Zenon DEF Checked
  <2>2. (IF "protocol" \in recovery THEN "flush" ELSE "idle") \in {"idle", "flush"}
    OBVIOUS
  <2> QED BY <2>1, <2>2, FailStep
<1>2. CASE c.errno # "EMBBADDATA"
  <2>1. pc' = "idle"
        /\ result' = [rc |-> IF c.rc = -1 THEN "exception" ELSE "ok", own |-> bytes = OwnAdu]
    BY <1>2, Zenon DEF Checked
  <2> HIDE DEF c
  <2>2. result'.rc \in Ok /\ result'.own \in BOOLEAN
    BY <2>1 DEF Ok
  <2> QED BY <2>1, <2>2 DEF Core, Client_OK
<1> QED BY <1>1, <1>2

LEMMA ReceiveStep == ASSUME Core, Receive, UNCHANGED recovery PROVE Core'
<1> DEFINE n   == Taken(rx, Len(sock))
           new == SubSeq(sock, 1, n)
           got == Read(rx, new, "confirmation")
<1>1. /\ sock' = SubSeq(sock, n + 1, Len(sock))
      /\ rx' = IF TooLong(got) \/ Complete(got) THEN NewMessage ELSE got
      /\ \/ TooLong(got) /\ Fail("idle")
         \/ Complete(got) /\ Checked(got.bytes)
         \/ ~TooLong(got) /\ ~Complete(got) /\ UNCHANGED <<pc, result>>
      /\ pc = "receive"
      /\ UNCHANGED <<tId, request, link, listening, reqs, wire, served, faults>>
  BY DEF Receive
<1>2. sock \in Seq(Byte) /\ Fitting(rx)
  BY DEF Core, Streams_OK
<1>3. new \in Seq(Byte) /\ Len(new) <= rx.length_to_read /\ sock' \in Seq(Byte)
  BY <1>1, <1>2, TakenParts
<1>4. TooLong(got) \/ Fitting(got)
  BY <1>2, <1>3, ReadFits
<1> HIDE DEF n, new, got
<1>5. Fitting(rx')
  BY <1>1, <1>4, NewFits
<1>6. Client_OK' /\ pc' # "send"
  <2>1. CASE Fail("idle")
    BY <1>1, <2>1, FailStep
  <2>2. CASE Checked(got.bytes)
    BY <1>1, <2>2, CheckedStep
  <2>3. CASE UNCHANGED <<pc, result>>
    BY <1>1, <2>3 DEF Core, Client_OK
  <2> QED BY <1>1, <2>1, <2>2, <2>3
<1>7. Streams_OK'
  BY <1>1, <1>3 DEF Core, Streams_OK
<1>8. Own_OK'
  BY <1>1, <1>6, KeepOwn DEF Core
<1>9. Net_OK' /\ Bounds_OK' /\ Fitting(rx)'
  BY <1>1, <1>5, KeepNet, KeepBounds DEF Core, Fitting
<1> QED BY <1>6, <1>7, <1>8, <1>9 DEF Core

LEMMA ReceiveEndStep == ASSUME Core, ReceiveEnd, UNCHANGED recovery PROVE Core'
<1> USE DEF ReceiveEnd
<1>1. Fitting(rx)'
  BY NewFits DEF Fitting
<1>2. Client_OK' /\ pc' # "send"
  BY FailStep
<1>3. Bounds_OK'
  BY KeepBounds DEF Core
<1>4. Net_OK' /\ Streams_OK' /\ Own_OK'
  <2>1. CASE "link" \in recovery
    BY <1>2, <2>1, ReconnectStep
  <2>2. CASE "link" \notin recovery
    BY <1>2, <2>2, KeepNet, KeepStreams, KeepOwn DEF Core
  <2> QED BY <2>1, <2>2
<1> QED BY <1>1, <1>2, <1>3, <1>4 DEF Core

LEMMA TimeoutStep == ASSUME Core, Timeout, UNCHANGED recovery PROVE Core'
<1> USE DEF Timeout, netVars
<1>1. Fitting(rx)'
  BY NewFits DEF Fitting
<1>2. Client_OK' /\ pc' # "send"
  <2>1. (IF "link" \in recovery THEN "flush" ELSE "idle") \in {"idle", "flush"}
    OBVIOUS
  <2> QED BY <2>1, FailStep
<1>3. Bounds_OK'
  BY CountFault DEF Core
<1>4. Net_OK' /\ Streams_OK' /\ Own_OK'
  BY <1>2, KeepNet, KeepStreams, KeepOwn DEF Core
<1> QED BY <1>1, <1>2, <1>3, <1>4 DEF Core

LEMMA FlushStep == ASSUME Core, Flush, UNCHANGED recovery PROVE Core'
<1> USE DEF Flush
<1>1. Fitting(rx)' /\ Net_OK'
  BY KeepRx, KeepNet DEF Core
<1>2. Client_OK' /\ pc' # "send"
  BY DEF Core, Client_OK
<1>3. Bounds_OK'
  BY CountFault DEF Core
<1>4. Streams_OK'
  BY EmptySeq DEF Core, Streams_OK
<1>5. Own_OK'
  BY <1>2, KeepOwn DEF Core
<1> QED BY <1>1, <1>2, <1>3, <1>4, <1>5 DEF Core

-----------------------------------------------------------------------------
(* The steps of the server, of the network and of faults.                    *)

LEMMA ServeStep == ASSUME Core, Serve, UNCHANGED recovery PROVE Core'
<1> USE DEF Serve, clientVars
<1> DEFINE q == Head(reqs)
<1>1. reqs \in Seq(Sent) /\ wire \in Seq(Byte) /\ AtMostOne(reqs) /\ reqs # <<>>
  BY DEF Core, Streams_OK, Own_OK
<1>2. /\ q \in Sent /\ reqs' \in Seq(Sent) /\ AtMostOne(reqs')
      /\ q.own => NoneOwn(reqs')
      /\ NoneOwn(reqs) => ~q.own /\ NoneOwn(reqs')
  BY <1>1, TailOwn
<1>3. wire' \in Seq(Byte)
  <2>1. q.tid \in Identifiers /\ q.pdu \in PDU /\ q.own \in BOOLEAN
    BY <1>2, TidsAreWords, SessionAssumption DEF Sent
  <2> DEFINE answer == Adu(q.tid, AnswerPdu(q.pdu))
  <2>2. answer \in Seq(Values)
    BY <2>1, AnswerSeq, AduSeq
  <2>3. Bytes(answer, q.own) \in Seq(Byte)
    BY <2>1, <2>2, BytesSeq
  <2>4. wire' = wire \o Bytes(answer, q.own)
    OBVIOUS
  <2> HIDE DEF answer, q
  <2> QED BY <1>1, <2>3, <2>4, ConcatProperties
<1>4. Streams_OK'
  BY <1>2, <1>3 DEF Core, Streams_OK
<1>5. Own_OK'
  <2>1. /\ served' = served + IF q.own THEN 1 ELSE 0
        /\ UNCHANGED <<pc, request>>
    OBVIOUS
  <2>2. Own_OK
    BY DEF Core
  <2>3. served' \in {0, 1} /\ (served' # 0 => NoneOwn(reqs'))
    <3>1. CASE q.own
      <4>1. served = 0
        BY <1>2, <2>2, <3>1 DEF Own_OK
      <4> QED BY <1>2, <2>1, <3>1, <4>1
    <3>2. CASE ~q.own
      <4>1. served \in {0, 1} /\ (served # 0 => NoneOwn(reqs))
        BY <2>2 DEF Own_OK
      <4>2. served' = served
        BY <2>1, <3>2, <4>1
      <4> QED BY <1>2, <4>1, <4>2
    <3> QED BY <3>1, <3>2
  <2>4. pc' = "send" => served' = 0 /\ request'.pdu \in Pdus /\ NoneOwn(reqs')
    <3> SUFFICES ASSUME pc = "send" PROVE served' = 0 /\ request.pdu \in Pdus /\ NoneOwn(reqs')
      BY <2>1
    <3>1. served = 0 /\ request.pdu \in Pdus /\ NoneOwn(reqs)
      BY <2>2 DEF Own_OK
    <3> QED BY <1>2, <2>1, <3>1
  <2> HIDE DEF q
  <2> QED BY <1>2, <2>3, <2>4 DEF Own_OK, AtMostOne, NoneOwn
<1> QED BY <1>4, <1>5, KeepClient, KeepNet, KeepBounds, KeepRx DEF Core

LEMMA SplitSeq ==
  ASSUME NEW s \in Seq(Byte), NEW n \in 1 .. Len(s)
  PROVE  SubSeq(s, 1, n) \in Seq(Byte) /\ SubSeq(s, n + 1, Len(s)) \in Seq(Byte)
<1>1. Len(s) \in Nat /\ \A i \in 1 .. Len(s) : s[i] \in Byte
  BY LenProperties, ElementOfSeq
<1>2. \A i \in 1 .. n : i \in 1 .. Len(s)
  BY <1>1
<1>3. \A i \in n + 1 .. Len(s) : i \in 1 .. Len(s)
  BY <1>1
<1>4. n \in Int /\ n + 1 \in Int /\ Len(s) \in Int
  BY <1>1
<1>5. \A i \in 1 .. n : s[i] \in Byte
  BY <1>1, <1>2
<1>6. \A i \in n + 1 .. Len(s) : s[i] \in Byte
  BY <1>1, <1>3
<1> QED BY <1>4, <1>5, <1>6, SubSeqProperties

LEMMA ArriveStep == ASSUME Core, Arrive, UNCHANGED recovery PROVE Core'
<1> USE DEF Arrive, clientVars
<1>1. PICK n \in 1 .. Len(wire) : /\ sock' = sock \o SubSeq(wire, 1, n)
                                  /\ wire' = SubSeq(wire, n + 1, Len(wire))
  OBVIOUS
<1>2. wire \in Seq(Byte) /\ sock \in Seq(Byte)
  BY DEF Core, Streams_OK
<1>3. SubSeq(wire, 1, n) \in Seq(Byte) /\ wire' \in Seq(Byte)
  BY <1>1, <1>2, SplitSeq
<1>4. sock' \in Seq(Byte)
  BY <1>1, <1>2, <1>3, ConcatProperties
<1>5. Streams_OK'
  BY <1>3, <1>4 DEF Core, Streams_OK
<1>6. Own_OK'
  BY KeepOwn DEF Core
<1> QED BY <1>5, <1>6, KeepClient, KeepNet, KeepBounds, KeepRx DEF Core

LEMMA BreakStep == ASSUME Core, Break, UNCHANGED recovery PROVE Core'
<1> USE DEF Break, clientVars
<1>1. Client_OK' /\ Fitting(rx)' /\ Bounds_OK'
  BY KeepClient, KeepRx, CountFault DEF Core
<1>2. Net_OK'
  BY DEF Core, Net_OK
<1>3. Streams_OK'
  BY EmptyQueue, EmptySeq DEF Core, Streams_OK
<1>4. Own_OK'
  BY NoRequests DEF Core
<1> QED BY <1>1, <1>2, <1>3, <1>4 DEF Core

LEMMA RestoreStep == ASSUME Core, Restore, UNCHANGED recovery PROVE Core'
<1> USE DEF Restore, clientVars
<1>1. Client_OK' /\ Fitting(rx)' /\ Bounds_OK' /\ Streams_OK' /\ Own_OK'
  BY KeepClient, KeepRx, KeepBounds, KeepStreams, KeepOwn DEF Core
<1>2. Net_OK'
  BY DEF Core, Net_OK
<1> QED BY <1>1, <1>2 DEF Core

LEMMA Stutter == ASSUME Core, UNCHANGED vars PROVE Core'
<1> USE DEF vars, clientVars, netVars
<1>1. Client_OK' /\ Net_OK' /\ Bounds_OK'
  BY KeepClient, KeepNet, KeepBounds DEF Core
<1>2. Streams_OK' /\ Fitting(rx)' /\ Own_OK'
  BY KeepStreams, KeepRx, KeepOwn DEF Core
<1> QED BY <1>1, <1>2 DEF Core

-----------------------------------------------------------------------------
(* The order of the bytes under way.                                         *)

LEMMA EmptyOld == Old(<<>>)
BY EmptySeq DEF Old

LEMMA OldConcat ==
  ASSUME NEW s \in Seq(Byte), NEW t \in Seq(Byte), Old(s), Old(t) PROVE Old(s \o t)
<1>1. /\ Len(s) \in Nat /\ Len(t) \in Nat /\ Len(s \o t) = Len(s) + Len(t)
      /\ \A i \in 1 .. Len(s) + Len(t) : (s \o t)[i] = IF i <= Len(s) THEN s[i] ELSE t[i - Len(s)]
  BY LenProperties, ConcatProperties
<1> SUFFICES ASSUME NEW i \in 1 .. Len(s) + Len(t) PROVE ~(s \o t)[i].by
  BY <1>1 DEF Old
<1>2. CASE i <= Len(s)
  <2>1. i \in 1 .. Len(s)
    BY <1>1, <1>2
  <2> QED BY <1>1, <1>2, <2>1 DEF Old
<1>3. CASE ~(i <= Len(s))
  <2>1. i - Len(s) \in 1 .. Len(t)
    BY <1>1, <1>3
  <2> QED BY <1>1, <1>3, <2>1 DEF Old
<1> QED BY <1>2, <1>3

LEMMA AgedOld == ASSUME NEW s \in Seq(Byte) PROVE Old(Aged(s))
<1>1. DOMAIN s = 1 .. Len(s) /\ Len(s) \in Nat /\ \A i \in 1 .. Len(s) : s[i] \in Byte
  BY LenProperties, ElementOfSeq
<1>2. \A b \in Byte : [b EXCEPT !.by = FALSE] \in Byte /\ [b EXCEPT !.by = FALSE].by = FALSE
  BY DEF Byte
<1>3. \A i \in 1 .. Len(s) : Aged(s)[i] = [s[i] EXCEPT !.by = FALSE]
  BY <1>1, Zenon DEF Aged
<1>4. Aged(s) \in [1 .. Len(s) -> Byte]
  BY <1>1, <1>2, Zenon DEF Aged
<1>5. Len(Aged(s)) = Len(s)
  BY <1>1, <1>4, FunctionSeq
<1>6. \A i \in 1 .. Len(s) : ~Aged(s)[i].by
  BY <1>1, <1>2, <1>3
<1> QED BY <1>5, <1>6 DEF Old

LEMMA OthersOld == ASSUME NEW vals \in Seq(Values) PROVE Old(Bytes(vals, FALSE))
<1>1. /\ Len(Bytes(vals, FALSE)) = Len(vals)
      /\ \A i \in 1 .. Len(vals) : Bytes(vals, FALSE)[i] = [val |-> vals[i], by |-> FALSE]
  <2>1. FALSE \in BOOLEAN
    OBVIOUS
  <2> QED BY <2>1, BytesParts, Zenon
<1>2. \A x : [val |-> x, by |-> FALSE].by = FALSE
  OBVIOUS
<1>3. \A i \in 1 .. Len(vals) : ~Bytes(vals, FALSE)[i].by
  BY <1>1, <1>2
<1> QED BY <1>1, <1>3 DEF Old

\* The first of the bytes under way; s is what has arrived, or more.
LEMMA PrefixOld ==
  ASSUME NEW s \in Seq(Byte), NEW t \in Seq(Byte), Old(s \o t) PROVE Old(s)
<1>1. /\ Len(s) \in Nat /\ Len(t) \in Nat /\ Len(s \o t) = Len(s) + Len(t)
      /\ \A i \in 1 .. Len(s) + Len(t) : (s \o t)[i] = IF i <= Len(s) THEN s[i] ELSE t[i - Len(s)]
  BY LenProperties, ConcatProperties
<1> SUFFICES ASSUME NEW i \in 1 .. Len(s) PROVE ~s[i].by
  BY DEF Old
<1>2. i \in 1 .. Len(s) + Len(t) /\ i <= Len(s)
  BY <1>1
<1> QED BY <1>1, <1>2 DEF Old

LEMMA SuffixOld ==
  ASSUME NEW s \in Seq(Byte), NEW t \in Seq(Byte), Old(s \o t) PROVE Old(t)
<1>1. /\ Len(s) \in Nat /\ Len(t) \in Nat /\ Len(s \o t) = Len(s) + Len(t)
      /\ \A i \in 1 .. Len(s) + Len(t) : (s \o t)[i] = IF i <= Len(s) THEN s[i] ELSE t[i - Len(s)]
  BY LenProperties, ConcatProperties
<1> SUFFICES ASSUME NEW i \in 1 .. Len(t) PROVE ~t[i].by
  BY DEF Old
<1>2. i + Len(s) \in 1 .. Len(s) + Len(t) /\ ~(i + Len(s) <= Len(s)) /\ (i + Len(s)) - Len(s) = i
  BY <1>1
<1>3. (s \o t)[i + Len(s)] = t[i]
  BY <1>1, <1>2
<1> QED BY <1>1, <1>2, <1>3 DEF Old

LEMMA PrefixOldThenOwn ==
  ASSUME NEW s \in Seq(Byte), NEW t \in Seq(Byte), NEW a \in Seq(Byte), OldThenOwn(s \o t, a)
  PROVE  OldThenOwn(s, a)
<1> DEFINE u == s \o t
<1>1. /\ Len(s) \in Nat /\ Len(t) \in Nat /\ Len(a) \in Nat /\ Len(u) = Len(s) + Len(t)
      /\ \A i \in 1 .. Len(s) + Len(t) : u[i] = IF i <= Len(s) THEN s[i] ELSE t[i - Len(s)]
  BY LenProperties, ConcatProperties
<1>2. \A i \in 1 .. Len(s) : u[i] = s[i]
  BY <1>1
<1>3. PICK k \in 0 .. Len(u) : /\ Len(u) <= k + Len(a)
                               /\ \A i \in 1 .. k : ~u[i].by
                               /\ \A i \in k + 1 .. Len(u) : u[i] = a[i - k]
  BY DEF OldThenOwn
<1> HIDE DEF u
<1>4. CASE k <= Len(s)
  <2>1. k \in 0 .. Len(s) /\ Len(s) <= k + Len(a)
    BY <1>1, <1>3, <1>4
  <2>2. \A i \in 1 .. k : i \in 1 .. Len(s)
    BY <1>1, <1>4
  <2>3. \A i \in 1 .. k : ~s[i].by
    BY <1>2, <1>3, <2>2
  <2>4. \A i \in k + 1 .. Len(s) : i \in k + 1 .. Len(u) /\ i \in 1 .. Len(s)
    BY <1>1, <1>3
  <2>5. \A i \in k + 1 .. Len(s) : s[i] = a[i - k]
    BY <1>2, <1>3, <2>4
  <2> QED BY <2>1, <2>3, <2>5 DEF OldThenOwn
<1>5. CASE ~(k <= Len(s))
  <2>1. \A i \in 1 .. Len(s) : i \in 1 .. k
    BY <1>1, <1>3, <1>5
  <2>2. \A i \in 1 .. Len(s) : ~s[i].by
    BY <1>2, <1>3, <2>1
  <2>3. Len(s) \in 0 .. Len(s) /\ Len(s) <= Len(s) + Len(a)
    BY <1>1
  <2>4. \A i \in Len(s) + 1 .. Len(s) : s[i] = a[i - Len(s)]
    BY <1>1
  <2> QED BY <2>2, <2>3, <2>4 DEF OldThenOwn
<1> QED BY <1>4, <1>5

LEMMA OwnFollows ==
  ASSUME NEW s \in Seq(Byte), NEW a \in Seq(Byte), Old(s) PROVE OldThenOwn(s \o a, a)
<1> DEFINE u == s \o a
<1>1. /\ Len(s) \in Nat /\ Len(a) \in Nat /\ Len(u) = Len(s) + Len(a)
      /\ \A i \in 1 .. Len(s) + Len(a) : u[i] = IF i <= Len(s) THEN s[i] ELSE a[i - Len(s)]
  BY LenProperties, ConcatProperties
<1> HIDE DEF u
<1>2. Len(s) \in 0 .. Len(u) /\ Len(u) <= Len(s) + Len(a)
  BY <1>1
<1>3. \A i \in 1 .. Len(s) : ~u[i].by
  BY <1>1 DEF Old
<1>4. \A i \in Len(s) + 1 .. Len(u) : u[i] = a[i - Len(s)]
  BY <1>1
<1>5. OldThenOwn(u, a)
  BY <1>2, <1>3, <1>4 DEF OldThenOwn
<1> QED BY <1>5 DEF u

\* Where all bytes are own ones, none of an earlier call stands before them.
LEMMA OwnBegins ==
  ASSUME NEW s \in Seq(Byte), NEW a \in Seq(Byte), AllOwn(s), Old(s) \/ OldThenOwn(s, a)
  PROVE  Begins(s, a)
<1>1. DOMAIN s = 1 .. Len(s) /\ Len(s) \in Nat /\ Len(a) \in Nat
  BY LenProperties
<1>2. \A i \in 1 .. Len(s) : s[i].by
  BY <1>1 DEF AllOwn
<1>3. ASSUME Old(s) PROVE Begins(s, a)
  <2>1. ~(1 \in 1 .. Len(s))
    BY <1>2, <1>3 DEF Old
  <2>2. Len(s) = 0
    BY <1>1, <2>1
  <2> QED BY <1>1, <2>2 DEF Begins
<1>4. ASSUME OldThenOwn(s, a) PROVE Begins(s, a)
  <2>1. PICK k \in 0 .. Len(s) : /\ Len(s) <= k + Len(a)
                                 /\ \A i \in 1 .. k : ~s[i].by
                                 /\ \A i \in k + 1 .. Len(s) : s[i] = a[i - k]
    BY <1>4 DEF OldThenOwn
  <2>2. k = 0
    <3> SUFFICES ASSUME k # 0 PROVE FALSE
      OBVIOUS
    <3>1. 1 \in 1 .. k /\ 1 \in 1 .. Len(s)
      BY <1>1
    <3> QED BY <1>2, <2>1, <3>1
  <2>3. Len(s) <= Len(a) /\ \A i \in 1 .. Len(s) : s[i] = a[i]
    BY <1>1, <2>1, <2>2
  <2> QED BY <2>3 DEF Begins
<1> QED BY <1>3, <1>4

LEMMA PrefixBegins ==
  ASSUME NEW s \in Seq(Byte), NEW t \in Seq(Byte), NEW a \in Seq(Byte), Begins(s \o t, a)
  PROVE  Begins(s, a)
<1>1. /\ Len(s) \in Nat /\ Len(t) \in Nat /\ Len(a) \in Nat /\ Len(s \o t) = Len(s) + Len(t)
      /\ \A i \in 1 .. Len(s) + Len(t) : (s \o t)[i] = IF i <= Len(s) THEN s[i] ELSE t[i - Len(s)]
  BY LenProperties, ConcatProperties
<1>2. \A i \in 1 .. Len(s) : i \in 1 .. Len(s) + Len(t) /\ i <= Len(s)
  BY <1>1
<1>3. \A i \in 1 .. Len(s) : s[i] = a[i]
  BY <1>1, <1>2 DEF Begins
<1> QED BY <1>1, <1>3 DEF Begins

LEMMA BytesAssociate ==
  \A s, t, u \in Seq(Byte) : (s \o t) \o u = s \o (t \o u)
<1> SUFFICES ASSUME NEW s \in Seq(Byte), NEW t \in Seq(Byte), NEW u \in Seq(Byte)
             PROVE  (s \o t) \o u = s \o (t \o u)
  OBVIOUS
<1> QED BY ConcatAssociative

\* Bytes that go from one part of the stream into the part before it.
LEMMA BytesMove ==
  ASSUME NEW s \in Seq(Byte), NEW t \in Seq(Byte), NEW n \in 0 .. Len(t)
  PROVE  (s \o SubSeq(t, 1, n)) \o SubSeq(t, n + 1, Len(t)) = s \o t
<1>1. Len(t) \in Nat /\ \A i \in 1 .. Len(t) : t[i] \in Byte
  BY LenProperties, ElementOfSeq
<1>2. 1 \in 1 .. Len(t) + 1 /\ n \in 1 - 1 .. Len(t) /\ Len(t) \in n .. Len(t)
  BY <1>1
<1>3. SubSeq(t, 1, n) \o SubSeq(t, n + 1, Len(t)) = SubSeq(t, 1, Len(t))
  BY <1>2, ConcatAdjacentSubSeq
<1>4. SubSeq(t, 1, Len(t)) = t
  BY SubSeqFull
<1>5. SubSeq(t, 1, n) \in Seq(Byte) /\ SubSeq(t, n + 1, Len(t)) \in Seq(Byte)
  <2>1. n \in Int /\ n + 1 \in Int /\ Len(t) \in Int
    BY <1>1
  <2>2. \A i \in 1 .. n : t[i] \in Byte
    BY <1>1
  <2>3. \A i \in n + 1 .. Len(t) : t[i] \in Byte
    BY <1>1
  <2> QED BY <2>1, <2>2, <2>3, SubSeqProperties
<1> DEFINE u == SubSeq(t, 1, n)
           v == SubSeq(t, n + 1, Len(t))
<1>6. u \in Seq(Byte) /\ v \in Seq(Byte) /\ u \o v = t
  BY <1>3, <1>4, <1>5
<1> HIDE DEF u, v
<1>7. (s \o u) \o v = s \o (u \o v)
  BY <1>6, BytesAssociate
<1>8. (s \o u) \o v = s \o t
  BY <1>6, <1>7
<1> QED BY <1>8 DEF u, v

Ordered == AskedInv /\ QueueInv /\ OrderInv /\ Framed(rx)

LEMMA InitOrdered == SessionInit => Ordered
BY NewFramed DEF SessionInit, Ordered, AskedInv, QueueInv, OrderInv

\* Before the client sends and after it has what it waits for the order of the
\* bytes does not matter.
LEMMA Away ==
  ASSUME pc' \notin {"send", "receive"}, Framed(rx)' PROVE Ordered'
BY DEF Ordered, AskedInv, QueueInv, OrderInv

LEMMA OwnAnswerTo == OwnAdu = AnswerTo(request.tid, request.pdu)
BY DEF OwnAdu, AnswerTo

LEMMA KnownRequest ==
  ASSUME Core, Ordered, pc \in {"send", "receive"}
  PROVE  /\ request.tid \in Identifiers /\ request.pdu \in PDU
         /\ OwnAdu \in Seq(Byte)
<1>1. request.tid \in Identifiers /\ request.pdu \in PDU
  BY TidsAreWords, SessionAssumption DEF Core, Client_OK, Ordered, AskedInv
<1> QED BY <1>1, AnswerParts, OwnAnswerTo

LEMMA StreamSeq ==
  ASSUME Core
  PROVE  /\ rx.bytes \in Seq(Byte) /\ sock \in Seq(Byte) /\ wire \in Seq(Byte)
         /\ rx.bytes \o sock \in Seq(Byte) /\ Stream \in Seq(Byte)
<1>1. rx.bytes \in Seq(Byte) /\ sock \in Seq(Byte) /\ wire \in Seq(Byte)
  BY DEF Core, Fitting, Streams_OK
<1>2. rx.bytes \o sock \in Seq(Byte)
  BY <1>1, ConcatProperties
<1> QED BY <1>1, <1>2, ConcatProperties DEF Stream

LEMMA CallOrdered == ASSUME Core, Ordered, Call PROVE Ordered'
<1> USE DEF Call
<1>1. PICK pdu \in Pdus :
        /\ tId' = NextTid
        /\ request' = [tid |-> tId', function |-> pdu[1], nb |-> 256 * pdu[4] + pdu[5], pdu |-> pdu]
  OBVIOUS
<1>2. /\ request'.function = pdu[1] /\ request'.nb = 256 * pdu[4] + pdu[5]
      /\ request'.pdu = pdu /\ pc' = "send" /\ result' = NoResult
  BY <1>1
<1>3. AskedInv'
  BY <1>2 DEF AskedInv, Asks
<1>4. Old(Aged(sock)) /\ Old(Aged(wire))
  BY AgedOld DEF Core, Streams_OK
<1>5. OrderInv' /\ QueueInv'
  BY <1>2, <1>4 DEF OrderInv, QueueInv, Old
<1>6. Framed(rx)'
  BY DEF Ordered, Framed
<1> QED BY <1>3, <1>5, <1>6 DEF Ordered

LEMMA SendOrdered == ASSUME Core, Ordered, Send PROVE Ordered'
<1> USE DEF Send
<1>1. pc = "send" /\ pc' = "receive" /\ served = 0 /\ NoneOwn(reqs) /\ reqs \in Seq(Sent)
      /\ sock \in Seq(Byte) /\ wire \in Seq(Byte) /\ Old(sock) /\ Old(wire)
  BY DEF Core, Own_OK, Streams_OK, Ordered, OrderInv
<1>2. AskedInv'
  BY <1>1 DEF Ordered, AskedInv, Asks
<1> DEFINE own == [tid |-> request.tid, pdu |-> request.pdu, own |-> TRUE]
<1>3. QueueInv'
  <2>1. CASE reqs' = reqs
    BY <1>1, <2>1 DEF QueueInv, NoneOwn
  <2>2. CASE reqs' = Append(reqs, own)
    <3>1. own \in Sent /\ own.tid = request.tid /\ own.pdu = request.pdu
      BY DEF Core, Client_OK, Ordered, AskedInv, Sent
    <3> HIDE DEF own
    <3>2. /\ Len(reqs') = Len(reqs) + 1 /\ reqs'[Len(reqs) + 1] = own /\ Len(reqs) \in Nat
          /\ \A i \in 1 .. Len(reqs) : reqs'[i] = reqs[i]
      BY <1>1, <2>2, <3>1, AppendProperties, LenProperties
    <3>3. \A i \in 1 .. Len(reqs') : i \in 1 .. Len(reqs) \/ i = Len(reqs')
      BY <3>2
    <3>4. \A i \in 1 .. Len(reqs) : ~reqs'[i].own
      BY <1>1, <3>2 DEF NoneOwn
    <3>5. reqs'[Len(reqs')].tid = request'.tid /\ reqs'[Len(reqs')].pdu = request'.pdu
      BY <3>1, <3>2
    <3> QED BY <3>3, <3>4, <3>5 DEF QueueInv
  <2> QED BY <2>1, <2>2
<1>4. OrderInv'
  <2>1. Stream' = (<<>> \o sock) \o wire
    BY DEF Stream, NewMessage
  <2>2. <<>> \o sock = sock
    BY <1>1, ConcatEmptySeq
  <2>3. Old(sock \o wire)
    BY <1>1, OldConcat
  <2>4. Old(Stream')
    BY <2>1, <2>2, <2>3
  <2> QED BY <1>1, <2>4 DEF OrderInv, Old
<1>5. Framed(rx)'
  BY NewFramed DEF Framed
<1> QED BY <1>2, <1>3, <1>4, <1>5 DEF Ordered

LEMMA SendFailsOrdered == ASSUME Core, Ordered, SendFails PROVE Ordered'
<1> USE DEF SendFails
<1>1. Framed(rx)'
  BY DEF Ordered, Framed
<1>2. CASE "link" \in recovery
  <2>1. pc' = "send" /\ sock' = <<>> /\ wire' = <<>>
    BY <1>2 DEF Reconnect
  <2>2. AskedInv'
    BY <1>2 DEF Ordered, AskedInv, Asks
  <2>3. OrderInv' /\ QueueInv'
    BY <2>1, EmptyOld DEF OrderInv, QueueInv, Old
  <2> QED BY <1>1, <2>2, <2>3 DEF Ordered
<1>3. CASE "link" \notin recovery
  BY <1>1, <1>3, Away DEF Fail
<1> QED BY <1>2, <1>3

\* What receive_msg makes of the next bytes.
LEMMA Received ==
  ASSUME Core, Ordered, Receive
  PROVE  \E got : /\ got \in [bytes : Seq(Byte), step : {"function", "meta", "data"}, length_to_read : Nat]
                  /\ Framed(got)
                  /\ sock' \in Seq(Byte) /\ got.bytes \o sock' = rx.bytes \o sock
                  /\ rx' = IF TooLong(got) \/ Complete(got) THEN NewMessage ELSE got
                  /\ \/ TooLong(got) /\ Fail("idle")
                     \/ Complete(got) /\ Checked(got.bytes)
                     \/ ~TooLong(got) /\ ~Complete(got) /\ UNCHANGED <<pc, result>>
<1> DEFINE n   == Taken(rx, Len(sock))
           new == SubSeq(sock, 1, n)
           got == Read(rx, new, "confirmation")
<1>1. /\ sock' = SubSeq(sock, n + 1, Len(sock))
      /\ rx' = IF TooLong(got) \/ Complete(got) THEN NewMessage ELSE got
      /\ \/ TooLong(got) /\ Fail("idle")
         \/ Complete(got) /\ Checked(got.bytes)
         \/ ~TooLong(got) /\ ~Complete(got) /\ UNCHANGED <<pc, result>>
  BY DEF Receive
<1>2. rx \in [bytes : Seq(Byte), step : {"function", "meta", "data"}, length_to_read : Nat]
      /\ sock \in Seq(Byte) /\ Fitting(rx) /\ Framed(rx)
  BY DEF Core, Streams_OK, Ordered, Fitting
<1>3. new \in Seq(Byte) /\ Len(new) <= rx.length_to_read /\ sock' \in Seq(Byte)
  BY <1>1, <1>2, TakenParts
<1>4. n \in 0 .. Len(sock)
  BY <1>2, LenProperties DEF Taken
<1>5. (rx.bytes \o new) \o sock' = rx.bytes \o sock
  BY <1>1, <1>2, <1>4, BytesMove
<1> HIDE DEF n, new
<1>6. Framed(got)
  BY <1>2, <1>3, ReadFramed
<1>7. got \in [bytes : Seq(Byte), step : {"function", "meta", "data"}, length_to_read : Nat]
      /\ got.bytes = rx.bytes \o new
  BY <1>2, <1>3, ReadTyped
<1> HIDE DEF got
<1> QED BY <1>1, <1>3, <1>5, <1>6, <1>7

LEMMA ReceiveOrdered == ASSUME Core, Ordered, Receive PROVE Ordered'
<1>1. PICK got :
        /\ got \in [bytes : Seq(Byte), step : {"function", "meta", "data"}, length_to_read : Nat]
        /\ Framed(got)
        /\ sock' \in Seq(Byte) /\ got.bytes \o sock' = rx.bytes \o sock
        /\ rx' = IF TooLong(got) \/ Complete(got) THEN NewMessage ELSE got
        /\ \/ TooLong(got) /\ Fail("idle")
           \/ Complete(got) /\ Checked(got.bytes)
           \/ ~TooLong(got) /\ ~Complete(got) /\ UNCHANGED <<pc, result>>
  BY Received
<1>2. Framed(rx')
  BY <1>1, NewFramed
<1>3. CASE TooLong(got) \/ Complete(got)
  <2>1. pc' \notin {"send", "receive"}
    BY <1>1, <1>3 DEF Fail, Checked
  <2> QED BY <1>2, <2>1, Away DEF Framed
<1>4. CASE ~TooLong(got) /\ ~Complete(got)
  <2>1. rx' = got /\ UNCHANGED <<pc, result, request, reqs, served, wire>>
    BY <1>1, <1>4 DEF Receive
  <2>2. Stream' = Stream
    BY <1>1, <2>1 DEF Stream
  <2>3. AskedInv' /\ QueueInv'
    BY <2>1 DEF Ordered, AskedInv, QueueInv, Asks
  <2>4. pc = "receive"
    BY DEF Receive
  <2>5. OrderInv'
    BY <2>1, <2>2, <2>4 DEF Ordered, OrderInv, Old, OldThenOwn, OwnAdu
  <2> QED BY <1>2, <2>3, <2>5 DEF Ordered, Framed
<1> QED BY <1>3, <1>4

LEMMA ServeOrdered == ASSUME Core, Ordered, Serve PROVE Ordered'
<1> USE DEF Serve, clientVars
<1>1. AskedInv' /\ Framed(rx)'
  BY DEF Ordered, AskedInv, Asks, Framed
<1>2. CASE pc = "receive"
  <2> DEFINE q      == Head(reqs)
             answer == Adu(q.tid, AnswerPdu(q.pdu))
  <2>1. reqs \in Seq(Sent) /\ reqs # <<>> /\ AtMostOne(reqs)
    BY DEF Core, Streams_OK, Own_OK
  <2>2. /\ q \in Sent /\ q = reqs[1] /\ reqs' \in Seq(Sent) /\ Len(reqs') = Len(reqs) - 1
        /\ Len(reqs) \in Nat /\ Len(reqs) # 0
        /\ \A i \in 1 .. Len(reqs') : reqs'[i] = reqs[i + 1]
    BY <2>1, HeadTailProperties, LenProperties, EmptySeq
  <2>3. answer \in Seq(Values) /\ q.own \in BOOLEAN
    <3>1. q.tid \in Identifiers /\ q.pdu \in PDU
      BY <2>2, TidsAreWords, SessionAssumption DEF Sent
    <3>2. q.own \in BOOLEAN
      BY <2>2 DEF Sent
    <3> HIDE DEF q
    <3> QED BY <3>1, <3>2, AnswerSeq, AduSeq
  <2>4. served = 0 /\ Old(Stream)
    <3>1. served # 0 => reqs = <<>>
      BY <1>2 DEF Ordered, OrderInv
    <3> QED BY <1>2, <2>1, <3>1 DEF Ordered, OrderInv
  <2>5. Bytes(answer, q.own) \in Seq(Byte)
    BY <2>3, BytesSeq
  <2>6. Stream' = Stream \o Bytes(answer, q.own)
    <3>1. Stream' = (rx.bytes \o sock) \o (wire \o Bytes(answer, q.own))
      BY DEF Stream
    <3> HIDE DEF answer, q
    <3>2. rx.bytes \o sock \in Seq(Byte) /\ wire \in Seq(Byte)
      BY StreamSeq
    <3>3. ((rx.bytes \o sock) \o wire) \o Bytes(answer, q.own)
            = (rx.bytes \o sock) \o (wire \o Bytes(answer, q.own))
      BY <2>5, <3>2, BytesAssociate
    <3> QED BY <3>1, <3>3, Zenon DEF Stream
  <2>7. QueueInv'
    <3> SUFFICES ASSUME NEW i \in 1 .. Len(reqs'), reqs'[i].own
                 PROVE  i = Len(reqs') /\ reqs'[i].tid = request.tid /\ reqs'[i].pdu = request.pdu
      BY DEF QueueInv
    <3>1. i \in Nat /\ i + 1 \in 1 .. Len(reqs) /\ reqs'[i] = reqs[i + 1]
      BY <2>2
    <3> DEFINE e == reqs[i + 1]
    <3>2. e.own
      BY <3>1
    <3>3. i + 1 = Len(reqs) /\ e.tid = request.tid /\ e.pdu = request.pdu
      BY <1>2, <3>1, <3>2 DEF Ordered, QueueInv
    <3>4. reqs'[i] = e
      BY <3>1
    <3> HIDE DEF e, q
    <3>5. i = Len(reqs')
      <4>0. Len(reqs) \in Nat /\ Len(reqs') \in Nat
        BY <2>2, LenProperties
      <4>1. PICK l \in Nat, r \in Nat : l = Len(reqs) /\ r = Len(reqs')
        BY <4>0
      <4>2. r = l - 1 /\ i + 1 = l /\ i \in Nat
        BY <2>2, <3>1, <3>3, <4>1
      <4>3. i = r
        BY <4>2, Z3
      <4> QED BY <4>1, <4>3
    <3> QED BY <3>3, <3>4, <3>5
  <2>8. CASE q.own
    <3>1. 1 \in 1 .. Len(reqs)
      BY <2>2
    <3>2. 1 = Len(reqs) /\ q.tid = request.tid /\ q.pdu = request.pdu
      BY <1>2, <2>2, <2>8, <3>1 DEF Ordered, QueueInv
    <3>3. reqs' = <<>>
      BY <2>2, <3>2, EmptySeq
    <3>4. Bytes(answer, q.own) = OwnAdu
      BY <2>3, <2>8, <3>2 DEF OwnAdu
    <3> HIDE DEF answer, q
    <3>5. OldThenOwn(Stream \o OwnAdu, OwnAdu)
      BY <2>4, <2>5, <3>4, StreamSeq, OwnFollows
    <3>6. OldThenOwn(Stream', OwnAdu)
      BY <2>6, <3>4, <3>5
    <3>7. OwnAdu' = OwnAdu
      BY DEF OwnAdu
    <3>8. served' = 1
      BY <2>4, <2>8 DEF q
    <3> QED BY <1>1, <1>2, <2>7, <3>3, <3>6, <3>7, <3>8 DEF Ordered, OrderInv, OldThenOwn
  <2>9. CASE ~q.own
    <3>1. Old(Bytes(answer, q.own))
      BY <2>3, <2>9, OthersOld
    <3> HIDE DEF answer
    <3>2. Old(Stream')
      BY <2>4, <2>5, <2>6, <3>1, StreamSeq, OldConcat
    <3>3. served' = 0
      BY <2>4, <2>9
    <3> QED BY <1>1, <1>2, <2>7, <3>2, <3>3 DEF Ordered, OrderInv, Old
  <2> QED BY <2>8, <2>9
<1>3. CASE pc = "send"
  <2>1. NoneOwn(reqs) /\ reqs \in Seq(Sent) /\ reqs # <<>> /\ AtMostOne(reqs)
    BY <1>3 DEF Core, Own_OK, Streams_OK
  <2>2. Head(reqs) \in Sent /\ ~Head(reqs).own
    BY <2>1, TailOwn
  <2> DEFINE q      == Head(reqs)
             answer == Adu(q.tid, AnswerPdu(q.pdu))
  <2>3. q.own = FALSE /\ q.tid \in Identifiers /\ q.pdu \in PDU
    BY <2>2, TidsAreWords, SessionAssumption DEF Sent
  <2> HIDE DEF q
  <2>4. answer \in Seq(Values)
    BY <2>3, AnswerSeq, AduSeq
  <2>5. wire' = wire \o Bytes(answer, FALSE)
    BY <2>3 DEF q
  <2> HIDE DEF answer
  <2>6. Old(Bytes(answer, FALSE)) /\ Bytes(answer, FALSE) \in Seq(Byte)
    BY <2>4, OthersOld, BytesSeq
  <2>7. Old(wire')
    BY <1>3, <2>5, <2>6, StreamSeq, OldConcat DEF Ordered, OrderInv
  <2>8. OrderInv' /\ QueueInv'
    BY <1>3, <2>7 DEF Ordered, OrderInv, QueueInv, Old
  <2> QED BY <1>1, <2>8 DEF Ordered
<1>4. CASE pc \notin {"send", "receive"}
  BY <1>1, <1>4, Away
<1> QED BY <1>2, <1>3, <1>4

LEMMA ArriveOrdered == ASSUME Core, Ordered, Arrive PROVE Ordered'
<1> USE DEF Arrive, clientVars
<1>1. PICK n \in 1 .. Len(wire) : /\ sock' = sock \o SubSeq(wire, 1, n)
                                  /\ wire' = SubSeq(wire, n + 1, Len(wire))
  OBVIOUS
<1>2. AskedInv' /\ QueueInv' /\ Framed(rx)'
  BY DEF Ordered, AskedInv, QueueInv, Asks, Framed
<1>3. wire \in Seq(Byte) /\ sock \in Seq(Byte) /\ rx.bytes \in Seq(Byte) /\ Len(wire) \in Nat
  BY StreamSeq, LenProperties
<1>4. sock' \o wire' = sock \o wire
  <2>1. n \in 0 .. Len(wire)
    BY <1>3
  <2> QED BY <1>1, <1>3, <2>1, BytesMove
<1>5. sock' \in Seq(Byte) /\ wire' \in Seq(Byte)
  <2>1. SubSeq(wire, 1, n) \in Seq(Byte) /\ wire' \in Seq(Byte)
    BY <1>1, <1>3, SplitSeq
  <2> QED BY <1>1, <1>3, <2>1, ConcatProperties
<1>6. Stream' = Stream
  <2>1. (rx.bytes \o sock') \o wire' = rx.bytes \o (sock' \o wire')
    BY <1>3, <1>5, BytesAssociate
  <2>2. (rx.bytes \o sock) \o wire = rx.bytes \o (sock \o wire)
    BY <1>3, BytesAssociate
  <2> QED BY <1>4, <2>1, <2>2 DEF Stream
<1>7. pc = "send" => Old(sock') /\ Old(wire')
  <2> SUFFICES ASSUME pc = "send" PROVE Old(sock') /\ Old(wire')
    OBVIOUS
  <2>1. Old(sock) /\ Old(wire)
    BY DEF Ordered, OrderInv
  <2>2. SubSeq(wire, 1, n) \in Seq(Byte)
    BY <1>3, SplitSeq
  <2>3. Old(sock' \o wire')
    BY <1>3, <1>4, <2>1, OldConcat
  <2>4. Old(sock') /\ Old(wire')
    BY <1>5, <2>3, PrefixOld, SuffixOld
  <2> QED BY <2>4
<1>8. OrderInv'
  BY <1>6, <1>7 DEF Ordered, OrderInv, Old, OldThenOwn, OwnAdu
<1> QED BY <1>2, <1>8 DEF Ordered

LEMMA BreakOrdered == ASSUME Core, Ordered, Break PROVE Ordered'
<1> USE DEF Break, clientVars
<1>1. AskedInv' /\ Framed(rx)' /\ QueueInv'
  BY EmptySeq DEF Ordered, AskedInv, QueueInv, Asks, Framed
<1>2. Stream' = rx.bytes \o sock
  <2>1. Stream' = (rx.bytes \o sock) \o <<>>
    BY DEF Stream
  <2> QED BY <2>1, StreamSeq, ConcatEmptySeq
<1>3. pc = "receive" /\ served = 0 => Old(Stream')
  <2> SUFFICES ASSUME pc = "receive" /\ served = 0 PROVE Old(Stream')
    OBVIOUS
  <2>1. Old((rx.bytes \o sock) \o wire)
    BY DEF Ordered, OrderInv, Stream
  <2> QED BY <1>2, <2>1, StreamSeq, PrefixOld
<1>4. pc = "receive" /\ served # 0 => OldThenOwn(Stream', OwnAdu)
  <2> SUFFICES ASSUME pc = "receive" /\ served # 0 PROVE OldThenOwn(Stream', OwnAdu)
    OBVIOUS
  <2>1. OldThenOwn((rx.bytes \o sock) \o wire, OwnAdu)
    BY DEF Ordered, OrderInv, Stream
  <2> QED BY <1>2, <2>1, StreamSeq, KnownRequest, PrefixOldThenOwn
<1>5. OwnAdu' = OwnAdu
  BY DEF OwnAdu
<1>6. OrderInv'
  BY <1>3, <1>4, <1>5, EmptyOld DEF Ordered, OrderInv, Old, OldThenOwn
<1> QED BY <1>1, <1>6 DEF Ordered

\* Steps that move no byte of a call that runs.
LEMMA StillOrdered ==
  ASSUME Ordered, UNCHANGED <<pc, request, result, rx, reqs, wire, sock, served>>
  PROVE  Ordered'
<1>1. Stream' = Stream /\ OwnAdu' = OwnAdu
  BY DEF Stream, OwnAdu
<1>2. AskedInv' /\ QueueInv' /\ Framed(rx)'
  BY DEF Ordered, AskedInv, QueueInv, Asks, Framed
<1>3. OrderInv'
  BY <1>1 DEF Ordered, OrderInv, Old, OldThenOwn
<1> QED BY <1>2, <1>3 DEF Ordered

LEMMA OrderedStep == ASSUME Core, Ordered, [Next]_vars PROVE Ordered'
<1>1. CASE Call \/ Send \/ SendFails \/ Receive
  BY <1>1, CallOrdered, SendOrdered, SendFailsOrdered, ReceiveOrdered
<1>2. CASE ReceiveEnd \/ Timeout
  <2>1. Framed(rx)' /\ pc' \notin {"send", "receive"}
    BY <1>2, NewFramed DEF ReceiveEnd, Timeout, Fail, Framed
  <2> QED BY <2>1, Away
<1>3. CASE Flush
  <2>1. Framed(rx)' /\ pc' \notin {"send", "receive"}
    BY <1>3 DEF Flush, Ordered, Framed
  <2> QED BY <2>1, Away
<1>4. CASE Reopen
  <2>1. Framed(rx)' /\ pc' \notin {"send", "receive"}
    BY <1>4 DEF Reopen, clientVars, Ordered, Framed
  <2> QED BY <2>1, Away
<1>5. CASE Serve \/ Arrive \/ Break
  BY <1>5, ServeOrdered, ArriveOrdered, BreakOrdered
<1>6. CASE Restore
  BY <1>6, StillOrdered DEF Restore, clientVars
<1>7. CASE UNCHANGED vars
  BY <1>7, StillOrdered DEF vars, clientVars, netVars
<1> QED BY <1>1, <1>2, <1>3, <1>4, <1>5, <1>6, <1>7 DEF Next, Client, Net

\* The bytes of the answer of a call are taken for it, and no other message is.
LEMMA OwnBytesStep ==
  ASSUME Core, Ordered, Receive, AllOwn(rx.bytes \o sock)
  PROVE  pc' = "receive" \/ (result'.rc \in Ok /\ result'.own)
<1>1. PICK got :
        /\ got \in [bytes : Seq(Byte), step : {"function", "meta", "data"}, length_to_read : Nat]
        /\ Framed(got)
        /\ sock' \in Seq(Byte) /\ got.bytes \o sock' = rx.bytes \o sock
        /\ rx' = IF TooLong(got) \/ Complete(got) THEN NewMessage ELSE got
        /\ \/ TooLong(got) /\ Fail("idle")
           \/ Complete(got) /\ Checked(got.bytes)
           \/ ~TooLong(got) /\ ~Complete(got) /\ UNCHANGED <<pc, result>>
  BY Received
<1>2. pc = "receive" /\ served \in {0, 1}
  BY DEF Receive, Core, Own_OK
<1>3. request.tid \in Identifiers /\ request.pdu \in PDU /\ OwnAdu \in Seq(Byte)
      /\ Asks(request, request.pdu)
  BY <1>2, KnownRequest DEF Ordered, AskedInv
<1>4. Old(rx.bytes \o sock) \/ OldThenOwn(rx.bytes \o sock, OwnAdu)
  <2>1. Old((rx.bytes \o sock) \o wire) \/ OldThenOwn((rx.bytes \o sock) \o wire, OwnAdu)
    BY <1>2 DEF Ordered, OrderInv, Stream
  <2> QED BY <1>3, <2>1, StreamSeq, PrefixOld, PrefixOldThenOwn
<1>5. Begins(rx.bytes \o sock, OwnAdu)
  BY <1>3, <1>4, StreamSeq, OwnBegins
<1>6. Begins(got.bytes, AnswerTo(request.tid, request.pdu))
  <2>1. got.bytes \in Seq(Byte)
    BY <1>1
  <2> QED BY <1>1, <1>3, <1>5, <2>1, PrefixBegins, OwnAnswerTo
<1>7. ~TooLong(got) /\ (Complete(got) => got.bytes = AnswerTo(request.tid, request.pdu))
  BY <1>1, <1>3, <1>6, WholeAnswer
<1>8. CASE ~Complete(got)
  BY <1>1, <1>2, <1>7, <1>8
<1>9. CASE Complete(got)
  <2>1. Checked(got.bytes) /\ got.bytes = OwnAdu
    BY <1>1, <1>7, <1>9, OwnAnswerTo
  <2>2. Confirmation(request, OwnAdu, WordAt(OwnAdu, 0)).errno # "EMBBADDATA"
    BY <1>3, AnswerConfirmed, OwnAnswerTo
  <2> DEFINE c == Confirmation(request, got.bytes, WordAt(got.bytes, 0))
  <2>3. c.errno # "EMBBADDATA"
    BY <2>1, <2>2
  <2>4. result' = [rc |-> IF c.rc = -1 THEN "exception" ELSE "ok", own |-> got.bytes = OwnAdu]
    BY <2>1, <2>3, Zenon DEF Checked
  <2> HIDE DEF c
  <2> QED BY <2>1, <2>4 DEF Ok
<1> QED BY <1>8, <1>9

-----------------------------------------------------------------------------
(* When no timeout comes too early.                                          *)

\* The client gives up waiting, and empties the socket, only when nothing is on
\* its way any more: the response timeout is long enough for the server.
OnTime == [][Timeout \/ Flush => Quiet]_vars

\* Then there are bytes in the connection only for the call that waits for them.
Unmixed ==
  /\ link # "up" => Quiet
  /\ pc # "receive" => Quiet /\ sock = <<>>
  /\ pc = "receive" => AllOwn(Stream) /\ \A i \in 1 .. Len(reqs) : reqs[i].own
EachOwn == Unmixed /\ OwnAnswer

LEMMA EmptyOwn == AllOwn(<<>>) /\ Aged(<<>>) = <<>>
BY DEF AllOwn, Aged

LEMMA OwnConcat ==
  ASSUME NEW s \in Seq(Byte), NEW t \in Seq(Byte)
  PROVE  AllOwn(s \o t) <=> AllOwn(s) /\ AllOwn(t)
<1>1. /\ Len(s) \in Nat /\ Len(t) \in Nat /\ s \o t \in Seq(Byte) /\ Len(s \o t) = Len(s) + Len(t)
      /\ \A i \in 1 .. Len(s) + Len(t) : (s \o t)[i] = IF i <= Len(s) THEN s[i] ELSE t[i - Len(s)]
      /\ DOMAIN s = 1 .. Len(s) /\ DOMAIN t = 1 .. Len(t) /\ DOMAIN (s \o t) = 1 .. Len(s \o t)
  BY LenProperties, ConcatProperties
<1>2. \A i \in 1 .. Len(s) : i \in 1 .. Len(s) + Len(t) /\ (s \o t)[i] = s[i]
  BY <1>1
<1>3. \A i \in 1 .. Len(t) : i + Len(s) \in 1 .. Len(s) + Len(t) /\ (s \o t)[i + Len(s)] = t[i]
  BY <1>1
<1>4. \A i \in 1 .. Len(s) + Len(t) :
        (i \in 1 .. Len(s) /\ (s \o t)[i] = s[i]) \/ (i - Len(s) \in 1 .. Len(t) /\ (s \o t)[i] = t[i - Len(s)])
  BY <1>1
<1>5. AllOwn(s \o t) => AllOwn(s) /\ AllOwn(t)
  BY <1>1, <1>2, <1>3 DEF AllOwn
<1>6. AllOwn(s) /\ AllOwn(t) => AllOwn(s \o t)
  BY <1>1, <1>4 DEF AllOwn
<1> QED BY <1>5, <1>6

LEMMA AnswerOwn ==
  ASSUME NEW vals \in Seq(Values) PROVE AllOwn(Bytes(vals, TRUE))
<1>1. /\ Bytes(vals, TRUE) \in Seq(Byte) /\ Len(Bytes(vals, TRUE)) = Len(vals)
      /\ \A i \in 1 .. Len(vals) : Bytes(vals, TRUE)[i] = [val |-> vals[i], by |-> TRUE]
  <2>1. TRUE \in BOOLEAN
    OBVIOUS
  <2> QED BY <2>1, BytesParts, Zenon
<1>2. \A x : [val |-> x, by |-> TRUE].by = TRUE
  OBVIOUS
<1>3. DOMAIN Bytes(vals, TRUE) = 1 .. Len(vals)
  BY <1>1, LenProperties
<1>4. \A i \in 1 .. Len(vals) : Bytes(vals, TRUE)[i].by
  BY <1>1, <1>2, Zenon
<1> QED BY <1>3, <1>4, Zenon DEF AllOwn

\* Steps after which no call waits and the connection is empty.
LEMMA LeftEmpty ==
  ASSUME pc' # "receive", reqs' = <<>>, wire' = <<>>, sock' = <<>>
  PROVE  Unmixed'
BY DEF Unmixed, Quiet

LEMMA ReceivedUnmixed ==
  ASSUME Core, Ordered, Unmixed, Receive
  PROVE  Unmixed' /\ ((pc' = "receive" /\ result' = result) \/ result'.own)
<1>1. PICK got :
        /\ got \in [bytes : Seq(Byte), step : {"function", "meta", "data"}, length_to_read : Nat]
        /\ Framed(got)
        /\ sock' \in Seq(Byte) /\ got.bytes \o sock' = rx.bytes \o sock
        /\ rx' = IF TooLong(got) \/ Complete(got) THEN NewMessage ELSE got
        /\ \/ TooLong(got) /\ Fail("idle")
           \/ Complete(got) /\ Checked(got.bytes)
           \/ ~TooLong(got) /\ ~Complete(got) /\ UNCHANGED <<pc, result>>
  BY Received
<1>2. pc = "receive" /\ sock # <<>> /\ UNCHANGED <<request, link, reqs, wire>>
  BY DEF Receive
<1>3. AllOwn(Stream) /\ AllOwn(rx.bytes \o sock)
  BY <1>2, StreamSeq, OwnConcat DEF Unmixed, Stream
<1>4. pc' = "receive" \/ (result'.rc \in Ok /\ result'.own)
  BY <1>3, OwnBytesStep
<1>5. CASE ~TooLong(got) /\ ~Complete(got)
  <2>1. rx' = got /\ UNCHANGED <<pc, result>>
    BY <1>1, <1>5
  <2>2. Stream' = Stream
    BY <1>1, <1>2, <2>1 DEF Stream
  <2>3. AllOwn(Stream') /\ reqs' = reqs /\ wire' = wire /\ link' = link /\ pc' = "receive"
    BY <1>2, <1>3, <2>1, <2>2
  <2>4. Unmixed'
    BY <1>2, <2>3 DEF Unmixed, Quiet, AllOwn
  <2> QED BY <2>1, <2>3, <2>4
<1>6. CASE TooLong(got) \/ Complete(got)
  <2>1. pc' # "receive" /\ result'.own
    BY <1>1, <1>4, <1>6 DEF Fail, Checked
  <2>2. got.bytes = OwnAdu
    <3>1. \A x, y : [rc |-> x, own |-> y].own = y
      OBVIOUS
    <3>2. ~Fail("idle") /\ ~Fail("flush")
      BY <2>1, <3>1, Zenon DEF Fail
    <3>3. Checked(got.bytes)
      BY <1>1, <1>6, <3>2
    <3>4. \E x : result' = [rc |-> x, own |-> got.bytes = OwnAdu]
      BY <3>2, <3>3 DEF Checked
    <3> QED BY <2>1, <3>1, <3>4, Zenon
  <2>3. OwnAdu \in Seq(Byte) /\ Len(OwnAdu) \in Nat
    BY <1>2, KnownRequest, LenProperties
  <2>4. Stream # <<>>
    <3>1. /\ Len(sock) \in Nat \ {0} /\ Len(rx.bytes) \in Nat /\ Len(wire) \in Nat
      BY <1>2, StreamSeq, LenProperties, EmptySeq
    <3>2. Len(rx.bytes \o sock) = Len(rx.bytes) + Len(sock)
      BY StreamSeq, ConcatProperties
    <3>3. Len(Stream) = Len(rx.bytes \o sock) + Len(wire)
      BY StreamSeq, ConcatProperties DEF Stream
    <3>4. Len(Stream) # 0
      BY <3>1, <3>2, <3>3
    <3> QED BY <3>4, StreamSeq, EmptySeq
  <2>5. ~Old(Stream)
    <3>1. Len(Stream) \in Nat \ {0} /\ DOMAIN Stream = 1 .. Len(Stream)
      BY <2>4, StreamSeq, LenProperties, EmptySeq
    <3>2. 1 \in 1 .. Len(Stream)
      BY <3>1
    <3> QED BY <1>3, <3>1, <3>2 DEF AllOwn, Old
  <2>6. reqs = <<>> /\ OldThenOwn(Stream, OwnAdu)
    BY <1>2, <2>5 DEF Ordered, OrderInv
  <2>7. Len(Stream) <= Len(OwnAdu)
    BY <1>3, <2>3, <2>6, StreamSeq, OwnBegins DEF Begins
  <2>8. Stream = (OwnAdu \o sock') \o wire
    BY <1>1, <2>2 DEF Stream
  <2>9. sock' = <<>> /\ wire = <<>>
    <3>1. Len(sock') \in Nat /\ Len(wire) \in Nat
      BY <1>1, StreamSeq, LenProperties
    <3>2. OwnAdu \o sock' \in Seq(Byte) /\ Len(OwnAdu \o sock') = Len(OwnAdu) + Len(sock')
      BY <1>1, <2>3, ConcatProperties
    <3>3. Len(Stream) = Len(OwnAdu \o sock') + Len(wire)
      BY <2>8, <3>2, StreamSeq, ConcatProperties
    <3>4. Len(sock') = 0 /\ Len(wire) = 0
      BY <2>3, <2>7, <3>1, <3>2, <3>3
    <3> QED BY <1>1, <3>4, StreamSeq, EmptySeq
  <2> QED BY <1>2, <2>1, <2>6, <2>9, LeftEmpty
<1>7. Unmixed' /\ ((pc' = "receive" /\ result' = result) \/ result'.own)
  BY <1>5, <1>6
<1> QED BY <1>7

LEMMA ServeUnmixed == ASSUME Core, Ordered, Unmixed, Serve PROVE Unmixed'
<1> USE DEF Serve, clientVars
<1>1. pc = "receive" /\ link = "up" /\ AllOwn(Stream)
      /\ \A i \in 1 .. Len(reqs) : reqs[i].own
  BY DEF Unmixed, Quiet
<1> DEFINE q      == Head(reqs)
           answer == Adu(q.tid, AnswerPdu(q.pdu))
<1>2. reqs \in Seq(Sent) /\ reqs # <<>>
  BY DEF Core, Streams_OK
<1>3. /\ q \in Sent /\ q = reqs[1] /\ reqs' \in Seq(Sent) /\ Len(reqs') = Len(reqs) - 1
      /\ Len(reqs) \in Nat /\ Len(reqs) # 0
      /\ \A i \in 1 .. Len(reqs') : reqs'[i] = reqs[i + 1]
  BY <1>2, HeadTailProperties, LenProperties, EmptySeq
<1>4. 1 \in 1 .. Len(reqs) /\ \A i \in 1 .. Len(reqs') : i + 1 \in 1 .. Len(reqs)
  BY <1>3
<1>5. q.own = TRUE /\ q.tid \in Identifiers /\ q.pdu \in PDU
  <2>1. q.own
    BY <1>1, <1>3, <1>4
  <2>2. q.tid \in Identifiers /\ q.pdu \in PDU /\ q.own \in BOOLEAN
    BY <1>3, TidsAreWords, SessionAssumption DEF Sent
  <2> QED BY <2>1, <2>2
<1>6. \A i \in 1 .. Len(reqs') : reqs'[i].own
  BY <1>1, <1>3, <1>4
<1>7. wire' = wire \o Bytes(answer, TRUE) /\ UNCHANGED <<rx, sock, pc, link>>
  BY <1>5
<1> HIDE DEF q
<1>8. answer \in Seq(Values)
  BY <1>5, AnswerSeq, AduSeq
<1> HIDE DEF answer
<1>9. Bytes(answer, TRUE) \in Seq(Byte) /\ AllOwn(Bytes(answer, TRUE))
  BY <1>8, BytesSeq, AnswerOwn
<1>10. Stream' = Stream \o Bytes(answer, TRUE)
  <2>1. Stream' = (rx.bytes \o sock) \o (wire \o Bytes(answer, TRUE))
    BY <1>7 DEF Stream
  <2> QED BY <1>9, <2>1, StreamSeq, BytesAssociate, Zenon DEF Stream
<1>11. AllOwn(Stream')
  BY <1>1, <1>9, <1>10, StreamSeq, OwnConcat
<1> QED BY <1>1, <1>6, <1>7, <1>11 DEF Unmixed, AllOwn

LEMMA ArriveUnmixed == ASSUME Core, Unmixed, Arrive PROVE Unmixed'
<1> USE DEF Arrive, clientVars
<1>1. PICK n \in 1 .. Len(wire) : /\ sock' = sock \o SubSeq(wire, 1, n)
                                  /\ wire' = SubSeq(wire, n + 1, Len(wire))
  OBVIOUS
<1>2. wire \in Seq(Byte) /\ sock \in Seq(Byte) /\ rx.bytes \in Seq(Byte) /\ Len(wire) \in Nat
  BY StreamSeq, LenProperties
<1>3. wire # <<>>
  BY <1>1, <1>2, EmptySeq
<1>4. pc = "receive" /\ link = "up" /\ UNCHANGED <<pc, rx, link, reqs>>
  BY <1>3 DEF Unmixed, Quiet
<1>5. sock' \o wire' = sock \o wire
  <2>1. n \in 0 .. Len(wire)
    BY <1>2
  <2> QED BY <1>1, <1>2, <2>1, BytesMove
<1>6. sock' \in Seq(Byte) /\ wire' \in Seq(Byte)
  <2>1. SubSeq(wire, 1, n) \in Seq(Byte) /\ wire' \in Seq(Byte)
    BY <1>1, <1>2, SplitSeq
  <2> QED BY <1>1, <1>2, <2>1, ConcatProperties
<1>7. Stream' = Stream
  <2>1. (rx.bytes \o sock') \o wire' = rx.bytes \o (sock' \o wire')
    BY <1>2, <1>6, BytesAssociate
  <2>2. (rx.bytes \o sock) \o wire = rx.bytes \o (sock \o wire)
    BY <1>2, BytesAssociate
  <2> QED BY <1>4, <1>5, <2>1, <2>2 DEF Stream
<1> QED BY <1>4, <1>7 DEF Unmixed, AllOwn

LEMMA BreakUnmixed == ASSUME Core, Unmixed, Break PROVE Unmixed'
<1> USE DEF Break, clientVars
<1>1. CASE pc # "receive"
  BY <1>1, LeftEmpty DEF Unmixed
<1>2. CASE pc = "receive"
  <2>1. Stream' = rx.bytes \o sock
    <3>1. Stream' = (rx.bytes \o sock) \o <<>>
      BY DEF Stream
    <3> QED BY <3>1, StreamSeq, ConcatEmptySeq
  <2>2. AllOwn(rx.bytes \o sock)
    BY <1>2, StreamSeq, OwnConcat DEF Unmixed, Stream
  <2>3. AllOwn(Stream')
    BY <2>1, <2>2
  <2>4. reqs' = <<>> /\ wire' = <<>> /\ pc' = "receive" /\ Len(reqs') = 0
    BY <1>2
  <2> QED BY <2>3, <2>4 DEF Unmixed, Quiet, AllOwn
<1> QED BY <1>1, <1>2

LEMMA SendUnmixed == ASSUME Core, Unmixed, Send PROVE Unmixed'
<1> USE DEF Send
<1>1. pc' = "receive" /\ reqs = <<>> /\ wire' = <<>> /\ sock' = <<>> /\ rx'.bytes = <<>>
  BY DEF Unmixed, Quiet, NewMessage
<1>2. Stream' = <<>>
  BY <1>1 DEF Stream
<1>3. AllOwn(Stream')
  BY <1>2, EmptyOwn
<1>4. CASE link = "up"
  <2> DEFINE own == [tid |-> request.tid, pdu |-> request.pdu, own |-> TRUE]
  <2>1. reqs' = <<own>>
    BY <1>1, <1>4
  <2>2. own.own
    OBVIOUS
  <2> HIDE DEF own
  <2>3. \A i \in 1 .. Len(reqs') : reqs'[i].own
    BY <2>1, <2>2
  <2> QED BY <1>1, <1>3, <1>4, <2>3 DEF Unmixed, AllOwn
<1>5. CASE link # "up"
  <2>1. reqs' = <<>> /\ Len(reqs') = 0
    BY <1>1, <1>5
  <2> QED BY <1>1, <1>3, <2>1 DEF Unmixed, Quiet, AllOwn
<1> QED BY <1>4, <1>5

LEMMA EachOwnStep ==
  ASSUME Core, Ordered, EachOwn, [Next]_vars, [Timeout \/ Flush => Quiet]_vars
  PROVE  EachOwn'
<1> USE DEF EachOwn
<1>1. CASE Call
  <2>1. reqs = <<>> /\ wire = <<>> /\ sock = <<>>
    BY <1>1 DEF Call, Unmixed, Quiet
  <2>2. reqs' = <<>>
    BY <1>1, <2>1 DEF Call
  <2>3. wire' = <<>> /\ sock' = <<>>
    BY <1>1, <2>1, EmptyOwn DEF Call
  <2> QED BY <1>1, <2>2, <2>3, LeftEmpty DEF Call, OwnAnswer, NoResult, Ok
<1>2. CASE Send
  BY <1>2, SendUnmixed DEF Send, OwnAnswer
<1>3. CASE SendFails
  <2>1. reqs' = <<>> /\ wire' = <<>> /\ sock' = <<>> /\ pc' # "receive"
    BY <1>3 DEF SendFails, Reconnect, Fail, Unmixed, Quiet
  <2> QED BY <1>3, <2>1, LeftEmpty DEF SendFails, Fail, OwnAnswer, Ok
<1>4. CASE Receive
  BY <1>4, ReceivedUnmixed DEF OwnAnswer
<1>5. CASE ReceiveEnd
  <2>1. reqs' = <<>> /\ wire' = <<>> /\ sock' = <<>> /\ pc' # "receive"
    BY <1>5 DEF ReceiveEnd, Reconnect, Fail, Unmixed, Quiet
  <2> QED BY <1>5, <2>1, LeftEmpty DEF ReceiveEnd, Fail, OwnAnswer, Ok
<1>6. CASE Timeout
  <2>1. vars' # vars
    BY <1>6 DEF Timeout, Fail, vars, clientVars
  <2>2. reqs' = <<>> /\ wire' = <<>> /\ sock' = <<>> /\ pc' # "receive"
    BY <1>6, <2>1 DEF Timeout, Fail, Quiet, netVars
  <2> QED BY <1>6, <2>2, LeftEmpty DEF Timeout, Fail, OwnAnswer, Ok
<1>7. CASE Flush
  <2>1. vars' # vars
    BY <1>7 DEF Flush, vars, clientVars
  <2>2. reqs' = <<>> /\ wire' = <<>> /\ sock' = <<>> /\ pc' # "receive" /\ result' = result
    BY <1>7, <2>1 DEF Flush, Quiet
  <2> QED BY <2>2, LeftEmpty DEF OwnAnswer
<1>8. CASE Reopen
  BY <1>8, LeftEmpty DEF Reopen, Reconnect, clientVars, OwnAnswer
<1>9. CASE Serve \/ Arrive \/ Break
  <2>1. result' = result
    BY <1>9 DEF Serve, Arrive, Break, clientVars
  <2> QED BY <1>9, <2>1, ServeUnmixed, ArriveUnmixed, BreakUnmixed DEF OwnAnswer
<1>10. CASE Restore \/ UNCHANGED vars
  <2>1. UNCHANGED <<pc, rx, result, link, reqs, wire, sock>>
    BY <1>10 DEF Restore, vars, clientVars, netVars
  <2>2. Stream' = Stream
    BY <2>1 DEF Stream
  <2> QED BY <2>1, <2>2 DEF Unmixed, Quiet, AllOwn, OwnAnswer
<1> QED BY <1>1, <1>2, <1>3, <1>4, <1>5, <1>6, <1>7, <1>8, <1>9, <1>10 DEF Next, Client, Net

LEMMA InitEachOwn == SessionInit => EachOwn
BY DEF SessionInit, EachOwn, Unmixed, Quiet, OwnAnswer, NoResult, Ok

-----------------------------------------------------------------------------
(* What holds of every session.                                              *)

\* No step of the client, of the server, of the network or of a fault disturbs
\* the invariant: the queue never holds two copies of the request of a call, none
\* before it is sent or after it was executed, and what has been received never
\* grows over the buffer, whatever bytes of other calls stand in the stream.
THEOREM SessionInvariant == Spec => []SessionInv
<1>1. SessionInit => Core
  BY InitSession
<1>2. Core /\ [Next]_vars => Core'
  <2> SUFFICES ASSUME Core, [Next]_vars PROVE Core'
    OBVIOUS
  <2>1. CASE Next
    <3> UNCHANGED recovery
      BY <2>1 DEF Next
    <3>1. CASE Client
      BY <3>1, CallStep, SendStep, SendFailsStep, ReceiveStep, ReceiveEndStep, TimeoutStep,
         FlushStep DEF Client
    <3>2. CASE Net
      BY <3>2, ServeStep, ArriveStep, RestoreStep DEF Net
    <3>3. CASE Reopen
      BY <3>3, ReopenStep
    <3>4. CASE Break
      BY <3>4, BreakStep
    <3> QED BY <2>1, <3>1, <3>2, <3>3, <3>4 DEF Next
  <2>2. CASE UNCHANGED vars
    BY <2>2, Stutter
  <2> QED BY <2>1, <2>2
<1>3. Core /\ Ordered => SessionInv
  BY CoreParts DEF SessionInv, Ordered
<1>4. SessionInit => Ordered
  BY InitOrdered
<1>5. Core /\ Ordered /\ [Next]_vars => Ordered'
  BY OrderedStep
<1> QED BY <1>1, <1>2, <1>3, <1>4, <1>5, PTL DEF Spec

\* Whatever is left in the connection by calls that were given up, and however the
\* answer is cut into pieces: as long as only bytes of its own answer have arrived, a
\* call neither loses nor mistakes them (receive_msg, check_confirmation).
THEOREM OwnBytesSuffice == Spec => OwnBytesAnswer
<1>1. SessionInv => Core /\ Ordered
  BY CoreParts DEF SessionInv, Ordered
<1>2. SessionInv /\ [Next]_vars =>
        [Receive /\ AllOwn(rx.bytes \o sock) => \/ pc' = "receive"
                                                \/ result'.rc \in Ok /\ result'.own]_vars
  BY <1>1, OwnBytesStep
<1> QED BY <1>2, SessionInvariant, PTL DEF Spec, OwnBytesAnswer

\* Among the rest: no message that is being received outgrows the buffer of the
\* caller (receive_msg), and the identifier wraps around within its 16 bits.
THEOREM SessionTypes == Spec => []TypeOK
<1>1. SessionInv => TypeOK
  BY DEF SessionInv
<1> QED BY <1>1, SessionInvariant, PTL

\* With or without the recovery of the link, which connects and sends again, the
\* server executes the request of a call at most once.
THEOREM ExecutedAtMostOnce == Spec => []ExecutedOnce
<1>1. SessionInv => ExecutedOnce
  BY DEF SessionInv
<1> QED BY <1>1, SessionInvariant, PTL

\* As long as the client waits until nothing is on its way any more, connections may
\* break in the middle of a message, the server may refuse, and any recovery mode may
\* be set: a call that returns a value or an exception has it from its own answer.
\* What a timeout that comes too early does to it depends on the bytes left over.
THEOREM OnTimeOwnAnswer == Spec /\ OnTime => []OwnAnswer
<1>1. SessionInv => Core /\ Ordered
  BY CoreParts DEF SessionInv, Ordered
<1>2. SessionInit => EachOwn
  BY InitEachOwn
<1>3. SessionInv /\ EachOwn /\ [Next]_vars /\ [Timeout \/ Flush => Quiet]_vars => EachOwn'
  BY <1>1, EachOwnStep
<1>4. EachOwn => OwnAnswer
  BY DEF EachOwn
<1> QED BY <1>2, <1>3, <1>4, SessionInvariant, PTL DEF Spec, OnTime
=============================================================================
