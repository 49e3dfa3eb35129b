----------------------------- MODULE RtuProofs -----------------------------
(***************************************************************************)
(* The RTU backend.  First its checksum: it detects every error in one of  *)
(* the bytes of a message, whatever the message and however long it is.  A *)
(* byte changes the state of crc16 into another one, and from then on the  *)
(* states of the two messages stay apart: exclusive or can be undone, and  *)
(* no two entries of table_crc_lo are equal.                               *)
(* Then the line: master and slave read just what the other has sent,      *)
(* piece by piece, so that with one slave no call fails; with several a    *)
(* slave may be out of step for one call, and never for two.               *)
(***************************************************************************)
EXTENDS MCRtuBus, SequenceTheorems, WellFoundedInduction, TLAPS

\* What holds of 0 and goes from n to n + 1 holds of every number.
LEMMA NatSet ==
  ASSUME NEW S, 0 \in S, \A n \in Nat : n \in S => n + 1 \in S
  PROVE  Nat \subseteq S
<1> SUFFICES ASSUME Nat \ S # {} PROVE FALSE
  OBVIOUS
<1> DEFINE Less == {ss \in Nat \X Nat : ss[1] < ss[2]}
           T    == Nat \ S
<1>1. IsWellFoundedOn(Less, Nat)
  BY NatLessThanWellFounded DEF OpToRel
<1>2. T \subseteq Nat /\ T # {}
  OBVIOUS
<1>3. \E x \in T : \A y \in T : ~ (<<y, x>> \in Less)
  <2> HIDE DEF Less, T
  <2> QED BY <1>1, <1>2, WFMin
<1>4. PICK x \in T : \A y \in T : ~ (y < x)
  BY <1>3
<1>5. x \in Nat /\ x # 0 /\ x - 1 \in Nat /\ x - 1 < x /\ (x - 1) + 1 = x
  BY <1>4
<1>6. x - 1 \in S
  BY <1>4, <1>5
<1> QED BY <1>4, <1>5, <1>6

-----------------------------------------------------------------------------
\* Exclusive or, place by place.
Bit(x, p) == (x \div p) % 2

\* The byte that has these bits, from the lowest one on.
OfBits(a, b, c, d, e, f, g, h) ==
  a + 2 * b + 4 * c + 8 * d + 16 * e + 32 * f + 64 * g + 128 * h

LEMMA BitsOf ==
  ASSUME NEW x \in Byte
  PROVE  /\ x = OfBits(Bit(x, 1), Bit(x, 2), Bit(x, 4), Bit(x, 8),
                       Bit(x, 16), Bit(x, 32), Bit(x, 64), Bit(x, 128))
         /\ Bit(x, 1) \in {0, 1} /\ Bit(x, 2) \in {0, 1} /\ Bit(x, 4) \in {0, 1}
         /\ Bit(x, 8) \in {0, 1} /\ Bit(x, 16) \in {0, 1} /\ Bit(x, 32) \in {0, 1}
         /\ Bit(x, 64) \in {0, 1} /\ Bit(x, 128) \in {0, 1}
<1>1. x = OfBits(Bit(x, 1), Bit(x, 2), Bit(x, 4), Bit(x, 8),
                 Bit(x, 16), Bit(x, 32), Bit(x, 64), Bit(x, 128))
  BY SMTT(60) DEF Byte, Bit, OfBits
<1> QED BY <1>1, SMTT(60) DEF Byte, Bit

LEMMA BitsAre ==
  ASSUME NEW a \in {0, 1}, NEW b \in {0, 1}, NEW c \in {0, 1}, NEW d \in {0, 1},
         NEW e \in {0, 1}, NEW f \in {0, 1}, NEW g \in {0, 1}, NEW h \in {0, 1},
         NEW x, x = OfBits(a, b, c, d, e, f, g, h)
  PROVE  /\ x \in Byte
         /\ Bit(x, 1) = a /\ Bit(x, 2) = b /\ Bit(x, 4) = c /\ Bit(x, 8) = d
         /\ Bit(x, 16) = e /\ Bit(x, 32) = f /\ Bit(x, 64) = g /\ Bit(x, 128) = h
<1>1. Bit(x, 1) = a
  BY SMTT(30) DEF Bit, OfBits
<1>2. Bit(x, 2) = b
  BY SMTT(30) DEF Bit, OfBits
<1>3. Bit(x, 4) = c
  BY SMTT(30) DEF Bit, OfBits
<1>4. Bit(x, 8) = d
  BY SMTT(30) DEF Bit, OfBits
<1>5. Bit(x, 16) = e
  BY SMTT(30) DEF Bit, OfBits
<1>6. Bit(x, 32) = f
  BY SMTT(30) DEF Bit, OfBits
<1>7. Bit(x, 64) = g
  BY SMTT(30) DEF Bit, OfBits
<1>8. Bit(x, 128) = h
  BY SMTT(30) DEF Bit, OfBits
<1>9. x \in Byte
  BY DEF Byte, OfBits
<1> QED BY <1>1, <1>2, <1>3, <1>4, <1>5, <1>6, <1>7, <1>8, <1>9

\* The places of XorByte.
Differ(u, v) == IF u # v THEN 1 ELSE 0
Places == {1, 2, 4, 8, 16, 32, 64, 128}

LEMMA XorBits ==
  ASSUME NEW a \in Byte, NEW b \in Byte
  PROVE  /\ XorByte(a, b) \in Byte
         /\ \A p \in Places : Bit(XorByte(a, b), p) = Differ(Bit(a, p), Bit(b, p))
<1> DEFINE D(p) == Differ(Bit(a, p), Bit(b, p))
           x    == XorByte(a, b)
<1>1. x = OfBits(D(1), D(2), D(4), D(8), D(16), D(32), D(64), D(128))
  BY SMTT(30) DEF XorByte, Differ, Bit, OfBits
<1>2. /\ D(1) \in {0, 1} /\ D(2) \in {0, 1} /\ D(4) \in {0, 1} /\ D(8) \in {0, 1}
      /\ D(16) \in {0, 1} /\ D(32) \in {0, 1} /\ D(64) \in {0, 1} /\ D(128) \in {0, 1}
  BY DEF Differ
<1> HIDE DEF D, x
<1>3. /\ x \in Byte
      /\ Bit(x, 1) = D(1) /\ Bit(x, 2) = D(2) /\ Bit(x, 4) = D(4) /\ Bit(x, 8) = D(8)
      /\ Bit(x, 16) = D(16) /\ Bit(x, 32) = D(32) /\ Bit(x, 64) = D(64) /\ Bit(x, 128) = D(128)
  BY <1>1, <1>2, BitsAre
<1>4. \A p \in Places : Bit(x, p) = D(p)
  BY <1>3 DEF Places
<1> QED BY <1>3, <1>4 DEF x, D

LEMMA XorIsByte == ASSUME NEW a \in Byte, NEW b \in Byte PROVE XorByte(a, b) \in Byte
  BY XorBits

\* Two bytes that agree in all places are one.
LEMMA SameBits ==
  ASSUME NEW b \in Byte, NEW c \in Byte, \A p \in Places : Bit(b, p) = Bit(c, p)
  PROVE  b = c
<1>1. /\ Bit(b, 1) = Bit(c, 1) /\ Bit(b, 2) = Bit(c, 2) /\ Bit(b, 4) = Bit(c, 4)
      /\ Bit(b, 8) = Bit(c, 8) /\ Bit(b, 16) = Bit(c, 16) /\ Bit(b, 32) = Bit(c, 32)
      /\ Bit(b, 64) = Bit(c, 64) /\ Bit(b, 128) = Bit(c, 128)
  BY DEF Places
<1>2. b = OfBits(Bit(b, 1), Bit(b, 2), Bit(b, 4), Bit(b, 8),
                 Bit(b, 16), Bit(b, 32), Bit(b, 64), Bit(b, 128))
  BY BitsOf
<1>3. c = OfBits(Bit(c, 1), Bit(c, 2), Bit(c, 4), Bit(c, 8),
                 Bit(c, 16), Bit(c, 32), Bit(c, 64), Bit(c, 128))
  BY BitsOf
<1> QED BY <1>1, <1>2, <1>3

\* Exclusive or with one byte can be undone.
LEMMA XorCancels ==
  ASSUME NEW a \in Byte, NEW b \in Byte, NEW c \in Byte, XorByte(a, b) = XorByte(a, c)
  PROVE  b = c
<1>1. \A p \in Places : Bit(XorByte(a, b), p) = Differ(Bit(a, p), Bit(b, p))
  BY XorBits
<1>2. \A p \in Places : Bit(XorByte(a, c), p) = Differ(Bit(a, p), Bit(c, p))
  BY XorBits
<1>3. \A p \in Places : Differ(Bit(a, p), Bit(b, p)) = Differ(Bit(a, p), Bit(c, p))
  BY <1>1, <1>2, Zenon
<1>4. \A p \in Places : Bit(a, p) \in {0, 1} /\ Bit(b, p) \in {0, 1} /\ Bit(c, p) \in {0, 1}
  BY SMT DEF Places, Bit, Byte
<1>5. \A p \in Places : Bit(b, p) = Bit(c, p)
  BY <1>3, <1>4 DEF Differ
<1> QED BY <1>5, SameBits

LEMMA XorCommutes ==
  ASSUME NEW a \in Byte, NEW b \in Byte PROVE XorByte(a, b) = XorByte(b, a)
  BY DEF XorByte

LEMMA XorZero == ASSUME NEW a \in Byte PROVE XorByte(a, 0) = a
<1>1. 0 \in Byte /\ \A p \in Places : Bit(a, p) \in {0, 1} /\ Bit(0, p) = 0
  BY SMT DEF Places, Bit, Byte
<1>2. XorByte(a, 0) \in Byte /\ \A p \in Places : Bit(XorByte(a, 0), p) = Differ(Bit(a, p), Bit(0, p))
  BY <1>1, XorBits
<1>3. \A p \in Places : Bit(XorByte(a, 0), p) = Bit(a, p)
  BY <1>1, <1>2 DEF Differ
<1> QED BY <1>2, <1>3, SameBits

\* An error that is not 0 changes the byte.
LEMMA XorChanges ==
  ASSUME NEW a \in Byte, NEW e \in 1 .. 255 PROVE XorByte(a, e) \in Byte /\ XorByte(a, e) # a
<1>1. e \in Byte /\ 0 \in Byte /\ e # 0
  BY DEF Byte
<1> QED BY <1>1, XorZero, XorIsByte, XorCancels, Zenon

-----------------------------------------------------------------------------
\* At which place of table_crc_lo a byte stands.
PlaceOf == <<1, 4, 7, 6, 16, 13, 10, 11, 31, 30, 25, 28, 18, 19, 24, 21, 64, 61, 58, 59, 49, 52,
  55, 54, 34, 35, 40, 37, 47, 46, 41, 44, 127, 126, 121, 124, 114, 115, 120, 117, 97, 100, 103, 102,
  112, 109, 106, 107, 66, 67, 72, 69, 79, 78, 73, 76, 96, 93, 90, 91, 81, 84, 87, 86, 256, 253,
  250, 251, 241, 244, 247, 246, 226, 227, 232, 229, 239, 238, 233, 236, 193, 196, 199, 198, 208, 205, 202, 203,
  223, 222, 217, 220, 210, 211, 216, 213, 130, 131, 136, 133, 143, 142, 137, 140, 160, 157, 154, 155, 145, 148,
  151, 150, 191, 190, 185, 188, 178, 179, 184, 181, 161, 164, 167, 166, 176, 173, 170, 171, 255, 254, 249, 252,
  242, 243, 248, 245, 225, 228, 231, 230, 240, 237, 234, 235, 194, 195, 200, 197, 207, 206, 201, 204, 224, 221,
  218, 219, 209, 212, 215, 214, 129, 132, 135, 134, 144, 141, 138, 139, 159, 158, 153, 156, 146, 147, 152, 149,
  192, 189, 186, 187, 177, 180, 183, 182, 162, 163, 168, 165, 175, 174, 169, 172, 2, 3, 8, 5, 15, 14,
  9, 12, 32, 29, 26, 27, 17, 20, 23, 22, 63, 62, 57, 60, 50, 51, 56, 53, 33, 36, 39, 38,
  48, 45, 42, 43, 128, 125, 122, 123, 113, 116, 119, 118, 98, 99, 104, 101, 111, 110, 105, 108, 65, 68,
  71, 70, 80, 77, 74, 75, 95, 94, 89, 92, 82, 83, 88, 85>>

LEMMA LowTable == \A i \in 1 .. 256 : table_crc_lo[i] \in 0 .. 255
  BY SMTT(60) DEF table_crc_lo

LEMMA NoEntryTwice == \A i \in 1 .. 256 : PlaceOf[table_crc_lo[i] + 1] = i
  BY SMTT(60) DEF table_crc_lo, PlaceOf

LEMMA HighTable == \A i \in 1 .. 256 : table_crc_hi[i] \in 0 .. 255
  BY SMTT(60) DEF table_crc_hi

-----------------------------------------------------------------------------
\* What crc16 does with one byte.
State == Byte \X Byte
Start == <<255, 255>>
After(c, v) ==
  <<XorByte(c[2], table_crc_hi[XorByte(c[1], v) + 1]), table_crc_lo[XorByte(c[1], v) + 1]>>

LEMMA AfterIsState == ASSUME NEW c \in State, NEW v \in Byte PROVE After(c, v) \in State
<1>1. c[1] \in Byte /\ c[2] \in Byte
  BY DEF State
<1> DEFINE i == XorByte(c[1], v) + 1
<1>2. i \in 1 .. 256
  <2>1. XorByte(c[1], v) \in Byte
    BY <1>1, XorIsByte
  <2> QED BY <2>1 DEF Byte
<1>3. table_crc_hi[i] \in Byte /\ table_crc_lo[i] \in Byte
  BY <1>2, LowTable, HighTable DEF Byte
<1>4. XorByte(c[2], table_crc_hi[i]) \in Byte
  BY <1>1, <1>3, XorBits
<1> QED BY <1>3, <1>4, Zenon DEF After, State

\* Two states or bytes that lead to one state were one.
LEMMA AfterCancels ==
  ASSUME NEW c \in State, NEW d \in State, NEW u \in Byte, NEW v \in Byte,
         After(c, u) = After(d, v)
  PROVE  (c = d) <=> (u = v)
<1>1. c[1] \in Byte /\ c[2] \in Byte /\ d[1] \in Byte /\ d[2] \in Byte
      /\ c = <<c[1], c[2]>> /\ d = <<d[1], d[2]>>
  BY DEF State
<1> DEFINE x == XorByte(c[1], u)
           y == XorByte(d[1], v)
<1>2. x \in Byte /\ y \in Byte
  BY <1>1, XorIsByte
<1>3. /\ table_crc_lo[x + 1] = table_crc_lo[y + 1]
      /\ XorByte(c[2], table_crc_hi[x + 1]) = XorByte(d[2], table_crc_hi[y + 1])
  BY Zenon DEF After
<1>4. x + 1 \in 1 .. 256 /\ y + 1 \in 1 .. 256
  <2> HIDE DEF x, y
  <2> QED BY <1>2 DEF Byte
<1>5. x = y
  <2> HIDE DEF x, y
  <2>1. x + 1 = y + 1
    BY <1>3, <1>4, NoEntryTwice, Zenon
  <2> QED BY <1>2, <2>1 DEF Byte
<1>6. c[2] = d[2]
  <2> DEFINE z == table_crc_hi[x + 1]
  <2>1. z \in Byte
    BY <1>4, HighTable DEF Byte
  <2>2. XorByte(c[2], z) = XorByte(d[2], z)
    BY <1>3, <1>5, Zenon
  <2> HIDE DEF z
  <2> QED BY <1>1, <2>1, <2>2, XorCommutes, XorCancels
<1>7. c[1] = d[1] <=> u = v
  BY <1>1, <1>5, XorCommutes, XorCancels
<1> QED BY <1>1, <1>6, <1>7

\* The states that crc16 goes through with a message.
Run(vals, run) ==
  run = [k \in 0 .. Len(vals) |-> IF k = 0 THEN Start ELSE After(run[k - 1], vals[k])]

LEMMA RunExists == ASSUME NEW vals \in Seq(Byte) PROVE \E run : Run(vals, run)
<1> DEFINE Upto(n, f) == f = [k \in 0 .. n |-> IF k = 0 THEN Start ELSE After(f[k - 1], vals[k])]
           S == {n \in Nat : \E f : Upto(n, f)}
<1>1. 0 \in S
  <2>1. Upto(0, [k \in 0 .. 0 |-> Start])
    OBVIOUS
  <2> QED BY <2>1
<1>2. ASSUME NEW n \in Nat, n \in S PROVE n + 1 \in S
  <2>1. PICK f : Upto(n, f)
    BY <1>2
  <2> DEFINE g == [k \in 0 .. n + 1 |-> IF k = n + 1 THEN After(f[n], vals[n + 1]) ELSE f[k]]
  <2>2. \A k \in 0 .. n : f[k] = IF k = 0 THEN Start ELSE After(f[k - 1], vals[k])
    BY <2>1
  <2>3. \A k \in 0 .. n : g[k] = f[k]
    OBVIOUS
  <2>4. \A k \in 0 .. n + 1 : g[k] = IF k = 0 THEN Start ELSE After(g[k - 1], vals[k])
    <3> TAKE k \in 0 .. n + 1
    <3>1. CASE k = n + 1
      BY <3>1, <2>3
    <3>2. CASE k # n + 1
      <4>1. k \in 0 .. n /\ (k # 0 => k - 1 \in 0 .. n)
        BY <3>2
      <4> QED BY <4>1, <2>2, <2>3
    <3> QED BY <3>1, <3>2
  <2>5. g = [k \in 0 .. n + 1 |-> g[k]]
    OBVIOUS
  <2> HIDE DEF g
  <2>6. Upto(n + 1, g)
    BY <2>4, <2>5
  <2> HIDE DEF Upto
  <2> QED BY <2>6
<1>3. Len(vals) \in S
  <2> HIDE DEF S
  <2> QED BY <1>1, <1>2, NatSet
<1> QED BY <1>3 DEF Run

LEMMA RunIsCrc ==
  ASSUME NEW vals \in Seq(Byte)
  PROVE  \E run : Run(vals, run) /\ crc16(vals) = run[Len(vals)]
<1>1. crc16(vals) = (CHOOSE run : Run(vals, run))[Len(vals)]
  BY DEF crc16, Run, After, Start
<1> QED BY <1>1, RunExists

\* The states are pairs of bytes.
LEMMA RunStates ==
  ASSUME NEW vals \in Seq(Byte), NEW run, Run(vals, run)
  PROVE  /\ run[0] = Start
         /\ \A k \in 1 .. Len(vals) : run[k] = After(run[k - 1], vals[k])
         /\ \A k \in 0 .. Len(vals) : run[k] \in State
<1>1. \A k \in 0 .. Len(vals) : run[k] = IF k = 0 THEN Start ELSE After(run[k - 1], vals[k])
  BY DEF Run
<1>2. run[0] = Start /\ \A k \in 1 .. Len(vals) : run[k] = After(run[k - 1], vals[k])
  BY <1>1
<1> DEFINE S == {n \in Nat : n <= Len(vals) => run[n] \in State}
<1>3. 0 \in S
  <2>1. Start \in State
    BY DEF Start, State, Byte
  <2> QED BY <1>2, <2>1
<1>4. ASSUME NEW n \in Nat, n \in S PROVE n + 1 \in S
  <2> SUFFICES ASSUME n + 1 <= Len(vals) PROVE run[n + 1] \in State
    OBVIOUS
  <2>1. run[n] \in State /\ vals[n + 1] \in Byte /\ n + 1 \in 1 .. Len(vals)
    BY <1>4
  <2>2. run[n + 1] = After(run[n], vals[n + 1])
    BY <1>2, <2>1
  <2> QED BY <2>1, <2>2, AfterIsState
<1>5. Nat \subseteq S
  <2> HIDE DEF S
  <2> QED BY <1>3, <1>4, NatSet
<1> QED BY <1>2, <1>5

\* Two messages that differ in one byte have different checksums: from that byte on,
\* the states stay apart.
LEMMA OneByteShows ==
  ASSUME NEW sent \in Seq(Byte), NEW got \in Seq(Byte), Len(got) = Len(sent),
         NEW j \in 1 .. Len(sent), got[j] # sent[j],
         \A k \in 1 .. Len(sent) : k # j => got[k] = sent[k]
  PROVE  crc16(got) # crc16(sent)
<1>1. PICK f : Run(sent, f) /\ crc16(sent) = f[Len(sent)]
  BY RunIsCrc
<1>2. PICK g : Run(got, g) /\ crc16(got) = g[Len(got)]
  BY RunIsCrc
<1> DEFINE S == {n \in Nat : n <= Len(sent) => (g[n] = f[n] <=> n < j)}
<1>3. /\ f[0] = Start /\ g[0] = Start
      /\ \A k \in 1 .. Len(sent) : f[k] = After(f[k - 1], sent[k]) /\ g[k] = After(g[k - 1], got[k])
      /\ \A k \in 0 .. Len(sent) : f[k] \in State /\ g[k] \in State
  BY <1>1, <1>2, RunStates
<1>4. 0 \in S
  BY <1>3
<1>5. ASSUME NEW n \in Nat, n \in S PROVE n + 1 \in S
  <2> SUFFICES ASSUME n + 1 <= Len(sent) PROVE g[n + 1] = f[n + 1] <=> n + 1 < j
    OBVIOUS
  <2>1. /\ n + 1 \in 1 .. Len(sent) /\ n \in 0 .. Len(sent) /\ (n + 1) - 1 = n
        /\ g[n] = f[n] <=> n < j
    BY <1>5
  <2>2. /\ f[n + 1] = After(f[n], sent[n + 1]) /\ g[n + 1] = After(g[n], got[n + 1])
        /\ f[n] \in State /\ g[n] \in State /\ sent[n + 1] \in Byte /\ got[n + 1] \in Byte
    BY <1>3, <2>1
  <2>3. CASE n + 1 < j
    BY <2>1, <2>2, <2>3
  <2>4. CASE n + 1 = j
    <3>1. g[n] = f[n] /\ got[n + 1] # sent[n + 1]
      BY <2>1, <2>4
    <3> QED BY <2>2, <2>4, <3>1, AfterCancels
  <2>5. CASE n + 1 > j
    <3>1. g[n] # f[n] /\ got[n + 1] = sent[n + 1]
      BY <2>1, <2>5
    <3> QED BY <2>2, <2>5, <3>1, AfterCancels
  <2> QED BY <2>3, <2>4, <2>5
<1>6. Nat \subseteq S
  <2> HIDE DEF S
  <2> QED BY <1>4, <1>5, NatSet
<1> QED BY <1>1, <1>2, <1>6

LEMMA CrcIsState == ASSUME NEW vals \in Seq(Byte) PROVE crc16(vals) \in State
<1>1. PICK run : Run(vals, run) /\ crc16(vals) = run[Len(vals)]
  BY RunIsCrc
<1> QED BY <1>1, RunStates

-----------------------------------------------------------------------------
\* What check_integrity sees of a message that ends with the checksum c.
LEMMA SentParts ==
  ASSUME NEW vals \in Seq(Byte), NEW c \in State, NEW sent, sent = vals \o c
  PROVE  /\ sent \in Seq(Byte) /\ Len(sent) = Len(vals) + 2
         /\ \A k \in 1 .. Len(vals) : sent[k] = vals[k]
         /\ sent[Len(vals) + 1] = c[1] /\ sent[Len(vals) + 2] = c[2]
<1>1. PICK x \in Byte, y \in Byte : c = <<x, y>>
  BY DEF State
<1>2. sent = vals \o <<x, y>>
  BY <1>1
<1> QED BY <1>1, <1>2

LEMMA IntegrityOf ==
  ASSUME NEW vals \in Seq(Byte), NEW c \in State, NEW got \in Seq(Byte),
         Len(got) = Len(vals) + 2,
         \A k \in 1 .. Len(vals) : got[k] = vals[k],
         got[Len(vals) + 1] = c[1], got[Len(vals) + 2] = c[2]
  PROVE  CheckIntegrity(got) <=> crc16(vals) = c
<1> DEFINE n == Len(got)
<1>1. SubSeq(got, 1, n - 2) = vals
  OBVIOUS
<1>2. SubSeq(got, n - 1, n) = c
  BY DEF State
<1> QED BY <1>1, <1>2, Zenon DEF CheckIntegrity

\* The checksum detects every error in one byte of every message.
THEOREM OneByteDetected == \A vals \in Seq(Byte) : Protected(vals)
<1> SUFFICES ASSUME NEW vals \in Seq(Byte) PROVE Protected(vals)
  OBVIOUS
<1> DEFINE sent == SendMsgPre(vals)
           n    == Len(vals)
           crc  == crc16(vals)
<1>1. crc \in State
  BY CrcIsState
<1>2. sent = vals \o crc
  BY DEF SendMsgPre
<1> HIDE DEF sent, crc
<1>3. /\ sent \in Seq(Byte) /\ Len(sent) = n + 2
      /\ \A k \in 1 .. n : sent[k] = vals[k]
      /\ sent[n + 1] = crc[1] /\ sent[n + 2] = crc[2]
  BY <1>1, <1>2, SentParts
<1>4. CheckIntegrity(sent)
  BY <1>1, <1>3, IntegrityOf DEF crc
<1>5. ASSUME NEW i \in DOMAIN sent, NEW error \in 1 .. 255
      PROVE  ~CheckIntegrity([sent EXCEPT ![i] = XorByte(@, error)])
  <2> DEFINE got == [sent EXCEPT ![i] = XorByte(@, error)]
  <2>1. i \in 1 .. n + 2 /\ sent[i] \in Byte
    BY <1>3
  <2>2. XorByte(sent[i], error) \in Byte /\ XorByte(sent[i], error) # sent[i]
    BY <2>1, XorChanges
  <2>3. /\ got \in Seq(Byte) /\ Len(got) = n + 2
        /\ got[i] # sent[i] /\ \A k \in 1 .. n + 2 : got[k] \in Byte /\ (k # i => got[k] = sent[k])
    BY <1>3, <2>1, <2>2
  <2> SUFFICES ~CheckIntegrity(got)
    OBVIOUS
  <2> HIDE DEF got
  <2>4. CASE i <= n
    <3> DEFINE body == SubSeq(got, 1, n)
    <3>1. /\ body \in Seq(Byte) /\ Len(body) = n /\ i \in 1 .. n
          /\ \A k \in 1 .. n : body[k] = got[k]
      BY <2>1, <2>3, <2>4
    <3> HIDE DEF body
    <3>b. body[i] # vals[i] /\ \A k \in 1 .. n : k # i => body[k] = vals[k]
      BY <1>3, <2>1, <2>3, <3>1
    <3>2. crc16(body) # crc
      BY <3>1, <3>b, OneByteShows DEF crc
    <3>3. got[n + 1] = crc[1] /\ got[n + 2] = crc[2]
      BY <1>3, <2>1, <2>3, <2>4
    <3>4. /\ Len(got) = Len(body) + 2 /\ \A k \in 1 .. Len(body) : got[k] = body[k]
          /\ got[Len(body) + 1] = crc[1] /\ got[Len(body) + 2] = crc[2]
      BY <2>3, <3>1, <3>3
    <3>5. CheckIntegrity(got) <=> crc16(body) = crc
      BY <1>1, <2>3, <3>1, <3>4, IntegrityOf, Zenon
    <3> QED BY <3>2, <3>5
  <2>5. CASE i > n
    <3> DEFINE c == <<got[n + 1], got[n + 2]>>
    <3>1. c \in State
      BY <2>3 DEF State
    <3>2. c # crc
      BY <1>1, <1>3, <2>1, <2>3, <2>5 DEF State
    <3>3. \A k \in 1 .. n : got[k] = vals[k]
      BY <1>3, <2>3, <2>5
    <3>4. got[n + 1] = c[1] /\ got[n + 2] = c[2]
      OBVIOUS
    <3> HIDE DEF c
    <3>5. CheckIntegrity(got) <=> crc16(vals) = c
      BY <2>3, <3>1, <3>3, <3>4, IntegrityOf
    <3> QED BY <3>2, <3>5 DEF crc
  <2> QED BY <2>1, <2>4, <2>5
<1>6. \A i \in DOMAIN sent, error \in 1 .. 255 : ~CheckIntegrity(Corrupted(sent, i, error))
  BY <1>5, Zenon DEF Corrupted
<1> QED BY <1>4, <1>6, Zenon DEF Protected, sent

-----------------------------------------------------------------------------
\* What eight shifts make of a register, bit by bit.
Bits == {0, 1}

LEMMA XorOfBits ==
  ASSUME NEW q \in Byte, NEW r \in Byte
  PROVE  XorByte(q, r)
           = OfBits(Differ(Bit(q, 1), Bit(r, 1)), Differ(Bit(q, 2), Bit(r, 2)),
                    Differ(Bit(q, 4), Bit(r, 4)), Differ(Bit(q, 8), Bit(r, 8)),
                    Differ(Bit(q, 16), Bit(r, 16)), Differ(Bit(q, 32), Bit(r, 32)),
                    Differ(Bit(q, 64), Bit(r, 64)), Differ(Bit(q, 128), Bit(r, 128)))
  BY SMTT(30) DEF XorByte, Differ, Bit, OfBits

LEMMA BitsOfByte ==
  ASSUME NEW a \in Bits, NEW b \in Bits, NEW c \in Bits, NEW d \in Bits,
         NEW e \in Bits, NEW f \in Bits, NEW g \in Bits, NEW h \in Bits
  PROVE  OfBits(a, b, c, d, e, f, g, h) \in Byte
  BY DEF Bits, OfBits, Byte

LEMMA XorOfWords ==
  ASSUME NEW a \in Byte, NEW b \in Byte, NEW c \in Byte, NEW d \in Byte
  PROVE  XorWord(256 * b + a, 256 * d + c) = 256 * XorByte(b, d) + XorByte(a, c)
<1>1. /\ (256 * b + a) \div 256 = b /\ (256 * b + a) % 256 = a
      /\ (256 * d + c) \div 256 = d /\ (256 * d + c) % 256 = c
  BY SMTT(30) DEF Byte
<1> QED BY <1>1, Zenon DEF XorWord

LEMMA ShiftBits ==
  ASSUME NEW hi \in Byte, NEW lo \in Byte
  PROVE  Shift(256 * hi + lo)
           = 256 * OfBits(Bit(hi, 2), Bit(hi, 4), Bit(hi, 8), Bit(hi, 16), Bit(hi, 32),
                          Differ(Bit(hi, 64), Bit(lo, 1)), Bit(hi, 128), Bit(lo, 1))
              + OfBits(Differ(Bit(lo, 2), Bit(lo, 1)), Bit(lo, 4), Bit(lo, 8),
                       Bit(lo, 16), Bit(lo, 32), Bit(lo, 64), Bit(lo, 128), Bit(hi, 1))
<1> DEFINE l == OfBits(Bit(lo, 2), Bit(lo, 4), Bit(lo, 8), Bit(lo, 16), Bit(lo, 32),
                       Bit(lo, 64), Bit(lo, 128), Bit(hi, 1))
           h == OfBits(Bit(hi, 2), Bit(hi, 4), Bit(hi, 8), Bit(hi, 16), Bit(hi, 32),
                       Bit(hi, 64), Bit(hi, 128), 0)
<1>1. /\ Bit(lo, 1) \in Bits /\ Bit(lo, 2) \in Bits /\ Bit(lo, 4) \in Bits /\ Bit(lo, 8) \in Bits
      /\ Bit(lo, 16) \in Bits /\ Bit(lo, 32) \in Bits /\ Bit(lo, 64) \in Bits /\ Bit(lo, 128) \in Bits
      /\ Bit(hi, 1) \in Bits /\ Bit(hi, 2) \in Bits /\ Bit(hi, 4) \in Bits /\ Bit(hi, 8) \in Bits
      /\ Bit(hi, 16) \in Bits /\ Bit(hi, 32) \in Bits /\ Bit(hi, 64) \in Bits /\ Bit(hi, 128) \in Bits
  BY BitsOf DEF Bits
<1>2. (256 * hi + lo) % 2 = Bit(lo, 1) /\ (256 * hi + lo) \div 2 = 256 * h + l
  <2>1. lo = OfBits(Bit(lo, 1), Bit(lo, 2), Bit(lo, 4), Bit(lo, 8), Bit(lo, 16),
                    Bit(lo, 32), Bit(lo, 64), Bit(lo, 128))
    BY BitsOf
  <2>2. hi = OfBits(Bit(hi, 1), Bit(hi, 2), Bit(hi, 4), Bit(hi, 8), Bit(hi, 16),
                    Bit(hi, 32), Bit(hi, 64), Bit(hi, 128))
    BY BitsOf
  <2> QED BY <1>1, <2>1, <2>2, SMTT(60) DEF OfBits, Bits
<1>3. CASE Bit(lo, 1) = 0
  <2>1. \A b \in Bits : Differ(b, 0) = b
    BY DEF Differ, Bits
  <2>2. Shift(256 * hi + lo) = 256 * h + l
    <3> HIDE DEF h, l
    <3> QED BY <1>2, <1>3 DEF Shift
  <2>3. Differ(Bit(lo, 2), Bit(lo, 1)) = Bit(lo, 2) /\ Differ(Bit(hi, 64), Bit(lo, 1)) = Bit(hi, 64)
    BY <1>1, <1>3, <2>1
  <2> QED BY <1>3, <2>2, <2>3, Zenon
<1>4. CASE Bit(lo, 1) = 1
  <2> DEFINE one == OfBits(1, 0, 0, 0, 0, 0, 0, 0)
             top == OfBits(0, 0, 0, 0, 0, 1, 0, 1)
  <2>1. 40961 = 256 * top + one
    BY DEF OfBits
  <2>2. Shift(256 * hi + lo) = XorWord(256 * h + l, 40961)
    <3> HIDE DEF h, l
    <3> QED BY <1>2, <1>4 DEF Shift
  <2>3. 0 \in Bits /\ 1 \in Bits
    BY DEF Bits
  <2>4. l \in Byte /\ h \in Byte /\ one \in Byte /\ top \in Byte
    BY <1>1, <2>3, BitsOfByte
  <2>5. /\ \A b \in Bits : Differ(b, 0) = b
        /\ Differ(0, 1) = 1
    BY DEF Differ, Bits
  <2>6. /\ Bit(one, 1) = 1 /\ Bit(one, 2) = 0
        /\ Bit(one, 4) = 0 /\ Bit(one, 8) = 0
        /\ Bit(one, 16) = 0 /\ Bit(one, 32) = 0
        /\ Bit(one, 64) = 0 /\ Bit(one, 128) = 0
        /\ Bit(top, 1) = 0 /\ Bit(top, 2) = 0
        /\ Bit(top, 4) = 0 /\ Bit(top, 8) = 0
        /\ Bit(top, 16) = 0 /\ Bit(top, 32) = 1
        /\ Bit(top, 64) = 0 /\ Bit(top, 128) = 1
    BY SMTT(30) DEF Bit, OfBits
  <2>7. /\ Bit(l, 1) = Bit(lo, 2) /\ Bit(l, 2) = Bit(lo, 4)
        /\ Bit(l, 4) = Bit(lo, 8) /\ Bit(l, 8) = Bit(lo, 16)
        /\ Bit(l, 16) = Bit(lo, 32) /\ Bit(l, 32) = Bit(lo, 64)
        /\ Bit(l, 64) = Bit(lo, 128) /\ Bit(l, 128) = Bit(hi, 1)
    BY <1>1, BitsAre DEF Bits
  <2>8. /\ Bit(h, 1) = Bit(hi, 2) /\ Bit(h, 2) = Bit(hi, 4)
        /\ Bit(h, 4) = Bit(hi, 8) /\ Bit(h, 8) = Bit(hi, 16)
        /\ Bit(h, 16) = Bit(hi, 32) /\ Bit(h, 32) = Bit(hi, 64)
        /\ Bit(h, 64) = Bit(hi, 128) /\ Bit(h, 128) = 0
    BY <1>1, <2>3, BitsAre DEF Bits
  <2>9. XorByte(l, one)
          = OfBits(Differ(Bit(lo, 2), 1), Bit(lo, 4), Bit(lo, 8), Bit(lo, 16),
                   Bit(lo, 32), Bit(lo, 64), Bit(lo, 128), Bit(hi, 1))
    <3> HIDE DEF l, one
    <3>1. /\ Differ(Bit(l, 1), Bit(one, 1)) = Differ(Bit(lo, 2), 1)
          /\ Differ(Bit(l, 2), Bit(one, 2)) = Bit(lo, 4)
          /\ Differ(Bit(l, 4), Bit(one, 4)) = Bit(lo, 8)
          /\ Differ(Bit(l, 8), Bit(one, 8)) = Bit(lo, 16)
          /\ Differ(Bit(l, 16), Bit(one, 16)) = Bit(lo, 32)
          /\ Differ(Bit(l, 32), Bit(one, 32)) = Bit(lo, 64)
          /\ Differ(Bit(l, 64), Bit(one, 64)) = Bit(lo, 128)
          /\ Differ(Bit(l, 128), Bit(one, 128)) = Bit(hi, 1)
      BY <1>1, <2>5, <2>6, <2>7
    <3>2. XorByte(l, one)
            = OfBits(Differ(Bit(l, 1), Bit(one, 1)), Differ(Bit(l, 2), Bit(one, 2)),
                   Differ(Bit(l, 4), Bit(one, 4)), Differ(Bit(l, 8), Bit(one, 8)),
                   Differ(Bit(l, 16), Bit(one, 16)), Differ(Bit(l, 32), Bit(one, 32)),
                   Differ(Bit(l, 64), Bit(one, 64)), Differ(Bit(l, 128), Bit(one, 128)))
      BY <2>4, XorOfBits
    <3> QED BY <3>1, <3>2, Zenon
  <2>10. XorByte(h, top)
           = OfBits(Bit(hi, 2), Bit(hi, 4), Bit(hi, 8), Bit(hi, 16), Bit(hi, 32),
                    Differ(Bit(hi, 64), 1), Bit(hi, 128), 1)
    <3> HIDE DEF h, top
    <3>1. /\ Differ(Bit(h, 1), Bit(top, 1)) = Bit(hi, 2)
          /\ Differ(Bit(h, 2), Bit(top, 2)) = Bit(hi, 4)
          /\ Differ(Bit(h, 4), Bit(top, 4)) = Bit(hi, 8)
          /\ Differ(Bit(h, 8), Bit(top, 8)) = Bit(hi, 16)
          /\ Differ(Bit(h, 16), Bit(top, 16)) = Bit(hi, 32)
          /\ Differ(Bit(h, 32), Bit(top, 32)) = Differ(Bit(hi, 64), 1)
          /\ Differ(Bit(h, 64), Bit(top, 64)) = Bit(hi, 128)
          /\ Differ(Bit(h, 128), Bit(top, 128)) = 1
      BY <1>1, <2>5, <2>6, <2>8
    <3>2. XorByte(h, top)
            = OfBits(Differ(Bit(h, 1), Bit(top, 1)), Differ(Bit(h, 2), Bit(top, 2)),
                   Differ(Bit(h, 4), Bit(top, 4)), Differ(Bit(h, 8), Bit(top, 8)),
                   Differ(Bit(h, 16), Bit(top, 16)), Differ(Bit(h, 32), Bit(top, 32)),
                   Differ(Bit(h, 64), Bit(top, 64)), Differ(Bit(h, 128), Bit(top, 128)))
      BY <2>4, XorOfBits
    <3> QED BY <3>1, <3>2, Zenon
  <2>11. XorWord(256 * h + l, 256 * top + one) = 256 * XorByte(h, top) + XorByte(l, one)
    <3> HIDE DEF h, l, top, one
    <3> QED BY <2>4, XorOfWords
  <2>12. Shift(256 * hi + lo) = 256 * XorByte(h, top) + XorByte(l, one)
    <3> HIDE DEF h, l, top, one
    <3> QED BY <2>1, <2>2, <2>11
  <2> HIDE DEF h, l, top, one
  <2>13. XorByte(h, top)
           = OfBits(Bit(hi, 2), Bit(hi, 4), Bit(hi, 8), Bit(hi, 16), Bit(hi, 32),
                    Differ(Bit(hi, 64), Bit(lo, 1)), Bit(hi, 128), Bit(lo, 1))
    BY <1>4, <2>10, Zenon
  <2>14. XorByte(l, one)
           = OfBits(Differ(Bit(lo, 2), Bit(lo, 1)), Bit(lo, 4), Bit(lo, 8),
                    Bit(lo, 16), Bit(lo, 32), Bit(lo, 64), Bit(lo, 128), Bit(hi, 1))
    BY <1>4, <2>9, Zenon
  <2> QED BY <2>12, <2>13, <2>14, Zenon
<1>5. Bit(lo, 1) = 0 \/ Bit(lo, 1) = 1
  BY <1>1 DEF Bits
<1> QED BY <1>3, <1>4, <1>5, Zenon

\* One byte more: eight shifts do what the tables do.  The bits that are shifted out,
\* t1 to t8, are the parities of the first bits of the byte, and the entries of the
\* tables consist of them.
LEMMA DifferIsBit == ASSUME NEW a, NEW b PROVE Differ(a, b) \in Bits
  BY DEF Differ, Bits

LEMMA EightShifts ==
  ASSUME NEW b \in Byte, NEW i \in Byte
  PROVE  ShiftByte(256 * b + i) = 256 * table_crc_lo[i + 1] + XorByte(b, table_crc_hi[i + 1])
<1> DEFINE w0  == Bit(i, 1)
           w1  == Bit(i, 2)
           w2  == Bit(i, 4)
           w3  == Bit(i, 8)
           w4  == Bit(i, 16)
           w5  == Bit(i, 32)
           w6  == Bit(i, 64)
           w7  == Bit(i, 128)
           w8  == Bit(b, 1)
           w9  == Bit(b, 2)
           w10 == Bit(b, 4)
           w11 == Bit(b, 8)
           w12 == Bit(b, 16)
           w13 == Bit(b, 32)
           w14 == Bit(b, 64)
           w15 == Bit(b, 128)
           t1  == w0
           t2  == Differ(w1, t1)
           t3  == Differ(w2, t2)
           t4  == Differ(w3, t3)
           t5  == Differ(w4, t4)
           t6  == Differ(w5, t5)
           t7  == Differ(w6, t6)
           t8  == Differ(w7, t7)
<1>1. /\ w0 \in Bits /\ w1 \in Bits /\ w2 \in Bits /\ w3 \in Bits
      /\ w4 \in Bits /\ w5 \in Bits /\ w6 \in Bits /\ w7 \in Bits
      /\ w8 \in Bits /\ w9 \in Bits /\ w10 \in Bits /\ w11 \in Bits
      /\ w12 \in Bits /\ w13 \in Bits /\ w14 \in Bits /\ w15 \in Bits
  BY BitsOf DEF Bits
<1>2. /\ t1 \in Bits /\ t2 \in Bits /\ t3 \in Bits /\ t4 \in Bits
      /\ t5 \in Bits /\ t6 \in Bits /\ t7 \in Bits /\ t8 \in Bits
  BY <1>1, DifferIsBit
<1>3. i = OfBits(w0, w1, w2, w3, w4, w5, w6, w7) /\ b = OfBits(w8, w9, w10, w11,
                                                                    w12, w13, w14, w15)
  BY BitsOf
<1>4. /\ t1 = w0 /\ t2 = Differ(w1, t1) /\ t3 = Differ(w2, t2) /\ t4 = Differ(w3, t3)
      /\ t5 = Differ(w4, t4) /\ t6 = Differ(w5, t5) /\ t7 = Differ(w6, t6) /\ t8 = Differ(w7, t7)
  OBVIOUS
<1>5. /\ Bit(i, 1) = w0 /\ Bit(i, 2) = w1
      /\ Bit(i, 4) = w2 /\ Bit(i, 8) = w3
      /\ Bit(i, 16) = w4 /\ Bit(i, 32) = w5
      /\ Bit(i, 64) = w6 /\ Bit(i, 128) = w7
      /\ Bit(b, 1) = w8 /\ Bit(b, 2) = w9
      /\ Bit(b, 4) = w10 /\ Bit(b, 8) = w11
      /\ Bit(b, 16) = w12 /\ Bit(b, 32) = w13
      /\ Bit(b, 64) = w14 /\ Bit(b, 128) = w15
  OBVIOUS
<1> HIDE DEF w0, w1, w2, w3, w4, w5, w6, w7, w8, w9, w10, w11, w12, w13, w14, w15, t1,
             t2, t3, t4, t5, t6, t7, t8
\* The first shift.
<1> DEFINE l1 == OfBits(t2, w2, w3, w4, w5, w6, w7, w8)
           h1 == OfBits(w9, w10, w11, w12, w13, Differ(w14, t1), w15, t1)
<1>6. /\ l1 \in Byte /\ l1 = OfBits(t2, w2, w3, w4, w5, w6, w7, w8)
       /\ Bit(l1, 1) = t2 /\ Bit(l1, 2) = w2
       /\ Bit(l1, 4) = w3 /\ Bit(l1, 8) = w4
       /\ Bit(l1, 16) = w5 /\ Bit(l1, 32) = w6
       /\ Bit(l1, 64) = w7 /\ Bit(l1, 128) = w8
  BY <1>1, <1>2, DifferIsBit, BitsAre DEF Bits
<1>7. /\ h1 \in Byte /\ h1 = OfBits(w9, w10, w11, w12, w13, Differ(w14, t1), w15, t1)
       /\ Bit(h1, 1) = w9 /\ Bit(h1, 2) = w10
       /\ Bit(h1, 4) = w11 /\ Bit(h1, 8) = w12
       /\ Bit(h1, 16) = w13 /\ Bit(h1, 32) = Differ(w14, t1)
       /\ Bit(h1, 64) = w15 /\ Bit(h1, 128) = t1
  BY <1>1, <1>2, DifferIsBit, BitsAre DEF Bits
<1> HIDE DEF l1, h1
<1>8. Shift(256 * b + i) = 256 * h1 + l1
  BY <1>4, <1>5, <1>6, <1>7, ShiftBits
\* The second shift.
<1> DEFINE l2 == OfBits(t3, w3, w4, w5, w6, w7, w8, w9)
           h2 == OfBits(w10, w11, w12, w13, Differ(w14, t1), Differ(w15, t2), t1, t2)
<1>9. /\ l2 \in Byte /\ l2 = OfBits(t3, w3, w4, w5, w6, w7, w8, w9)
       /\ Bit(l2, 1) = t3 /\ Bit(l2, 2) = w3
       /\ Bit(l2, 4) = w4 /\ Bit(l2, 8) = w5
       /\ Bit(l2, 16) = w6 /\ Bit(l2, 32) = w7
       /\ Bit(l2, 64) = w8 /\ Bit(l2, 128) = w9
  BY <1>1, <1>2, DifferIsBit, BitsAre DEF Bits
<1>10. /\ h2 \in Byte /\ h2 = OfBits(w10, w11, w12, w13, Differ(w14, t1), Differ(w15, t2),
                                  t1, t2)
       /\ Bit(h2, 1) = w10 /\ Bit(h2, 2) = w11
       /\ Bit(h2, 4) = w12 /\ Bit(h2, 8) = w13
       /\ Bit(h2, 16) = Differ(w14, t1) /\ Bit(h2, 32) = Differ(w15, t2)
       /\ Bit(h2, 64) = t1 /\ Bit(h2, 128) = t2
  BY <1>1, <1>2, DifferIsBit, BitsAre DEF Bits
<1> HIDE DEF l2, h2
<1>11. Shift(256 * h1 + l1) = 256 * h2 + l2
  BY <1>4, <1>6, <1>7, <1>9, <1>10, ShiftBits
\* The third shift.
<1> DEFINE l3 == OfBits(t4, w4, w5, w6, w7, w8, w9, w10)
           h3 == OfBits(w11, w12, w13, Differ(w14, t1), Differ(w15, t2),
                        Differ(t1, t3), t2, t3)
<1>12. /\ l3 \in Byte /\ l3 = OfBits(t4, w4, w5, w6, w7, w8, w9, w10)
       /\ Bit(l3, 1) = t4 /\ Bit(l3, 2) = w4
       /\ Bit(l3, 4) = w5 /\ Bit(l3, 8) = w6
       /\ Bit(l3, 16) = w7 /\ Bit(l3, 32) = w8
       /\ Bit(l3, 64) = w9 /\ Bit(l3, 128) = w10
  BY <1>1, <1>2, DifferIsBit, BitsAre DEF Bits
<1>13. /\ h3 \in Byte /\ h3 = OfBits(w11, w12, w13, Differ(w14, t1), Differ(w15, t2),
                                  Differ(t1, t3), t2, t3)
       /\ Bit(h3, 1) = w11 /\ Bit(h3, 2) = w12
       /\ Bit(h3, 4) = w13 /\ Bit(h3, 8) = Differ(w14, t1)
       /\ Bit(h3, 16) = Differ(w15, t2) /\ Bit(h3, 32) = Differ(t1, t3)
       /\ Bit(h3, 64) = t2 /\ Bit(h3, 128) = t3
  BY <1>1, <1>2, DifferIsBit, BitsAre DEF Bits
<1> HIDE DEF l3, h3
<1>14. Shift(256 * h2 + l2) = 256 * h3 + l3
  BY <1>4, <1>9, <1>10, <1>12, <1>13, ShiftBits
\* The fourth shift.
<1> DEFINE l4 == OfBits(t5, w5, w6, w7, w8, w9, w10, w11)
           h4 == OfBits(w12, w13, Differ(w14, t1), Differ(w15, t2), Differ(t1, t3),
                        Differ(t2, t4), t3, t4)
<1>15. /\ l4 \in Byte /\ l4 = OfBits(t5, w5, w6, w7, w8, w9, w10, w11)
       /\ Bit(l4, 1) = t5 /\ Bit(l4, 2) = w5
       /\ Bit(l4, 4) = w6 /\ Bit(l4, 8) = w7
       /\ Bit(l4, 16) = w8 /\ Bit(l4, 32) = w9
       /\ Bit(l4, 64) = w10 /\ Bit(l4, 128) = w11
  BY <1>1, <1>2, DifferIsBit, BitsAre DEF Bits
<1>16. /\ h4 \in Byte /\ h4 = OfBits(w12, w13, Differ(w14, t1), Differ(w15, t2),
                                  Differ(t1, t3), Differ(t2, t4), t3, t4)
       /\ Bit(h4, 1) = w12 /\ Bit(h4, 2) = w13
       /\ Bit(h4, 4) = Differ(w14, t1) /\ Bit(h4, 8) = Differ(w15, t2)
       /\ Bit(h4, 16) = Differ(t1, t3) /\ Bit(h4, 32) = Differ(t2, t4)
       /\ Bit(h4, 64) = t3 /\ Bit(h4, 128) = t4
  BY <1>1, <1>2, DifferIsBit, BitsAre DEF Bits
<1> HIDE DEF l4, h4
<1>17. Shift(256 * h3 + l3) = 256 * h4 + l4
  BY <1>4, <1>12, <1>13, <1>15, <1>16, ShiftBits
\* The fifth shift.
<1> DEFINE l5 == OfBits(t6, w6, w7, w8, w9, w10, w11, w12)
           h5 == OfBits(w13, Differ(w14, t1), Differ(w15, t2), Differ(t1, t3),
                        Differ(t2, t4), Differ(t3, t5), t4, t5)
<1>18. /\ l5 \in Byte /\ l5 = OfBits(t6, w6, w7, w8, w9, w10, w11, w12)
       /\ Bit(l5, 1) = t6 /\ Bit(l5, 2) = w6
       /\ Bit(l5, 4) = w7 /\ Bit(l5, 8) = w8
       /\ Bit(l5, 16) = w9 /\ Bit(l5, 32) = w10
       /\ Bit(l5, 64) = w11 /\ Bit(l5, 128) = w12
  BY <1>1, <1>2, DifferIsBit, BitsAre DEF Bits
<1>19. /\ h5 \in Byte /\ h5 = OfBits(w13, Differ(w14, t1), Differ(w15, t2),
                                  Differ(t1, t3), Differ(t2, t4), Differ(t3, t5), t4, t5)
       /\ Bit(h5, 1) = w13 /\ Bit(h5, 2) = Differ(w14, t1)
       /\ Bit(h5, 4) = Differ(w15, t2) /\ Bit(h5, 8) = Differ(t1, t3)
       /\ Bit(h5, 16) = Differ(t2, t4) /\ Bit(h5, 32) = Differ(t3, t5)
       /\ Bit(h5, 64) = t4 /\ Bit(h5, 128) = t5
  BY <1>1, <1>2, DifferIsBit, BitsAre DEF Bits
<1> HIDE DEF l5, h5
<1>20. Shift(256 * h4 + l4) = 256 * h5 + l5
  BY <1>4, <1>15, <1>16, <1>18, <1>19, ShiftBits
\* The sixth shift.
<1> DEFINE l6 == OfBits(t7, w7, w8, w9, w10, w11, w12, w13)
           h6 == OfBits(Differ(w14, t1), Differ(w15, t2), Differ(t1, t3),
                        Differ(t2, t4), Differ(t3, t5), Differ(t4, t6), t5, t6)
<1>21. /\ l6 \in Byte /\ l6 = OfBits(t7, w7, w8, w9, w10, w11, w12, w13)
       /\ Bit(l6, 1) = t7 /\ Bit(l6, 2) = w7
       /\ Bit(l6, 4) = w8 /\ Bit(l6, 8) = w9
       /\ Bit(l6, 16) = w10 /\ Bit(l6, 32) = w11
       /\ Bit(l6, 64) = w12 /\ Bit(l6, 128) = w13
  BY <1>1, <1>2, DifferIsBit, BitsAre DEF Bits
<1>22. /\ h6 \in Byte /\ h6 = OfBits(Differ(w14, t1), Differ(w15, t2), Differ(t1, t3),
                                  Differ(t2, t4), Differ(t3, t5), Differ(t4, t6), t5, t6)
       /\ Bit(h6, 1) = Differ(w14, t1) /\ Bit(h6, 2) = Differ(w15, t2)
       /\ Bit(h6, 4) = Differ(t1, t3) /\ Bit(h6, 8) = Differ(t2, t4)
       /\ Bit(h6, 16) = Differ(t3, t5) /\ Bit(h6, 32) = Differ(t4, t6)
       /\ Bit(h6, 64) = t5 /\ Bit(h6, 128) = t6
  BY <1>1, <1>2, DifferIsBit, BitsAre DEF Bits
<1> HIDE DEF l6, h6
<1>23. Shift(256 * h5 + l5) = 256 * h6 + l6
  BY <1>4, <1>18, <1>19, <1>21, <1>22, ShiftBits
\* The seventh shift.
<1> DEFINE l7 == OfBits(t8, w8, w9, w10, w11, w12, w13, Differ(w14, t1))
           h7 == OfBits(Differ(w15, t2), Differ(t1, t3), Differ(t2, t4),
                        Differ(t3, t5), Differ(t4, t6), Differ(t5, t7), t6, t7)
<1>24. /\ l7 \in Byte /\ l7 = OfBits(t8, w8, w9, w10, w11, w12, w13, Differ(w14, t1))
       /\ Bit(l7, 1) = t8 /\ Bit(l7, 2) = w8
       /\ Bit(l7, 4) = w9 /\ Bit(l7, 8) = w10
       /\ Bit(l7, 16) = w11 /\ Bit(l7, 32) = w12
       /\ Bit(l7, 64) = w13 /\ Bit(l7, 128) = Differ(w14, t1)
  BY <1>1, <1>2, DifferIsBit, BitsAre DEF Bits
<1>25. /\ h7 \in Byte /\ h7 = OfBits(Differ(w15, t2), Differ(t1, t3), Differ(t2, t4),
                                  Differ(t3, t5), Differ(t4, t6), Differ(t5, t7), t6, t7)
       /\ Bit(h7, 1) = Differ(w15, t2) /\ Bit(h7, 2) = Differ(t1, t3)
       /\ Bit(h7, 4) = Differ(t2, t4) /\ Bit(h7, 8) = Differ(t3, t5)
       /\ Bit(h7, 16) = Differ(t4, t6) /\ Bit(h7, 32) = Differ(t5, t7)
       /\ Bit(h7, 64) = t6 /\ Bit(h7, 128) = t7
  BY <1>1, <1>2, DifferIsBit, BitsAre DEF Bits
<1> HIDE DEF l7, h7
<1>26. Shift(256 * h6 + l6) = 256 * h7 + l7
  BY <1>4, <1>21, <1>22, <1>24, <1>25, ShiftBits
\* The eighth shift.
<1> DEFINE l8 == OfBits(Differ(w8, t8), w9, w10, w11, w12, w13, Differ(w14, t1),
                        Differ(w15, t2))
           h8 == OfBits(Differ(t1, t3), Differ(t2, t4), Differ(t3, t5), Differ(t4, t6),
                        Differ(t5, t7), Differ(t6, t8), t7, t8)
<1>27. /\ l8 \in Byte /\ l8 = OfBits(Differ(w8, t8), w9, w10, w11, w12, w13,
                                  Differ(w14, t1), Differ(w15, t2))
       /\ Bit(l8, 1) = Differ(w8, t8) /\ Bit(l8, 2) = w9
       /\ Bit(l8, 4) = w10 /\ Bit(l8, 8) = w11
       /\ Bit(l8, 16) = w12 /\ Bit(l8, 32) = w13
       /\ Bit(l8, 64) = Differ(w14, t1) /\ Bit(l8, 128) = Differ(w15, t2)
  BY <1>1, <1>2, DifferIsBit, BitsAre DEF Bits
<1>28. /\ h8 \in Byte /\ h8 = OfBits(Differ(t1, t3), Differ(t2, t4), Differ(t3, t5),
                                  Differ(t4, t6), Differ(t5, t7), Differ(t6, t8), t7, t8)
       /\ Bit(h8, 1) = Differ(t1, t3) /\ Bit(h8, 2) = Differ(t2, t4)
       /\ Bit(h8, 4) = Differ(t3, t5) /\ Bit(h8, 8) = Differ(t4, t6)
       /\ Bit(h8, 16) = Differ(t5, t7) /\ Bit(h8, 32) = Differ(t6, t8)
       /\ Bit(h8, 64) = t7 /\ Bit(h8, 128) = t8
  BY <1>1, <1>2, DifferIsBit, BitsAre DEF Bits
<1> HIDE DEF l8, h8
<1>29. Shift(256 * h7 + l7) = 256 * h8 + l8
  BY <1>4, <1>24, <1>25, <1>27, <1>28, ShiftBits
<1>30. ShiftByte(256 * b + i) = 256 * h8 + l8
  BY <1>8, <1>11, <1>14, <1>17, <1>20, <1>23, <1>26, <1>29 DEF ShiftByte
<1>31. table_crc_lo[i + 1] = h8
  <2>1. table_crc_lo[i + 1] = OfBits(Differ(t1, t3), Differ(t2, t4), Differ(t3, t5),
                                    Differ(t4, t6), Differ(t5, t7), Differ(t6, t8), t7,
                                    t8)
    BY <1>1, <1>2, <1>3, <1>4, SMTT(200) DEF table_crc_lo, OfBits, Differ, Bits
  <2> QED BY <2>1, <1>28
<1>32. XorByte(b, table_crc_hi[i + 1]) = l8
  <2>1. table_crc_hi[i + 1] = OfBits(t8, 0, 0, 0, 0, 0, t1, t2)
    BY <1>1, <1>2, <1>3, <1>4, SMTT(200) DEF table_crc_hi, OfBits, Differ, Bits
  <2>2. 0 \in Bits /\ \A v \in Bits : Differ(v, 0) = v
    BY DEF Bits, Differ
  <2> DEFINE z == OfBits(t8, 0, 0, 0, 0, 0, t1, t2)
  <2>3. /\ z \in Byte /\ z = OfBits(t8, 0, 0, 0, 0, 0, t1, t2)
        /\ Bit(z, 1) = t8 /\ Bit(z, 2) = 0
        /\ Bit(z, 4) = 0 /\ Bit(z, 8) = 0
        /\ Bit(z, 16) = 0 /\ Bit(z, 32) = 0
        /\ Bit(z, 64) = t1 /\ Bit(z, 128) = t2
    BY <1>2, <2>2, BitsAre DEF Bits
  <2> HIDE DEF z
  <2>4. /\ Differ(Bit(b, 1), Bit(z, 1)) = Differ(w8, t8)
        /\ Differ(Bit(b, 2), Bit(z, 2)) = w9
        /\ Differ(Bit(b, 4), Bit(z, 4)) = w10
        /\ Differ(Bit(b, 8), Bit(z, 8)) = w11
        /\ Differ(Bit(b, 16), Bit(z, 16)) = w12
        /\ Differ(Bit(b, 32), Bit(z, 32)) = w13
        /\ Differ(Bit(b, 64), Bit(z, 64)) = Differ(w14, t1)
        /\ Differ(Bit(b, 128), Bit(z, 128)) = Differ(w15, t2)
    BY <1>1, <1>5, <2>2, <2>3
  <2>5. XorByte(b, z)
          = OfBits(Differ(Bit(b, 1), Bit(z, 1)), Differ(Bit(b, 2), Bit(z, 2)),
                   Differ(Bit(b, 4), Bit(z, 4)), Differ(Bit(b, 8), Bit(z, 8)),
                   Differ(Bit(b, 16), Bit(z, 16)), Differ(Bit(b, 32), Bit(z, 32)),
                   Differ(Bit(b, 64), Bit(z, 64)), Differ(Bit(b, 128), Bit(z, 128)))
    BY <2>3, XorOfBits
  <2> QED BY <1>27, <2>1, <2>3, <2>4, <2>5, Zenon
<1> QED BY <1>30, <1>31, <1>32, Zenon

\* The register of CRC-16 that a state of crc16 stands for.
Value(c) == 256 * c[2] + c[1]

LEMMA OneByteMore ==
  ASSUME NEW c \in State, NEW v \in Byte
  PROVE  ShiftByte(XorWord(Value(c), v)) = Value(After(c, v))
<1> DEFINE i == XorByte(c[1], v)
<1>1. c[1] \in Byte /\ c[2] \in Byte /\ 0 \in Byte /\ 256 * 0 + v = v
  BY DEF State, Byte
<1>2. i \in Byte
  BY <1>1, XorIsByte
<1>3. XorWord(256 * c[2] + c[1], 256 * 0 + v) = 256 * XorByte(c[2], 0) + i
  BY <1>1, XorOfWords
<1>4. XorWord(Value(c), v) = 256 * c[2] + i
  BY <1>1, <1>3, XorZero, Zenon DEF Value
<1>5. ShiftByte(256 * c[2] + i) = 256 * table_crc_lo[i + 1] + XorByte(c[2], table_crc_hi[i + 1])
  <2> HIDE DEF i
  <2> QED BY <1>1, <1>2, EightShifts
<1>6. /\ After(c, v)[1] = XorByte(c[2], table_crc_hi[i + 1])
      /\ After(c, v)[2] = table_crc_lo[i + 1]
  BY DEF After
<1> QED BY <1>4, <1>5, <1>6, Zenon DEF Value

\* The register goes through the values of the states of crc16, byte by byte.
Register(vals, register) ==
  register = [k \in 0 .. Len(vals) |->
                IF k = 0 THEN 65535 ELSE ShiftByte(XorWord(register[k - 1], vals[k]))]

LEMMA RegisterExists == ASSUME NEW vals \in Seq(Byte) PROVE \E register : Register(vals, register)
<1>1. PICK run : Run(vals, run)
  BY RunExists
<1>2. /\ run[0] = Start
      /\ \A k \in 1 .. Len(vals) : run[k] = After(run[k - 1], vals[k])
      /\ \A k \in 0 .. Len(vals) : run[k] \in State
  BY <1>1, RunStates
<1> DEFINE r == [k \in 0 .. Len(vals) |-> Value(run[k])]
<1>3. \A k \in 0 .. Len(vals) :
        r[k] = IF k = 0 THEN 65535 ELSE ShiftByte(XorWord(r[k - 1], vals[k]))
  <2> TAKE k \in 0 .. Len(vals)
  <2>1. CASE k = 0
    <3>1. Value(Start) = 65535
      BY DEF Value, Start
    <3> QED BY <1>2, <2>1, <3>1
  <2>2. CASE k # 0
    <3>1. k \in 1 .. Len(vals) /\ k - 1 \in 0 .. Len(vals) /\ vals[k] \in Byte
      BY <2>2
    <3>2. r[k] = Value(After(run[k - 1], vals[k])) /\ r[k - 1] = Value(run[k - 1])
      BY <1>2, <3>1
    <3>3. ShiftByte(XorWord(Value(run[k - 1]), vals[k])) = Value(After(run[k - 1], vals[k]))
      BY <1>2, <3>1, OneByteMore
    <3>4. r[k] = ShiftByte(XorWord(r[k - 1], vals[k]))
      <4> HIDE DEF r
      <4> QED BY <3>2, <3>3, Zenon
    <3> QED BY <2>2, <3>4
  <2> QED BY <2>1, <2>2
<1>4. r = [k \in 0 .. Len(vals) |-> r[k]]
  OBVIOUS
<1>5. Register(vals, r)
  <2> HIDE DEF r
  <2> QED BY <1>3, <1>4 DEF Register
<1> QED BY <1>5

LEMMA TablesAreCrc ==
  ASSUME NEW vals \in Seq(Byte)
  PROVE  crc16(vals) = <<Crc16(vals) % 256, Crc16(vals) \div 256>>
<1>1. PICK run : Run(vals, run) /\ crc16(vals) = run[Len(vals)]
  BY RunIsCrc
<1>2. /\ run[0] = Start
      /\ \A k \in 1 .. Len(vals) : run[k] = After(run[k - 1], vals[k])
      /\ \A k \in 0 .. Len(vals) : run[k] \in State
  BY <1>1, RunStates
<1>3. Crc16(vals) = (CHOOSE register : Register(vals, register))[Len(vals)]
  BY DEF Crc16, Register
<1>4. PICK register : Register(vals, register) /\ Crc16(vals) = register[Len(vals)]
  BY <1>3, RegisterExists
<1>5. \A k \in 0 .. Len(vals) :
        register[k] = IF k = 0 THEN 65535 ELSE ShiftByte(XorWord(register[k - 1], vals[k]))
  BY <1>4 DEF Register
<1> DEFINE S == {n \in Nat : n <= Len(vals) => register[n] = Value(run[n])}
<1>6. 0 \in S
  <2>1. Value(Start) = 65535
    BY DEF Value, Start
  <2> QED BY <1>2, <1>5, <2>1
<1>7. ASSUME NEW n \in Nat, n \in S PROVE n + 1 \in S
  <2> SUFFICES ASSUME n + 1 <= Len(vals) PROVE register[n + 1] = Value(run[n + 1])
    OBVIOUS
  <2>1. /\ n + 1 \in 1 .. Len(vals) /\ n + 1 \in 0 .. Len(vals) /\ n \in 0 .. Len(vals)
        /\ (n + 1) - 1 = n /\ n + 1 # 0 /\ vals[n + 1] \in Byte
        /\ register[n] = Value(run[n])
    BY <1>7
  <2>2. run[n + 1] = After(run[n], vals[n + 1]) /\ run[n] \in State
    BY <1>2, <2>1
  <2>3. register[n + 1] = ShiftByte(XorWord(register[n], vals[n + 1]))
    BY <1>5, <2>1
  <2> QED BY <2>1, <2>2, <2>3, OneByteMore
<1>8. Nat \subseteq S
  <2> HIDE DEF S
  <2> QED BY <1>6, <1>7, NatSet
<1>9. Crc16(vals) = Value(crc16(vals)) /\ crc16(vals) \in State
  BY <1>1, <1>2, <1>4, <1>8
<1>10. PICK hi \in Byte, lo \in Byte : crc16(vals) = <<hi, lo>>
  BY <1>9 DEF State
<1>11. Crc16(vals) = 256 * lo + hi
  BY <1>9, <1>10 DEF Value
<1>12. (256 * lo + hi) % 256 = hi /\ (256 * lo + hi) \div 256 = lo
  BY SMTT(30) DEF Byte
<1> QED BY <1>10, <1>11, <1>12, Zenon

-----------------------------------------------------------------------------
LEMMA MessageInvariant == MCSpec => [](message \in Seq(Byte))
<1> DEFINE Inv == message \in Seq(Byte)
<1>1. MCInit => Inv
  <2>1. <<>> \in Seq(Byte) /\ \A b \in Byte : <<b>> \in Seq(Byte)
    OBVIOUS
  <2> QED BY <2>1 DEF MCInit
<1>2. Inv /\ [MCNext]_<<vars, message>> => Inv'
  <2> SUFFICES ASSUME Inv, [MCNext]_<<vars, message>> PROVE Inv'
    OBVIOUS
  <2>1. CASE Grow
    BY <2>1, MessageAssumption DEF Grow
  <2>2. CASE Done
    BY <2>2 DEF Done
  <2>3. CASE UNCHANGED message
    BY <2>3
  <2> QED BY <2>1, <2>2, <2>3, Zenon DEF MCNext
<1> QED BY <1>1, <1>2, PTL DEF MCSpec

\* For every message, of any length: the loop over the two tables (crc16, l.141-155)
\* computes CRC-16 as it is defined, bit by bit.
THEOREM TablesAreCrc16Always == MCSpec => []TablesAreCrc16
<1>1. message \in Seq(Byte) => TablesAreCrc16
  BY TablesAreCrc DEF TablesAreCrc16
<1> QED BY <1>1, MessageInvariant, PTL

\* For every message, of any length: what send_msg_pre has made of it is accepted by
\* check_integrity, and no wrong byte in it, or in its checksum, goes unnoticed.
THEOREM NoErrorUnnoticed == MCSpec => []ErrorsDetected
<1>1. message \in Seq(Byte) => ErrorsDetected
  BY OneByteDetected DEF ErrorsDetected
<1> QED BY <1>1, MessageInvariant, PTL

-----------------------------------------------------------------------------
(* Messages on the line, and the receiver.                                   *)

\* The lengths of modbus-rtu.h.
RtuLengths == adu_header = 1 /\ adu_checksum = 2 /\ adu_max = 256

Cell == [val : Byte, by : [from : Nodes, now : BOOLEAN]]

LEMMA SplitAgain ==
  ASSUME NEW T, NEW b \in Seq(T), NEW i \in Nat, NEW j \in Nat, i + j <= Len(b),
         NEW in, in = SubSeq(b, i + 1, Len(b))
  PROVE  /\ Len(in) = Len(b) - i
         /\ SubSeq(b, 1, i) \o SubSeq(in, 1, j) = SubSeq(b, 1, i + j)
         /\ SubSeq(in, j + 1, Len(in)) = SubSeq(b, i + j + 1, Len(b))
         /\ Len(SubSeq(in, 1, j)) = j /\ Len(SubSeq(b, 1, i)) = i
OBVIOUS

LEMMA PrefixBytes ==
  ASSUME NEW b \in Seq(Cell), NEW j \in Nat, j <= Len(b)
  PROVE  \A i \in Nat : i < j => ByteAt(SubSeq(b, 1, j), i) = ByteAt(b, i)
BY DEF ByteAt

\* A message whose lengths receive_msg computes as they are.
Fits(b, kind) ==
  /\ b \in Seq(Cell)
  /\ Meta(b, kind) \in Nat \ {0} /\ Data(b, kind) \in Nat \ {0}
  /\ Len(b) = 2 + Meta(b, kind) + Data(b, kind) /\ Len(b) <= 256
  /\ kind = "confirmation" \/ (kind = "indication" /\ Function(b) \in {3, 6, 16})

\* m has been received of b, in is to come: up to the function code, the meta part, or
\* the data.
At(b, i, step, n) == [bytes |-> SubSeq(b, 1, i), step |-> step, length_to_read |-> n]
Receiving(b, kind, m, in) ==
  \E i \in Nat : /\ in = SubSeq(b, i + 1, Len(b))
          /\ \/ i = 0 /\ m = At(b, i, "function", 2)
             \/ i = 2 /\ m = At(b, i, "meta", Meta(b, kind))
             \/ i = 2 + Meta(b, kind) /\ m = At(b, i, "data", Data(b, kind))

LEMMA NewReceiving ==
  ASSUME RtuLengths, NEW b, NEW kind, Fits(b, kind)
  PROVE  Receiving(b, kind, NewMessage, b)
<1>1. SubSeq(b, 1, 0) = <<>> /\ b = SubSeq(b, 0 + 1, Len(b)) /\ 0 \in Nat
  BY DEF Fits
<1>2. NewMessage = At(b, 0, "function", 2)
  BY <1>1 DEF NewMessage, At, RtuLengths
<1> QED BY <1>1, <1>2 DEF Receiving

LEMMA PrefixMeta ==
  ASSUME RtuLengths, NEW b, NEW kind, Fits(b, kind), NEW j \in Nat, 2 <= j, j <= Len(b)
  PROVE  Meta(SubSeq(b, 1, j), kind) = Meta(b, kind)
<1>1. Function(SubSeq(b, 1, j)) = Function(b)
  BY PrefixBytes DEF Fits, Function, RtuLengths
<1> QED BY <1>1 DEF Meta

LEMMA PrefixData ==
  ASSUME RtuLengths, NEW b, NEW kind, Fits(b, kind)
  PROVE  Data(SubSeq(b, 1, 2 + Meta(b, kind)), kind) = Data(b, kind)
<1> DEFINE j == 2 + Meta(b, kind)
           c == SubSeq(b, 1, j)
<1>1. j \in Nat /\ j <= Len(b) /\ 3 <= j /\ b \in Seq(Cell)
  BY DEF Fits
<1>2. \A i \in Nat : i < j => ByteAt(c, i) = ByteAt(b, i)
  BY <1>1, PrefixBytes
<1> HIDE DEF c
<1>3. Function(c) = Function(b)
  BY <1>1, <1>2 DEF Function, RtuLengths
<1>4. CASE kind = "confirmation"
  <2>1. CountAt(b, kind) = 2 /\ CountAt(c, kind) = 2
    BY <1>4 DEF CountAt, RtuLengths
  <2>2. ByteAt(c, 2) = ByteAt(b, 2)
    BY <1>1, <1>2
  <2> QED BY <1>3, <2>1, <2>2, Zenon DEF Data, c
<1>5. CASE kind = "indication" /\ Function(b) = 16
  <2>1. CountAt(b, kind) = 6 /\ CountAt(c, kind) = 6
    BY <1>3, <1>5 DEF CountAt, RtuLengths, Frames!WRITE_AND_READ_REGISTERS
  <2>2. j = 7
    <3>1. Meta(b, kind) = 5
      BY <1>5 DEF Meta, Frames!RequestMeta, Frames!WRITE_SINGLE_REGISTER,
           Frames!WRITE_MULTIPLE_COILS, Frames!WRITE_MULTIPLE_REGISTERS,
           Frames!WRITE_AND_READ_REGISTERS
    <3> QED BY <3>1
  <2>3. ByteAt(c, 6) = ByteAt(b, 6)
    BY <1>2, <2>2
  <2> QED BY <1>3, <2>1, <2>3, Zenon DEF Data, c
<1>6. CASE kind = "indication" /\ Function(b) \in {3, 6}
  <2>1. \A m : m.function \in {3, 6} => Frames!RequestData(m) = 0
    BY DEF Frames!RequestData, Frames!WRITE_MULTIPLE_COILS, Frames!WRITE_MULTIPLE_REGISTERS,
       Frames!WRITE_AND_READ_REGISTERS
  <2>2. Data(b, kind) = adu_checksum + 0 /\ Data(c, kind) = adu_checksum + 0
    BY <1>3, <1>6, <2>1 DEF Data
  <2> QED BY <2>2 DEF c
<1> QED BY <1>4, <1>5, <1>6 DEF Fits

\* What has come of a message, and the rest of it, at the next read.
LEMMA ReadOn ==
  ASSUME RtuLengths, NEW b, NEW kind, Fits(b, kind), NEW m, NEW in, Receiving(b, kind, m, in)
  PROVE  LET n    == Taken(m, Len(in))
             got  == Read(m, SubSeq(in, 1, n), kind)
             rest == SubSeq(in, n + 1, Len(in))
         IN /\ in # <<>> /\ ~TooLong(got)
            /\ \/ ~Complete(got) /\ Receiving(b, kind, got, rest)
               \/ Complete(got) /\ got.bytes = b /\ rest = <<>>
<1> DEFINE meta == Meta(b, kind)
           data == Data(b, kind)
           n    == Taken(m, Len(in))
           new  == SubSeq(in, 1, n)
           got  == Read(m, new, kind)
           rest == SubSeq(in, n + 1, Len(in))
<1>1. /\ b \in Seq(Cell) /\ meta \in Nat \ {0} /\ data \in Nat \ {0}
      /\ Len(b) = 2 + meta + data /\ Len(b) <= 256
  BY DEF Fits
<1>2. PICK i \in Nat : /\ in = SubSeq(b, i + 1, Len(b))
               /\ \/ i = 0 /\ m = At(b, i, "function", 2)
                  \/ i = 2 /\ m = At(b, i, "meta", Meta(b, kind))
                  \/ i = 2 + Meta(b, kind) /\ m = At(b, i, "data", Data(b, kind))
  BY DEF Receiving
<1>3. Meta(SubSeq(b, 1, 2), kind) = meta /\ Data(SubSeq(b, 1, 2 + meta), kind) = data
  BY <1>1, PrefixMeta, PrefixData
<1> DEFINE j == m.length_to_read
<1>4. j \in Nat \ {0} /\ i + j <= Len(b) /\ m.bytes = SubSeq(b, 1, i)
  <2>1. \A x, y : At(b, i, x, y).length_to_read = y /\ At(b, i, x, y).bytes = SubSeq(b, 1, i)
    BY DEF At
  <2>2. m.bytes = SubSeq(b, 1, i)
    <3>1. \E x, y : m = At(b, i, x, y)
      BY <1>2, Zenon
    <3> QED BY <2>1, <3>1, Zenon
  <2>3. (i = 0 /\ j = 2) \/ (i = 2 /\ j = meta) \/ (i = 2 + meta /\ j = data)
    BY <1>2, <2>1
  <2> HIDE DEF j, meta, data
  <2>4. j \in Nat \ {0} /\ i + j <= Len(b)
    BY <1>1, <2>3
  <2> QED BY <2>2, <2>4
<1> HIDE DEF meta, data, j
<1>5. /\ Len(in) = Len(b) - i
      /\ m.bytes \o SubSeq(in, 1, j) = SubSeq(b, 1, i + j)
      /\ SubSeq(in, j + 1, Len(in)) = SubSeq(b, i + j + 1, Len(b))
      /\ Len(SubSeq(in, 1, j)) = j
  BY <1>1, <1>2, <1>4, SplitAgain
<1>6. n = j /\ in # <<>>
  <2>1. Len(in) >= j
    BY <1>1, <1>4, <1>5
  <2>2. Len(in) # 0
    BY <1>1, <1>4, <2>1
  <2>3. n = IF Len(in) < j THEN Len(in) ELSE j
    BY DEF Taken, j
  <2> HIDE DEF n
  <2> QED BY <1>1, <1>4, <1>5, <2>1, <2>2, <2>3
<1>7. m.bytes \o new = SubSeq(b, 1, i + j) /\ rest = SubSeq(b, (i + j) + 1, Len(b)) /\ Len(new) = j
  BY <1>5, <1>6
<1>8. m.length_to_read - Len(new) = 0
  <2>1. m.length_to_read = j
    BY DEF j
  <2> HIDE DEF new
  <2> QED BY <1>4, <1>7, <2>1
<1> HIDE DEF n, new, rest
<1>9. CASE i = 0 /\ m = At(b, i, "function", 2)
  <2>1. j = 2 /\ m.step = "function"
    BY <1>9 DEF At, j
  <2>2. Meta(m.bytes \o new, kind) # 0 /\ Meta(m.bytes \o new, kind) = meta
    BY <1>1, <1>3, <1>7, <1>9, <2>1
  <2>3. got = At(b, 2, "meta", meta)
    BY <1>7, <1>8, <1>9, <2>1, <2>2 DEF Read, At
  <2>4. rest = SubSeq(b, 2 + 1, Len(b))
    BY <1>7, <1>9, <2>1
  <2>5. Receiving(b, kind, got, rest)
    BY <2>3, <2>4 DEF Receiving, meta
  <2> QED BY <1>6, <2>3, <2>5 DEF TooLong, Complete, At, n, new, rest
<1>10. CASE i = 2 /\ m = At(b, i, "meta", Meta(b, kind))
  <2>1. j = meta /\ m.step = "meta"
    BY <1>10 DEF At, meta, j
  <2>2. Data(m.bytes \o new, kind) = data
    BY <1>3, <1>7, <1>10, <2>1
  <2>3. got = At(b, 2 + meta, "data", data)
    <3>1. m.bytes \o new = SubSeq(b, 1, 2 + meta)
      BY <1>7, <1>10, <2>1
    <3>2. got = [bytes |-> m.bytes \o new, step |-> "data", length_to_read |-> data]
      BY <1>8, <2>1, <2>2 DEF Read
    <3> QED BY <3>1, <3>2 DEF At
  <2>4. rest = SubSeq(b, (2 + meta) + 1, Len(b))
    BY <1>7, <1>10, <2>1
  <2>5. Receiving(b, kind, got, rest)
    <3> DEFINE k == 2 + meta
    <3>1. k \in Nat /\ rest = SubSeq(b, k + 1, Len(b)) /\ got = At(b, k, "data", data)
      BY <1>1, <2>3, <2>4
    <3>2. k = 2 + Meta(b, kind) /\ data = Data(b, kind)
      BY DEF meta, data
    <3> HIDE DEF k, got
    <3> QED BY <3>1, <3>2, Zenon DEF Receiving
  <2>6. got.step = "data" /\ Len(got.bytes) = 2 + meta /\ got.length_to_read = data
    BY <1>1, <2>3 DEF At
  <2>7. ~TooLong(got) /\ ~Complete(got)
    BY <1>1, <2>6 DEF TooLong, Complete, RtuLengths
  <2> QED BY <1>6, <2>5, <2>7 DEF n, new, rest
<1>11. CASE i = 2 + Meta(b, kind) /\ m = At(b, i, "data", Data(b, kind))
  <2>1. j = data /\ m.step = "data" /\ i + j = Len(b)
    BY <1>1, <1>11 DEF At, meta, data, j
  <2>2. got = [m EXCEPT !.bytes = SubSeq(b, 1, Len(b)), !.length_to_read = 0]
    BY <1>7, <1>8, <2>1 DEF Read
  <2>3. SubSeq(b, 1, Len(b)) = b /\ SubSeq(b, Len(b) + 1, Len(b)) = <<>>
    BY <1>1
  <2>4. got.step = "data" /\ got.bytes = b /\ got.length_to_read = 0
    BY <1>11, <2>2, <2>3 DEF At
  <2>5. rest = <<>>
    BY <1>7, <2>1, <2>3
  <2>6. ~TooLong(got) /\ Complete(got)
    BY <1>1, <2>4 DEF TooLong, Complete, RtuLengths
  <2> QED BY <1>6, <2>4, <2>5, <2>6 DEF n, new, rest
<1> QED BY <1>2, <1>9, <1>10, <1>11, Zenon

-----------------------------------------------------------------------------
(* What is sent.                                                             *)

Senders == [from : Nodes, now : BOOLEAN]
Message(vals, by) == Bytes(SendMsgPre(vals), by)

LEMMA BytesParts ==
  ASSUME NEW vals \in Seq(Byte), NEW by \in Senders
  PROVE  LET b == Bytes(vals, by) IN
         /\ b \in Seq(Cell) /\ Len(b) = Len(vals)
         /\ \A i \in 1 .. Len(vals) : b[i] = [val |-> vals[i], by |-> by]
         /\ Vals(b) = vals /\ AllBy(b, by)
<1> DEFINE b == Bytes(vals, by)
<1>1. DOMAIN vals = 1 .. Len(vals) /\ Len(vals) \in Nat
      /\ \A i \in 1 .. Len(vals) : vals[i] \in Byte
  BY LenProperties, ElementOfSeq
<1>2. b = [i \in 1 .. Len(vals) |-> [val |-> vals[i], by |-> by]]
  BY <1>1 DEF Bytes
<1>3. \A i \in 1 .. Len(vals) : [val |-> vals[i], by |-> by] \in Cell
  BY <1>1 DEF Cell, Senders
<1> HIDE DEF b
<1>4. b \in [1 .. Len(vals) -> Cell]
  BY <1>2, <1>3
<1>5. b \in Seq(Cell) /\ Len(b) = Len(vals)
  <2>1. b \in Seq(Cell)
    BY <1>1, <1>4, SeqDef
  <2>2. 1 .. Len(b) = 1 .. Len(vals) /\ Len(b) \in Nat
    BY <1>4, <2>1, LenProperties
  <2> QED BY <1>1, <2>1, <2>2
<1>6. \A i \in 1 .. Len(vals) : b[i].val = vals[i] /\ b[i].by = by
  BY <1>2
<1>7. DOMAIN b = 1 .. Len(vals)
  BY <1>2
<1>8. Vals(b) = vals
  <2>1. Vals(b) = [i \in 1 .. Len(vals) |-> vals[i]]
    BY <1>6, <1>7, Zenon DEF Vals
  <2>2. vals = [i \in 1 .. Len(vals) |-> vals[i]]
    BY <1>1, SeqDef
  <2> QED BY <2>1, <2>2
<1>9. AllBy(b, by)
  BY <1>6, <1>7, Zenon DEF AllBy
<1> QED BY <1>2, <1>5, <1>8, <1>9 DEF b

LEMMA MessageParts ==
  ASSUME NEW vals \in Seq(Byte), NEW by \in Senders
  PROVE  LET b == Message(vals, by) IN
         /\ b \in Seq(Cell) /\ Len(b) = Len(vals) + 2
         /\ \A i \in 1 .. Len(vals) : b[i] = [val |-> vals[i], by |-> by]
         /\ Vals(b) \in Seq(Byte) /\ Len(Vals(b)) = Len(vals) + 2
         /\ \A i \in 1 .. Len(vals) : Vals(b)[i] = vals[i]
         /\ CheckIntegrity(Vals(b)) /\ AllBy(b, by)
<1> DEFINE sent == SendMsgPre(vals)
           c    == crc16(vals)
<1>1. c \in State
  BY CrcIsState
<1>2. sent = vals \o c
  BY DEF SendMsgPre
<1> HIDE DEF c, sent
<1>3. /\ sent \in Seq(Byte) /\ Len(sent) = Len(vals) + 2
      /\ \A k \in 1 .. Len(vals) : sent[k] = vals[k]
      /\ sent[Len(vals) + 1] = c[1] /\ sent[Len(vals) + 2] = c[2]
  BY <1>1, <1>2, SentParts
<1>4. CheckIntegrity(sent)
  BY <1>1, <1>3, IntegrityOf DEF c
<1>5. \A i \in 1 .. Len(vals) : i \in 1 .. Len(sent)
  BY <1>3, LenProperties
<1> DEFINE b == Bytes(sent, by)
<1>6. /\ b \in Seq(Cell) /\ Len(b) = Len(sent)
      /\ \A i \in 1 .. Len(sent) : b[i] = [val |-> sent[i], by |-> by]
      /\ Vals(b) = sent /\ AllBy(b, by)
  BY <1>3, BytesParts
<1>7. Message(vals, by) = b
  BY DEF Message, sent
<1> HIDE DEF b
<1>8. \A i \in 1 .. Len(vals) : b[i] = [val |-> vals[i], by |-> by]
  BY <1>3, <1>5, <1>6, Zenon
<1>9. Len(b) = Len(vals) + 2 /\ CheckIntegrity(Vals(b)) /\ Vals(b) = sent
  BY <1>3, <1>4, <1>6, Zenon
<1> QED BY <1>3, <1>6, <1>7, <1>8, <1>9, Zenon

\* A message of a slave, or to one: its number, and what follows from the function
\* code on.
LEMMA PduParts ==
  ASSUME NEW s \in Byte, NEW p \in Seq(Byte), NEW by \in Senders
  PROVE  LET b == Message(<<s>> \o p, by) IN
         /\ b \in Seq(Cell) /\ Len(b) = Len(p) + 3
         /\ ByteAt(b, 0) = s /\ \A i \in 1 .. Len(p) : ByteAt(b, i) = p[i]
         /\ SubSeq(Vals(b), 2, Len(b) - 2) = p
         /\ CheckIntegrity(Vals(b)) /\ AllBy(b, by)
<1> DEFINE v == <<s>> \o p
           b == Message(v, by)
<1>1. /\ v \in Seq(Byte) /\ Len(v) = Len(p) + 1 /\ Len(p) \in Nat
      /\ v[1] = s /\ \A i \in 1 .. Len(p) : v[i + 1] = p[i]
  OBVIOUS
<1> HIDE DEF v
<1>2. /\ b \in Seq(Cell) /\ Len(b) = Len(v) + 2
      /\ \A i \in 1 .. Len(v) : b[i] = [val |-> v[i], by |-> by]
      /\ Vals(b) \in Seq(Byte) /\ Len(Vals(b)) = Len(v) + 2
      /\ \A i \in 1 .. Len(v) : Vals(b)[i] = v[i]
      /\ CheckIntegrity(Vals(b)) /\ AllBy(b, by)
  BY <1>1, MessageParts
<1> HIDE DEF b
<1>3. Len(b) = Len(p) + 3
  BY <1>1, <1>2
<1>4. \A i \in 1 .. Len(v) : b[i].val = v[i]
  <2>1. \A x : [val |-> x, by |-> by].val = x
    OBVIOUS
  <2> QED BY <1>2, <2>1, Zenon
<1>5. ByteAt(b, 0) = s
  <2>1. 0 < Len(b) /\ 1 \in 1 .. Len(v) /\ 0 + 1 = 1
    BY <1>1, <1>3
  <2> QED BY <1>1, <1>4, <2>1 DEF ByteAt
<1>6. \A i \in 1 .. Len(p) : ByteAt(b, i) = p[i]
  <2> SUFFICES ASSUME NEW i \in 1 .. Len(p) PROVE ByteAt(b, i) = p[i]
    OBVIOUS
  <2>1. i < Len(b) /\ i + 1 \in 1 .. Len(v)
    BY <1>1, <1>3
  <2> QED BY <1>1, <1>4, <2>1 DEF ByteAt
<1>7. SubSeq(Vals(b), 2, Len(b) - 2) = p
  <2> DEFINE sent == Vals(b)
  <2>1. sent \in Seq(Byte) /\ Len(sent) = Len(v) + 2 /\ \A k \in 1 .. Len(v) : sent[k] = v[k]
    BY <1>2
  <2> HIDE DEF sent
  <2>2. Len(b) - 2 = Len(p) + 1 /\ \A i \in 1 .. Len(p) : i + 1 \in 1 .. Len(v)
    BY <1>1, <1>3
  <2>3. \A i \in 1 .. Len(p) : sent[i + 1] = p[i]
    BY <1>1, <2>1, <2>2
  <2>4. SubSeq(sent, 2, Len(p) + 1) = p
    BY <1>1, <2>1, <2>3
  <2> QED BY <2>2, <2>4 DEF sent
<1> QED BY <1>2, <1>3, <1>5, <1>6, <1>7 DEF b, v

-----------------------------------------------------------------------------
(* Requests, and their answers.                                              *)

\* Requests that read or write registers: as long as they are, and no more registers
\* than the server does not refuse.
Requests == {p \in Seq(Byte) : /\ Len(p) >= 5 /\ p[1] \in {3, 6, 16}
                               /\ p[1] # 16 => Len(p) = 5
                               /\ p[1] = 3 => p[4] = 0 /\ p[5] \in 1 .. 125
                               /\ p[1] = 16 => /\ p[4] = 0 /\ p[5] \in 1 .. 123
                                               /\ p[6] = 2 * p[5] /\ Len(p) = 6 + p[6]}

\* An exception, the registers that were read, or what was written.
Excepts(p, a) == Len(a) = 2 /\ a[1] = p[1] + 128 /\ a[2] = 2
Reads(p, a)   == p[1] = 3 /\ Len(a) = 2 + 2 * p[5] /\ a[1] = 3 /\ a[2] = 2 * p[5]
Writes(p, a)  == p[1] \in {6, 16} /\ Len(a) = 5 /\ a[1] = p[1] /\ a[4] = p[4] /\ a[5] = p[5]

LEMMA FirstFive ==
  ASSUME NEW p \in Requests
  PROVE  /\ p \in Seq(Byte) /\ Len(p) \in Nat /\ Len(p) >= 5 /\ p[1] \in {3, 6, 16}
         /\ \A i \in 1 .. 5 : i \in 1 .. Len(p) /\ p[i] \in Byte
<1>1. p \in Seq(Byte) /\ Len(p) >= 5 /\ p[1] \in {3, 6, 16}
  BY DEF Requests
<1>2. Len(p) \in Nat /\ \A i \in 1 .. Len(p) : p[i] \in Byte
  BY <1>1, LenProperties, ElementOfSeq
<1>3. \A i \in 1 .. 5 : i \in 1 .. Len(p)
  BY <1>1, <1>2
<1> QED BY <1>1, <1>2, <1>3

LEMMA ExceptionCode == \A f \in {3, 6, 16} : f + 128 \in Byte /\ 2 \in Byte
BY DEF Byte

LEMMA AnswerFields ==
  ASSUME NEW p \in Requests
  PROVE  LET a == AnswerPdu(p) IN
         a \in Seq(Byte) /\ (Excepts(p, a) \/ Reads(p, a) \/ Writes(p, a))
<1>1. /\ p \in Seq(Byte) /\ Len(p) >= 5 /\ p[1] \in {3, 6, 16}
      /\ \A i \in 1 .. 5 : i \in 1 .. Len(p) /\ p[i] \in Byte
  BY FirstFive
<1>2. p[1] = 3 => p[5] \in 1 .. 125
  BY DEF Requests
<1> DEFINE below == 256 * p[2] + p[3] < 28
           read  == 256 * p[2] + p[3] >= 28 /\ p[1] = 3
           f     == [i \in 1 .. 2 * p[5] |-> IF i % 2 = 1 THEN 4 ELSE 87]
           x     == <<p[1] + 128, 2>>
           y     == <<3, 2 * p[5]>> \o f
           z     == SubSeq(p, 1, 5)
<1>3. AnswerPdu(p) = CASE below -> x [] read -> y [] OTHER -> z
  BY DEF AnswerPdu
<1>4. below \/ read \/ p[1] # 3
  <2>1. p[2] \in Byte /\ p[3] \in Byte
    BY <1>1
  <2>2. \A v, w \in Byte : 256 * v + w < 28 \/ 256 * v + w >= 28
    BY SMT DEF Byte
  <2> QED BY <2>1, <2>2
<1>5. x \in Seq(Byte) /\ Excepts(p, x)
  <2>1. p[1] + 128 \in Byte /\ 2 \in Byte
    BY <1>1, ExceptionCode, Zenon
  <2> HIDE DEF f, y, z, below, read
  <2> QED BY <2>1 DEF Excepts
<1>6. p[1] = 3 => y \in Seq(Byte) /\ Reads(p, y)
  <2> SUFFICES ASSUME p[1] = 3 PROVE y \in Seq(Byte) /\ Reads(p, y)
    OBVIOUS
  <2>1. PICK n \in Nat : n = p[5] /\ n <= 125
    BY <1>2
  <2>2. 2 * n \in Nat /\ 2 * n \in Byte /\ 3 \in Byte
    BY <2>1 DEF Byte
  <2> DEFINE g == [i \in 1 .. 2 * n |-> IF i % 2 = 1 THEN 4 ELSE 87]
             h == <<3, 2 * n>>
  <2>3. g \in [1 .. 2 * n -> Byte]
    BY DEF Byte
  <2>4. g \in Seq(Byte) /\ Len(g) = 2 * n
    <3> HIDE DEF g
    <3>1. g \in Seq(Byte)
      BY <2>2, <2>3, SeqDef
    <3>2. 1 .. Len(g) = 1 .. 2 * n /\ Len(g) \in Nat
      BY <2>3, <3>1, LenProperties
    <3> QED BY <2>2, <3>1, <3>2
  <2>5. h \in Seq(Byte) /\ Len(h) = 2 /\ h[1] = 3 /\ h[2] = 2 * n
    BY <2>2
  <2>6. y = h \o g
    BY <2>1
  <2> HIDE DEF f, g, h, y
  <2>7. /\ h \o g \in Seq(Byte) /\ Len(h \o g) = Len(h) + Len(g)
        /\ \A i \in 1 .. Len(h) + Len(g) : (h \o g)[i] = IF i <= Len(h) THEN h[i] ELSE g[i - Len(h)]
    BY <2>4, <2>5, ConcatProperties
  <2>8. Len(h \o g) = 2 + 2 * n /\ (h \o g)[1] = h[1] /\ (h \o g)[2] = h[2]
    BY <2>2, <2>4, <2>5, <2>7
  <2> QED BY <2>1, <2>5, <2>6, <2>7, <2>8 DEF Reads
<1>7. p[1] # 3 => z \in Seq(Byte) /\ Writes(p, z)
  <2>1. z \in Seq(Byte) /\ Len(z) = 5 /\ \A i \in 1 .. 5 : z[i] = p[i]
    BY <1>1
  <2> QED BY <1>1, <2>1 DEF Writes
<1> HIDE DEF below, read, x, y, z
<1>8. read => p[1] = 3
  BY DEF read
<1> QED BY <1>3, <1>4, <1>5, <1>6, <1>7, <1>8

LEMMA FitsBy ==
  ASSUME NEW b \in Seq(Cell), NEW kind, NEW meta \in Nat, NEW data \in Nat, meta # 0, data # 0,
         Meta(b, kind) = meta, Data(b, kind) = data,
         Len(b) = 2 + meta + data, Len(b) <= 256,
         kind = "confirmation" \/ (kind = "indication" /\ Function(b) \in {3, 6, 16})
  PROVE  Fits(b, kind)
BY DEF Fits

LEMMA RequestLength ==
  ASSUME NEW p \in Requests
  PROVE  \/ p[1] \in {3, 6} /\ Len(p) = 5
         \/ p[1] = 16 /\ \E k \in 1 .. 123 : p[6] = 2 * k /\ Len(p) = 6 + 2 * k
<1>1. p[1] \in {3, 6, 16} /\ (p[1] # 16 => Len(p) = 5)
  BY Zenon DEF Requests
<1>2. p[1] = 16 => p[5] \in 1 .. 123 /\ p[6] = 2 * p[5] /\ Len(p) = 6 + p[6]
  BY Zenon DEF Requests
<1>3. p[1] = 16 => \E k \in 1 .. 123 : p[6] = 2 * k /\ Len(p) = 6 + 2 * k
  BY <1>2, Zenon
<1> QED BY <1>1, <1>3, Zenon

\* The slave takes a request to be just as long as the master has sent it, ...
LEMMA RequestLengthRead ==
  ASSUME RtuLengths, NEW b, NEW p,
         \A i \in 1 .. Len(p) : ByteAt(b, i) = p[i],
         NEW l \in Nat, l = Len(p),
         \/ p[1] \in {3, 6} /\ l = 5
         \/ p[1] = 16 /\ \E k \in 1 .. 123 : p[6] = 2 * k /\ l = 6 + 2 * k
  PROVE  \E meta \in Nat, data \in Nat :
           /\ meta # 0 /\ data # 0 /\ Meta(b, "indication") = meta /\ Data(b, "indication") = data
           /\ l + 3 = 2 + meta + data /\ l + 3 <= 256 /\ Function(b) \in {3, 6, 16}
<1> USE DEF Frames!READ_INPUT_REGISTERS, Frames!WRITE_SINGLE_COIL, Frames!WRITE_SINGLE_REGISTER,
            Frames!WRITE_MULTIPLE_COILS, Frames!WRITE_MULTIPLE_REGISTERS,
            Frames!REPORT_SLAVE_ID, Frames!WRITE_AND_READ_REGISTERS
<1>1. Function(b) = ByteAt(b, 1)
  BY DEF Function, RtuLengths
<1>2. 1 \in 1 .. l
  OBVIOUS
<1>3. Function(b) = p[1]
  BY <1>1, <1>2
<1>4. CASE p[1] \in {3, 6} /\ l = 5
  <2>1. Function(b) \in {3, 6}
    BY <1>3, <1>4
  <2>2. Meta(b, "indication") = 4
    BY <2>1 DEF Meta, Frames!RequestMeta
  <2>3. Data(b, "indication") = 2
    BY <2>1 DEF Data, Frames!RequestData, RtuLengths
  <2> QED BY <1>4, <2>1, <2>2, <2>3
<1>5. ASSUME NEW k \in 1 .. 123, p[1] = 16, p[6] = 2 * k, l = 6 + 2 * k
      PROVE  \E meta \in Nat, data \in Nat :
               /\ meta # 0 /\ data # 0 /\ Meta(b, "indication") = meta
               /\ Data(b, "indication") = data
               /\ l + 3 = 2 + meta + data /\ l + 3 <= 256 /\ Function(b) \in {3, 6, 16}
  <2>1. 6 \in 1 .. l
    BY <1>5
  <2>2. ByteAt(b, 6) = 2 * k
    BY <1>5, <2>1
  <2>3. CountAt(b, "indication") = 6
    BY <1>3, <1>5 DEF CountAt, RtuLengths
  <2>4. Meta(b, "indication") = 5
    BY <1>3, <1>5 DEF Meta, Frames!RequestMeta
  <2>5. Data(b, "indication") = 2 + 2 * k
    BY <1>3, <1>5, <2>2, <2>3 DEF Data, Frames!RequestData, RtuLengths
  <2>6. 2 + 2 * k \in Nat /\ l + 3 = (2 + 5) + (2 + 2 * k) /\ l + 3 <= 256
    BY <1>5, SMT
  <2> QED BY <1>3, <1>5, <2>4, <2>5, <2>6
<1> QED BY <1>4, <1>5

LEMMA RequestFits ==
  ASSUME RtuLengths, NEW s \in Byte, NEW p \in Requests, NEW by \in Senders
  PROVE  Fits(Message(<<s>> \o p, by), "indication")
<1>1. PICK b : b = Message(<<s>> \o p, by)
  OBVIOUS
<1>2. p \in Seq(Byte)
  BY FirstFive
<1>3. b \in Seq(Cell) /\ Len(b) = Len(p) + 3 /\ \A i \in 1 .. Len(p) : ByteAt(b, i) = p[i]
  BY <1>1, <1>2, PduParts
<1>4. PICK l \in Nat : l = Len(p)
  BY FirstFive
<1>5. \/ p[1] \in {3, 6} /\ l = 5
      \/ p[1] = 16 /\ \E k \in 1 .. 123 : p[6] = 2 * k /\ l = 6 + 2 * k
  BY <1>4, RequestLength, Zenon
<1>6. \A i \in 1 .. Len(p) : ByteAt(b, i) = p[i]
  BY <1>3
<1>7. PICK meta \in Nat, data \in Nat :
        /\ meta # 0 /\ data # 0 /\ Meta(b, "indication") = meta /\ Data(b, "indication") = data
        /\ l + 3 = 2 + meta + data /\ l + 3 <= 256 /\ Function(b) \in {3, 6, 16}
  BY <1>4, <1>5, <1>6, RequestLengthRead, Zenon
<1>8. Len(b) = 2 + meta + data /\ Len(b) <= 256
  BY <1>3, <1>4, <1>7
<1>9. Fits(b, "indication")
  BY <1>3, <1>7, <1>8, FitsBy
<1> QED BY <1>1, <1>9

\* ... and the master the answer, as the slave has sent it; ...
LEMMA AnswerLength ==
  ASSUME NEW p \in Requests, NEW a, Excepts(p, a) \/ Reads(p, a) \/ Writes(p, a)
  PROVE  \/ a[1] \in {131, 134, 144} /\ Len(a) = 2
         \/ a[1] = 3 /\ \E k \in 1 .. 125 : a[2] = 2 * k /\ Len(a) = 2 + 2 * k
         \/ a[1] \in {6, 16} /\ Len(a) = 5
<1>1. p[1] \in {3, 6, 16} /\ (p[1] = 3 => p[5] \in 1 .. 125)
  BY Zenon DEF Requests
<1>2. CASE Excepts(p, a)
  BY <1>1, <1>2 DEF Excepts
<1>3. CASE Reads(p, a)
  BY <1>1, <1>3 DEF Reads
<1>4. CASE Writes(p, a)
  BY <1>4 DEF Writes
<1> QED BY <1>2, <1>3, <1>4

LEMMA AnswerLengthRead ==
  ASSUME RtuLengths, NEW b, NEW a,
         \A i \in 1 .. Len(a) : ByteAt(b, i) = a[i],
         NEW l \in Nat, l = Len(a),
         \/ a[1] \in {131, 134, 144} /\ l = 2
         \/ a[1] = 3 /\ \E k \in 1 .. 125 : a[2] = 2 * k /\ l = 2 + 2 * k
         \/ a[1] \in {6, 16} /\ l = 5
  PROVE  \E meta \in Nat, data \in Nat :
           /\ meta # 0 /\ data # 0
           /\ Meta(b, "confirmation") = meta /\ Data(b, "confirmation") = data
           /\ l + 3 = 2 + meta + data /\ l + 3 <= 256
<1> USE DEF Frames!READ_INPUT_REGISTERS, Frames!WRITE_SINGLE_COIL, Frames!WRITE_SINGLE_REGISTER,
            Frames!WRITE_MULTIPLE_COILS, Frames!WRITE_MULTIPLE_REGISTERS,
            Frames!REPORT_SLAVE_ID, Frames!WRITE_AND_READ_REGISTERS
<1>1. Function(b) = ByteAt(b, 1) /\ CountAt(b, "confirmation") = 2
  BY DEF Function, CountAt, RtuLengths
<1>2. 1 \in 1 .. l /\ 2 \in 1 .. l
  OBVIOUS
<1>3. Function(b) = a[1] /\ ByteAt(b, 2) = a[2]
  BY <1>1, <1>2
<1>4. CASE a[1] \in {131, 134, 144} /\ l = 2
  <2>1. Meta(b, "confirmation") = 1
    BY <1>3, <1>4 DEF Meta, Frames!AnswerMeta
  <2>2. Data(b, "confirmation") = 2
    BY <1>3, <1>4 DEF Data, Frames!AnswerData, RtuLengths
  <2> QED BY <1>4, <2>1, <2>2
<1>5. ASSUME NEW k \in 1 .. 125, a[1] = 3, a[2] = 2 * k, l = 2 + 2 * k
      PROVE  \E meta \in Nat, data \in Nat :
               /\ meta # 0 /\ data # 0
               /\ Meta(b, "confirmation") = meta /\ Data(b, "confirmation") = data
               /\ l + 3 = 2 + meta + data /\ l + 3 <= 256
  <2>1. Meta(b, "confirmation") = 1
    BY <1>3, <1>5 DEF Meta, Frames!AnswerMeta
  <2>2. Data(b, "confirmation") = 2 + 2 * k
    BY <1>1, <1>3, <1>5 DEF Data, Frames!AnswerData, RtuLengths
  <2>3. 2 + 2 * k \in Nat /\ l + 3 = (2 + 1) + (2 + 2 * k) /\ l + 3 <= 256
    BY <1>5, SMT
  <2> QED BY <2>1, <2>2, <2>3
<1>6. CASE a[1] \in {6, 16} /\ l = 5
  <2>1. Meta(b, "confirmation") = 4
    BY <1>3, <1>6 DEF Meta, Frames!AnswerMeta
  <2>2. Data(b, "confirmation") = 2
    BY <1>3, <1>6 DEF Data, Frames!AnswerData, RtuLengths
  <2> QED BY <1>6, <2>1, <2>2
<1> QED BY <1>4, <1>5, <1>6

LEMMA AnswerFits ==
  ASSUME RtuLengths, NEW s \in Byte, NEW p \in Requests, NEW by \in Senders
  PROVE  Fits(Message(<<s>> \o AnswerPdu(p), by), "confirmation")
<1>1. PICK a : a = AnswerPdu(p)
  OBVIOUS
<1>2. PICK b : b = Message(<<s>> \o a, by)
  OBVIOUS
<1>3. a \in Seq(Byte) /\ (Excepts(p, a) \/ Reads(p, a) \/ Writes(p, a))
  BY <1>1, AnswerFields
<1>4. b \in Seq(Cell) /\ Len(b) = Len(a) + 3 /\ \A i \in 1 .. Len(a) : ByteAt(b, i) = a[i]
  BY <1>2, <1>3, PduParts
<1>5. PICK l \in Nat : l = Len(a)
  BY <1>3, LenProperties
<1>6. \/ a[1] \in {131, 134, 144} /\ l = 2
      \/ a[1] = 3 /\ \E k \in 1 .. 125 : a[2] = 2 * k /\ l = 2 + 2 * k
      \/ a[1] \in {6, 16} /\ l = 5
  <2>1. \/ a[1] \in {131, 134, 144} /\ Len(a) = 2
        \/ a[1] = 3 /\ \E k \in 1 .. 125 : a[2] = 2 * k /\ Len(a) = 2 + 2 * k
        \/ a[1] \in {6, 16} /\ Len(a) = 5
    BY <1>3, AnswerLength
  <2> QED BY <1>5, <2>1
<1>7. \A i \in 1 .. Len(a) : ByteAt(b, i) = a[i]
  BY <1>4
<1>8. PICK meta \in Nat, data \in Nat :
        /\ meta # 0 /\ data # 0
        /\ Meta(b, "confirmation") = meta /\ Data(b, "confirmation") = data
        /\ l + 3 = 2 + meta + data /\ l + 3 <= 256
  BY <1>5, <1>6, <1>7, AnswerLengthRead
<1>9. Len(b) = 2 + meta + data /\ Len(b) <= 256
  BY <1>4, <1>5, <1>8
<1>10. Fits(b, "confirmation")
  BY <1>4, <1>8, <1>9, FitsBy
<1> QED BY <1>1, <1>2, <1>10

\* ... and check_confirmation takes it for the answer.
LEMMA AnswerConfirmed ==
  ASSUME RtuLengths, NEW s \in Byte, NEW p \in Requests, NEW by \in Senders,
         NEW q, q.tid = 0, q.function = p[1], q.nb = 256 * p[4] + p[5]
  PROVE  Confirmation(q, Message(<<s>> \o AnswerPdu(p), by), 0).errno # "EMBBADDATA"
<1> DEFINE a == AnswerPdu(p)
           b == Message(<<s>> \o a, by)
           r == Answer(b, 0)
<1>1. a \in Seq(Byte) /\ (Excepts(p, a) \/ Reads(p, a) \/ Writes(p, a))
  BY AnswerFields
<1>2. /\ r.tid = 0 /\ r.function = ByteAt(b, 1) /\ r.count = ByteAt(b, 2)
      /\ r.nb = 256 * ByteAt(b, 4) + ByteAt(b, 5)
  BY DEF Answer, Function, WordAt, RtuLengths
<1>3. p[1] \in {3, 6, 16} /\ (p[1] = 3 => p[4] = 0 /\ p[5] \in 1 .. 125)
  BY DEF Requests
<1>4. Confirmation(q, b, 0) = Check!CheckConfirmation(q, r)
  BY DEF Confirmation
<1> HIDE DEF a
<1>5. \A i \in 1 .. Len(a) : ByteAt(b, i) = a[i]
  BY <1>1, PduParts
<1> HIDE DEF b, r
<1> USE DEF Check!AnswerBytes, Check!AnswerLength, Check!AnswerMeta, Check!AnswerData,
            Check!READ_COILS, Check!READ_DISCRETE_INPUTS, Check!READ_HOLDING_REGISTERS,
            Check!READ_INPUT_REGISTERS, Check!WRITE_SINGLE_COIL, Check!WRITE_SINGLE_REGISTER,
            Check!READ_EXCEPTION_STATUS, Check!WRITE_MULTIPLE_COILS,
            Check!WRITE_MULTIPLE_REGISTERS, Check!REPORT_SLAVE_ID,
            Check!WRITE_AND_READ_REGISTERS, Check!header_length, Check!max_adu_length
<1>6. CASE Excepts(p, a)
  <2>1. r.function = p[1] + 128 /\ r.count = 2
    BY <1>2, <1>5, <1>6 DEF Excepts
  <2>2. Check!AnswerBytes(r) = 9
    BY <1>3, <2>1
  <2>3. Check!AnswerLength(q) # 9 /\ q.function # 17
    BY <1>3
  <2>4. q.function = r.function - 128 /\ q.tid = r.tid
    BY <1>2, <1>3, <2>1
  <2>5. Check!Exception(r.count) = "EMBXILADD"
    BY <2>1 DEF Check!Exception
  <2>6. Check!CheckConfirmation(q, r).errno # "EMBBADDATA"
    BY <2>2, <2>3, <2>4, <2>5 DEF Check!CheckConfirmation, Check!Failure, Check!Result
  <2> QED BY <1>4, <2>6 DEF a, b
<1>7. CASE Reads(p, a)
  <2>1. PICK k \in 1 .. 125 : k = p[5]
    BY <1>3, <1>7 DEF Reads
  <2>2. r.function = 3 /\ r.count = 2 * k /\ q.function = 3 /\ q.nb = k
    <3>1. Len(a) = 2 + 2 * k /\ a[1] = 3 /\ a[2] = 2 * k /\ p[1] = 3
      BY <1>7, <2>1 DEF Reads
    <3>2. 1 \in 1 .. Len(a) /\ 2 \in 1 .. Len(a)
      BY <3>1
    <3>3. r.function = 3 /\ r.count = 2 * k
      BY <1>2, <1>5, <3>1, <3>2
    <3>4. q.function = 3 /\ q.nb = 256 * 0 + k
      BY <1>3, <2>1, <3>1, Zenon
    <3> QED BY <3>3, <3>4
  <2>3. Check!AnswerBytes(r) = 9 + 2 * k /\ Check!AnswerLength(q) = 9 + 2 * k
    BY <2>2
  <2>4. Check!Asked(q, r) = k /\ Check!Answered(r) = k
    BY <2>2 DEF Check!Asked, Check!Answered
  <2>5. q.tid = r.tid
    BY <1>2
  <2>6. Check!CheckConfirmation(q, r).errno # "EMBBADDATA"
    BY <2>2, <2>3, <2>4, <2>5 DEF Check!CheckConfirmation, Check!Failure, Check!Result
  <2> QED BY <1>4, <2>6 DEF a, b
<1>8. CASE Writes(p, a)
  <2>1. r.function = p[1] /\ r.nb = 256 * p[4] + p[5] /\ p[1] \in {6, 16}
    BY <1>2, <1>5, <1>8 DEF Writes
  <2>2. Check!AnswerBytes(r) = 12 /\ Check!AnswerLength(q) = 12
    BY <2>1
  <2>3. Check!Asked(q, r) = Check!Answered(r)
    BY <2>1 DEF Check!Asked, Check!Answered
  <2>4. q.tid = r.tid /\ q.function = r.function
    BY <1>2, <2>1
  <2>5. Check!CheckConfirmation(q, r).errno # "EMBBADDATA"
    BY <2>2, <2>3, <2>4 DEF Check!CheckConfirmation, Check!Failure, Check!Result
  <2> QED BY <1>4, <2>5 DEF a, b
<1> QED BY <1>1, <1>6, <1>7, <1>8

-----------------------------------------------------------------------------
(* Calls on a line.                                                          *)

\* The master asks slaves of the line, for no more than the server answers.
RegisterLine == RtuLengths /\ Targets \subseteq Slaves /\ Pdus \subseteq Requests

\* The answer to the request of the call that runs.
Answers(s, p) == Message(<<s>> \o AnswerPdu(p), [from |-> s, now |-> TRUE])

Silent(n) == input[n] = <<>> /\ rx[n] = NewMessage

\* A call runs with the request p.
Runs(s, p) ==
  /\ pc = "receive" /\ result = NoResult
  /\ request = RequestTo(s, p)

Hears(s, p) ==
  /\ Runs(s, p) /\ Silent(Master) /\ job[s] = <<>>
  /\ Receiving(Asks(s, p), "indication", rx[s], input[s])

Serves(s, p) == Runs(s, p) /\ Silent(Master) /\ Silent(s) /\ job[s] = Asks(s, p)

Returns(s, p) ==
  /\ Runs(s, p) /\ Silent(s) /\ job[s] = <<>>
  /\ Receiving(Answers(s, p), "confirmation", rx[Master], input[Master])

LEMMA SlaveNumber ==
  ASSUME NEW s \in Slaves
  PROVE  s \in Byte /\ s # Master /\ s \in Nodes /\ Master \in Nodes
BY BusAssumption, SMT DEF Nodes, Master, Byte

LEMMA BySenders ==
  ASSUME NEW s \in Nodes PROVE [from |-> s, now |-> TRUE] \in Senders
BY DEF Senders

LEMMA AgeNothing == Age(<<>>) = <<>>
BY DEF Age

LEMMA AsksParts ==
  ASSUME RegisterLine, NEW s \in Slaves, NEW p \in Pdus
  PROVE  /\ Fits(Asks(s, p), "indication") /\ Asks(s, p) # <<>>
         /\ ByteAt(Asks(s, p), 0) = s
         /\ SubSeq(Vals(Asks(s, p)), 2, Len(Asks(s, p)) - 2) = p
         /\ CheckIntegrity(Vals(Asks(s, p)))
         /\ Asks(s, p)[1].by.now = TRUE
<1>1. s \in Byte /\ p \in Requests /\ p \in Seq(Byte) /\ Master \in Nodes /\ RtuLengths
  BY SlaveNumber, FirstFive DEF RegisterLine
<1>2. [from |-> Master, now |-> TRUE] \in Senders
  BY <1>1, BySenders
<1>3. PICK b : b = Asks(s, p)
  OBVIOUS
<1>4. Fits(b, "indication")
  BY <1>1, <1>2, <1>3, RequestFits DEF Asks, Message
<1>5. /\ b \in Seq(Cell) /\ Len(b) = Len(p) + 3
      /\ ByteAt(b, 0) = s /\ SubSeq(Vals(b), 2, Len(b) - 2) = p
      /\ CheckIntegrity(Vals(b)) /\ AllBy(b, [from |-> Master, now |-> TRUE])
  BY <1>1, <1>2, <1>3, PduParts DEF Asks, Message
<1>6. b # <<>> /\ 1 \in DOMAIN b
  BY <1>1, <1>5, LenProperties
<1>7. b[1].by = [from |-> Master, now |-> TRUE]
  BY <1>5, <1>6 DEF AllBy
<1> QED BY <1>3, <1>4, <1>5, <1>6, <1>7

LEMMA AnswersParts ==
  ASSUME RegisterLine, NEW s \in Slaves, NEW p \in Pdus
  PROVE  /\ Fits(Answers(s, p), "confirmation")
         /\ CheckIntegrity(Vals(Answers(s, p)))
         /\ AllBy(Answers(s, p), [from |-> s, now |-> TRUE])
         /\ \A q : q.tid = 0 /\ q.function = p[1] /\ q.nb = 256 * p[4] + p[5]
              => Confirmation(q, Answers(s, p), 0).errno # "EMBBADDATA"
<1>1. s \in Byte /\ p \in Requests /\ AnswerPdu(p) \in Seq(Byte) /\ s \in Nodes /\ RtuLengths
  BY SlaveNumber, AnswerFields DEF RegisterLine
<1>2. [from |-> s, now |-> TRUE] \in Senders
  BY <1>1, BySenders
<1>3. Fits(Answers(s, p), "confirmation")
  BY <1>1, <1>2, AnswerFits DEF Answers
<1>4. CheckIntegrity(Vals(Answers(s, p))) /\ AllBy(Answers(s, p), [from |-> s, now |-> TRUE])
  BY <1>1, <1>2, PduParts DEF Answers
<1>5. ASSUME NEW q, q.tid = 0, q.function = p[1], q.nb = 256 * p[4] + p[5]
      PROVE  Confirmation(q, Answers(s, p), 0).errno # "EMBBADDATA"
  BY <1>1, <1>2, <1>5, AnswerConfirmed DEF Answers
<1> QED BY <1>3, <1>4, <1>5

LEMMA FaultStays ==
  ASSUME faults \in Seq({"noise", "late"}), NEW k, Fault(k)
  PROVE  faults' \in Seq({"noise", "late"}) /\ faults' # <<>>
<1>1. k \in {"noise", "late"} /\ faults' = Append(faults, k)
  BY BusAssumption DEF Fault
<1> QED BY <1>1

LEMMA TransmitStays ==
  ASSUME faults \in Seq({"noise", "late"}), NEW f, NEW h, NEW b, Transmit(f, h, b)
  PROVE  \/ faults' = faults
            /\ input' = [n \in Nodes |-> IF n = f THEN h[n] ELSE h[n] \o b]
         \/ faults' \in Seq({"noise", "late"}) /\ faults' # <<>>
BY FaultStays DEF Transmit

\* What a step leaves of the history of faults.
LEMMA FaultsGrow ==
  ASSUME faults \in Seq({"noise", "late"}), Next
  PROVE  faults' = faults \/ (faults' \in Seq({"noise", "late"}) /\ faults' # <<>>)
<1>1. CASE Call
  BY <1>1, TransmitStays DEF Call
<1>2. CASE MasterReceive
  BY <1>2 DEF MasterReceive
<1>3. CASE MasterTimeout \/ MasterFlush
  BY <1>3, FaultStays DEF MasterTimeout, MasterFlush
<1>4. ASSUME NEW s \in Slaves, SlaveReceive(s) \/ SlaveTimeout(s) \/ SlaveReply(s)
      PROVE  faults' = faults \/ (faults' \in Seq({"noise", "late"}) /\ faults' # <<>>)
  <2>1. CASE SlaveReceive(s)
    BY <2>1 DEF SlaveReceive
  <2>2. CASE SlaveTimeout(s)
    BY <2>2 DEF SlaveTimeout
  <2>3. CASE SlaveReply(s)
    BY <2>3, TransmitStays DEF SlaveReply
  <2> QED BY <1>4, <2>1, <2>2, <2>3
<1> QED BY <1>1, <1>2, <1>3, <1>4 DEF Next, MasterNext

LEMMA OwnResult ==
  ASSUME NEW r, NEW x, r = [rc |-> x, own |-> TRUE]
  PROVE  r.rc = x /\ r.own
<1>1. r.rc = x
  BY SMT
<1>2. r.own = TRUE
  BY SMT
<1> QED BY <1>1, <1>2, Zenon

Domains == DOMAIN rx = Nodes /\ DOMAIN input = Nodes /\ DOMAIN job = Slaves

\* The master reads the answer: up to its function code, its meta part or its end.
LEMMA ReturnsRead ==
  ASSUME RegisterLine, NEW s \in Slaves, NEW p \in Pdus, Domains, Returns(s, p), MasterReceive
  PROVE  /\ Domains'
         /\ \A t \in Slaves : rx'[t] = rx[t] /\ input'[t] = input[t] /\ job'[t] = job[t]
         /\ Silent(s)' /\ job'[s] = <<>> /\ request' = RequestTo(s, p)
         /\ \/ Returns(s, p)'
            \/ pc' = "idle" /\ Silent(Master)' /\ result'.rc \notin {"none", "failed"} /\ result'.own
<1>1. /\ s # Master /\ s \in Nodes /\ Master \in Nodes /\ RtuLengths
      /\ \A t \in Slaves : t # Master /\ t \in Nodes
  BY SlaveNumber DEF RegisterLine
<1>2. PICK b : b = Answers(s, p)
  OBVIOUS
<1> DEFINE got  == Got(Master, "confirmation")
           rest == Rest(Master)
<1>3. /\ ~TooLong(got)
      /\ \/ ~Complete(got) /\ Receiving(b, "confirmation", got, rest)
         \/ Complete(got) /\ got.bytes = b /\ rest = <<>>
  <2>1. Fits(b, "confirmation") /\ Receiving(b, "confirmation", rx[Master], input[Master])
    BY <1>2, AnswersParts DEF Returns
  <2> QED BY <1>1, <2>1, ReadOn DEF Got, Rest
<1> HIDE DEF got, rest
<1>4. /\ input' = [input EXCEPT ![Master] = rest]
      /\ rx' = [rx EXCEPT ![Master] = IF TooLong(got) \/ Complete(got) THEN NewMessage ELSE got]
      /\ \/ /\ Complete(got) /\ result' = Checked(got.bytes)
            /\ pc' = IF result'.rc = "failed" /\ CheckIntegrity(Vals(got.bytes)) /\ "protocol" \in recovery
                       THEN "badData" ELSE "idle"
         \/ ~Complete(got) /\ UNCHANGED <<pc, result>>
      /\ UNCHANGED <<recovery, request, before, job, faults>>
  <2>1. Complete(got) => CheckIntegrity(Vals(got.bytes))
    BY <1>2, <1>3, AnswersParts
  <2>2. ~TooLong(got)
    BY <1>3
  <2> QED BY <2>1, <2>2 DEF MasterReceive, got, rest
<1>5. /\ Domains' /\ input'[Master] = rest
      /\ rx'[Master] = IF Complete(got) THEN NewMessage ELSE got
      /\ \A t \in Slaves : rx'[t] = rx[t] /\ input'[t] = input[t] /\ job'[t] = job[t]
  BY <1>1, <1>3, <1>4 DEF Domains
<1>6. Silent(s)' /\ job'[s] = <<>> /\ request' = RequestTo(s, p)
  BY <1>4, <1>5 DEF Returns, Silent, Runs
<1>7. CASE ~Complete(got)
  <2>1. Runs(s, p)'
    BY <1>4, <1>7 DEF Returns, Runs
  <2>2. Receiving(Answers(s, p), "confirmation", rx'[Master], input'[Master])
    BY <1>2, <1>3, <1>5, <1>7
  <2>3. Returns(s, p)'
    BY <1>6, <2>1, <2>2 DEF Returns
  <2> QED BY <1>5, <1>6, <2>3
<1>8. CASE Complete(got)
  <2>1. got.bytes = b /\ rest = <<>>
    BY <1>3, <1>8
  <2>2. /\ Silent(Master)' /\ result' = Checked(b)
        /\ result'.rc # "failed" => pc' = "idle"
    BY <1>4, <1>5, <1>8, <2>1 DEF Silent
  <2>3. /\ request.tid = 0 /\ request.function = p[1] /\ request.nb = 256 * p[4] + p[5]
        /\ request.slave = s
    BY DEF Returns, Runs, RequestTo
  <2>4. CheckIntegrity(Vals(b)) /\ Confirmation(request, b, 0).errno # "EMBBADDATA"
        /\ AllBy(b, [from |-> request.slave, now |-> TRUE])
    BY <1>2, <2>3, AnswersParts
  <2>5. \E x : Checked(b) = [rc |-> x, own |-> TRUE] /\ x \notin {"none", "failed"}
    <3> DEFINE x == IF Confirmation(request, b, 0).rc = -1 THEN "exception" ELSE "ok"
    <3>1. x \notin {"none", "failed"}
      OBVIOUS
    <3>2. Checked(b) = [rc |-> x, own |-> AllBy(b, [from |-> request.slave, now |-> TRUE])]
      BY <2>4, Zenon DEF Checked
    <3>3. AllBy(b, [from |-> request.slave, now |-> TRUE]) = TRUE
      BY <2>4, Zenon DEF AllBy
    <3> HIDE DEF x
    <3> QED BY <3>1, <3>2, <3>3, Zenon
  <2>6. result'.rc \notin {"none", "failed"} /\ result'.own
    <3>1. PICK x : result' = [rc |-> x, own |-> TRUE] /\ x \notin {"none", "failed"}
      BY <2>2, <2>5, Zenon
    <3> QED BY <3>1, OwnResult
  <2> QED BY <1>5, <1>6, <2>2, <2>6
<1> QED BY <1>7, <1>8

\* The slave reads the request likewise.
LEMMA HearsRead ==
  ASSUME RegisterLine, NEW s \in Slaves, NEW p \in Pdus, Domains, Hears(s, p), SlaveReceive(s)
  PROVE  Hears(s, p)' \/ Serves(s, p)'
<1>1. s # Master /\ s \in Nodes /\ Master \in Nodes /\ RtuLengths
  BY SlaveNumber DEF RegisterLine
<1>2. PICK b : b = Asks(s, p)
  OBVIOUS
<1> DEFINE got  == Got(s, "indication")
           rest == Rest(s)
<1>3. /\ ~TooLong(got)
      /\ \/ ~Complete(got) /\ Receiving(b, "indication", got, rest)
         \/ Complete(got) /\ got.bytes = b /\ rest = <<>>
  <2>1. Fits(b, "indication") /\ Receiving(b, "indication", rx[s], input[s])
    BY <1>2, AsksParts DEF Hears
  <2> QED BY <1>1, <2>1, ReadOn DEF Got, Rest
<1> HIDE DEF got, rest
<1>4. /\ input' = [input EXCEPT ![s] = rest]
      /\ rx' = [rx EXCEPT ![s] = IF TooLong(got) \/ Complete(got) THEN NewMessage ELSE got]
      /\ job' = [job EXCEPT ![s] = IF ~TooLong(got) /\ Complete(got) /\ CheckIntegrity(Vals(got.bytes))
                                     THEN got.bytes ELSE <<>>]
      /\ UNCHANGED <<recovery, pc, request, result, before, faults>>
  BY DEF SlaveReceive, got, rest
<1>5. /\ input'[s] = rest /\ input'[Master] = input[Master]
      /\ rx'[Master] = rx[Master] /\ rx'[s] = IF Complete(got) THEN NewMessage ELSE got
  BY <1>1, <1>3, <1>4 DEF Domains
<1>6. Silent(Master)' /\ Runs(s, p)'
  BY <1>4, <1>5 DEF Hears, Silent, Runs
<1>7. CASE ~Complete(got)
  <2>1. job'[s] = <<>>
    BY <1>4, <1>7 DEF Domains
  <2>2. Receiving(Asks(s, p), "indication", rx'[s], input'[s])
    BY <1>2, <1>3, <1>5, <1>7
  <2> QED BY <1>6, <2>1, <2>2 DEF Hears
<1>8. CASE Complete(got)
  <2>1. got.bytes = b /\ rest = <<>>
    BY <1>3, <1>8
  <2>2. CheckIntegrity(Vals(b))
    BY <1>2, AsksParts
  <2>3. job'[s] = Asks(s, p)
    BY <1>2, <1>3, <1>4, <1>8, <2>1, <2>2 DEF Domains
  <2>4. Silent(s)'
    BY <1>5, <1>8, <2>1 DEF Silent
  <2> QED BY <1>6, <2>3, <2>4 DEF Serves
<1> QED BY <1>7, <1>8

\* It answers.
LEMMA ServesReply ==
  ASSUME RegisterLine, NEW s \in Slaves, NEW p \in Pdus, Domains, Serves(s, p), SlaveReply(s),
         faults \in Seq({"noise", "late"}), faults' = <<>>
  PROVE  /\ Returns(s, p)'
         /\ \A t \in Slaves \ {s} : input'[t] = input[t] \o Answers(s, p)
<1>1. /\ s # Master /\ s \in Nodes /\ Master \in Nodes /\ RtuLengths
      /\ \A t \in Slaves : t \in Nodes
  BY SlaveNumber DEF RegisterLine
<1>2. /\ job[s] = Asks(s, p) /\ ByteAt(job[s], 0) = s
      /\ SubSeq(Vals(job[s]), 2, Len(job[s]) - 2) = p /\ job[s][1].by.now = TRUE
  BY AsksParts DEF Serves
<1>3. PICK b : b = Answers(s, p)
  OBVIOUS
<1>4. Transmit(s, input, b)
  <2>1. ~Filtered(s)
    BY <1>2 DEF Filtered
  <2>2. Transmit(s, input,
                 Bytes(SendMsgPre(<<ByteAt(job[s], 0)>> \o AnswerPdu(SubSeq(Vals(job[s]), 2, Len(job[s]) - 2))),
                       [from |-> s, now |-> job[s][1].by.now]))
    BY <2>1, Zenon DEF SlaveReply
  <2>3. b = Bytes(SendMsgPre(<<s>> \o AnswerPdu(p)), [from |-> s, now |-> TRUE])
    BY <1>3, Zenon DEF Answers, Message
  <2> QED BY <1>2, <2>2, <2>3, Zenon
<1>5. input' = [n \in Nodes |-> IF n = s THEN input[n] ELSE input[n] \o b]
  BY <1>4, TransmitStays
<1>6. b \in Seq(Cell) /\ Fits(b, "confirmation")
  BY <1>3, AnswersParts DEF Fits
<1>7. input[Master] = <<>> /\ rx[Master] = NewMessage /\ input[s] = <<>> /\ rx[s] = NewMessage
  BY DEF Serves, Silent
<1>8. input'[Master] = b /\ input'[s] = <<>>
  <2>1. <<>> \o b = b
    BY <1>6
  <2> QED BY <1>1, <1>5, <1>7, <2>1, Zenon
<1>9. job' = [job EXCEPT ![s] = <<>>] /\ UNCHANGED <<recovery, pc, request, result, before, rx>>
  BY DEF SlaveReply
<1>10. job'[s] = <<>>
  BY <1>9 DEF Domains
<1>11. Receiving(Answers(s, p), "confirmation", rx'[Master], input'[Master])
  BY <1>1, <1>3, <1>6, <1>7, <1>8, <1>9, NewReceiving
<1>12. Runs(s, p)' /\ Silent(s)'
  BY <1>7, <1>8, <1>9 DEF Serves, Runs, Silent
<1>13. \A t \in Slaves \ {s} : input'[t] = input[t] \o b
  BY <1>1, <1>5
<1> QED BY <1>3, <1>10, <1>11, <1>12, <1>13 DEF Returns

\* As long as it hears, serves or returns something, nobody waits in vain.
LEMMA NobodyWaits ==
  ASSUME RegisterLine, NEW s \in Slaves, NEW p \in Pdus
  PROVE  /\ Hears(s, p) => input[s] # <<>>
         /\ Serves(s, p) => job[s] # <<>>
         /\ Returns(s, p) => input[Master] # <<>>
<1>1. RtuLengths
  BY DEF RegisterLine
<1>2. ASSUME Hears(s, p) PROVE input[s] # <<>>
  <2>1. Receiving(Asks(s, p), "indication", rx[s], input[s]) /\ Fits(Asks(s, p), "indication")
    BY <1>2, AsksParts DEF Hears
  <2> QED BY <1>1, <2>1, ReadOn
<1>3. Serves(s, p) => job[s] # <<>>
  BY AsksParts DEF Serves
<1>4. Returns(s, p) => input[Master] # <<>>
  BY <1>1, AnswersParts, ReadOn DEF Returns
<1> QED BY <1>2, <1>3, <1>4

\* Without a fault, the domains stay.
LEMMA DomainsStay ==
  ASSUME Domains, Next, faults \in Seq({"noise", "late"}), faults' = <<>>
  PROVE  Domains'
<1>1. CASE Call
  <2>1. DOMAIN rx' = Nodes /\ DOMAIN job' = Slaves
    BY <1>1 DEF Call
  <2>2. DOMAIN input' = Nodes
    BY <1>1, TransmitStays DEF Call
  <2> QED BY <2>1, <2>2 DEF Domains
<1>2. CASE MasterReceive
  BY <1>2 DEF MasterReceive, Domains
<1>3. CASE MasterTimeout \/ MasterFlush
  BY <1>3 DEF MasterTimeout, MasterFlush, Domains
<1>4. ASSUME NEW s \in Slaves, SlaveReceive(s) \/ SlaveTimeout(s) PROVE Domains'
  BY <1>4 DEF SlaveReceive, SlaveTimeout, Domains
<1>5. ASSUME NEW s \in Slaves, SlaveReply(s) PROVE Domains'
  <2>1. DOMAIN rx' = Nodes /\ DOMAIN job' = Slaves
    BY <1>5 DEF SlaveReply, Domains
  <2>2. DOMAIN input' = Nodes
    BY <1>5, TransmitStays DEF SlaveReply, Domains
  <2> QED BY <2>1, <2>2 DEF Domains
<1> QED BY <1>1, <1>2, <1>3, <1>4, <1>5 DEF Next, MasterNext

\* The master sends a request, to slaves that have read all they have heard.
LEMMA CallSends ==
  ASSUME RegisterLine, Domains, Silent(Master), \A t \in Slaves : input[t] = <<>> /\ job[t] = <<>>,
         Call, faults \in Seq({"noise", "late"}), faults' = <<>>
  PROVE  \E s \in Slaves, p \in Pdus :
           /\ Runs(s, p)' /\ Silent(Master)' /\ before' = result.rc /\ recovery' = recovery
           /\ \A t \in Slaves : /\ job'[t] = <<>> /\ input'[t] = Asks(s, p)
                                /\ rx'[t] = [rx[t] EXCEPT !.bytes = Age(@)]
<1>1. Master \in Nodes /\ \A t \in Slaves : t # Master /\ t \in Nodes
  BY SlaveNumber DEF Nodes
<1> DEFINE heard == [n \in Nodes |-> Age(input[n])]
<1>2. heard[Master] = <<>> /\ \A t \in Slaves : heard[t] = <<>>
  BY <1>1, AgeNothing DEF Silent
<1>3. PICK s \in Targets, p \in Pdus :
        request' = RequestTo(s, p) /\ Transmit(Master, heard, Asks(s, p))
  BY DEF Call
<1>4. s \in Slaves
  BY DEF RegisterLine
<1>5. PICK b : b = Asks(s, p)
  OBVIOUS
<1>6. b \in Seq(Cell)
  BY <1>4, <1>5, AsksParts DEF Fits
<1> HIDE DEF heard
<1>7. input' = [n \in Nodes |-> IF n = Master THEN heard[n] ELSE heard[n] \o b]
  BY <1>3, <1>5, TransmitStays
<1>8. input'[Master] = <<>> /\ \A t \in Slaves : input'[t] = b
  <2>1. <<>> \o b = b
    BY <1>6
  <2> QED BY <1>1, <1>2, <1>7, <2>1, Zenon
<1>9. rx' = [n \in Nodes |-> IF n = Master THEN NewMessage ELSE [rx[n] EXCEPT !.bytes = Age(@)]]
  BY DEF Call
<1>10. rx'[Master] = NewMessage /\ \A t \in Slaves : rx'[t] = [rx[t] EXCEPT !.bytes = Age(@)]
  BY <1>1, <1>9, Zenon
<1>11. job' = [t \in Slaves |-> Age(job[t])]
  BY DEF Call
<1>12. \A t \in Slaves : job'[t] = <<>>
  BY <1>11, AgeNothing
<1>13. Runs(s, p)' /\ before' = result.rc /\ recovery' = recovery
  BY <1>3 DEF Runs, Call
<1> QED BY <1>4, <1>5, <1>8, <1>10, <1>12, <1>13 DEF Silent

-----------------------------------------------------------------------------
(* A line with one slave.                                                    *)

\* Nobody but the master and slave s is on the line.
OneSlave(s) == RegisterLine /\ Slaves = {s}

\* No call runs, and the last one has returned what the slave answered to it.
AtRest(s) ==
  /\ pc = "idle" /\ Silent(Master) /\ Silent(s) /\ job[s] = <<>>
  /\ result.rc # "failed" /\ (result.rc # "none" => result.own)

InStep(s) == /\ Domains /\ before # "failed"
             /\ AtRest(s) \/ \E p \in Pdus : Hears(s, p) \/ Serves(s, p) \/ Returns(s, p)

OneSlaveInv(s) == /\ faults \in Seq({"noise", "late"})
                  /\ faults = <<>> => InStep(s)

LEMMA OneSlaveInit == ASSUME NEW s, OneSlave(s), BusInit PROVE OneSlaveInv(s)
<1>1. s \in Nodes /\ Master \in Nodes /\ s \in Slaves
  BY SlaveNumber DEF OneSlave
<1>2. AtRest(s)
  BY <1>1 DEF BusInit, AtRest, Silent, NoResult
<1>3. Domains /\ before # "failed" /\ faults \in Seq({"noise", "late"})
  BY DEF BusInit, Domains
<1> QED BY <1>2, <1>3 DEF OneSlaveInv, InStep

\* Each step, with no fault so far.
LEMMA OneSlaveStep ==
  ASSUME NEW s, OneSlave(s), InStep(s), Next,
         faults \in Seq({"noise", "late"}), faults = <<>>, faults' = <<>>
  PROVE  InStep(s)'
<1>1. RegisterLine /\ s \in Slaves /\ RtuLengths /\ \A t \in Slaves : t = s
  BY DEF OneSlave, RegisterLine
<1>2. Domains /\ Domains' /\ before # "failed"
  BY DomainsStay DEF InStep
<1>3. CASE Call
  <2>1. AtRest(s)
    BY <1>3 DEF InStep, Call, Hears, Serves, Returns, Runs
  <2>2. PICK p \in Pdus :
          /\ Runs(s, p)' /\ Silent(Master)' /\ before' = result.rc
          /\ job'[s] = <<>> /\ input'[s] = Asks(s, p) /\ rx'[s] = [rx[s] EXCEPT !.bytes = Age(@)]
    <3>1. Silent(Master) /\ \A t \in Slaves : input[t] = <<>> /\ job[t] = <<>>
      BY <1>1, <2>1 DEF AtRest, Silent
    <3>2. PICK t \in Slaves, p \in Pdus :
            /\ Runs(t, p)' /\ Silent(Master)' /\ before' = result.rc
            /\ \A u \in Slaves : /\ job'[u] = <<>> /\ input'[u] = Asks(t, p)
                                 /\ rx'[u] = [rx[u] EXCEPT !.bytes = Age(@)]
      BY <1>1, <1>2, <1>3, <3>1, CallSends
    <3>3. t = s
      BY <1>1
    <3> QED BY <1>1, <3>2, <3>3, Zenon
  <2>3. rx'[s] = NewMessage
    BY <2>1, <2>2, AgeNothing DEF AtRest, Silent, NewMessage
  <2>4. Receiving(Asks(s, p), "indication", rx'[s], input'[s])
    BY <1>1, <2>2, <2>3, AsksParts, NewReceiving
  <2>5. Hears(s, p)' /\ before' # "failed"
    BY <2>1, <2>2, <2>4 DEF Hears, AtRest
  <2> QED BY <1>2, <2>5 DEF InStep
<1>4. CASE MasterReceive
  <2>1. PICK p \in Pdus : Returns(s, p)
    BY <1>4 DEF InStep, MasterReceive, AtRest, Hears, Serves, Silent
  <2>2. before' # "failed"
    BY <1>2, <1>4 DEF MasterReceive
  <2>3. /\ Silent(s)' /\ job'[s] = <<>>
        /\ \/ Returns(s, p)'
           \/ pc' = "idle" /\ Silent(Master)' /\ result'.rc \notin {"none", "failed"} /\ result'.own
    BY <1>1, <1>2, <1>4, <2>1, ReturnsRead
  <2>4. Returns(s, p)' \/ AtRest(s)'
    BY <2>3, Zenon DEF AtRest
  <2> QED BY <1>2, <2>2, <2>4 DEF InStep
<1>5. CASE MasterTimeout
  <2>1. SlavesIdle
    BY <1>5, FaultStays DEF MasterTimeout
  <2>2. input[s] = <<>> /\ job[s] = <<>> /\ input[Master] = <<>> /\ pc = "receive"
    BY <1>1, <1>5, <2>1 DEF SlavesIdle, MasterTimeout
  <2>3. PICK p \in Pdus : Hears(s, p) \/ Serves(s, p) \/ Returns(s, p)
    BY <2>2 DEF InStep, AtRest
  <2> QED BY <1>1, <2>2, <2>3, NobodyWaits
<1>6. CASE SlaveReceive(s)
  <2>1. PICK p \in Pdus : Hears(s, p)
    BY <1>1, <1>6, NobodyWaits DEF InStep, SlaveReceive, AtRest, Serves, Returns, Silent
  <2>2. Hears(s, p)' \/ Serves(s, p)'
    BY <1>1, <1>2, <1>6, <2>1, HearsRead
  <2>3. before' # "failed"
    BY <1>2, <1>6 DEF SlaveReceive
  <2> QED BY <1>2, <2>2, <2>3 DEF InStep
<1>7. CASE SlaveTimeout(s)
  <2>1. job[s] = <<>> /\ input[s] = <<>> /\ rx[s].bytes # <<>>
    BY <1>7 DEF SlaveTimeout, Begun
  <2>2. ~Silent(s)
    BY <2>1 DEF Silent, NewMessage
  <2>3. PICK p \in Pdus : Hears(s, p)
    BY <2>2 DEF InStep, AtRest, Serves, Returns
  <2> QED BY <1>1, <2>1, <2>3, NobodyWaits
<1>8. CASE SlaveReply(s)
  <2>1. PICK p \in Pdus : Serves(s, p)
    BY <1>8 DEF InStep, SlaveReply, AtRest, Hears, Returns
  <2>2. Returns(s, p)'
    BY <1>1, <1>2, <1>8, <2>1, ServesReply
  <2>3. before' # "failed"
    BY <1>2, <1>8 DEF SlaveReply
  <2> QED BY <1>2, <2>2, <2>3 DEF InStep
<1>9. CASE MasterFlush
  BY <1>9 DEF InStep, MasterFlush, AtRest, Hears, Serves, Returns, Runs
<1> QED BY <1>1, <1>3, <1>4, <1>5, <1>6, <1>7, <1>8, <1>9 DEF Next, MasterNext

LEMMA OneSlaveNext ==
  ASSUME NEW s, OneSlave(s), OneSlaveInv(s), [Next]_vars
  PROVE  OneSlaveInv(s)'
<1>1. faults \in Seq({"noise", "late"}) /\ (faults = <<>> => InStep(s))
  BY DEF OneSlaveInv
<1>2. CASE UNCHANGED vars
  <2>1. /\ UNCHANGED recovery
        /\ UNCHANGED pc /\ UNCHANGED request /\ UNCHANGED result /\ UNCHANGED before
        /\ UNCHANGED rx /\ UNCHANGED input /\ UNCHANGED job /\ UNCHANGED faults
    BY <1>2 DEF vars
  <2> QED BY <1>1, <2>1 DEF OneSlaveInv, InStep, Domains, AtRest, Hears, Serves, Returns, Runs, Silent
<1>3. CASE Next
  <2>1. faults' = faults \/ (faults' \in Seq({"noise", "late"}) /\ faults' # <<>>)
    BY <1>1, <1>3, FaultsGrow
  <2>2. faults' \in Seq({"noise", "late"})
    BY <1>1, <2>1
  <2>3. faults' = <<>> => InStep(s)'
    BY <1>1, <1>3, <2>1, OneSlaveStep
  <2> QED BY <2>2, <2>3 DEF OneSlaveInv
<1> QED BY <1>2, <1>3

\* As long as nothing on the line has been lost and no timeout has come before an
\* answer, no call fails: each returns what the slave has answered to it, its value
\* or an exception.
NoneFails == faults = <<>> => /\ result.rc # "failed"
                              /\ result.rc # "none" => result.own

\* So it is on a line with one slave, whatever register requests the master sends and
\* in whatever pieces (receive_msg) they and their answers arrive; and no call that
\* fails is followed by another one that fails (NeverTwice).
THEOREM OneSlaveNoneFails ==
  ASSUME NEW s, OneSlave(s)
  PROVE  Spec => [](NoneFails /\ NeverTwice)
<1>1. BusInit => OneSlaveInv(s)
  BY OneSlaveInit
<1>2. OneSlaveInv(s) /\ [Next]_vars => OneSlaveInv(s)'
  BY OneSlaveNext
<1>3. OneSlaveInv(s) => NoneFails
  BY DEF OneSlaveInv, InStep, AtRest, Hears, Serves, Returns, Runs, NoResult, NoneFails
<1>4. OneSlaveInv(s) => NeverTwice
  BY DEF OneSlaveInv, InStep, NeverTwice
<1> QED BY <1>1, <1>2, <1>3, <1>4, PTL DEF Spec

-----------------------------------------------------------------------------
(* A line with several slaves.                                               *)

\* A receiver between two reads: it waits for at least one byte, and is in its first
\* state while it has none.
Mid == {m \in [bytes : Seq(Cell), step : {"function", "meta", "data"}, length_to_read : Nat \ {0}] :
          m.bytes = <<>> => m = NewMessage}

LEMMA NewIsMid == ASSUME RtuLengths PROVE NewMessage \in Mid
BY DEF Mid, NewMessage, RtuLengths

LEMMA AgeKeeps ==
  ASSUME NEW b \in Seq(Cell)
  PROVE  /\ Age(b) \in Seq(Cell) /\ Len(Age(b)) = Len(b)
         /\ b # <<>> => Age(b) # <<>> /\ Age(b)[1].by.now = FALSE
<1>1. DOMAIN b = 1 .. Len(b) /\ Len(b) \in Nat /\ \A i \in 1 .. Len(b) : b[i] \in Cell
  BY LenProperties, ElementOfSeq
<1> DEFINE aged(c) == [c EXCEPT !.by.now = FALSE]
<1>2. \A c \in Cell : aged(c) \in Cell /\ aged(c).by.now = FALSE
  BY DEF Cell
<1>3. Age(b) = [i \in 1 .. Len(b) |-> aged(b[i])]
  BY <1>1 DEF Age
<1> HIDE DEF aged
<1>4. Age(b) \in [1 .. Len(b) -> Cell]
  BY <1>1, <1>2, <1>3
<1>5. Age(b) \in Seq(Cell)
  BY <1>1, <1>4, SeqDef
<1>6. Len(Age(b)) = Len(b)
  <2>1. 1 .. Len(Age(b)) = 1 .. Len(b) /\ Len(Age(b)) \in Nat
    BY <1>4, <1>5, LenProperties
  <2> QED BY <1>1, <2>1
<1>7. ASSUME b # <<>> PROVE Age(b) # <<>> /\ Age(b)[1].by.now = FALSE
  <2>1. 1 \in 1 .. Len(b)
    BY <1>1, <1>7, EmptySeq
  <2>2. Age(b)[1] = aged(b[1])
    BY <1>3, <2>1
  <2>3. Len(Age(b)) # 0
    BY <1>6, <2>1, <1>1
  <2> QED BY <1>1, <1>2, <1>5, <2>1, <2>2, <2>3, EmptySeq
<1> QED BY <1>5, <1>6, <1>7

LEMMA AgeMid ==
  ASSUME NEW m \in Mid
  PROVE  LET a == [m EXCEPT !.bytes = Age(@)] IN
         /\ a \in Mid /\ a.bytes = Age(m.bytes)
         /\ m.bytes = <<>> => a = NewMessage
<1>1. m \in [bytes : Seq(Cell), step : {"function", "meta", "data"}, length_to_read : Nat \ {0}]
      /\ (m.bytes = <<>> => m = NewMessage)
  BY DEF Mid
<1>2. PICK b : b = Age(m.bytes)
  OBVIOUS
<1>3. b \in Seq(Cell) /\ (m.bytes # <<>> => b # <<>>) /\ (m.bytes = <<>> => b = <<>>)
  BY <1>1, <1>2, AgeKeeps, AgeNothing
<1>4. [m EXCEPT !.bytes = b] \in [bytes : Seq(Cell), step : {"function", "meta", "data"}, length_to_read : Nat \ {0}]
      /\ [m EXCEPT !.bytes = b].bytes = b
  BY <1>1, <1>3
<1>5. ASSUME m.bytes = <<>> PROVE [m EXCEPT !.bytes = b] = NewMessage
  BY <1>1, <1>3, <1>5 DEF NewMessage
<1> QED BY <1>2, <1>3, <1>4, <1>5 DEF Mid

LEMMA MetaNat == ASSUME NEW b, NEW kind PROVE Meta(b, kind) \in Nat
BY DEF Meta, Frames!RequestMeta, Frames!AnswerMeta

LEMMA ByteAtNat == ASSUME NEW b \in Seq(Cell), NEW i \in Nat PROVE ByteAt(b, i) \in 0 .. 255
<1>1. ASSUME i < Len(b) PROVE b[i + 1] \in Cell
  <2>1. i + 1 \in 1 .. Len(b)
    BY <1>1, LenProperties
  <2> QED BY <2>1, ElementOfSeq
<1> QED BY <1>1 DEF ByteAt, Cell, Byte

LEMMA DataNat ==
  ASSUME RtuLengths, NEW b \in Seq(Cell) PROVE Data(b, "indication") \in Nat \ {0}
<1>1. ByteAt(b, CountAt(b, "indication")) \in Nat
  <2>1. PICK i \in Nat : i = CountAt(b, "indication")
    BY DEF CountAt, RtuLengths
  <2>2. ByteAt(b, i) \in 0 .. 255
    BY ByteAtNat
  <2>3. \A v \in 0 .. 255 : v \in Nat
    OBVIOUS
  <2> QED BY <2>1, <2>2, <2>3, Zenon
<1>2. PICK c \in Nat : c = ByteAt(b, CountAt(b, "indication"))
  BY <1>1
<1>3. PICK f : f = Function(b)
  OBVIOUS
<1>4. Frames!RequestData([function |-> f, count |-> c]) \in Nat
  BY <1>2 DEF Frames!RequestData
<1>5. Data(b, "indication") = 2 + Frames!RequestData([function |-> f, count |-> c])
  BY <1>2, <1>3 DEF Data, RtuLengths
<1> QED BY <1>4, <1>5

LEMMA NewFields ==
  ASSUME NEW m \in Mid, NEW x \in Seq(Cell), NEW y \in Nat, x # <<>>, y # 0
  PROVE  [m EXCEPT !.bytes = x, !.length_to_read = y] \in Mid
<1> DEFINE R == [bytes : Seq(Cell), step : {"function", "meta", "data"}, length_to_read : Nat \ {0}]
           f == [m EXCEPT !.bytes = x]
           g == [f EXCEPT !.length_to_read = y]
<1>1. f \in R /\ f.bytes = x
  BY DEF Mid
<1> HIDE DEF f
<1>2. g \in R /\ g.bytes = x
  BY <1>1
<1>3. g \in Mid
  <2> HIDE DEF g
  <2> QED BY <1>2 DEF Mid
<1> QED BY <1>3 DEF f

LEMMA ConcatFacts ==
  ASSUME NEW T, NEW a \in Seq(T), NEW b \in Seq(T)
  PROVE  a \o b \in Seq(T) /\ Len(a \o b) = Len(a) + Len(b)
OBVIOUS

\* One read of a slave.
LEMMA ReadSome ==
  ASSUME RtuLengths, NEW m \in Mid, NEW in \in Seq(Cell), in # <<>>
  PROVE  LET n    == Taken(m, Len(in))
             got  == Read(m, SubSeq(in, 1, n), "indication")
             rest == SubSeq(in, n + 1, Len(in))
         IN /\ got.bytes \in Seq(Cell) /\ got.bytes # <<>> /\ rest \in Seq(Cell)
            /\ Len(got.bytes) + Len(rest) = Len(m.bytes) + Len(in) /\ Len(rest) <= Len(in)
            /\ m.bytes # <<>> => got.bytes[1] = m.bytes[1]
            /\ Complete(got) \/ got \in Mid
<1> DEFINE n    == Taken(m, Len(in))
           new  == SubSeq(in, 1, n)
           got  == Read(m, new, "indication")
           rest == SubSeq(in, n + 1, Len(in))
           all  == m.bytes \o new
           left == m.length_to_read - Len(new)
<1>1. /\ m \in [bytes : Seq(Cell), step : {"function", "meta", "data"}, length_to_read : Nat \ {0}]
      /\ m.bytes \in Seq(Cell) /\ m.step \in {"function", "meta", "data"}
      /\ m.length_to_read \in Nat /\ m.length_to_read # 0
  BY DEF Mid
<1>2. PICK l \in Nat : l = Len(in) /\ l # 0
  BY EmptySeq, LenProperties
<1>3. n \in Nat /\ n # 0 /\ n <= l /\ n <= m.length_to_read
  BY <1>1, <1>2 DEF Taken
<1> HIDE DEF n
<1>4. new \in Seq(Cell) /\ Len(new) = n /\ rest \in Seq(Cell) /\ Len(rest) = l - n
  BY <1>2, <1>3
<1> HIDE DEF new, rest
<1>5. PICK k \in Nat : k = Len(m.bytes)
  BY <1>1, LenProperties
<1>6. all \in Seq(Cell) /\ Len(all) = k + n /\ (m.bytes # <<>> => all[1] = m.bytes[1])
  <2>1. all \in Seq(Cell) /\ Len(all) = k + n
    <3>1. all \in Seq(Cell) /\ Len(all) = Len(m.bytes) + Len(new)
      BY <1>1, <1>4, ConcatFacts
    <3> QED BY <1>4, <1>5, <3>1, Zenon
  <2>2. ASSUME m.bytes # <<>> PROVE all[1] = m.bytes[1]
    <3>1. 1 \in 1 .. Len(m.bytes)
      BY <1>1, <1>5, <2>2, EmptySeq
    <3> QED BY <1>1, <1>4, <3>1, ConcatProperties
  <2> QED BY <2>1, <2>2
<1>7. all # <<>>
  BY <1>3, <1>6, EmptySeq
<1> HIDE DEF all
<1>8. left \in Nat
  BY <1>1, <1>3, <1>4
<1>9. got.bytes = all /\ (Complete(got) \/ got \in Mid)
  <2> HIDE DEF left
  <2>1. CASE left > 0 \/ m.step = "data"
    <3>1. got = [m EXCEPT !.bytes = all, !.length_to_read = left]
      BY <2>1 DEF Read, all, left
    <3> HIDE DEF got
    <3>2. got.bytes = all /\ got.step = m.step /\ got.length_to_read = left
      <4>1. PICK g : g = got
        OBVIOUS
      <4>2. g = [m EXCEPT !.bytes = all, !.length_to_read = left]
        BY <3>1, <4>1
      <4>3. g.bytes = all /\ g.step = m.step /\ g.length_to_read = left
        <5> HIDE DEF left, all
        <5> QED BY <4>2 DEF Mid
      <4> QED BY <4>1, <4>3
    <3>3. CASE left = 0
      BY <2>1, <3>2, <3>3 DEF Complete
    <3>4. left # 0 => got \in Mid
      BY <1>6, <1>7, <1>8, <3>1, NewFields, Zenon
    <3> QED BY <3>2, <3>3, <3>4
  <2>2. CASE left = 0 /\ m.step = "function" /\ Meta(all, "indication") # 0
    <3>1. got = [bytes |-> all, step |-> "meta", length_to_read |-> Meta(all, "indication")]
      BY <2>2 DEF Read, all, left
    <3>2. Meta(all, "indication") \in Nat \ {0}
      BY <2>2, MetaNat
    <3> QED BY <1>6, <1>7, <3>1, <3>2 DEF Mid
  <2>3. CASE left = 0 /\ m.step # "data" /\ ~(m.step = "function" /\ Meta(all, "indication") # 0)
    <3>1. got = [bytes |-> all, step |-> "data", length_to_read |-> Data(all, "indication")]
      BY <2>3 DEF Read, all, left
    <3>2. Data(all, "indication") \in Nat \ {0}
      BY <1>6, DataNat
    <3> QED BY <1>6, <1>7, <3>1, <3>2 DEF Mid
  <2> QED BY <1>8, <2>1, <2>2, <2>3
<1> HIDE DEF got
<1>10. Len(got.bytes) + Len(rest) = Len(m.bytes) + Len(in) /\ Len(rest) <= Len(in)
  <2>1. Len(got.bytes) = k + n /\ Len(rest) = l - n /\ Len(m.bytes) = k /\ Len(in) = l
    BY <1>2, <1>4, <1>5, <1>6, <1>9, Zenon
  <2> QED BY <1>3, <2>1
<1> QED BY <1>4, <1>6, <1>7, <1>9, <1>10 DEF got, rest, new, n

\* What ExecutesRequests says while there is no fault.
Obeys == \A t \in Slaves :
  Executing(t) => \E p \in Pdus : request = RequestTo(t, p) /\ job[t] = Asks(t, p)

Wellformed == Domains /\ \A t \in Slaves : rx[t] \in Mid /\ input[t] \in Seq(Cell)

\* There is no more to come at slave s than one request, or it waits for the rest of a
\* message from before the call.
Few(s, p) == \/ Len(rx[s].bytes) + Len(input[s]) <= Len(Asks(s, p))
             \/ /\ rx[s].bytes # <<>> /\ rx[s].bytes[1].by.now = FALSE
                /\ Len(input[s]) <= Len(Asks(s, p))

\* The slave is out of step and may miss the request.  With the recovery of the link
\* it has not missed the one before.
Misses(s, p) ==
  /\ Runs(s, p) /\ Silent(Master) /\ ~Executing(s) /\ Few(s, p)
  /\ "link" \in recovery => before # "failed"

Phase(s, p) == Misses(s, p) \/ Hears(s, p) \/ Serves(s, p) \/ Returns(s, p)

\* The master sleeps after a call that has missed its slave.
Sleeps ==
  /\ pc = "timedOut" /\ "link" \in recovery /\ Silent(Master) /\ SlavesIdle
  /\ result.rc = "failed" /\ before # "failed"

\* The call has failed.  Nobody reads or executes anything, and with the recovery of
\* the link nobody waits for the rest of a message.
HasFailed ==
  /\ SlavesIdle
  /\ "link" \in recovery => before # "failed" /\ \A t \in Slaves : ~Begun(rx[t])

\* It has not: whoever was asked last is in step.
HasNotFailed ==
  /\ \A s \in Slaves : s = request.slave => Silent(s) /\ job[s] = <<>>
  /\ result.rc # "none" => result.own

\* No call runs.
NoCall ==
  /\ pc = "idle" /\ Silent(Master) /\ \A t \in Slaves : ~Executing(t)
  /\ IF result.rc = "failed" THEN HasFailed ELSE HasNotFailed

LineInStep == Wellformed /\ (NoCall \/ Sleeps \/ \E s \in Slaves, p \in Pdus : Phase(s, p))

LineInv == /\ faults \in Seq({"noise", "late"})
           /\ faults = <<>> => LineInStep

LEMMA LineInit == ASSUME RegisterLine, BusInit PROVE LineInv
<1>1. /\ Master \in Nodes /\ RtuLengths
      /\ \A t \in Slaves : t # Master /\ t \in Nodes
  BY SlaveNumber DEF Nodes, RegisterLine
<1>2. \A t \in Slaves : rx[t] = NewMessage /\ input[t] = <<>> /\ job[t] = <<>>
  BY <1>1 DEF BusInit
<1>3. Wellformed
  BY <1>1, <1>2, NewIsMid DEF Wellformed, Domains, BusInit
<1>4. Silent(Master) /\ pc = "idle" /\ result.rc = "none"
  BY <1>1 DEF BusInit, Silent, NoResult
<1>5. \A t \in Slaves : t # request.slave
  BY <1>1 DEF BusInit, Master
<1>6. NoCall
  BY <1>2, <1>4, <1>5 DEF NoCall, HasNotFailed, Executing
<1>7. faults \in Seq({"noise", "late"})
  BY DEF BusInit
<1> QED BY <1>3, <1>6, <1>7 DEF LineInv, LineInStep

LEMMA RequestIs ==
  ASSUME NEW s, NEW p
  PROVE  RequestTo(s, p).slave = s /\ RequestTo(s, p).function = p[1]
         /\ RequestTo(s, p).nb = 256 * p[4] + p[5]
BY DEF RequestTo

LEMMA AsksLength ==
  ASSUME RegisterLine, NEW s \in Slaves, NEW p \in Pdus
  PROVE  Asks(s, p) \in Seq(Cell) /\ Len(Asks(s, p)) \in Nat /\ Len(Asks(s, p)) = Len(p) + 3
<1>1. s \in Byte /\ p \in Seq(Byte) /\ [from |-> Master, now |-> TRUE] \in Senders
  BY SlaveNumber, FirstFive, BySenders DEF RegisterLine
<1>2. Asks(s, p) \in Seq(Cell) /\ Len(Asks(s, p)) = Len(p) + 3
  BY <1>1, PduParts DEF Asks, Message
<1> QED BY <1>2, LenProperties

\* The fields of a request tell how long it is.
LEMMA SameLength ==
  ASSUME RegisterLine, NEW s \in Slaves, NEW p \in Pdus, NEW q \in Pdus, RequestTo(s, p) = RequestTo(s, q)
  PROVE  Len(Asks(s, p)) = Len(Asks(s, q))
<1>1. p \in Requests /\ q \in Requests
  BY DEF RegisterLine
<1>2. p[1] = q[1] /\ 256 * p[4] + p[5] = 256 * q[4] + q[5]
  BY RequestIs
<1>3. Len(p) = Len(q)
  <2>1. CASE p[1] = 16
    <3>1. /\ p[4] = 0 /\ p[5] \in 1 .. 123 /\ p[6] = 2 * p[5] /\ Len(p) = 6 + p[6]
          /\ q[4] = 0 /\ q[5] \in 1 .. 123 /\ q[6] = 2 * q[5] /\ Len(q) = 6 + q[6]
      BY <1>1, <1>2, <2>1 DEF Requests
    <3>2. PICK a \in 1 .. 123, b \in 1 .. 123 : a = p[5] /\ b = q[5]
      BY <3>1, Zenon
    <3>3. 256 * 0 + a = 256 * 0 + b
      BY <1>2, <3>1, <3>2, Zenon
    <3>4. a = b
      BY <3>3
    <3> QED BY <3>1, <3>2, <3>4, Zenon
  <2>2. CASE p[1] # 16
    BY <1>1, <1>2, <2>2 DEF Requests
  <2> QED BY <2>1, <2>2
<1> QED BY <1>3, AsksLength

\* A step that touches neither the master nor the slave that is asked.
LEMMA Untouched ==
  ASSUME NEW s, NEW p, Phase(s, p), UNCHANGED <<recovery, pc, request, result, before>>,
         rx'[Master] = rx[Master], input'[Master] = input[Master],
         rx'[s] = rx[s], input'[s] = input[s], job'[s] = job[s]
  PROVE  Phase(s, p)'
<1>1. Silent(Master)' = Silent(Master) /\ Silent(s)' = Silent(s) /\ Runs(s, p)' = Runs(s, p)
  BY DEF Silent, Runs
<1>2. CASE Misses(s, p)
  <2>1. Few(s, p)'
    BY <1>2 DEF Misses, Few
  <2>2. ~Executing(s)'
    BY <1>2 DEF Misses, Executing, Filtered
  <2> QED BY <1>1, <1>2, <2>1, <2>2 DEF Misses, Phase
<1>3. CASE Hears(s, p)
  BY <1>1, <1>3 DEF Hears, Phase
<1>4. CASE Serves(s, p)
  BY <1>1, <1>4 DEF Serves, Phase
<1>5. CASE Returns(s, p)
  BY <1>1, <1>5 DEF Returns, Phase
<1> QED BY <1>2, <1>3, <1>4, <1>5 DEF Phase

LEMMA LineCall ==
  ASSUME RegisterLine, LineInStep, Call, faults \in Seq({"noise", "late"}), faults' = <<>>
  PROVE  LineInStep'
<1>1. NoCall /\ Wellformed /\ Domains /\ RtuLengths
  BY DEF LineInStep, Call, Sleeps, Phase, Misses, Hears, Serves, Returns, Runs, Wellformed, RegisterLine
<1>2. \A t \in Slaves : input[t] = <<>> /\ job[t] = <<>>
  BY <1>1 DEF NoCall, Call
<1>3. PICK s \in Slaves, p \in Pdus :
        /\ Runs(s, p)' /\ Silent(Master)' /\ before' = result.rc /\ recovery' = recovery
        /\ \A t \in Slaves : /\ job'[t] = <<>> /\ input'[t] = Asks(s, p)
                             /\ rx'[t] = [rx[t] EXCEPT !.bytes = Age(@)]
  BY <1>1, <1>2, CallSends DEF NoCall
<1>4. Domains'
  BY <1>1, DomainsStay DEF Next, MasterNext
<1>5. \A t \in Slaves : rx'[t] \in Mid /\ rx'[t].bytes = Age(rx[t].bytes)
                        /\ (rx[t].bytes = <<>> => rx'[t] = NewMessage)
  <2> SUFFICES ASSUME NEW t \in Slaves
               PROVE  rx'[t] \in Mid /\ rx'[t].bytes = Age(rx[t].bytes)
                      /\ (rx[t].bytes = <<>> => rx'[t] = NewMessage)
    OBVIOUS
  <2>1. PICK m \in Mid : m = rx[t]
    BY <1>1 DEF Wellformed
  <2>2. PICK a : a = [m EXCEPT !.bytes = Age(@)]
    OBVIOUS
  <2>3. rx'[t] = a
    BY <1>3, <2>1, <2>2, Zenon
  <2>4. a \in Mid /\ a.bytes = Age(m.bytes) /\ (m.bytes = <<>> => a = NewMessage)
    BY <2>2, AgeMid
  <2> QED BY <2>1, <2>3, <2>4
<1>6. Wellformed'
  BY <1>3, <1>4, <1>5, AsksLength DEF Wellformed
<1>7. CASE rx[s].bytes = <<>>
  <2>1. rx'[s] = NewMessage
    BY <1>5, <1>7
  <2>2. Receiving(Asks(s, p), "indication", rx'[s], input'[s])
    BY <1>1, <1>3, <2>1, AsksParts, NewReceiving
  <2>3. Phase(s, p)'
    BY <1>3, <2>2 DEF Hears, Phase
  <2> QED BY <1>6, <2>3 DEF LineInStep
<1>8. CASE rx[s].bytes # <<>>
  <2>1. "link" \in recovery' => before' # "failed"
    BY <1>1, <1>3, <1>8 DEF NoCall, HasFailed, Begun
  <2>2. rx'[s].bytes # <<>> /\ rx'[s].bytes[1].by.now = FALSE
    <3>1. rx[s].bytes \in Seq(Cell)
      BY <1>1 DEF Wellformed, Mid
    <3> QED BY <1>5, <1>8, <3>1, AgeKeeps
  <2>3. Len(input'[s]) <= Len(Asks(s, p))
    <3>1. input'[s] = Asks(s, p)
      BY <1>3
    <3>2. Len(Asks(s, p)) \in Nat
      BY AsksLength
    <3> QED BY <3>1, <3>2
  <2>4. Few(s, p)'
    BY <2>2, <2>3 DEF Few
  <2>5. ~Executing(s)'
    BY <1>3 DEF Executing
  <2>6. Phase(s, p)'
    BY <1>3, <2>1, <2>4, <2>5 DEF Misses, Phase
  <2> QED BY <1>6, <2>6 DEF LineInStep
<1> QED BY <1>7, <1>8

LEMMA LineMasterReceive ==
  ASSUME RegisterLine, LineInStep, Obeys, MasterReceive
  PROVE  LineInStep'
<1>1. PICK s \in Slaves, p \in Pdus : Returns(s, p)
  BY DEF LineInStep, MasterReceive, NoCall, Sleeps, Phase, Misses, Hears, Serves, Silent
<1>2. Wellformed /\ Domains
  BY DEF LineInStep, Wellformed
<1>3. /\ Domains'
      /\ \A t \in Slaves : rx'[t] = rx[t] /\ input'[t] = input[t] /\ job'[t] = job[t]
      /\ Silent(s)' /\ job'[s] = <<>> /\ request' = RequestTo(s, p)
      /\ \/ Returns(s, p)'
         \/ pc' = "idle" /\ Silent(Master)' /\ result'.rc \notin {"none", "failed"} /\ result'.own
  BY <1>1, <1>2, ReturnsRead
<1>4. Wellformed'
  BY <1>2, <1>3 DEF Wellformed
<1>5. CASE Returns(s, p)'
  BY <1>4, <1>5 DEF Phase, LineInStep
<1>6. CASE pc' = "idle" /\ Silent(Master)' /\ result'.rc \notin {"none", "failed"} /\ result'.own
  <2>1. \A t \in Slaves : ~Executing(t)'
    <3> SUFFICES ASSUME NEW t \in Slaves, Executing(t)' PROVE FALSE
      OBVIOUS
    <3>1. Executing(t)
      BY <1>3 DEF Executing, Filtered
    <3>2. request.slave = t /\ request.slave = s
      BY <1>1, <3>1, RequestIs DEF Obeys, Returns, Runs
    <3>3. job'[t] # <<>>
      BY DEF Executing
    <3> QED BY <1>3, <3>2, <3>3
  <2>2. request'.slave = s
    BY <1>3, RequestIs
  <2>3. NoCall'
    BY <1>3, <1>6, <2>1, <2>2 DEF NoCall, HasNotFailed
  <2> QED BY <1>4, <2>3 DEF LineInStep
<1> QED BY <1>3, <1>5, <1>6

LEMMA LineMasterTimeout ==
  ASSUME RegisterLine, LineInStep, MasterTimeout, faults \in Seq({"noise", "late"}), faults' = <<>>
  PROVE  LineInStep'
<1>1. SlavesIdle
  BY FaultStays DEF MasterTimeout
<1>2. Wellformed /\ Domains /\ Master \in Nodes /\ \A t \in Slaves : t # Master /\ t \in Nodes
  BY SlaveNumber DEF LineInStep, Wellformed, Nodes
<1>3. input[Master] = <<>> /\ pc = "receive"
  BY DEF MasterTimeout
<1>4. PICK s \in Slaves, p \in Pdus : Phase(s, p)
  BY <1>3 DEF LineInStep, NoCall, Sleeps
<1>5. Misses(s, p)
  BY <1>1, <1>3, <1>4, NobodyWaits DEF Phase, SlavesIdle
<1>6. /\ pc' = IF "link" \in recovery THEN "timedOut" ELSE "idle"
      /\ rx' = [rx EXCEPT ![Master] = NewMessage]
      /\ result' = [rc |-> "failed", own |-> FALSE]
      /\ UNCHANGED <<recovery, request, before, input, job>>
  BY DEF MasterTimeout
<1>7. /\ Domains' /\ rx'[Master] = NewMessage
      /\ \A t \in Slaves : rx'[t] = rx[t] /\ input'[t] = input[t] /\ job'[t] = job[t]
  BY <1>2, <1>6 DEF Domains
<1>8. Wellformed'
  BY <1>2, <1>7 DEF Wellformed
<1>9. Silent(Master)' /\ SlavesIdle'
  BY <1>1, <1>3, <1>6, <1>7 DEF Silent, SlavesIdle
<1>10. result'.rc = "failed" /\ ("link" \in recovery => before' # "failed")
  BY <1>5, <1>6 DEF Misses
<1>11. CASE "link" \in recovery
  BY <1>6, <1>8, <1>9, <1>10, <1>11 DEF Sleeps, LineInStep
<1>12. CASE "link" \notin recovery
  <2>1. NoCall'
    BY <1>6, <1>9, <1>10, <1>12 DEF NoCall, HasFailed, Executing, SlavesIdle
  <2> QED BY <1>8, <2>1 DEF LineInStep
<1> QED BY <1>11, <1>12

\* The end of the sleep: every byte timeout has ended.
LEMMA LineMasterFlush ==
  ASSUME RegisterLine, LineInStep, MasterFlush, faults \in Seq({"noise", "late"}), faults' = <<>>
  PROVE  LineInStep'
<1>1. Sleeps
  BY DEF LineInStep, MasterFlush, NoCall, Phase, Misses, Hears, Serves, Returns, Runs
<1>2. \A t \in Slaves : ~Begun(rx[t])
  BY <1>1, FaultStays DEF MasterFlush, Sleeps
<1>3. Wellformed /\ Domains /\ Master \in Nodes /\ \A t \in Slaves : t # Master /\ t \in Nodes
  BY SlaveNumber DEF LineInStep, Wellformed, Nodes
<1>4. /\ pc' = "idle" /\ input' = [input EXCEPT ![Master] = <<>>]
      /\ UNCHANGED <<recovery, request, result, before, rx, job>>
  BY DEF MasterFlush
<1>5. Domains' /\ input'[Master] = <<>> /\ \A t \in Slaves : input'[t] = input[t]
  BY <1>3, <1>4 DEF Domains
<1>6. Wellformed'
  BY <1>3, <1>4, <1>5 DEF Wellformed
<1>7. Silent(Master)' /\ SlavesIdle'
  BY <1>1, <1>4, <1>5 DEF Sleeps, Silent, SlavesIdle
<1>8. NoCall'
  BY <1>1, <1>2, <1>4, <1>7 DEF NoCall, HasFailed, Sleeps, Executing, SlavesIdle
<1> QED BY <1>6, <1>8 DEF LineInStep

LEMMA LineSlaveTimeout ==
  ASSUME RegisterLine, LineInStep, NEW t \in Slaves, SlaveTimeout(t)
  PROVE  LineInStep'
<1>1. /\ Wellformed /\ Domains /\ Master \in Nodes /\ RtuLengths
      /\ \A u \in Slaves : u # Master /\ u \in Nodes
  BY SlaveNumber DEF LineInStep, Wellformed, Nodes, RegisterLine
<1>2. /\ job[t] = <<>> /\ input[t] = <<>> /\ Begun(rx[t])
      /\ rx' = [rx EXCEPT ![t] = NewMessage]
      /\ UNCHANGED <<recovery, pc, request, result, before, input, job, faults>>
  BY DEF SlaveTimeout
<1>3. /\ Domains' /\ rx'[t] = NewMessage /\ rx'[Master] = rx[Master]
      /\ \A u \in Slaves \ {t} : rx'[u] = rx[u]
  BY <1>1, <1>2 DEF Domains
<1>4. Wellformed'
  BY <1>1, <1>2, <1>3, NewIsMid DEF Wellformed
<1>5. ~Silent(t)
  BY <1>2 DEF Silent, Begun, NewMessage
<1>6. CASE NoCall
  <2>1. \A u \in Slaves : ~Executing(u)'
    BY <1>2, <1>6 DEF NoCall, Executing, Filtered
  <2>2. result.rc # "failed" => HasNotFailed'
    BY <1>2, <1>3, <1>5, <1>6 DEF NoCall, HasNotFailed, Silent
  <2>3. result.rc = "failed" => HasFailed'
    BY <1>2, <1>3, <1>6 DEF NoCall, HasFailed, SlavesIdle, Begun, NewMessage
  <2>4. NoCall'
    BY <1>2, <1>3, <1>6, <2>1, <2>2, <2>3 DEF NoCall, Silent
  <2> QED BY <1>4, <2>4 DEF LineInStep
<1>7. ASSUME NEW s \in Slaves, NEW p \in Pdus, Phase(s, p) PROVE Phase(s, p)'
  <2>1. CASE s # t
    BY <1>2, <1>3, <1>7, <2>1, Untouched
  <2>2. CASE s = t
    <3>1. Misses(s, p)
      BY <1>2, <1>5, <1>7, <2>2, NobodyWaits DEF Phase, Serves, Returns
    <3>2. Few(s, p)'
      <4>1. rx'[s].bytes = <<>> /\ input'[s] = <<>>
        BY <1>2, <1>3, <2>2 DEF NewMessage
      <4>2. Len(rx'[s].bytes) + Len(input'[s]) <= Len(Asks(s, p))
        BY <4>1, AsksLength
      <4> QED BY <4>2 DEF Few
    <3>3. Misses(s, p)'
      BY <1>2, <1>3, <3>1, <3>2 DEF Misses, Runs, Silent, Executing, Filtered
    <3> QED BY <3>3 DEF Phase
  <2> QED BY <2>1, <2>2
<1>8. CASE Sleeps
  <2>1. Sleeps'
    BY <1>2, <1>3, <1>8 DEF Sleeps, Silent, SlavesIdle
  <2> QED BY <1>4, <2>1 DEF LineInStep
<1> QED BY <1>4, <1>6, <1>7, <1>8 DEF LineInStep

\* A slave that is out of step reads on, and may be back in step in time.
LEMMA MissesRead ==
  ASSUME RegisterLine, Wellformed, NEW s \in Slaves, NEW p \in Pdus, Misses(s, p),
         SlaveReceive(s), Obeys'
  PROVE  Misses(s, p)' \/ \E q \in Pdus : Serves(s, q)'
<1>1. /\ Domains /\ RtuLengths /\ Master \in Nodes /\ s # Master /\ s \in Nodes
      /\ rx[s] \in Mid /\ input[s] \in Seq(Cell) /\ input[s] # <<>>
  BY SlaveNumber DEF Wellformed, RegisterLine, SlaveReceive
<1> DEFINE got  == Got(s, "indication")
           rest == Rest(s)
<1>2. /\ got.bytes \in Seq(Cell) /\ got.bytes # <<>> /\ rest \in Seq(Cell)
      /\ Len(got.bytes) + Len(rest) = Len(rx[s].bytes) + Len(input[s]) /\ Len(rest) <= Len(input[s])
      /\ rx[s].bytes # <<>> => got.bytes[1] = rx[s].bytes[1]
  BY <1>1, ReadSome DEF Got, Rest
<1> HIDE DEF got, rest
<1>3. /\ input' = [input EXCEPT ![s] = rest]
      /\ rx' = [rx EXCEPT ![s] = IF TooLong(got) \/ Complete(got) THEN NewMessage ELSE got]
      /\ job' = [job EXCEPT ![s] = IF ~TooLong(got) /\ Complete(got) /\ CheckIntegrity(Vals(got.bytes))
                                     THEN got.bytes ELSE <<>>]
      /\ UNCHANGED <<recovery, pc, request, result, before, faults>>
  BY DEF SlaveReceive, got, rest
<1>4. /\ input'[s] = rest /\ input'[Master] = input[Master] /\ rx'[Master] = rx[Master]
      /\ \/ rx'[s] = NewMessage /\ job'[s] = got.bytes
         \/ rx'[s] = NewMessage /\ job'[s] = <<>>
         \/ rx'[s] = got /\ job'[s] = <<>>
  BY <1>1, <1>3 DEF Domains
<1>5. Silent(Master)' /\ Runs(s, p)' /\ ("link" \in recovery' => before' # "failed")
  BY <1>3, <1>4 DEF Misses, Silent, Runs
<1>6. PICK g \in Nat, r \in Nat, m \in Nat, i \in Nat, l \in Nat :
        /\ g = Len(got.bytes) /\ r = Len(rest) /\ m = Len(rx[s].bytes) /\ i = Len(input[s])
        /\ l = Len(Asks(s, p)) /\ g + r = m + i /\ r <= i
  <2>1. rx[s].bytes \in Seq(Cell)
    BY <1>1 DEF Mid
  <2> QED BY <1>1, <1>2, <2>1, AsksLength, LenProperties
<1>7. m + i <= l \/ (rx[s].bytes # <<>> /\ rx[s].bytes[1].by.now = FALSE /\ i <= l)
  BY <1>6, Zenon DEF Misses, Few
<1>8. Few(s, p)'
  <2>1. CASE rx'[s] = NewMessage
    <3>1. rx'[s].bytes = <<>>
      BY <2>1 DEF NewMessage
    <3>2. 0 + r <= l
      <4>1. g + r = m + i /\ r <= i
        BY <1>6
      <4>2. m + i <= l \/ i <= l
        BY <1>7
      <4> QED BY <4>1, <4>2
    <3>3. Len(rx'[s].bytes) + Len(input'[s]) <= Len(Asks(s, p))
      BY <1>4, <1>6, <3>1, <3>2
    <3> QED BY <3>3 DEF Few
  <2>2. CASE rx'[s] = got
    <3>1. CASE m + i <= l
      <4>1. Len(rx'[s].bytes) + Len(input'[s]) <= Len(Asks(s, p))
        BY <1>4, <1>6, <2>2, <3>1
      <4> QED BY <4>1 DEF Few
    <3>2. CASE rx[s].bytes # <<>> /\ rx[s].bytes[1].by.now = FALSE /\ i <= l
      <4>1. rx'[s].bytes # <<>> /\ rx'[s].bytes[1].by.now = FALSE
        BY <1>2, <2>2, <3>2
      <4>2. Len(input'[s]) <= Len(Asks(s, p))
        BY <1>4, <1>6, <3>2
      <4> QED BY <4>1, <4>2 DEF Few
    <3> QED BY <1>7, <3>1, <3>2
  <2> QED BY <1>4, <2>1, <2>2
<1>9. CASE ~Executing(s)'
  BY <1>5, <1>8, <1>9 DEF Misses
<1>10. CASE Executing(s)'
  <2>1. PICK q \in Pdus : request' = RequestTo(s, q) /\ job'[s] = Asks(s, q)
    BY <1>10 DEF Obeys
  <2>2. job'[s] # <<>>
    BY <1>10 DEF Executing
  <2>3. rx'[s] = NewMessage /\ got.bytes = Asks(s, q)
    BY <1>4, <2>1, <2>2
  <2>4. request' = RequestTo(s, p)
    BY <1>5 DEF Runs
  <2>5. g = l
    BY <1>6, <2>1, <2>3, <2>4, SameLength
  <2>6. ~(rx[s].bytes # <<>> /\ rx[s].bytes[1].by.now = FALSE)
    <3>1. got.bytes[1].by.now = TRUE
      BY <2>3, AsksParts
    <3> QED BY <1>2, <3>1
  <2>7. m + i <= l
    BY <1>7, <2>6
  <2>8. r = 0
    <3>1. \A x, y, z \in Nat : x + y <= z /\ z + r = x + y => r = 0
      OBVIOUS
    <3>2. l + r = m + i
      BY <1>6, <2>5
    <3> QED BY <2>7, <3>1, <3>2
  <2>9. rest = <<>>
    BY <1>2, <1>6, <2>8, EmptySeq
  <2>10. Silent(s)' /\ Runs(s, q)'
    BY <1>4, <1>5, <2>1, <2>3, <2>9 DEF Silent, Runs
  <2>11. Serves(s, q)'
    BY <1>5, <2>1, <2>10 DEF Serves
  <2> QED BY <2>11
<1> QED BY <1>9, <1>10

LEMMA LineSlaveReceive ==
  ASSUME RegisterLine, LineInStep, NEW t \in Slaves, SlaveReceive(t), Obeys'
  PROVE  LineInStep'
<1>1. /\ Wellformed /\ Domains /\ Master \in Nodes /\ RtuLengths
      /\ \A u \in Slaves : u # Master /\ u \in Nodes
  BY SlaveNumber DEF LineInStep, Wellformed, Nodes, RegisterLine
<1> DEFINE got  == Got(t, "indication")
           rest == Rest(t)
<1>2. rest \in Seq(Cell) /\ (Complete(got) \/ got \in Mid)
  <2>1. rx[t] \in Mid /\ input[t] \in Seq(Cell) /\ input[t] # <<>>
    BY <1>1 DEF Wellformed, SlaveReceive
  <2> QED BY <1>1, <2>1, ReadSome DEF Got, Rest
<1> HIDE DEF got, rest
<1>3. /\ input' = [input EXCEPT ![t] = rest]
      /\ rx' = [rx EXCEPT ![t] = IF TooLong(got) \/ Complete(got) THEN NewMessage ELSE got]
      /\ \E j : job' = [job EXCEPT ![t] = j]
      /\ UNCHANGED <<recovery, pc, request, result, before, faults>>
      /\ job[t] = <<>> /\ input[t] # <<>>
  BY DEF SlaveReceive, got, rest
<1>4. /\ Domains' /\ input'[t] = rest /\ (rx'[t] = NewMessage \/ rx'[t] \in Mid)
      /\ input'[Master] = input[Master] /\ rx'[Master] = rx[Master]
      /\ \A u \in Slaves \ {t} : rx'[u] = rx[u] /\ input'[u] = input[u] /\ job'[u] = job[u]
  BY <1>1, <1>2, <1>3 DEF Domains
<1>5. Wellformed'
  BY <1>1, <1>2, <1>4, NewIsMid DEF Wellformed
<1>6. CASE NoCall
  <2>1. result.rc # "failed" /\ HasNotFailed /\ t # request.slave
    BY <1>3, <1>6 DEF NoCall, HasFailed, HasNotFailed, SlavesIdle, Silent
  <2>2. ASSUME NEW u \in Slaves, Executing(u)' PROVE FALSE
    <3>1. CASE u = t
      BY <1>3, <2>1, <2>2, <3>1, RequestIs DEF Obeys
    <3>2. CASE u # t
      BY <1>4, <1>6, <2>2, <3>2 DEF NoCall, Executing, Filtered
    <3> QED BY <3>1, <3>2
  <2>3. HasNotFailed'
    BY <1>3, <1>4, <2>1 DEF HasNotFailed, Silent
  <2>4. NoCall'
    BY <1>3, <1>4, <1>6, <2>1, <2>2, <2>3 DEF NoCall, Silent
  <2> QED BY <1>5, <2>4 DEF LineInStep
<1>7. ASSUME NEW s \in Slaves, NEW p \in Pdus, Phase(s, p) PROVE \E q \in Pdus : Phase(s, q)'
  <2>1. CASE s # t
    BY <1>3, <1>4, <1>7, <2>1, Untouched
  <2>2. CASE s = t
    <3>1. Misses(s, p) \/ Hears(s, p)
      BY <1>3, <1>7, <2>2, NobodyWaits DEF Phase, Returns, Silent
    <3>2. CASE Misses(s, p)
      BY <1>1, <2>2, <3>2, MissesRead DEF Phase
    <3>3. CASE Hears(s, p)
      BY <1>1, <2>2, <3>3, HearsRead DEF Phase
    <3> QED BY <3>1, <3>2, <3>3
  <2> QED BY <2>1, <2>2
<1>8. ~Sleeps
  BY <1>3 DEF Sleeps, SlavesIdle
<1> QED BY <1>5, <1>6, <1>7, <1>8 DEF LineInStep

LEMMA LineSlaveReply ==
  ASSUME RegisterLine, LineInStep, Obeys, NEW t \in Slaves, SlaveReply(t),
         faults \in Seq({"noise", "late"}), faults' = <<>>
  PROVE  LineInStep'
<1>1. /\ Wellformed /\ Domains /\ Master \in Nodes /\ RtuLengths
      /\ \A u \in Slaves : u # Master /\ u \in Nodes
  BY SlaveNumber DEF LineInStep, Wellformed, Nodes, RegisterLine
<1>2. /\ job[t] # <<>> /\ job' = [job EXCEPT ![t] = <<>>]
      /\ UNCHANGED <<recovery, pc, request, result, before, rx>>
  BY DEF SlaveReply
<1>3. job'[t] = <<>> /\ \A u \in Slaves \ {t} : job'[u] = job[u]
  BY <1>1, <1>2 DEF Domains
<1>4. Domains'
  BY <1>1, DomainsStay DEF Next
<1>5. ~Sleeps
  BY <1>2 DEF Sleeps, SlavesIdle
<1>6. CASE Filtered(t)
  <2>1. UNCHANGED input
    BY <1>6 DEF SlaveReply, Executing
  <2>2. Wellformed'
    BY <1>1, <1>2, <1>4, <2>1 DEF Wellformed
  <2>3. CASE NoCall
    <3>1. result.rc # "failed" /\ HasNotFailed /\ t # request.slave
      BY <1>2, <2>3 DEF NoCall, HasFailed, HasNotFailed, SlavesIdle
    <3>2. \A u \in Slaves : ~Executing(u)'
      BY <1>3, <2>3 DEF NoCall, Executing, Filtered
    <3>3. HasNotFailed'
      BY <1>2, <1>3, <2>1, <3>1 DEF HasNotFailed, Silent
    <3>4. NoCall'
      BY <1>2, <2>1, <2>3, <3>1, <3>2, <3>3 DEF NoCall, Silent
    <3> QED BY <2>2, <3>4 DEF LineInStep
  <2>4. ASSUME NEW s \in Slaves, NEW p \in Pdus, Phase(s, p) PROVE Phase(s, p)'
    <3>1. CASE s # t
      BY <1>2, <1>3, <2>1, <2>4, <3>1, Untouched
    <3>2. CASE s = t
      <4>1. Misses(s, p)
        BY <1>2, <1>6, <2>4, <3>2, AsksParts DEF Phase, Hears, Serves, Returns, Filtered
      <4>2. Misses(s, p)'
        BY <1>2, <1>3, <2>1, <3>2, <4>1 DEF Misses, Runs, Silent, Few, Executing
      <4> QED BY <4>2 DEF Phase
    <3> QED BY <3>1, <3>2
  <2> QED BY <1>5, <2>2, <2>3, <2>4 DEF LineInStep
<1>7. CASE ~Filtered(t)
  <2>1. Executing(t)
    BY <1>2, <1>7 DEF Executing
  <2>2. PICK s \in Slaves, p \in Pdus : Phase(s, p)
    BY <1>5, <2>1 DEF LineInStep, NoCall
  <2>3. s = t
    <3>1. request.slave = t
      BY <2>1, RequestIs DEF Obeys
    <3>2. request.slave = s
      BY <2>2, RequestIs DEF Phase, Misses, Hears, Serves, Returns, Runs
    <3> QED BY <3>1, <3>2
  <2>4. Serves(s, p)
    BY <1>2, <2>1, <2>2, <2>3 DEF Phase, Misses, Hears, Returns
  <2>5. Returns(s, p)' /\ \A u \in Slaves \ {s} : input'[u] = input[u] \o Answers(s, p)
    BY <1>1, <2>3, <2>4, ServesReply
  <2>6. Answers(s, p) \in Seq(Cell)
    BY AnswersParts DEF Fits
  <2>7. \A u \in Slaves : input'[u] \in Seq(Cell)
    <3>1. ASSUME NEW u \in Slaves, u # s PROVE input'[u] \in Seq(Cell)
      BY <1>1, <2>5, <2>6, <3>1, ConcatFacts DEF Wellformed
    <3>2. input'[s] = <<>>
      BY <2>5 DEF Returns, Silent
    <3>3. <<>> \in Seq(Cell)
      OBVIOUS
    <3> QED BY <3>1, <3>2, <3>3, Zenon
  <2>8. Wellformed'
    BY <1>1, <1>2, <1>4, <2>7 DEF Wellformed
  <2> QED BY <2>5, <2>8 DEF Phase, LineInStep
<1> QED BY <1>6, <1>7

LEMMA LineNext ==
  ASSUME RegisterLine, LineInv, [Next]_vars, ExecutesRequests, ExecutesRequests'
  PROVE  LineInv'
<1>1. faults \in Seq({"noise", "late"}) /\ (faults = <<>> => LineInStep)
  BY DEF LineInv
<1>2. CASE UNCHANGED vars
  <2>1. /\ UNCHANGED recovery
        /\ UNCHANGED pc /\ UNCHANGED request /\ UNCHANGED result /\ UNCHANGED before
        /\ UNCHANGED rx /\ UNCHANGED input /\ UNCHANGED job /\ UNCHANGED faults
    BY <1>2 DEF vars
  <2>2. Wellformed' = Wellformed
    BY <2>1 DEF Wellformed, Domains
  <2>3. NoCall => NoCall'
    BY <2>1 DEF NoCall, HasFailed, HasNotFailed, Silent, Executing, Filtered, SlavesIdle
  <2>4. \A s \in Slaves, p \in Pdus : Phase(s, p) => Phase(s, p)'
    BY <2>1, Untouched
  <2>5. Sleeps => Sleeps'
    BY <2>1 DEF Sleeps, Silent, SlavesIdle
  <2> QED BY <1>1, <2>1, <2>2, <2>3, <2>4, <2>5 DEF LineInv, LineInStep
<1>3. CASE Next
  <2>1. faults' = faults \/ (faults' \in Seq({"noise", "late"}) /\ faults' # <<>>)
    BY <1>1, <1>3, FaultsGrow
  <2>2. faults' \in Seq({"noise", "late"})
    BY <1>1, <2>1
  <2>3. ASSUME faults' = <<>> PROVE LineInStep'
    <3>1. faults = <<>> /\ LineInStep /\ Obeys /\ Obeys'
      BY <1>1, <2>1, <2>3 DEF ExecutesRequests, Obeys
    <3>2. CASE Call
      BY <1>1, <2>3, <3>1, <3>2, LineCall
    <3>3. CASE MasterReceive
      BY <3>1, <3>3, LineMasterReceive
    <3>4. CASE MasterTimeout
      BY <1>1, <2>3, <3>1, <3>4, LineMasterTimeout
    <3>5. ASSUME NEW t \in Slaves, SlaveReceive(t) PROVE LineInStep'
      BY <3>1, <3>5, LineSlaveReceive
    <3>6. ASSUME NEW t \in Slaves, SlaveTimeout(t) PROVE LineInStep'
      BY <3>1, <3>6, LineSlaveTimeout
    <3>7. ASSUME NEW t \in Slaves, SlaveReply(t) PROVE LineInStep'
      BY <1>1, <2>3, <3>1, <3>7, LineSlaveReply
    <3>8. CASE MasterFlush
      BY <1>1, <2>3, <3>1, <3>8, LineMasterFlush
    <3> QED BY <1>3, <3>2, <3>3, <3>4, <3>5, <3>6, <3>7, <3>8 DEF Next, MasterNext
  <2> QED BY <2>2, <2>3 DEF LineInv
<1> QED BY <1>2, <1>3

\* While there is no fault, a call that returns a value or an exception has it from
\* the slave it asked, in answer to its own request.
EachOwn == faults = <<>> /\ result.rc \notin {"none", "failed"} => result.own

\* On a line with any number of slaves that execute nothing but the request of the
\* call that runs: one of them may miss it, waiting for the rest of an answer it has
\* taken for a request, but with the recovery of the link never that of the next call
\* too (NeverTwice); and no answer is that of another slave or to another request.
THEOREM ManySlavesNeverTwice ==
  ASSUME RegisterLine
  PROVE  Spec /\ []ExecutesRequests => [](NeverTwice /\ EachOwn)
<1>1. BusInit => LineInv
  BY LineInit
<1>2. LineInv /\ [Next]_vars /\ ExecutesRequests /\ ExecutesRequests' => LineInv'
  BY LineNext
<1>3. LineInv => NeverTwice
  BY DEF LineInv, LineInStep, NoCall, HasFailed, Sleeps, Phase, Misses, Hears, Serves, Returns, Runs,
         NoResult, NeverTwice
<1>4. LineInv => EachOwn
  BY DEF LineInv, LineInStep, NoCall, HasNotFailed, Sleeps, Phase, Misses, Hears, Serves, Returns, Runs,
         NoResult, EachOwn
<1> QED BY <1>1, <1>2, <1>3, <1>4, PTL DEF Spec

-----------------------------------------------------------------------------
(* A line that loses nothing, but where answers may come late.               *)

LossFree == "noise" \notin FaultKinds

OnlyLate == faults \in Seq({"late"})

LEMMA LateFault == ASSUME LossFree, OnlyLate, NEW k, Fault(k) PROVE OnlyLate'
<1>1. k = "late" /\ faults' = Append(faults, k)
  BY BusAssumption DEF Fault, LossFree
<1> QED BY <1>1 DEF OnlyLate

LEMMA OnlyLateStays == ASSUME LossFree, OnlyLate, [Next]_vars PROVE OnlyLate'
<1>1. ASSUME NEW f, NEW h, NEW b, Transmit(f, h, b) PROVE OnlyLate'
  BY <1>1, LateFault DEF Transmit, OnlyLate
<1>2. CASE Call
  BY <1>1, <1>2 DEF Call
<1>3. CASE MasterReceive
  BY <1>3 DEF MasterReceive, OnlyLate
<1>4. CASE MasterTimeout \/ MasterFlush
  BY <1>4, LateFault DEF MasterTimeout, MasterFlush, OnlyLate
<1>5. ASSUME NEW s \in Slaves, SlaveReceive(s) \/ SlaveTimeout(s) \/ SlaveReply(s)
      PROVE  OnlyLate'
  <2>1. CASE SlaveReceive(s)
    BY <2>1 DEF SlaveReceive, OnlyLate
  <2>2. CASE SlaveTimeout(s)
    BY <2>2 DEF SlaveTimeout, OnlyLate
  <2>3. CASE SlaveReply(s)
    BY <1>1, <2>3 DEF SlaveReply, OnlyLate
  <2> QED BY <1>5, <2>1, <2>2, <2>3
<1>6. CASE UNCHANGED vars
  BY <1>6 DEF vars, OnlyLate
<1> QED BY <1>2, <1>3, <1>4, <1>5, <1>6 DEF Next, MasterNext

LEMMA NoFaultOrLate == OnlyLate => faults = <<>> \/ Late
<1> SUFFICES ASSUME OnlyLate, faults # <<>> PROVE Late
  OBVIOUS
<1>1. 1 \in DOMAIN faults /\ faults[1] = "late"
  BY DEF OnlyLate
<1> QED BY <1>1 DEF Late

\* If no byte is lost, what a call returns is the answer of its slave to its own
\* request, unless an answer has come after the master's timeout (OwnAnswer): with
\* one slave always.
THEOREM OneSlaveOwnAnswer ==
  ASSUME NEW s, OneSlave(s), LossFree
  PROVE  Spec => []OwnAnswer
<1>1. BusInit => OnlyLate
  BY DEF BusInit, OnlyLate
<1>2. OnlyLate /\ [Next]_vars => OnlyLate'
  BY OnlyLateStays
<1>3. NoneFails /\ OnlyLate => OwnAnswer
  BY NoFaultOrLate DEF NoneFails, OwnAnswer
<1> QED BY <1>1, <1>2, <1>3, OneSlaveNoneFails, PTL DEF Spec

\* With several slaves it is so as long as none of them executes anything but the
\* request of the call that runs.
THEOREM ManySlavesOwnAnswer ==
  ASSUME RegisterLine, LossFree
  PROVE  Spec /\ []ExecutesRequests => []OwnAnswer
<1>1. BusInit => OnlyLate
  BY DEF BusInit, OnlyLate
<1>2. OnlyLate /\ [Next]_vars => OnlyLate'
  BY OnlyLateStays
<1>3. EachOwn /\ OnlyLate => OwnAnswer
  BY NoFaultOrLate DEF EachOwn, OwnAnswer
<1> QED BY <1>1, <1>2, <1>3, ManySlavesNeverTwice, PTL DEF Spec
=============================================================================
