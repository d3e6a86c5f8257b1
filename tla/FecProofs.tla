------------------------------ MODULE FecProofs ------------------------------
(***************************************************************************)
(* What TLAPS proves of the erasure code, for stripes of any length the    *)
(* code allows.  First the decoder: the bytes form a field, any square     *)
(* part of the coefficients is a regular matrix, and elimination solves    *)
(* its systems, so that fec_decode returns what was erased (FecDecodes).   *)
(* Then its use: as long as the network makes no copies of parity blocks,  *)
(* a receiver never waits for a slice it has enough parity of              *)
(* (FecRecovers).                                                          *)
(***************************************************************************)
EXTENDS SendDataProofs, Transfer

-----------------------------------------------------------------------------
(* The sum of two bytes, digit by digit. *)

Weights == {1, 2, 4, 8, 16, 32, 64, 128}

LEMMA ByteOfDigits ==
  ASSUME NEW d1 \in 0..1, NEW d2 \in 0..1, NEW d4 \in 0..1, NEW d8 \in 0..1,
         NEW d16 \in 0..1, NEW d32 \in 0..1, NEW d64 \in 0..1, NEW d128 \in 0..1,
         NEW a, a = d1 * 1 + d2 * 2 + d4 * 4 + d8 * 8 + d16 * 16 + d32 * 32 + d64 * 64 + d128 * 128
  PROVE  /\ a \in Byte
         /\ Bit(a, 1) = d1 /\ Bit(a, 2) = d2 /\ Bit(a, 4) = d4 /\ Bit(a, 8) = d8
         /\ Bit(a, 16) = d16 /\ Bit(a, 32) = d32 /\ Bit(a, 64) = d64 /\ Bit(a, 128) = d128
BY DEF Bit, Byte

LEMMA DigitsOfByte ==
  ASSUME NEW a \in Byte
  PROVE  /\ \A w \in Weights : Bit(a, w) \in 0..1
         /\ a = Bit(a, 1) * 1 + Bit(a, 2) * 2 + Bit(a, 4) * 4 + Bit(a, 8) * 8
                 + Bit(a, 16) * 16 + Bit(a, 32) * 32 + Bit(a, 64) * 64 + Bit(a, 128) * 128
BY DEF Bit, Byte, Weights

LEMMA XorBits ==
  ASSUME NEW a \in Byte, NEW b \in Byte
  PROVE  /\ Xor(a, b) \in Byte
         /\ \A w \in Weights : Bit(Xor(a, b), w) = (Bit(a, w) + Bit(b, w)) % 2
<1>1. \A w \in Weights : (Bit(a, w) + Bit(b, w)) % 2 \in 0..1
  <2>1. \A w \in Weights : Bit(a, w) \in 0..1 /\ Bit(b, w) \in 0..1
    BY DigitsOfByte
  <2> QED
    BY <2>1
<1> DEFINE d(w) == (Bit(a, w) + Bit(b, w)) % 2
<1>2. Xor(a, b) = d(1) * 1 + d(2) * 2 + d(4) * 4 + d(8) * 8
                    + d(16) * 16 + d(32) * 32 + d(64) * 64 + d(128) * 128
  BY DEF Xor
<1>3. /\ d(1) \in 0..1 /\ d(2) \in 0..1 /\ d(4) \in 0..1 /\ d(8) \in 0..1
      /\ d(16) \in 0..1 /\ d(32) \in 0..1 /\ d(64) \in 0..1 /\ d(128) \in 0..1
  BY <1>1 DEF Weights
<1> HIDE DEF d
<1>4. /\ Xor(a, b) \in Byte
      /\ Bit(Xor(a, b), 1) = d(1) /\ Bit(Xor(a, b), 2) = d(2) /\ Bit(Xor(a, b), 4) = d(4)
      /\ Bit(Xor(a, b), 8) = d(8) /\ Bit(Xor(a, b), 16) = d(16) /\ Bit(Xor(a, b), 32) = d(32)
      /\ Bit(Xor(a, b), 64) = d(64) /\ Bit(Xor(a, b), 128) = d(128)
  BY <1>2, <1>3, ByteOfDigits
<1> QED
  BY <1>4 DEF Weights, d

LEMMA SameBits ==
  ASSUME NEW a \in Byte, NEW b \in Byte, \A w \in Weights : Bit(a, w) = Bit(b, w)
  PROVE  a = b
BY DigitsOfByte DEF Weights

LEMMA XorLaws ==
  /\ \A a, b \in Byte : Xor(a, b) \in Byte /\ Xor(a, b) = Xor(b, a)
  /\ \A a, b, c \in Byte : Xor(Xor(a, b), c) = Xor(a, Xor(b, c))
  /\ \A a \in Byte : Xor(a, 0) = a /\ Xor(a, a) = 0
  /\ 0 \in Byte
<1>1. ASSUME NEW a \in Byte, NEW b \in Byte
      PROVE  Xor(a, b) \in Byte /\ Xor(a, b) = Xor(b, a)
  <2>1. \A w \in Weights : Bit(Xor(a, b), w) = Bit(Xor(b, a), w)
    <3>1. \A w \in Weights : Bit(a, w) \in 0..1 /\ Bit(b, w) \in 0..1
      BY DigitsOfByte
    <3> QED
      BY <3>1, XorBits
  <2> QED
    BY <2>1, XorBits, SameBits
<1>2. ASSUME NEW a \in Byte, NEW b \in Byte, NEW c \in Byte
      PROVE  Xor(Xor(a, b), c) = Xor(a, Xor(b, c))
  <2>1. ASSUME NEW w \in Weights
        PROVE  Bit(Xor(Xor(a, b), c), w) = Bit(Xor(a, Xor(b, c)), w)
    <3>1. Bit(a, w) \in 0..1 /\ Bit(b, w) \in 0..1 /\ Bit(c, w) \in 0..1
      BY DigitsOfByte
    <3>2. Bit(Xor(Xor(a, b), c), w) = (((Bit(a, w) + Bit(b, w)) % 2) + Bit(c, w)) % 2
      BY XorBits
    <3>3. Bit(Xor(a, Xor(b, c)), w) = (Bit(a, w) + ((Bit(b, w) + Bit(c, w)) % 2)) % 2
      BY XorBits
    <3> QED
      BY <3>1, <3>2, <3>3
  <2> QED
    BY <2>1, XorBits, SameBits
<1>3. 0 \in Byte /\ \A w \in Weights : Bit(0, w) = 0
  BY DEF Byte, Bit, Weights
<1>4. ASSUME NEW a \in Byte
      PROVE  Xor(a, 0) = a /\ Xor(a, a) = 0
  <2>1. ASSUME NEW w \in Weights
        PROVE  Bit(Xor(a, 0), w) = Bit(a, w) /\ Bit(Xor(a, a), w) = Bit(0, w)
    <3>1. Bit(a, w) \in 0..1
      BY DigitsOfByte
    <3> QED
      BY <1>3, <3>1, XorBits
  <2> QED
    BY <1>3, <2>1, XorBits, SameBits
<1> QED
  BY <1>1, <1>2, <1>3, <1>4

-----------------------------------------------------------------------------
(* The product of two bytes. *)

\* Twice a byte, digit by digit.
Twice(x) == 2 * (x % 128)
Carry(x) == IF x >= 128 THEN 29 ELSE 0

LEMMA TwiceBits ==
  ASSUME NEW x \in Byte
  PROVE  /\ Twice(x) \in Byte /\ Carry(x) \in Byte /\ Double(x) = Xor(Twice(x), Carry(x))
         /\ Bit(Twice(x), 1) = 0
         /\ \A w \in {1, 2, 4, 8, 16, 32, 64} : Bit(Twice(x), 2 * w) = Bit(x, w)
         /\ x >= 128 <=> Bit(x, 128) = 1
<1>1. Twice(x) \in Byte /\ Carry(x) \in Byte
  BY DEF Twice, Carry, Byte
<1>2. Double(x) = Xor(Twice(x), Carry(x))
  <2>1. CASE x >= 128
    <3>1. Twice(x) = 2 * (x - 128)
      BY <2>1 DEF Twice, Byte
    <3> QED
      BY <2>1, <3>1 DEF Double, Carry
  <2>2. CASE ~(x >= 128)
    <3>1. Twice(x) = 2 * x
      BY <2>2 DEF Twice, Byte
    <3> QED
      BY <1>1, <2>2, <3>1, XorLaws DEF Double, Carry
  <2> QED
    BY <2>1, <2>2
<1>3. Bit(Twice(x), 1) = 0
  BY DEF Twice, Bit, Byte
<1>4. \A w \in {1, 2, 4, 8, 16, 32, 64} : Bit(Twice(x), 2 * w) = Bit(x, w)
  BY DEF Twice, Bit, Byte
<1>5. x >= 128 <=> Bit(x, 128) = 1
  BY DEF Bit, Byte
<1> QED
  BY <1>1, <1>2, <1>3, <1>4, <1>5

LEMMA XorSwap ==
  ASSUME NEW a \in Byte, NEW b \in Byte, NEW c \in Byte, NEW d \in Byte
  PROVE  Xor(Xor(a, b), Xor(c, d)) = Xor(Xor(a, c), Xor(b, d))
<1>1. Xor(Xor(a, b), Xor(c, d)) = Xor(a, Xor(b, Xor(c, d)))
  BY XorLaws
<1>2. Xor(b, Xor(c, d)) = Xor(c, Xor(b, d))
  <2>1. Xor(b, Xor(c, d)) = Xor(Xor(b, c), d)
    BY XorLaws
  <2>2. Xor(c, Xor(b, d)) = Xor(Xor(c, b), d)
    BY XorLaws
  <2> QED
    BY <2>1, <2>2, XorLaws
<1>3. Xor(Xor(a, c), Xor(b, d)) = Xor(a, Xor(c, Xor(b, d)))
  BY XorLaws
<1> QED
  BY <1>1, <1>2, <1>3

LEMMA DoubleAdds ==
  ASSUME NEW x \in Byte, NEW y \in Byte
  PROVE  Double(x) \in Byte /\ Double(Xor(x, y)) = Xor(Double(x), Double(y))
<1> DEFINE z == Xor(x, y)
<1>1. z \in Byte /\ \A w \in Weights : Bit(z, w) = (Bit(x, w) + Bit(y, w)) % 2
  BY XorBits
<1>2. Twice(x) \in Byte /\ Twice(y) \in Byte /\ Carry(x) \in Byte /\ Carry(y) \in Byte
  BY TwiceBits
<1> HIDE DEF z
<1>3. Twice(z) \in Byte /\ Carry(z) \in Byte
  BY <1>1, TwiceBits
<1>4. Twice(z) = Xor(Twice(x), Twice(y))
  <2>1. ASSUME NEW w \in {1, 2, 4, 8, 16, 32, 64}
        PROVE  Bit(Twice(z), 2 * w) = Bit(Xor(Twice(x), Twice(y)), 2 * w)
    <3>1. w \in Weights /\ 2 * w \in Weights
      BY DEF Weights
    <3>2. Bit(Twice(z), 2 * w) = (Bit(x, w) + Bit(y, w)) % 2
      BY <1>1, <3>1, TwiceBits
    <3>3. Bit(Xor(Twice(x), Twice(y)), 2 * w) = (Bit(x, w) + Bit(y, w)) % 2
      BY <1>2, <3>1, TwiceBits, XorBits
    <3> QED
      BY <3>2, <3>3
  <2>2. Bit(Twice(z), 1) = Bit(Xor(Twice(x), Twice(y)), 1)
    <3>1. Bit(Twice(z), 1) = 0 /\ Bit(Twice(x), 1) = 0 /\ Bit(Twice(y), 1) = 0
      BY <1>1, TwiceBits
    <3> QED
      BY <1>2, <3>1, XorBits DEF Weights
  <2>3. \A w \in Weights : w = 1 \/ \E v \in {1, 2, 4, 8, 16, 32, 64} : w = 2 * v
    BY DEF Weights
  <2>4. \A w \in Weights : Bit(Twice(z), w) = Bit(Xor(Twice(x), Twice(y)), w)
    BY <2>1, <2>2, <2>3
  <2> QED
    BY <1>2, <1>3, <2>4, SameBits, XorLaws
<1>5. Carry(z) = Xor(Carry(x), Carry(y))
  <2>1. /\ x >= 128 <=> Bit(x, 128) = 1
        /\ y >= 128 <=> Bit(y, 128) = 1
        /\ z >= 128 <=> Bit(z, 128) = 1
    BY <1>1, TwiceBits
  <2>2. Bit(z, 128) = (Bit(x, 128) + Bit(y, 128)) % 2 /\ Bit(x, 128) \in 0..1 /\ Bit(y, 128) \in 0..1
    BY <1>1, DigitsOfByte DEF Weights
  <2>3. 29 \in Byte /\ Xor(29, 29) = 0 /\ Xor(29, 0) = 29 /\ Xor(0, 29) = 29 /\ Xor(0, 0) = 0
    <3>1. 29 \in Byte
      BY DEF Byte
    <3> QED
      BY <3>1, XorLaws
  <2> QED
    BY <2>1, <2>2, <2>3 DEF Carry
<1>6. /\ Double(z) = Xor(Twice(z), Carry(z))
      /\ Double(x) = Xor(Twice(x), Carry(x))
      /\ Double(y) = Xor(Twice(y), Carry(y))
  BY <1>1, TwiceBits
<1>7. Double(z) = Xor(Double(x), Double(y))
  BY <1>2, <1>4, <1>5, <1>6, XorSwap
<1> QED
  BY <1>2, <1>6, <1>7, XorLaws DEF z

\* Logarithms are added modulo 255.
LogSum(a, b) == (a + b) % 255

LEMMA LogSums ==
  /\ \A a, b \in 0..254 : LogSum(a, b) \in 0..254 /\ LogSum(a, b) = LogSum(b, a)
  /\ \A a, b, c \in 0..254 : LogSum(LogSum(a, b), c) = LogSum(a, LogSum(b, c))
  /\ \A a \in 0..254 : LogSum(0, a) = a
  /\ \A a \in 1..254 : LogSum(255 - a, a) = 0
<1>1. \A a, b \in 0..254 : LogSum(a, b) \in 0..254 /\ LogSum(a, b) = LogSum(b, a)
  BY DEF LogSum
<1>2. \A a, b, c \in 0..254 : LogSum(LogSum(a, b), c) = LogSum(a, LogSum(b, c))
  BY DEF LogSum
<1>3. \A a \in 0..254 : LogSum(0, a) = a
  BY DEF LogSum
<1>4. \A a \in 1..254 : LogSum(255 - a, a) = 0
  BY DEF LogSum
<1> QED
  BY <1>1, <1>2, <1>3, <1>4

\* The tables, with the numbers filled in.
LEMMA GfPowers ==
  /\ \A x \in Byte \ {0} : GfLog[x] \in 0..254 /\ GfExp[GfLog[x] + 1] = x
  /\ \A k \in 0..254 : GfExp[k + 1] \in Byte \ {0} /\ GfLog[GfExp[k + 1]] = k
  /\ GfExp[1] = 1
<1>1. \A x \in Byte \ {0} : x \in 1..GfSize
  BY DEF GfSize, Byte
<1>2. \A x \in 1..GfSize : x \in Byte \ {0}
  BY DEF GfSize, Byte
<1>3. \A k \in 0..254 : k + 1 \in 1..GfSize /\ (k + 1) - 1 = k
  BY DEF GfSize
<1>4. GfSize - 1 = 254
  BY DEF GfSize
<1>5. \A k \in 0..254 : GfExp[k + 1] \in Byte \ {0} /\ GfLog[GfExp[k + 1]] = k
  BY <1>2, <1>3, GfTables
<1>6. \A x \in Byte \ {0} : GfLog[x] \in 0..254 /\ GfExp[GfLog[x] + 1] = x
  BY <1>1, <1>4, GfTables
<1> QED
  BY <1>5, <1>6, GfTables

\* GfMul multiplies: 0 and 1 are what they should be, it is commutative and associative,
\* and every byte but 0 has its inverse.
LEMMA GfProduct ==
  /\ \A x, y \in Byte : GfMul(x, y) \in Byte /\ GfMul(x, y) = GfMul(y, x)
  /\ \A x, y, z \in Byte : GfMul(GfMul(x, y), z) = GfMul(x, GfMul(y, z))
  /\ \A x \in Byte : GfMul(0, x) = 0 /\ GfMul(1, x) = x
  /\ \A x, y \in Byte : GfMul(x, y) = 0 => x = 0 \/ y = 0
  /\ \A x \in Byte \ {0} : GfInverse(x) \in Byte \ {0} /\ GfMul(GfInverse(x), x) = 1
  /\ 1 \in Byte
<1>1. /\ \A x \in Byte \ {0} : GfLog[x] \in 0..254 /\ GfExp[GfLog[x] + 1] = x
      /\ \A k \in 0..254 : GfExp[k + 1] \in Byte \ {0} /\ GfLog[GfExp[k + 1]] = k
      /\ GfExp[1] = 1
  BY GfPowers
<1>2. \A x, y \in Byte \ {0} :
        /\ GfMul(x, y) = GfExp[LogSum(GfLog[x], GfLog[y]) + 1]
        /\ GfMul(x, y) \in Byte \ {0}
        /\ GfLog[GfMul(x, y)] = LogSum(GfLog[x], GfLog[y])
  <2> SUFFICES ASSUME NEW x \in Byte \ {0}, NEW y \in Byte \ {0}
               PROVE  /\ GfMul(x, y) = GfExp[LogSum(GfLog[x], GfLog[y]) + 1]
                      /\ GfMul(x, y) \in Byte \ {0}
                      /\ GfLog[GfMul(x, y)] = LogSum(GfLog[x], GfLog[y])
    OBVIOUS
  <2>1. GfMul(x, y) = GfExp[LogSum(GfLog[x], GfLog[y]) + 1]
    BY DEF GfMul, GfSize, LogSum
  <2>2. LogSum(GfLog[x], GfLog[y]) \in 0..254
    <3>1. GfLog[x] \in 0..254 /\ GfLog[y] \in 0..254
      BY <1>1
    <3> QED
      BY <3>1, LogSums
  <2> DEFINE k == LogSum(GfLog[x], GfLog[y])
  <2> HIDE DEF k
  <2>3. GfExp[k + 1] \in Byte \ {0} /\ GfLog[GfExp[k + 1]] = k
    BY <1>1, <2>2 DEF k
  <2> QED
    BY <2>1, <2>3 DEF k
<1>3. \A x \in Byte : GfMul(0, x) = 0 /\ GfMul(x, 0) = 0
  BY DEF GfMul
<1>4. 0 \in Byte /\ 1 \in Byte /\ 1 # 0 /\ GfLog[1] = 0
  <2>1. 0 \in Byte /\ 1 \in Byte /\ 1 # 0
    BY DEF Byte
  <2>2. GfLog[GfExp[0 + 1]] = 0
    BY <1>1
  <2> QED
    BY <1>1, <2>1, <2>2
<1>5. ASSUME NEW x \in Byte, NEW y \in Byte
      PROVE  GfMul(x, y) \in Byte /\ GfMul(x, y) = GfMul(y, x) /\ (GfMul(x, y) = 0 => x = 0 \/ y = 0)
  <2>1. CASE x = 0 \/ y = 0
    BY <1>3, <1>4, <2>1
  <2>2. CASE x # 0 /\ y # 0
    <3>1. GfLog[x] \in 0..254 /\ GfLog[y] \in 0..254
      BY <1>1, <2>2
    <3>2. LogSum(GfLog[x], GfLog[y]) = LogSum(GfLog[y], GfLog[x])
      BY <3>1, LogSums
    <3>3. GfMul(x, y) = GfMul(y, x)
      BY <1>2, <2>2, <3>2
    <3> QED
      BY <1>2, <2>2, <3>3
  <2> QED
    BY <2>1, <2>2
<1>6. ASSUME NEW x \in Byte
      PROVE  GfMul(1, x) = x
  <2>1. CASE x = 0
    BY <1>3, <1>4, <2>1
  <2>2. CASE x # 0
    <3>1. GfMul(1, x) = GfExp[LogSum(0, GfLog[x]) + 1] /\ GfLog[x] \in 0..254
      BY <1>1, <1>2, <1>4, <2>2
    <3>2. LogSum(0, GfLog[x]) = GfLog[x]
      BY <3>1, LogSums
    <3> QED
      BY <1>1, <2>2, <3>1, <3>2
  <2> QED
    BY <2>1, <2>2
<1>7. ASSUME NEW x \in Byte, NEW y \in Byte, NEW z \in Byte
      PROVE  GfMul(GfMul(x, y), z) = GfMul(x, GfMul(y, z))
  <2>1. CASE x = 0 \/ y = 0 \/ z = 0
    BY <1>3, <1>5, <2>1
  <2>2. CASE x # 0 /\ y # 0 /\ z # 0
    <3>1. GfLog[x] \in 0..254 /\ GfLog[y] \in 0..254 /\ GfLog[z] \in 0..254
      BY <1>1, <2>2
    <3> DEFINE p == GfMul(x, y)
               q == GfMul(y, z)
    <3>2. p \in Byte \ {0} /\ GfLog[p] = LogSum(GfLog[x], GfLog[y])
      BY <1>2, <2>2
    <3>3. q \in Byte \ {0} /\ GfLog[q] = LogSum(GfLog[y], GfLog[z])
      BY <1>2, <2>2
    <3> HIDE DEF p, q
    <3>4. GfMul(p, z) = GfExp[LogSum(GfLog[p], GfLog[z]) + 1]
      BY <1>2, <2>2, <3>2
    <3>5. GfMul(x, q) = GfExp[LogSum(GfLog[x], GfLog[q]) + 1]
      BY <1>2, <2>2, <3>3
    <3>6. LogSum(LogSum(GfLog[x], GfLog[y]), GfLog[z]) = LogSum(GfLog[x], LogSum(GfLog[y], GfLog[z]))
      <4>1. \A a, b, c \in 0..254 : LogSum(LogSum(a, b), c) = LogSum(a, LogSum(b, c))
        BY LogSums
      <4> QED
        BY <3>1, <4>1, Zenon
    <3>7. LogSum(GfLog[p], GfLog[z]) = LogSum(GfLog[x], GfLog[q])
      BY <3>2, <3>3, <3>6
    <3> QED
      BY <3>4, <3>5, <3>7 DEF p, q
  <2> QED
    BY <2>1, <2>2
<1>8. ASSUME NEW x \in Byte \ {0}
      PROVE  GfInverse(x) \in Byte \ {0} /\ GfMul(GfInverse(x), x) = 1
  <2>1. CASE x = 1
    BY <1>4, <1>6, <2>1 DEF GfInverse
  <2>2. CASE x # 1
    <3>1. GfInverse(x) = GfExp[(255 - GfLog[x]) + 1]
      BY <2>2 DEF GfInverse, GfSize
    <3>2. GfLog[x] \in 1..254
      <4>1. GfLog[x] # 0
        <5> SUFFICES ASSUME GfLog[x] = 0 PROVE FALSE
          OBVIOUS
        <5>1. GfExp[0 + 1] = x
          BY <1>1
        <5> QED
          BY <1>1, <2>2, <5>1
      <4> QED
        BY <1>1, <4>1
    <3>3. 255 - GfLog[x] \in 0..254
      BY <3>2
    <3>4. GfInverse(x) \in Byte \ {0} /\ GfLog[GfInverse(x)] = 255 - GfLog[x]
      <4> DEFINE k == 255 - GfLog[x]
      <4> HIDE DEF k
      <4>1. GfExp[k + 1] \in Byte \ {0} /\ GfLog[GfExp[k + 1]] = k
        BY <1>1, <3>3 DEF k
      <4> QED
        BY <3>1, <4>1 DEF k
    <3>5. GfMul(GfInverse(x), x) = GfExp[LogSum(255 - GfLog[x], GfLog[x]) + 1]
      BY <1>2, <3>4
    <3>6. LogSum(255 - GfLog[x], GfLog[x]) = 0
      BY <3>2, LogSums
    <3> QED
      BY <1>1, <3>4, <3>5, <3>6
  <2> QED
    BY <2>1, <2>2
<1> QED
  BY <1>3, <1>4, <1>5, <1>6, <1>7, <1>8

\* Multiplication by the next power of the generator.
LEMMA NextPower ==
  ASSUME NEW k \in 1..254, NEW y \in Byte
  PROVE  GfMul(GfExp[k + 1], y) = Double(GfMul(GfExp[k], y))
<1>1. /\ GfExp[k + 1] \in Byte \ {0} /\ GfLog[GfExp[k + 1]] = k
      /\ GfExp[k] \in Byte \ {0} /\ GfLog[GfExp[k]] = k - 1
  <2>1. k \in 1..GfSize /\ k + 1 \in 1..GfSize /\ (k + 1) - 1 = k
    BY DEF GfSize
  <2>2. \A b \in 1..GfSize : b \in Byte \ {0}
    BY DEF GfSize, Byte
  <2> QED
    BY <2>1, <2>2, GfTables
<1>2. CASE y = 0
  <2>1. GfMul(GfExp[k + 1], y) = 0 /\ GfMul(GfExp[k], y) = 0
    BY <1>2 DEF GfMul
  <2>2. Double(0) = 0
    BY DEF Double
  <2> QED
    BY <2>1, <2>2
<1>3. CASE y # 0
  <2> DEFINE l == GfLog[y]
             e == LogSum(k - 1, l)
  <2>1. y \in 1..GfSize /\ GfSize = 255
    BY <1>3 DEF Byte, GfSize
  <2>2. l \in 0..254
    BY <1>3, GfPowers
  <2>3. GfMul(GfExp[k + 1], y) = GfExp[LogSum(k, l) + 1]
    BY <1>1, <1>3, <2>1 DEF GfMul, LogSum
  <2>4. GfMul(GfExp[k], y) = GfExp[e + 1]
    BY <1>1, <1>3, <2>1 DEF GfMul, LogSum
  <2> HIDE DEF l
  <2>5. e \in 0..254 /\ LogSum(k, l) = (e + 1) % 255
    BY <2>2 DEF LogSum
  <2> HIDE DEF e
  <2>6. e + 1 \in 1..GfSize
    BY <2>1, <2>5
  <2>7. Double(GfExp[e + 1]) = GfExp[((e + 1) % GfSize) + 1]
    BY <2>6, GfTables
  <2> QED
    BY <2>1, <2>3, <2>4, <2>5, <2>7
<1> QED
  BY <1>2, <1>3

LEMMA GfDistributes ==
  \A x, y, z \in Byte : GfMul(x, Xor(y, z)) = Xor(GfMul(x, y), GfMul(x, z))
<1> DEFINE Good == {k \in 0..254 : \A y, z \in Byte :
                      GfMul(GfExp[k + 1], Xor(y, z)) = Xor(GfMul(GfExp[k + 1], y), GfMul(GfExp[k + 1], z))}
<1>1. \A k \in 0..254 : GfExp[k + 1] \in Byte
  BY GfPowers
<1>2. 0 \in Good
  <2> SUFFICES ASSUME NEW y \in Byte, NEW z \in Byte
               PROVE  GfMul(GfExp[0 + 1], Xor(y, z)) = Xor(GfMul(GfExp[0 + 1], y), GfMul(GfExp[0 + 1], z))
    OBVIOUS
  <2>1. GfExp[0 + 1] = 1
    BY GfTables
  <2> QED
    BY <2>1, GfProduct, XorLaws
<1>3. ASSUME NEW k \in 1..254, k - 1 \in Good
      PROVE  k \in Good
  <2> SUFFICES ASSUME NEW y \in Byte, NEW z \in Byte
               PROVE  GfMul(GfExp[k + 1], Xor(y, z)) = Xor(GfMul(GfExp[k + 1], y), GfMul(GfExp[k + 1], z))
    OBVIOUS
  <2> DEFINE g == GfExp[k]
  <2>1. (k - 1) + 1 = k /\ k - 1 \in 0..254
    OBVIOUS
  <2>2. g \in Byte
    BY <1>1, <2>1
  <2>3. GfMul(g, Xor(y, z)) = Xor(GfMul(g, y), GfMul(g, z))
    BY <1>3, <2>1
  <2>4. Xor(y, z) \in Byte /\ GfMul(g, y) \in Byte /\ GfMul(g, z) \in Byte
    BY <2>2, XorLaws, GfProduct
  <2>5. Double(Xor(GfMul(g, y), GfMul(g, z))) = Xor(Double(GfMul(g, y)), Double(GfMul(g, z)))
    BY <2>4, DoubleAdds
  <2> QED
    BY <2>3, <2>4, <2>5, NextPower
<1>4. 0..254 \subseteq Good
  <2> HIDE DEF Good
  <2> QED
    BY <1>2, <1>3, UpTo
<1> SUFFICES ASSUME NEW x \in Byte, NEW y \in Byte, NEW z \in Byte
             PROVE  GfMul(x, Xor(y, z)) = Xor(GfMul(x, y), GfMul(x, z))
  OBVIOUS
<1>5. CASE x = 0
  BY <1>5, GfProduct, XorLaws
<1>6. CASE x # 0
  <2>2. GfLog[x] \in 0..254 /\ GfExp[GfLog[x] + 1] = x
    BY <1>6, GfPowers
  <2> DEFINE k == GfLog[x]
  <2> HIDE DEF k
  <2>3. k \in Good /\ GfExp[k + 1] = x
    BY <1>4, <2>2 DEF k
  <2> QED
    BY <2>3
<1> QED
  BY <1>5, <1>6

-----------------------------------------------------------------------------
(* Sums of sequences. *)

Vectors(n)  == [1..n -> Byte]
Front(u, n) == [k \in 1..n |-> u[k]]

\* The sums of the first elements of u.
Sums(u, n, g) == g = [k \in 0..n |-> IF k = 0 THEN 0 ELSE Xor(g[k - 1], u[k])]

LEMMA SumsExist ==
  ASSUME NEW n \in Nat, NEW u \in Vectors(n)
  PROVE  \E g : Sums(u, n, g)
<1> DEFINE F == [k \in 1..n |-> [x \in Byte |-> Xor(x, u[k])]]
<1>1. \A k \in 1..n : u[k] \in Byte
  BY DEF Vectors
<1>2. F \in [1..n -> [Byte -> Byte]]
  BY <1>1, XorLaws
<1>3. PICK g \in [0..n -> Byte] : Runs(n, F, 0, g)
  <2> HIDE DEF F
  <2> QED
    BY <1>2, XorLaws, Iteration
<1>4. ASSUME NEW k \in 0..n
      PROVE  g[k] = IF k = 0 THEN 0 ELSE Xor(g[k - 1], u[k])
  <2>1. CASE k = 0
    BY <1>3, <2>1 DEF Runs
  <2>2. CASE k # 0
    <3>1. k \in 1..n /\ k - 1 \in 0..n
      BY <2>2
    <3>2. g[k] = F[k][g[k - 1]] /\ g[k - 1] \in Byte
      BY <1>3, <3>1 DEF Runs
    <3> QED
      BY <2>2, <3>1, <3>2
  <2> QED
    BY <2>1, <2>2
<1>5. g = [k \in 0..n |-> g[k]]
  BY <1>3
<1> QED
  BY <1>4, <1>5 DEF Sums

LEMMA TotalSums ==
  ASSUME NEW n \in Nat, NEW u \in Vectors(n)
  PROVE  \E g : Sums(u, n, g) /\ Total(u) = g[n] /\ g[0] = 0 /\ \A k \in 1..n : g[k] = Xor(g[k - 1], u[k])
<1>1. u \in Seq(Byte) /\ Len(u) = n
  BY DEF Vectors
<1> DEFINE g == CHOOSE h : Sums(u, n, h)
<1>2. Sums(u, n, g)
  BY SumsExist
<1>3. Total(u) = g[n]
  BY <1>1 DEF Total, Sums
<1> HIDE DEF g
<1>4. g[0] = 0 /\ \A k \in 1..n : g[k] = Xor(g[k - 1], u[k])
  BY <1>2 DEF Sums
<1> QED
  BY <1>2, <1>3, <1>4

LEMMA TotalStep ==
  ASSUME NEW n \in Nat
  PROVE  /\ \A u \in Vectors(n) : Total(u) \in Byte /\ (n = 0 => Total(u) = 0)
         /\ \A u \in Vectors(n + 1) : /\ Front(u, n) \in Vectors(n) /\ u[n + 1] \in Byte
                                      /\ Total(u) = Xor(Total(Front(u, n)), u[n + 1])
<1>1. ASSUME NEW u \in Vectors(n)
      PROVE  Total(u) \in Byte /\ (n = 0 => Total(u) = 0)
  <2>1. PICK g : Total(u) = g[n] /\ g[0] = 0 /\ \A k \in 1..n : g[k] = Xor(g[k - 1], u[k])
    BY TotalSums
  <2> DEFINE Good == {k \in 0..n : g[k] \in Byte}
  <2>2. 0 \in Good
    BY <2>1, XorLaws
  <2>3. \A k \in 1..n : k - 1 \in Good => k \in Good
    <3>1. \A k \in 1..n : u[k] \in Byte
      BY DEF Vectors
    <3> QED
      BY <2>1, <3>1, XorLaws
  <2>4. 0..n \subseteq Good
    <3> HIDE DEF Good
    <3> QED
      BY <2>2, <2>3, UpTo
  <2> QED
    BY <2>1, <2>4
<1>2. ASSUME NEW u \in Vectors(n + 1)
      PROVE  /\ Front(u, n) \in Vectors(n) /\ u[n + 1] \in Byte
             /\ Total(u) = Xor(Total(Front(u, n)), u[n + 1])
  <2> DEFINE v == Front(u, n)
  <2>1. v \in Vectors(n) /\ u[n + 1] \in Byte /\ \A k \in 1..n : v[k] = u[k]
    BY DEF Vectors, Front
  <2> HIDE DEF v
  <2>2. PICK g : Total(u) = g[n + 1] /\ g[0] = 0 /\ \A k \in 1..n + 1 : g[k] = Xor(g[k - 1], u[k])
    BY TotalSums
  <2>3. PICK h : Total(v) = h[n] /\ h[0] = 0 /\ \A k \in 1..n : h[k] = Xor(h[k - 1], v[k])
    BY <2>1, TotalSums
  <2> DEFINE Good == {k \in 0..n : g[k] = h[k]}
  <2>4. 0 \in Good
    BY <2>2, <2>3
  <2>5. ASSUME NEW k \in 1..n, k - 1 \in Good
        PROVE  k \in Good
    <3>1. k \in 1..n + 1 /\ k \in 0..n
      OBVIOUS
    <3> QED
      BY <2>1, <2>2, <2>3, <2>5, <3>1
  <2>6. 0..n \subseteq Good
    <3> HIDE DEF Good
    <3> QED
      BY <2>4, <2>5, UpTo
  <2>7. g[n] = h[n] /\ n + 1 \in 1..n + 1 /\ (n + 1) - 1 = n
    BY <2>6
  <2> QED
    BY <2>1, <2>2, <2>3, <2>7 DEF v
<1> QED
  BY <1>1, <1>2

Added(u, v, n)  == [k \in 1..n |-> Xor(u[k], v[k])]
Scaled(c, u, n) == [k \in 1..n |-> GfMul(c, u[k])]

LEMMA VectorsMade ==
  ASSUME NEW n \in Nat
  PROVE  /\ \A u \in Vectors(n) : \A k \in 1..n : u[k] \in Byte
         /\ \A u, v \in Vectors(n) :
              Added(u, v, n) \in Vectors(n) /\ \A k \in 1..n : Added(u, v, n)[k] = Xor(u[k], v[k])
         /\ \A c \in Byte, u \in Vectors(n) :
              Scaled(c, u, n) \in Vectors(n) /\ \A k \in 1..n : Scaled(c, u, n)[k] = GfMul(c, u[k])
<1>1. \A u \in Vectors(n) : \A k \in 1..n : u[k] \in Byte
  BY DEF Vectors
<1>2. ASSUME NEW u \in Vectors(n), NEW v \in Vectors(n)
      PROVE  Added(u, v, n) \in Vectors(n) /\ \A k \in 1..n : Added(u, v, n)[k] = Xor(u[k], v[k])
  BY <1>1, XorLaws DEF Added, Vectors
<1>3. ASSUME NEW c \in Byte, NEW u \in Vectors(n)
      PROVE  Scaled(c, u, n) \in Vectors(n) /\ \A k \in 1..n : Scaled(c, u, n)[k] = GfMul(c, u[k])
  BY <1>1, GfProduct DEF Scaled, Vectors
<1> QED
  BY <1>1, <1>2, <1>3

LEMMA TotalAdds ==
  ASSUME NEW N \in Nat
  PROVE  \A u, v \in Vectors(N) : Total(Added(u, v, N)) = Xor(Total(u), Total(v))
<1> DEFINE Good == {n \in 0..N : \A u, v \in Vectors(n) : Total(Added(u, v, n)) = Xor(Total(u), Total(v))}
<1>1. 0 \in Good
  <2> SUFFICES ASSUME NEW u \in Vectors(0), NEW v \in Vectors(0)
               PROVE  Total(Added(u, v, 0)) = Xor(Total(u), Total(v))
    OBVIOUS
  <2>1. Added(u, v, 0) \in Vectors(0)
    BY XorLaws, VectorsMade
  <2>2. Total(u) = 0 /\ Total(v) = 0 /\ Total(Added(u, v, 0)) = 0
    BY <2>1, TotalStep
  <2> QED
    BY <2>2, XorLaws
<1>2. ASSUME NEW k \in 1..N, k - 1 \in Good
      PROVE  k \in Good
  <2> DEFINE n == k - 1
  <2>1. n \in Nat /\ k = n + 1
    OBVIOUS
  <2>2. \A u, v \in Vectors(n) : Total(Added(u, v, n)) = Xor(Total(u), Total(v))
    BY <1>2
  <2> HIDE DEF n
  <2>3. ASSUME NEW u \in Vectors(n + 1), NEW v \in Vectors(n + 1)
        PROVE  Total(Added(u, v, n + 1)) = Xor(Total(u), Total(v))
    <3> DEFINE w == Added(u, v, n + 1)
    <3>1. w \in Vectors(n + 1) /\ \A j \in 1..n + 1 : w[j] = Xor(u[j], v[j])
      <4>1. n + 1 \in Nat
        BY <2>1
      <4> QED
        BY <4>1, XorLaws, VectorsMade
    <3>2. Front(w, n) = Added(Front(u, n), Front(v, n), n)
      BY <2>1, <3>1 DEF Front, Added
    <3> HIDE DEF w
    <3>3. /\ Front(u, n) \in Vectors(n) /\ Front(v, n) \in Vectors(n)
          /\ u[n + 1] \in Byte /\ v[n + 1] \in Byte
          /\ Total(u) = Xor(Total(Front(u, n)), u[n + 1])
          /\ Total(v) = Xor(Total(Front(v, n)), v[n + 1])
          /\ Total(w) = Xor(Total(Front(w, n)), w[n + 1])
          /\ Total(Front(u, n)) \in Byte /\ Total(Front(v, n)) \in Byte
      BY <2>1, <3>1, TotalStep
    <3>4. w[n + 1] = Xor(u[n + 1], v[n + 1])
      BY <2>1, <3>1
    <3>5. Total(Front(w, n)) = Xor(Total(Front(u, n)), Total(Front(v, n)))
      BY <2>2, <3>2, <3>3
    <3> QED
      BY <3>3, <3>4, <3>5, XorSwap DEF w
  <2> QED
    BY <2>1, <2>3
<1>3. 0..N \subseteq Good
  <2> HIDE DEF Good
  <2> QED
    BY <1>1, <1>2, UpTo
<1> QED
  BY <1>3

LEMMA TotalScales ==
  ASSUME NEW N \in Nat
  PROVE  \A c \in Byte : \A u \in Vectors(N) : Total(Scaled(c, u, N)) = GfMul(c, Total(u))
<1> DEFINE Good == {n \in 0..N : \A c \in Byte : \A u \in Vectors(n) :
                                   Total(Scaled(c, u, n)) = GfMul(c, Total(u))}
<1>1. 0 \in Good
  <2> SUFFICES ASSUME NEW c \in Byte, NEW u \in Vectors(0)
               PROVE  Total(Scaled(c, u, 0)) = GfMul(c, Total(u))
    OBVIOUS
  <2>1. Scaled(c, u, 0) \in Vectors(0)
    BY VectorsMade
  <2>2. Total(u) = 0 /\ Total(Scaled(c, u, 0)) = 0
    BY <2>1, TotalStep
  <2> QED
    BY <2>2, XorLaws, GfProduct
<1>2. ASSUME NEW k \in 1..N, k - 1 \in Good
      PROVE  k \in Good
  <2> DEFINE n == k - 1
  <2>1. n \in Nat /\ k = n + 1
    OBVIOUS
  <2>2. \A c \in Byte : \A u \in Vectors(n) : Total(Scaled(c, u, n)) = GfMul(c, Total(u))
    BY <1>2
  <2> HIDE DEF n
  <2>3. ASSUME NEW c \in Byte, NEW u \in Vectors(n + 1)
        PROVE  Total(Scaled(c, u, n + 1)) = GfMul(c, Total(u))
    <3> DEFINE w == Scaled(c, u, n + 1)
    <3>1. w \in Vectors(n + 1) /\ \A j \in 1..n + 1 : w[j] = GfMul(c, u[j])
      <4>1. n + 1 \in Nat
        BY <2>1
      <4> QED
        BY <4>1, VectorsMade
    <3>2. Front(w, n) = Scaled(c, Front(u, n), n)
      BY <2>1, <3>1 DEF Front, Scaled
    <3> HIDE DEF w
    <3>3. /\ Front(u, n) \in Vectors(n) /\ u[n + 1] \in Byte
          /\ Total(u) = Xor(Total(Front(u, n)), u[n + 1])
          /\ Total(w) = Xor(Total(Front(w, n)), w[n + 1])
          /\ Total(Front(u, n)) \in Byte
      BY <2>1, <3>1, TotalStep
    <3>4. w[n + 1] = GfMul(c, u[n + 1])
      BY <2>1, <3>1
    <3>5. Total(Front(w, n)) = GfMul(c, Total(Front(u, n)))
      BY <2>2, <3>2, <3>3
    <3> QED
      BY <3>3, <3>4, <3>5, GfDistributes DEF w
  <2> QED
    BY <2>1, <2>3
<1>3. 0..N \subseteq Good
  <2> HIDE DEF Good
  <2> QED
    BY <1>1, <1>2, UpTo
<1> QED
  BY <1>3

\* A sum of which at most one term is not 0.
LEMMA TotalSingle ==
  ASSUME NEW N \in Nat
  PROVE  \A u \in Vectors(N) :
           /\ (\A k \in 1..N : u[k] = 0) => Total(u) = 0
           /\ \A j \in 1..N : (\A k \in 1..N \ {j} : u[k] = 0) => Total(u) = u[j]
<1> DEFINE Zero(u, n) == \A k \in 1..n : u[k] = 0
           But(u, n, j) == \A k \in 1..n \ {j} : u[k] = 0
           Fine(n) == \A u \in Vectors(n) :
                        /\ Zero(u, n) => Total(u) = 0
                        /\ \A j \in 1..n : But(u, n, j) => Total(u) = u[j]
           Good == {n \in 0..N : Fine(n)}
<1>1. 0 \in Good
  BY TotalStep
<1>2. ASSUME NEW k \in 1..N, k - 1 \in Good
      PROVE  k \in Good
  <2> DEFINE n == k - 1
  <2>1. n \in Nat /\ k = n + 1
    OBVIOUS
  <2>2. Fine(n)
    BY <1>2
  <2> HIDE DEF n
  <2>3. ASSUME NEW u \in Vectors(n + 1)
        PROVE  /\ Zero(u, n + 1) => Total(u) = 0
               /\ \A j \in 1..n + 1 : But(u, n + 1, j) => Total(u) = u[j]
    <3> DEFINE v == Front(u, n)
    <3>1. /\ v \in Vectors(n) /\ u[n + 1] \in Byte /\ Total(u) = Xor(Total(v), u[n + 1])
          /\ Total(v) \in Byte
      BY <2>1, TotalStep
    <3>2. \A i \in 1..n : v[i] = u[i] /\ i \in 1..n + 1 /\ i # n + 1 /\ v[i] \in Byte
      BY <2>1, <3>1 DEF Front, Vectors
    <3>3. n + 1 \in 1..n + 1
      BY <2>1
    <3> HIDE DEF v
    <3>4. ASSUME Zero(u, n + 1)
          PROVE  Total(u) = 0
      <4>1. Zero(v, n)
        BY <3>2, <3>4
      <4>2. Total(v) = 0
        BY <2>2, <3>1, <4>1
      <4> QED
        BY <3>1, <3>3, <3>4, <4>2, XorLaws
    <3>5. ASSUME NEW j \in 1..n + 1, But(u, n + 1, j)
          PROVE  Total(u) = u[j]
      <4>1. CASE j = n + 1
        <5>1. Zero(v, n)
          BY <3>2, <3>5, <4>1
        <5>2. Total(v) = 0
          BY <2>2, <3>1, <5>1
        <5> QED
          BY <3>1, <4>1, <5>2, XorLaws
      <4>2. CASE j # n + 1
        <5>1. j \in 1..n
          BY <2>1, <4>2
        <5>2. But(v, n, j)
          BY <3>2, <3>5
        <5>3. Total(v) = v[j]
          BY <2>2, <3>1, <5>1, <5>2
        <5>4. u[n + 1] = 0
          BY <3>3, <3>5, <4>2
        <5> QED
          BY <3>1, <3>2, <5>1, <5>3, <5>4, XorLaws
      <4> QED
        BY <4>1, <4>2
    <3> QED
      BY <3>4, <3>5
  <2> QED
    BY <2>1, <2>3
<1>3. 0..N \subseteq Good
  <2> HIDE DEF Good
  <2> QED
    BY <1>1, <1>2, UpTo
<1> QED
  BY <1>3

-----------------------------------------------------------------------------
(* A Cauchy matrix is regular. *)

LEMMA MulSwap ==
  ASSUME NEW x \in Byte, NEW y \in Byte, NEW z \in Byte
  PROVE  GfMul(x, GfMul(y, z)) = GfMul(y, GfMul(x, z))
<1>1. GfMul(x, GfMul(y, z)) = GfMul(GfMul(x, y), z) /\ GfMul(y, GfMul(x, z)) = GfMul(GfMul(y, x), z)
  BY GfProduct
<1>2. GfMul(x, y) = GfMul(y, x)
  BY GfProduct
<1> QED
  BY <1>1, <1>2

LEMMA AddedProducts ==
  ASSUME NEW x \in Byte, NEW y \in Byte, NEW z \in Byte
  PROVE  GfMul(Xor(x, y), z) = Xor(GfMul(x, z), GfMul(y, z))
<1>1. Xor(x, y) \in Byte
  BY XorLaws
<1>2. GfMul(Xor(x, y), z) = GfMul(z, Xor(x, y)) /\ GfMul(x, z) = GfMul(z, x) /\ GfMul(y, z) = GfMul(z, y)
  BY <1>1, GfProduct
<1> QED
  BY <1>2, GfDistributes

LEMMA XorZero ==
  ASSUME NEW x \in Byte, NEW y \in Byte
  PROVE  Xor(x, y) = 0 <=> x = y
<1>1. ASSUME Xor(x, y) = 0
      PROVE  x = y
  <2>1. Xor(Xor(x, y), y) = Xor(x, Xor(y, y))
    BY XorLaws
  <2>2. Xor(Xor(x, y), y) = y
    BY <1>1, XorLaws
  <2> QED
    BY <2>1, <2>2, XorLaws
<1> QED
  BY <1>1, XorLaws

\* (a + d)(c + b) + (c + d)(a + b) = (a + c)(b + d)
LEMMA CrossProducts ==
  ASSUME NEW a \in Byte, NEW b \in Byte, NEW c \in Byte, NEW d \in Byte
  PROVE  Xor(GfMul(Xor(a, d), Xor(c, b)), GfMul(Xor(c, d), Xor(a, b))) = GfMul(Xor(a, c), Xor(b, d))
<1>1. \A x, y \in Byte : Xor(x, y) \in Byte /\ GfMul(x, y) \in Byte /\ GfMul(x, y) = GfMul(y, x)
  BY XorLaws, GfProduct
<1>2. ASSUME NEW p \in Byte, NEW q \in Byte, NEW r \in Byte, NEW s \in Byte
      PROVE  GfMul(Xor(p, q), Xor(r, s)) = Xor(Xor(GfMul(p, r), GfMul(p, s)), Xor(GfMul(q, r), GfMul(q, s)))
  <2>1. GfMul(Xor(p, q), Xor(r, s)) = Xor(GfMul(p, Xor(r, s)), GfMul(q, Xor(r, s)))
    BY <1>1, AddedProducts
  <2> QED
    BY <2>1, GfDistributes
<1> DEFINE u == GfMul(a, c)
           v == GfMul(a, b)
           w == GfMul(c, d)
           z == GfMul(b, d)
           s == GfMul(b, c)
           t == GfMul(a, d)
<1>3. u \in Byte /\ v \in Byte /\ w \in Byte /\ z \in Byte /\ s \in Byte /\ t \in Byte
  BY <1>1
<1>4. GfMul(Xor(a, d), Xor(c, b)) = Xor(Xor(u, v), Xor(w, z))
  <2>1. GfMul(Xor(a, d), Xor(c, b)) = Xor(Xor(GfMul(a, c), GfMul(a, b)), Xor(GfMul(d, c), GfMul(d, b)))
    BY <1>2
  <2> QED
    BY <1>1, <2>1
<1>5. GfMul(Xor(c, d), Xor(a, b)) = Xor(Xor(u, s), Xor(t, z))
  <2>1. GfMul(Xor(c, d), Xor(a, b)) = Xor(Xor(GfMul(c, a), GfMul(c, b)), Xor(GfMul(d, a), GfMul(d, b)))
    BY <1>2
  <2> QED
    BY <1>1, <2>1
<1>6. GfMul(Xor(a, c), Xor(b, d)) = Xor(Xor(v, t), Xor(s, w))
  <2>1. GfMul(Xor(a, c), Xor(b, d)) = Xor(Xor(GfMul(a, b), GfMul(a, d)), Xor(GfMul(c, b), GfMul(c, d)))
    BY <1>2
  <2> QED
    BY <1>1, <2>1
<1> HIDE DEF u, v, w, z, s, t
<1>7. Xor(Xor(Xor(u, v), Xor(w, z)), Xor(Xor(u, s), Xor(t, z))) = Xor(Xor(v, t), Xor(s, w))
  <2> DEFINE l == Xor(Xor(Xor(u, v), Xor(w, z)), Xor(Xor(u, s), Xor(t, z)))
             r == Xor(Xor(v, t), Xor(s, w))
  <2>1. /\ Xor(u, v) \in Byte /\ Xor(w, z) \in Byte /\ Xor(u, s) \in Byte /\ Xor(t, z) \in Byte
        /\ Xor(v, t) \in Byte /\ Xor(s, w) \in Byte
    BY <1>3, XorLaws
  <2>2. Xor(Xor(u, v), Xor(w, z)) \in Byte /\ Xor(Xor(u, s), Xor(t, z)) \in Byte
    BY <2>1, XorLaws
  <2>3. ASSUME NEW k \in Weights
        PROVE  Bit(l, k) = Bit(r, k)
    <3>1. /\ Bit(u, k) \in 0..1 /\ Bit(v, k) \in 0..1 /\ Bit(w, k) \in 0..1
          /\ Bit(z, k) \in 0..1 /\ Bit(s, k) \in 0..1 /\ Bit(t, k) \in 0..1
      BY <1>3, DigitsOfByte
    <3>2. /\ Bit(Xor(u, v), k) = (Bit(u, k) + Bit(v, k)) % 2
          /\ Bit(Xor(w, z), k) = (Bit(w, k) + Bit(z, k)) % 2
          /\ Bit(Xor(u, s), k) = (Bit(u, k) + Bit(s, k)) % 2
          /\ Bit(Xor(t, z), k) = (Bit(t, k) + Bit(z, k)) % 2
          /\ Bit(Xor(v, t), k) = (Bit(v, k) + Bit(t, k)) % 2
          /\ Bit(Xor(s, w), k) = (Bit(s, k) + Bit(w, k)) % 2
      BY <1>3, XorBits
    <3>3. Bit(Xor(Xor(u, v), Xor(w, z)), k) = (Bit(Xor(u, v), k) + Bit(Xor(w, z), k)) % 2
      BY <2>1, XorBits
    <3>4. Bit(Xor(Xor(u, s), Xor(t, z)), k) = (Bit(Xor(u, s), k) + Bit(Xor(t, z), k)) % 2
      BY <2>1, XorBits
    <3>5. Bit(l, k) = (Bit(Xor(Xor(u, v), Xor(w, z)), k) + Bit(Xor(Xor(u, s), Xor(t, z)), k)) % 2
      BY <2>2, XorBits
    <3>6. Bit(r, k) = (Bit(Xor(v, t), k) + Bit(Xor(s, w), k)) % 2
      BY <2>1, XorBits
    <3> HIDE DEF l, r
    <3> QED
      BY <3>1, <3>2, <3>3, <3>4, <3>5, <3>6
  <2>4. l \in Byte /\ r \in Byte
    BY <2>1, <2>2, XorLaws
  <2> HIDE DEF l, r
  <2>5. l = r
    BY <2>3, <2>4, SameBits
  <2> QED
    BY <2>5 DEF l, r
<1> QED
  BY <1>4, <1>5, <1>6, <1>7

\* The terms of two rows of a Cauchy matrix in one column, weighed so that what is left is
\* a term of a smaller one.
LEMMA CauchyTerms ==
  ASSUME NEW a \in Byte, NEW b \in Byte, NEW c \in Byte, NEW d \in Byte, NEW x \in Byte,
         Xor(a, b) # 0, Xor(c, b) # 0
  PROVE  LET P == GfInverse(Xor(a, b))
             Q == GfInverse(Xor(c, b))
         IN  Xor(GfMul(Xor(a, d), GfMul(P, x)), GfMul(Xor(c, d), GfMul(Q, x)))
               = GfMul(Xor(a, c), GfMul(P, GfMul(Xor(b, d), GfMul(Q, x))))
<1> DEFINE p == Xor(a, b)
           q == Xor(c, b)
           P == GfInverse(p)
           Q == GfInverse(q)
           e == Xor(a, d)
           f == Xor(c, d)
           g == Xor(b, d)
           h == Xor(a, c)
           t == GfMul(P, GfMul(Q, x))
<1>1. p \in Byte /\ q \in Byte /\ e \in Byte /\ f \in Byte /\ g \in Byte /\ h \in Byte
  BY XorLaws
<1>2. P \in Byte /\ Q \in Byte /\ GfMul(P, p) = 1 /\ GfMul(Q, q) = 1
  BY <1>1, GfProduct
<1>3. Xor(GfMul(e, q), GfMul(f, p)) = GfMul(h, g)
  BY CrossProducts
<1> HIDE DEF p, q, P, Q, e, f, g, h
<1>4. \A y, z \in Byte : GfMul(y, z) \in Byte /\ GfMul(y, z) = GfMul(z, y)
  BY GfProduct
<1>5. GfMul(Q, x) \in Byte /\ GfMul(P, x) \in Byte /\ t \in Byte
  BY <1>2, <1>4
<1>6. GfMul(q, t) = GfMul(P, x)
  <2>1. GfMul(q, t) = GfMul(P, GfMul(q, GfMul(Q, x)))
    BY <1>1, <1>2, <1>5, MulSwap
  <2>2. GfMul(q, GfMul(Q, x)) = GfMul(GfMul(q, Q), x)
    BY <1>1, <1>2, GfProduct
  <2>3. GfMul(q, Q) = 1
    BY <1>1, <1>2, <1>4
  <2> QED
    BY <2>1, <2>2, <2>3, GfProduct
<1>7. GfMul(p, t) = GfMul(Q, x)
  <2>1. GfMul(p, t) = GfMul(GfMul(p, P), GfMul(Q, x))
    BY <1>1, <1>2, <1>5, GfProduct
  <2>2. GfMul(p, P) = 1
    BY <1>1, <1>2, <1>4
  <2> QED
    BY <1>5, <2>1, <2>2, GfProduct
<1>8. Xor(GfMul(e, GfMul(q, t)), GfMul(f, GfMul(p, t))) = GfMul(GfMul(h, g), t)
  <2>1. GfMul(e, GfMul(q, t)) = GfMul(GfMul(e, q), t)
    BY <1>1, <1>5, GfProduct
  <2>2. GfMul(f, GfMul(p, t)) = GfMul(GfMul(f, p), t)
    BY <1>1, <1>5, GfProduct
  <2>3. GfMul(e, q) \in Byte /\ GfMul(f, p) \in Byte
    BY <1>1, <1>4
  <2>4. GfMul(Xor(GfMul(e, q), GfMul(f, p)), t) = Xor(GfMul(GfMul(e, q), t), GfMul(GfMul(f, p), t))
    BY <1>5, <2>3, AddedProducts
  <2> QED
    BY <1>3, <2>1, <2>2, <2>4
<1>9. GfMul(GfMul(h, g), t) = GfMul(h, GfMul(P, GfMul(g, GfMul(Q, x))))
  <2>1. GfMul(GfMul(h, g), t) = GfMul(h, GfMul(g, t))
    BY <1>1, <1>5, GfProduct
  <2>2. GfMul(g, t) = GfMul(P, GfMul(g, GfMul(Q, x)))
    BY <1>1, <1>2, <1>5, MulSwap
  <2> QED
    BY <2>1, <2>2
<1>10. Xor(GfMul(e, GfMul(P, x)), GfMul(f, GfMul(Q, x))) = GfMul(h, GfMul(P, GfMul(g, GfMul(Q, x))))
  BY <1>6, <1>7, <1>8, <1>9
<1> QED
  BY <1>10 DEF p, q, P, Q, e, f, g, h

\* The terms of row i of the system whose matrix the rows a and the columns b make.
CauchyRow(a, b, x, i, n) == [j \in 1..n |-> GfMul(GfInverse(Xor(a[i], b[j])), x[j])]

Cauchy(a, b, n) ==
  /\ a \in Vectors(n) /\ b \in Vectors(n)
  /\ \A i, j \in 1..n : Xor(a[i], b[j]) # 0 /\ (i # j => a[i] # a[j] /\ b[i] # b[j])

LEMMA CauchyRows ==
  ASSUME NEW n \in Nat, NEW a, NEW b, Cauchy(a, b, n), NEW x \in Vectors(n), NEW i \in 1..n
  PROVE  /\ CauchyRow(a, b, x, i, n) \in Vectors(n)
         /\ \A j \in 1..n : /\ a[i] \in Byte /\ b[j] \in Byte /\ x[j] \in Byte
                            /\ Xor(a[i], b[j]) \in Byte \ {0}
                            /\ GfInverse(Xor(a[i], b[j])) \in Byte \ {0}
                            /\ CauchyRow(a, b, x, i, n)[j] = GfMul(GfInverse(Xor(a[i], b[j])), x[j])
<1>1. a[i] \in Byte /\ \A j \in 1..n : b[j] \in Byte /\ x[j] \in Byte /\ Xor(a[i], b[j]) # 0
  BY DEF Cauchy, Vectors
<1>2. \A j \in 1..n : Xor(a[i], b[j]) \in Byte \ {0}
  BY <1>1, XorLaws
<1>3. \A j \in 1..n : GfInverse(Xor(a[i], b[j])) \in Byte \ {0}
  BY <1>2, GfProduct
<1>4. \A j \in 1..n : GfMul(GfInverse(Xor(a[i], b[j])), x[j]) \in Byte
  BY <1>1, <1>3, GfProduct
<1> QED
  BY <1>1, <1>2, <1>3, <1>4 DEF CauchyRow, Vectors

\* One step of the elimination: row i without what row n + 1 accounts for.
LEMMA CauchyStep ==
  ASSUME NEW n \in Nat, NEW a, NEW b, Cauchy(a, b, n + 1), NEW x \in Vectors(n + 1),
         \A i \in 1..n + 1 : Total(CauchyRow(a, b, x, i, n + 1)) = 0,
         NEW y \in Vectors(n),
         \A j \in 1..n : y[j] = GfMul(Xor(b[j], b[n + 1]), GfMul(GfInverse(Xor(a[n + 1], b[j])), x[j])),
         Cauchy(Front(a, n), Front(b, n), n), NEW i \in 1..n
  PROVE  Total(CauchyRow(Front(a, n), Front(b, n), y, i, n)) = 0
<1> DEFINE m == n + 1
           u == CauchyRow(a, b, x, i, m)
           w == CauchyRow(a, b, x, m, m)
           v == CauchyRow(Front(a, n), Front(b, n), y, i, n)
           e == Xor(a[i], b[m])
           f == Xor(a[m], b[m])
           h == Xor(a[i], a[m])
           z == Added(Scaled(e, u, m), Scaled(f, w, m), m)
<1>1. m \in Nat /\ i \in 1..m /\ m \in 1..m /\ i # m /\ \A j \in 1..n : j \in 1..m
  OBVIOUS
<1>2. /\ u \in Vectors(m)
      /\ \A j \in 1..m : /\ a[i] \in Byte /\ b[j] \in Byte /\ x[j] \in Byte
                         /\ Xor(a[i], b[j]) \in Byte \ {0} /\ GfInverse(Xor(a[i], b[j])) \in Byte \ {0}
                         /\ u[j] = GfMul(GfInverse(Xor(a[i], b[j])), x[j])
  BY <1>1, CauchyRows
<1>3. /\ w \in Vectors(m)
      /\ \A j \in 1..m : /\ a[m] \in Byte
                         /\ Xor(a[m], b[j]) \in Byte \ {0} /\ GfInverse(Xor(a[m], b[j])) \in Byte \ {0}
                         /\ w[j] = GfMul(GfInverse(Xor(a[m], b[j])), x[j])
  BY <1>1, CauchyRows
<1>4. v \in Vectors(n) /\ \A j \in 1..n : v[j] = GfMul(GfInverse(Xor(a[i], b[j])), y[j]) /\ v[j] \in Byte
  <2>1. v \in Vectors(n) /\ \A j \in 1..n : v[j] = GfMul(GfInverse(Xor(Front(a, n)[i], Front(b, n)[j])), y[j])
    BY CauchyRows
  <2>2. Front(a, n)[i] = a[i] /\ \A j \in 1..n : Front(b, n)[j] = b[j]
    BY DEF Front
  <2> QED
    BY <2>1, <2>2, VectorsMade
<1>5. Total(u) = 0 /\ Total(w) = 0
  BY <1>1
<1>6. e \in Byte /\ f \in Byte /\ h \in Byte \ {0}
  <2>1. a[i] # a[m]
    BY <1>1 DEF Cauchy
  <2>2. a[i] \in Byte /\ a[m] \in Byte /\ b[m] \in Byte
    BY <1>1, <1>2, <1>3
  <2>3. Xor(a[i], a[m]) # 0
    BY <2>1, <2>2, XorZero
  <2> QED
    BY <2>2, <2>3, XorLaws
<1>7. /\ Scaled(e, u, m) \in Vectors(m) /\ Scaled(f, w, m) \in Vectors(m)
      /\ \A j \in 1..m : Scaled(e, u, m)[j] = GfMul(e, u[j]) /\ Scaled(f, w, m)[j] = GfMul(f, w[j])
  <2> HIDE DEF m, u, w, e, f
  <2> QED
    BY <1>1, <1>2, <1>3, <1>6, VectorsMade
<1>8. z \in Vectors(m) /\ \A j \in 1..m : z[j] = Xor(GfMul(e, u[j]), GfMul(f, w[j]))
  <2> HIDE DEF m, u, w, e, f
  <2> QED
    BY <1>1, <1>7, VectorsMade
<1>9. Total(z) = 0
  <2> HIDE DEF m, u, w, e, f
  <2>1. Total(z) = Xor(Total(Scaled(e, u, m)), Total(Scaled(f, w, m)))
    BY <1>1, <1>7, TotalAdds
  <2>2. Total(Scaled(e, u, m)) = GfMul(e, 0) /\ Total(Scaled(f, w, m)) = GfMul(f, 0)
    BY <1>1, <1>2, <1>3, <1>5, <1>6, TotalScales
  <2> QED
    BY <1>6, <2>1, <2>2, XorLaws, GfProduct
<1>10. \A j \in 1..m : z[j] = GfMul(h, GfMul(GfInverse(Xor(a[i], b[j])),
                               GfMul(Xor(b[j], b[m]), GfMul(GfInverse(Xor(a[m], b[j])), x[j]))))
  <2> TAKE j \in 1..m
  <2>1. /\ a[i] \in Byte /\ b[j] \in Byte /\ a[m] \in Byte /\ b[m] \in Byte /\ x[j] \in Byte
        /\ Xor(a[i], b[j]) # 0 /\ Xor(a[m], b[j]) # 0
    BY <1>1, <1>2, <1>3
  <2> HIDE DEF z, u, w, m
  <2>2. Xor(GfMul(Xor(a[i], b[m]), GfMul(GfInverse(Xor(a[i], b[j])), x[j])),
            GfMul(Xor(a[m], b[m]), GfMul(GfInverse(Xor(a[m], b[j])), x[j])))
          = GfMul(Xor(a[i], a[m]), GfMul(GfInverse(Xor(a[i], b[j])),
              GfMul(Xor(b[j], b[m]), GfMul(GfInverse(Xor(a[m], b[j])), x[j]))))
    BY <2>1, CauchyTerms
  <2>3. z[j] = Xor(GfMul(Xor(a[i], b[m]), GfMul(GfInverse(Xor(a[i], b[j])), x[j])),
                   GfMul(Xor(a[m], b[m]), GfMul(GfInverse(Xor(a[m], b[j])), x[j])))
    BY <1>2, <1>3, <1>8
  <2> QED
    BY <2>2, <2>3
<1>11. z[m] = 0
  <2>1. Xor(b[m], b[m]) = 0
    BY <1>1, <1>2, XorLaws
  <2> DEFINE P == GfInverse(Xor(a[i], b[m]))
             q == GfMul(GfInverse(Xor(a[m], b[m])), x[m])
  <2>2. P \in Byte /\ q \in Byte
    BY <1>1, <1>2, <1>3, GfProduct
  <2>3. z[m] = GfMul(h, GfMul(P, GfMul(0, q)))
    BY <1>1, <1>10, <2>1
  <2> HIDE DEF P, q, z, h
  <2> QED
    BY <1>6, <2>2, <2>3, XorLaws, GfProduct
<1>12. \A j \in 1..n : z[j] = GfMul(h, v[j])
  <2> TAKE j \in 1..n
  <2>1. y[j] = GfMul(Xor(b[j], b[m]), GfMul(GfInverse(Xor(a[m], b[j])), x[j]))
    OBVIOUS
  <2> HIDE DEF z, v, h, m
  <2> QED
    BY <1>1, <1>4, <1>10, <2>1
<1> HIDE DEF z, v, h, u, w, e, f
<1>13. Front(z, n) = Scaled(h, v, n)
  BY <1>12 DEF Front, Scaled
<1>14. Total(z) = Xor(Total(Front(z, n)), 0) /\ Total(Front(z, n)) \in Byte
  <2>1. /\ Front(z, n) \in Vectors(n)
        /\ Total(z) = Xor(Total(Front(z, n)), z[n + 1])
    BY <1>8, TotalStep
  <2> QED
    BY <1>11, <2>1, TotalStep
<1>15. GfMul(h, Total(v)) = 0
  BY <1>4, <1>6, <1>9, <1>13, <1>14, TotalScales, XorLaws
<1>16. Total(v) \in Byte
  BY <1>4, TotalStep
<1>17. Total(v) = 0
  BY <1>6, <1>15, <1>16, GfProduct
<1> QED
  BY <1>17 DEF v

\* A square part of a Cauchy matrix is regular: a combination of its columns that is 0 in
\* every row is the empty one.
LEMMA CauchyRegular ==
  ASSUME NEW N \in Nat
  PROVE  \A a, b : \A x \in Vectors(N) :
           Cauchy(a, b, N) /\ (\A i \in 1..N : Total(CauchyRow(a, b, x, i, N)) = 0)
             => \A j \in 1..N : x[j] = 0
<1> DEFINE Fine(n) == \A a, b : \A x \in Vectors(n) :
                        Cauchy(a, b, n) /\ (\A i \in 1..n : Total(CauchyRow(a, b, x, i, n)) = 0)
                          => \A j \in 1..n : x[j] = 0
           Good == {n \in 0..N : Fine(n)}
<1>1. 0 \in Good
  OBVIOUS
<1>2. ASSUME NEW k \in 1..N, k - 1 \in Good
      PROVE  k \in Good
  <2> DEFINE n == k - 1
  <2>1. n \in Nat /\ k = n + 1
    OBVIOUS
  <2>2. Fine(n)
    BY <1>2
  <2> HIDE DEF n
  <2>3. ASSUME NEW a, NEW b, NEW x \in Vectors(n + 1), Cauchy(a, b, n + 1),
               \A i \in 1..n + 1 : Total(CauchyRow(a, b, x, i, n + 1)) = 0
        PROVE  \A j \in 1..n + 1 : x[j] = 0
    <3> DEFINE m == n + 1
               w == CauchyRow(a, b, x, m, m)
               y == [j \in 1..n |-> GfMul(Xor(b[j], b[m]), GfMul(GfInverse(Xor(a[m], b[j])), x[j]))]
               fa == Front(a, n)
               fb == Front(b, n)
    <3>1. m \in Nat /\ m \in 1..m /\ m = n + 1 /\ \A j \in 1..n : j \in 1..m /\ j # m
      BY <2>1
    <3>2. /\ w \in Vectors(m)
          /\ \A j \in 1..m : /\ a[m] \in Byte /\ b[j] \in Byte /\ x[j] \in Byte
                             /\ GfInverse(Xor(a[m], b[j])) \in Byte \ {0}
                             /\ w[j] = GfMul(GfInverse(Xor(a[m], b[j])), x[j])
      BY <2>3, <3>1, CauchyRows
    <3>3. \A j \in 1..n : Xor(b[j], b[m]) \in Byte \ {0}
      <4> TAKE j \in 1..n
      <4>1. b[j] \in Byte /\ b[m] \in Byte
        BY <3>1, <3>2
      <4>2. b[j] # b[m]
        BY <2>3, <3>1 DEF Cauchy
      <4>3. Xor(b[j], b[m]) # 0
        BY <4>1, <4>2, XorZero
      <4> QED
        BY <4>1, <4>3, XorLaws
    <3>4. /\ y \in Vectors(n)
          /\ \A j \in 1..n : y[j] = GfMul(Xor(b[j], b[m]), GfMul(GfInverse(Xor(a[m], b[j])), x[j]))
      <4>1. \A j \in 1..n : GfMul(GfInverse(Xor(a[m], b[j])), x[j]) \in Byte
        BY <3>1, <3>2, GfProduct
      <4>2. \A j \in 1..n : GfMul(Xor(b[j], b[m]), GfMul(GfInverse(Xor(a[m], b[j])), x[j])) \in Byte
        BY <3>3, <4>1, GfProduct
      <4> QED
        BY <4>2 DEF Vectors
    <3>5. Cauchy(fa, fb, n)
      <4>1. /\ fa \in Vectors(n) /\ fb \in Vectors(n)
            /\ \A j \in 1..n : fa[j] = a[j] /\ fb[j] = b[j]
        <5>1. a \in Vectors(m) /\ b \in Vectors(m)
          BY <2>3, <3>1 DEF Cauchy
        <5> QED
          BY <3>1, <5>1 DEF Front, Vectors
      <4> QED
        BY <2>3, <3>1, <4>1 DEF Cauchy
    <3> HIDE DEF y
    <3>6. \A i \in 1..n : Total(CauchyRow(fa, fb, y, i, n)) = 0
      BY <2>1, <2>3, <3>4, <3>5, CauchyStep
    <3>7. \A j \in 1..n : y[j] = 0
      BY <2>2, <3>4, <3>5, <3>6
    <3>8. \A j \in 1..n : x[j] = 0
      <4> TAKE j \in 1..n
      <4> DEFINE P == GfInverse(Xor(a[m], b[j]))
      <4>1. P \in Byte \ {0} /\ x[j] \in Byte /\ GfMul(P, x[j]) \in Byte
        BY <3>1, <3>2, GfProduct
      <4>2. GfMul(Xor(b[j], b[m]), GfMul(P, x[j])) = 0
        BY <3>4, <3>7
      <4>3. GfMul(P, x[j]) = 0
        BY <3>3, <4>1, <4>2, GfProduct
      <4> QED
        BY <4>1, <4>3, GfProduct
    <3>9. x[m] = 0
      <4>1. \A j \in 1..m \ {m} : w[j] = 0
        <5> TAKE j \in 1..m \ {m}
        <5>1. j \in 1..n
          BY <2>1
        <5>2. w[j] = GfMul(GfInverse(Xor(a[m], b[j])), 0) /\ GfInverse(Xor(a[m], b[j])) \in Byte
          BY <3>2, <3>8, <5>1
        <5>3. GfMul(GfInverse(Xor(a[m], b[j])), 0) = 0
          BY <5>2 DEF GfMul
        <5> QED
          BY <5>2, <5>3
      <4>2. Total(w) = 0
        BY <2>3, <3>1
      <4> HIDE DEF w, m
      <4>3. w[m] = 0
        BY <3>1, <3>2, <4>1, <4>2, TotalSingle
      <4>4. GfMul(GfInverse(Xor(a[m], b[m])), x[m]) = 0 /\ x[m] \in Byte
            /\ GfInverse(Xor(a[m], b[m])) \in Byte \ {0}
        BY <3>1, <3>2, <4>3
      <4> QED
        BY <4>4, GfProduct
    <3>10. \A j \in 1..n + 1 : j \in 1..n \/ j = n + 1
      BY <2>1
    <3> QED
      BY <3>8, <3>9, <3>10
  <2> HIDE DEF Fine
  <2>4. Fine(n + 1)
    BY <2>3 DEF Fine
  <2> QED
    BY <2>1, <2>4
<1>3. 0..N \subseteq Good
  <2> HIDE DEF Good
  <2> QED
    BY <1>1, <1>2, UpTo
<1> QED
  BY <1>3

-----------------------------------------------------------------------------
(* The elimination. *)

LEMMA Length ==
  ASSUME NEW n \in Nat, NEW f, f = [k \in 1..n |-> f[k]]
  PROVE  Len(f) = n
<1>1. f \in [1..n -> {f[k] : k \in 1..n}]
  BY Zenon
<1> QED
  BY <1>1

\* m has n rows of n coefficients and a right-hand side, whatever that is.
Matrix(m, n) ==
  /\ m = [r \in 1..n |-> m[r]]
  /\ \A r \in 1..n : m[r] = [k \in 1..n + 1 |-> m[r][k]]
  /\ \A r, k \in 1..n : m[r][k] \in Byte

Products(row, x, n) == [k \in 1..n |-> GfMul(row[k], x[k])]

Regular(m, n) ==
  \A x \in Vectors(n) : (\A r \in 1..n : Total(Products(m[r], x, n)) = 0) => \A k \in 1..n : x[k] = 0

Solves(m, x, n) == \A r \in 1..n : Total(Products(m[r], x, n)) = m[r][n + 1]

\* The first c columns are those of the unit matrix.
Cleared(m, n, c) == \A r \in 1..n, k \in 1..c : m[r][k] = IF r = k THEN 1 ELSE 0

LEMMA ProductsMade ==
  ASSUME NEW n \in Nat, NEW m, Matrix(m, n), NEW x \in Vectors(n), NEW r \in 1..n
  PROVE  /\ Products(m[r], x, n) \in Vectors(n)
         /\ \A k \in 1..n : /\ m[r][k] \in Byte /\ x[k] \in Byte
                            /\ Products(m[r], x, n)[k] = GfMul(m[r][k], x[k])
         /\ Total(Products(m[r], x, n)) \in Byte
<1>1. \A k \in 1..n : m[r][k] \in Byte /\ x[k] \in Byte
  BY DEF Matrix, Vectors
<1>2. \A k \in 1..n : GfMul(m[r][k], x[k]) \in Byte
  BY <1>1, GfProduct
<1>3. Products(m[r], x, n) \in Vectors(n)
  BY <1>2 DEF Products, Vectors
<1> QED
  BY <1>1, <1>3, TotalStep DEF Products

\* A sum of which at most two terms are not 0.
LEMMA TotalPair ==
  ASSUME NEW n \in Nat, NEW u \in Vectors(n), NEW i \in 1..n, NEW j \in 1..n, i # j,
         \A k \in 1..n \ {i, j} : u[k] = 0
  PROVE  Total(u) = Xor(u[i], u[j])
<1> DEFINE v == [k \in 1..n |-> IF k = i THEN u[i] ELSE 0]
           w == [k \in 1..n |-> IF k = j THEN u[j] ELSE 0]
<1>1. u[i] \in Byte /\ u[j] \in Byte /\ 0 \in Byte
  BY XorLaws, VectorsMade
<1>2. v \in Vectors(n) /\ w \in Vectors(n) /\ v[i] = u[i] /\ w[j] = u[j]
  BY <1>1 DEF Vectors
<1>3. \A k \in 1..n : Xor(v[k], w[k]) = u[k]
  BY <1>1, XorLaws
<1>4. Added(v, w, n) = u
  BY <1>3 DEF Added, Vectors
<1>5. (\A k \in 1..n \ {i} : v[k] = 0) /\ (\A k \in 1..n \ {j} : w[k] = 0)
  OBVIOUS
<1> HIDE DEF v, w
<1>6. Total(v) = v[i] /\ Total(w) = w[j]
  BY <1>2, <1>5, TotalSingle
<1> QED
  BY <1>2, <1>4, <1>6, TotalAdds

\* A regular matrix has its next pivot.
LEMMA PivotExists ==
  ASSUME NEW n \in Nat, NEW m, Matrix(m, n), Regular(m, n), NEW col \in 1..n, Cleared(m, n, col - 1)
  PROVE  /\ PivotRows(m, col) # {}
         /\ \A p \in PivotRows(m, col) : p \in col..n /\ m[p][col] \in Byte \ {0}
<1>1. Len(m) = n /\ m # <<>>
  <2>1. Len(m) = n
    BY Length DEF Matrix
  <2> QED
    BY <2>1
<1>2. ASSUME NEW p \in PivotRows(m, col)
      PROVE  p \in col..n /\ m[p][col] \in Byte \ {0}
  <2>1. p \in col..n /\ m[p][col] # 0
    BY <1>1 DEF PivotRows
  <2> QED
    BY <2>1 DEF Matrix
<1>3. ASSUME PivotRows(m, col) = {}
      PROVE  FALSE
  <2>1. m[col][col] = 0
    BY <1>1, <1>3 DEF PivotRows
  <2>2. {r \in col + 1..n : m[r][col] # 0 /\ \A q \in col + 1..r - 1 : m[q][col] = 0} = {}
    BY <1>1, <1>3, <2>1 DEF PivotRows
  <2>3. \A r \in col..n : m[r][col] = 0
    <3> DEFINE Bad == {r \in col + 1..n : m[r][col] # 0}
    <3>1. ASSUME Bad # {}
          PROVE  FALSE
      <4>1. Bad \in SUBSET Nat
        OBVIOUS
      <4>2. PICK r \in Bad : \A q \in Bad : r <= q
        <5> HIDE DEF Bad
        <5> QED
          BY <3>1, <4>1, LeastNat
      <4> QED
        BY <2>2, <4>2
    <3> QED
      BY <2>1, <3>1
  <2> DEFINE x == [k \in 1..n |-> IF k < col THEN m[k][col] ELSE IF k = col THEN 1 ELSE 0]
  <2>4. 0 \in Byte /\ 1 \in Byte /\ 1 # 0
    BY DEF Byte
  <2>5. x \in Vectors(n)
    BY <2>4 DEF Vectors, Matrix
  <2>6. x[col] = 1
    OBVIOUS
  <2>7. \A k \in 1..n : k < col => x[k] = m[k][col]
    OBVIOUS
  <2>8. \A k \in 1..n : k > col => x[k] = 0
    OBVIOUS
  <2> HIDE DEF x
  <2>9. ASSUME NEW r \in 1..n
        PROVE  Total(Products(m[r], x, n)) = 0
    <3> DEFINE u == Products(m[r], x, n)
    <3>1. u \in Vectors(n) /\ \A k \in 1..n : m[r][k] \in Byte /\ x[k] \in Byte /\ u[k] = GfMul(m[r][k], x[k])
      BY <2>5, ProductsMade
    <3> HIDE DEF u
    <3>2. \A k \in 1..n : m[r][k] = 0 \/ x[k] = 0 => u[k] = 0
      BY <3>1 DEF GfMul
    <3>3. \A k \in 1..n : k < col => m[r][k] = IF r = k THEN 1 ELSE 0
      BY DEF Cleared
    <3>4. CASE r >= col
      <4>1. \A k \in 1..n : u[k] = 0
        <5> TAKE k \in 1..n
        <5>1. CASE k < col
          BY <3>2, <3>3, <3>4, <5>1
        <5>2. CASE k = col
          BY <2>3, <3>2, <3>4, <5>2
        <5>3. CASE k > col
          BY <2>8, <3>2, <5>3
        <5> QED
          BY <5>1, <5>2, <5>3
      <4> QED
        BY <3>1, <4>1, TotalSingle DEF u
    <3>5. CASE r < col
      <4>1. \A k \in 1..n \ {r, col} : u[k] = 0
        <5> TAKE k \in 1..n \ {r, col}
        <5>1. CASE k < col
          BY <3>2, <3>3, <5>1
        <5>2. CASE k > col
          BY <2>8, <3>2, <5>2
        <5> QED
          BY <5>1, <5>2
      <4>2. u[r] = GfMul(1, m[r][col])
        BY <2>7, <3>1, <3>3, <3>5
      <4>3. u[col] = GfMul(m[r][col], 1)
        BY <2>6, <3>1
      <4>4. u[r] = u[col] /\ u[r] \in Byte
        BY <2>4, <3>1, <4>2, <4>3, GfProduct
      <4>5. Total(u) = Xor(u[r], u[col])
        BY <3>1, <3>5, <4>1, TotalPair
      <4> QED
        BY <4>4, <4>5, XorLaws DEF u
    <3> QED
      BY <3>4, <3>5
  <2>10. x[col] = 0
    BY <2>5, <2>9 DEF Regular
  <2> QED
    BY <2>4, <2>6, <2>10
<1> QED
  BY <1>2, <1>3

\* a is what m becomes: what solves m solves it, and it has no more kernel than m.
Follows(m, a, n) ==
  \A x \in Vectors(n) :
    /\ (\A r \in 1..n : Total(Products(a[r], x, n)) = 0) => \A r \in 1..n : Total(Products(m[r], x, n)) = 0
    /\ Solves(m, x, n) => Solves(a, x, n)

LEMMA SwapFollows ==
  ASSUME NEW n \in Nat, NEW m, Matrix(m, n), NEW col \in 1..n, Cleared(m, n, col - 1),
         NEW p \in col..n, m[p][col] # 0
  PROVE  LET a == SwapRows(m, col, p)
         IN  Matrix(a, n) /\ Cleared(a, n, col - 1) /\ a[col][col] # 0 /\ Follows(m, a, n)
<1> DEFINE a == SwapRows(m, col, p)
           q == [r \in 1..n |-> IF r = col THEN p ELSE IF r = p THEN col ELSE r]
<1>1. \A r \in 1..n : q[r] \in 1..n /\ q[q[r]] = r
  OBVIOUS
<1>2. a = [r \in 1..n |-> a[r]] /\ \A r \in 1..n : a[r] = m[q[r]]
  BY DEF SwapRows, Matrix
<1>3. q[col] = p /\ \A r \in 1..n : r < col => q[r] = r
  OBVIOUS
<1>4. \A r \in 1..n : r >= col => q[r] >= col
  OBVIOUS
<1> HIDE DEF a, q
<1>5. Matrix(a, n)
  <2>1. ASSUME NEW r \in 1..n
        PROVE  a[r] = [k \in 1..n + 1 |-> a[r][k]] /\ \A k \in 1..n : a[r][k] \in Byte
    <3>1. q[r] \in 1..n /\ a[r] = m[q[r]]
      BY <1>1, <1>2
    <3>2. m[q[r]] = [k \in 1..n + 1 |-> m[q[r]][k]] /\ \A k \in 1..n : m[q[r]][k] \in Byte
      BY <3>1 DEF Matrix
    <3> QED
      BY <3>1, <3>2
  <2> QED
    BY <1>2, <2>1 DEF Matrix
<1>6. Cleared(a, n, col - 1)
  <2> SUFFICES ASSUME NEW r \in 1..n, NEW k \in 1..col - 1
               PROVE  a[r][k] = IF r = k THEN 1 ELSE 0
    BY DEF Cleared
  <2>1. m[q[r]][k] = IF q[r] = k THEN 1 ELSE 0
    BY <1>1 DEF Cleared
  <2>2. q[r] = k <=> r = k
    BY <1>3, <1>4
  <2> QED
    BY <1>2, <2>1, <2>2
<1>7. a[col][col] # 0
  BY <1>2, <1>3
<1>8. Follows(m, a, n)
  <2> SUFFICES ASSUME NEW x \in Vectors(n)
               PROVE  /\ (\A r \in 1..n : Total(Products(a[r], x, n)) = 0)
                           => \A r \in 1..n : Total(Products(m[r], x, n)) = 0
                      /\ Solves(m, x, n) => Solves(a, x, n)
    BY DEF Follows
  <2>1. \A r \in 1..n : m[r] = a[q[r]]
    BY <1>1, <1>2
  <2> QED
    BY <1>1, <1>2, <2>1 DEF Solves
<1> QED
  BY <1>5, <1>6, <1>7, <1>8 DEF a

LEMMA NormalizeFollows ==
  ASSUME NEW n \in Nat, NEW m, Matrix(m, n), NEW col \in 1..n, Cleared(m, n, col - 1), m[col][col] # 0
  PROVE  LET a == Normalize(m, col)
         IN  Matrix(a, n) /\ Cleared(a, n, col) /\ Follows(m, a, n)
<1> DEFINE c == GfInverse(m[col][col])
           pivot == Scale(m[col], c)
           a == Normalize(m, col)
<1>1. Len(m) = n
  BY Length DEF Matrix
<1>2. Len(m[col]) = n + 1
  <2>1. n + 1 \in Nat /\ m[col] = [k \in 1..n + 1 |-> m[col][k]]
    BY DEF Matrix
  <2> QED
    BY <2>1, Length
<1>3. m[col][col] \in Byte /\ c \in Byte \ {0} /\ GfMul(c, m[col][col]) = 1
  BY GfProduct DEF Matrix
<1> HIDE DEF c
<1>4. pivot = [k \in 1..n + 1 |-> pivot[k]] /\ \A k \in 1..n + 1 : pivot[k] = GfMul(c, m[col][k])
  BY <1>2 DEF Scale
<1>5. Len(pivot) = n + 1
  <2> HIDE DEF pivot
  <2>1. n + 1 \in Nat
    OBVIOUS
  <2> QED
    BY <1>4, <2>1, Length
<1>6. a = Clear(m, col, pivot)
  BY DEF Normalize, c
<1> HIDE DEF pivot, a
<1>7. /\ a = [r \in 1..n |-> a[r]]
      /\ a[col] = pivot
      /\ \A r \in 1..n : r # col => a[r] = [k \in 1..n + 1 |-> Xor(m[r][k], GfMul(m[r][col], pivot[k]))]
  BY <1>1, <1>5, <1>6 DEF Clear
<1>8. \A r \in 1..n : r # col => \A k \in 1..n + 1 : a[r][k] = Xor(m[r][k], GfMul(m[r][col], pivot[k]))
  BY <1>7
<1>9. \A r, k \in 1..n : m[r][k] \in Byte
  BY DEF Matrix
<1>10. \A k \in 1..n : pivot[k] \in Byte
  BY <1>3, <1>4, <1>9, GfProduct
<1>11. Matrix(a, n)
  <2>1. \A r \in 1..n : a[r] = [k \in 1..n + 1 |-> a[r][k]]
    BY <1>4, <1>7
  <2>2. \A r, k \in 1..n : a[r][k] \in Byte
    <3> TAKE r, k \in 1..n
    <3>1. CASE r = col
      BY <1>7, <1>10, <3>1
    <3>2. CASE r # col
      <4>1. a[r][k] = Xor(m[r][k], GfMul(m[r][col], pivot[k]))
        BY <1>8, <3>2
      <4>2. m[r][k] \in Byte /\ GfMul(m[r][col], pivot[k]) \in Byte
        BY <1>9, <1>10, GfProduct
      <4> QED
        BY <4>1, <4>2, XorLaws
    <3> QED
      BY <3>1, <3>2
  <2> QED
    BY <1>7, <2>1, <2>2 DEF Matrix
<1>12. Cleared(a, n, col)
  <2> SUFFICES ASSUME NEW r \in 1..n, NEW k \in 1..col
               PROVE  a[r][k] = IF r = k THEN 1 ELSE 0
    BY DEF Cleared
  <2>0. k \in 1..n /\ k \in 1..n + 1
    OBVIOUS
  <2>1. CASE k = col
    <3>1. pivot[col] = 1
      BY <1>3, <1>4
    <3>2. CASE r = col
      BY <1>7, <2>1, <3>1, <3>2
    <3>3. CASE r # col
      <4>1. a[r][col] = Xor(m[r][col], GfMul(m[r][col], 1)) /\ m[r][col] \in Byte
        BY <1>8, <1>9, <2>0, <2>1, <3>1, <3>3
      <4>2. GfMul(m[r][col], 1) = m[r][col]
        BY <4>1, GfProduct
      <4> QED
        BY <2>1, <3>3, <4>1, <4>2, XorLaws
    <3> QED
      BY <3>2, <3>3
  <2>2. CASE k < col
    <3>1. k \in 1..col - 1
      BY <2>2
    <3>2. m[col][k] = 0 /\ m[r][k] = IF r = k THEN 1 ELSE 0
      BY <2>2, <3>1 DEF Cleared
    <3>3. pivot[k] = 0
      BY <1>4, <2>0, <3>2 DEF GfMul
    <3>4. CASE r = col
      BY <1>7, <2>2, <3>3, <3>4
    <3>5. CASE r # col
      <4>1. a[r][k] = Xor(m[r][k], GfMul(m[r][col], 0))
        BY <1>8, <2>0, <3>3, <3>5
      <4>2. GfMul(m[r][col], 0) = 0
        BY DEF GfMul
      <4>3. m[r][k] \in Byte
        BY <1>9, <2>0
      <4> QED
        BY <3>2, <4>1, <4>2, <4>3, XorLaws
    <3> QED
      BY <3>4, <3>5
  <2> QED
    BY <2>1, <2>2
<1>13. ASSUME NEW x \in Vectors(n)
       PROVE  /\ Total(Products(a[col], x, n)) = GfMul(c, Total(Products(m[col], x, n)))
              /\ \A r \in 1..n : r # col =>
                   Total(Products(a[r], x, n))
                     = Xor(Total(Products(m[r], x, n)), GfMul(m[r][col], Total(Products(a[col], x, n))))
  <2> DEFINE P(b, r) == Products(b[r], x, n)
  <2>1. \A r \in 1..n : /\ P(m, r) \in Vectors(n) /\ P(a, r) \in Vectors(n)
                        /\ \A k \in 1..n : /\ m[r][k] \in Byte /\ a[r][k] \in Byte /\ x[k] \in Byte
                                           /\ P(m, r)[k] = GfMul(m[r][k], x[k])
                                           /\ P(a, r)[k] = GfMul(a[r][k], x[k])
    BY <1>11, ProductsMade
  <2> HIDE DEF P
  <2>2. P(a, col) = Scaled(c, P(m, col), n)
    <3>1. \A k \in 1..n : P(a, col)[k] = GfMul(c, P(m, col)[k])
      <4> TAKE k \in 1..n
      <4>1. a[col][k] = GfMul(c, m[col][k])
        <5>1. k \in 1..n + 1
          OBVIOUS
        <5> QED
          BY <1>4, <1>7, <5>1
      <4>2. P(a, col)[k] = GfMul(a[col][k], x[k]) /\ P(m, col)[k] = GfMul(m[col][k], x[k])
        BY <2>1
      <4>3. m[col][k] \in Byte /\ x[k] \in Byte
        BY <2>1
      <4>4. GfMul(GfMul(c, m[col][k]), x[k]) = GfMul(c, GfMul(m[col][k], x[k]))
        <5> DEFINE e == m[col][k]
                   g == x[k]
        <5> HIDE DEF e, g
        <5>1. c \in Byte /\ e \in Byte /\ g \in Byte
          BY <1>3, <4>3 DEF e, g
        <5>2. GfMul(GfMul(c, e), g) = GfMul(c, GfMul(e, g))
          BY <5>1, GfProduct
        <5> QED
          BY <5>2 DEF e, g
      <4> QED
        BY <4>1, <4>2, <4>4
    <3> QED
      BY <2>1, <3>1 DEF Scaled, Vectors
  <2>3. Total(P(a, col)) = GfMul(c, Total(P(m, col)))
    BY <1>3, <2>1, <2>2, TotalScales
  <2>4. ASSUME NEW r \in 1..n, r # col
        PROVE  Total(P(a, r)) = Xor(Total(P(m, r)), GfMul(m[r][col], Total(P(a, col))))
    <3> DEFINE d == m[r][col]
               s == Scaled(d, P(a, col), n)
    <3>1. d \in Byte
      BY <2>1
    <3> HIDE DEF d
    <3>2. s \in Vectors(n) /\ \A k \in 1..n : s[k] = GfMul(d, P(a, col)[k])
      BY <2>1, <3>1, VectorsMade
    <3>3. \A k \in 1..n : P(a, r)[k] = Xor(P(m, r)[k], s[k])
      <4> TAKE k \in 1..n
      <4>1. a[r][k] = Xor(m[r][k], GfMul(d, pivot[k])) /\ a[col][k] = pivot[k]
        <5>1. k \in 1..n + 1
          OBVIOUS
        <5> QED
          BY <1>7, <1>8, <2>4, <5>1 DEF d
      <4>2. P(a, r)[k] = GfMul(Xor(m[r][k], GfMul(d, pivot[k])), x[k])
        BY <2>1, <4>1
      <4>3. s[k] = GfMul(d, GfMul(pivot[k], x[k]))
        <5>1. P(a, col)[k] = GfMul(a[col][k], x[k])
          BY <2>1
        <5> QED
          BY <3>2, <4>1, <5>1
      <4>4. m[r][k] \in Byte /\ pivot[k] \in Byte /\ x[k] \in Byte /\ GfMul(d, pivot[k]) \in Byte
        BY <1>10, <2>1, <3>1, GfProduct
      <4>5. GfMul(Xor(m[r][k], GfMul(d, pivot[k])), x[k])
              = Xor(GfMul(m[r][k], x[k]), GfMul(GfMul(d, pivot[k]), x[k]))
        <5> DEFINE e == GfMul(d, pivot[k])
        <5> HIDE DEF e
        <5>1. m[r][k] \in Byte /\ e \in Byte /\ x[k] \in Byte
          BY <4>4 DEF e
        <5>2. GfMul(Xor(m[r][k], e), x[k]) = Xor(GfMul(m[r][k], x[k]), GfMul(e, x[k]))
          BY <5>1, AddedProducts
        <5> QED
          BY <5>2 DEF e
      <4>6. GfMul(GfMul(d, pivot[k]), x[k]) = GfMul(d, GfMul(pivot[k], x[k]))
        <5> DEFINE e == pivot[k]
                   g == x[k]
        <5> HIDE DEF e, g
        <5>1. e \in Byte /\ g \in Byte
          BY <4>4 DEF e, g
        <5>2. GfMul(GfMul(d, e), g) = GfMul(d, GfMul(e, g))
          BY <3>1, <5>1, GfProduct
        <5> QED
          BY <5>2 DEF e, g
      <4>7. P(m, r)[k] = GfMul(m[r][k], x[k])
        BY <2>1
      <4> QED
        BY <4>2, <4>3, <4>5, <4>6, <4>7
    <3> HIDE DEF s
    <3>4. P(a, r) = Added(P(m, r), s, n)
      BY <2>1, <3>3 DEF Added, Vectors
    <3>5. Total(P(a, r)) = Xor(Total(P(m, r)), Total(s))
      BY <2>1, <3>2, <3>4, TotalAdds
    <3>6. Total(s) = GfMul(d, Total(P(a, col)))
      BY <2>1, <3>1, TotalScales DEF s
    <3> QED
      BY <3>5, <3>6 DEF d
  <2> QED
    BY <2>3, <2>4 DEF P
<1>14. Follows(m, a, n)
  <2> SUFFICES ASSUME NEW x \in Vectors(n)
               PROVE  /\ (\A r \in 1..n : Total(Products(a[r], x, n)) = 0)
                           => \A r \in 1..n : Total(Products(m[r], x, n)) = 0
                      /\ Solves(m, x, n) => Solves(a, x, n)
    BY DEF Follows
  <2> DEFINE T(b, r) == Total(Products(b[r], x, n))
  <2>1. \A r \in 1..n : T(m, r) \in Byte /\ T(a, r) \in Byte
    BY <1>11, ProductsMade
  <2>2. T(a, col) = GfMul(c, T(m, col))
    BY <1>13
  <2>3. \A r \in 1..n : r # col => T(a, r) = Xor(T(m, r), GfMul(m[r][col], T(a, col)))
    BY <1>13
  <2> HIDE DEF T
  <2>4. ASSUME \A r \in 1..n : T(a, r) = 0, NEW r \in 1..n
        PROVE  T(m, r) = 0
    <3>1. T(m, col) = 0
      <4>1. GfMul(c, T(m, col)) = 0
        BY <2>2, <2>4
      <4> QED
        BY <1>3, <2>1, <4>1, GfProduct
    <3>2. CASE r # col
      <4>1. Xor(T(m, r), GfMul(m[r][col], 0)) = 0
        BY <2>3, <2>4, <3>2
      <4>2. GfMul(m[r][col], 0) = 0
        BY DEF GfMul
      <4> QED
        BY <2>1, <4>1, <4>2, XorLaws
    <3> QED
      BY <3>1, <3>2
  <2>5. ASSUME \A r \in 1..n : T(m, r) = m[r][n + 1], NEW r \in 1..n
        PROVE  T(a, r) = a[r][n + 1]
    <3>1. n + 1 \in 1..n + 1
      OBVIOUS
    <3>2. T(a, col) = pivot[n + 1]
      BY <1>4, <2>2, <2>5, <3>1
    <3>3. CASE r = col
      BY <1>7, <3>2, <3>3
    <3>4. CASE r # col
      BY <1>8, <2>3, <2>5, <3>1, <3>2, <3>4
    <3> QED
      BY <3>3, <3>4
  <2> QED
    BY <2>4, <2>5 DEF T, Solves
<1> QED
  BY <1>11, <1>12, <1>14 DEF a

\* The matrices the elimination goes through.
Reduces(m, n, g) ==
  g = [col \in 0..n |-> IF col = 0 THEN m ELSE Eliminate(g[col - 1], col, PivotRows(g[col - 1], col))]

LEMMA ReducesExists ==
  ASSUME NEW n \in Nat, NEW m
  PROVE  \E g : Reduces(m, n, g)
<1> DEFINE Good == {k \in 0..n : \E g : Reduces(m, k, g)}
<1>1. 0 \in Good
  <2> DEFINE g == [col \in 0..0 |-> m]
  <2>1. Reduces(m, 0, g)
    BY DEF Reduces
  <2> HIDE DEF g
  <2> QED
    BY <2>1
<1>2. ASSUME NEW k \in 1..n, k - 1 \in Good
      PROVE  k \in Good
  <2>1. PICK g : Reduces(m, k - 1, g)
    BY <1>2
  <2> DEFINE E(a, col) == Eliminate(a, col, PivotRows(a, col))
             h == [col \in 0..k |-> IF col = k THEN E(g[k - 1], k) ELSE g[col]]
  <2> HIDE DEF E
  <2>2. \A col \in 0..k - 1 : h[col] = g[col]
    OBVIOUS
  <2>3. \A col \in 0..k - 1 : g[col] = IF col = 0 THEN m ELSE E(g[col - 1], col)
    BY <2>1 DEF Reduces, E
  <2>4. ASSUME NEW col \in 0..k
        PROVE  h[col] = IF col = 0 THEN m ELSE E(h[col - 1], col)
    <3>1. CASE col = k
      <4>1. h[k] = E(g[k - 1], k) /\ h[k - 1] = g[k - 1]
        BY <2>2
      <4> HIDE DEF h
      <4> QED
        BY <3>1, <4>1
    <3>2. CASE col # k
      <4>1. h[col] = g[col] /\ (col # 0 => h[col - 1] = g[col - 1])
        BY <2>2, <3>2
      <4> HIDE DEF h
      <4> QED
        BY <2>3, <3>2, <4>1
    <3> QED
      BY <3>1, <3>2
  <2>5. h = [col \in 0..k |-> h[col]]
    OBVIOUS
  <2> HIDE DEF h
  <2>6. Reduces(m, k, h)
    BY <2>4, <2>5 DEF Reduces, E
  <2> QED
    BY <2>6
<1>3. 0..n \subseteq Good
  <2> HIDE DEF Good
  <2> QED
    BY <1>1, <1>2, UpTo
<1> QED
  BY <1>3

\* A regular system is solved, and by its solution.
LEMMA SolveRegular ==
  ASSUME NEW n \in Nat, NEW m, Matrix(m, n), Regular(m, n)
  PROVE  /\ Solve(m) = [r \in 1..n |-> Solve(m)[r]]
         /\ Len(Solve(m)) = n
         /\ \A x \in Vectors(n) : Solves(m, x, n) => Solve(m) = x
<1>1. Len(m) = n
  BY Length DEF Matrix
<1> DEFINE g == CHOOSE h : Reduces(m, n, h)
<1>2. Reduces(m, n, g)
  BY ReducesExists
<1>3. Solve(m) = RightHandSide(g[n])
  BY <1>1 DEF Solve, Reduces
<1> HIDE DEF g
<1>4. g[0] = m /\ \A col \in 1..n : g[col] = Eliminate(g[col - 1], col, PivotRows(g[col - 1], col))
  BY <1>2 DEF Reduces
<1> DEFINE Good == {c \in 0..n : /\ Matrix(g[c], n) /\ Regular(g[c], n) /\ Cleared(g[c], n, c)
                                 /\ \A x \in Vectors(n) : Solves(m, x, n) => Solves(g[c], x, n)}
<1>5. 0 \in Good
  BY <1>4 DEF Cleared
<1>6. ASSUME NEW col \in 1..n, col - 1 \in Good
      PROVE  col \in Good
  <2> DEFINE b == g[col - 1]
             p == CHOOSE q \in PivotRows(b, col) : TRUE
             s == SwapRows(b, col, p)
             a == g[col]
  <2>1. /\ Matrix(b, n) /\ Regular(b, n) /\ Cleared(b, n, col - 1)
        /\ \A x \in Vectors(n) : Solves(m, x, n) => Solves(b, x, n)
    BY <1>6
  <2> HIDE DEF b, Good
  <2>2. /\ PivotRows(b, col) # {}
        /\ \A q \in PivotRows(b, col) : q \in col..n /\ b[q][col] \in Byte \ {0}
    BY <2>1, PivotExists
  <2>3. p \in col..n /\ b[p][col] # 0
    BY <2>2
  <2>4. a = Normalize(s, col)
    BY <1>4, <2>2 DEF Eliminate, b
  <2> HIDE DEF p, s, a
  <2>5. Matrix(s, n) /\ Cleared(s, n, col - 1) /\ s[col][col] # 0 /\ Follows(b, s, n)
    BY <2>1, <2>3, SwapFollows DEF s
  <2>6. Matrix(a, n) /\ Cleared(a, n, col) /\ Follows(s, a, n)
    BY <2>4, <2>5, NormalizeFollows
  <2>7. Regular(a, n)
    <3> SUFFICES ASSUME NEW x \in Vectors(n), \A r \in 1..n : Total(Products(a[r], x, n)) = 0
                 PROVE  \A k \in 1..n : x[k] = 0
      BY DEF Regular
    <3>1. \A r \in 1..n : Total(Products(s[r], x, n)) = 0
      BY <2>6 DEF Follows
    <3>2. \A r \in 1..n : Total(Products(b[r], x, n)) = 0
      BY <2>5, <3>1 DEF Follows
    <3> QED
      BY <2>1, <3>2 DEF Regular
  <2>8. \A x \in Vectors(n) : Solves(m, x, n) => Solves(a, x, n)
    BY <2>1, <2>5, <2>6 DEF Follows
  <2> QED
    BY <2>6, <2>7, <2>8 DEF a, Good
<1>7. 0..n \subseteq Good
  <2> HIDE DEF Good
  <2> QED
    BY <1>5, <1>6, UpTo
<1> DEFINE e == g[n]
<1>8. /\ Matrix(e, n) /\ Cleared(e, n, n)
      /\ \A x \in Vectors(n) : Solves(m, x, n) => Solves(e, x, n)
  BY <1>7
<1> HIDE DEF e, Good
<1>9. Len(e) = n
  BY <1>8, Length DEF Matrix
<1>10. Solve(m) = [r \in 1..n |-> e[r][n + 1]]
  BY <1>3, <1>9 DEF RightHandSide, e
<1>11. ASSUME NEW x \in Vectors(n), Solves(m, x, n)
       PROVE  Solve(m) = x
  <2>1. ASSUME NEW r \in 1..n
        PROVE  e[r][n + 1] = x[r]
    <3> DEFINE u == Products(e[r], x, n)
    <3>1. u \in Vectors(n) /\ \A k \in 1..n : x[k] \in Byte /\ u[k] = GfMul(e[r][k], x[k])
      BY <1>8, ProductsMade
    <3>2. Total(u) = e[r][n + 1]
      BY <1>8, <1>11 DEF Solves
    <3> HIDE DEF u
    <3>3. \A k \in 1..n : e[r][k] = IF r = k THEN 1 ELSE 0
      BY <1>8 DEF Cleared
    <3>4. \A k \in 1..n \ {r} : u[k] = 0
      BY <3>1, <3>3 DEF GfMul
    <3>5. u[r] = x[r]
      BY <3>1, <3>3, GfProduct
    <3> QED
      BY <3>1, <3>2, <3>4, <3>5, TotalSingle
  <2> QED
    BY <1>10, <2>1 DEF Vectors
<1>12. Solve(m) = [r \in 1..n |-> Solve(m)[r]]
  BY <1>10
<1> QED
  BY <1>11, <1>12, Length

-----------------------------------------------------------------------------
(* The decoder. *)

\* A sum of terms that are 0 outside the places idx, each of which counts once.
LEMMA TotalPlaces ==
  ASSUME NEW L \in Nat, NEW N \in Nat
  PROVE  \A v \in Vectors(L) : \A idx \in [1..N -> 1..L] :
           /\ \A i, j \in 1..N : i # j => idx[i] # idx[j]
           /\ \A k \in 1..L : (\A i \in 1..N : idx[i] # k) => v[k] = 0
           => Total(v) = Total([i \in 1..N |-> v[idx[i]]])
<1> DEFINE Places(v, idx, n) ==
             /\ \A i, j \in 1..n : i # j => idx[i] # idx[j]
             /\ \A k \in 1..L : (\A i \in 1..n : idx[i] # k) => v[k] = 0
           Fine(n) == \A v \in Vectors(L) : \A idx \in [1..n -> 1..L] :
                        Places(v, idx, n) => Total(v) = Total([i \in 1..n |-> v[idx[i]]])
           Good == {n \in 0..N : Fine(n)}
<1>1. 0 \in Good
  <2>1. ASSUME NEW v \in Vectors(L), NEW idx \in [1..0 -> 1..L], Places(v, idx, 0)
        PROVE  Total(v) = Total([i \in 1..0 |-> v[idx[i]]])
    <3>1. Total(v) = 0
      BY <2>1, TotalSingle
    <3> DEFINE w == [i \in 1..0 |-> v[idx[i]]]
    <3>2. w \in Vectors(0)
      BY DEF Vectors
    <3> HIDE DEF w
    <3>3. Total(w) = 0
      BY <3>2, TotalStep
    <3> QED
      BY <3>1, <3>3 DEF w
  <2> HIDE DEF Places
  <2>2. Fine(0)
    BY <2>1
  <2> QED
    BY <2>2
<1>2. ASSUME NEW k \in 1..N, k - 1 \in Good
      PROVE  k \in Good
  <2> DEFINE n == k - 1
  <2>1. n \in Nat /\ k = n + 1
    OBVIOUS
  <2>2. Fine(n)
    BY <1>2
  <2> HIDE DEF n
  <2>3. ASSUME NEW v \in Vectors(L), NEW idx \in [1..n + 1 -> 1..L], Places(v, idx, n + 1)
        PROVE  Total(v) = Total([i \in 1..n + 1 |-> v[idx[i]]])
    <3> DEFINE p == idx[n + 1]
               t == [i \in 1..n + 1 |-> v[idx[i]]]
               w == [j \in 1..L |-> IF j = p THEN v[p] ELSE 0]
               u == [j \in 1..L |-> IF j = p THEN 0 ELSE v[j]]
               f == Front(idx, n)
    <3>1. n + 1 \in 1..n + 1 /\ p \in 1..L /\ \A i \in 1..n : i \in 1..n + 1 /\ i # n + 1
      BY <2>1
    <3>2. 0 \in Byte /\ \A j \in 1..L : v[j] \in Byte
      BY XorLaws, VectorsMade
    <3>3. w \in Vectors(L) /\ u \in Vectors(L) /\ \A j \in 1..L : Xor(u[j], w[j]) = v[j]
      <4>1. w \in Vectors(L) /\ u \in Vectors(L)
        BY <3>1, <3>2 DEF Vectors
      <4> QED
        BY <3>1, <3>2, <4>1, XorLaws
    <3>4. Added(u, w, L) = v
      BY <3>3 DEF Added, Vectors
    <3>5. Total(v) = Xor(Total(u), Total(w))
      <4> HIDE DEF u, w
      <4> QED
        BY <3>3, <3>4, TotalAdds
    <3>6. Total(w) = v[p]
      <4>1. (\A j \in 1..L \ {p} : w[j] = 0) /\ w[p] = v[p]
        BY <3>1
      <4> HIDE DEF w, p
      <4> QED
        BY <3>1, <3>3, <4>1, TotalSingle
    <3>7. f \in [1..n -> 1..L] /\ \A i \in 1..n : f[i] = idx[i]
      BY <3>1 DEF Front
    <3>8. \A i \in 1..n : u[f[i]] = v[idx[i]]
      <4> TAKE i \in 1..n
      <4>1. idx[i] # p
        BY <2>3, <3>1
      <4> QED
        BY <3>7, <4>1
    <3>9. Places(u, f, n)
      <4>1. \A i, j \in 1..n : i # j => f[i] # f[j]
        BY <2>3, <3>1, <3>7
      <4>2. ASSUME NEW j \in 1..L, \A i \in 1..n : f[i] # j
            PROVE  u[j] = 0
        <5>1. CASE j = p
          BY <5>1
        <5>2. CASE j # p
          <6>1. \A i \in 1..n + 1 : i \in 1..n \/ i = n + 1
            BY <2>1
          <6>2. \A i \in 1..n + 1 : idx[i] # j
            BY <3>7, <4>2, <5>2, <6>1
          <6> QED
            BY <2>3, <5>2, <6>2
        <5> QED
          BY <5>1, <5>2
      <4> QED
        BY <4>1, <4>2
    <3> HIDE DEF u, f, w, Places
    <3>10. Total(u) = Total([i \in 1..n |-> u[f[i]]])
      BY <2>2, <3>3, <3>7, <3>9
    <3>11. t \in Vectors(n + 1) /\ t[n + 1] = v[p] /\ Front(t, n) = [i \in 1..n |-> u[f[i]]]
      BY <3>1, <3>2, <3>8 DEF Vectors, Front
    <3> HIDE DEF t
    <3>12. Total(t) = Xor(Total(Front(t, n)), t[n + 1])
      BY <2>1, <3>11, TotalStep
    <3> QED
      BY <3>5, <3>6, <3>10, <3>11, <3>12 DEF t
  <2> HIDE DEF Places
  <2>4. Fine(n + 1)
    BY <2>3
  <2> QED
    BY <2>1, <2>4
<1>3. 0..N \subseteq Good
  <2> HIDE DEF Good
  <2> QED
    BY <1>1, <1>2, UpTo
<1>4. Fine(N)
  <2> HIDE DEF Fine
  <2> QED
    BY <1>3
<1> QED
  BY <1>4

\* Parity row r of n that can stand for n erased places.
Rows(parity, n) ==
  /\ parity = [r \in 1..n |-> parity[r]]
  /\ \A r \in 1..n : parity[r].row \in 0..127
  /\ \A r, q \in 1..n : r # q => parity[r].row # parity[q].row

Holes(erased, n) ==
  /\ erased \in [1..n -> 0..127]
  /\ \A d, e \in 1..n : d # e => erased[d] # erased[e]

\* The system fec_decode solves, with whatever right-hand sides.
System(erased, parity, rhs, n) ==
  [r \in 1..n |-> Append([e \in 1..n |-> Coefficient(parity[r].row, erased[e])], rhs[r])]

Stands(m, erased, parity, rhs, n) ==
  /\ Matrix(m, n) /\ Regular(m, n)
  /\ \A r, e \in 1..n : m[r][e] = Coefficient(parity[r].row, erased[e])
  /\ \A r \in 1..n : m[r][n + 1] = rhs[r]

LEMMA SystemRegular ==
  ASSUME NEW n \in Nat, NEW erased, NEW parity, NEW rhs, Rows(parity, n), Holes(erased, n)
  PROVE  Stands(System(erased, parity, rhs, n), erased, parity, rhs, n)
<1> DEFINE m == System(erased, parity, rhs, n)
           a == [r \in 1..n |-> parity[r].row]
           b == [e \in 1..n |-> 128 + erased[e]]
<1>1. Cauchy(a, b, n)
  <2> DEFINE row == [r \in 1..n |-> parity[r].row]
  <2>1. /\ \A r \in 1..n : row[r] \in 0..127
        /\ \A r, q \in 1..n : r # q => row[r] # row[q]
    BY Zenon DEF Rows
  <2>2. /\ \A e \in 1..n : erased[e] \in 0..127
        /\ \A d, e \in 1..n : d # e => erased[d] # erased[e]
    BY DEF Holes
  <2>3. \A r \in 1..n : a[r] = row[r]
    BY Zenon
  <2>4. \A e \in 1..n : b[e] = 128 + erased[e]
    BY Zenon
  <2>5. \A r \in 1..n : row[r] \in Byte /\ 128 + erased[r] \in Byte
    <3> HIDE DEF row
    <3> TAKE r \in 1..n
    <3>1. row[r] \in 0..127
      BY <2>1
    <3>2. erased[r] \in 0..127
      BY <2>2
    <3> DEFINE k == erased[r]
    <3> HIDE DEF k
    <3>3. 128 + k \in Byte
      BY <3>2 DEF Byte, k
    <3>4. row[r] \in Byte
      BY <3>1 DEF Byte
    <3> QED
      BY <3>3, <3>4 DEF k
  <2>6. a \in Vectors(n) /\ b \in Vectors(n)
    BY <2>5 DEF Vectors
  <2> HIDE DEF a, b, row
  <2>7. \A i, j \in 1..n : a[i] # b[j]
    <3> TAKE i, j \in 1..n
    <3> DEFINE k == erased[j]
    <3>1. k \in 0..127 /\ b[j] = 128 + k
      BY <2>2, <2>4
    <3>2. a[i] \in 0..127
      BY <2>1, <2>3
    <3> HIDE DEF k
    <3> QED
      BY <3>1, <3>2
  <2>8. \A i, j \in 1..n : i # j => a[i] # a[j] /\ b[i] # b[j]
    <3> SUFFICES ASSUME NEW i \in 1..n, NEW j \in 1..n, i # j
                 PROVE  a[i] # a[j] /\ b[i] # b[j]
      OBVIOUS
    <3> DEFINE k == erased[i]
               l == erased[j]
    <3>1. k \in 0..127 /\ l \in 0..127 /\ k # l
      BY <2>2
    <3>2. b[i] = 128 + k /\ b[j] = 128 + l
      BY <2>4
    <3> HIDE DEF k, l
    <3>3. b[i] # b[j]
      BY <3>1, <3>2
    <3>4. a[i] # a[j]
      BY <2>1, <2>3
    <3> QED
      BY <3>3, <3>4
  <2>9. \A i, j \in 1..n : Xor(a[i], b[j]) # 0
    BY <2>6, <2>7, XorZero, VectorsMade
  <2> QED
    BY <2>6, <2>8, <2>9 DEF Cauchy
<1>2. \A r, e \in 1..n : Coefficient(parity[r].row, erased[e]) = GfInverse(Xor(a[r], b[e]))
  BY DEF Coefficient
<1> HIDE DEF a, b
<1>3. \A r, e \in 1..n : Coefficient(parity[r].row, erased[e]) \in Byte
  <2> TAKE r, e \in 1..n
  <2>1. a[r] \in Byte /\ b[e] \in Byte /\ Xor(a[r], b[e]) # 0
    BY <1>1 DEF Cauchy, Vectors
  <2>2. Xor(a[r], b[e]) \in Byte \ {0}
    BY <2>1, XorLaws
  <2> QED
    BY <1>2, <2>2, GfProduct
<1>4. ASSUME NEW r \in 1..n
      PROVE  /\ m[r] = [k \in 1..n + 1 |-> m[r][k]]
             /\ \A e \in 1..n : m[r][e] = Coefficient(parity[r].row, erased[e])
             /\ m[r][n + 1] = rhs[r]
  <2> DEFINE s == [e \in 1..n |-> Coefficient(parity[r].row, erased[e])]
             S == Byte \cup {rhs[r]}
  <2>1. s \in Seq(S) /\ Len(s) = n /\ rhs[r] \in S
    BY <1>3
  <2>2. m[r] = Append(s, rhs[r])
    BY DEF System
  <2>3. \A e \in 1..n : s[e] = Coefficient(parity[r].row, erased[e])
    OBVIOUS
  <2> HIDE DEF s, S
  <2>4. m[r] \in Seq(S) /\ Len(m[r]) = n + 1 /\ m[r][n + 1] = rhs[r] /\ \A e \in 1..n : m[r][e] = s[e]
    BY <2>1, <2>2
  <2>5. m[r] = [k \in 1..n + 1 |-> m[r][k]]
    BY <2>4
  <2> QED
    BY <2>3, <2>4, <2>5
<1>5. m = [r \in 1..n |-> m[r]]
  BY DEF System
<1> HIDE DEF m
<1>6. Matrix(m, n)
  BY <1>3, <1>4, <1>5 DEF Matrix
<1>7. Regular(m, n)
  <2> SUFFICES ASSUME NEW x \in Vectors(n), \A r \in 1..n : Total(Products(m[r], x, n)) = 0
               PROVE  \A k \in 1..n : x[k] = 0
    BY DEF Regular
  <2>1. ASSUME NEW r \in 1..n
        PROVE  Products(m[r], x, n) = CauchyRow(a, b, x, r, n)
    <3>1. \A k \in 1..n : m[r][k] = GfInverse(Xor(a[r], b[k]))
      BY <1>2, <1>4
    <3> QED
      BY <3>1 DEF Products, CauchyRow
  <2>2. \A r \in 1..n : Total(CauchyRow(a, b, x, r, n)) = 0
    BY <2>1
  <2> QED
    BY <1>1, <2>2, CauchyRegular
<1> QED
  BY <1>4, <1>6, <1>7 DEF m, Stands

Present(blocks, erased) ==
  [j \in 1..Len(blocks) |-> IF \E e \in 1..Len(erased) : erased[e] = j - 1 THEN 0 ELSE blocks[j]]

LEMMA DecodeSystem ==
  ASSUME NEW n \in Nat, NEW blocks, NEW erased, NEW parity, Len(erased) = n, Len(parity) = n
  PROVE  LET rhs == [r \in 1..n |-> Xor(parity[r].content, Parity(Present(blocks, erased), parity[r].row))]
         IN  FecDecode(blocks, erased, parity) = Solve(System(erased, parity, rhs, n))
<1> DEFINE rhs == [r \in 1..n |-> Xor(parity[r].content, Parity(Present(blocks, erased), parity[r].row))]
           row(r) == [e \in 1..n |-> Coefficient(parity[r].row, erased[e])]
           last(r) == Xor(parity[r].content, Parity(Present(blocks, erased), parity[r].row))
<1>1. FecDecode(blocks, erased, parity) = Solve([r \in 1..n |-> Append(row(r), last(r))])
  BY DEF FecDecode, Present
<1>2. [r \in 1..n |-> Append(row(r), last(r))] = System(erased, parity, rhs, n)
  <2>1. \A r \in 1..n : rhs[r] = last(r)
    OBVIOUS
  <2> HIDE DEF rhs, last
  <2> QED
    BY <2>1 DEF System
<1> QED
  BY <1>1, <1>2

\* As many parity blocks as blocks are erased are enough, whatever they hold.
LEMMA DecodeAnswers ==
  ASSUME NEW n \in Nat, NEW blocks, NEW erased, NEW parity, Len(erased) = n,
         Rows(parity, n), Holes(erased, n)
  PROVE  Len(FecDecode(blocks, erased, parity)) = n
<1> DEFINE rhs == [r \in 1..n |-> Xor(parity[r].content, Parity(Present(blocks, erased), parity[r].row))]
<1>1. Len(parity) = n
  BY Length DEF Rows
<1>2. FecDecode(blocks, erased, parity) = Solve(System(erased, parity, rhs, n))
  BY <1>1, DecodeSystem
<1> HIDE DEF rhs
<1> QED
  BY <1>2, SystemRegular, SolveRegular DEF Stands

\* A parity block is a sum over its stripe.
LEMMA ParityTerms ==
  ASSUME NEW L \in 0..128, NEW x \in Vectors(L), NEW row \in 0..127
  PROVE  LET u == [k \in 1..L |-> GfMul(Coefficient(row, k - 1), x[k])]
         IN  /\ u \in Vectors(L) /\ Parity(x, row) = Total(u)
             /\ \A k \in 1..L : Coefficient(row, k - 1) \in Byte
<1>1. Len(x) = L
  <2>1. L \in Nat /\ x = [k \in 1..L |-> x[k]]
    BY DEF Vectors
  <2> QED
    BY <2>1, Length
<1>2. \A k \in 1..L : Coefficient(row, k - 1) \in Byte
  <2> TAKE k \in 1..L
  <2> DEFINE c == 128 + (k - 1)
  <2>1. row \in Byte /\ c \in Byte /\ row # c
    BY DEF Byte
  <2>2. Coefficient(row, k - 1) = GfInverse(Xor(row, c))
    BY DEF Coefficient
  <2> HIDE DEF c
  <2>3. Xor(row, c) \in Byte \ {0}
    BY <2>1, XorLaws, XorZero
  <2> QED
    BY <2>2, <2>3, GfProduct
<1>3. \A k \in 1..L : GfMul(Coefficient(row, k - 1), x[k]) \in Byte
  BY <1>2, GfProduct DEF Vectors
<1> DEFINE c == [j \in 1..L |-> Coefficient(row, j - 1)]
<1>4. Parity(x, row) = Dot(c, x)
  BY <1>1 DEF Parity
<1>5. Dot(c, x) = Total([k \in 1..L |-> GfMul(c[k], x[k])])
  BY <1>1 DEF Dot
<1>6. [k \in 1..L |-> GfMul(c[k], x[k])] = [k \in 1..L |-> GfMul(Coefficient(row, k - 1), x[k])]
  OBVIOUS
<1> QED
  BY <1>2, <1>3, <1>4, <1>5, <1>6 DEF Vectors

\* fec_decode returns what was erased: of a stripe of up to 128 blocks, any of them may be
\* missing and any parity rows stand for them, as many as are missing, whatever is found in
\* the erased places.
THEOREM FecDecodes ==
  ASSUME NEW L \in 0..128, NEW data \in [1..L -> Byte],
         NEW n \in Nat,
         NEW erased \in [1..n -> 0..L - 1],
         \A d, e \in 1..n : d # e => erased[d] # erased[e],
         NEW rows \in [1..n -> 0..127],
         \A r, q \in 1..n : r # q => rows[r] # rows[q],
         NEW blocks, Len(blocks) = L,
         \A j \in 1..L : (\A e \in 1..n : erased[e] # j - 1) => blocks[j] = data[j]
  PROVE  FecDecode(blocks, erased, [r \in 1..n |-> [row |-> rows[r], content |-> Parity(data, rows[r])]])
           = [e \in 1..n |-> data[erased[e] + 1]]
<1> DEFINE parity == [r \in 1..n |-> [row |-> rows[r], content |-> Parity(data, rows[r])]]
           present == Present(blocks, erased)
           rhs == [r \in 1..n |-> Xor(parity[r].content, Parity(present, parity[r].row))]
           m == System(erased, parity, rhs, n)
           x == [e \in 1..n |-> data[erased[e] + 1]]
<1>1. L \in 0..128 /\ data \in Vectors(L)
  BY DEF Vectors
<1>2. \A e \in 1..n : erased[e] \in 0..L - 1 /\ erased[e] + 1 \in 1..L
  OBVIOUS
<1>3. Len(erased) = n
  OBVIOUS
<1>4. /\ parity = [r \in 1..n |-> parity[r]]
      /\ \A r \in 1..n : parity[r].row = rows[r] /\ parity[r].content = Parity(data, rows[r])
  OBVIOUS
<1> HIDE DEF parity
<1>5. Rows(parity, n)
  BY <1>4 DEF Rows
<1>6. Holes(erased, n)
  <2>1. 0..L - 1 \subseteq 0..127
    OBVIOUS
  <2> QED
    BY <2>1 DEF Holes
<1>7. Len(parity) = n
  BY <1>5, Length DEF Rows
<1>8. FecDecode(blocks, erased, parity) = Solve(m)
  BY <1>3, <1>7, DecodeSystem
<1>9. x \in Vectors(n) /\ \A e \in 1..n : x[e] = data[erased[e] + 1]
  BY <1>1, <1>2 DEF Vectors
<1>10. /\ present \in Vectors(L)
       /\ \A j \in 1..L : present[j] = IF \E e \in 1..n : erased[e] = j - 1 THEN 0 ELSE data[j]
  <2>1. Len(blocks) = L
    OBVIOUS
  <2>2. \A j \in 1..L : (\A e \in 1..n : erased[e] # j - 1) => blocks[j] = data[j]
    OBVIOUS
  <2>3. present = [j \in 1..L |-> present[j]]
    BY <2>1 DEF Present
  <2>4. \A j \in 1..L : present[j] = IF \E e \in 1..n : erased[e] = j - 1 THEN 0 ELSE data[j]
    BY <1>3, <2>1, <2>2 DEF Present
  <2>5. 0 \in Byte /\ \A j \in 1..L : data[j] \in Byte
    BY <1>1, XorLaws, VectorsMade
  <2> HIDE DEF present
  <2>6. \A j \in 1..L : present[j] \in Byte
    BY <2>4, <2>5
  <2> QED
    BY <2>3, <2>4, <2>6 DEF Vectors
<1> HIDE DEF present, x, rhs
<1>11. /\ Matrix(m, n) /\ Regular(m, n)
       /\ \A r, e \in 1..n : m[r][e] = Coefficient(parity[r].row, erased[e])
       /\ \A r \in 1..n : m[r][n + 1] = rhs[r]
  <2> HIDE DEF m
  <2>1. Stands(m, erased, parity, rhs, n)
    BY <1>5, <1>6, SystemRegular DEF m
  <2> QED
    BY <2>1 DEF Stands
<1> HIDE DEF m
<1>12. ASSUME NEW r \in 1..n
       PROVE  Total(Products(m[r], x, n)) = m[r][n + 1]
  <2> DEFINE c(k) == Coefficient(rows[r], k - 1)
             u == [k \in 1..L |-> GfMul(c(k), data[k])]
             w == [k \in 1..L |-> GfMul(c(k), present[k])]
             v == Added(u, w, L)
             idx == [e \in 1..n |-> erased[e] + 1]
  <2>1. rows[r] \in 0..127
    OBVIOUS
  <2>2. u \in Vectors(L) /\ Parity(data, rows[r]) = Total(u) /\ \A k \in 1..L : c(k) \in Byte
    BY <1>1, <2>1, ParityTerms
  <2>3. w \in Vectors(L) /\ Parity(present, rows[r]) = Total(w)
    BY <1>1, <1>10, <2>1, ParityTerms
  <2>4. m[r][n + 1] = Xor(Total(u), Total(w))
    <3>1. rhs[r] = Xor(parity[r].content, Parity(present, parity[r].row))
      BY DEF rhs
    <3> HIDE DEF u, w
    <3> QED
      BY <1>4, <1>11, <2>2, <2>3, <3>1
  <2>5. \A k \in 1..L : u[k] = GfMul(c(k), data[k]) /\ w[k] = GfMul(c(k), present[k])
    OBVIOUS
  <2> HIDE DEF c, u, w
  <2>6. L \in Nat
    BY <1>1
  <2>7. v \in Vectors(L) /\ Total(v) = m[r][n + 1] /\ \A k \in 1..L : v[k] = Xor(u[k], w[k])
    BY <2>2, <2>3, <2>4, <2>6, TotalAdds, VectorsMade
  <2> HIDE DEF v
  <2>8. ASSUME NEW k \in 1..L
        PROVE  v[k] = IF \E e \in 1..n : erased[e] = k - 1 THEN GfMul(c(k), data[k]) ELSE 0
    <3>1. u[k] \in Byte
      BY <2>2, <2>6, VectorsMade
    <3>2. CASE \E e \in 1..n : erased[e] = k - 1
      <4>1. w[k] = GfMul(c(k), 0)
        BY <1>10, <2>5, <3>2
      <4>2. w[k] = 0
        BY <4>1 DEF GfMul
      <4> QED
        BY <2>5, <2>7, <3>1, <3>2, <4>2, XorLaws
    <3>3. CASE ~\E e \in 1..n : erased[e] = k - 1
      <4>1. w[k] = u[k]
        BY <1>10, <2>5, <3>3
      <4> QED
        BY <2>7, <3>1, <3>3, <4>1, XorLaws
    <3> QED
      BY <3>2, <3>3
  <2>9. idx \in [1..n -> 1..L] /\ \A e \in 1..n : idx[e] = erased[e] + 1
    BY <1>2
  <2> HIDE DEF idx
  <2>10. \A d, e \in 1..n : d # e => idx[d] # idx[e]
    <3> SUFFICES ASSUME NEW d \in 1..n, NEW e \in 1..n, d # e
                 PROVE  idx[d] # idx[e]
      OBVIOUS
    <3>1. erased[d] # erased[e] /\ erased[d] \in 0..L - 1 /\ erased[e] \in 0..L - 1
      BY <1>2
    <3> QED
      BY <2>6, <2>9, <3>1
  <2>11. \A k \in 1..L : (\A e \in 1..n : idx[e] # k) => v[k] = 0
    <3> SUFFICES ASSUME NEW k \in 1..L, \A e \in 1..n : idx[e] # k
                 PROVE  v[k] = 0
      OBVIOUS
    <3>1. \A e \in 1..n : erased[e] # k - 1
      <4> TAKE e \in 1..n
      <4>1. idx[e] # k /\ idx[e] = erased[e] + 1 /\ erased[e] \in 0..L - 1
        BY <1>2, <2>9
      <4> QED
        BY <2>6, <4>1
    <3> QED
      BY <2>8, <3>1
  <2>12. Total(v) = Total([e \in 1..n |-> v[idx[e]]])
    BY <2>6, <2>7, <2>9, <2>10, <2>11, TotalPlaces
  <2>13. ASSUME NEW e \in 1..n
         PROVE  v[idx[e]] = GfMul(m[r][e], x[e])
    <3> DEFINE k == idx[e]
    <3>1. k \in 1..L /\ k - 1 = erased[e] /\ k = erased[e] + 1
      BY <1>2, <2>6, <2>9
    <3> HIDE DEF k
    <3>2. v[k] = GfMul(c(k), data[k])
      BY <2>8, <3>1
    <3>3. c(k) = m[r][e]
      BY <1>4, <1>11, <3>1 DEF c
    <3>4. x[e] = data[k]
      BY <1>9, <3>1
    <3> QED
      BY <3>2, <3>3, <3>4 DEF k
  <2>14. [e \in 1..n |-> v[idx[e]]] = Products(m[r], x, n)
    BY <2>13 DEF Products
  <2> QED
    BY <2>7, <2>12, <2>14
<1>13. Solve(m) = x
  BY <1>9, <1>11, <1>12, SolveRegular DEF Solves
<1> QED
  BY <1>8, <1>13 DEF parity, x

-----------------------------------------------------------------------------
(* What the receiver recovers. *)

\* t holds the N elements of q up to m that are wanted, in their order: the places g.
Picks(q, wanted, m, t, N, g) ==
  /\ Len(t) = N
  /\ \A j \in 1..N : g[j] \in 1..m /\ wanted[g[j]] /\ t[j] = q[g[j]]
  /\ \A i, j \in 1..N : i # j => g[i] # g[j]
  /\ \A k \in 1..m : wanted[k] => \E j \in 1..N : g[j] = k

LEMMA PickedOneMore ==
  ASSUME NEW T, NEW n \in Nat, NEW q \in [1..n -> T], NEW wanted, NEW m \in 1..n, NEW t \in Seq(T),
         NEW N \in 0..m - 1, NEW g \in [1..N -> 1..n], Picks(q, wanted, m - 1, t, N, g)
  PROVE  \E M \in 0..m : \E h \in [1..M -> 1..n] :
           Picks(q, wanted, m, IF wanted[m] THEN Append(t, q[m]) ELSE t, M, h)
<1>1. CASE ~wanted[m]
  <2>1. Picks(q, wanted, m, t, N, g)
    BY <1>1 DEF Picks
  <2>2. N \in 0..m
    OBVIOUS
  <2> QED
    BY <1>1, <2>1, <2>2
<1>2. CASE wanted[m]
  <2> DEFINE M == N + 1
             h == [j \in 1..M |-> IF j = M THEN m ELSE g[j]]
             s == Append(t, q[m])
  <2>1. M \in 0..m /\ h \in [1..M -> 1..n] /\ h[M] = m
    OBVIOUS
  <2>2. \A j \in 1..N : h[j] = g[j] /\ g[j] \in 1..m - 1
    BY DEF Picks
  <2>3. s \in Seq(T) /\ Len(s) = M /\ s[M] = q[m] /\ \A j \in 1..N : s[j] = t[j]
    <3>1. Len(t) = N /\ q[m] \in T
      BY DEF Picks
    <3> QED
      BY <3>1
  <2> HIDE DEF h, s
  <2>4. \A j \in 1..M : h[j] \in 1..m /\ wanted[h[j]] /\ s[j] = q[h[j]]
    <3> TAKE j \in 1..M
    <3>1. CASE j = M
      BY <1>2, <2>1, <2>3, <3>1
    <3>2. CASE j \in 1..N
      <4>1. g[j] \in 1..m - 1 /\ wanted[g[j]] /\ t[j] = q[g[j]]
        BY <3>2 DEF Picks
      <4>2. g[j] \in 1..m /\ h[j] = g[j] /\ s[j] = t[j]
        BY <2>2, <2>3, <3>2, <4>1
      <4> QED
        BY <4>1, <4>2
    <3> QED
      BY <3>1, <3>2
  <2>5. \A i, j \in 1..M : i # j => h[i] # h[j]
    <3> TAKE i, j \in 1..M
    <3>1. CASE i \in 1..N /\ j \in 1..N
      BY <2>2, <3>1 DEF Picks
    <3>2. CASE i = M /\ j \in 1..N
      BY <2>1, <2>2, <3>2
    <3>3. CASE j = M /\ i \in 1..N
      BY <2>1, <2>2, <3>3
    <3> QED
      BY <3>1, <3>2, <3>3
  <2>6. \A k \in 1..m : wanted[k] => \E j \in 1..M : h[j] = k
    <3> SUFFICES ASSUME NEW k \in 1..m, wanted[k] PROVE \E j \in 1..M : h[j] = k
      OBVIOUS
    <3>1. CASE k = m
      <4>1. M \in 1..M
        OBVIOUS
      <4> QED
        BY <2>1, <3>1, <4>1
    <3>2. CASE k \in 1..m - 1
      <4>1. PICK j \in 1..N : g[j] = k
        BY <3>2 DEF Picks
      <4>2. j \in 1..M
        OBVIOUS
      <4> QED
        BY <2>2, <4>1, <4>2
    <3> QED
      BY <3>1, <3>2
  <2>7. Picks(q, wanted, m, s, M, h)
    BY <2>3, <2>4, <2>5, <2>6 DEF Picks
  <2> QED
    BY <1>2, <2>1, <2>7 DEF s
<1> QED
  BY <1>1, <1>2

LEMMA ThoseAre ==
  ASSUME NEW T, NEW n \in Nat, NEW q \in [1..n -> T], NEW wanted
  PROVE  /\ Those(q, wanted) \in Seq(T)
         /\ \E N \in 0..n : \E g \in [1..N -> 1..n] : Picks(q, wanted, n, Those(q, wanted), N, g)
<1> DEFINE S == Seq(T)
           more(t, k) == IF wanted[k] THEN Append(t, q[k]) ELSE t
           F == [k \in 1..n |-> [t \in S |-> more(t, k)]]
           Grows(u) == u = [k \in 0..n |-> IF k = 0 THEN <<>> ELSE more(u[k - 1], k)]
<1>1. Len(q) = n
  OBVIOUS
<1>2. <<>> \in S
  OBVIOUS
<1>3. \A k \in 1..n : \A t \in S : more(t, k) \in S
  <2> TAKE k \in 1..n
  <2>1. q[k] \in T
    OBVIOUS
  <2> TAKE t \in S
  <2> QED
    BY <2>1
<1>4. Those(q, wanted) = (CHOOSE u : Grows(u))[n]
  BY <1>1 DEF Those
<1> HIDE DEF more
<1>5. F \in [1..n -> [S -> S]]
  BY <1>3
<1>6. PICK f \in [0..n -> S] : Runs(n, F, <<>>, f)
  <2> HIDE DEF F, S
  <2> QED
    BY <1>2, <1>5, Iteration
<1>7. Grows(f)
  <2>1. ASSUME NEW k \in 0..n
        PROVE  f[k] = IF k = 0 THEN <<>> ELSE more(f[k - 1], k)
    <3>1. CASE k = 0
      BY <1>6, <3>1 DEF Runs
    <3>2. CASE k # 0
      <4>1. k \in 1..n /\ k - 1 \in 0..n
        BY <3>2
      <4>2. f[k - 1] \in S /\ f[k] = F[k][f[k - 1]]
        BY <1>6, <4>1 DEF Runs
      <4> QED
        BY <3>2, <4>1, <4>2
    <3> QED
      BY <3>1, <3>2
  <2>2. f = [k \in 0..n |-> f[k]]
    BY <1>6
  <2> QED
    BY <2>1, <2>2
<1> DEFINE g == CHOOSE u : Grows(u)
<1>8. Grows(g)
  <2> HIDE DEF Grows
  <2> QED
    BY <1>7
<1>9. Those(q, wanted) = g[n]
  BY <1>4
<1> HIDE DEF g
<1>10. g[0] = <<>> /\ \A k \in 1..n : g[k] = more(g[k - 1], k)
  BY <1>8
<1> DEFINE Good == {k \in 0..n : /\ g[k] \in S
                                 /\ \E N \in 0..k : \E h \in [1..N -> 1..n] : Picks(q, wanted, k, g[k], N, h)}
<1>11. 0 \in Good
  <2> DEFINE h == [j \in 1..0 |-> 1]
  <2>1. h \in [1..0 -> 1..n]
    OBVIOUS
  <2>2. Picks(q, wanted, 0, <<>>, 0, h)
    BY DEF Picks
  <2> HIDE DEF h, S
  <2>3. 0 \in 0..0 /\ 0 \in 0..n /\ g[0] \in S /\ Picks(q, wanted, 0, g[0], 0, h)
    BY <1>2, <1>10, <2>2
  <2>4. \E N \in 0..0 : \E f2 \in [1..N -> 1..n] : Picks(q, wanted, 0, g[0], N, f2)
    BY <2>1, <2>3, Zenon
  <2> QED
    BY <2>3, <2>4
<1>12. ASSUME NEW k \in 1..n, k - 1 \in Good
       PROVE  k \in Good
  <2>1. g[k - 1] \in S
    BY <1>12
  <2>2. PICK N \in 0..k - 1 : \E h \in [1..N -> 1..n] : Picks(q, wanted, k - 1, g[k - 1], N, h)
    BY <1>12
  <2>3. PICK h \in [1..N -> 1..n] : Picks(q, wanted, k - 1, g[k - 1], N, h)
    BY <2>2
  <2>4. g[k] = IF wanted[k] THEN Append(g[k - 1], q[k]) ELSE g[k - 1]
    BY <1>10 DEF more
  <2>5. g[k] \in S
    BY <1>3, <1>10, <2>1
  <2>6. \E M \in 0..k : \E f2 \in [1..M -> 1..n] : Picks(q, wanted, k, g[k], M, f2)
    <3> DEFINE v == g[k - 1]
    <3> HIDE DEF v
    <3>1. v \in Seq(T) /\ Picks(q, wanted, k - 1, v, N, h)
      BY <2>1, <2>3 DEF v
    <3>2. \E M \in 0..k : \E f2 \in [1..M -> 1..n] :
            Picks(q, wanted, k, IF wanted[k] THEN Append(v, q[k]) ELSE v, M, f2)
      BY <3>1, PickedOneMore
    <3> QED
      BY <2>4, <3>2 DEF v
  <2>7. k \in 0..n
    OBVIOUS
  <2> HIDE DEF S
  <2> QED
    BY <2>5, <2>6, <2>7, Zenon
<1>13. n \in Good
  <2> HIDE DEF Good
  <2>1. 0..n \subseteq Good
    BY <1>11, <1>12, UpTo
  <2> QED
    BY <2>1
<1> QED
  BY <1>9, <1>13

-----------------------------------------------------------------------------
(* The stripes of a slice. *)

LEMMA Quotient ==
  ASSUME NEW N \in Nat \ {0}, NEW d \in Nat, NEW r \in 0..N - 1, NEW a, a = N * d + r
  PROVE  a \in Nat /\ a \div N = d /\ a % N = r
<1>1. N * d \in Nat
  OBVIOUS
<1>2. a \in Nat
  BY <1>1
<1>3. a = N * (a \div N) + (a % N) /\ a \div N \in Nat /\ a % N \in 0..N - 1
  BY <1>2, DivMod
<1> DEFINE e == a \div N - d
<1>4. e \in Int /\ N * e = N * (a \div N) - N * d
  BY <1>3
<1>5. N * e = r - (a % N)
  BY <1>1, <1>3, <1>4
<1> HIDE DEF e
<1>6. N * e < N /\ N * (0 - e) < N /\ 0 - e \in Int
  BY <1>3, <1>4, <1>5
<1>7. e = 0
  BY <1>4, <1>6, Multiple
<1> QED
  BY <1>2, <1>3, <1>5, <1>7 DEF e

\* The blocks of a slice of of blocks that belong to stripe t of S: n of them.
Stripes(of, S, t, n, blocks) ==
  /\ n = Len(blocks)
  /\ \A j \in 1..n : blocks[j] \in 0..of - 1 /\ blocks[j] % S = t /\ blocks[j] \div S = j - 1
  /\ \A b \in 0..of - 1 : b % S = t => b \div S + 1 \in 1..n /\ blocks[b \div S + 1] = b

LEMMA StripeIs ==
  ASSUME NEW sl, NEW S \in Nat \ {0}, NEW of \in Nat \ {0}, sl.of = of, sl.stripes = S, NEW t \in 0..S - 1,
         of <= 128 * S
  PROVE  \E n \in 0..128 : StripeBlocks(sl, t) = [j \in 1..n |-> StripeBlocks(sl, t)[j]]
                           /\ Stripes(of, S, t, n, StripeBlocks(sl, t))
<1> DEFINE x == of - t + S - 1
           n == x \div S
           blocks == [j \in 1..n |-> t + (j - 1) * S]
<1>1. x \in Nat /\ x <= of + S - 1 /\ t + x = of + S - 1
  OBVIOUS
<1> HIDE DEF x
<1>2. x = S * n + (x % S) /\ n \in Nat /\ x % S \in 0..S - 1
  BY <1>1, DivMod
<1>3. StripeBlocks(sl, t) = blocks
  BY DEF StripeBlocks, x
<1> DEFINE r == x % S
<1> HIDE DEF n, r
<1>4. S * n <= x /\ x < S * n + S /\ S * n \in Nat
  BY <1>2 DEF r
<1>5. n <= 128
  <2> DEFINE d == n - 129
  <2>1. S * d = S * n - S * 129
    BY <1>2
  <2>2. S * d < 0 /\ d \in Int
    BY <1>1, <1>2, <1>4, <2>1
  <2> HIDE DEF d
  <2>3. d <= 0 - 1
    BY <2>2, Multiple
  <2> QED
    BY <1>2, <2>3 DEF d
<1>6. ASSUME NEW j \in 1..n
      PROVE  blocks[j] \in 0..of - 1 /\ blocks[j] % S = t /\ blocks[j] \div S = j - 1
  <2> DEFINE b == t + (j - 1) * S
             d == n - j
  <2>1. j - 1 \in Nat /\ d \in Nat
    BY <1>2
  <2>2. b = S * (j - 1) + t
    BY <2>1
  <2>3. b \in Nat /\ b \div S = j - 1 /\ b % S = t
    <3> DEFINE k == j - 1
    <3> HIDE DEF k, b
    <3>1. k \in Nat /\ b = S * k + t
      BY <2>1, <2>2 DEF k
    <3>2. b \in Nat /\ b \div S = k /\ b % S = t
      BY <3>1, Quotient, ZenonT(30)
    <3> QED
      BY <3>2 DEF k
  <2>4. S * (j - 1) = S * n - S * d - S
    BY <1>2, <2>1
  <2>5. S * d \in Nat
    BY <2>1
  <2> HIDE DEF d
  <2>6. b <= of - 1
    BY <1>1, <1>4, <2>1, <2>2, <2>4, <2>5
  <2> HIDE DEF b
  <2>7. blocks[j] = b
    BY DEF b
  <2> QED
    BY <2>3, <2>6, <2>7
<1>7. ASSUME NEW b \in 0..of - 1, b % S = t
      PROVE  b \div S + 1 \in 1..n /\ blocks[b \div S + 1] = b
  <2> DEFINE q == b \div S
             d == n - q
  <2>1. b = S * q + t /\ q \in Nat
    <3>1. b \in Nat
      OBVIOUS
    <3>2. b = S * (b \div S) + (b % S) /\ b \div S \in Nat
      BY <3>1, DivMod
    <3> HIDE DEF q
    <3>3. b = S * q + (b % S) /\ q \in Nat
      BY <3>2 DEF q
    <3> QED
      BY <1>7, <3>3
  <2> HIDE DEF q
  <2>2. S * d = S * n - S * q /\ d \in Int
    BY <1>2, <2>1
  <2>3. S * d > 0
    BY <1>1, <1>4, <2>1, <2>2
  <2> HIDE DEF d
  <2>4. d >= 1
    BY <2>2, <2>3, Multiple
  <2>5. q + 1 \in 1..n
    BY <1>2, <2>1, <2>4 DEF d
  <2>6. blocks[q + 1] = t + q * S
    BY <2>1, <2>5
  <2> QED
    BY <2>1, <2>5, <2>6 DEF q
<1>8. Len(blocks) = n
  BY <1>2
<1>9. blocks = [j \in 1..n |-> blocks[j]]
  OBVIOUS
<1> HIDE DEF blocks
<1>10. Stripes(of, S, t, n, blocks)
  BY <1>6, <1>7, <1>8 DEF Stripes
<1>11. n \in 0..128
  BY <1>2, <1>5
<1> QED
  BY <1>3, <1>9, <1>10, <1>11

\* -F promises no more parity rows and no longer stripes than the matrix has
\* (senddata.rs 456-461, fec.rs 230-231).
Encodable == FecRedundancy <= 128 /\ MaxSlice <= 128 * FecStripes

\* A slot with parity blocks: what was noted of its slice can be so.
Collects(sl) ==
  /\ sl.of \in 1..MaxSlice /\ sl.stripes = FecStripes
  /\ sl.have \subseteq 0..sl.of - 1
  /\ Len(sl.fec) \in Nat /\ sl.fec = [k \in 1..Len(sl.fec) |-> sl.fec[k]]
  /\ \A k \in 1..Len(sl.fec) : sl.fec[k].block \in 0..FecStripes * FecRedundancy - 1
  /\ \A j, k \in 1..Len(sl.fec) : sl.fec[j].block = sl.fec[k].block => j = k

\* Lost e is the block in the e-th empty place of stripe t.
Lost(sl, t, e) == StripeBlocks(sl, t)[Erased(sl, t)[e] + 1]

Lacks(sl, t, N) ==
  /\ Len(Erased(sl, t)) = N /\ Holes(Erased(sl, t), N)
  /\ \A e \in 1..N : Lost(sl, t, e) \in 0..sl.of - 1 /\ Lost(sl, t, e) \notin sl.have /\ Lost(sl, t, e) % FecStripes = t
  /\ \A b \in (0..sl.of - 1) \ sl.have : b % FecStripes = t => \E e \in 1..N : Lost(sl, t, e) = b

LEMMA ErasedAre ==
  ASSUME Encodable, NEW sl, Collects(sl), NEW t \in 0..FecStripes - 1
  PROVE  \E N \in Nat : Lacks(sl, t, N)
<1> DEFINE S == FecStripes
           of == sl.of
           blocks == StripeBlocks(sl, t)
           er == Erased(sl, t)
<1>1. S \in Nat \ {0} /\ of \in Nat \ {0} /\ sl.stripes = S /\ of <= 128 * S
  BY SizesAssumption DEF Collects, Encodable
<1> HIDE DEF S, of
<1>2. PICK n \in 0..128 : blocks = [j \in 1..n |-> blocks[j]] /\ Stripes(of, S, t, n, blocks)
  <2>1. sl.of = of /\ t \in 0..S - 1
    BY DEF of, S
  <2> QED
    BY <1>1, <2>1, StripeIs
<1> DEFINE q == [j \in 1..n |-> j - 1]
           wanted == [j \in 1..n |-> blocks[j] \notin sl.have]
<1>3. er = Those(q, wanted)
  BY <1>2 DEF Erased, Stripes
<1>4. q \in [1..n -> 0..127] /\ \A j \in 1..n : q[j] = j - 1
  OBVIOUS
<1>5. \A j \in 1..n : wanted[j] <=> blocks[j] \notin sl.have
  OBVIOUS
<1> HIDE DEF blocks, er, q, wanted
<1>6. n \in Nat
  OBVIOUS
<1>7. er \in Seq(0..127) /\ \E N \in 0..n : \E g \in [1..N -> 1..n] : Picks(q, wanted, n, er, N, g)
  BY <1>3, <1>4, <1>6, ThoseAre
<1>8. PICK N \in 0..n : \E g \in [1..N -> 1..n] : Picks(q, wanted, n, er, N, g)
  BY <1>7
<1>9. PICK g \in [1..N -> 1..n] : Picks(q, wanted, n, er, N, g)
  BY <1>8
<1>10. /\ Len(er) = N
       /\ \A e \in 1..N : g[e] \in 1..n /\ wanted[g[e]] /\ er[e] = q[g[e]]
       /\ \A d, e \in 1..N : d # e => g[d] # g[e]
       /\ \A j \in 1..n : wanted[j] => \E e \in 1..N : g[e] = j
  BY <1>9 DEF Picks
<1>11. ASSUME NEW e \in 1..N
       PROVE  er[e] \in 0..127 /\ er[e] + 1 = g[e] /\ g[e] \in 1..n
  <2> DEFINE j == g[e]
  <2>1. j \in 1..n /\ er[e] = q[j]
    BY <1>10
  <2> HIDE DEF j
  <2> DEFINE v == er[e]
  <2>2. v = j - 1
    BY <1>4, <2>1
  <2> HIDE DEF v
  <2>3. v \in 0..127 /\ v + 1 = j
    BY <2>1, <2>2
  <2> QED
    BY <2>1, <2>3 DEF j, v
<1>12. Holes(er, N)
  <2>1. er \in [1..N -> 0..127]
    BY <1>7, <1>10, <1>11
  <2>2. ASSUME NEW d \in 1..N, NEW e \in 1..N, d # e
        PROVE  er[d] # er[e]
    BY <1>10, <1>11, <2>2
  <2> QED
    BY <2>1, <2>2 DEF Holes
<1>13. \A j \in 1..n : blocks[j] \in 0..of - 1 /\ blocks[j] % S = t
  BY <1>2 DEF Stripes
<1>14. ASSUME NEW e \in 1..N
       PROVE  blocks[er[e] + 1] \in 0..of - 1 /\ blocks[er[e] + 1] \notin sl.have /\ blocks[er[e] + 1] % S = t
  <2> DEFINE j == g[e]
             v == er[e] + 1
  <2>1. v = j /\ j \in 1..n /\ wanted[j]
    BY <1>10, <1>11
  <2> HIDE DEF j, v
  <2>2. blocks[v] \in 0..of - 1 /\ blocks[v] \notin sl.have /\ blocks[v] % S = t
    BY <1>5, <1>13, <2>1
  <2> QED
    BY <2>2 DEF v
<1>15. ASSUME NEW b \in (0..of - 1) \ sl.have, b % S = t
       PROVE  \E e \in 1..N : blocks[er[e] + 1] = b
  <2> DEFINE j == b \div S + 1
  <2>1. j \in 1..n /\ blocks[j] = b
    BY <1>2, <1>15 DEF Stripes
  <2> HIDE DEF j
  <2>2. PICK e \in 1..N : g[e] = j
    BY <1>5, <1>10, <2>1
  <2> QED
    BY <1>11, <2>1, <2>2
<1>16. Lacks(sl, t, N)
  BY <1>10, <1>12, <1>14, <1>15 DEF Lacks, Lost, blocks, er, of, S
<1> QED
  BY <1>16

\* M of the parity blocks that came are stripe t's.
HasParity(sl, t, M) ==
  /\ Len(ParityOf(sl, t)) = M /\ Rows(ParityOf(sl, t), M)
  /\ \E g \in [1..M -> 1..Len(sl.fec)] :
       /\ \A k \in 1..M : sl.fec[g[k]].block % FecStripes = t
       /\ \A j, k \in 1..M : j # k => g[j] # g[k]

LEMMA ParityRow ==
  ASSUME NEW S \in Nat \ {0}, NEW R \in Nat, NEW b \in 0..S * R - 1
  PROVE  b \div S \in 0..R - 1 /\ b = S * (b \div S) + (b % S)
<1> DEFINE q == b \div S
           d == R - q
<1>1. S * R \in Nat
  OBVIOUS
<1>2. b \in Nat /\ b <= S * R - 1
  BY <1>1
<1>3. b = S * q + (b % S) /\ q \in Nat /\ b % S \in 0..S - 1
  BY <1>2, DivMod
<1> HIDE DEF q
<1>4. S * d = S * R - S * q /\ d \in Int
  BY <1>3
<1>5. S * d > 0
  BY <1>1, <1>2, <1>3, <1>4
<1> HIDE DEF d
<1>6. d >= 1
  BY <1>4, <1>5, Multiple
<1>7. q \in 0..R - 1
  BY <1>3, <1>6 DEF d
<1> QED
  BY <1>3, <1>7 DEF q

LEMMA ParityAre ==
  ASSUME Encodable, NEW sl, Collects(sl), NEW t \in 0..FecStripes - 1
  PROVE  \E M \in Nat : HasParity(sl, t, M)
<1> DEFINE S == FecStripes
           fec == sl.fec
           n == Len(sl.fec)
           T == {fec[k] : k \in 1..n}
           wanted == [k \in 1..n |-> fec[k].block % S = t]
           mine == Those(fec, wanted)
           p == ParityOf(sl, t)
<1>1. S \in Nat \ {0} /\ FecRedundancy \in Nat /\ FecRedundancy <= 128 /\ sl.stripes = S /\ n \in Nat
  BY SizesAssumption DEF Collects, Encodable
<1>2. /\ fec = [k \in 1..n |-> fec[k]]
      /\ \A k \in 1..n : fec[k].block \in 0..S * FecRedundancy - 1
      /\ \A j, k \in 1..n : fec[j].block = fec[k].block => j = k
  BY DEF Collects
<1>3. p = [k \in 1..Len(mine) |-> [row |-> mine[k].block \div S, content |-> mine[k].content]]
  BY <1>1 DEF ParityOf
<1>4. \A k \in 1..n : wanted[k] <=> fec[k].block % S = t
  OBVIOUS
<1> HIDE DEF S, fec, n, wanted, mine, p
<1>5. fec \in [1..n -> T]
  BY <1>2
<1>6. mine \in Seq(T) /\ \E M \in 0..n : \E g \in [1..M -> 1..n] : Picks(fec, wanted, n, mine, M, g)
  <2> HIDE DEF T
  <2> QED
    BY <1>1, <1>5, ThoseAre DEF mine
<1>7. PICK M \in 0..n : \E g \in [1..M -> 1..n] : Picks(fec, wanted, n, mine, M, g)
  BY <1>6
<1>8. PICK g \in [1..M -> 1..n] : Picks(fec, wanted, n, mine, M, g)
  BY <1>7
<1>9. /\ Len(mine) = M
      /\ \A k \in 1..M : g[k] \in 1..n /\ wanted[g[k]] /\ mine[k] = fec[g[k]]
      /\ \A j, k \in 1..M : j # k => g[j] # g[k]
  BY <1>8 DEF Picks
<1>10. M \in Nat
  BY <1>1
<1>11. p = [k \in 1..M |-> p[k]] /\ \A k \in 1..M : p[k].row = fec[g[k]].block \div S
  BY <1>3, <1>9
<1>12. Len(p) = M
  BY <1>10, <1>11, Length
<1>13. ASSUME NEW k \in 1..M
       PROVE  /\ p[k].row \in 0..127
              /\ fec[g[k]].block = S * p[k].row + t /\ fec[g[k]].block % S = t
  <2> DEFINE b == fec[g[k]].block
  <2>1. g[k] \in 1..n /\ wanted[g[k]]
    BY <1>9
  <2>2. b \in 0..S * FecRedundancy - 1 /\ b % S = t
    BY <1>2, <1>4, <2>1
  <2> HIDE DEF b
  <2>3. b \div S \in 0..FecRedundancy - 1 /\ b = S * (b \div S) + t
    BY <1>1, <2>2, ParityRow
  <2> DEFINE q == b \div S
  <2> HIDE DEF q
  <2>4. q \in 0..127
    <3>1. q \in 0..FecRedundancy - 1
      BY <2>3 DEF q
    <3> QED
      BY <1>1, <3>1
  <2>5. p[k].row = q
    BY <1>11 DEF b, q
  <2> QED
    BY <2>2, <2>3, <2>4, <2>5 DEF b, q
<1>14. ASSUME NEW j \in 1..M, NEW k \in 1..M, j # k
       PROVE  p[j].row # p[k].row
  <2>1. fec[g[j]].block = S * p[j].row + t /\ fec[g[k]].block = S * p[k].row + t
    BY <1>13
  <2>2. g[j] \in 1..n /\ g[k] \in 1..n /\ g[j] # g[k]
    BY <1>9, <1>14
  <2>3. fec[g[j]].block # fec[g[k]].block
    BY <1>2, <2>2
  <2> QED
    BY <2>1, <2>3
<1>15. Rows(p, M)
  BY <1>11, <1>13, <1>14 DEF Rows
<1>16. HasParity(sl, t, M)
  BY <1>9, <1>12, <1>13, <1>15 DEF HasParity, p, fec, n, S
<1> QED
  BY <1>10, <1>16

-----------------------------------------------------------------------------
(* try_fec_recover *)

Shaped(R) ==
  /\ DOMAIN R = DOMAIN NewReceiver("run")
  /\ DOMAIN R.slots = 1..RecvSlots
  /\ \A i \in 1..RecvSlots : DOMAIN R.slots[i] = DOMAIN FreeSlot

LEMMA Fields ==
  /\ DOMAIN FreeSlot = {"state", "no", "base", "of", "have", "fec", "stripes"}
  /\ DOMAIN NewReceiver("run") =
       {"phase", "slots", "completed", "late", "started", "ring", "produced", "out", "dataEnd"}
BY DEF FreeSlot, NewReceiver

\* Q is R with more blocks in slot i.
Filled(R, i, Q) ==
  /\ Shaped(Q) /\ Q.late = R.late
  /\ \A j \in 1..RecvSlots : j # i => Q.slots[j] = R.slots[j]
  /\ Q.slots[i].state = R.slots[i].state /\ Q.slots[i].no = R.slots[i].no /\ Q.slots[i].of = R.slots[i].of
  /\ Q.slots[i].fec = R.slots[i].fec /\ Q.slots[i].stripes = R.slots[i].stripes
  /\ R.slots[i].have \subseteq Q.slots[i].have

LEMMA FillIs ==
  ASSUME NEW R, Shaped(R), NEW i \in 1..RecvSlots, NEW blocks, NEW erased, NEW found
  PROVE  /\ Filled(R, i, Fill(R, i, blocks, erased, found))
         /\ Fill(R, i, blocks, erased, found).slots[i].have
              = R.slots[i].have \cup {blocks[erased[e] + 1] : e \in 1..Len(found)}
<1> DEFINE cell(b) == (R.slots[i].base + b) % RecvRing
           lost    == {blocks[erased[e] + 1] : e \in 1..Len(found)}
           content(c, old) == IF \E b \in lost : c = cell(b)
                              THEN found[CHOOSE e \in 1..Len(found) : c = cell(blocks[erased[e] + 1])]
                              ELSE old
<1>1. Fill(R, i, blocks, erased, found)
        = [R EXCEPT !.slots[i].have = @ \cup lost, !.ring = [c \in DOMAIN @ |-> content(c, @[c])]]
  BY DEF Fill
<1> HIDE DEF content, lost
<1> DEFINE Q == [R EXCEPT !.slots[i].have = @ \cup lost, !.ring = [c \in DOMAIN @ |-> content(c, @[c])]]
<1>2. Shaped(Q) /\ Q.late = R.late
  BY Fields DEF Shaped
<1>3. \A j \in 1..RecvSlots : j # i => Q.slots[j] = R.slots[j]
  BY Fields DEF Shaped
<1>4. /\ Q.slots[i].state = R.slots[i].state /\ Q.slots[i].no = R.slots[i].no /\ Q.slots[i].of = R.slots[i].of
      /\ Q.slots[i].fec = R.slots[i].fec /\ Q.slots[i].stripes = R.slots[i].stripes
      /\ Q.slots[i].have = R.slots[i].have \cup lost
  BY Fields DEF Shaped
<1> HIDE DEF Q
<1>5. Filled(R, i, Q)
  BY <1>2, <1>3, <1>4 DEF Filled
<1> QED
  BY <1>1, <1>4, <1>5 DEF Q, lost

\* What a stripe that is not whole after its turn says.
Short(sl, t) ==
  (\E b \in (0..sl.of - 1) \ sl.have : b % FecStripes = t) => Len(ParityOf(sl, t)) < Len(Erased(sl, t))

\* Q is R after stripe t had its turn.
HadTurn(R, i, t, Q) ==
  /\ Filled(R, i, Q) /\ Collects(Q.slots[i]) /\ Short(Q.slots[i], t)
  /\ \A b \in Q.slots[i].have \ R.slots[i].have : b % FecStripes = t

LEMMA RecoverOne ==
  ASSUME Encodable, NEW R, Shaped(R), NEW i \in 1..RecvSlots, Collects(R.slots[i]), NEW t \in 0..FecStripes - 1
  PROVE  HadTurn(R, i, t, RecoverStripe(R, i, t))
<1> DEFINE sl == R.slots[i]
           Q == RecoverStripe(R, i, t)
           blocks == StripeBlocks(sl, t)
           er == Erased(sl, t)
           p == ParityOf(sl, t)
           vec == [j \in 1..Len(blocks) |-> R.ring[(R.slots[i].base + blocks[j]) % RecvRing]]
<1>1. PICK N \in Nat : Lacks(sl, t, N)
  BY ErasedAre
<1>2. PICK M \in Nat : HasParity(sl, t, M)
  BY ParityAre
<1>3. Q = IF er = <<>> \/ Len(p) < Len(er) THEN R
          ELSE Fill(R, i, blocks, er, FecDecode(vec, er, SubSeq(p, 1, Len(er))))
  BY DEF RecoverStripe, RecoverBlocks
<1> HIDE DEF vec
<1>4. /\ Len(er) = N /\ Holes(er, N)
      /\ \A e \in 1..N : /\ blocks[er[e] + 1] \in 0..sl.of - 1 /\ blocks[er[e] + 1] \notin sl.have
                         /\ blocks[er[e] + 1] % FecStripes = t
      /\ \A b \in (0..sl.of - 1) \ sl.have : b % FecStripes = t => \E e \in 1..N : blocks[er[e] + 1] = b
  BY <1>1 DEF Lacks, Lost
<1>5. Len(p) = M /\ Rows(p, M)
  BY <1>2 DEF HasParity
<1>6. CASE er = <<>> \/ Len(p) < Len(er)
  <2> HIDE DEF blocks, er, p
  <2>1. Q = R
    BY <1>3, <1>6
  <2>2. Filled(R, i, R)
    BY DEF Filled
  <2>3. Short(sl, t)
    <3> SUFFICES ASSUME NEW b \in (0..sl.of - 1) \ sl.have, b % FecStripes = t
                 PROVE  Len(p) < Len(er)
      BY DEF Short, p, er
    <3>1. PICK e \in 1..N : blocks[er[e] + 1] = b
      BY <1>4
    <3>2. N # 0
      BY <3>1
    <3>3. er # <<>>
      <4>1. Len(<<>>) = 0
        OBVIOUS
      <4> QED
        BY <1>4, <3>2, <4>1
    <3> QED
      BY <1>6, <3>3
  <2>4. HadTurn(R, i, t, R)
    BY <2>2, <2>3 DEF HadTurn
  <2> QED
    BY <2>1, <2>4
<1>7. CASE ~(er = <<>> \/ Len(p) < Len(er))
  <2> DEFINE found == FecDecode(vec, er, SubSeq(p, 1, N))
             used == SubSeq(p, 1, N)
             lost == {blocks[er[e] + 1] : e \in 1..N}
  <2>1. N <= M
    BY <1>4, <1>5, <1>7
  <2>2. Rows(used, N)
    <3> HIDE DEF p
    <3> DEFINE T == {p[k] : k \in 1..M}
    <3>1. p \in [1..M -> T]
      BY <1>5 DEF Rows
    <3> HIDE DEF T
    <3>2. p \in Seq(T) /\ Len(p) = M
      BY <3>1
    <3>3. Len(used) = N /\ used \in Seq(T) /\ \A k \in 1..N : used[k] = p[k] /\ k \in 1..M
      BY <2>1, <3>2
    <3> HIDE DEF used
    <3>4. used = [k \in 1..N |-> used[k]]
      BY <3>3
    <3>5. /\ \A k \in 1..M : p[k].row \in 0..127
          /\ \A j, k \in 1..M : j # k => p[j].row # p[k].row
      BY <1>5 DEF Rows
    <3>6. /\ \A k \in 1..N : used[k].row \in 0..127
          /\ \A j, k \in 1..N : j # k => used[j].row # used[k].row
      <4>1. \A k \in 1..N : used[k] = p[k] /\ k \in 1..M
        BY <3>3
      <4> QED
        BY <3>5, <4>1, Zenon
    <3> QED
      BY <3>4, <3>6 DEF Rows
  <2>3. Len(found) = N
    <3> HIDE DEF p, used, er
    <3>1. Len(FecDecode(vec, er, used)) = N
      BY <1>4, <2>2, DecodeAnswers
    <3> QED
      BY <3>1 DEF used
  <2> HIDE DEF found, used
  <2>4. Q = Fill(R, i, blocks, er, found)
    BY <1>3, <1>4, <1>7 DEF found
  <2> HIDE DEF Q, p
  <2>5. Filled(R, i, Q) /\ Q.slots[i].have = sl.have \cup lost
    <3> HIDE DEF blocks, er, lost
    <3>1. Q.slots[i].have = sl.have \cup {blocks[er[e] + 1] : e \in 1..Len(found)}
      BY <2>4, FillIs
    <3>2. Filled(R, i, Q)
      BY <2>4, FillIs
    <3> QED
      BY <2>3, <3>1, <3>2 DEF lost
  <2>6. lost \subseteq 0..sl.of - 1 /\ \A b \in lost : b % FecStripes = t
    <3> HIDE DEF blocks, er
    <3> QED
      BY <1>4
  <2>7. \A b \in (0..sl.of - 1) \ sl.have : b % FecStripes = t => b \in lost
    <3> HIDE DEF blocks, er
    <3> QED
      BY <1>4
  <2> HIDE DEF lost
  <2>8. Collects(Q.slots[i])
    BY <2>5, <2>6 DEF Collects, Filled
  <2>9. Short(Q.slots[i], t)
    BY <2>5, <2>7 DEF Short, Filled
  <2>10. HadTurn(R, i, t, Q)
    BY <2>5, <2>6, <2>8, <2>9 DEF HadTurn
  <2> QED
    BY <2>10 DEF Q
<1> QED
  BY <1>6, <1>7

\* The stripes one after the other.
Turns(R, i, n, g) == g = [s \in 0..n |-> IF s = 0 THEN R ELSE RecoverStripe(g[s - 1], i, s - 1)]

LEMMA TurnsExist ==
  ASSUME NEW n \in Nat, NEW R, NEW i
  PROVE  \E g : Turns(R, i, n, g)
<1> DEFINE Good == {k \in 0..n : \E g : Turns(R, i, k, g)}
<1>1. 0 \in Good
  <2> DEFINE g == [s \in 0..0 |-> R]
  <2>1. Turns(R, i, 0, g)
    BY DEF Turns
  <2> HIDE DEF g
  <2> QED
    BY <2>1
<1>2. ASSUME NEW k \in 1..n, k - 1 \in Good
      PROVE  k \in Good
  <2>1. PICK g : Turns(R, i, k - 1, g)
    BY <1>2
  <2> DEFINE E(a, s) == RecoverStripe(a, i, s)
             h == [s \in 0..k |-> IF s = k THEN E(g[k - 1], k - 1) ELSE g[s]]
  <2> HIDE DEF E
  <2>2. \A s \in 0..k - 1 : h[s] = g[s]
    OBVIOUS
  <2>3. \A s \in 0..k - 1 : g[s] = IF s = 0 THEN R ELSE E(g[s - 1], s - 1)
    BY <2>1 DEF Turns, E
  <2>4. ASSUME NEW s \in 0..k
        PROVE  h[s] = IF s = 0 THEN R ELSE E(h[s - 1], s - 1)
    <3>1. CASE s = k
      <4>1. h[k] = E(g[k - 1], k - 1) /\ h[k - 1] = g[k - 1]
        BY <2>2
      <4> HIDE DEF h
      <4> QED
        BY <3>1, <4>1
    <3>2. CASE s # k
      <4>1. h[s] = g[s] /\ (s # 0 => h[s - 1] = g[s - 1])
        BY <2>2, <3>2
      <4> HIDE DEF h
      <4> QED
        BY <2>3, <3>2, <4>1
    <3> QED
      BY <3>1, <3>2
  <2>5. h = [s \in 0..k |-> h[s]]
    OBVIOUS
  <2> HIDE DEF h
  <2>6. Turns(R, i, k, h)
    BY <2>4, <2>5 DEF Turns, E
  <2> QED
    BY <2>6
<1>3. 0..n \subseteq Good
  <2> HIDE DEF Good
  <2> QED
    BY <1>1, <1>2, UpTo
<1> QED
  BY <1>3

\* A stripe keeps its empty places while another has its turn.
LEMMA ErasedSame ==
  ASSUME Encodable, NEW sl, Collects(sl), NEW q, q.of = sl.of, q.stripes = sl.stripes,
         NEW t \in 0..FecStripes - 1, sl.have \subseteq q.have,
         \A b \in q.have \ sl.have : b % FecStripes # t
  PROVE  Erased(q, t) = Erased(sl, t)
<1> DEFINE blocks == StripeBlocks(sl, t)
<1>1. StripeBlocks(q, t) = blocks
  BY DEF StripeBlocks
<1>2. FecStripes \in Nat \ {0} /\ sl.of \in Nat \ {0} /\ sl.stripes = FecStripes /\ sl.of <= 128 * FecStripes
  BY SizesAssumption DEF Collects, Encodable
<1>3. PICK n \in 0..128 : Stripes(sl.of, FecStripes, t, n, blocks)
  BY <1>2, StripeIs
<1> HIDE DEF blocks
<1>4. \A j \in 1..Len(blocks) : blocks[j] \notin q.have <=> blocks[j] \notin sl.have
  BY <1>3 DEF Stripes
<1>5. [j \in 1..Len(blocks) |-> blocks[j] \notin q.have] = [j \in 1..Len(blocks) |-> blocks[j] \notin sl.have]
  BY <1>4
<1> QED
  BY <1>1, <1>5 DEF Erased, blocks

\* Q is R after all stripes had their turn.
HadTurns(R, i, n, Q) ==
  Filled(R, i, Q) /\ Collects(Q.slots[i]) /\ \A t \in 0..n - 1 : Short(Q.slots[i], t)

LEMMA Recovers ==
  ASSUME Encodable, NEW R, Shaped(R), NEW i \in 1..RecvSlots, Collects(R.slots[i])
  PROVE  HadTurns(R, i, FecStripes, Recover(R, i))
<1> DEFINE n == FecStripes
           g == CHOOSE h : Turns(R, i, n, h)
<1>1. n \in Nat /\ R.slots[i].stripes = n
  BY SizesAssumption DEF Collects
<1>2. Turns(R, i, n, g)
  BY <1>1, TurnsExist
<1>3. Recover(R, i) = g[n]
  BY <1>1 DEF Recover, Turns
<1> HIDE DEF g
<1>4. g[0] = R /\ \A s \in 1..n : g[s] = RecoverStripe(g[s - 1], i, s - 1)
  BY <1>1, <1>2 DEF Turns
<1> DEFINE Good == {s \in 0..n : HadTurns(R, i, s, g[s])}
<1>5. 0 \in Good
  <2>1. HadTurns(R, i, 0, R)
    BY DEF HadTurns, Filled
  <2> QED
    BY <1>1, <1>4, <2>1
<1>6. ASSUME NEW s \in 1..n, s - 1 \in Good
      PROVE  s \in Good
  <2> DEFINE P == g[s - 1]
             Q == g[s]
             sl == P.slots[i]
             q == Q.slots[i]
  <2>1. Filled(R, i, P) /\ Collects(sl) /\ \A t \in 0..s - 1 - 1 : Short(sl, t)
    BY <1>6 DEF HadTurns
  <2>2. s - 1 \in 0..FecStripes - 1 /\ Shaped(P)
    BY <1>1, <2>1 DEF Filled
  <2>3. HadTurn(P, i, s - 1, Q)
    <3>1. Q = RecoverStripe(P, i, s - 1)
      BY <1>4
    <3> HIDE DEF P, Q
    <3> QED
      BY <2>1, <2>2, <3>1, RecoverOne
  <2> HIDE DEF P, Q
  <2>4. /\ Filled(P, i, Q) /\ Collects(q) /\ Short(q, s - 1)
        /\ \A b \in q.have \ sl.have : b % FecStripes = s - 1
    BY <2>3 DEF HadTurn
  <2>5. Filled(R, i, Q)
    BY <2>1, <2>4 DEF Filled
  <2>6. ASSUME NEW t \in 0..s - 1
        PROVE  Short(q, t)
    <3>1. CASE t = s - 1
      BY <2>4, <3>1
    <3>2. CASE t # s - 1
      <4>1. t \in 0..s - 1 - 1 /\ t \in 0..FecStripes - 1
        BY <1>1, <3>2
      <4>2. Short(sl, t)
        BY <2>1, <4>1
      <4>3. q.of = sl.of /\ q.stripes = sl.stripes /\ q.fec = sl.fec /\ sl.have \subseteq q.have
        BY <2>4 DEF Filled
      <4>4. ParityOf(q, t) = ParityOf(sl, t)
        BY <4>3 DEF ParityOf
      <4>5. \A b \in q.have \ sl.have : b % FecStripes # t
        BY <2>4, <3>2
      <4>6. Erased(q, t) = Erased(sl, t)
        <5> HIDE DEF q, sl
        <5> QED
          BY <2>1, <4>1, <4>3, <4>5, ErasedSame
      <4> QED
        BY <4>2, <4>3, <4>4, <4>6 DEF Short
    <3> QED
      BY <3>1, <3>2
  <2>7. HadTurns(R, i, s, Q)
    BY <2>4, <2>5, <2>6 DEF HadTurns
  <2> QED
    BY <2>7 DEF Q
<1>7. n \in Good
  <2> HIDE DEF Good
  <2>1. 0..n \subseteq Good
    BY <1>1, <1>5, <1>6, UpTo
  <2> QED
    BY <1>1, <2>1
<1> QED
  BY <1>3, <1>7

LEMMA RowsCounted ==
  ASSUME NEW p, NEW M \in Nat, Len(p) = M
  PROVE  LET T == {f.row : f \in {p[k] : k \in 1..Len(p)}}
         IN  IsFiniteSet(T) /\ Cardinality(T) <= M
<1> DEFINE T == {f.row : f \in {p[k] : k \in 1..M}}
           f == [k \in 1..M |-> p[k].row]
<1>1. f \in Surjection(1..M, T)
  <2>1. \A k \in 1..M : f[k] = p[k].row /\ f[k] \in T
    BY Zenon
  <2>2. f = [k \in 1..M |-> f[k]]
    BY Zenon
  <2>3. \A x \in T : \E k \in 1..M : f[k] = x
    BY <2>1
  <2> HIDE DEF f, T
  <2>4. f \in [1..M -> T]
    BY <2>1, <2>2
  <2> QED
    BY <2>3, <2>4 DEF Surjection
<1>2. IsFiniteSet(1..M) /\ Cardinality(1..M) = M
  BY FS_Interval
<1> HIDE DEF f, T
<1>3. IsFiniteSet(T) /\ Cardinality(T) <= M
  BY <1>1, <1>2, FS_Surjection
<1> QED
  BY <1>3 DEF T

\* A stripe that is short of parity is not covered.
LEMMA ShortNotCovered ==
  ASSUME Encodable, NEW sl, Collects(sl), NEW b \in (0..sl.of - 1) \ sl.have, Short(sl, b % FecStripes)
  PROVE  ~Covered(sl)
<1> DEFINE t == b % FecStripes
           p == ParityOf(sl, t)
           er == Erased(sl, t)
           T == {f.row : f \in {p[k] : k \in 1..Len(p)}}
<1>1. t \in 0..FecStripes - 1 /\ sl.stripes = FecStripes
  <2>1. b \in Nat
    BY DEF Collects
  <2> QED
    BY <2>1, SizesAssumption, DivMod DEF Collects
<1>2. b % FecStripes = t
  OBVIOUS
<1> HIDE DEF t
<1>3. PICK N \in Nat : Lacks(sl, t, N)
  BY <1>1, ErasedAre
<1>4. PICK M \in Nat : HasParity(sl, t, M)
  BY <1>1, ParityAre
<1>5. Len(er) = N /\ Len(p) = M
  BY <1>3, <1>4 DEF Lacks, HasParity
<1>6. Len(p) < Len(er)
  BY <1>2 DEF Short
<1>7. Covered(sl) => Len(er) <= Cardinality(T)
  BY <1>1 DEF Covered
<1> HIDE DEF p, er
<1>8. IsFiniteSet(T) /\ Cardinality(T) <= M
  BY <1>5, RowsCounted
<1> HIDE DEF T
<1>9. Cardinality(T) \in Nat
  BY <1>8, FS_CardinalityType
<1> QED
  BY <1>5, <1>6, <1>7, <1>8, <1>9

\* What each stripe is covered by, the slice is: the parity blocks of different stripes are
\* different ones.
LEMMA CoveredEnough ==
  ASSUME Encodable, NEW sl, Collects(sl), Covered(sl)
  PROVE  Cardinality(sl.have) \in Nat /\ sl.of - Cardinality(sl.have) <= Len(sl.fec)
<1> DEFINE S == FecStripes
           of == sl.of
           n == Len(sl.fec)
           all == 0..of - 1
           missing == all \ sl.have
           Mine(t, g) == /\ g \in [1..Len(ParityOf(sl, t)) -> 1..n]
                         /\ \A k \in 1..Len(ParityOf(sl, t)) : sl.fec[g[k]].block % S = t
                         /\ \A j, k \in 1..Len(ParityOf(sl, t)) : j # k => g[j] # g[k]
           G(t) == CHOOSE g : Mine(t, g)
           Pair(b, k) == \E e \in 1..Len(Erased(sl, b % S)) : Lost(sl, b % S, e) = b /\ k = G(b % S)[e]
<1>1. S \in Nat \ {0} /\ of \in Nat \ {0} /\ n \in Nat /\ sl.have \subseteq all
  BY SizesAssumption DEF Collects
<1>2. ASSUME NEW t \in 0..S - 1
      PROVE  /\ Mine(t, G(t)) /\ Len(ParityOf(sl, t)) \in Nat /\ Len(Erased(sl, t)) \in Nat
             /\ Len(Erased(sl, t)) <= Len(ParityOf(sl, t))
             /\ \A b \in missing : b % S = t => \E e \in 1..Len(Erased(sl, t)) : Lost(sl, t, e) = b
  <2> DEFINE p == ParityOf(sl, t)
             er == Erased(sl, t)
             T == {f.row : f \in {p[k] : k \in 1..Len(p)}}
  <2>1. PICK N \in Nat : Lacks(sl, t, N)
    BY ErasedAre
  <2>2. PICK M \in Nat : HasParity(sl, t, M)
    BY ParityAre
  <2>3. Len(er) = N /\ Len(p) = M
    BY <2>1, <2>2 DEF Lacks, HasParity
  <2>4. Len(er) <= Cardinality(T)
    BY DEF Covered, Collects
  <2>5. \E g : Mine(t, g)
    BY <2>2, <2>3 DEF HasParity
  <2>6. Mine(t, G(t))
    <3> HIDE DEF Mine
    <3> QED
      BY <2>5
  <2>7. \A b \in missing : b % S = t => \E e \in 1..Len(Erased(sl, t)) : Lost(sl, t, e) = b
    BY <2>1, <2>3 DEF Lacks
  <2>8. Len(er) <= Len(p)
    <3> HIDE DEF p, er
    <3>1. IsFiniteSet(T) /\ Cardinality(T) <= M
      BY <2>3, RowsCounted
    <3> HIDE DEF T
    <3>2. Cardinality(T) \in Nat
      BY <3>1, FS_CardinalityType
    <3> QED
      BY <2>3, <2>4, <3>1, <3>2
  <2> HIDE DEF Mine, G
  <2> QED
    BY <2>3, <2>6, <2>7, <2>8
<1>3. ASSUME NEW b \in missing
      PROVE  /\ \E k \in 1..n : Pair(b, k)
             /\ b % S \in 0..S - 1
  <2>1. b \in Nat
    BY <1>1
  <2>2. b % S \in 0..S - 1
    BY <1>1, <2>1, DivMod
  <2> DEFINE t == b % S
             N == Len(Erased(sl, t))
             M == Len(ParityOf(sl, t))
  <2>3. t \in 0..S - 1
    BY <2>2
  <2>4. Mine(t, G(t)) /\ M \in Nat /\ N \in Nat /\ N <= M /\ \E e \in 1..N : Lost(sl, t, e) = b
    <3> HIDE DEF Mine, G, missing
    <3> QED
      BY <1>2, <2>3
  <2>5. PICK e \in 1..N : Lost(sl, t, e) = b
    BY <2>4
  <2>6. e \in 1..M
    <3>1. M \in Nat /\ N \in Nat /\ N <= M
      BY <2>4
    <3>2. e \in 1..N
      OBVIOUS
    <3> HIDE DEF M, N
    <3> QED
      BY <3>1, <3>2
  <2> HIDE DEF G
  <2>7. G(t)[e] \in 1..n
    BY <2>4, <2>6
  <2>8. Pair(b, G(t)[e])
    BY <2>5
  <2> HIDE DEF Pair, t
  <2> QED
    BY <2>2, <2>7, <2>8
<1>4. ASSUME NEW b \in missing, NEW c \in missing, NEW k, Pair(b, k), Pair(c, k)
      PROVE  b = c
  <2> DEFINE t == b % S
             u == c % S
  <2>1. t \in 0..S - 1 /\ u \in 0..S - 1
    BY <1>3
  <2>2. PICK e \in 1..Len(Erased(sl, t)) : Lost(sl, t, e) = b /\ k = G(t)[e]
    BY <1>4
  <2>3. PICK d \in 1..Len(Erased(sl, u)) : Lost(sl, u, d) = c /\ k = G(u)[d]
    BY <1>4
  <2> HIDE DEF t, u, missing, Pair, G
  <2>4. /\ Mine(t, G(t)) /\ e \in 1..Len(ParityOf(sl, t))
        /\ Mine(u, G(u)) /\ d \in 1..Len(ParityOf(sl, u))
    <3> HIDE DEF Mine
    <3> QED
      BY <1>2, <2>1
  <2>5. sl.fec[k].block % S = t /\ sl.fec[k].block % S = u
    BY <2>2, <2>3, <2>4
  <2>6. t = u
    BY <2>5
  <2>7. d = e
    BY <2>2, <2>3, <2>4, <2>6
  <2> QED
    BY <2>2, <2>3, <2>6, <2>7
<1> DEFINE f == [b \in missing |-> CHOOSE k \in 1..n : Pair(b, k)]
<1>5. \A b \in missing : f[b] \in 1..n /\ Pair(b, f[b])
  <2> HIDE DEF Pair, missing
  <2> QED
    BY <1>3
<1>6. f = [b \in missing |-> f[b]]
  <2> HIDE DEF Pair, missing
  <2> QED
    OBVIOUS
<1> HIDE DEF f, Pair
<1>7. f \in Injection(missing, 1..n)
  <2> HIDE DEF missing
  <2>1. f \in [missing -> 1..n]
    BY <1>5, <1>6
  <2>2. \A b, c \in missing : f[b] = f[c] => b = c
    <3> SUFFICES ASSUME NEW b \in missing, NEW c \in missing, f[b] = f[c] PROVE b = c
      OBVIOUS
    <3>1. Pair(b, f[b]) /\ Pair(c, f[b])
      BY <1>5
    <3> QED
      BY <1>4, <3>1
  <2> QED
    BY <2>1, <2>2 DEF Injection, IsInjective
<1>8. IsFiniteSet(1..n) /\ Cardinality(1..n) = n /\ IsFiniteSet(all) /\ Cardinality(all) = of
  <2> HIDE DEF n, of
  <2>1. IsFiniteSet(1..n) /\ Cardinality(1..n) = n
    BY <1>1, FS_Interval
  <2>2. 0 \in Int /\ of - 1 \in Int
    BY <1>1
  <2>3. IsFiniteSet(all) /\ Cardinality(all) = of
    BY <1>1, <2>2, FS_Interval
  <2> QED
    BY <2>1, <2>3
<1>9. IsFiniteSet(missing) /\ Cardinality(missing) <= n
  <2> HIDE DEF missing
  <2> QED
    BY <1>7, <1>8, FS_Injection
<1> HIDE DEF all, of
<1>10. Cardinality(missing) = of - Cardinality(sl.have)
  <2> DEFINE have == sl.have
  <2>1. all \cap have = have
    BY <1>1
  <2>2. missing = all \ have
    OBVIOUS
  <2> HIDE DEF missing, have
  <2>3. Cardinality(all \ have) = Cardinality(all) - Cardinality(all \cap have)
    BY <1>8, FS_Difference
  <2> QED
    BY <1>8, <2>1, <2>2, <2>3 DEF have
<1>11. IsFiniteSet(sl.have) /\ Cardinality(sl.have) \in Nat
  BY <1>1, <1>8, FS_Subset, FS_CardinalityType
<1> QED
  BY <1>9, <1>10, <1>11 DEF of

-----------------------------------------------------------------------------
(* What a packet makes of a receiver, whatever the blocks hold. *)

\* A packet tells the truth about the slice it names, one of the first n.
Honest(p, size, n) ==
  /\ p.type \in {"DATA", "FEC", "REQACK", "REPLY"}
  /\ p.type # "REPLY" => p.no \in 0..n - 1 /\ p.of = size[p.no]
  /\ p.type = "DATA" => p.block \in 0..p.of - 1
  /\ p.type = "FEC" => p.of > 0 /\ p.stripes = FecStripes /\ p.block \in 0..FecStripes * FecRedundancy - 1

Sizes == [Nat -> 0..MaxSlice]

\* What a slot says of its slice is right, and it was not left covered.
SlotSound(sl, size, n) ==
  /\ sl.state \in {"Free", "Receiving", "Done"}
  /\ sl.state = "Receiving" =>
       /\ sl.no \in 0..n - 1 /\ sl.of \in {0, size[sl.no]} /\ sl.have \subseteq 0..sl.of - 1
       /\ sl.fec # <<>> => Collects(sl) /\ ~Covered(sl)

IsSeq(q) == Len(q) \in Nat /\ q = [k \in 1..Len(q) |-> q[k]]

LateSound(late, size, n) ==
  /\ IsSeq(late)
  /\ \A k \in 1..Len(late) :
       DOMAIN late[k] = {"no", "of"} /\ late[k].no \in 0..n - 1 /\ late[k].of = size[late[k].no]

Sound(R, size, n) ==
  /\ Shaped(R) /\ LateSound(R.late, size, n)
  /\ \A i \in 1..RecvSlots : SlotSound(R.slots[i], size, n)

\* R keeps parity block b of slice no.
Keeps(sl, no, b) ==
  sl.state = "Receiving" /\ sl.no = no /\ \E k \in 1..Len(sl.fec) : sl.fec[k].block = b
Took(R, no, b) == \E i \in 1..RecvSlots : Keeps(R.slots[i], no, b)

\* Q is a sound receiver that keeps no parity block but those of R and perhaps packet m's.
Takes(R, m, size, n, Q) ==
  /\ Sound(Q, size, n)
  /\ \A no, b : Took(Q, no, b) => Took(R, no, b) \/ (m.type = "FEC" /\ no = m.no /\ b = m.block)

\* Slot i was completed in W, or what it holds was recovered as far as it can be.
Settled(W, i, Q) ==
  /\ Shaped(Q) /\ Q.late = W.late
  /\ \A j \in 1..RecvSlots : j # i => Q.slots[j] = W.slots[j]
  /\ \/ Q.slots[i].state = "Done"
     \/ /\ Q.slots[i].state = "Receiving" /\ Q.slots[i].no = W.slots[i].no /\ Q.slots[i].of = W.slots[i].of
        /\ Q.slots[i].fec = W.slots[i].fec /\ Q.slots[i].have \subseteq 0..Q.slots[i].of - 1
        /\ Q.slots[i].fec # <<>> => Collects(Q.slots[i]) /\ ~Covered(Q.slots[i])

LEMMA CompleteSettles ==
  ASSUME NEW V, Shaped(V), NEW i \in 1..RecvSlots
  PROVE  LET Q == Complete(V, i).rcv
         IN  /\ Shaped(Q) /\ Q.late = V.late /\ Q.slots[i].state = "Done"
             /\ \A j \in 1..RecvSlots : j # i => Q.slots[j] = V.slots[j]
<1> DEFINE Q == Complete(V, i).rcv
           D == [V EXCEPT !.slots[i].state = "Done", !.completed = @ \cup {V.slots[i].no}]
           Fine(q) == /\ Shaped(q) /\ q.late = V.late /\ q.slots[i].state = "Done"
                      /\ \A j \in 1..RecvSlots : j # i => q.slots[j] = V.slots[j]
<1>1. \/ V.slots[i].state = "Done" /\ Q = V
      \/ Q = [D EXCEPT !.phase = "dead"]
      \/ Q = [D EXCEPT !.produced = @ + V.slots[i].of]
      \/ Q = [D EXCEPT !.dataEnd = @ \/ EarlierCompleted(V, V.slots[i].no)]
  BY DEF Complete, Step
<1>2. Fine(D)
  BY Fields DEF Shaped
<1> HIDE DEF D, Q
<1>3. \A x : Fine([D EXCEPT !.phase = x]) /\ Fine([D EXCEPT !.produced = x]) /\ Fine([D EXCEPT !.dataEnd = x])
  BY <1>2, Fields DEF Shaped
<1>4. Fine(Q)
  <2>1. CASE V.slots[i].state = "Done" /\ Q = V
    BY <2>1
  <2>2. CASE Q = [D EXCEPT !.phase = "dead"]
    BY <1>3, <2>2
  <2>3. CASE Q = [D EXCEPT !.produced = @ + V.slots[i].of]
    <3>1. Fine([D EXCEPT !.produced = D.produced + V.slots[i].of])
      BY <1>3
    <3> QED
      BY <2>3, <3>1
  <2>4. CASE Q = [D EXCEPT !.dataEnd = @ \/ EarlierCompleted(V, V.slots[i].no)]
    <3>1. Fine([D EXCEPT !.dataEnd = D.dataEnd \/ EarlierCompleted(V, V.slots[i].no)])
      BY <1>3
    <3> QED
      BY <2>4, <3>1
  <2> QED
    BY <1>1, <2>1, <2>2, <2>3, <2>4
<1> QED
  BY <1>4 DEF Q

LEMMA CheckSettles ==
  ASSUME Encodable, NEW W, Shaped(W), NEW i \in 1..RecvSlots, W.slots[i].state = "Receiving",
         W.slots[i].of \in Nat \ {0}, W.slots[i].have \subseteq 0..W.slots[i].of - 1,
         W.slots[i].fec # <<>> => Collects(W.slots[i])
  PROVE  Settled(W, i, CheckComplete(W, i).rcv)
<1> DEFINE sl == W.slots[i]
           Q == CheckComplete(W, i).rcv
           V == Recover(W, i)
<1> SUFFICES Settled(W, i, Q)
  OBVIOUS
<1>1. \/ HasAll(sl) /\ Q = Complete(W, i).rcv
      \/ sl.fec # <<>> /\ Q = Conclude(V, i).rcv
      \/ (sl.fec # <<>> => ~(Len(sl.fec) >= sl.of - Cardinality(sl.have))) /\ Q = W
  BY DEF CheckComplete, Step
<1> HIDE DEF Q, V
<1>2. CASE Q = Complete(W, i).rcv
  BY <1>2, CompleteSettles DEF Settled
<1>3. CASE sl.fec # <<>> /\ Q = Conclude(V, i).rcv
  <2>1. HadTurns(W, i, FecStripes, V)
    BY <1>3, Recovers DEF V
  <2> DEFINE vl == V.slots[i]
  <2>2. Filled(W, i, V) /\ Collects(vl) /\ \A t \in 0..FecStripes - 1 : Short(vl, t)
    BY <2>1 DEF HadTurns
  <2>3. Conclude(V, i).rcv = IF HasAll(vl) THEN Complete(V, i).rcv ELSE V
    BY DEF Conclude, Step
  <2>4. CASE HasAll(vl)
    <3>1. Q = Complete(V, i).rcv /\ Shaped(V)
      BY <1>3, <2>2, <2>3, <2>4 DEF Filled
    <3>2. /\ Shaped(Q) /\ Q.late = V.late /\ Q.slots[i].state = "Done"
          /\ \A j \in 1..RecvSlots : j # i => Q.slots[j] = V.slots[j]
      BY <3>1, CompleteSettles
    <3> QED
      BY <2>2, <3>2 DEF Settled, Filled
  <2>5. CASE ~HasAll(vl)
    <3>1. Q = V
      BY <1>3, <2>3, <2>5
    <3> DEFINE all == 0..vl.of - 1
    <3>2. vl.have \subseteq all /\ vl.of \in Nat
      BY <2>2 DEF Collects
    <3>3. vl.have # all
      <4> DEFINE n == vl.of
      <4> HIDE DEF n
      <4>1. n \in Nat
        BY <3>2 DEF n
      <4>2. 0 \in Int /\ n - 1 \in Int
        BY <4>1
      <4>3. Cardinality(0..n - 1) = n
        BY <4>1, <4>2, FS_Interval
      <4> QED
        BY <2>5, <3>2, <4>3 DEF HasAll, n
    <3>4. PICK b \in all \ vl.have : TRUE
      BY <3>2, <3>3
    <3>5. b % FecStripes \in 0..FecStripes - 1
      <4>1. b \in Nat
        BY <3>2
      <4> QED
        BY <4>1, SizesAssumption, DivMod
    <3>6. ~Covered(vl)
      BY <2>2, <3>4, <3>5, ShortNotCovered
    <3>7. vl.state = "Receiving" /\ vl.no = sl.no /\ vl.of = sl.of /\ vl.fec = sl.fec
      BY <2>2 DEF Filled
    <3> QED
      BY <2>2, <3>1, <3>2, <3>6, <3>7 DEF Settled, Filled
  <2> QED
    BY <2>4, <2>5
<1>4. CASE (sl.fec # <<>> => ~(Len(sl.fec) >= sl.of - Cardinality(sl.have))) /\ Q = W
  <2>1. sl.fec # <<>> => Collects(sl) /\ ~Covered(sl)
    <3> SUFFICES ASSUME sl.fec # <<>>, Covered(sl) PROVE FALSE
      OBVIOUS
    <3>1. Cardinality(sl.have) \in Nat /\ sl.of - Cardinality(sl.have) <= Len(sl.fec)
      BY CoveredEnough
    <3>2. Len(sl.fec) \in Nat
      BY DEF Collects
    <3> QED
      BY <1>4, <3>1, <3>2
  <2> QED
    BY <1>4, <2>1 DEF Settled
<1> QED
  BY <1>1, <1>2, <1>3, <1>4

\* A settled slot keeps its receiver sound.
LEMMA SettledSound ==
  ASSUME NEW size, NEW n, NEW W, NEW i \in 1..RecvSlots, LateSound(W.late, size, n),
         \A j \in 1..RecvSlots : j # i => SlotSound(W.slots[j], size, n),
         W.slots[i].state = "Receiving", W.slots[i].no \in 0..n - 1, W.slots[i].of = size[W.slots[i].no],
         NEW Q, Settled(W, i, Q)
  PROVE  Sound(Q, size, n) /\ \A no, b : Took(Q, no, b) => Took(W, no, b)
<1>1. ASSUME NEW j \in 1..RecvSlots
      PROVE  /\ SlotSound(Q.slots[j], size, n)
             /\ \A no, b : Keeps(Q.slots[j], no, b) => Keeps(W.slots[j], no, b)
  <2>1. CASE j # i
    <3>1. Q.slots[j] = W.slots[j]
      BY <2>1 DEF Settled
    <3> QED
      BY <2>1, <3>1
  <2>2. CASE j = i
    BY <2>2 DEF Settled, SlotSound, Keeps
  <2> QED
    BY <2>1, <2>2
<1>2. Sound(Q, size, n)
  BY <1>1 DEF Sound, Settled
<1> QED
  BY <1>1, <1>2 DEF Took

\* The slot of slice no is there.
LEMMA SlotFound ==
  ASSUME NEW size, NEW n, NEW R, Sound(R, size, n), NEW no \in 0..n - 1, NEW i \in SlotOf(R, no)
  PROVE  LET O == WithSlot(R, i, no)
         IN  /\ i \in 1..RecvSlots /\ Sound(O, size, n) /\ O.late = R.late
             /\ O.slots[i].no = no /\ O.slots[i].state \in {"Receiving", "Done"}
             /\ \A k, b : Took(O, k, b) => Took(R, k, b)
<1> DEFINE O == WithSlot(R, i, no)
<1>1. i \in 1..RecvSlots
  BY DEF SlotOf, SlotForNew, FirstIn, InState, FindSlot
<1>2. CASE FindSlot(R, no) # {}
  <2>1. O = R /\ R.slots[i].no = no /\ R.slots[i].state # "Free"
    BY <1>2 DEF WithSlot, SlotOf, FindSlot
  <2>2. SlotSound(R.slots[i], size, n)
    BY <1>1 DEF Sound
  <2> QED
    BY <1>1, <2>1, <2>2 DEF SlotSound
<1>3. CASE FindSlot(R, no) = {}
  <2> DEFINE sl == [FreeSlot EXCEPT !.state = "Receiving", !.no = no, !.base = R.produced]
  <2>1. O = [R EXCEPT !.slots[i] = sl]
    BY <1>3 DEF WithSlot, Open
  <2>2. /\ DOMAIN sl = DOMAIN FreeSlot /\ sl.state = "Receiving" /\ sl.no = no /\ sl.of = 0
        /\ sl.have = {} /\ sl.fec = <<>>
    BY DEF FreeSlot
  <2> HIDE DEF sl, O
  <2>3. /\ Shaped(O) /\ O.late = R.late /\ O.slots[i] = sl
        /\ \A j \in 1..RecvSlots : j # i => O.slots[j] = R.slots[j]
    BY <1>1, <2>1, <2>2, Fields DEF Shaped, Sound
  <2>4. SlotSound(sl, size, n)
    BY <2>2 DEF SlotSound
  <2>5. \A k, b : ~Keeps(sl, k, b)
    BY <2>2 DEF Keeps
  <2>6. Sound(O, size, n)
    BY <2>3, <2>4 DEF Sound
  <2>7. \A k, b : Took(O, k, b) => Took(R, k, b)
    BY <2>3, <2>5 DEF Took
  <2> QED
    BY <1>1, <2>2, <2>3, <2>6, <2>7 DEF O
<1> QED
  BY <1>2, <1>3

LEMMA DataTaken ==
  ASSUME Encodable, NEW size \in Sizes, NEW n \in Nat, NEW R, Sound(R, size, n),
         NEW m, Honest(m, size, n), m.type = "DATA"
  PROVE  Takes(R, m, size, n, ProcessData(R, m).rcv)
<1> DEFINE Q == ProcessData(R, m).rcv
           i == CHOOSE j \in SlotOf(R, m.no) : TRUE
           O == WithSlot(R, i, m.no)
           W == [O EXCEPT !.slots[i].of = m.of,
                          !.slots[i].have = @ \cup {m.block},
                          !.ring[(O.slots[i].base + m.block) % RecvRing] =
                            IF m.content = NoByte THEN @ ELSE m.content]
<1> SUFFICES Takes(R, m, size, n, Q)
  OBVIOUS
<1>1. m.no \in 0..n - 1 /\ m.of = size[m.no] /\ m.block \in 0..m.of - 1
  BY DEF Honest
<1>2. m.of \in Nat \ {0}
  <2>1. m.no \in Nat
    BY <1>1
  <2>2. m.of \in 0..MaxSlice
    BY <1>1, <2>1 DEF Sizes
  <2> QED
    BY <1>1, <2>2, SizesAssumption
<1>3. CASE SlotOf(R, m.no) = {}
  <2>1. Q = R
    BY <1>3 DEF ProcessData, Step
  <2> QED
    BY <2>1 DEF Takes
<1>4. CASE SlotOf(R, m.no) # {}
  <2>1. ProcessData(R, m) = IF O.slots[i].state = "Done" \/ m.block \in O.slots[i].have THEN Step(O, <<>>)
                            ELSE CheckComplete(W, i)
    BY <1>4, Zenon DEF ProcessData
  <2> HIDE DEF Q
  <2>2. i \in SlotOf(R, m.no)
    BY <1>4
  <2> HIDE DEF i
  <2>3. /\ i \in 1..RecvSlots /\ Sound(O, size, n) /\ O.slots[i].no = m.no
        /\ O.slots[i].state \in {"Receiving", "Done"} /\ \A k, b : Took(O, k, b) => Took(R, k, b)
    BY <1>1, <2>2, SlotFound
  <2> HIDE DEF O
  <2>4. CASE O.slots[i].state = "Done" \/ m.block \in O.slots[i].have
    <3>1. Q = O
      BY <2>1, <2>4 DEF Q, Step
    <3> QED
      BY <2>3, <3>1 DEF Takes
  <2>5. CASE ~(O.slots[i].state = "Done" \/ m.block \in O.slots[i].have)
    <3> DEFINE sl == O.slots[i]
               wl == W.slots[i]
    <3>1. /\ Shaped(W) /\ W.late = O.late
          /\ \A j \in 1..RecvSlots : j # i => W.slots[j] = O.slots[j]
          /\ wl.state = sl.state /\ wl.no = sl.no /\ wl.fec = sl.fec /\ wl.stripes = sl.stripes
          /\ wl.of = m.of /\ wl.have = sl.have \cup {m.block}
      BY <2>3, Fields DEF Sound, Shaped
    <3>2. Q = CheckComplete(W, i).rcv
      BY <2>1, <2>5, Zenon DEF Q
    <3> HIDE DEF W
    <3>3. sl.state = "Receiving" /\ SlotSound(sl, size, n)
      BY <2>3, <2>5 DEF Sound
    <3>4. sl.of \in {0, m.of} /\ sl.have \subseteq 0..sl.of - 1 /\ (sl.fec # <<>> => Collects(sl))
      BY <1>1, <2>3, <3>3 DEF SlotSound
    <3>5. wl.have \subseteq 0..m.of - 1
      BY <1>1, <1>2, <3>1, <3>4
    <3>6. wl.fec # <<>> => Collects(wl)
      BY <1>2, <3>1, <3>4, <3>5 DEF Collects
    <3>7. Settled(W, i, Q)
      BY <1>2, <2>3, <3>1, <3>2, <3>3, <3>5, <3>6, CheckSettles
    <3>8. LateSound(W.late, size, n) /\ \A j \in 1..RecvSlots : j # i => SlotSound(W.slots[j], size, n)
      BY <2>3, <3>1 DEF Sound
    <3>9. Sound(Q, size, n) /\ \A no, b : Took(Q, no, b) => Took(W, no, b)
      BY <1>1, <2>3, <3>1, <3>3, <3>7, <3>8, SettledSound
    <3>10. \A no, b : Took(W, no, b) => Took(O, no, b)
      BY <3>1 DEF Took, Keeps
    <3> QED
      BY <2>3, <3>9, <3>10 DEF Takes
  <2> QED
    BY <2>4, <2>5
<1> QED
  BY <1>3, <1>4

LEMMA FecTaken ==
  ASSUME Encodable, NEW size \in Sizes, NEW n \in Nat, NEW R, Sound(R, size, n),
         NEW m, Honest(m, size, n), m.type = "FEC", ~Took(R, m.no, m.block)
  PROVE  Takes(R, m, size, n, ProcessFec(R, m).rcv)
<1> DEFINE Q == ProcessFec(R, m).rcv
           i == CHOOSE j \in SlotOf(R, m.no) : TRUE
           O == WithSlot(R, i, m.no)
           new == [block |-> m.block, content |-> m.content]
           W == [O EXCEPT !.slots[i].of = IF @ = 0 THEN m.of ELSE @,
                          !.slots[i].stripes = m.stripes,
                          !.slots[i].fec = Append(@, [block |-> m.block, content |-> m.content])]
<1> SUFFICES Takes(R, m, size, n, Q)
  OBVIOUS
<1>1. /\ m.no \in 0..n - 1 /\ m.of = size[m.no] /\ m.of > 0 /\ m.stripes = FecStripes
      /\ m.block \in 0..FecStripes * FecRedundancy - 1
  BY DEF Honest
<1>2. m.of \in 1..MaxSlice
  <2>1. m.no \in Nat
    BY <1>1
  <2>2. m.of \in 0..MaxSlice
    BY <1>1, <2>1 DEF Sizes
  <2> QED
    BY <1>1, <2>2, SizesAssumption
<1>3. CASE SlotOf(R, m.no) = {}
  <2>1. Q = R
    BY <1>3 DEF ProcessFec, Step
  <2> QED
    BY <2>1 DEF Takes
<1>4. CASE SlotOf(R, m.no) # {}
  <2>1. ProcessFec(R, m) = IF O.slots[i].state = "Done" THEN Step(O, <<>>) ELSE CheckComplete(W, i)
    BY <1>4, Zenon DEF ProcessFec
  <2>2. i \in SlotOf(R, m.no)
    BY <1>4
  <2> HIDE DEF i
  <2>3. /\ i \in 1..RecvSlots /\ Sound(O, size, n) /\ O.slots[i].no = m.no
        /\ O.slots[i].state \in {"Receiving", "Done"} /\ \A k, b : Took(O, k, b) => Took(R, k, b)
    BY <1>1, <2>2, SlotFound
  <2> HIDE DEF O
  <2>4. CASE O.slots[i].state = "Done"
    <3>1. Q = O
      BY <2>1, <2>4 DEF Step
    <3> HIDE DEF Q
    <3> QED
      BY <2>3, <3>1 DEF Takes
  <2>5. CASE O.slots[i].state # "Done"
    <3> DEFINE sl == O.slots[i]
               wl == W.slots[i]
    <3>1. /\ Shaped(W) /\ W.late = O.late
          /\ \A j \in 1..RecvSlots : j # i => W.slots[j] = O.slots[j]
          /\ wl.state = sl.state /\ wl.no = sl.no /\ wl.have = sl.have /\ wl.stripes = m.stripes
          /\ wl.of = (IF sl.of = 0 THEN m.of ELSE sl.of) /\ wl.fec = Append(sl.fec, new)
      <4> HIDE DEF new
      <4>1. W = [O EXCEPT !.slots[i].of = IF @ = 0 THEN m.of ELSE @,
                          !.slots[i].stripes = m.stripes, !.slots[i].fec = Append(@, new)]
        BY Zenon DEF new
      <4> HIDE DEF W
      <4> QED
        BY <2>3, <4>1, Fields DEF Sound, Shaped
    <3>2. Q = CheckComplete(W, i).rcv
      BY <2>1, <2>5, Zenon
    <3> HIDE DEF W, Q
    <3>3. sl.state = "Receiving" /\ SlotSound(sl, size, n)
      BY <2>3, <2>5 DEF Sound
    <3>4. sl.of \in {0, m.of} /\ sl.have \subseteq 0..sl.of - 1 /\ (sl.fec # <<>> => Collects(sl))
      BY <1>1, <2>3, <3>3 DEF SlotSound
    <3>5. wl.of = m.of /\ wl.have \subseteq 0..m.of - 1
      BY <1>2, <3>1, <3>4
    <3> DEFINE fec == sl.fec
               N == Len(fec)
    <3>6. /\ N \in Nat /\ fec = [k \in 1..N |-> fec[k]]
          /\ \A k \in 1..N : fec[k].block \in 0..FecStripes * FecRedundancy - 1
          /\ \A j, k \in 1..N : fec[j].block = fec[k].block => j = k
      <4>1. CASE fec = <<>>
        <5>1. N = 0
          BY <4>1
        <5> QED
          BY <4>1, <5>1
      <4>2. CASE fec # <<>>
        BY <3>4, <4>2 DEF Collects
      <4> QED
        BY <4>1, <4>2
    <3>7. \A k \in 1..N : fec[k].block # m.block
      <4> SUFFICES ASSUME NEW k \in 1..N, fec[k].block = m.block PROVE FALSE
        OBVIOUS
      <4>1. Keeps(sl, m.no, m.block)
        BY <2>3, <3>3 DEF Keeps
      <4>2. Took(O, m.no, m.block)
        BY <2>3, <4>1 DEF Took
      <4> QED
        BY <2>3, <4>2
    <3> DEFINE more == wl.fec
    <3>8. /\ Len(more) = N + 1 /\ more = [k \in 1..N + 1 |-> more[k]]
          /\ more[N + 1] = new /\ \A k \in 1..N : more[k] = fec[k]
      <4>1. more = Append(fec, new)
        BY <3>1
      <4> DEFINE T == {fec[k] : k \in 1..N} \cup {new}
      <4> HIDE DEF fec, N, new, more
      <4>2. fec \in Seq(T)
        <5>1. \A k \in 1..N : fec[k] \in T
          BY Zenon
        <5> HIDE DEF T
        <5>2. fec \in [1..N -> T]
          BY <3>6, <5>1
        <5> QED
          BY <3>6, <5>2
      <4>3. new \in T
        BY Zenon
      <4>4. N = Len(fec)
        BY DEF N
      <4> HIDE DEF T
      <4>5. more \in Seq(T) /\ Len(more) = N + 1 /\ more[N + 1] = new /\ \A k \in 1..N : more[k] = fec[k]
        <5>1. \A f \in Seq(T), x \in T :
                /\ Append(f, x) \in Seq(T) /\ Len(Append(f, x)) = Len(f) + 1 /\ Append(f, x)[Len(f) + 1] = x
                /\ \A k \in 1..Len(f) : Append(f, x)[k] = f[k]
          OBVIOUS
        <5> QED
          BY <4>1, <4>2, <4>3, <4>4, <5>1
      <4>6. more = [k \in 1..Len(more) |-> more[k]]
        BY <4>5
      <4> QED
        BY <4>5, <4>6
    <3>9. new.block = m.block
      OBVIOUS
    <3> HIDE DEF fec, N, new, more
    <3>10. Collects(wl)
      <4>1. \A k \in 1..N + 1 : k \in 1..N \/ k = N + 1
        BY <3>6
      <4>2. \A k \in 1..N + 1 : more[k].block \in 0..FecStripes * FecRedundancy - 1
        BY <1>1, <3>6, <3>8, <3>9, <4>1
      <4>3. \A j, k \in 1..N + 1 : more[j].block = more[k].block => j = k
        BY <3>6, <3>7, <3>8, <3>9, <4>1
      <4>4. Len(more) \in Nat
        BY <3>6, <3>8
      <4>5. wl.stripes = FecStripes
        BY <1>1, <3>1
      <4> QED
        BY <1>2, <3>5, <3>8, <4>2, <4>3, <4>4, <4>5 DEF Collects, more
    <3>11. wl.of \in Nat \ {0}
      BY <1>2, <3>5
    <3>12. Settled(W, i, Q)
      <4>1. wl.have \subseteq 0..wl.of - 1 /\ wl.state = "Receiving"
        BY <3>1, <3>3, <3>5
      <4> QED
        BY <2>3, <3>1, <3>2, <3>10, <3>11, <4>1, CheckSettles
    <3>13. LateSound(W.late, size, n) /\ \A j \in 1..RecvSlots : j # i => SlotSound(W.slots[j], size, n)
      BY <2>3, <3>1 DEF Sound
    <3>14. Sound(Q, size, n) /\ \A no, b : Took(Q, no, b) => Took(W, no, b)
      <4>1. wl.state = "Receiving" /\ wl.no = m.no /\ wl.of = size[wl.no]
        BY <1>1, <2>3, <3>1, <3>3, <3>5
      <4> QED
        BY <1>1, <2>3, <3>12, <3>13, <4>1, SettledSound
    <3>15. ASSUME NEW no, NEW b, Took(W, no, b)
           PROVE  Took(O, no, b) \/ (no = m.no /\ b = m.block)
      <4>1. PICK j \in 1..RecvSlots : Keeps(W.slots[j], no, b)
        BY <3>15 DEF Took
      <4>2. CASE j # i
        BY <3>1, <4>1, <4>2 DEF Took
      <4>3. CASE j = i
        <5>1. no = m.no /\ \E k \in 1..N + 1 : more[k].block = b
          BY <2>3, <3>1, <3>8, <4>1, <4>3 DEF Keeps, more
        <5>2. PICK k \in 1..N + 1 : more[k].block = b
          BY <5>1
        <5>3. CASE k = N + 1
          BY <3>8, <3>9, <5>1, <5>2, <5>3
        <5>4. CASE k \in 1..N
          <6>1. fec[k].block = b
            BY <3>8, <5>2, <5>4
          <6>2. Keeps(sl, no, b)
            BY <2>3, <3>3, <5>1, <5>4, <6>1 DEF Keeps, fec, N
          <6> QED
            BY <2>3, <6>2 DEF Took
        <5> QED
          BY <3>6, <5>3, <5>4
      <4> QED
        BY <4>2, <4>3
    <3> QED
      BY <2>3, <3>14, <3>15 DEF Takes
  <2> QED
    BY <2>4, <2>5
<1> QED
  BY <1>3, <1>4

\* A slot learns the size of its slice.
LEMMA SizeSet ==
  ASSUME NEW size \in Sizes, NEW n \in Nat, NEW O, Sound(O, size, n), NEW no \in 0..n - 1,
         NEW i \in 1..RecvSlots, O.slots[i].no = no, O.slots[i].state \in {"Receiving", "Done"}
  PROVE  LET Z == [O EXCEPT !.slots[i].of = size[no]]
         IN  /\ Sound(Z, size, n) /\ Z.late = O.late /\ Z.slots[i].no = no
             /\ \A k, b : Took(Z, k, b) => Took(O, k, b)
<1> DEFINE of == size[no]
           Z == [O EXCEPT !.slots[i].of = of]
<1> SUFFICES /\ Sound(Z, size, n) /\ Z.late = O.late /\ Z.slots[i].no = no
             /\ \A k, b : Took(Z, k, b) => Took(O, k, b)
  OBVIOUS
<1>1. of \in 0..MaxSlice /\ of = size[no]
  BY DEF Sizes
<1> HIDE DEF of
<1>2. /\ Shaped(Z) /\ Z.late = O.late
      /\ \A j \in 1..RecvSlots : j # i => Z.slots[j] = O.slots[j]
      /\ DOMAIN Z.slots[i] = DOMAIN O.slots[i] /\ Z.slots[i].of = of
      /\ Z.slots[i].state = O.slots[i].state /\ Z.slots[i].no = O.slots[i].no
      /\ Z.slots[i].have = O.slots[i].have
      /\ Z.slots[i].fec = O.slots[i].fec /\ Z.slots[i].stripes = O.slots[i].stripes
  <2>1. DOMAIN O.slots[i] = DOMAIN FreeSlot
    BY DEF Sound, Shaped
  <2>2. Z.slots[i] = [O.slots[i] EXCEPT !.of = of]
    BY Fields DEF Sound, Shaped
  <2> QED
    BY <2>1, <2>2, Fields DEF Sound, Shaped
<1> HIDE DEF Z
<1>3. SlotSound(Z.slots[i], size, n)
  <2>1. SlotSound(O.slots[i], size, n)
    BY DEF Sound
  <2>2. CASE O.slots[i].state = "Done"
    BY <1>2, <2>2 DEF SlotSound
  <2>3. CASE O.slots[i].state = "Receiving"
    <3>1. O.slots[i].of \in {0, of} /\ O.slots[i].have \subseteq 0..O.slots[i].of - 1
      BY <1>1, <2>1, <2>3 DEF SlotSound
    <3>2. CASE O.slots[i].of = of
      <4> DEFINE sl == O.slots[i]
                 bl == Z.slots[i]
      <4>1. bl.of = sl.of /\ bl.have = sl.have /\ bl.fec = sl.fec /\ bl.stripes = sl.stripes
        BY <1>2, <3>2
      <4>2. bl.state = sl.state /\ bl.no = sl.no
        BY <1>2
      <4> HIDE DEF sl, bl
      <4>3. Collects(sl) => Collects(bl)
        BY <4>1 DEF Collects
      <4>4. \A t : Erased(bl, t) = Erased(sl, t) /\ ParityOf(bl, t) = ParityOf(sl, t)
        BY <4>1 DEF Erased, StripeBlocks, ParityOf
      <4>5. Covered(bl) = Covered(sl)
        BY <4>1, <4>4 DEF Covered
      <4> QED
        BY <2>1, <4>1, <4>2, <4>3, <4>5 DEF SlotSound, sl, bl
    <3>3. CASE O.slots[i].of = 0
      <4>1. O.slots[i].fec = <<>>
        BY <2>1, <2>3, <3>3 DEF SlotSound, Collects
      <4>2. Z.slots[i].have \subseteq 0..of - 1
        BY <1>1, <1>2, <3>1, <3>3
      <4> QED
        BY <1>1, <1>2, <2>3, <4>1, <4>2 DEF SlotSound
    <3> QED
      BY <3>1, <3>2, <3>3
  <2> QED
    BY <2>2, <2>3
<1>4. \A k, b : Took(Z, k, b) => Took(O, k, b)
  <2>1. \A j \in 1..RecvSlots : \A k, b : Keeps(Z.slots[j], k, b) => Keeps(O.slots[j], k, b)
    BY <1>2 DEF Keeps
  <2> QED
    BY <2>1 DEF Took
<1>5. Sound(Z, size, n)
  BY <1>2, <1>3 DEF Sound
<1> QED
  BY <1>2, <1>4, <1>5 DEF Z

LEMMA ReqackTaken ==
  ASSUME Encodable, NEW size \in Sizes, NEW n \in Nat, NEW R, Sound(R, size, n),
         NEW m, Honest(m, size, n), m.type = "REQACK"
  PROVE  Takes(R, m, size, n, ProcessReqack(R, m).rcv)
<1> DEFINE Q == ProcessReqack(R, m).rcv
           i == CHOOSE j \in SlotOf(R, m.no) : TRUE
           O == WithSlot(R, i, m.no)
           Z == [O EXCEPT !.slots[i].of = m.of]
           C == Complete(Z, i)
<1> SUFFICES Takes(R, m, size, n, Q)
  OBVIOUS
<1>1. m.no \in 0..n - 1 /\ m.of = size[m.no] /\ m.of \in 0..MaxSlice
  <2>1. m.no \in 0..n - 1 /\ m.of = size[m.no]
    BY DEF Honest
  <2>2. m.no \in Nat
    BY <2>1
  <2> QED
    BY <2>1, <2>2 DEF Sizes
<1>3. CASE FindSlot(R, m.no) = {} /\ (m.no \in R.completed \/ SlotForNew(R) = {})
  <2>1. Q = R
    BY <1>3 DEF ProcessReqack, Step
  <2> QED
    BY <2>1 DEF Takes
<1>4. CASE ~(FindSlot(R, m.no) = {} /\ (m.no \in R.completed \/ SlotForNew(R) = {}))
  <2>1. ProcessReqack(R, m) = IF HasAll(Z.slots[i]) THEN Step(C.rcv, <<Ok(m.no)>> \o C.answers)
                              ELSE Step(Z, <<Retr(m.no, Z.slots[i].have)>>)
    BY <1>4, Zenon DEF ProcessReqack
  <2>2. i \in SlotOf(R, m.no)
    <3>1. SlotOf(R, m.no) # {}
      BY <1>4 DEF SlotOf
    <3> QED
      BY <3>1
  <2> HIDE DEF i, C
  <2>3. Q = C.rcv \/ Q = Z
    BY <2>1 DEF Step
  <2> HIDE DEF Q
  <2>4. /\ i \in 1..RecvSlots /\ Sound(O, size, n) /\ O.late = R.late /\ O.slots[i].no = m.no
        /\ O.slots[i].state \in {"Receiving", "Done"} /\ \A k, b : Took(O, k, b) => Took(R, k, b)
    BY <1>1, <2>2, SlotFound
  <2> HIDE DEF O
  <2>5. /\ Sound(Z, size, n) /\ Z.late = O.late /\ Z.slots[i].no = m.no
        /\ \A k, b : Took(Z, k, b) => Took(O, k, b)
    BY <1>1, <2>4, SizeSet
  <2> HIDE DEF Z
  <2>9. CASE Q = Z
    BY <2>4, <2>5, <2>9 DEF Takes
  <2>10. CASE Q = C.rcv
    <3>1. /\ Shaped(Q) /\ Q.late = Z.late /\ Q.slots[i].state = "Done"
          /\ \A j \in 1..RecvSlots : j # i => Q.slots[j] = Z.slots[j]
      BY <2>4, <2>5, <2>10, CompleteSettles DEF C, Sound
    <3>2. \A j \in 1..RecvSlots :
            SlotSound(Q.slots[j], size, n) /\ \A k, b : Keeps(Q.slots[j], k, b) => Keeps(Z.slots[j], k, b)
      BY <2>5, <3>1 DEF Sound, SlotSound, Keeps
    <3>3. Sound(Q, size, n)
      BY <2>5, <3>1, <3>2 DEF Sound
    <3>4. \A k, b : Took(Q, k, b) => Took(Z, k, b)
      BY <3>2 DEF Took
    <3> QED
      BY <2>4, <2>5, <3>3, <3>4 DEF Takes
  <2> QED
    BY <2>3, <2>9, <2>10
<1> QED
  BY <1>3, <1>4

\* The fields a handler changes besides the slots and the noted slices do not matter.
LEMMA SoundAlike ==
  ASSUME NEW size, NEW n, NEW R, Sound(R, size, n),
         NEW Q, DOMAIN Q = DOMAIN R, Q.slots = R.slots, LateSound(Q.late, size, n)
  PROVE  Sound(Q, size, n) /\ \A no, b : Took(Q, no, b) <=> Took(R, no, b)
<1>1. Sound(Q, size, n)
  BY DEF Sound, Shaped
<1> QED
  BY <1>1 DEF Took

LEMMA PacketTaken ==
  ASSUME Encodable, NEW size \in Sizes, NEW n \in Nat, NEW R, Sound(R, size, n),
         NEW m, Honest(m, size, n), m.type = "FEC" => ~Took(R, m.no, m.block)
  PROVE  Takes(R, m, size, n, ProcessPacket(R, m).rcv)
<1> DEFINE Q == ProcessPacket(R, m).rcv
           P == [R EXCEPT !.started = TRUE]
           S == Process(P, m)
<1> SUFFICES Takes(R, m, size, n, Q)
  OBVIOUS
<1>1. Q = AfterPacket(IF m.type = "REPLY" THEN R ELSE S.rcv)
  BY DEF ProcessPacket, After, Step
<1> HIDE DEF Q, S
<1>2. Sound(P, size, n) /\ \A no, b : Took(P, no, b) <=> Took(R, no, b)
  <2>1. DOMAIN P = DOMAIN R /\ P.slots = R.slots /\ P.late = R.late
    BY Fields DEF Sound, Shaped
  <2> HIDE DEF P
  <2> QED
    BY <2>1, SoundAlike DEF Sound
<1> HIDE DEF P
<1>3. Takes(R, m, size, n, IF m.type = "REPLY" THEN R ELSE S.rcv)
  <2>1. CASE m.type = "REPLY"
    BY <2>1 DEF Takes
  <2>2. CASE m.type # "REPLY"
    <3>1. m.type \in {"DATA", "FEC", "REQACK"}
      BY <2>2 DEF Honest
    <3>2. Takes(P, m, size, n, S.rcv)
      <4>1. CASE m.type = "DATA"
        BY <1>2, <4>1, DataTaken DEF S, Process
      <4>2. CASE m.type = "FEC"
        <5>1. ~Took(P, m.no, m.block)
          BY <1>2, <4>2
        <5> QED
          BY <1>2, <4>2, <5>1, FecTaken DEF S, Process
      <4>3. CASE m.type = "REQACK"
        BY <1>2, <4>3, ReqackTaken DEF S, Process
      <4> QED
        BY <3>1, <4>1, <4>2, <4>3
    <3> QED
      BY <1>2, <2>2, <3>2 DEF Takes
  <2> QED
    BY <2>1, <2>2
<1>4. ASSUME NEW V, Takes(R, m, size, n, V)
      PROVE  Takes(R, m, size, n, AfterPacket(V))
  <2>1. AfterPacket(V) = V \/ AfterPacket(V) = [V EXCEPT !.phase = "drain"]
    BY DEF AfterPacket
  <2> DEFINE D == [V EXCEPT !.phase = "drain"]
  <2>2. DOMAIN D = DOMAIN V /\ D.slots = V.slots /\ D.late = V.late
    BY <1>4, Fields DEF Takes, Sound, Shaped
  <2> HIDE DEF D
  <2>3. Takes(R, m, size, n, D)
    BY <1>4, <2>2, SoundAlike DEF Takes, Sound
  <2> QED
    BY <1>4, <2>1, <2>3 DEF D
<1> QED
  BY <1>1, <1>3, <1>4

-----------------------------------------------------------------------------
(* The start phase and the other threads of a receiver. *)

\* One more element.
LEMMA OneMore ==
  ASSUME NEW q, IsSeq(q), NEW x
  PROVE  LET p == Append(q, x)
         IN  /\ IsSeq(p) /\ Len(p) = Len(q) + 1 /\ p[Len(q) + 1] = x
             /\ \A k \in 1..Len(q) : p[k] = q[k]
<1> DEFINE T == {q[k] : k \in 1..Len(q)} \cup {x}
           p == Append(q, x)
<1>1. q \in Seq(T) /\ x \in T
  <2>1. (\A k \in 1..Len(q) : q[k] \in T) /\ x \in T
    BY Zenon
  <2> HIDE DEF T
  <2>2. q \in [1..Len(q) -> T]
    BY <2>1 DEF IsSeq
  <2> QED
    BY <2>1, <2>2 DEF IsSeq
<1> HIDE DEF T
<1>2. \A f \in Seq(T), y \in T :
        /\ Append(f, y) \in Seq(T) /\ Len(Append(f, y)) = Len(f) + 1 /\ Append(f, y)[Len(f) + 1] = y
        /\ \A k \in 1..Len(f) : Append(f, y)[k] = f[k]
  OBVIOUS
<1>3. /\ p \in Seq(T) /\ Len(p) = Len(q) + 1 /\ p[Len(q) + 1] = x
      /\ \A k \in 1..Len(q) : p[k] = q[k]
  BY <1>1, <1>2
<1> HIDE DEF p
<1>4. IsSeq(p)
  BY <1>3 DEF IsSeq
<1> QED
  BY <1>3, <1>4 DEF p

LEMMA NoteSound ==
  ASSUME NEW size, NEW n \in Nat, NEW R, Sound(R, size, n), NEW m, Honest(m, size, n), m.type # "REPLY"
  PROVE  Sound(Note(R, m), size, n) /\ \A no, b : Took(Note(R, m), no, b) => Took(R, no, b)
<1> DEFINE old == {k \in 1..Len(R.late) : R.late[k].no = m.no}
           Q == Note(R, m)
           late == R.late
           L1 == Append(late, [no |-> m.no, of |-> m.of])
           L2 == [k \in 1..Len(late) |-> IF k \in old THEN [late[k] EXCEPT !.of = m.of] ELSE late[k]]
<1>1. LateSound(late, size, n) /\ m.no \in 0..n - 1 /\ m.of = size[m.no] /\ Shaped(R)
  BY DEF Sound, Honest
<1>2. /\ DOMAIN Q = DOMAIN R /\ Q.slots = R.slots
      /\ \/ Q.late = L1
         \/ Q.late = L2
  <2>1. Q = [R EXCEPT !.late = L1] \/ Q = [R EXCEPT !.late = L2]
    BY DEF Note
  <2> HIDE DEF Q, L1, L2
  <2> QED
    BY <1>1, <2>1, Fields DEF Shaped
<1>3. LateSound(L1, size, n)
  <2> DEFINE e == [no |-> m.no, of |-> m.of]
  <2>1. DOMAIN e = {"no", "of"} /\ e.no = m.no /\ e.of = m.of
    OBVIOUS
  <2> HIDE DEF e, late
  <2>2. /\ IsSeq(L1) /\ Len(L1) = Len(late) + 1 /\ L1[Len(late) + 1] = e
        /\ \A k \in 1..Len(late) : L1[k] = late[k]
    BY <1>1, OneMore DEF LateSound, e
  <2> HIDE DEF L1
  <2>3. Len(late) \in Nat
    BY <1>1 DEF LateSound, IsSeq
  <2>4. \A k \in 1..Len(L1) : k \in 1..Len(late) \/ k = Len(late) + 1
    BY <2>2, <2>3
  <2> QED
    BY <1>1, <2>1, <2>2, <2>4 DEF LateSound
<1>4. LateSound(L2, size, n)
  <2>1. Len(late) \in Nat
    BY <1>1 DEF LateSound, IsSeq
  <2>2. Len(L2) = Len(late) /\ IsSeq(L2)
    <3> DEFINE N == Len(late)
    <3> HIDE DEF late, old
    <3>1. L2 \in Seq({L2[k] : k \in 1..Len(late)}) /\ Len(L2) = Len(late)
      BY <2>1
    <3>2. DOMAIN L2 = 1..Len(late) /\ L2 = [k \in 1..Len(late) |-> L2[k]]
      BY Zenon
    <3> QED
      BY <2>1, <3>1, <3>2 DEF IsSeq
  <2>3. ASSUME NEW k \in 1..Len(late)
        PROVE  DOMAIN L2[k] = {"no", "of"} /\ L2[k].no \in 0..n - 1 /\ L2[k].of = size[L2[k].no]
    <3>1. DOMAIN late[k] = {"no", "of"} /\ late[k].no \in 0..n - 1 /\ late[k].of = size[late[k].no]
      BY <1>1 DEF LateSound
    <3>2. CASE k \in old
      <4>1. L2[k] = [late[k] EXCEPT !.of = m.of] /\ late[k].no = m.no
        BY <3>2
      <4> QED
        BY <1>1, <3>1, <4>1
    <3>3. CASE k \notin old
      <4>1. L2[k] = late[k]
        BY <3>3
      <4> QED
        BY <3>1, <4>1
    <3> QED
      BY <3>2, <3>3
  <2> HIDE DEF L2
  <2> QED
    BY <2>2, <2>3 DEF LateSound
<1> HIDE DEF Q, L1, L2
<1>5. LateSound(Q.late, size, n)
  BY <1>2, <1>3, <1>4
<1> QED
  BY <1>2, <1>5, SoundAlike DEF Q

\* The slices noted take their slots, one after the other.
LEMMA SeedSound ==
  ASSUME NEW size \in Sizes, NEW n \in Nat, NEW R, Sound(R, size, n)
  PROVE  Sound(Seed(R), size, n) /\ \A no, b : Took(Seed(R), no, b) => Took(R, no, b)
<1> DEFINE late == R.late
           N == Len(late)
           start == [R EXCEPT !.phase = "run"]
           Slot(P, e) == CHOOSE j \in SlotOf(P, e.no) : TRUE
           Next1(P, e) == IF SlotOf(P, e.no) = {} THEN P
                          ELSE [WithSlot(P, Slot(P, e), e.no) EXCEPT !.slots[Slot(P, e)].of = e.of]
           Is(g, m) == g = [k \in 0..m |-> IF k = 0 THEN start ELSE Next1(g[k - 1], late[k])]
           Fine(P) == Sound(P, size, n) /\ \A no, b : Took(P, no, b) => Took(R, no, b)
<1>1. LateSound(late, size, n) /\ N \in Nat
  BY DEF Sound, LateSound, IsSeq
<1>2. Fine(start)
  <2>1. DOMAIN start = DOMAIN R /\ start.slots = R.slots /\ start.late = R.late
    BY Fields DEF Sound, Shaped
  <2> HIDE DEF start
  <2> QED
    BY <1>1, <2>1, SoundAlike
<1>3. ASSUME NEW k \in 1..N, NEW P, Fine(P)
      PROVE  Fine(Next1(P, late[k]))
  <2> DEFINE e == late[k]
             i == Slot(P, e)
  <2>1. e.no \in 0..n - 1 /\ e.of = size[e.no]
    BY <1>1 DEF LateSound
  <2> HIDE DEF e
  <2>2. CASE SlotOf(P, e.no) = {}
    <3>1. Next1(P, e) = P
      BY <2>2
    <3> HIDE DEF Next1
    <3> QED
      BY <1>3, <3>1 DEF e
  <2>3. CASE SlotOf(P, e.no) # {}
    <3> DEFINE O == WithSlot(P, i, e.no)
               Z == [O EXCEPT !.slots[i].of = size[e.no]]
    <3>1. Next1(P, e) = Z
      BY <2>1, <2>3
    <3>2. i \in SlotOf(P, e.no)
      BY <2>3
    <3> HIDE DEF i
    <3>3. /\ i \in 1..RecvSlots /\ Sound(O, size, n) /\ O.slots[i].no = e.no
          /\ O.slots[i].state \in {"Receiving", "Done"} /\ \A k1, b : Took(O, k1, b) => Took(P, k1, b)
      BY <1>3, <2>1, <3>2, SlotFound
    <3> HIDE DEF O
    <3>4. Sound(Z, size, n) /\ \A k1, b : Took(Z, k1, b) => Took(O, k1, b)
      BY <2>1, <3>3, SizeSet
    <3> HIDE DEF Z, Next1
    <3> QED
      BY <1>3, <3>1, <3>3, <3>4 DEF e
  <2> HIDE DEF Next1, Fine
  <2> QED
    BY <2>2, <2>3 DEF e
<1> HIDE DEF start, Next1, Fine
<1>4. \E g : Is(g, N)
  <2> DEFINE Good == {m \in 0..N : \E g : Is(g, m)}
  <2>1. 0 \in Good
    <3> DEFINE g == [k \in 0..0 |-> start]
    <3>1. Is(g, 0)
      OBVIOUS
    <3> HIDE DEF g, Is
    <3> QED
      BY <1>1, <3>1
  <2>2. ASSUME NEW m \in 1..N, m - 1 \in Good
        PROVE  m \in Good
    <3>1. PICK g : Is(g, m - 1)
      BY <2>2
    <3> DEFINE h == [k \in 0..m |-> IF k = m THEN Next1(g[m - 1], late[m]) ELSE g[k]]
    <3>2. h = [k \in 0..m |-> IF k = 0 THEN start ELSE Next1(h[k - 1], late[k])]
      <4>1. \A k \in 0..m : h[k] = IF k = m THEN Next1(g[m - 1], late[m]) ELSE g[k]
        OBVIOUS
      <4>2. \A k \in 0..m - 1 : g[k] = IF k = 0 THEN start ELSE Next1(g[k - 1], late[k])
        BY <3>1
      <4>3. h = [k \in 0..m |-> h[k]]
        BY Zenon
      <4> HIDE DEF h
      <4>4. ASSUME NEW k \in 0..m
            PROVE  h[k] = IF k = 0 THEN start ELSE Next1(h[k - 1], late[k])
        <5>1. CASE k = m
          <6>1. h[k - 1] = g[m - 1] /\ k # 0 /\ h[k] = Next1(g[m - 1], late[m])
            BY <1>1, <4>1, <5>1
          <6> QED
            BY <5>1, <6>1
        <5>2. CASE k = 0 /\ k # m
          BY <4>1, <4>2, <5>2
        <5>3. CASE k # 0 /\ k # m
          <6>1. h[k - 1] = g[k - 1] /\ h[k] = g[k] /\ k \in 0..m - 1
            BY <1>1, <4>1, <5>3
          <6> QED
            BY <4>2, <5>3, <6>1
        <5> QED
          BY <5>1, <5>2, <5>3
      <4> QED
        BY <4>3, <4>4
    <3> HIDE DEF h
    <3>3. Is(h, m)
      BY <3>2
    <3> HIDE DEF Is
    <3> QED
      BY <3>3
  <2> HIDE DEF Good
  <2>3. N \in Good
    <3>1. 0..N \subseteq Good
      BY <1>1, <2>1, <2>2, UpTo
    <3> QED
      BY <1>1, <3>1
  <2> QED
    BY <2>3 DEF Good
<1> DEFINE seeded == CHOOSE g : Is(g, N)
<1>5. Is(seeded, N)
  BY <1>4
<1>6. Seed(R) = seeded[N]
  BY Zenon DEF Seed, start, Next1
<1> HIDE DEF seeded
<1>7. \A k \in 0..N : seeded[k] = IF k = 0 THEN start ELSE Next1(seeded[k - 1], late[k])
  BY <1>5
<1> HIDE DEF Is
<1> DEFINE Good == {k \in 0..N : Fine(seeded[k])}
<1>8. 0 \in Good
  BY <1>1, <1>2, <1>7
<1>9. ASSUME NEW k \in 1..N, k - 1 \in Good
      PROVE  k \in Good
  <2>1. Fine(seeded[k - 1])
    BY <1>9
  <2>2. seeded[k] = Next1(seeded[k - 1], late[k])
    BY <1>1, <1>7
  <2> QED
    BY <1>1, <1>3, <2>1, <2>2
<1>10. N \in Good
  <2> HIDE DEF Good
  <2>1. 0..N \subseteq Good
    BY <1>1, <1>8, <1>9, UpTo
  <2> QED
    BY <1>1, <2>1
<1> QED
  BY <1>6, <1>10 DEF Fine

LEMMA StartPacketSound ==
  ASSUME NEW size \in Sizes, NEW n \in Nat, NEW R, Sound(R, size, n), NEW m, Honest(m, size, n)
  PROVE  Sound(StartPacket(R, m), size, n) /\ \A no, b : Took(StartPacket(R, m), no, b) => Took(R, no, b)
<1>1. CASE m.type = "REPLY"
  BY <1>1, SeedSound DEF StartPacket
<1>2. CASE m.type # "REPLY"
  BY <1>2, NoteSound DEF StartPacket
<1> QED
  BY <1>1, <1>2

\* A receiver that only changes its phase or writes a block stays as it is otherwise.
LEMMA OthersSound ==
  ASSUME NEW size, NEW n, NEW R, Sound(R, size, n), NEW x
  PROVE  LET P == [R EXCEPT !.phase = x]
             W == WriteBlock(R)
         IN  /\ Sound(P, size, n) /\ \A no, b : Took(P, no, b) => Took(R, no, b)
             /\ Sound(W, size, n) /\ \A no, b : Took(W, no, b) => Took(R, no, b)
<1> DEFINE P == [R EXCEPT !.phase = x]
           W == WriteBlock(R)
<1>1. DOMAIN P = DOMAIN R /\ P.slots = R.slots /\ P.late = R.late
  BY Fields DEF Sound, Shaped
<1>2. DOMAIN W = DOMAIN R /\ W.slots = R.slots /\ W.late = R.late
  BY Fields DEF Sound, Shaped, WriteBlock
<1> HIDE DEF P, W
<1>3. Sound(P, size, n) /\ \A no, b : Took(P, no, b) => Took(R, no, b)
  BY <1>1, SoundAlike DEF Sound
<1>4. Sound(W, size, n) /\ \A no, b : Took(W, no, b) => Took(R, no, b)
  BY <1>2, SoundAlike DEF Sound
<1> QED
  BY <1>3, <1>4 DEF P, W

-----------------------------------------------------------------------------
(* What is on its way to a receiver. *)

SameParity(p, q) == p.type = "FEC" /\ q.type = "FEC" /\ p.no = q.no /\ p.block = q.block

\* The datagrams tell the truth, and none brings a parity block that R has or another brings.
Link(q, R, size, n) ==
  /\ IsSeq(q)
  /\ \A k \in 1..Len(q) : Honest(q[k], size, n) /\ (q[k].type = "FEC" => ~Took(R, q[k].no, q[k].block))
  /\ \A j, k \in 1..Len(q) : SameParity(q[j], q[k]) => j = k

LEMMA AsSeq ==
  ASSUME NEW q
  PROVE  /\ IsSeq(q) => \E T : q \in Seq(T)
         /\ \A T : q \in Seq(T) => IsSeq(q)
<1>1. ASSUME IsSeq(q)
      PROVE  \E T : q \in Seq(T)
  <2> DEFINE T == {q[k] : k \in 1..Len(q)}
  <2>1. \A k \in 1..Len(q) : q[k] \in T
    BY Zenon
  <2> HIDE DEF T
  <2>2. q \in [1..Len(q) -> T]
    BY <1>1, <2>1 DEF IsSeq
  <2>3. q \in Seq(T)
    BY <1>1, <2>2 DEF IsSeq
  <2> QED
    BY <2>3
<1>2. ASSUME NEW T, q \in Seq(T)
      PROVE  IsSeq(q)
  BY <1>2 DEF IsSeq
<1> QED
  BY <1>1, <1>2

LEMMA BothSeq ==
  ASSUME NEW p, IsSeq(p), NEW q, IsSeq(q)
  PROVE  \E T : p \in Seq(T) /\ q \in Seq(T)
<1>1. PICK A : p \in Seq(A)
  BY AsSeq
<1>2. PICK C : q \in Seq(C)
  BY AsSeq
<1>3. p \in Seq(A \cup C) /\ q \in Seq(A \cup C)
  BY <1>1, <1>2
<1> QED
  BY <1>3

LEMMA Arrived ==
  ASSUME NEW q, IsSeq(q), NEW p, IsSeq(p)
  PROVE  LET a == Arrive(q, p)
         IN  /\ IsSeq(a) /\ Len(a) <= Len(q) + Len(p)
             /\ \A i \in 1..Len(a) : a[i] = IF i <= Len(q) THEN q[i] ELSE p[i - Len(q)]
<1>1. PICK T : q \in Seq(T) /\ p \in Seq(T)
  BY BothSeq
<1> DEFINE all == q \o p
           L == IF Len(all) <= ChanCap THEN Len(all) ELSE ChanCap
           a == SubSeq(all, 1, L)
<1>2. all \in Seq(T) /\ Len(all) = Len(q) + Len(p)
      /\ \A i \in 1..Len(all) : all[i] = IF i <= Len(q) THEN q[i] ELSE p[i - Len(q)]
  BY <1>1
<1>3. Arrive(q, p) = a
  BY DEF Arrive
<1> HIDE DEF all
<1>4. L \in Nat /\ L <= Len(all)
  BY <1>2, ChanCapAssumption
<1> HIDE DEF L
<1>5. a \in Seq(T) /\ Len(a) = L /\ \A i \in 1..L : a[i] = all[i]
  BY <1>2, <1>4
<1> HIDE DEF a
<1>6. IsSeq(a)
  BY <1>5, AsSeq
<1>7. \A i \in 1..Len(a) : a[i] = IF i <= Len(q) THEN q[i] ELSE p[i - Len(q)]
  BY <1>2, <1>4, <1>5
<1> QED
  BY <1>2, <1>3, <1>4, <1>5, <1>6, <1>7

\* Two links in a row, without a parity block in both.
LEMMA Joined ==
  ASSUME NEW size, NEW n, NEW R, NEW q, Link(q, R, size, n), NEW p, Link(p, R, size, n),
         \A j \in 1..Len(q), k \in 1..Len(p) : ~SameParity(q[j], p[k]),
         NEW a, IsSeq(a), Len(a) <= Len(q) + Len(p),
         \A i \in 1..Len(a) : a[i] = IF i <= Len(q) THEN q[i] ELSE p[i - Len(q)]
  PROVE  Link(a, R, size, n)
<1> DEFINE N == Len(q)
           M == Len(p)
           L == Len(a)
<1>1. /\ L <= N + M
      /\ \A i \in 1..L : a[i] = IF i <= N THEN q[i] ELSE p[i - N]
  OBVIOUS
<1>2. L \in Nat /\ N \in Nat /\ M \in Nat
  BY DEF IsSeq, Link
<1> HIDE DEF N, M, L
<1>3. \A i \in 1..L : (i \in 1..N /\ a[i] = q[i]) \/ (i \notin 1..N /\ i - N \in 1..M /\ a[i] = p[i - N])
  BY <1>1, <1>2
<1>4. \A k \in 1..L : Honest(a[k], size, n) /\ (a[k].type = "FEC" => ~Took(R, a[k].no, a[k].block))
  BY <1>3 DEF Link, N, M
<1>5. ASSUME NEW j \in 1..L, NEW k \in 1..L, SameParity(a[j], a[k])
      PROVE  j = k
  <2>1. SameParity(a[k], a[j])
    BY <1>5 DEF SameParity
  <2>2. CASE j \in 1..N /\ k \in 1..N
    BY <1>3, <1>5, <2>2 DEF Link, N
  <2>3. CASE j \in 1..N /\ k \notin 1..N
    BY <1>3, <1>5, <2>3 DEF N, M
  <2>4. CASE j \notin 1..N /\ k \in 1..N
    BY <1>3, <2>1, <2>4 DEF N, M
  <2>5. CASE j \notin 1..N /\ k \notin 1..N
    <3>1. j - N \in 1..M /\ k - N \in 1..M /\ SameParity(p[j - N], p[k - N])
      BY <1>3, <1>5, <2>5
    <3>2. j - N = k - N
      BY <3>1 DEF Link, M
    <3> QED
      BY <1>2, <3>2
  <2> QED
    BY <2>2, <2>3, <2>4, <2>5
<1> QED
  BY <1>4, <1>5 DEF Link, L

LEMMA Linked ==
  ASSUME NEW size, NEW n, NEW R, NEW q, Link(q, R, size, n), NEW p, Link(p, R, size, n),
         \A j \in 1..Len(q), k \in 1..Len(p) : ~SameParity(q[j], p[k])
  PROVE  Link(Arrive(q, p), R, size, n) /\ Link(q \o p, R, size, n)
<1>1. IsSeq(q) /\ IsSeq(p)
  BY DEF Link
<1>2. Link(Arrive(q, p), R, size, n)
  BY <1>1, Arrived, Joined
<1>3. PICK T : q \in Seq(T) /\ p \in Seq(T)
  BY <1>1, BothSeq
<1> DEFINE all == q \o p
<1>4. all \in Seq(T) /\ Len(all) = Len(q) + Len(p) /\ Len(all) \in Nat
      /\ \A i \in 1..Len(all) : all[i] = IF i <= Len(q) THEN q[i] ELSE p[i - Len(q)]
  BY <1>3
<1> HIDE DEF all
<1>5. IsSeq(all)
  BY <1>4, AsSeq
<1>6. Len(all) <= Len(q) + Len(p)
  <2>1. Len(q) \in Nat /\ Len(p) \in Nat
    BY <1>1 DEF IsSeq
  <2> QED
    BY <1>4, <2>1
<1>7. Link(all, R, size, n)
  BY <1>4, <1>5, <1>6, Joined
<1> QED
  BY <1>2, <1>7 DEF all

\* Any datagrams without parity may arrive.
Plain(p, size, n) == IsSeq(p) /\ \A k \in 1..Len(p) : Honest(p[k], size, n) /\ p[k].type # "FEC"

LEMMA PlainLinks ==
  ASSUME NEW size, NEW n, NEW R, NEW q, Link(q, R, size, n), NEW p, Plain(p, size, n)
  PROVE  Link(Arrive(q, p), R, size, n) /\ Link(Arrive(p, q), R, size, n)
<1>1. Link(p, R, size, n)
  BY DEF Plain, Link, SameParity
<1>2. /\ \A j \in 1..Len(q), k \in 1..Len(p) : ~SameParity(q[j], p[k])
      /\ \A j \in 1..Len(p), k \in 1..Len(q) : ~SameParity(p[j], q[k])
  BY DEF Plain, SameParity
<1> QED
  BY <1>1, <1>2, Linked

LEMMA PlainOne ==
  ASSUME NEW size, NEW n, NEW m, Honest(m, size, n), m.type # "FEC"
  PROVE  Plain(<<m>>, size, n)
<1> DEFINE q == <<m>>
<1>1. q \in Seq({m}) /\ Len(q) = 1 /\ q[1] = m
  OBVIOUS
<1> HIDE DEF q
<1>2. IsSeq(q)
  BY <1>1, AsSeq
<1>3. \A k \in 1..Len(q) : q[k] = m
  BY <1>1
<1>4. Plain(q, size, n)
  BY <1>2, <1>3 DEF Plain
<1> QED
  BY <1>4 DEF q

\* The first datagram is read, and Q keeps at most its parity block more than R did.
LEMMA LinkRead ==
  ASSUME NEW size, NEW n, NEW R, NEW q, Link(q, R, size, n), q # <<>>,
         NEW Q, \A no, b : Took(Q, no, b) =>
                  Took(R, no, b) \/ (Head(q).type = "FEC" /\ no = Head(q).no /\ b = Head(q).block)
  PROVE  Link(Tail(q), Q, size, n) /\ Honest(Head(q), size, n)
         /\ (Head(q).type = "FEC" => ~Took(R, Head(q).no, Head(q).block))
<1> DEFINE t == Tail(q)
<1>1. PICK T : q \in Seq(T)
  BY AsSeq DEF Link
<1>2. /\ t \in Seq(T) /\ Len(q) \in Nat \ {0} /\ Len(t) = Len(q) - 1 /\ Head(q) = q[1]
      /\ \A k \in 1..Len(t) : t[k] = q[k + 1]
  BY <1>1
<1> HIDE DEF t
<1>3. 1 \in 1..Len(q) /\ \A k \in 1..Len(t) : k + 1 \in 1..Len(q) /\ k + 1 # 1
  BY <1>2
<1>4. IsSeq(t)
  BY <1>2, AsSeq
<1>5. ASSUME NEW k \in 1..Len(t)
      PROVE  Honest(t[k], size, n) /\ (t[k].type = "FEC" => ~Took(Q, t[k].no, t[k].block))
  <2>1. Honest(q[k + 1], size, n) /\ (q[k + 1].type = "FEC" => ~Took(R, q[k + 1].no, q[k + 1].block))
    BY <1>3 DEF Link
  <2>2. ~SameParity(q[k + 1], q[1])
    BY <1>3 DEF Link
  <2> QED
    BY <1>2, <2>1, <2>2 DEF SameParity
<1>6. \A j, k \in 1..Len(t) : SameParity(t[j], t[k]) => j = k
  <2> SUFFICES ASSUME NEW j \in 1..Len(t), NEW k \in 1..Len(t), SameParity(t[j], t[k]) PROVE j = k
    OBVIOUS
  <2>1. j + 1 = k + 1
    BY <1>2, <1>3 DEF Link
  <2> QED
    BY <1>2, <2>1
<1>7. Link(t, Q, size, n)
  BY <1>4, <1>5, <1>6 DEF Link
<1>8. Honest(Head(q), size, n) /\ (Head(q).type = "FEC" => ~Took(R, Head(q).no, Head(q).block))
  BY <1>2, <1>3 DEF Link
<1> QED
  BY <1>7, <1>8 DEF t

LEMMA PlainLast ==
  ASSUME NEW size, NEW n, NEW R, NEW q, Link(q, R, size, n), NEW m, Honest(m, size, n), m.type # "FEC"
  PROVE  Link(Append(q, m), R, size, n)
<1> DEFINE p == <<m>>
           a == Append(q, m)
<1>1. Link(p, R, size, n) /\ \A j \in 1..Len(q), k \in 1..Len(p) : ~SameParity(q[j], p[k])
  <2>1. Plain(p, size, n)
    BY PlainOne
  <2> HIDE DEF p
  <2> QED
    BY <2>1 DEF Plain, Link, SameParity
<1>2. Len(p) = 1 /\ p[1] = m
  OBVIOUS
<1>3. /\ IsSeq(a) /\ Len(a) = Len(q) + 1 /\ a[Len(q) + 1] = m
      /\ \A k \in 1..Len(q) : a[k] = q[k]
  BY OneMore DEF Link
<1> HIDE DEF a, p
<1>4. Len(q) \in Nat
  BY DEF Link, IsSeq
<1>5. \A i \in 1..Len(a) : a[i] = IF i <= Len(q) THEN q[i] ELSE p[i - Len(q)]
  <2> TAKE i \in 1..Len(a)
  <2>1. CASE i \in 1..Len(q)
    BY <1>3, <1>4, <2>1
  <2>2. CASE i = Len(q) + 1
    BY <1>2, <1>3, <1>4, <2>2
  <2> QED
    BY <1>3, <1>4, <2>1, <2>2
<1>6. Len(a) <= Len(q) + Len(p)
  BY <1>2, <1>3, <1>4
<1>7. Link(a, R, size, n)
  BY <1>1, <1>3, <1>5, <1>6, Joined
<1> QED
  BY <1>7 DEF a

-----------------------------------------------------------------------------
(* What the sender sends. *)

\* A slice in flight has the size it was cut to.
Cut(sl, size, n) ==
  /\ DOMAIN sl = DOMAIN FreeSlice
  /\ sl.state = "Xmitted" => sl.no \in 0..n - 1 /\ sl.blocks = size[sl.no]

LEMMA SliceFields ==
  DOMAIN FreeSlice = {"state", "no", "base", "blocks", "rxmitId", "ready", "answered", "nrReady",
                      "nrAnswered", "needRxmit", "rxmitMap", "isXmitted"}
BY DEF FreeSlice

\* What was true of the first n slices stays true when one more is cut.
LEMMA MoreSlices ==
  ASSUME NEW n \in Nat, NEW size \in Sizes, NEW more \in Sizes, \A no \in 0..n - 1 : more[no] = size[no]
  PROVE  /\ \A m : Honest(m, size, n) => Honest(m, more, n + 1)
         /\ \A sl : Cut(sl, size, n) => Cut(sl, more, n + 1)
         /\ \A R : Sound(R, size, n) => Sound(R, more, n + 1)
         /\ \A q, R : Link(q, R, size, n) => Link(q, R, more, n + 1)
<1>1. \A no \in 0..n - 1 : no \in 0..(n + 1) - 1 /\ more[no] = size[no]
  OBVIOUS
<1>2. \A m : Honest(m, size, n) => Honest(m, more, n + 1)
  BY <1>1 DEF Honest
<1>3. \A sl : Cut(sl, size, n) => Cut(sl, more, n + 1)
  BY <1>1 DEF Cut
<1>4. \A sl : SlotSound(sl, size, n) => SlotSound(sl, more, n + 1)
  BY <1>1 DEF SlotSound
<1>5. \A late : LateSound(late, size, n) => LateSound(late, more, n + 1)
  BY <1>1 DEF LateSound
<1>6. \A R : Sound(R, size, n) => Sound(R, more, n + 1)
  BY <1>4, <1>5 DEF Sound
<1>7. \A q, R : Link(q, R, size, n) => Link(q, R, more, n + 1)
  BY <1>2 DEF Link
<1> QED
  BY <1>2, <1>3, <1>6, <1>7

LEMMA BlockHonest ==
  ASSUME NEW size, NEW n, NEW sl, sl.no \in 0..n - 1, sl.blocks = size[sl.no],
         NEW i \in 0..sl.blocks - 1
  PROVE  Honest(BlockPacket(sl, i), size, n) /\ BlockPacket(sl, i).type = "DATA"
BY DEF Honest, BlockPacket, Data

LEMMA ReqackHonest ==
  ASSUME NEW size, NEW n, NEW sl, sl.no \in 0..n - 1, sl.blocks = size[sl.no]
  PROVE  Honest(Reqack(sl), size, n) /\ Reqack(sl).type # "FEC"
BY DEF Honest, Reqack

LEMMA RexmitPlain ==
  ASSUME NEW n \in Nat, NEW size \in Sizes, NEW sl, Cut(sl, size, n), sl.state = "Xmitted"
  PROVE  Plain(RexmitPackets(sl), size, n)
<1> DEFINE N == sl.blocks
           T == {BlockPacket(sl, i) : i \in 0..N - 1}
           S == Seq(T)
           due == [i \in 1..sl.blocks |-> i - 1 \in sl.rxmitMap \ sl.isXmitted]
           more(q, k) == IF due[k] THEN q \o <<BlockPacket(sl, k - 1), BlockPacket(sl, k - 1)>> ELSE q
           F == [k \in 1..N |-> [q \in S |-> more(q, k)]]
           Grows(u) == u = [i \in 0..N |-> IF i = 0 THEN <<>> ELSE more(u[i - 1], i)]
<1>1. N \in Nat
  <2>1. sl.no \in Nat
    BY DEF Cut
  <2> QED
    BY <2>1 DEF Cut, Sizes
<1>2. <<>> \in S
  OBVIOUS
<1>3. ASSUME NEW k \in 1..N, NEW q \in S
      PROVE  more(q, k) \in S
  <2>1. k - 1 \in 0..N - 1
    BY <1>1
  <2>2. BlockPacket(sl, k - 1) \in T
    BY <2>1
  <2> HIDE DEF T
  <2> QED
    BY <2>2
<1>14. \A x \in T : Honest(x, size, n) /\ x.type # "FEC"
  <2> HIDE DEF N
  <2> SUFFICES ASSUME NEW i \in 0..N - 1
               PROVE  Honest(BlockPacket(sl, i), size, n) /\ BlockPacket(sl, i).type # "FEC"
    OBVIOUS
  <2> QED
    BY BlockHonest DEF Cut, N
<1> HIDE DEF more, T
<1>4. F \in [1..N -> [S -> S]]
  BY <1>3
<1>5. PICK f \in [0..N -> S] : Runs(N, F, <<>>, f)
  <2> HIDE DEF F, N, S
  <2> QED
    BY <1>1, <1>2, <1>4, Iteration
<1>6. Grows(f)
  <2>1. ASSUME NEW k \in 0..N
        PROVE  f[k] = IF k = 0 THEN <<>> ELSE more(f[k - 1], k)
    <3>1. CASE k = 0
      BY <1>5, <3>1 DEF Runs
    <3>2. CASE k # 0
      <4>1. k \in 1..N /\ k - 1 \in 0..N
        BY <1>1, <3>2
      <4>2. f[k - 1] \in S /\ f[k] = F[k][f[k - 1]]
        BY <1>5, <4>1 DEF Runs
      <4> QED
        BY <3>2, <4>1, <4>2
    <3> QED
      BY <3>1, <3>2
  <2>2. f = [k \in 0..N |-> f[k]]
    BY <1>5
  <2> HIDE DEF N
  <2> QED
    BY <2>1, <2>2
<1> DEFINE g == CHOOSE u : Grows(u)
<1>7. Grows(g)
  <2> HIDE DEF Grows
  <2> QED
    BY <1>6
<1>8. RexmitPackets(sl) = g[N]
  BY DEF RexmitPackets, more
<1> HIDE DEF g
<1>9. g[0] = <<>> /\ \A k \in 1..N : g[k] = more(g[k - 1], k)
  BY <1>1, <1>7
<1> DEFINE Good == {k \in 0..N : g[k] \in S}
<1>10. 0 \in Good
  <2> HIDE DEF S, N
  <2> QED
    BY <1>1, <1>2, <1>9
<1>11. ASSUME NEW k \in 1..N, k - 1 \in Good
       PROVE  k \in Good
  <2>1. k \in 0..N /\ g[k - 1] \in S
    BY <1>1, <1>11
  <2> HIDE DEF S
  <2> QED
    BY <1>3, <1>9, <2>1
<1>12. N \in Good
  <2> HIDE DEF Good, N
  <2>1. 0..N \subseteq Good
    BY <1>1, <1>10, <1>11, UpTo
  <2> QED
    BY <1>1, <2>1
<1> DEFINE p == RexmitPackets(sl)
<1>13. p \in Seq(T)
  BY <1>8, <1>12
<1> HIDE DEF p
<1>15. IsSeq(p) /\ \A k \in 1..Len(p) : p[k] \in T
  BY <1>13, AsSeq
<1>16. Plain(p, size, n)
  BY <1>14, <1>15 DEF Plain
<1> QED
  BY <1>16 DEF p

\* The data and the parity of a slice no receiver knows yet.
LEMMA NewLinks ==
  ASSUME NEW n \in Nat, NEW size, NEW sl, sl.no = n - 1, sl.no \in 0..n - 1, sl.blocks = size[n - 1], sl.blocks \in Nat,
         NEW R, \A b : ~Took(R, n - 1, b)
  PROVE  LET data == [i \in 1..sl.blocks |-> BlockPacket(sl, i - 1)]
         IN  Link(data \o FecPackets(sl), R, size, n)
<1> DEFINE N == sl.blocks
           data == [i \in 1..N |-> BlockPacket(sl, i - 1)]
           M == IF N > 0 THEN FecStripes * FecRedundancy ELSE 0
           fec == FecPackets(sl)
<1>1. N \in Nat /\ M \in Nat
  BY SizesAssumption
<1>2. Link(data, R, size, n) /\ \A k \in 1..Len(data) : data[k].type # "FEC"
  <2>1. IsSeq(data) /\ Len(data) = N /\ \A k \in 1..N : data[k] = BlockPacket(sl, k - 1)
    <3> DEFINE T == {BlockPacket(sl, i - 1) : i \in 1..N}
    <3>1. \A k \in 1..N : data[k] \in T
      BY Zenon
    <3>2. data = [k \in 1..N |-> data[k]] /\ \A k \in 1..N : data[k] = BlockPacket(sl, k - 1)
      BY Zenon
    <3> HIDE DEF data, T, N
    <3>3. data \in Seq(T) /\ Len(data) = N
      BY <1>1, <3>1, <3>2
    <3> QED
      BY <3>2, <3>3, AsSeq
  <2> HIDE DEF data
  <2>2. \A k \in 1..N : k - 1 \in 0..sl.blocks - 1
    BY <1>1
  <2>3. ASSUME NEW k \in 1..N
        PROVE  Honest(data[k], size, n) /\ data[k].type # "FEC"
    <3> DEFINE i == k - 1
    <3>1. i \in 0..sl.blocks - 1 /\ data[k] = BlockPacket(sl, i)
      BY <2>1, <2>2
    <3>2. sl.blocks = size[sl.no]
      OBVIOUS
    <3> HIDE DEF i, N
    <3>3. Honest(BlockPacket(sl, i), size, n) /\ BlockPacket(sl, i).type = "DATA"
      BY <3>1, <3>2, BlockHonest
    <3> QED
      BY <3>1, <3>3
  <2> HIDE DEF N
  <2> QED
    BY <2>1, <2>3 DEF Link, SameParity
<1>3. Link(fec, R, size, n)
  <2> DEFINE content(b) == Parity(StripeContents(sl, (b - 1) % FecStripes), (b - 1) \div FecStripes)
             packet(b) == FecBlock(sl, b - 1, content(b))
  <2>1. fec = [b \in 1..M |-> packet(b)]
    BY Zenon DEF FecPackets
  <2>2. \A b : /\ packet(b).type = "FEC" /\ packet(b).no = n - 1 /\ packet(b).block = b - 1
               /\ packet(b).of = N /\ packet(b).stripes = FecStripes
    BY DEF FecBlock
  <2> HIDE DEF fec, packet
  <2>3. IsSeq(fec) /\ Len(fec) = M /\ \A b \in 1..M : fec[b] = packet(b)
    <3> DEFINE T == {packet(b) : b \in 1..M}
    <3>1. \A k \in 1..M : fec[k] \in T
      BY <2>1, Zenon
    <3>2. fec = [k \in 1..M |-> fec[k]] /\ \A k \in 1..M : fec[k] = packet(k)
      BY <2>1, Zenon
    <3> HIDE DEF T, M
    <3>3. fec \in Seq(T) /\ Len(fec) = M
      BY <1>1, <3>1, <3>2
    <3> QED
      BY <3>2, <3>3, AsSeq
  <2>4. ASSUME NEW b \in 1..M
        PROVE  Honest(fec[b], size, n) /\ (fec[b].type = "FEC" => ~Took(R, fec[b].no, fec[b].block))
    <3>1. N > 0 /\ b \in 1..FecStripes * FecRedundancy
      BY <1>1
    <3>2. b - 1 \in 0..FecStripes * FecRedundancy - 1
      <4> DEFINE K == FecStripes * FecRedundancy
      <4>1. K \in Nat
        BY SizesAssumption
      <4> HIDE DEF K
      <4> QED
        BY <3>1, <4>1 DEF K
    <3> HIDE DEF N, M
    <3> QED
      BY <2>2, <2>3, <3>1, <3>2 DEF Honest, N
  <2>5. ASSUME NEW j \in 1..M, NEW k \in 1..M, SameParity(fec[j], fec[k])
        PROVE  j = k
    <3>1. j - 1 = k - 1
      BY <2>2, <2>3, <2>5 DEF SameParity
    <3> HIDE DEF M
    <3> QED
      BY <1>1, <3>1
  <2> HIDE DEF M, N
  <2> QED
    BY <2>3, <2>4, <2>5 DEF Link
<1>4. \A j \in 1..Len(data), k \in 1..Len(fec) : ~SameParity(data[j], fec[k])
  <2> HIDE DEF data, fec
  <2> QED
    BY <1>2 DEF SameParity
<1> HIDE DEF data, fec
<1>5. Link(data \o fec, R, size, n)
  BY <1>2, <1>3, <1>4, Linked
<1> QED
  BY <1>5 DEF data, fec

LEMMA NewNames ==
  ASSUME NEW sl, sl.blocks \in Nat
  PROVE  LET data == [i \in 1..sl.blocks |-> BlockPacket(sl, i - 1)]
             all == data \o FecPackets(sl)
         IN  \A k \in 1..Len(all) : all[k].no = sl.no
<1> DEFINE N == sl.blocks
           data == [i \in 1..N |-> BlockPacket(sl, i - 1)]
           M == IF N > 0 THEN FecStripes * FecRedundancy ELSE 0
           content(b) == Parity(StripeContents(sl, (b - 1) % FecStripes), (b - 1) \div FecStripes)
           packet(b) == FecBlock(sl, b - 1, content(b))
           fec == FecPackets(sl)
           T == {BlockPacket(sl, i - 1) : i \in 1..N} \cup {packet(b) : b \in 1..M}
           all == data \o fec
<1>1. N \in Nat /\ M \in Nat
  BY SizesAssumption
<1>2. \A x \in T : x.no = sl.no
  BY DEF BlockPacket, Data, FecBlock
<1>3. (\A i \in 1..N : BlockPacket(sl, i - 1) \in T) /\ \A b \in 1..M : packet(b) \in T
  BY Zenon
<1>4. fec = [b \in 1..M |-> packet(b)]
  BY Zenon DEF FecPackets
<1> HIDE DEF T, N, M, packet, fec
<1>5. data \in Seq(T)
  BY <1>1, <1>3
<1>6. fec \in Seq(T)
  BY <1>1, <1>3, <1>4
<1> HIDE DEF data
<1>7. all \in Seq(T)
  BY <1>5, <1>6
<1> HIDE DEF all
<1>8. \A k \in 1..Len(all) : all[k] \in T
  BY <1>7
<1>9. \A k \in 1..Len(all) : all[k].no = sl.no
  BY <1>2, <1>8
<1> QED
  BY <1>9 DEF all, data, fec, N

-----------------------------------------------------------------------------
(* The whole data phase. *)

\* Slice no has size[no] blocks, and everybody who speaks of it says so.
Holds(size) ==
  /\ \A s \in Slots : Cut(slices[s], size, sliceNo)
  /\ \A r \in Receivers : Sound(rcv[r], size, sliceNo) /\ Link(down[r], rcv[r], size, sliceNo)
  /\ \A h \in held : Honest(h.packet, size, sliceNo) /\ h.packet.type # "FEC"

Tables ==
  sliceNo \in Nat /\ DOMAIN slices = Slots /\ DOMAIN rcv = Receivers /\ DOMAIN down = Receivers

FecInv == Tables /\ \E size \in Sizes : Holds(size)

LEMMA FecInit == Init => FecInv
<1> SUFFICES ASSUME Init PROVE FecInv
  OBVIOUS
<1> DEFINE size == [no \in Nat |-> 0]
<1>1. size \in Sizes
  BY SizesAssumption DEF Sizes
<1> HIDE DEF size
<1>2. Tables
  BY DEF Init, SendInit, EmptyChannel, Tables
<1>3. \A s \in Slots : Cut(slices[s], size, sliceNo)
  BY SliceFields DEF Init, SendInit, Cut, FreeSlice
<1>4. ASSUME NEW r \in Receivers
      PROVE  Sound(rcv[r], size, sliceNo) /\ Link(down[r], rcv[r], size, sliceNo)
  <2>1. \E phase : rcv[r] = NewReceiver(phase)
    BY Zenon DEF Init
  <2>2. PICK phase : rcv[r] = NewReceiver(phase)
    BY <2>1
  <2>3. IsSeq(<<>>) /\ Len(<<>>) = 0
    BY DEF IsSeq
  <2>4. Shaped(rcv[r])
    BY <2>2, Fields DEF Shaped, NewReceiver, FreeSlot
  <2>5. LateSound(rcv[r].late, size, sliceNo)
    BY <2>2, <2>3 DEF LateSound, NewReceiver
  <2>6. \A i \in 1..RecvSlots : SlotSound(rcv[r].slots[i], size, sliceNo)
    BY <2>2 DEF SlotSound, NewReceiver, FreeSlot
  <2>7. down[r] = <<>>
    BY DEF Init, SendInit, EmptyChannel
  <2> QED
    BY <2>3, <2>4, <2>5, <2>6, <2>7 DEF Sound, Link
<1>5. \A h \in held : Honest(h.packet, size, sliceNo) /\ h.packet.type # "FEC"
  BY DEF Init
<1>6. Holds(size)
  BY <1>3, <1>4, <1>5 DEF Holds
<1> QED
  BY <1>1, <1>2, <1>6, Zenon DEF FecInv

\* What a step of the dispatcher that cuts no slice does.
OldSlices(size) ==
  /\ sliceNo' = sliceNo /\ DOMAIN slices' = Slots /\ DOMAIN down' = Receivers
  /\ \A s \in Slots : Cut(slices'[s], size, sliceNo)
  /\ \A r \in Receivers :
       \/ down'[r] = down[r]
       \/ \E p : Plain(p, size, sliceNo) /\ down'[r] = Arrive(down[r], p)

LEMMA HandleKeeps ==
  ASSUME Tables, NEW size \in Sizes, Holds(size), HandleNextMessage
  PROVE  OldSlices(size)
<1>1. sliceNo' = sliceNo /\ down' = down
  BY DEF HandleNextMessage, fillVars
<1>2. DOMAIN slices' = Slots /\ \A s \in Slots : Cut(slices'[s], size, sliceNo)
  <2> DEFINE m == Head(msgs)
             S == FindSlice(m.no)
  <2>1. CASE HandleOk(m)
    <3>1. slices' = [s \in Slots |->
              IF s \notin S THEN slices[s]
              ELSE [slices[s] EXCEPT
                      !.ready = @ \cup {m.cl},
                      !.nrReady = IF m.cl \in slices[s].ready THEN @ ELSE @ + 1,
                      !.answered = @ \cup {m.cl},
                      !.nrAnswered = IF m.cl \in slices[s].answered THEN @ ELSE @ + 1]]
      BY <2>1, Zenon DEF HandleOk
    <3> HIDE DEF m, S
    <3> QED
      BY <3>1, SliceFields DEF Holds, Cut
  <2>2. CASE HandleRetransmit(m)
    <3>1. slices' = [s \in Slots |->
              IF s \notin S THEN slices[s]
              ELSE [slices[s] EXCEPT
                      !.rxmitMap = @ \cup ((0..slices[s].blocks - 1) \ m.have),
                      !.needRxmit = TRUE,
                      !.answered = @ \cup {m.cl},
                      !.nrAnswered = IF m.cl \in slices[s].answered THEN @ ELSE @ + 1]]
      BY <2>2, Zenon DEF HandleRetransmit
    <3> HIDE DEF m, S
    <3> QED
      BY <3>1, SliceFields DEF Holds, Cut
  <2>3. CASE HandleDisconnect(m)
    <3>1. slices' = [s \in Slots |->
       [slices[s] EXCEPT
          !.ready = @ \ {m.cl},
          !.nrReady = IF m.cl \in slices[s].ready THEN @ - 1 ELSE @,
          !.answered = @ \ {m.cl},
          !.nrAnswered = IF m.cl \in slices[s].answered THEN @ - 1 ELSE @]]
      BY <2>3, Zenon DEF HandleDisconnect
    <3> HIDE DEF m, S
    <3> QED
      BY <3>1, SliceFields DEF Holds, Cut
  <2> QED
    BY <2>1, <2>2, <2>3 DEF HandleNextMessage
<1> QED
  BY <1>1, <1>2 DEF OldSlices, Tables

\* One datagram sequence to all.
LEMMA MulticastPlain ==
  ASSUME Tables, NEW size, NEW p, Plain(p, size, sliceNo), down' = Multicast(down, p)
  PROVE  /\ DOMAIN down' = Receivers
         /\ \A r \in Receivers : \E q : Plain(q, size, sliceNo) /\ down'[r] = Arrive(down[r], q)
<1>1. down' = [r \in Receivers |-> Arrive(down[r], p)]
  BY DEF Multicast, Tables
<1>2. DOMAIN down' = Receivers /\ \A r \in Receivers : down'[r] = Arrive(down[r], p)
  BY <1>1
<1> QED
  BY <1>2, Zenon

\* A slice asked about again.
LEMMA AskedAgain ==
  ASSUME Tables, NEW size \in Sizes, Holds(size), NEW s \in Slots, slices[s].state = "Xmitted",
         sliceNo' = sliceNo,
         slices' = [slices EXCEPT ![s] = NewRound(NextRound(slices[s]))],
         down' = Multicast(down, <<Reqack(NextRound(slices[s]))>>)
  PROVE  OldSlices(size)
<1> DEFINE sl == slices[s]
           q == NextRound(sl)
           nl == NewRound(q)
<1>1. Cut(sl, size, sliceNo)
  BY DEF Holds
<1> HIDE DEF sl
<1>2. q.no = sl.no /\ q.blocks = sl.blocks /\ q.state = sl.state /\ DOMAIN q = DOMAIN FreeSlice
  BY <1>1, SliceFields DEF NextRound, Cut
<1> HIDE DEF q
<1>3. nl.no = sl.no /\ nl.blocks = sl.blocks /\ nl.state = sl.state /\ DOMAIN nl = DOMAIN FreeSlice
  BY <1>2, SliceFields DEF NewRound
<1> HIDE DEF nl
<1>4. Cut(nl, size, sliceNo)
  BY <1>1, <1>3 DEF Cut
<1>5. sl.no \in 0..sliceNo - 1 /\ sl.blocks = size[sl.no]
  BY <1>1 DEF Cut, sl
<1>6. Honest(Reqack(q), size, sliceNo) /\ Reqack(q).type # "FEC"
  BY <1>2, <1>5, ReqackHonest
<1>7. Plain(<<Reqack(q)>>, size, sliceNo)
  BY <1>6, PlainOne
<1>8. slices' = [slices EXCEPT ![s] = nl] /\ down' = Multicast(down, <<Reqack(q)>>)
  BY DEF sl, q, nl
<1>9. DOMAIN slices' = Slots /\ \A t \in Slots : Cut(slices'[t], size, sliceNo)
  BY <1>4, <1>8 DEF Tables, Holds
<1>10. /\ DOMAIN down' = Receivers
       /\ \A r \in Receivers : \E p : Plain(p, size, sliceNo) /\ down'[r] = Arrive(down[r], p)
  BY <1>7, <1>8, MulticastPlain
<1> QED
  BY <1>9, <1>10 DEF OldSlices

LEMMA StagesKeep ==
  ASSUME Tables, NEW size \in Sizes, Holds(size),
         \/ ReReply \/ BlockOnData \/ Finish \/ Wait \/ Wake
         \/ \E s \in Slots : Ack(s) \/ Rexmit(s) \/ ReqackAnswered(s) \/ Expire(s)
  PROVE  OldSlices(size)
<1>1. CASE ReReply
  <2>1. Honest(Reply, size, sliceNo) /\ Reply.type # "FEC"
    BY DEF Honest, Reply
  <2>2. Plain(<<Reply>>, size, sliceNo)
    BY <2>1, PlainOne
  <2>3. /\ sliceNo' = sliceNo /\ slices' = slices
        /\ down' = [c \in Receivers |-> IF c \in ReplyTargets THEN Arrive(down[c], <<Reply>>) ELSE down[c]]
    BY <1>1 DEF ReReply, fillVars
  <2> DEFINE p == <<Reply>>
  <2> HIDE DEF p
  <2>4. \A r \in Receivers : down'[r] = down[r] \/ down'[r] = Arrive(down[r], p)
    BY <2>3 DEF p
  <2>5. Plain(p, size, sliceNo)
    BY <2>2 DEF p
  <2> QED
    BY <2>3, <2>4, <2>5 DEF OldSlices, Tables, Holds
<1>2. CASE BlockOnData \/ Finish \/ Wait \/ Wake
  <2>1. sliceNo' = sliceNo /\ slices' = slices /\ down' = down
    BY <1>2 DEF BlockOnData, Finish, Wait, Wake, fillVars
  <2> QED
    BY <2>1 DEF OldSlices, Tables, Holds
<1>3. ASSUME NEW s \in Slots, Ack(s)
      PROVE  OldSlices(size)
  <2>1. sliceNo' = sliceNo /\ slices' = [slices EXCEPT ![s] = FreeSlice] /\ down' = down
    BY <1>3 DEF Ack, fillVars
  <2>2. Cut(FreeSlice, size, sliceNo)
    BY DEF Cut, FreeSlice
  <2> QED
    BY <2>1, <2>2 DEF OldSlices, Tables, Holds
<1>4. ASSUME NEW s \in Slots, Rexmit(s)
      PROVE  OldSlices(size)
  <2>1. /\ sliceNo' = sliceNo /\ down' = Multicast(down, RexmitPackets(slices[s]))
        /\ slices' = [slices EXCEPT ![s].needRxmit = FALSE, ![s].isXmitted = @ \cup slices[s].rxmitMap]
    BY <1>4 DEF Rexmit, fillVars
  <2>2. slices[s].state = "Xmitted"
    BY <1>4 DEF Rexmit, IsOldest, Rexmitable, Pending
  <2>3. Plain(RexmitPackets(slices[s]), size, sliceNo)
    BY <2>2, RexmitPlain DEF Holds, Tables
  <2>4. /\ DOMAIN down' = Receivers
        /\ \A r \in Receivers : \E p : Plain(p, size, sliceNo) /\ down'[r] = Arrive(down[r], p)
    BY <2>1, <2>3, MulticastPlain
  <2>5. DOMAIN slices' = Slots /\ \A t \in Slots : Cut(slices'[t], size, sliceNo)
    BY <2>1, SliceFields DEF Tables, Holds, Cut
  <2> QED
    BY <2>1, <2>4, <2>5 DEF OldSlices
<1>5. ASSUME NEW s \in Slots, ReqackAnswered(s)
      PROVE  OldSlices(size)
  <2>1. slices[s].state = "Xmitted" /\ sliceNo' = sliceNo
    BY <1>5 DEF ReqackAnswered, IsOldest, Answered, Pending, fillVars
  <2>2. /\ slices' = [slices EXCEPT ![s] = NewRound(NextRound(slices[s]))]
        /\ down' = Multicast(down, <<Reqack(NextRound(slices[s]))>>)
    BY <1>5, Zenon DEF ReqackAnswered
  <2> QED
    BY <2>1, <2>2, AskedAgain
<1>6. ASSUME NEW s \in Slots, Expire(s)
      PROVE  OldSlices(size)
  <2>1. slices[s].state = "Xmitted" /\ sliceNo' = sliceNo
    BY <1>6 DEF Expire, IsOldest, Pending, fillVars
  <2>2. \/ slices' = slices /\ down' = down
        \/ /\ slices' = [slices EXCEPT ![s] = NewRound(NextRound(slices[s]))]
           /\ down' = Multicast(down, <<Reqack(NextRound(slices[s]))>>)
    BY <1>6, Zenon DEF Expire
  <2>3. CASE slices' = slices /\ down' = down
    BY <2>1, <2>3 DEF OldSlices, Tables, Holds
  <2> QED
    BY <2>1, <2>2, <2>3, AskedAgain
<1> QED
  BY <1>1, <1>2, <1>3, <1>4, <1>5, <1>6

LEMMA OldSlicesHold ==
  ASSUME Tables, NEW size \in Sizes, Holds(size), OldSlices(size), rcv' = rcv, held' = held
  PROVE  FecInv'
<1>1. Tables'
  BY DEF Tables, OldSlices
<1>2. ASSUME NEW r \in Receivers
      PROVE  Link(down'[r], rcv[r], size, sliceNo)
  <2>1. Link(down[r], rcv[r], size, sliceNo)
    BY DEF Holds
  <2>2. CASE down'[r] = down[r]
    BY <2>1, <2>2
  <2>3. CASE \E p : Plain(p, size, sliceNo) /\ down'[r] = Arrive(down[r], p)
    BY <2>1, <2>3, PlainLinks
  <2> QED
    BY <2>2, <2>3 DEF OldSlices
<1>3. Holds(size)'
  BY <1>2 DEF Holds, OldSlices
<1> QED
  BY <1>1, <1>3, Zenon DEF FecInv

LEMMA NewSliceHolds ==
  ASSUME Tables, NEW size \in Sizes, Holds(size), NEW s \in Slots, NEW n \in 0..MaxSlice, NewSlice(s, n),
         rcv' = rcv, held' = held
  PROVE  FecInv'
<1>1. PICK more \in Sizes :
        sliceNo \in Nat /\ more[sliceNo] = n /\ \A no \in 0..sliceNo - 1 : more[no] = size[no]
  <2> DEFINE f == [size EXCEPT ![sliceNo] = n]
  <2>1. sliceNo \in Nat /\ f \in Sizes /\ f[sliceNo] = n /\ \A no \in 0..sliceNo - 1 : f[no] = size[no]
    BY DEF Tables, Sizes
  <2> HIDE DEF f
  <2> QED
    BY <2>1
<1> DEFINE sl == [FreeSlice EXCEPT !.state = "Xmitted", !.no = sliceNo, !.base = takenPos, !.blocks = n]
           packets == [i \in 1..n |-> BlockPacket(sl, i - 1)] \o FecPackets(sl)
           N == sliceNo + 1
<1>2. /\ sl.state = "Xmitted" /\ sl.no = sliceNo /\ sl.blocks = n /\ DOMAIN sl = DOMAIN FreeSlice
  BY SliceFields
<1>3. sliceNo' = N
  BY DEF NewSlice
<1>4. \E p : /\ down' = Multicast(down, p) /\ (p = packets \/ p = Append(packets, Reqack(sl)))
             /\ (slices' = slices \/ slices' = [slices EXCEPT ![s] = sl])
  BY Zenon DEF NewSlice
<1> HIDE DEF sl
<1>5. Cut(sl, more, N)
  BY <1>1, <1>2 DEF Cut
<1>6. /\ \A m : Honest(m, size, sliceNo) => Honest(m, more, N)
      /\ \A sl1 : Cut(sl1, size, sliceNo) => Cut(sl1, more, N)
      /\ \A R : Sound(R, size, sliceNo) => Sound(R, more, N)
      /\ \A q, R : Link(q, R, size, sliceNo) => Link(q, R, more, N)
  BY <1>1, MoreSlices
<1>7. \A k \in 1..Len(packets) : packets[k].no = sliceNo
  <2> DEFINE M == sl.blocks
             data == [i \in 1..M |-> BlockPacket(sl, i - 1)]
             all == data \o FecPackets(sl)
  <2>1. M = n /\ M \in Nat
    BY <1>2
  <2>2. packets = all
    BY <2>1
  <2> HIDE DEF packets
  <2>3. \A k \in 1..Len(all) : all[k].no = sl.no
    BY <2>1, NewNames
  <2> QED
    BY <1>2, <2>2, <2>3
<1>8. ASSUME NEW r \in Receivers
      PROVE  Sound(rcv[r], more, N) /\ Link(down'[r], rcv[r], more, N)
  <2> DEFINE R == rcv[r]
             q == down[r]
  <2>1. Sound(R, size, sliceNo) /\ Link(q, R, size, sliceNo)
    BY DEF Holds
  <2>2. \A b : ~Took(R, sliceNo, b)
    <3> SUFFICES ASSUME NEW b, NEW i \in 1..RecvSlots, Keeps(R.slots[i], sliceNo, b) PROVE FALSE
      BY DEF Took
    <3>1. SlotSound(R.slots[i], size, sliceNo)
      BY <2>1 DEF Sound
    <3> QED
      BY <1>1, <3>1 DEF SlotSound, Keeps
  <2>3. Link(packets, R, more, N)
    <3>1. /\ N \in Nat /\ N - 1 = sliceNo /\ sl.no = N - 1 /\ sl.no \in 0..N - 1 /\ sl.blocks = more[N - 1]
          /\ sl.blocks \in Nat
      BY <1>1, <1>2
    <3> DEFINE M == sl.blocks
               data == [i \in 1..M |-> BlockPacket(sl, i - 1)]
    <3> HIDE DEF N
    <3>2. \A b : ~Took(R, N - 1, b)
      BY <2>2, <3>1
    <3> HIDE DEF R
    <3>3. Link(data \o FecPackets(sl), R, more, N)
      BY <3>1, <3>2, NewLinks
    <3> QED
      BY <1>2, <3>3
  <2>4. \A j \in 1..Len(q), k \in 1..Len(packets) : ~SameParity(q[j], packets[k])
    <3> SUFFICES ASSUME NEW j \in 1..Len(q), NEW k \in 1..Len(packets), SameParity(q[j], packets[k])
                 PROVE  FALSE
      OBVIOUS
    <3>1. Honest(q[j], size, sliceNo)
      BY <2>1 DEF Link
    <3>2. q[j].type = "FEC" /\ packets[k].no = q[j].no
      BY DEF SameParity
    <3>3. packets[k].no = sliceNo
      BY <1>7
    <3> QED
      BY <1>1, <3>1, <3>2, <3>3 DEF Honest
  <2> HIDE DEF packets, R, q
  <2>5. Link(q, R, more, N)
    BY <1>6, <2>1
  <2>6. Link(Append(packets, Reqack(sl)), R, more, N)
    <3>1. sl.no \in 0..N - 1 /\ sl.blocks = more[sl.no]
      BY <1>1, <1>2
    <3>2. Honest(Reqack(sl), more, N) /\ Reqack(sl).type # "FEC"
      BY <3>1, ReqackHonest
    <3> QED
      BY <2>3, <3>2, PlainLast
  <2>7. \A j \in 1..Len(q), k \in 1..Len(Append(packets, Reqack(sl))) :
          ~SameParity(q[j], Append(packets, Reqack(sl))[k])
    <3> DEFINE a == Append(packets, Reqack(sl))
    <3>1. /\ Len(a) = Len(packets) + 1 /\ a[Len(packets) + 1] = Reqack(sl)
          /\ \A k \in 1..Len(packets) : a[k] = packets[k]
      BY <2>3, OneMore DEF Link
    <3> HIDE DEF a
    <3>2. Len(packets) \in Nat
      BY <2>3 DEF Link, IsSeq
    <3>3. \A k \in 1..Len(a) : k \in 1..Len(packets) \/ k = Len(packets) + 1
      BY <3>1, <3>2
    <3>4. \A j : ~SameParity(q[j], Reqack(sl))
      BY DEF SameParity, Reqack
    <3>5. \A j \in 1..Len(q), k \in 1..Len(a) : ~SameParity(q[j], a[k])
      BY <2>4, <3>1, <3>3, <3>4
    <3> QED
      BY <3>5 DEF a
  <2>8. \A p : p = packets \/ p = Append(packets, Reqack(sl)) => Link(Arrive(q, p), R, more, N)
    BY <2>3, <2>4, <2>5, <2>6, <2>7, Linked
  <2>9. PICK p : down' = Multicast(down, p) /\ (p = packets \/ p = Append(packets, Reqack(sl)))
    BY <1>4 DEF packets
  <2>10. down'[r] = Arrive(q, p)
    BY <2>9 DEF Multicast, Tables, q
  <2> QED
    BY <1>6, <2>1, <2>8, <2>9, <2>10 DEF R
<1>9. DOMAIN slices' = Slots /\ \A t \in Slots : Cut(slices'[t], more, N)
  BY <1>4, <1>5, <1>6 DEF Tables, Holds
<1>10. DOMAIN down' = Receivers
  BY <1>4 DEF Multicast, Tables
<1>11. \A h \in held : Honest(h.packet, more, N) /\ h.packet.type # "FEC"
  BY <1>6 DEF Holds
<1>12. Tables'
  BY <1>1, <1>3, <1>9, <1>10 DEF Tables
<1>13. Holds(more)'
  BY <1>3, <1>8, <1>9, <1>11 DEF Holds
<1> QED
  BY <1>1, <1>12, <1>13, Zenon DEF FecInv

LEMMA DispatcherHolds ==
  ASSUME FecInv, DispatcherStep
  PROVE  FecInv'
<1>1. Tables /\ rcv' = rcv /\ held' = held
  BY DEF FecInv, DispatcherStep
<1>2. PICK size \in Sizes : Holds(size)
  BY DEF FecInv
<1>3. CASE HandleNextMessage
  BY <1>1, <1>2, <1>3, HandleKeeps, OldSlicesHold
<1>4. CASE \/ ReReply \/ BlockOnData \/ Finish \/ Wait \/ Wake
           \/ \E s \in Slots : Ack(s) \/ Rexmit(s) \/ ReqackAnswered(s) \/ Expire(s)
  BY <1>1, <1>2, <1>4, StagesKeep, OldSlicesHold
<1>5. ASSUME NEW s \in Slots, NEW n \in 0..MaxSlice, NewSlice(s, n)
      PROVE  FecInv'
  BY <1>1, <1>2, <1>5, NewSliceHolds
<1> QED
  BY <1>3, <1>4, <1>5, Zenon DEF DispatcherStep, Dispatcher

\* One receiver took a step, and perhaps read its first datagram.
LEMMA ReceiverHolds ==
  ASSUME Tables, NEW size \in Sizes, Holds(size), NEW r \in Receivers, NEW R, NEW q,
         Sound(R, size, sliceNo), Link(q, R, size, sliceNo),
         slices' = slices, sliceNo' = sliceNo, held' = held,
         DOMAIN rcv' = Receivers, rcv'[r] = R, \A p \in Receivers : p # r => rcv'[p] = rcv[p],
         DOMAIN down' = Receivers, down'[r] = q, \A p \in Receivers : p # r => down'[p] = down[p]
  PROVE  FecInv'
<1>1. Tables'
  BY DEF Tables
<1>2. Holds(size)'
  BY DEF Holds
<1> QED
  BY <1>1, <1>2, Zenon DEF FecInv

LEMMA LinkStays ==
  ASSUME NEW size, NEW n, NEW R, NEW q, Link(q, R, size, n), NEW Q, \A no, b : Took(Q, no, b) => Took(R, no, b)
  PROVE  Link(q, Q, size, n)
BY DEF Link

LEMMA ReceiverStepHolds ==
  ASSUME Encodable, FecInv, NEW r \in Receivers, ReceiverThreads(r) \/ WriterThread(r)
  PROVE  FecInv'
<1>1. Tables
  BY DEF FecInv
<1>2. PICK size \in Sizes : Holds(size)
  BY DEF FecInv
<1> DEFINE R == rcv[r]
           q == down[r]
           n == sliceNo
<1>3. Sound(R, size, n) /\ Link(q, R, size, n) /\ n \in Nat
  BY <1>1, <1>2 DEF Holds, Tables
<1>4. CASE ReceivePacket(r)
  <2>1. /\ q # <<>> /\ down' = Deliver(down, r)
        /\ rcv' = [rcv EXCEPT ![r] = ProcessPacket(R, Head(q)).rcv]
    BY <1>4, Zenon DEF ReceivePacket
  <2>2. slices' = slices /\ sliceNo' = sliceNo /\ held' = held
    BY <1>4 DEF ReceivePacket, senderState, fillVars
  <2> DEFINE Q == ProcessPacket(R, Head(q)).rcv
  <2>3. Honest(Head(q), size, n) /\ (Head(q).type = "FEC" => ~Took(R, Head(q).no, Head(q).block))
    <3>1. \A no, b : Took(R, no, b) =>
                  Took(R, no, b) \/ (Head(q).type = "FEC" /\ no = Head(q).no /\ b = Head(q).block)
      OBVIOUS
    <3> HIDE DEF R, q, n
    <3> QED
      BY <1>3, <2>1, <3>1, LinkRead
  <2>4. Takes(R, Head(q), size, n, Q)
    <3> HIDE DEF R, q, n
    <3> QED
      BY <1>2, <1>3, <2>3, PacketTaken DEF Q
  <2>5. rcv' = [rcv EXCEPT ![r] = Q] /\ down' = [down EXCEPT ![r] = Tail(q)]
    BY <2>1 DEF Deliver
  <2> HIDE DEF Q
  <2>6. Sound(Q, size, n) /\ Link(Tail(q), Q, size, n)
    <3>1. \A no, b : Took(Q, no, b) =>
                  Took(R, no, b) \/ (Head(q).type = "FEC" /\ no = Head(q).no /\ b = Head(q).block)
      BY <2>4 DEF Takes
    <3>2. Sound(Q, size, n)
      BY <2>4 DEF Takes
    <3> HIDE DEF R, q, n
    <3> QED
      BY <1>3, <2>1, <3>1, <3>2, LinkRead
  <2>7. /\ DOMAIN rcv' = Receivers /\ rcv'[r] = Q /\ \A p \in Receivers : p # r => rcv'[p] = rcv[p]
        /\ DOMAIN down' = Receivers /\ down'[r] = Tail(q) /\ \A p \in Receivers : p # r => down'[p] = down[p]
    BY <1>1, <2>5 DEF Tables
  <2> QED
    BY <1>1, <1>2, <2>2, <2>6, <2>7, ReceiverHolds
<1>5. CASE Sniff(r)
  <2> DEFINE Q == StartPacket(R, Head(q))
  <2>1. q # <<>> /\ down' = [down EXCEPT ![r] = Tail(q)] /\ rcv' = [rcv EXCEPT ![r] = Q]
    BY <1>5 DEF Sniff, Deliver
  <2>2. slices' = slices /\ sliceNo' = sliceNo /\ held' = held
    BY <1>5 DEF Sniff, senderState, fillVars, netVars
  <2>3. Honest(Head(q), size, n)
    <3>1. \A no, b : Took(R, no, b) =>
                  Took(R, no, b) \/ (Head(q).type = "FEC" /\ no = Head(q).no /\ b = Head(q).block)
      OBVIOUS
    <3> HIDE DEF R, q, n
    <3> QED
      BY <1>3, <2>1, <3>1, LinkRead
  <2>4. Sound(Q, size, n) /\ \A no, b : Took(Q, no, b) => Took(R, no, b)
    <3> HIDE DEF R, q, n
    <3> QED
      BY <1>2, <1>3, <2>3, StartPacketSound DEF Q
  <2> HIDE DEF Q
  <2>5. Link(Tail(q), Q, size, n)
    <3> HIDE DEF R, q, n
    <3> QED
      BY <1>3, <2>1, <2>4, LinkRead
  <2>6. /\ DOMAIN rcv' = Receivers /\ rcv'[r] = Q /\ \A p \in Receivers : p # r => rcv'[p] = rcv[p]
        /\ DOMAIN down' = Receivers /\ down'[r] = Tail(q) /\ \A p \in Receivers : p # r => down'[p] = down[p]
    BY <1>1, <2>1 DEF Tables
  <2> QED
    BY <1>1, <1>2, <2>2, <2>4, <2>5, <2>6, ReceiverHolds
<1>6. CASE Discard(r)
  <2>1. q # <<>> /\ down' = [down EXCEPT ![r] = Tail(q)] /\ rcv' = rcv
    BY <1>6 DEF Discard, Deliver
  <2>2. slices' = slices /\ sliceNo' = sliceNo /\ held' = held
    BY <1>6 DEF Discard, senderState, fillVars, netVars
  <2>3. Link(Tail(q), R, size, n)
    <3>1. \A no, b : Took(R, no, b) =>
                  Took(R, no, b) \/ (Head(q).type = "FEC" /\ no = Head(q).no /\ b = Head(q).block)
      OBVIOUS
    <3> HIDE DEF R, q, n
    <3> QED
      BY <1>3, <2>1, <3>1, LinkRead
  <2>4. /\ DOMAIN rcv' = Receivers /\ rcv'[r] = R /\ \A p \in Receivers : p # r => rcv'[p] = rcv[p]
        /\ DOMAIN down' = Receivers /\ down'[r] = Tail(q) /\ \A p \in Receivers : p # r => down'[p] = down[p]
    BY <1>1, <2>1 DEF Tables
  <2> QED
    BY <1>1, <1>2, <1>3, <2>2, <2>3, <2>4, ReceiverHolds
<1>7. CASE DrainExit(r) \/ Write(r) \/ FinishReceiver(r)
  <2>1. \E Q : /\ rcv' = [rcv EXCEPT ![r] = Q] /\ (Q = WriteBlock(R) \/ \E x : Q = [R EXCEPT !.phase = x])
    <3>1. CASE Write(r)
      BY <3>1, Zenon DEF Write
    <3>2. CASE DrainExit(r)
      <4>1. rcv' = [rcv EXCEPT ![r] = [R EXCEPT !.phase = "exited"]]
        BY <3>2 DEF DrainExit
      <4> QED
        BY <4>1, Zenon
    <3>3. CASE FinishReceiver(r)
      <4>1. rcv' = [rcv EXCEPT ![r] = [R EXCEPT !.phase = "finished"]]
        BY <3>3 DEF FinishReceiver
      <4> QED
        BY <4>1, Zenon
    <3> QED
      BY <1>7, <3>1, <3>2, <3>3
  <2>2. down' = down /\ slices' = slices /\ sliceNo' = sliceNo /\ held' = held
    BY <1>7 DEF DrainExit, Write, FinishReceiver, vars, sendVars, netVars
  <2>3. PICK Q : rcv' = [rcv EXCEPT ![r] = Q] /\ (Q = WriteBlock(R) \/ \E x : Q = [R EXCEPT !.phase = x])
    BY <2>1
  <2>4. Sound(Q, size, n) /\ Link(q, Q, size, n)
    <3> HIDE DEF R, q, n
    <3>1. Sound(Q, size, n) /\ \A no, b : Took(Q, no, b) => Took(R, no, b)
      <4>1. CASE Q = WriteBlock(R)
        BY <1>3, <4>1, OthersSound
      <4>2. ASSUME NEW x, Q = [R EXCEPT !.phase = x]
            PROVE  Sound(Q, size, n) /\ \A no, b : Took(Q, no, b) => Took(R, no, b)
        BY <1>3, <4>2, OthersSound
      <4> QED
        BY <2>3, <4>1, <4>2
    <3> QED
      BY <1>3, <3>1, LinkStays
  <2>5. /\ DOMAIN rcv' = Receivers /\ rcv'[r] = Q /\ \A p \in Receivers : p # r => rcv'[p] = rcv[p]
        /\ DOMAIN down' = Receivers /\ down'[r] = q /\ \A p \in Receivers : p # r => down'[p] = down[p]
    BY <1>1, <2>2, <2>3 DEF Tables
  <2> QED
    BY <1>1, <1>2, <2>2, <2>4, <2>5, ReceiverHolds
<1> QED
  BY <1>4, <1>5, <1>6, <1>7 DEF ReceiverThreads, WriterThread

\* What fails, and what the network does.  It does not duplicate parity.
LEMMA FailureHolds ==
  ASSUME Encodable, "FEC" \notin Duplicable, FecInv, NEW r \in Receivers, Failure(r)
  PROVE  FecInv'
<1>1. Tables
  BY DEF FecInv
<1>2. PICK size \in Sizes : Holds(size)
  BY DEF FecInv
<1> DEFINE R == rcv[r]
           q == down[r]
           n == sliceNo
<1>3. Sound(R, size, n) /\ Link(q, R, size, n) /\ n \in Nat
  BY <1>1, <1>2 DEF Holds, Tables
<1>4. CASE TimesOut(r) \/ Kill(r)
  <2> DEFINE Q == [R EXCEPT !.phase = "dead"]
  <2>1. /\ rcv' = [rcv EXCEPT ![r] = Q]
        /\ down' = down /\ slices' = slices /\ sliceNo' = sliceNo /\ held' = held
    BY <1>4 DEF TimesOut, Kill, vars, sendVars, netVars
  <2>2. Sound(Q, size, n) /\ Link(q, Q, size, n)
    <3> HIDE DEF R, q, n
    <3> QED
      BY <1>3, OthersSound, LinkStays
  <2> HIDE DEF Q
  <2>3. /\ DOMAIN rcv' = Receivers /\ rcv'[r] = Q /\ \A p \in Receivers : p # r => rcv'[p] = rcv[p]
        /\ DOMAIN down' = Receivers /\ down'[r] = q /\ \A p \in Receivers : p # r => down'[p] = down[p]
    BY <1>1, <2>1 DEF Tables
  <2> QED
    BY <1>1, <1>2, <2>1, <2>2, <2>3, ReceiverHolds
<1>5. \A no, b : Took(R, no, b) =>
                  Took(R, no, b) \/ (Head(q).type = "FEC" /\ no = Head(q).no /\ b = Head(q).block)
  OBVIOUS
<1>6. q # <<>> => Honest(Head(q), size, n) /\ Link(Tail(q), R, size, n)
  <2> HIDE DEF R, q, n
  <2> QED
    BY <1>3, <1>5, LinkRead
<1>7. CASE LoseDown(r)
  <2>1. q # <<>> /\ down' = [down EXCEPT ![r] = Tail(q)] /\ rcv' = rcv
    BY <1>7 DEF LoseDown, Deliver
  <2>2. slices' = slices /\ sliceNo' = sliceNo /\ held' = held
    BY <1>7 DEF LoseDown, senderState, fillVars
  <2>3. /\ DOMAIN rcv' = Receivers /\ rcv'[r] = R /\ \A p \in Receivers : p # r => rcv'[p] = rcv[p]
        /\ DOMAIN down' = Receivers /\ down'[r] = Tail(q) /\ \A p \in Receivers : p # r => down'[p] = down[p]
    BY <1>1, <2>1 DEF Tables
  <2> QED
    BY <1>1, <1>2, <1>3, <1>6, <2>1, <2>2, <2>3, ReceiverHolds
<1>8. CASE LoseUp(r)
  <2>1. down' = down /\ slices' = slices /\ sliceNo' = sliceNo /\ held' = held /\ rcv' = rcv
    BY <1>8 DEF LoseUp, vars, sendVars
  <2> QED
    BY <1>1, <1>2, <1>3, <2>1, ReceiverHolds DEF Tables
<1>9. CASE DupDown(r)
  <2> DEFINE m == Head(q)
             a == Arrive(<<m>>, q)
  <2>1. /\ q # <<>> /\ m.type # "FEC" /\ rcv' = rcv /\ slices' = slices /\ sliceNo' = sliceNo
        /\ \/ held' = held \cup {[to |-> r, packet |-> m]} /\ down' = down
           \/ down' = [down EXCEPT ![r] = a] /\ held' = held
    BY <1>9 DEF DupDown, senderState, fillVars
  <2> HIDE DEF m, a
  <2>2. Honest(m, size, n)
    BY <1>6, <2>1 DEF m
  <2>3. CASE held' = held \cup {[to |-> r, packet |-> m]} /\ down' = down
    <3>1. \A h \in held' : Honest(h.packet, size, n) /\ h.packet.type # "FEC"
      BY <1>2, <2>1, <2>2, <2>3 DEF Holds
    <3>2. Holds(size)'
      BY <1>2, <2>1, <2>3, <3>1 DEF Holds
    <3>3. Tables'
      BY <1>1, <2>1, <2>3 DEF Tables
    <3> QED
      BY <3>2, <3>3, Zenon DEF FecInv
  <2>4. CASE down' = [down EXCEPT ![r] = a] /\ held' = held
    <3>1. Link(a, R, size, n)
      <4> HIDE DEF R, q, n
      <4>1. Plain(<<m>>, size, n)
        BY <2>1, <2>2, PlainOne
      <4> QED
        BY <1>3, <4>1, PlainLinks DEF a
    <3>2. /\ DOMAIN rcv' = Receivers /\ rcv'[r] = R /\ \A p \in Receivers : p # r => rcv'[p] = rcv[p]
          /\ DOMAIN down' = Receivers /\ down'[r] = a /\ \A p \in Receivers : p # r => down'[p] = down[p]
      BY <1>1, <2>1, <2>4 DEF Tables
    <3> QED
      BY <1>1, <1>2, <1>3, <2>1, <2>4, <3>1, <3>2, ReceiverHolds
  <2> QED
    BY <2>1, <2>3, <2>4
<1>10. CASE DeliverCopy(r)
  <2>1. PICK h \in held : down' = [down EXCEPT ![r] = Arrive(@, <<h.packet>>)] /\ held' = held \ {h}
    BY <1>10 DEF DeliverCopy, Unicast
  <2>2. rcv' = rcv /\ slices' = slices /\ sliceNo' = sliceNo
    BY <1>10 DEF DeliverCopy, senderState, fillVars
  <2> DEFINE a == Arrive(q, <<h.packet>>)
  <2>3. Link(a, R, size, n)
    <3>1. Honest(h.packet, size, n) /\ h.packet.type # "FEC"
      BY <1>2 DEF Holds
    <3> HIDE DEF R, q, n
    <3>2. Plain(<<h.packet>>, size, n)
      BY <3>1, PlainOne
    <3> QED
      BY <1>3, <3>2, PlainLinks
  <2>4. down' = [down EXCEPT ![r] = a]
    BY <2>1
  <2> HIDE DEF a
  <2>5. DOMAIN down' = Receivers /\ down'[r] = a /\ \A p \in Receivers : p # r => down'[p] = down[p]
    BY <1>1, <2>4 DEF Tables
  <2>6. \A p \in Receivers : Link(down'[p], rcv[p], size, n)
    BY <1>2, <2>3, <2>5 DEF Holds
  <2>7. Holds(size)'
    BY <1>2, <2>1, <2>2, <2>6 DEF Holds
  <2>8. Tables'
    BY <1>1, <2>2, <2>5 DEF Tables
  <2> QED
    BY <2>7, <2>8, Zenon DEF FecInv
<1> QED
  BY <1>4, <1>7, <1>8, <1>9, <1>10 DEF Failure

LEMMA UnchangedHolds ==
  ASSUME FecInv, rcv' = rcv, down' = down, slices' = slices, sliceNo' = sliceNo, held' = held
  PROVE  FecInv'
BY DEF FecInv, Tables, Holds

LEMMA FecStep ==
  ASSUME Encodable, "FEC" \notin Duplicable, FecInv, [Next]_transferVars
  PROVE  FecInv'
<1>1. CASE DispatcherStep
  BY <1>1, DispatcherHolds
<1>2. CASE LocalReaderStep \/ RcPushStep
  <2>1. rcv' = rcv /\ down' = down /\ slices' = slices /\ sliceNo' = sliceNo /\ held' = held
    BY <1>2 DEF LocalReaderStep, RcPushStep, LocalReader, LocalRead, LocalEof, LocalStop, RcPush, fillVars, netVars
  <2> QED
    BY <2>1, UnchangedHolds
<1>3. ASSUME NEW r \in Receivers, RcStep(r)
      PROVE  FecInv'
  <2>1. rcv' = rcv /\ down' = down /\ slices' = slices /\ sliceNo' = sliceNo /\ held' = held
    BY <1>3 DEF RcStep, RcLookup, vars, sendVars, fillVars
  <2> QED
    BY <2>1, UnchangedHolds
<1>4. ASSUME NEW r \in Receivers, ReceiverThreads(r) \/ WriterThread(r)
      PROVE  FecInv'
  BY <1>4, ReceiverStepHolds
<1>5. ASSUME NEW r \in Receivers, Failure(r)
      PROVE  FecInv'
  BY <1>5, FailureHolds
<1>6. CASE UNCHANGED transferVars
  <2>1. rcv' = rcv /\ down' = down /\ slices' = slices /\ sliceNo' = sliceNo /\ held' = held
    BY <1>6 DEF transferVars, vars, sendVars, netVars
  <2> QED
    BY <2>1, UnchangedHolds
<1> QED
  BY <1>1, <1>2, <1>3, <1>4, <1>5, <1>6, Zenon DEF Next, Terminated

\* While parity is collected for a slice of known size, some stripe has more blocks
\* missing than parity rows arrived, for any number of stripes, parity blocks and
\* receivers, as long as the code's tables suffice (Encodable) and the network makes no
\* copies of parity blocks: check_slice_complete has recovered all that could be.
THEOREM FecRecovers ==
  ASSUME Encodable, "FEC" \notin Duplicable
  PROVE  Spec => []FecSuffices
<1>1. Init => FecInv
  BY FecInit
<1>2. FecInv /\ [Next]_transferVars => FecInv'
  BY FecStep
<1>3. FecInv => FecSuffices
  BY DEF FecInv, Holds, Sound, SlotSound, FecSuffices
<1> QED
  BY <1>1, <1>2, <1>3, PTL DEF Spec
=============================================================================
