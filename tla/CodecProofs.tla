------------------------------- MODULE CodecProofs -----------------------------
(***************************************************************************)
(* Proofs about the codec of incoming messages: which keys the library     *)
(* finds, that splitting loses nothing, and that what the car sent is what *)
(* every stage reads, for any commands, registers, data and keys.          *)
(***************************************************************************)
EXTENDS Codec, SequenceTheorems, WellFoundedInduction, TLAPS

-----------------------------------------------------------------------------
(* Bytes and their exclusive or, bit by bit.                               *)

LEMMA ByteDef == \A n : n \in Byte <=> n \in Nat /\ n < 256
  BY DEF Byte

Weights == {1, 2, 4, 8, 16, 32, 64, 128}
Bit(n, w) == (n \div w) % 2

LEMMA BitsOfSum ==
    ASSUME NEW x7 \in {0, 128}, NEW x6 \in {0, 64}, NEW x5 \in {0, 32}, NEW x4 \in {0, 16},
           NEW x3 \in {0, 8}, NEW x2 \in {0, 4}, NEW x1 \in {0, 2}, NEW x0 \in {0, 1},
           NEW s, s = x7 + x6 + x5 + x4 + x3 + x2 + x1 + x0
    PROVE  /\ s \in Nat /\ s < 256
           /\ Bit(s, 128) = x7 \div 128 /\ Bit(s, 64) = x6 \div 64
           /\ Bit(s, 32) = x5 \div 32 /\ Bit(s, 16) = x4 \div 16
           /\ Bit(s, 8) = x3 \div 8 /\ Bit(s, 4) = x2 \div 4
           /\ Bit(s, 2) = x1 \div 2 /\ Bit(s, 1) = x0 \div 1
  BY SMTT(40) DEF Bit

LEMMA BitsOfXOR ==
    ASSUME NEW a \in Byte, NEW b \in Byte
    PROVE  /\ XOR(a, b) \in Byte
           /\ \A w \in Weights : Bit(XOR(a, b), w) = IF Bit(a, w) = Bit(b, w) THEN 0 ELSE 1
<1>1. \A w : XORBit(a, b, w) \in {0, w}
  BY DEF XORBit
<1>2. XOR(a, b) = XORBit(a, b, 128) + XORBit(a, b, 64) + XORBit(a, b, 32) + XORBit(a, b, 16)
                      + XORBit(a, b, 8) + XORBit(a, b, 4) + XORBit(a, b, 2) + XORBit(a, b, 1)
  BY Zenon DEF XOR, XORTable
<1>3. /\ XOR(a, b) \in Nat /\ XOR(a, b) < 256
      /\ Bit(XOR(a, b), 128) = XORBit(a, b, 128) \div 128
      /\ Bit(XOR(a, b), 64) = XORBit(a, b, 64) \div 64
      /\ Bit(XOR(a, b), 32) = XORBit(a, b, 32) \div 32
      /\ Bit(XOR(a, b), 16) = XORBit(a, b, 16) \div 16
      /\ Bit(XOR(a, b), 8) = XORBit(a, b, 8) \div 8
      /\ Bit(XOR(a, b), 4) = XORBit(a, b, 4) \div 4
      /\ Bit(XOR(a, b), 2) = XORBit(a, b, 2) \div 2
      /\ Bit(XOR(a, b), 1) = XORBit(a, b, 1) \div 1
  BY <1>1, <1>2, BitsOfSum
<1>4. ASSUME NEW w \in Weights
      PROVE  XORBit(a, b, w) \div w = IF Bit(a, w) = Bit(b, w) THEN 0 ELSE 1
  BY DEF XORBit, Bit, Weights
<1>5. QED
  BY <1>3, <1>4, ByteDef DEF Weights

LEMMA SumOfBits ==
    ASSUME NEW n \in Byte
    PROVE  n = 128 * Bit(n, 128) + 64 * Bit(n, 64) + 32 * Bit(n, 32) + 16 * Bit(n, 16)
                   + 8 * Bit(n, 8) + 4 * Bit(n, 4) + 2 * Bit(n, 2) + Bit(n, 1)
<1>1. n \in Nat /\ n < 256
  BY ByteDef
<1>2. QED
  BY <1>1 DEF Bit

LEMMA SameBits ==
    ASSUME NEW a \in Byte, NEW b \in Byte, \A w \in Weights : Bit(a, w) = Bit(b, w)
    PROVE  a = b
  BY SumOfBits DEF Weights

LEMMA BitType == \A n \in Byte, w \in Weights : Bit(n, w) \in {0, 1}
  BY ByteDef DEF Bit, Weights

LEMMA XORType == \A a, b \in Byte : XOR(a, b) \in Byte
  BY BitsOfXOR

LEMMA XORZero == \A a \in Byte : XOR(a, 0) = a /\ XOR(a, a) = 0
<1> SUFFICES ASSUME NEW a \in Byte PROVE XOR(a, 0) = a /\ XOR(a, a) = 0
  OBVIOUS
<1>1. 0 \in Byte /\ \A w \in Weights : Bit(0, w) = 0
  BY ByteDef DEF Bit, Weights
<1>2. XOR(a, 0) = a
  BY <1>1, BitsOfXOR, BitType, SameBits
<1>3. XOR(a, a) = 0
  BY <1>1, BitsOfXOR, BitType, SameBits
<1>4. QED
  BY <1>2, <1>3

LEMMA XORCancels ==
    ASSUME NEW a \in Byte, NEW b \in Byte, NEW k \in Byte
    PROVE  XOR(XOR(a, k), XOR(b, k)) = XOR(a, b)
<1>1. XOR(a, k) \in Byte /\ XOR(b, k) \in Byte /\ XOR(a, b) \in Byte
  BY XORType
<1>2. ASSUME NEW w \in Weights
      PROVE  Bit(XOR(XOR(a, k), XOR(b, k)), w) = Bit(XOR(a, b), w)
  BY <1>1, BitsOfXOR, BitType
<1>3. QED
  BY <1>1, <1>2, XORType, SameBits

LEMMA XORCommutes ==
    ASSUME NEW a \in Byte, NEW b \in Byte
    PROVE  XOR(a, b) = XOR(b, a)
<1>1. ASSUME NEW w \in Weights PROVE Bit(XOR(a, b), w) = Bit(XOR(b, a), w)
  BY BitsOfXOR
<1>2. QED
  BY <1>1, XORType, SameBits

LEMMA XORTwice ==
    ASSUME NEW a \in Byte, NEW b \in Byte
    PROVE  XOR(XOR(a, b), b) = a /\ XOR(a, XOR(a, b)) = b
<1>1. 0 \in Byte
  BY ByteDef
<1>2. XOR(XOR(a, b), XOR(0, b)) = XOR(a, 0) /\ XOR(XOR(0, a), XOR(b, a)) = XOR(0, b)
  BY <1>1, XORCancels
<1>3. QED
  BY <1>1, <1>2, XORCommutes, XORZero

(* Exclusive or with one flips the last bit.                               *)
LEMMA XOROne ==
    ASSUME NEW a \in Byte
    PROVE  XOR(a, 1) = IF a % 2 = 0 THEN a + 1 ELSE a - 1
<1> DEFINE x == XOR(a, 1)
<1>1. 1 \in Byte /\ a \in Nat
  BY ByteDef
<1>2. x \in Byte /\ \A w \in Weights : Bit(x, w) = IF Bit(a, w) = Bit(1, w) THEN 0 ELSE 1
  BY <1>1, BitsOfXOR
<1> HIDE DEF x
<1>3. Bit(1, 1) = 1 /\ \A w \in Weights \ {1} : Bit(1, w) = 0
  BY DEF Bit, Weights
<1>4. /\ Bit(x, 128) = Bit(a, 128) /\ Bit(x, 64) = Bit(a, 64) /\ Bit(x, 32) = Bit(a, 32)
      /\ Bit(x, 16) = Bit(a, 16) /\ Bit(x, 8) = Bit(a, 8) /\ Bit(x, 4) = Bit(a, 4)
      /\ Bit(x, 2) = Bit(a, 2)
  BY <1>2, <1>3, BitType DEF Weights
<1>5. Bit(x, 1) = 1 - Bit(a, 1) /\ Bit(a, 1) \in {0, 1}
  BY <1>2, <1>3, BitType DEF Weights
<1> DEFINE high == 128 * Bit(a, 128) + 64 * Bit(a, 64) + 32 * Bit(a, 32) + 16 * Bit(a, 16)
                       + 8 * Bit(a, 8) + 4 * Bit(a, 4) + 2 * Bit(a, 2)
<1>6. high \in Nat /\ a = high + Bit(a, 1) /\ x = high + Bit(x, 1)
  <2>1. high \in Nat
    BY BitType DEF Weights
  <2>2. a = high + Bit(a, 1)
    BY SumOfBits
  <2>3. x = high + Bit(x, 1)
    BY <1>2, <1>4, SumOfBits
  <2>4. QED
    BY <2>1, <2>2, <2>3
<1>7. Bit(a, 1) = a % 2
  BY <1>1 DEF Bit
<1> HIDE DEF high
<1>8. x = IF a % 2 = 0 THEN a + 1 ELSE a - 1
  BY <1>1, <1>5, <1>6, <1>7
<1>9. QED
  BY <1>8 DEF x

-----------------------------------------------------------------------------
(* Recursion over the positions of a sequence.                             *)

LEMMA Least ==
    ASSUME NEW T \in SUBSET Nat, T # {}
    PROVE  \E x \in T : \A y \in T : x <= y
<1> DEFINE R == OpToRel(<, Nat)
<1>1. PICK x \in T : \A y \in T : <<y, x>> \notin R
  BY NatLessThanWellFounded, WFMin
<1> HIDE DEF R
<1>2. ASSUME NEW y \in T PROVE x <= y
  <2>1. <<y, x>> \notin R /\ y \in Nat /\ x \in Nat
    BY <1>1
  <2>2. y < x => <<y, x>> \in R
    BY <2>1 DEF R, OpToRel
  <2>3. QED
    BY <2>1, <2>2
<1>3. QED
  BY <1>2

(* g goes from base through n steps in S.                                  *)
Run(g, S, base, n, step) ==
    g \in [0 .. n -> S] /\ g[0] = base /\ \A i \in 1 .. n : g[i] = step[i][g[i - 1]]

LEMMA StepByStep ==
    ASSUME NEW S, NEW base \in S, NEW n \in Nat, NEW step \in [1 .. n -> [S -> S]]
    PROVE  \E g : Run(g, S, base, n, step)
<1> DEFINE Upto(m, g) == g \in [0 .. m -> S] /\ g[0] = base /\ \A i \in 1 .. m : g[i] = step[i][g[i - 1]]
           T == {m \in Nat : m <= n /\ ~\E g : Upto(m, g)}
<1> SUFFICES ASSUME T # {} PROVE FALSE
  <2>1. n \notin T => \E g : Upto(n, g)
    OBVIOUS
  <2>2. QED
    BY <2>1 DEF Run
<1>1. PICK m \in T : \A y \in T : m <= y
  <2>1. T \subseteq Nat
    OBVIOUS
  <2> HIDE DEF T
  <2>2. QED
    BY <2>1, Least
<1>2. m # 0
  <2>1. Upto(0, [i \in 0 .. 0 |-> base])
    OBVIOUS
  <2>2. QED
    BY <2>1
<1>3. PICK g : Upto(m - 1, g)
  <2>1. m - 1 \in Nat /\ ~(m <= m - 1) /\ m - 1 <= n
    BY <1>2
  <2>2. m - 1 \notin T
    BY <1>1, <2>1
  <2>3. QED
    BY <2>1, <2>2
<1> DEFINE h == [i \in 0 .. m |-> IF i = m THEN step[m][g[m - 1]] ELSE g[i]]
<1>4. m \in Nat /\ m \in 1 .. n
  BY <1>2
<1>5. step[m] \in [S -> S] /\ g[m - 1] \in S
  BY <1>3, <1>4
<1>6. h \in [0 .. m -> S]
  BY <1>3, <1>4, <1>5
<1>7. h[0] = base
  BY <1>3, <1>4
<1>8. ASSUME NEW i \in 1 .. m PROVE h[i] = step[i][h[i - 1]]
  <2>1. CASE i = m
    BY <1>4, <2>1
  <2>2. CASE i # m
    <3>1. i \in 1 .. (m - 1) /\ i - 1 \in 0 .. (m - 1) /\ i - 1 # m
      BY <1>4, <2>2
    <3>2. QED
      BY <1>3, <1>4, <2>2, <3>1
  <2>3. QED
    BY <2>1, <2>2
<1>9. Upto(m, h)
  BY <1>6, <1>7, <1>8
<1>10. QED
  BY <1>9

LEMMA Checksummed ==
    ASSUME NEW s \in Seq(Byte)
    PROVE  \E g \in [0 .. Len(s) -> Byte] :
               /\ g[0] = 0 /\ \A i \in 1 .. Len(s) : g[i] = (s[i] + g[i - 1]) % 256
               /\ Checksum(s) = g[Len(s)]
<1> DEFINE Sum(f) == f = [i \in 0 .. Len(s) |-> IF i = 0 THEN 0 ELSE (s[i] + f[i - 1]) % 256]
           step == [i \in 1 .. Len(s) |-> [b \in Byte |-> (s[i] + b) % 256]]
<1>1. Len(s) \in Nat
  OBVIOUS
<1>2. step \in [1 .. Len(s) -> [Byte -> Byte]]
  <2>1. ASSUME NEW i \in 1 .. Len(s), NEW b \in Byte PROVE (s[i] + b) % 256 \in Byte
    <3>1. s[i] \in Byte
      OBVIOUS
    <3>2. QED
      BY <3>1, ByteDef
  <2>2. QED
    BY <2>1
<1>3. 0 \in Byte
  BY ByteDef
<1> HIDE DEF step
<1>4. PICK g \in [0 .. Len(s) -> Byte] :
          g[0] = 0 /\ \A i \in 1 .. Len(s) : g[i] = (s[i] + g[i - 1]) % 256
  <2>1. PICK g : Run(g, Byte, 0, Len(s), step)
    BY <1>1, <1>2, <1>3, StepByStep
  <2>2. ASSUME NEW i \in 1 .. Len(s) PROVE g[i] = (s[i] + g[i - 1]) % 256
    <3>1. g[i - 1] \in Byte
      BY <2>1 DEF Run
    <3>2. QED
      BY <2>1, <3>1 DEF Run, step
  <2>3. QED
    BY <2>1, <2>2 DEF Run
<1>5. Sum(g)
  <2>1. ASSUME NEW i \in 0 .. Len(s), i # 0 PROVE g[i] = (s[i] + g[i - 1]) % 256
    <3>1. i \in 1 .. Len(s) /\ i - 1 \in 0 .. Len(s)
      BY <1>1, <2>1
    <3>2. QED
      BY <1>4, <3>1
  <2>2. QED
    BY <1>4, <2>1
<1>6. ASSUME NEW f, Sum(f) PROVE f = g
  <2> DEFINE T == {i \in Nat : i <= Len(s) /\ f[i] # g[i]}
  <2>1. T = {}
    <3> SUFFICES ASSUME T # {} PROVE FALSE
      OBVIOUS
    <3>1. PICK m \in T : \A y \in T : m <= y
      <4>1. T \subseteq Nat
        OBVIOUS
      <4> HIDE DEF T
      <4>2. QED
        BY <4>1, Least
    <3>2. m # 0
      BY <1>1, <1>4, <1>6
    <3>3. m - 1 \in Nat /\ f[m - 1] = g[m - 1]
      BY <1>1, <3>1, <3>2
    <3>4. m \in 0 .. Len(s)
      BY <1>1
    <3>5. f[m] = (s[m] + f[m - 1]) % 256 /\ g[m] = (s[m] + g[m - 1]) % 256
      <4>1. ASSUME NEW h, Sum(h) PROVE h[m] = (s[m] + h[m - 1]) % 256
        <5>1. h[m] = IF m = 0 THEN 0 ELSE (s[m] + h[m - 1]) % 256
          BY <3>4, <4>1
        <5>2. QED
          BY <3>2, <5>1
      <4> HIDE DEF Sum, T
      <4>2. QED
        BY <1>5, <1>6, <4>1
    <3>6. QED
      BY <3>1, <3>3, <3>5
  <2>2. \A i \in 0 .. Len(s) : f[i] = g[i]
    BY <1>1, <2>1
  <2>3. QED
    BY <1>6, <2>2
<1>7. Checksum(s) = (CHOOSE f : Sum(f))[Len(s)]
  BY DEF Checksum
<1>8. QED
  <2> HIDE DEF Sum
  <2>1. (CHOOSE f : Sum(f)) = g
    BY <1>5, <1>6
  <2>2. Checksum(s) = g[Len(s)]
    BY <1>7, <2>1
  <2>3. QED
    BY <1>4, <2>2

LEMMA ChecksumType == \A s \in Seq(Byte) : Checksum(s) \in Byte
<1> SUFFICES ASSUME NEW s \in Seq(Byte) PROVE Checksum(s) \in Byte
  OBVIOUS
<1>1. PICK g \in [0 .. Len(s) -> Byte] : Checksum(s) = g[Len(s)]
  BY Checksummed
<1>2. QED
  BY <1>1

(* g[i] is what the first i sequences of ss make, one after the other.     *)
Flattening(g, ss) == g[0] = << >> /\ \A i \in 1 .. Len(ss) : g[i] = g[i - 1] \o ss[i]

LEMMA Flattened ==
    ASSUME NEW S, NEW ss \in Seq(Seq(S))
    PROVE  \E g \in [0 .. Len(ss) -> Seq(S)] :
               Flattening(g, ss) /\ FlattenSeq(ss) = g[Len(ss)]
<1> DEFINE step == [i \in 1 .. Len(ss) |-> [u \in Seq(S) |-> u \o ss[i]]]
           Flat(f) == f = [i \in 1 .. Len(ss) |-> IF i = 1 THEN ss[i] ELSE f[i - 1] \o ss[i]]
<1>1. Len(ss) \in Nat /\ << >> \in Seq(S) /\ \A i \in 1 .. Len(ss) : ss[i] \in Seq(S)
  OBVIOUS
<1>2. step \in [1 .. Len(ss) -> [Seq(S) -> Seq(S)]]
  BY <1>1
<1> HIDE DEF step
<1>3. PICK g : Run(g, Seq(S), << >>, Len(ss), step)
  BY <1>1, <1>2, StepByStep
<1>4. g \in [0 .. Len(ss) -> Seq(S)] /\ Flattening(g, ss)
  <2>1. ASSUME NEW i \in 1 .. Len(ss) PROVE g[i] = g[i - 1] \o ss[i]
    <3> HIDE DEF Flat
    <3>a. i - 1 \in 0 .. Len(ss)
      BY <1>1
    <3>1. g[i - 1] \in Seq(S)
      BY <1>3, <3>a DEF Run
    <3>2. step[i][g[i - 1]] = g[i - 1] \o ss[i]
      BY <3>1 DEF step
    <3>3. QED
      BY <1>3, <3>2 DEF Run
  <2>2. QED
    BY <1>3, <2>1 DEF Run, Flattening
<1>5. CASE Len(ss) = 0
  BY <1>4, <1>5 DEF FlattenSeq, Flattening
<1>6. CASE Len(ss) # 0
  <2> DEFINE h == [i \in 1 .. Len(ss) |-> g[i]]
  <2>1. Flat(h)
    <3>1. ASSUME NEW i \in 1 .. Len(ss), i = 1 PROVE h[i] = ss[i]
      <4> HIDE DEF Flat
      <4>1. 1 \in 1 .. Len(ss) /\ 1 - 1 = 0
        BY <3>1
      <4>2. g[1] = << >> \o ss[1]
        BY <1>4, <4>1 DEF Flattening
      <4>3. << >> \o ss[1] = ss[1]
        BY <1>1, <4>1
      <4>4. QED
        BY <3>1, <4>1, <4>2, <4>3
    <3>2. ASSUME NEW i \in 1 .. Len(ss), i # 1 PROVE h[i] = h[i - 1] \o ss[i]
      <4>1. i - 1 \in 1 .. Len(ss)
        BY <1>1, <3>2
      <4>2. QED
        BY <1>4, <4>1 DEF Flattening
    <3>3. QED
      BY <3>1, <3>2
  <2>2. ASSUME NEW f, Flat(f) PROVE f = h
    <3> DEFINE T == {i \in Nat : i \in 1 .. Len(ss) /\ f[i] # h[i]}
    <3>1. T = {}
      <4> SUFFICES ASSUME T # {} PROVE FALSE
        OBVIOUS
      <4>1. PICK m \in T : \A y \in T : m <= y
        <5>1. T \subseteq Nat
          OBVIOUS
        <5> HIDE DEF T
        <5>2. QED
          BY <5>1, Least
      <4>2. m \in 1 .. Len(ss) /\ f[m] # h[m]
        BY <4>1
      <4>3. m # 1
        BY <2>1, <2>2, <4>2
      <4>4. m - 1 \in 1 .. Len(ss) /\ m - 1 \notin T
        BY <1>1, <4>1, <4>2, <4>3
      <4>5. f[m - 1] = h[m - 1]
        BY <4>4
      <4>6. f[m] = f[m - 1] \o ss[m] /\ h[m] = h[m - 1] \o ss[m]
        <5> HIDE DEF h
        <5>1. QED
          BY <2>1, <2>2, <4>2, <4>3
      <4>7. QED
        BY <4>2, <4>5, <4>6
    <3>2. ASSUME NEW i \in 1 .. Len(ss) PROVE f[i] = h[i]
      <4>1. i \in Nat
        BY <1>1
      <4> HIDE DEF h
      <4>2. QED
        BY <3>1, <4>1
    <3>3. QED
      BY <2>2, <3>2
  <2>3. FlattenSeq(ss) = (CHOOSE f : Flat(f))[Len(ss)]
    BY <1>6 DEF FlattenSeq
  <2>4. (CHOOSE f : Flat(f)) = h
    <3> HIDE DEF Flat, h
    <3>1. QED
      BY <2>1, <2>2
  <2>5. Len(ss) \in 1 .. Len(ss)
    BY <1>1, <1>6
  <2>6. QED
    BY <1>4, <2>3, <2>4, <2>5
<1>7. QED
  BY <1>4, <1>5, <1>6

LEMMA FlatteningsAgree ==
    ASSUME NEW ss, NEW tt, NEW g, NEW h, Flattening(g, ss), Flattening(h, tt),
           Len(ss) \in Nat, Len(tt) \in Nat,
           NEW n \in Nat, n <= Len(ss), n <= Len(tt), \A i \in 1 .. n : ss[i] = tt[i]
    PROVE  g[n] = h[n]
<1> DEFINE T == {i \in Nat : i <= n /\ g[i] # h[i]}
<1> SUFFICES ASSUME T # {} PROVE FALSE
  OBVIOUS
<1>1. PICK m \in T : \A y \in T : m <= y
  <2>1. T \subseteq Nat
    OBVIOUS
  <2> HIDE DEF T
  <2>2. QED
    BY <2>1, Least
<1>2. m # 0
  BY DEF Flattening
<1>3. m - 1 \in Nat /\ m - 1 \notin T
  BY <1>1, <1>2
<1>4. g[m - 1] = h[m - 1]
  BY <1>3
<1>5. m \in 1 .. n /\ m \in 1 .. Len(ss) /\ m \in 1 .. Len(tt)
  BY <1>2
<1>6. g[m] = g[m - 1] \o ss[m] /\ h[m] = h[m - 1] \o tt[m]
  BY <1>5 DEF Flattening
<1>7. QED
  BY <1>4, <1>5, <1>6

LEMMA FlattenEmpty == FlattenSeq(<< >>) = << >>
  BY DEF FlattenSeq

LEMMA FlattenType ==
    ASSUME NEW S, NEW ss \in Seq(Seq(S))
    PROVE  FlattenSeq(ss) \in Seq(S)
<1>1. PICK g \in [0 .. Len(ss) -> Seq(S)] : FlattenSeq(ss) = g[Len(ss)]
  BY Flattened
<1>2. QED
  BY <1>1

LEMMA FlattenAppend ==
    ASSUME NEW S, NEW ss \in Seq(Seq(S)), NEW t \in Seq(S)
    PROVE  FlattenSeq(Append(ss, t)) = FlattenSeq(ss) \o t
<1> DEFINE tt == Append(ss, t)
<1>1. tt \in Seq(Seq(S)) /\ Len(tt) = Len(ss) + 1 /\ Len(ss) \in Nat
  OBVIOUS
<1>2. \A i \in 1 .. Len(ss) : tt[i] = ss[i]
  OBVIOUS
<1>3. tt[Len(tt)] = t
  OBVIOUS
<1> HIDE DEF tt
<1>4. PICK g \in [0 .. Len(ss) -> Seq(S)] : Flattening(g, ss) /\ FlattenSeq(ss) = g[Len(ss)]
  BY Flattened
<1>5. PICK h \in [0 .. Len(tt) -> Seq(S)] : Flattening(h, tt) /\ FlattenSeq(tt) = h[Len(tt)]
  BY <1>1, Flattened
<1>6. g[Len(ss)] = h[Len(ss)]
  <2> DEFINE n == Len(ss)
  <2>1. /\ n \in Nat /\ n <= Len(ss) /\ n <= Len(tt) /\ Len(ss) \in Nat /\ Len(tt) \in Nat
        /\ \A i \in 1 .. n : ss[i] = tt[i]
    BY <1>1, <1>2
  <2> HIDE DEF n
  <2>2. g[n] = h[n]
    BY <1>4, <1>5, <2>1, FlatteningsAgree
  <2>3. QED
    BY <2>2 DEF n
<1>7. h[Len(tt)] = h[Len(ss)] \o tt[Len(tt)]
  <2>1. Len(tt) \in 1 .. Len(tt) /\ Len(tt) - 1 = Len(ss)
    BY <1>1
  <2>2. QED
    BY <1>5, <2>1 DEF Flattening
<1>8. QED
  BY <1>3, <1>4, <1>5, <1>6, <1>7 DEF tt

(* The part of a flattened sequence that its (k+1)-st sequence makes.      *)
LEMMA FlattenPart ==
    ASSUME NEW S, NEW ss \in Seq(Seq(S)), NEW tt \in Seq(Seq(S)), Len(tt) < Len(ss),
           \A i \in 1 .. Len(tt) : ss[i] = tt[i]
    PROVE  LET p == Len(FlattenSeq(tt))
               u == ss[Len(tt) + 1]
           IN  /\ p + Len(u) <= Len(FlattenSeq(ss))
               /\ \A j \in 1 .. Len(u) : FlattenSeq(ss)[p + j] = u[j]
<1> DEFINE k == Len(tt)
           u == ss[k + 1]
<1>1. k \in Nat /\ Len(ss) \in Nat /\ u \in Seq(S)
  OBVIOUS
<1>2. PICK g \in [0 .. Len(ss) -> Seq(S)] : Flattening(g, ss) /\ FlattenSeq(ss) = g[Len(ss)]
  BY Flattened
<1>3. PICK h \in [0 .. Len(tt) -> Seq(S)] : Flattening(h, tt) /\ FlattenSeq(tt) = h[Len(tt)]
  BY Flattened
<1>4. g[k] = FlattenSeq(tt) /\ g[k] \in Seq(S)
  <2>1. /\ k \in Nat /\ k <= Len(ss) /\ k <= Len(tt) /\ Len(ss) \in Nat /\ Len(tt) \in Nat
        /\ \A i \in 1 .. k : ss[i] = tt[i]
    BY <1>1
  <2>2. k \in 0 .. Len(ss) /\ h[k] = FlattenSeq(tt)
    BY <1>3, <2>1
  <2>3. Flattening(g, ss) /\ Flattening(h, tt)
    BY <1>2, <1>3
  <2> HIDE DEF k, u
  <2>4. g[k] = h[k]
    BY ONLY <2>1, <2>3, FlatteningsAgree
  <2>5. QED
    BY <2>2, <2>4
<1> DEFINE p == Len(g[k])
           Holds(m) == /\ p + Len(u) <= Len(g[m])
                       /\ \A j \in 1 .. Len(u) : g[m][p + j] = u[j]
           T == {m \in Nat : m \in (k + 1) .. Len(ss) /\ ~Holds(m)}
<1>5. Holds(k + 1)
  <2>1. g[k + 1] = g[k] \o u
    <3>1. k + 1 \in 1 .. Len(ss) /\ (k + 1) - 1 = k
      BY <1>1
    <3>2. QED
      BY <1>2, <3>1 DEF Flattening
  <2> HIDE DEF k, u
  <2>2. QED
    BY <1>1, <1>4, <2>1
<1>6. ASSUME NEW m \in (k + 1) .. Len(ss), m # k + 1, Holds(m - 1) PROVE Holds(m)
  <2>1. m \in 1 .. Len(ss) /\ m - 1 \in 0 .. Len(ss)
    BY <1>1, <1>6
  <2>3. p \in Nat /\ Len(u) \in Nat
    BY <1>1, <1>4
  <2> HIDE DEF k, u, p, T
  <2>4. p + Len(u) <= Len(g[m - 1]) /\ \A j \in 1 .. Len(u) : g[m - 1][p + j] = u[j]
    BY <1>6
  <2> HIDE DEF Holds
  <2>2. g[m] = g[m - 1] \o ss[m]
    BY <1>2, <2>1 DEF Flattening
  <2>5. g[m - 1] \in Seq(S) /\ ss[m] \in Seq(S)
    BY <2>1
  <2>6. Len(g[m]) = Len(g[m - 1]) + Len(ss[m]) /\ Len(g[m - 1]) \in Nat /\ Len(ss[m]) \in Nat
    BY <2>2, <2>5
  <2>7. ASSUME NEW j \in 1 .. Len(u) PROVE g[m][p + j] = u[j]
    <3>1. p + j \in 1 .. Len(g[m - 1])
      BY <2>3, <2>4, <2>6
    <3>2. g[m][p + j] = g[m - 1][p + j]
      BY <2>2, <2>5, <3>1
    <3>3. QED
      BY <2>4, <3>2
  <2>8. p + Len(u) <= Len(g[m])
    <3>1. p + Len(u) <= Len(g[m - 1])
      BY <2>4
    <3>2. \A a, b, c, d \in Nat : a + b <= c => a + b <= c + d
      OBVIOUS
    <3>3. p + Len(u) <= Len(g[m - 1]) + Len(ss[m])
      BY <2>3, <2>6, <3>1, <3>2
    <3>4. QED
      BY <2>6, <3>3
  <2>9. QED
    BY <2>7, <2>8 DEF Holds
<1>7. T = {}
  <2> SUFFICES ASSUME T # {} PROVE FALSE
    OBVIOUS
  <2>1. PICK m \in T : \A y \in T : m <= y
    <3>1. T \subseteq Nat
      OBVIOUS
    <3> HIDE DEF T
    <3>2. QED
      BY <3>1, Least
  <2> HIDE DEF Holds
  <2>2. m \in (k + 1) .. Len(ss) /\ ~Holds(m) /\ m # k + 1
    BY <1>5, <2>1
  <2> HIDE DEF k
  <2>3. m - 1 \in Nat /\ m - 1 \in (k + 1) .. Len(ss) /\ m - 1 \notin T
    BY <1>1, <2>1, <2>2
  <2>4. QED
    BY <1>6, <2>2, <2>3
<1>8. Len(ss) \in (k + 1) .. Len(ss)
  BY <1>1
<1>9. Holds(Len(ss))
  <2> HIDE DEF Holds
  <2>1. QED
    BY <1>1, <1>7, <1>8
<1>10. QED
  BY <1>2, <1>4, <1>9

-----------------------------------------------------------------------------
(* Messages and their bytes.                                               *)

LEMMA ConcatParts ==
    ASSUME NEW S, NEW s \in Seq(S), NEW t \in Seq(S)
    PROVE  /\ s \o t \in Seq(S) /\ Len(s \o t) = Len(s) + Len(t)
           /\ \A i \in 1 .. Len(s) : (s \o t)[i] = s[i]
           /\ \A i \in 1 .. Len(t) : (s \o t)[Len(s) + i] = t[i]
  OBVIOUS

LEMMA CommandType == IncomingCommands \subseteq Byte /\ 0 \notin IncomingCommands
  BY ByteDef DEF IncomingCommands

LEMMA MessageType ==
    ASSUME NEW m \in Message
    PROVE  /\ m.command \in IncomingCommands /\ m.command \in Byte
           /\ m.type \in {0, 1} /\ m.type \in Byte
           /\ m.register \in Byte /\ m.xor \in Byte
           /\ m.data \in Seq(Byte) /\ Len(m.data) + 3 \in Byte
<1>1. /\ m.command \in CarCommands /\ m.type \in {0, 1} /\ m.register \in Registers
      /\ m.data \in Values /\ m.xor \in Keys
  BY DEF Message, REQUEST_TYPE, RESPONSE_TYPE
<1>2. m.type \in Byte
  BY <1>1, ByteDef
<1>3. QED
  BY <1>1, <1>2, CommandType, CodecAssumption

LEMMA XoredType ==
    ASSUME NEW s \in Seq(Byte), NEW key \in Byte
    PROVE  /\ Xored(s, key) \in Seq(Byte) /\ Len(Xored(s, key)) = Len(s)
           /\ \A i \in 1 .. Len(s) : Xored(s, key)[i] = XOR(s[i], key)
<1>1. DOMAIN s = 1 .. Len(s) /\ Len(s) \in Nat
  OBVIOUS
<1>2. ASSUME NEW i \in 1 .. Len(s) PROVE XOR(s[i], key) \in Byte
  BY XORType
<1>3. Xored(s, key) = [i \in 1 .. Len(s) |-> XOR(s[i], key)]
  BY <1>1 DEF Xored
<1>4. QED
  BY <1>1, <1>2, <1>3

LEMMA XoredTwice ==
    ASSUME NEW s \in Seq(Byte), NEW key \in Byte
    PROVE  Xored(Xored(s, key), key) = s
<1> DEFINE t == Xored(s, key)
           u == Xored(t, key)
<1>1. t \in Seq(Byte) /\ Len(t) = Len(s) /\ \A i \in 1 .. Len(s) : t[i] = XOR(s[i], key)
  BY XoredType
<1> HIDE DEF t
<1>2. u \in Seq(Byte) /\ Len(u) = Len(s) /\ \A i \in 1 .. Len(s) : u[i] = XOR(t[i], key)
  BY <1>1, XoredType
<1> HIDE DEF u
<1>3. ASSUME NEW i \in 1 .. Len(s) PROVE u[i] = s[i]
  BY <1>1, <1>2, XORTwice
<1>4. u = s
  BY <1>2, <1>3, SeqEqual
<1>5. QED
  BY <1>4 DEF t, u

LEMMA XoredZero ==
    ASSUME NEW s \in Seq(Byte)
    PROVE  Xored(s, 0) = s
<1> DEFINE t == Xored(s, 0)
<1>1. 0 \in Byte
  BY ByteDef
<1>2. t \in Seq(Byte) /\ Len(t) = Len(s) /\ \A i \in 1 .. Len(s) : t[i] = XOR(s[i], 0)
  BY <1>1, XoredType
<1> HIDE DEF t
<1>3. ASSUME NEW i \in 1 .. Len(s) PROVE t[i] = s[i]
  BY <1>2, XORZero
<1>4. t = s
  BY <1>2, <1>3, SeqEqual
<1>5. QED
  BY <1>4 DEF t

(* A message before it is encoded.                                         *)
Head4(m) == <<m.command, Len(m.data) + 3, m.type, m.register>>
Plain(m) == Append(Head4(m) \o m.data, Checksum(Head4(m) \o m.data))

LEMMA PlainType ==
    ASSUME NEW m \in Message
    PROVE  /\ Plain(m) \in Seq(Byte) /\ Len(Plain(m)) = Len(m.data) + 5
           /\ Plain(m)[1] = m.command /\ Plain(m)[2] = Len(m.data) + 3
           /\ Plain(m)[3] = m.type /\ Plain(m)[4] = m.register
           /\ SubSeq(Plain(m), 5, Len(m.data) + 4) = m.data
           /\ Front(Plain(m)) = Head4(m) \o m.data
           /\ Last(Plain(m)) = Checksum(Head4(m) \o m.data)
<1> DEFINE h == Head4(m)
           b == h \o m.data
           p == Append(b, Checksum(b))
<1>1. h \in Seq(Byte) /\ Len(h) = 4
  BY MessageType DEF Head4
<1>2. h[1] = m.command /\ h[2] = Len(m.data) + 3 /\ h[3] = m.type /\ h[4] = m.register
  BY DEF Head4
<1>3. m.data \in Seq(Byte) /\ Len(m.data) \in Nat
  BY MessageType
<1> HIDE DEF h
<1>4. /\ b \in Seq(Byte) /\ Len(b) = Len(m.data) + 4
      /\ \A i \in 1 .. 4 : b[i] = h[i]
      /\ \A i \in 1 .. Len(m.data) : b[i + 4] = m.data[i]
  <2> DEFINE d == m.data
  <2>1. h \in Seq(Byte) /\ d \in Seq(Byte) /\ Len(d) \in Nat
    BY <1>1, <1>3
  <2> HIDE DEF d
  <2>2. b = h \o d
    BY DEF d
  <2> HIDE DEF b, p
  <2>3. /\ h \o d \in Seq(Byte) /\ Len(h \o d) = Len(h) + Len(d)
        /\ \A i \in 1 .. Len(h) : (h \o d)[i] = h[i]
        /\ \A i \in 1 .. Len(d) : (h \o d)[Len(h) + i] = d[i]
    BY <2>1, ConcatParts
  <2>4. ASSUME NEW i \in 1 .. Len(d) PROVE (h \o d)[i + 4] = d[i]
    <3>1. Len(h) + i = i + 4
      BY <1>1
    <3>2. QED
      BY <2>3, <3>1
  <2>5. QED
    BY <1>1, <2>1, <2>2, <2>3, <2>4 DEF d
<1> HIDE DEF b
<1>5. Checksum(b) \in Byte
  BY <1>4, ChecksumType
<1>6. /\ p \in Seq(Byte) /\ Len(p) = Len(m.data) + 5
      /\ \A i \in 1 .. Len(b) : p[i] = b[i]
      /\ p[Len(p)] = Checksum(b)
  BY <1>3, <1>4, <1>5
<1> HIDE DEF p
<1>7. p[1] = m.command /\ p[2] = Len(m.data) + 3 /\ p[3] = m.type /\ p[4] = m.register
  <2>1. ASSUME NEW i \in 1 .. 4 PROVE p[i] = h[i]
    <3>1. i \in 1 .. Len(b)
      BY <1>3, <1>4
    <3>2. QED
      BY <1>4, <1>6, <3>1
  <2>2. QED
    BY <1>2, <2>1
<1>8. SubSeq(p, 5, Len(m.data) + 4) = m.data
  <2> DEFINE d == SubSeq(p, 5, Len(m.data) + 4)
  <2>1. d \in Seq(Byte) /\ Len(d) = Len(m.data) /\ \A i \in 1 .. Len(d) : d[i] = p[i + 4]
    BY <1>3, <1>6
  <2> HIDE DEF d
  <2>2. ASSUME NEW i \in 1 .. Len(m.data) PROVE d[i] = m.data[i]
    <3>1. p[i + 4] = b[i + 4]
      BY <1>3, <1>4, <1>6
    <3>2. QED
      BY <1>4, <2>1, <3>1
  <2>3. d = m.data
    BY <1>3, <2>1, <2>2, SeqEqual
  <2>4. QED
    BY <2>3 DEF d
<1>9. Front(p) = b
  <2> DEFINE f == Front(p)
  <2>1. f \in Seq(Byte) /\ Len(f) = Len(b) /\ \A i \in 1 .. Len(b) : f[i] = p[i]
    BY <1>3, <1>4, <1>6 DEF Front
  <2> HIDE DEF f
  <2>2. f = b
    BY <1>4, <1>6, <2>1, SeqEqual
  <2>3. QED
    BY <2>2 DEF f
<1>10. Last(p) = Checksum(b)
  BY <1>6 DEF Last
<1>11. QED
  BY <1>6, <1>7, <1>8, <1>9, <1>10 DEF Plain, p, b, h

LEMMA EncodeType ==
    ASSUME NEW m \in Message
    PROVE  /\ Encode(m) \in Seq(Byte) /\ Len(Encode(m)) = Len(m.data) + 5
           /\ Xored(Encode(m), m.xor) = Plain(m)
           /\ Encode(m)[1] = XOR(m.command, m.xor)
           /\ Encode(m)[2] = XOR(Len(m.data) + 3, m.xor)
           /\ Encode(m)[3] = XOR(m.type, m.xor)
<1>1. Encode(m) = Xored(Plain(m), m.xor)
  BY DEF Encode, Plain, Head4
<1>2. m.xor \in Byte /\ Len(m.data) \in Nat
  BY MessageType
<1>3. Len(Plain(m)) = Len(m.data) + 5 /\ Plain(m) \in Seq(Byte)
  BY PlainType
<1>4. Encode(m) \in Seq(Byte) /\ Len(Encode(m)) = Len(m.data) + 5
  BY <1>1, <1>2, <1>3, XoredType
<1>5. ASSUME NEW i \in 1 .. 3 PROVE Encode(m)[i] = XOR(Plain(m)[i], m.xor)
  <2>1. i \in 1 .. Len(Plain(m))
    BY <1>2, <1>3
  <2>2. QED
    BY <1>1, <1>2, <1>3, <2>1, XoredType
<1>6. Xored(Encode(m), m.xor) = Plain(m)
  BY <1>1, <1>2, <1>3, XoredTwice
<1>7. QED
  BY <1>4, <1>5, <1>6, PlainType

(* The fields of an encoded message are those it was made of.              *)
LEMMA FieldsOfPlain ==
    ASSUME NEW m \in Message
    PROVE  Fields(Plain(m), m.xor) = m
<1>1. m = [command |-> m.command, type |-> m.type, register |-> m.register,
           data |-> m.data, xor |-> m.xor]
  BY DEF Message
<1>2. Plain(m)[2] + 1 = Len(m.data) + 4
  BY PlainType, MessageType
<1>3. Fields(Plain(m), m.xor) =
          [command |-> m.command, type |-> m.type, register |-> m.register,
           data |-> m.data, xor |-> m.xor]
  BY <1>2, PlainType DEF Fields
<1>4. QED
  BY <1>1, <1>3

-----------------------------------------------------------------------------
(* Extraction.                                                             *)

LEMMA FrontType ==
    ASSUME NEW S, NEW s \in Seq(S), Len(s) # 0
    PROVE  /\ Front(s) \in Seq(S) /\ Len(Front(s)) = Len(s) - 1
           /\ \A i \in 1 .. Len(s) - 1 : Front(s)[i] = s[i]
           /\ Last(s) = s[Len(s)]
<1>1. Len(s) - 1 \in Nat /\ Len(s) - 1 <= Len(s)
  OBVIOUS
<1>2. \A n \in Nat : n <= Len(s) =>
          /\ SubSeq(s, 1, n) \in Seq(S) /\ Len(SubSeq(s, 1, n)) = n
          /\ \A i \in 1 .. n : SubSeq(s, 1, n)[i] = s[i]
  OBVIOUS
<1>3. Front(s) = SubSeq(s, 1, Len(s) - 1) /\ Last(s) = s[Len(s)]
  BY DEF Front, Last
<1> DEFINE n == Len(s) - 1
<1>4. n \in Nat /\ n <= Len(s) /\ Front(s) = SubSeq(s, 1, n)
  BY <1>1, <1>3
<1> HIDE DEF n
<1>5. Front(s) \in Seq(S) /\ Len(Front(s)) = n /\ \A i \in 1 .. n : Front(s)[i] = s[i]
  BY <1>2, <1>4
<1>6. QED
  BY <1>3, <1>5 DEF n

LEMMA ChecksumOfOne ==
    ASSUME NEW f \in Seq(Byte), Len(f) = 1
    PROVE  Checksum(f) = f[1]
<1>1. PICK g \in [0 .. Len(f) -> Byte] :
          /\ g[0] = 0 /\ \A i \in 1 .. Len(f) : g[i] = (f[i] + g[i - 1]) % 256
          /\ Checksum(f) = g[Len(f)]
  BY Checksummed
<1>2. 1 \in 1 .. Len(f) /\ 1 - 1 = 0
  OBVIOUS
<1>3. g[1] = (f[1] + g[1 - 1]) % 256 /\ f[1] \in Byte
  BY <1>1, <1>2
<1>4. g[1] = (f[1] + 0) % 256 /\ Checksum(f) = g[1]
  BY <1>1, <1>2, <1>3
<1>5. \A x : x \in Nat /\ x < 256 => (x + 0) % 256 = x
  OBVIOUS
<1>6. QED
  BY ONLY <1>3, <1>4, <1>5, ByteDef

LEMMA LengthType ==
    ASSUME NEW s \in Seq(Byte), Len(s) >= 2, NEW key \in Byte
    PROVE  LengthUnder(s, key) \in Nat /\ LengthUnder(s, key) >= 2
<1>1. s[2] \in Byte
  <2>1. 2 \in 1 .. Len(s)
    OBVIOUS
  <2>2. QED
    BY <2>1
<1>2. XOR(s[2], key) \in Nat
  BY <1>1, XORType, ByteDef
<1>3. QED
  BY <1>2 DEF LengthUnder

LEMMA GuessesType ==
    ASSUME NEW s \in Seq(Byte), Len(s) >= 3
    PROVE  /\ DOMAIN Guesses(s) = {1, 2, 3} /\ Len(Guesses(s)) = 3
           /\ Guesses(s)[1] = 0 /\ Guesses(s)[2] = s[3] /\ Guesses(s)[3] = XOR(s[3], 1)
           /\ \A i \in {1, 2, 3} : Guesses(s)[i] \in Byte
           /\ s[1] \in Byte /\ s[2] \in Byte /\ s[3] \in Byte
<1>1. 1 \in 1 .. Len(s) /\ 2 \in 1 .. Len(s) /\ 3 \in 1 .. Len(s)
  OBVIOUS
<1>2. s[1] \in Byte /\ s[2] \in Byte /\ s[3] \in Byte /\ 0 \in Byte /\ 1 \in Byte
  BY <1>1, ByteDef
<1>3. DOMAIN Guesses(s) = {1, 2, 3} /\ Len(Guesses(s)) = 3
  BY DEF Guesses
<1>4. Guesses(s)[1] = 0 /\ Guesses(s)[2] = s[3] /\ Guesses(s)[3] = XOR(s[3], 1)
  BY DEF Guesses
<1>5. XOR(s[3], 1) \in Byte
  BY <1>2, XORType
<1>6. QED
  BY <1>2, <1>3, <1>4, <1>5

(* The key taken is the first guess that is accepted.                      *)
LEMMA FirstAccepted ==
    ASSUME NEW s \in Seq(Byte), Len(s) >= 3, NEW i \in {1, 2, 3},
           Accepts(s, Guesses(s)[i]),
           \A j \in {1, 2, 3} : j < i => ~Accepts(s, Guesses(s)[j])
    PROVE  Extractable(s) /\ Guessed(s) = Guesses(s)[i]
<1> DEFINE I == {j \in 1 .. Len(Guesses(s)) : Accepts(s, Guesses(s)[j])}
<1>1. Extractable(s)
  BY GuessesType DEF Extractable
<1>2. \A j : j \in I <=> j \in {1, 2, 3} /\ Accepts(s, Guesses(s)[j])
  BY GuessesType
<1>3. SelectInSeq(Guesses(s), LAMBDA key : Accepts(s, key)) = IF I # {} THEN Min(I) ELSE 0
  BY DEF SelectInSeq
<1> HIDE DEF I
<1>4. i \in I /\ \A j \in I : i <= j
  BY <1>2
<1>5. Min(I) = i
  <2>1. I \subseteq {1, 2, 3}
    BY <1>2
  <2>2. ASSUME NEW x \in I, \A y \in I : x <= y PROVE x = i
    <3>1. x <= i /\ i <= x /\ x \in {1, 2, 3}
      BY <1>4, <2>1, <2>2
    <3>2. QED
      BY <3>1
  <2>3. QED
    BY <1>4, <2>2 DEF Min
<1>6. QED
  BY <1>1, <1>3, <1>4, <1>5 DEF Guessed

LEMMA GuessedIs ==
    ASSUME NEW s \in Seq(Byte), Extractable(s)
    PROVE  /\ Len(s) >= 3
           /\ \E i \in {1, 2, 3} :
                  /\ Guessed(s) = Guesses(s)[i] /\ Accepts(s, Guesses(s)[i])
                  /\ \A j \in {1, 2, 3} : j < i => ~Accepts(s, Guesses(s)[j])
<1>1. Len(s) >= 3
  BY DEF Extractable
<1>2. \E i \in {1, 2, 3} : Accepts(s, Guesses(s)[i])
  BY <1>1, GuessesType DEF Extractable
<1>3. \E i \in {1, 2, 3} :
          /\ Accepts(s, Guesses(s)[i])
          /\ \A j \in {1, 2, 3} : j < i => ~Accepts(s, Guesses(s)[j])
  <2>1. CASE Accepts(s, Guesses(s)[1])
    BY <2>1
  <2>2. CASE ~Accepts(s, Guesses(s)[1]) /\ Accepts(s, Guesses(s)[2])
    BY <2>2
  <2>3. CASE ~Accepts(s, Guesses(s)[1]) /\ ~Accepts(s, Guesses(s)[2])
    BY <1>2, <2>3
  <2>4. QED
    BY <2>1, <2>2, <2>3
<1>4. QED
  BY <1>1, <1>3, FirstAccepted

(* No message is shorter than three bytes: of two, the second would be the *)
(* checksum, zero, of the first, a command.                                *)
LEMMA AcceptedLength ==
    ASSUME NEW s \in Seq(Byte), Len(s) >= 3, NEW key \in Byte, Accepts(s, key)
    PROVE  /\ LengthUnder(s, key) \in Nat /\ LengthUnder(s, key) >= 3
           /\ LengthUnder(s, key) <= Len(s)
<1> DEFINE n == LengthUnder(s, key)
           t == SubSeq(s, 1, n)
           p == Xored(t, key)
<1>1. n \in Nat /\ n >= 2 /\ n <= Len(s) /\ Len(s) \in Nat
  BY LengthType DEF Accepts, ChecksumValid
<1>2. XOR(s[1], key) \in IncomingCommands /\ Checksum(Front(p)) = Last(p)
  BY DEF Accepts, ChecksumValid
<1>3. n = XOR(s[2], key) + 2
  BY DEF LengthUnder
<1>a. SUFFICES ASSUME n = 2 PROVE FALSE
  BY <1>1
<1> HIDE DEF n
<1>4. t \in Seq(Byte) /\ Len(t) = n /\ \A i \in 1 .. n : t[i] = s[i]
  BY <1>1
<1> HIDE DEF t
<1>5. p \in Seq(Byte) /\ Len(p) = n /\ \A i \in 1 .. n : p[i] = XOR(t[i], key)
  BY <1>4, XoredType
<1> HIDE DEF p
<1>6. p[1] = XOR(s[1], key) /\ p[2] = XOR(s[2], key)
  <2>1. 1 \in 1 .. n /\ 2 \in 1 .. n
    BY <1>a
  <2>2. QED
    BY <1>4, <1>5, <2>1
<1>7. p[2] = 0
  <2>1. s[2] \in Byte
    BY GuessesType
  <2>2. XOR(s[2], key) \in Nat
    BY <2>1, XORType, ByteDef
  <2>3. XOR(s[2], key) + 2 = 2
    BY <1>3, <1>a
  <2>4. QED
    BY <1>6, <2>2, <2>3
<1> DEFINE f == Front(p)
<1>8. f \in Seq(Byte) /\ Len(f) = 1 /\ f[1] = p[1] /\ Last(p) = p[2]
  <2>1. p \in Seq(Byte) /\ Len(p) # 0
    BY <1>1, <1>5
  <2>2. /\ f \in Seq(Byte) /\ Len(f) = Len(p) - 1 /\ Last(p) = p[Len(p)]
        /\ \A i \in 1 .. Len(p) - 1 : f[i] = p[i]
    BY <2>1, FrontType
  <2> HIDE DEF f
  <2>3. Len(p) = 2 /\ 1 \in 1 .. Len(p) - 1
    BY <1>5, <1>a
  <2>4. QED
    BY <2>2, <2>3
<1> HIDE DEF f
<1>9. Checksum(f) = f[1]
  BY <1>8, ChecksumOfOne
<1>11. f[1] = 0
  BY <1>2, <1>7, <1>8, <1>9 DEF f
<1>12. QED
  BY <1>2, <1>6, <1>8, <1>11, CommandType

LEMMA SplitAt ==
    ASSUME NEW S, NEW s \in Seq(S), NEW n \in Nat, n <= Len(s)
    PROVE  s = SubSeq(s, 1, n) \o SubSeq(s, n + 1, Len(s))
<1> DEFINE a == SubSeq(s, 1, n)
           b == SubSeq(s, n + 1, Len(s))
<1>1. Len(s) \in Nat
  OBVIOUS
<1>2. a \in Seq(S) /\ Len(a) = n /\ \A i \in 1 .. n : a[i] = s[i]
  BY <1>1
<1>3. b \in Seq(S) /\ Len(b) = Len(s) - n /\ \A i \in 1 .. Len(s) - n : b[i] = s[n + i]
  BY <1>1
<1> HIDE DEF a, b
<1>4. a \o b \in Seq(S) /\ Len(a \o b) = Len(s)
  BY <1>1, <1>2, <1>3
<1>5. ASSUME NEW i \in 1 .. Len(s) PROVE (a \o b)[i] = s[i]
  <2>1. CASE i <= n
    BY <1>1, <1>2, <1>3, <2>1
  <2>2. CASE ~(i <= n)
    <3>1. i - n \in 1 .. Len(b) /\ n + (i - n) = i
      BY <1>1, <1>3, <2>2
    <3>2. (a \o b)[n + (i - n)] = b[i - n]
      BY <1>2, <1>3, <3>1, ConcatParts
    <3>3. QED
      BY <1>3, <3>1, <3>2
  <2>3. QED
    BY <1>1, <2>1, <2>2
<1>6. a \o b = s
  BY <1>4, <1>5, SeqEqual
<1>7. QED
  BY <1>6 DEF a, b

(* What is cut off, and what is left, are the read.                        *)
LEMMA ExtractType ==
    ASSUME NEW s \in Seq(Byte), Extractable(s)
    PROVE  /\ Guessed(s) \in Byte /\ Accepts(s, Guessed(s))
           /\ LengthUnder(s, Guessed(s)) \in Nat /\ LengthUnder(s, Guessed(s)) >= 3
           /\ LengthUnder(s, Guessed(s)) <= Len(s)
           /\ Extract(s).xor = Guessed(s)
           /\ Extract(s).bytes = SubSeq(s, 1, LengthUnder(s, Guessed(s)))
           /\ Extract(s) \in [bytes : Seq(Byte), xor : Byte]
           /\ Rest(s, Extract(s)) \in Seq(Byte)
           /\ s = Extract(s).bytes \o Rest(s, Extract(s))
<1>1. Guessed(s) \in Byte /\ Accepts(s, Guessed(s)) /\ Len(s) >= 3
  BY GuessedIs, GuessesType
<1> DEFINE n == LengthUnder(s, Guessed(s))
<1>2. n \in Nat /\ n >= 3 /\ n <= Len(s) /\ Len(s) \in Nat
  BY <1>1, AcceptedLength
<1>3. Extract(s) = [bytes |-> SubSeq(s, 1, n), xor |-> Guessed(s)]
  BY DEF Extract
<1>8. Extract(s).xor = Guessed(s) /\ Extract(s).bytes = SubSeq(s, 1, n)
  BY DEF Extract
<1> HIDE DEF n
<1>4. SubSeq(s, 1, n) \in Seq(Byte) /\ Len(SubSeq(s, 1, n)) = n
  BY <1>2
<1>5. Rest(s, Extract(s)) = SubSeq(s, n + 1, Len(s))
  BY <1>4, <1>8 DEF Rest
<1>6. SubSeq(s, n + 1, Len(s)) \in Seq(Byte)
  BY <1>2
<1>7. s = SubSeq(s, 1, n) \o SubSeq(s, n + 1, Len(s))
  BY <1>2, SplitAt
<1>9. Extract(s) \in [bytes : Seq(Byte), xor : Byte]
  BY <1>1, <1>3, <1>4
<1>10. Rest(s, Extract(s)) \in Seq(Byte) /\ s = Extract(s).bytes \o Rest(s, Extract(s))
  BY <1>5, <1>6, <1>7, <1>8
<1>11. QED
  BY <1>1, <1>2, <1>8, <1>9, <1>10 DEF n

-----------------------------------------------------------------------------
(* The keys that are found.                                                *)

(* Under a key that gives type 0 or 1 the type byte determines the key, so *)
(* that the guesses are all keys under which there may be a message.       *)
LEMMA ReadingGuessed ==
    ASSUME NEW s \in Seq(Byte), Len(s) >= 3, NEW key
    PROVE  key \in Readings(s) <=>
               \E i \in {1, 2, 3} : key = Guesses(s)[i] /\ Accepts(s, key)
<1>1. s[1] \in Byte /\ s[3] \in Byte /\ 0 \in Byte /\ 1 \in Byte
  BY GuessesType, ByteDef
<1>2. ASSUME key \in Readings(s)
      PROVE  \E i \in {1, 2, 3} : key = Guesses(s)[i] /\ Accepts(s, key)
  <2>1. PICK c \in IncomingCommands : key = XOR(s[1], c)
    BY <1>2 DEF Readings
  <2>2. c \in Byte /\ key \in Byte
    BY <1>1, <2>1, CommandType, XORType
  <2>3. XOR(s[1], key) = c
    BY <1>1, <2>1, <2>2, XORTwice
  <2>4. Accepts(s, key)
    BY <1>2, <2>1, <2>3 DEF Accepts, Readings
  <2>5. key = 0 \/ XOR(s[3], key) = 0 \/ XOR(s[3], key) = 1
    BY <1>2 DEF Readings, REQUEST_TYPE, RESPONSE_TYPE
  <2>6. key = XOR(s[3], XOR(s[3], key))
    BY <1>1, <2>2, XORTwice
  <2>7. key = 0 \/ key = s[3] \/ key = XOR(s[3], 1)
    BY <1>1, <2>5, <2>6, XORZero
  <2>8. QED
    BY <2>4, <2>7, GuessesType
<1>3. ASSUME NEW i \in {1, 2, 3}, key = Guesses(s)[i], Accepts(s, key)
      PROVE  key \in Readings(s)
  <2>1. key \in Byte /\ XOR(s[1], key) \in IncomingCommands /\ ChecksumValid(s, key)
    BY <1>3, GuessesType DEF Accepts
  <2>2. key = XOR(s[1], XOR(s[1], key))
    BY <1>1, <2>1, XORTwice
  <2>3. key = 0 \/ XOR(s[3], key) \in {0, 1}
    <3>1. CASE i = 1
      BY <1>3, <3>1, GuessesType
    <3>2. CASE i = 2
      BY <1>1, <1>3, <3>2, GuessesType, XORZero
    <3>3. CASE i = 3
      BY <1>1, <1>3, <3>3, GuessesType, XORTwice
    <3>4. QED
      BY <3>1, <3>2, <3>3
  <2>4. QED
    BY <2>1, <2>2, <2>3 DEF Readings, REQUEST_TYPE, RESPONSE_TYPE
<1>4. QED
  BY <1>2, <1>3

-----------------------------------------------------------------------------
(* A message that was cut off is read again.                               *)

(* Cut off, a message is still accepted under its key, and no guess before *)
(* it that was rejected within the read is accepted now.                   *)
LEMMA AcceptsCut ==
    ASSUME NEW s \in Seq(Byte), NEW n \in Nat, n >= 3, n <= Len(s), NEW key \in Byte
    PROVE  LET b == SubSeq(s, 1, n)
           IN  /\ b \in Seq(Byte) /\ Len(b) = n /\ b[1] = s[1] /\ b[2] = s[2] /\ b[3] = s[3]
               /\ Accepts(b, key) <=> Accepts(s, key) /\ LengthUnder(s, key) <= n
<1> DEFINE b == SubSeq(s, 1, n)
           k == LengthUnder(s, key)
<1>1. b \in Seq(Byte) /\ Len(b) = n /\ \A i \in 1 .. n : b[i] = s[i]
  OBVIOUS
<1>2. b[1] = s[1] /\ b[2] = s[2] /\ b[3] = s[3]
  <2>1. 1 \in 1 .. n /\ 2 \in 1 .. n /\ 3 \in 1 .. n
    OBVIOUS
  <2> HIDE DEF b
  <2>2. QED
    BY <1>1, <2>1
<1>3. k \in Nat /\ k >= 2 /\ Len(s) \in Nat
  BY LengthType
<1>4. LengthUnder(b, key) = k
  BY <1>2 DEF LengthUnder
<1>5. k <= n => SubSeq(b, 1, k) = SubSeq(s, 1, k)
  <2> HIDE DEF k
  <2>1. QED
    BY <1>3
<1> HIDE DEF b, k
<1>6. ChecksumValid(b, key) <=> ChecksumValid(s, key) /\ k <= n
  <2>1. ChecksumValid(b, key) <=>
            k <= n /\ Checksum(Front(Xored(SubSeq(b, 1, k), key))) = Last(Xored(SubSeq(b, 1, k), key))
    BY <1>1, <1>4 DEF ChecksumValid
  <2>2. ChecksumValid(s, key) <=>
            k <= Len(s) /\ Checksum(Front(Xored(SubSeq(s, 1, k), key))) = Last(Xored(SubSeq(s, 1, k), key))
    BY DEF ChecksumValid, k
  <2>3. CASE k <= n
    <3>1. k <= Len(s)
      BY <1>3, <2>3
    <3>2. SubSeq(b, 1, k) = SubSeq(s, 1, k)
      BY <1>5, <2>3
    <3>3. QED
      BY ONLY <2>1, <2>2, <2>3, <3>1, <3>2, Zenon
  <2>4. CASE ~(k <= n)
    BY <2>1, <2>4
  <2>5. QED
    BY <2>3, <2>4
<1>7. Accepts(b, key) <=> Accepts(s, key) /\ k <= n
  BY <1>2, <1>6 DEF Accepts
<1>8. QED
  BY <1>1, <1>2, <1>7 DEF b, k

LEMMA ExtractAgain ==
    ASSUME NEW s \in Seq(Byte), Extractable(s)
    PROVE  LET b == Extract(s).bytes
           IN  Extractable(b) /\ Guessed(b) = Guessed(s) /\ Extract(b) = Extract(s)
<1> DEFINE n == LengthUnder(s, Guessed(s))
           b == SubSeq(s, 1, n)
<1>1. PICK i \in {1, 2, 3} :
          /\ Guessed(s) = Guesses(s)[i] /\ Accepts(s, Guesses(s)[i])
          /\ \A j \in {1, 2, 3} : j < i => ~Accepts(s, Guesses(s)[j])
  BY GuessedIs
<1>2. n \in Nat /\ n >= 3 /\ n <= Len(s) /\ Extract(s).bytes = b /\ Guessed(s) \in Byte
  BY ExtractType
<1>3. Extract(s) = [bytes |-> b, xor |-> Guessed(s)]
  BY DEF Extract
<1>4. LengthUnder(s, Guessed(s)) = n
  OBVIOUS
<1> HIDE DEF n
<1>5. b \in Seq(Byte) /\ Len(b) = n /\ b[1] = s[1] /\ b[2] = s[2] /\ b[3] = s[3]
  BY <1>2, AcceptsCut
<1>6. \A key \in Byte : Accepts(b, key) <=> Accepts(s, key) /\ LengthUnder(s, key) <= n
  BY <1>2, AcceptsCut
<1> HIDE DEF b
<1>7. Len(s) >= 3 /\ Len(b) >= 3
  BY <1>2, <1>5
<1>8. Guesses(b) = Guesses(s)
  BY <1>5 DEF Guesses
<1>9. Accepts(b, Guesses(b)[i])
  <2>1. Guesses(s)[i] \in Byte /\ LengthUnder(s, Guesses(s)[i]) <= n
    BY <1>1, <1>2, <1>4
  <2>2. QED
    BY <1>1, <1>6, <1>8, <2>1
<1>10. \A j \in {1, 2, 3} : j < i => ~Accepts(b, Guesses(b)[j])
  <2>1. \A j \in {1, 2, 3} : Guesses(s)[j] \in Byte
    BY <1>7, GuessesType
  <2>2. QED
    BY <1>1, <1>6, <1>8, <2>1
<1>11. Extractable(b) /\ Guessed(b) = Guesses(b)[i]
  BY <1>5, <1>7, <1>9, <1>10, FirstAccepted
<1>12. Guessed(b) = Guessed(s)
  BY <1>1, <1>8, <1>11
<1>13. LengthUnder(b, Guessed(b)) = n
  BY <1>4, <1>5, <1>12 DEF LengthUnder
<1>14. SubSeq(b, 1, n) = b
  BY <1>5
<1>15. Extract(b) = [bytes |-> b, xor |-> Guessed(s)]
  BY <1>12, <1>13, <1>14 DEF Extract
<1>16. QED
  BY <1>2, <1>3, <1>11, <1>12, <1>15

(* Decoded, a message is accepted as it stands, without a key.             *)
LEMMA ExtractPlain ==
    ASSUME NEW s \in Seq(Byte), Extractable(s)
    PROVE  LET d == Xored(Extract(s).bytes, Guessed(s))
           IN  Extractable(d) /\ Guessed(d) = 0 /\ Extract(d) = [bytes |-> d, xor |-> 0]
<1> DEFINE key == Guessed(s)
           n == LengthUnder(s, key)
           b == SubSeq(s, 1, n)
           d == Xored(b, key)
<1>1. /\ key \in Byte /\ Accepts(s, key) /\ n \in Nat /\ n >= 3 /\ n <= Len(s)
      /\ Extract(s).bytes = b
  BY ExtractType
<1>2. n = XOR(s[2], key) + 2 /\ XOR(s[1], key) \in IncomingCommands
  BY <1>1 DEF LengthUnder, Accepts
<1>3. Checksum(Front(d)) = Last(d)
  BY <1>1 DEF Accepts, ChecksumValid
<1> HIDE DEF key, n
<1>4. b \in Seq(Byte) /\ Len(b) = n /\ \A i \in 1 .. n : b[i] = s[i]
  BY <1>1
<1>5. n \in Nat /\ 1 \in 1 .. n /\ 2 \in 1 .. n
  BY <1>1
<1> HIDE DEF b
<1>6. d \in Seq(Byte) /\ Len(d) = n /\ \A i \in 1 .. n : d[i] = XOR(b[i], key)
  BY <1>1, <1>4, XoredType
<1> HIDE DEF d
<1>7. d[1] \in IncomingCommands /\ d[2] + 2 = n /\ d[1] \in Byte /\ d[2] \in Byte
  BY <1>2, <1>4, <1>5, <1>6
<1>8. LengthUnder(d, 0) = n
  BY <1>7, XORZero DEF LengthUnder
<1>9. SubSeq(d, 1, n) = d
  BY <1>6, SubSeqFull
<1>10. Xored(d, 0) = d
  BY <1>6, XoredZero
<1>11. ChecksumValid(d, 0)
  <2>1. n <= Len(d)
    BY <1>5, <1>6
  <2>2. QED
    BY <1>3, <1>8, <1>9, <1>10, <2>1 DEF ChecksumValid
<1>12. Accepts(d, 0)
  BY <1>7, <1>11, XORZero DEF Accepts
<1>13. Len(d) >= 3
  BY <1>1, <1>6
<1>14. Extractable(d) /\ Guessed(d) = 0
  <2>1. Guesses(d)[1] = 0
    BY <1>6, <1>13, GuessesType
  <2>2. \A j \in {1, 2, 3} : ~(j < 1)
    OBVIOUS
  <2>3. QED
    BY <1>6, <1>12, <1>13, <2>1, <2>2, FirstAccepted
<1>15. Extract(d) = [bytes |-> d, xor |-> 0]
  BY <1>8, <1>9, <1>14 DEF Extract
<1>16. QED
  BY <1>1, <1>14, <1>15 DEF d, key

LEMMA KeyOfFields ==
    ASSUME NEW d, NEW x, NEW y
    PROVE  Fields(d, x).xor = x /\ [Fields(d, x) EXCEPT !.xor = y] = Fields(d, y)
<1> DEFINE c == d[1]
           t == d[3]
           r == d[4]
           v == SubSeq(d, 5, d[2] + 1)
<1>1. \A k : Fields(d, k) = [command |-> c, type |-> t, register |-> r, data |-> v, xor |-> k]
  BY DEF Fields
<1> HIDE DEF c, t, r, v
<1>2. QED
  BY <1>1

LEMMA StagesAgreeOnOne ==
    ASSUME NEW s \in Seq(Byte), Extractable(s)
    PROVE  LET e == Extract(s)
               m == Fields(Xored(e.bytes, e.xor), e.xor)
           IN  Decode(e.bytes) = m /\ RespondedTo(Transformed(e.bytes)) = m
<1> DEFINE b == Extract(s).bytes
           key == Guessed(s)
           d == Xored(b, key)
           m == Fields(d, key)
<1>1. Extract(b) = Extract(s) /\ Extract(s).xor = key /\ key \in Byte /\ b \in Seq(Byte)
  BY ExtractAgain, ExtractType
<1>2. Decode(b) = m
  BY <1>1 DEF Decode
<1>3. Extract(d) = [bytes |-> d, xor |-> 0] /\ d \in Seq(Byte)
  BY <1>1, ExtractPlain, XoredType
<1> HIDE DEF b, key, d
<1>4. Decode(d) = Fields(d, 0)
  <2>1. Extract(d).bytes = d /\ Extract(d).xor = 0
    BY <1>3
  <2>2. Xored(d, 0) = d
    BY <1>3, XoredZero
  <2>3. QED
    BY <2>1, <2>2 DEF Decode
<1>5. m.xor = key /\ Fields(d, 0).xor = 0 /\ [Fields(d, 0) EXCEPT !.xor = key] = m
  BY KeyOfFields
<1>6. CASE key = 0
  <2>1. Transformed(b) = [bytes |-> b, ctx |-> 0]
    BY <1>2, <1>5, <1>6 DEF Transformed
  <2>2. QED
    BY <1>1, <1>2, <2>1 DEF RespondedTo, b, d, key
<1>7. CASE key # 0
  <2>1. Transformed(b) = [bytes |-> d, ctx |-> key]
    BY <1>2, <1>5, <1>7 DEF Transformed, d
  <2>2. RespondedTo(Transformed(b)) = Fields(d, key)
    BY <1>4, <1>5, <1>7, <2>1 DEF RespondedTo
  <2>3. QED
    BY <1>1, <1>2, <2>2 DEF b, d, key
<1>8. QED
  BY <1>6, <1>7

-----------------------------------------------------------------------------
(* A message that cannot be taken for another.                             *)

(* But for the start responses, no two commands differ in the last bit.    *)
LEMMA OtherCommand ==
    ASSUME NEW c \in IncomingCommands, c \notin {\h2e, \h2f}
    PROVE  XOR(c, 1) \notin IncomingCommands
<1>1. c \in Byte
  BY CommandType
<1>2. XOR(c, 1) = IF c % 2 = 0 THEN c + 1 ELSE c - 1
  BY <1>1, XOROne
<1>3. QED
  BY <1>2 DEF IncomingCommands

(* Of a message and its encoding, whatever follows, only the key it was    *)
(* encoded with gives a command, of the keys that are tried.               *)
LEMMA OneKey ==
    ASSUME NEW m \in Message, Distinct(m), NEW s \in Seq(Byte), Len(s) >= 3,
           s[1] = XOR(m.command, m.xor), s[3] = XOR(m.type, m.xor)
    PROVE  /\ \E i \in {1, 2, 3} : Guesses(s)[i] = m.xor
           /\ \A i \in {1, 2, 3} :
                  XOR(s[1], Guesses(s)[i]) \in IncomingCommands => Guesses(s)[i] = m.xor
<1> DEFINE c == m.command
           k == m.xor
<1>1. /\ c \in IncomingCommands /\ c \in Byte /\ k \in Byte /\ m.type \in {0, 1}
      /\ 0 \in Byte /\ 1 \in Byte
  <2>1. 0 \in Byte /\ 1 \in Byte
    BY ByteDef
  <2>2. QED
    BY <2>1, MessageType
<1>2. XOR(c, 1) \notin IncomingCommands
  BY <1>1, OtherCommand DEF Distinct
<1>3. k # 0 => XOR(c, k) \notin IncomingCommands
  BY DEF Distinct
<1>4. XOR(c, k) \in Byte /\ XOR(s[1], k) = c
  <2> HIDE DEF c, k
  <2>1. XOR(c, k) \in Byte /\ XOR(XOR(c, k), k) = c
    BY <1>1, XORType, XORTwice
  <2>2. QED
    BY <2>1 DEF c, k
<1>5. XOR(s[1], 0) = XOR(c, k)
  BY <1>4, XORZero
<1>6. Guesses(s)[1] = 0 /\ Guesses(s)[2] = s[3] /\ Guesses(s)[3] = XOR(s[3], 1)
  BY GuessesType
<1>7. XOR(s[1], 0) \in IncomingCommands => k = 0
  BY <1>3, <1>5
<1>8. CASE m.type = 0
  <2>1. s[3] = k
    BY <1>1, <1>8, XORZero, XORCommutes
  <2>2. XOR(s[1], XOR(s[3], 1)) = XOR(c, 1)
    <3>1. XOR(k, 1) = XOR(1, k)
      BY <1>1, XORCommutes
    <3>2. XOR(XOR(c, k), XOR(1, k)) = XOR(c, 1)
      BY <1>1, XORCancels
    <3>3. QED
      BY <2>1, <3>1, <3>2
  <2>3. QED
    BY <1>2, <1>6, <1>7, <2>1, <2>2
<1>9. CASE m.type = 1
  <2>1. s[3] = XOR(1, k)
    BY <1>9
  <2>2. XOR(s[3], 1) = k
    BY <1>1, <2>1, XORCommutes, XORTwice
  <2>3. XOR(s[1], s[3]) = XOR(c, 1)
    BY <1>1, <2>1, XORCancels
  <2>4. QED
    BY <1>2, <1>6, <1>7, <2>2, <2>3
<1>10. QED
  BY <1>1, <1>8, <1>9

LEMMA ReadDistinct ==
    ASSUME NEW m \in Message, Distinct(m), NEW s \in Seq(Byte),
           \A j \in 1 .. Len(s) : j <= Len(Encode(m)) => s[j] = Encode(m)[j]
    PROVE  /\ Extractable(s) <=> Len(Encode(m)) <= Len(s)
           /\ Extractable(s) => Extract(s) = [bytes |-> Encode(m), xor |-> m.xor]
<1> DEFINE u == Encode(m)
           k == m.xor
           n == Len(u)
<1>1. u \in Seq(Byte) /\ n = Len(m.data) + 5 /\ n \in Nat /\ Len(s) \in Nat /\ k \in Byte
  BY EncodeType, MessageType
<1>2. Len(m.data) \in Nat /\ n >= 5 /\ 1 \in 1 .. n /\ 2 \in 1 .. n /\ 3 \in 1 .. n
  BY <1>1, MessageType
<1>3. CASE Len(s) < 3
  BY <1>1, <1>2, <1>3 DEF Extractable
<1>4. CASE Len(s) >= 3
  <2>1. s[1] = u[1] /\ s[2] = u[2] /\ s[3] = u[3]
    <3>1. 1 \in 1 .. Len(s) /\ 2 \in 1 .. Len(s) /\ 3 \in 1 .. Len(s)
      BY <1>1, <1>4
    <3>2. 1 <= n /\ 2 <= n /\ 3 <= n
      BY <1>2
    <3>3. QED
      BY <3>1, <3>2
  <2>2. u[1] = XOR(m.command, k) /\ u[2] = XOR(Len(m.data) + 3, k) /\ u[3] = XOR(m.type, k)
    BY EncodeType
  <2>3. XOR(s[2], k) = Len(m.data) + 3 /\ XOR(s[1], k) = m.command
    BY <1>1, <2>1, <2>2, MessageType, XORTwice
  <2>4. LengthUnder(s, k) = n
    BY <1>1, <1>2, <2>3 DEF LengthUnder
  <2>5. /\ \E i \in {1, 2, 3} : Guesses(s)[i] = k
        /\ \A i \in {1, 2, 3} : XOR(s[1], Guesses(s)[i]) \in IncomingCommands => Guesses(s)[i] = k
    BY <1>4, <2>1, <2>2, OneKey
  <2>6. ASSUME n <= Len(s)
        PROVE  Accepts(s, k) /\ SubSeq(s, 1, n) = u
    <3> HIDE DEF n, u
    <3>1. SubSeq(s, 1, n) \in Seq(Byte) /\ Len(SubSeq(s, 1, n)) = n /\ \A j \in 1 .. n : SubSeq(s, 1, n)[j] = s[j]
      BY <1>1, <2>6
    <3>2. ASSUME NEW j \in 1 .. n PROVE SubSeq(s, 1, n)[j] = u[j]
      <4>1. j \in 1 .. Len(s) /\ j <= n
        BY <1>1, <2>6
      <4>2. QED
        BY <3>1, <4>1 DEF n, u
    <3>3. SubSeq(s, 1, n) = u
      BY <1>1, <3>1, <3>2, SeqEqual DEF n
    <3>4. Xored(u, k) = Plain(m)
      BY EncodeType DEF u
    <3>5. Checksum(Front(Plain(m))) = Last(Plain(m))
      BY PlainType
    <3>6. ChecksumValid(s, k)
      BY <2>4, <2>6, <3>3, <3>4, <3>5 DEF ChecksumValid
    <3>7. XOR(s[1], k) \in IncomingCommands
      BY <2>3, MessageType
    <3>8. QED
      BY <3>3, <3>6, <3>7 DEF Accepts
  <2>7. n <= Len(s) => Extractable(s)
    BY <1>4, <2>5, <2>6, GuessesType DEF Extractable
  <2>8. Extractable(s) => Guessed(s) = k /\ n <= Len(s)
    <3> SUFFICES ASSUME Extractable(s) PROVE Guessed(s) = k /\ n <= Len(s)
      OBVIOUS
    <3>1. PICK i \in {1, 2, 3} : Guessed(s) = Guesses(s)[i] /\ Accepts(s, Guesses(s)[i])
      BY GuessedIs
    <3>2. Guessed(s) = k /\ Accepts(s, k)
      BY <2>5, <3>1 DEF Accepts
    <3>3. QED
      BY <2>4, <3>2 DEF Accepts, ChecksumValid
  <2>9. Extractable(s) => Extract(s) = [bytes |-> u, xor |-> k]
    BY <2>4, <2>6, <2>8 DEF Extract
  <2>10. QED
    BY <2>7, <2>8, <2>9
<1>5. QED
  BY <1>1, <1>3, <1>4

-----------------------------------------------------------------------------
(* The inductive invariant.                                                *)

Piece == [bytes : Seq(Byte), xor : Byte]

TypeOK ==
    /\ sent \in Seq(Message) /\ stream \in Seq(Byte) /\ cut \in Seq(Piece)
    /\ phase \in {"writing", "splitting"}

(* While the car writes nothing is cut.                                    *)
WritingInv == phase = "writing" => cut = << >> /\ stream = Written

(* What was cut off is a message, and stays one on its own.                *)
CutInv == \A i \in DOMAIN cut : Extractable(cut[i].bytes) /\ Extract(cut[i].bytes) = cut[i]

AllDistinct == \A i \in DOMAIN sent : Distinct(sent[i])

(* Of distinct messages the i-th is cut off i-th, as it was encoded.       *)
InOrderInv ==
    AllDistinct =>
        \A i \in DOMAIN cut :
            i <= Len(sent) /\ cut[i] = [bytes |-> Encode(sent[i]), xor |-> sent[i].xor]

CodecInv == TypeOK /\ WritingInv /\ NothingLost /\ CutInv /\ InOrderInv

Encodes(ms) == [i \in DOMAIN ms |-> Encode(ms[i])]
Pieces(c) == [i \in DOMAIN c |-> c[i].bytes]

LEMMA AppendAsFunction ==
    ASSUME NEW S, NEW s \in Seq(S), NEW e \in S
    PROVE  Append(s, e) = [i \in 1 .. Len(s) + 1 |-> IF i = Len(s) + 1 THEN e ELSE s[i]]
<1> DEFINE f == [i \in 1 .. Len(s) + 1 |-> IF i = Len(s) + 1 THEN e ELSE s[i]]
<1>1. /\ Append(s, e) \in Seq(S) /\ Len(Append(s, e)) = Len(s) + 1
      /\ Append(s, e)[Len(s) + 1] = e
      /\ \A i \in 1 .. Len(s) : Append(s, e)[i] = s[i]
  BY AppendProperties
<1>2. Len(s) \in Nat /\ \A i \in 1 .. Len(s) : s[i] \in S
  OBVIOUS
<1>3. f \in Seq(S) /\ Len(f) = Len(s) + 1
  BY <1>2
<1>4. \A i \in 1 .. Len(s) + 1 : f[i] = Append(s, e)[i]
  BY <1>1, <1>2
<1> HIDE DEF f
<1>5. f = Append(s, e)
  BY <1>1, <1>2, <1>3, <1>4, SeqEqual
<1>6. QED
  BY <1>5 DEF f

LEMMA EncodesType ==
    ASSUME NEW ms \in Seq(Message)
    PROVE  /\ Encodes(ms) \in Seq(Seq(Byte)) /\ Len(Encodes(ms)) = Len(ms)
           /\ \A i \in 1 .. Len(ms) : Encodes(ms)[i] = Encode(ms[i])
           /\ \A m \in Message : Encodes(Append(ms, m)) = Append(Encodes(ms), Encode(m))
<1>1. Len(ms) \in Nat /\ DOMAIN ms = 1 .. Len(ms) /\ \A i \in 1 .. Len(ms) : ms[i] \in Message
  OBVIOUS
<1>2. \A i \in 1 .. Len(ms) : Encode(ms[i]) \in Seq(Byte)
  BY <1>1, EncodeType
<1>3. Encodes(ms) = [i \in 1 .. Len(ms) |-> Encode(ms[i])]
  BY <1>1 DEF Encodes
<1>4. Encodes(ms) \in Seq(Seq(Byte)) /\ Len(Encodes(ms)) = Len(ms)
  BY <1>1, <1>2, <1>3
<1>5. ASSUME NEW m \in Message
      PROVE  Encodes(Append(ms, m)) = Append(Encodes(ms), Encode(m))
  <2> DEFINE t == Append(ms, m)
  <2>1. /\ Len(t) = Len(ms) + 1 /\ DOMAIN t = 1 .. Len(ms) + 1 /\ t[Len(ms) + 1] = m
        /\ \A i \in 1 .. Len(ms) : t[i] = ms[i]
    BY <1>1
  <2> HIDE DEF t
  <2>2. Encodes(t) = [i \in 1 .. Len(ms) + 1 |-> Encode(t[i])]
    BY <2>1 DEF Encodes
  <2>3. Append(Encodes(ms), Encode(m)) =
            [i \in 1 .. Len(ms) + 1 |-> IF i = Len(ms) + 1 THEN Encode(m) ELSE Encodes(ms)[i]]
    BY <1>4, EncodeType, AppendAsFunction
  <2>4. ASSUME NEW i \in 1 .. Len(ms) + 1
        PROVE  Encode(t[i]) = IF i = Len(ms) + 1 THEN Encode(m) ELSE Encodes(ms)[i]
    <3>1. CASE i = Len(ms) + 1
      BY <2>1, <3>1
    <3>2. CASE i # Len(ms) + 1
      <4>1. i \in 1 .. Len(ms)
        BY <1>1, <3>2
      <4>2. QED
        BY <1>3, <2>1, <3>2, <4>1
    <3>3. QED
      BY <3>1, <3>2
  <2>5. QED
    BY <2>2, <2>3, <2>4 DEF t
<1>6. QED
  BY <1>3, <1>4, <1>5

LEMMA PiecesType ==
    ASSUME NEW c \in Seq(Piece)
    PROVE  /\ Pieces(c) \in Seq(Seq(Byte)) /\ Len(Pieces(c)) = Len(c)
           /\ \A i \in 1 .. Len(c) : Pieces(c)[i] = c[i].bytes
           /\ \A e \in Piece : Pieces(Append(c, e)) = Append(Pieces(c), e.bytes)
<1>1. Len(c) \in Nat /\ DOMAIN c = 1 .. Len(c) /\ \A i \in 1 .. Len(c) : c[i] \in Piece
  OBVIOUS
<1>2. \A i \in 1 .. Len(c) : c[i].bytes \in Seq(Byte)
  BY <1>1 DEF Piece
<1>3. Pieces(c) = [i \in 1 .. Len(c) |-> c[i].bytes]
  BY <1>1 DEF Pieces
<1>4. Pieces(c) \in Seq(Seq(Byte)) /\ Len(Pieces(c)) = Len(c)
  BY <1>1, <1>2, <1>3
<1>5. ASSUME NEW e \in Piece
      PROVE  Pieces(Append(c, e)) = Append(Pieces(c), e.bytes)
  <2> DEFINE t == Append(c, e)
  <2>1. /\ Len(t) = Len(c) + 1 /\ DOMAIN t = 1 .. Len(c) + 1 /\ t[Len(c) + 1] = e
        /\ \A i \in 1 .. Len(c) : t[i] = c[i]
    BY <1>1
  <2> HIDE DEF t
  <2>2. Pieces(t) = [i \in 1 .. Len(c) + 1 |-> t[i].bytes]
    BY <2>1 DEF Pieces
  <2>3. Append(Pieces(c), e.bytes) =
            [i \in 1 .. Len(c) + 1 |-> IF i = Len(c) + 1 THEN e.bytes ELSE Pieces(c)[i]]
    BY <1>4, AppendAsFunction
  <2>4. ASSUME NEW i \in 1 .. Len(c) + 1
        PROVE  t[i].bytes = IF i = Len(c) + 1 THEN e.bytes ELSE Pieces(c)[i]
    <3>1. CASE i = Len(c) + 1
      BY <2>1, <3>1
    <3>2. CASE i # Len(c) + 1
      <4>1. i \in 1 .. Len(c)
        BY <1>1, <3>2
      <4>2. QED
        BY <1>3, <2>1, <3>2, <4>1
    <3>3. QED
      BY <3>1, <3>2
  <2>5. QED
    BY <2>2, <2>3, <2>4 DEF t
<1>6. QED
  BY <1>3, <1>4, <1>5

LEMMA PrefixElements ==
    ASSUME NEW S, NEW s \in Seq(S), NEW t \in Seq(S)
    PROVE  IsPrefix(s, t) <=> Len(s) <= Len(t) /\ \A i \in 1 .. Len(s) : s[i] = t[i]
<1>1. Len(s) \in Nat /\ Len(t) \in Nat /\ SubSeq(s, 1, Len(s)) = s
  BY SubSeqFull
<1>2. CASE Len(s) <= Len(t)
  <2> DEFINE u == SubSeq(t, 1, Len(s))
  <2>1. u \in Seq(S) /\ Len(u) = Len(s) /\ \A i \in 1 .. Len(s) : u[i] = t[i]
    BY <1>1, <1>2
  <2>2. IsPrefix(s, t) <=> s = u
    BY <1>1, <1>2 DEF IsPrefix
  <2> HIDE DEF u
  <2>3. (\A i \in 1 .. Len(s) : s[i] = t[i]) => s = u
    BY <2>1, SeqEqual
  <2>4. QED
    BY <1>2, <2>1, <2>2, <2>3
<1>3. CASE ~(Len(s) <= Len(t))
  BY <1>3 DEF IsPrefix
<1>4. QED
  BY <1>2, <1>3

LEMMA PrefixSelf ==
    ASSUME NEW S, NEW s \in Seq(S)
    PROVE  IsPrefix(s, s)
  BY PrefixElements

LEMMA WrittenType ==
    ASSUME TypeOK
    PROVE  /\ Written = FlattenSeq(Encodes(sent)) /\ Written \in Seq(Byte)
           /\ FlattenSeq(Pieces(cut)) \in Seq(Byte)
           /\ NothingLost <=> IsPrefix(FlattenSeq(Pieces(cut)) \o stream, Written)
<1>1. Encodes(sent) \in Seq(Seq(Byte)) /\ Pieces(cut) \in Seq(Seq(Byte))
  BY EncodesType, PiecesType DEF TypeOK
<1>2. Written = FlattenSeq(Encodes(sent))
  BY DEF Written, Encodes
<1>3. NothingLost <=> IsPrefix(FlattenSeq(Pieces(cut)) \o stream, Written)
  BY DEF NothingLost, Pieces
<1>4. QED
  BY <1>1, <1>2, <1>3, FlattenType


(* Of distinct messages, what is left of the read begins the message after *)
(* the ones that were cut off.                                             *)
LEMMA NextMessage ==
    ASSUME CodecInv, AllDistinct
    PROVE  /\ Len(cut) \in Nat /\ Len(sent) \in Nat /\ Len(cut) <= Len(sent)
           /\ Len(cut) = Len(sent) => Len(stream) = 0
           /\ Len(cut) < Len(sent) =>
                  /\ sent[Len(cut) + 1] \in Message /\ Distinct(sent[Len(cut) + 1])
                  /\ \A j \in 1 .. Len(stream) :
                         j <= Len(Encode(sent[Len(cut) + 1])) =>
                             stream[j] = Encode(sent[Len(cut) + 1])[j]
<1> DEFINE ss == Encodes(sent)
           tt == Pieces(cut)
           P == FlattenSeq(tt)
           W == FlattenSeq(ss)
<1>1. /\ sent \in Seq(Message) /\ cut \in Seq(Piece) /\ stream \in Seq(Byte)
      /\ Len(sent) \in Nat /\ Len(cut) \in Nat /\ Len(stream) \in Nat
      /\ DOMAIN cut = 1 .. Len(cut) /\ DOMAIN sent = 1 .. Len(sent)
  BY DEF CodecInv, TypeOK
<1>2. /\ ss \in Seq(Seq(Byte)) /\ Len(ss) = Len(sent)
      /\ \A i \in 1 .. Len(sent) : ss[i] = Encode(sent[i])
  BY <1>1, EncodesType
<1>3. /\ tt \in Seq(Seq(Byte)) /\ Len(tt) = Len(cut)
      /\ \A i \in 1 .. Len(cut) : tt[i] = cut[i].bytes
  BY <1>1, PiecesType
<1>4. \A i \in 1 .. Len(cut) : i <= Len(sent) /\ cut[i].bytes = Encode(sent[i])
  BY <1>1 DEF CodecInv, InOrderInv
<1>5. Len(cut) <= Len(sent)
  <2>1. Len(cut) # 0 => Len(cut) \in 1 .. Len(cut)
    BY <1>1
  <2>2. QED
    BY <1>1, <1>4, <2>1
<1>6. \A i \in 1 .. Len(tt) : ss[i] = tt[i]
  <2>1. ASSUME NEW i \in 1 .. Len(tt) PROVE ss[i] = tt[i]
    <3>1. i \in 1 .. Len(cut) /\ i \in 1 .. Len(sent)
      BY <1>1, <1>3, <1>5
    <3>2. QED
      BY <1>2, <1>3, <1>4, <3>1
  <2>2. QED
    BY <2>1
<1>7. /\ P \in Seq(Byte) /\ W \in Seq(Byte) /\ Len(P) \in Nat /\ Len(W) \in Nat
      /\ IsPrefix(P \o stream, W)
  <2>1. IsPrefix(P \o stream, W)
    BY WrittenType DEF CodecInv
  <2>2. P \in Seq(Byte) /\ W \in Seq(Byte)
    BY <1>2, <1>3, FlattenType
  <2> HIDE DEF P, W
  <2>3. QED
    BY <2>1, <2>2
<1>8. CASE Len(cut) = Len(sent)
  <2>1. tt = ss
    <3> HIDE DEF ss, tt
    <3>1. QED
      BY <1>2, <1>3, <1>6, <1>8, SeqEqual
  <2>2. P = W
    BY <2>1
  <2> HIDE DEF P, W
  <2>3. Len(P \o stream) <= Len(W) /\ Len(P \o stream) = Len(P) + Len(stream)
    <3>1. P \o stream \in Seq(Byte) /\ Len(P \o stream) = Len(P) + Len(stream)
      BY <1>1, <1>7, ConcatParts
    <3>2. QED
      BY <1>7, <3>1, PrefixElements
  <2>4. Len(stream) = 0
    BY <1>1, <1>7, <2>2, <2>3
  <2>5. QED
    BY <1>1, <1>5, <1>8, <2>4
<1>9. CASE Len(cut) < Len(sent)
  <2> DEFINE k == Len(cut) + 1
             u == ss[k]
  <2>1. k \in 1 .. Len(sent)
    BY <1>1, <1>9
  <2>2. sent[k] \in Message /\ Distinct(sent[k]) /\ u = Encode(sent[k])
    BY <1>1, <1>2, <2>1 DEF AllDistinct
  <2>3. Len(u) \in Nat
    BY <2>2, EncodeType
  <2>4. Len(P) + Len(u) <= Len(W) /\ \A j \in 1 .. Len(u) : W[Len(P) + j] = u[j]
    <3> HIDE DEF ss, tt
    <3>1. Len(tt) < Len(ss) /\ u = ss[Len(tt) + 1]
      BY <1>2, <1>3, <1>9
    <3>2. ss \in Seq(Seq(Byte)) /\ tt \in Seq(Seq(Byte))
      BY <1>2, <1>3
    <3> HIDE DEF u, k, P, W
    <3>3. /\ Len(FlattenSeq(tt)) + Len(ss[Len(tt) + 1]) <= Len(FlattenSeq(ss))
          /\ \A j \in 1 .. Len(ss[Len(tt) + 1]) :
                 FlattenSeq(ss)[Len(FlattenSeq(tt)) + j] = ss[Len(tt) + 1][j]
      BY <1>6, <3>1, <3>2, FlattenPart
    <3>4. QED
      BY <3>1, <3>3 DEF P, W
  <2> HIDE DEF P, W, u, ss, tt
  <2>5. ASSUME NEW j \in 1 .. Len(stream), j <= Len(u)
        PROVE  stream[j] = u[j]
    <3> DEFINE q == P \o stream
    <3>1. q \in Seq(Byte) /\ Len(q) = Len(P) + Len(stream) /\ q[Len(P) + j] = stream[j]
      BY <1>1, <1>7, ConcatParts
    <3>2. IsPrefix(q, W) /\ W \in Seq(Byte)
      BY <1>7
    <3> HIDE DEF q
    <3>3. \A i \in 1 .. Len(q) : q[i] = W[i]
      <4>1. q \in Seq(Byte)
        BY <3>1
      <4>2. QED
        BY <3>2, <4>1, PrefixElements
    <3>4. Len(P) + j \in 1 .. Len(q) /\ j \in 1 .. Len(u)
      BY <1>1, <1>7, <2>3, <2>5, <3>1
    <3>5. QED
      BY <2>4, <3>1, <3>3, <3>4
  <2> HIDE DEF k
  <2>6. \A j \in 1 .. Len(stream) : j <= Len(Encode(sent[k])) => stream[j] = Encode(sent[k])[j]
    BY <2>2, <2>5
  <2>7. k = Len(cut) + 1
    BY DEF k
  <2>8. Len(cut) \in Nat /\ Len(sent) \in Nat
    BY <1>1
  <2>9. Len(cut) # Len(sent)
    BY <1>9, <2>8
  <2>10. QED
    BY <1>5, <2>2, <2>6, <2>7, <2>8, <2>9
<1>10. QED
  BY <1>1, <1>5, <1>8, <1>9

-----------------------------------------------------------------------------
(* The invariant is inductive.                                             *)

LEMMA WritesKeep ==
    ASSUME CodecInv, CarWrites
    PROVE  CodecInv'
<1>1. /\ sent \in Seq(Message) /\ stream \in Seq(Byte) /\ cut = << >>
      /\ phase = "writing" /\ stream = Written
  BY DEF CodecInv, TypeOK, WritingInv, CarWrites
<1>2. PICK m \in Message : sent' = Append(sent, m) /\ stream' = stream \o Encode(m)
  BY DEF CarWrites
<1>3. cut' = cut /\ phase' = phase
  BY DEF CarWrites
<1>4. sent' \in Seq(Message)
  BY <1>1, <1>2
<1>5. Encode(m) \in Seq(Byte)
  BY EncodeType
<1>6. stream' \in Seq(Byte)
  BY <1>1, <1>2, <1>5, ConcatParts
<1>7. TypeOK'
  BY <1>1, <1>3, <1>4, <1>6 DEF CodecInv, TypeOK
<1>8. Written' = stream'
  <2>1. Encodes(sent') = Append(Encodes(sent), Encode(m)) /\ Encodes(sent) \in Seq(Seq(Byte))
    BY <1>1, <1>2, EncodesType
  <2>2. Written = FlattenSeq(Encodes(sent)) /\ Written' = FlattenSeq(Encodes(sent'))
    BY DEF Written, Encodes
  <2> DEFINE ss == Encodes(sent)
             t == Encode(m)
  <2> HIDE DEF ss, t
  <2>3. FlattenSeq(Append(ss, t)) = FlattenSeq(ss) \o t
    BY <1>5, <2>1, FlattenAppend DEF ss, t
  <2>4. QED
    BY <1>1, <1>2, <2>1, <2>2, <2>3 DEF ss, t
<1>9. WritingInv'
  BY <1>1, <1>3, <1>8 DEF WritingInv
<1>10. NothingLost'
  <2>1. FlattenSeq(Pieces(cut')) = << >>
    <3>1. Pieces(<< >>) = << >>
      BY DEF Pieces
    <3>2. QED
      BY <1>1, <1>3, <3>1, FlattenEmpty
  <2>2. NothingLost' <=> IsPrefix(FlattenSeq(Pieces(cut')) \o stream', Written')
    BY DEF NothingLost, Pieces
  <2>3. << >> \o stream' = stream'
    BY <1>6
  <2>4. IsPrefix(stream', stream')
    BY <1>6, PrefixSelf
  <2>5. QED
    BY <1>8, <2>1, <2>2, <2>3, <2>4
<1>11. CutInv' /\ InOrderInv'
  <2>1. DOMAIN cut' = {}
    BY <1>1, <1>3
  <2>2. QED
    BY <2>1 DEF CutInv, InOrderInv
<1>12. QED
  BY <1>7, <1>9, <1>10, <1>11 DEF CodecInv

LEMMA ReadKeeps ==
    ASSUME CodecInv, Read
    PROVE  CodecInv'
<1>1. /\ stream \in Seq(Byte) /\ cut = << >> /\ stream = Written
  BY DEF CodecInv, TypeOK, WritingInv, Read
<1>2. PICK n \in 1 .. Len(stream) : stream' = SubSeq(stream, 1, n)
  BY DEF Read
<1>3. sent' = sent /\ cut' = cut /\ phase' = "splitting"
  BY DEF Read
<1>4. /\ stream' \in Seq(Byte) /\ Len(stream') = n /\ n <= Len(stream)
      /\ \A i \in 1 .. n : stream'[i] = stream[i]
  <2>1. Len(stream) \in Nat /\ n \in Nat /\ n <= Len(stream)
    BY <1>1
  <2>2. QED
    BY <1>1, <1>2, <2>1
<1>5. TypeOK' /\ WritingInv'
  BY <1>3, <1>4 DEF CodecInv, TypeOK, WritingInv
<1>6. Written' = stream
  BY <1>1, <1>3 DEF Written
<1>7. NothingLost'
  <2>1. FlattenSeq(Pieces(cut')) = << >>
    <3>1. Pieces(<< >>) = << >>
      BY DEF Pieces
    <3>2. QED
      BY <1>1, <1>3, <3>1, FlattenEmpty
  <2>2. NothingLost' <=> IsPrefix(FlattenSeq(Pieces(cut')) \o stream', Written')
    BY DEF NothingLost, Pieces
  <2>3. << >> \o stream' = stream'
    BY <1>4
  <2>4. IsPrefix(stream', stream)
    BY <1>1, <1>4, PrefixElements
  <2>5. QED
    BY <1>6, <2>1, <2>2, <2>3, <2>4
<1>8. CutInv' /\ InOrderInv'
  <2>1. DOMAIN cut' = {}
    BY <1>1, <1>3
  <2>2. QED
    BY <2>1 DEF CutInv, InOrderInv
<1>9. QED
  BY <1>5, <1>7, <1>8 DEF CodecInv

LEMMA CutOffKeeps ==
    ASSUME CodecInv, CutOff
    PROVE  CodecInv'
<1> DEFINE e == Extract(stream)
           r == Rest(stream, e)
<1>1. /\ sent \in Seq(Message) /\ stream \in Seq(Byte) /\ cut \in Seq(Piece)
      /\ phase = "splitting" /\ Extractable(stream)
      /\ cut' = Append(cut, e) /\ stream' = r /\ sent' = sent /\ phase' = phase
  BY DEF CodecInv, TypeOK, CutOff
<1>2. e \in Piece /\ r \in Seq(Byte) /\ stream = e.bytes \o r /\ e.bytes \in Seq(Byte)
  <2>1. e \in Piece /\ r \in Seq(Byte) /\ stream = e.bytes \o r
    BY <1>1, ExtractType DEF Piece
  <2> HIDE DEF e
  <2>2. QED
    BY <2>1 DEF Piece
<1>3. Extractable(e.bytes) /\ Extract(e.bytes) = e
  BY <1>1, ExtractAgain
<1> HIDE DEF e, r
<1>4. /\ Len(cut) \in Nat /\ Len(cut') = Len(cut) + 1 /\ cut' \in Seq(Piece)
      /\ DOMAIN cut = 1 .. Len(cut) /\ DOMAIN cut' = 1 .. Len(cut) + 1
      /\ cut'[Len(cut) + 1] = e /\ \A i \in 1 .. Len(cut) : cut'[i] = cut[i]
  BY <1>1, <1>2
<1>5. TypeOK' /\ WritingInv'
  BY <1>1, <1>2, <1>4 DEF TypeOK, WritingInv
<1>6. NothingLost'
  <2> DEFINE tt == Pieces(cut)
             P == FlattenSeq(tt)
             b == e.bytes
  <2>1. tt \in Seq(Seq(Byte)) /\ Pieces(cut') = Append(tt, b)
    BY <1>1, <1>2, PiecesType
  <2>2. b \in Seq(Byte) /\ stream = b \o r
    BY <1>2
  <2> HIDE DEF tt, b
  <2>3. FlattenSeq(Pieces(cut')) = P \o b
    BY <2>1, <2>2, FlattenAppend
  <2>4. P \in Seq(Byte)
    BY <2>1, FlattenType
  <2>5. IsPrefix(P \o stream, Written)
    BY WrittenType DEF CodecInv, tt
  <2> HIDE DEF P
  <2>6. P \o (b \o r) = (P \o b) \o r
    BY <1>2, <2>2, <2>4
  <2>7. NothingLost' <=> IsPrefix(FlattenSeq(Pieces(cut')) \o stream', Written')
    BY DEF NothingLost, Pieces
  <2>8. Written' = Written
    BY <1>1 DEF Written
  <2>9. QED
    BY <1>1, <2>2, <2>3, <2>5, <2>6, <2>7, <2>8
<1>7. \A i \in 1 .. Len(cut) + 1 : i \in 1 .. Len(cut) \/ i = Len(cut) + 1
  BY <1>4
<1>8. CutInv'
  <2>1. \A i \in 1 .. Len(cut) : Extractable(cut[i].bytes) /\ Extract(cut[i].bytes) = cut[i]
    BY <1>4 DEF CodecInv, CutInv
  <2>2. QED
    BY <1>3, <1>4, <1>7, <2>1 DEF CutInv
<1>9. InOrderInv'
  <2> SUFFICES ASSUME AllDistinct
               PROVE  \A i \in 1 .. Len(cut) + 1 :
                          /\ i <= Len(sent)
                          /\ cut'[i] = [bytes |-> Encode(sent[i]), xor |-> sent[i].xor]
    BY <1>1, <1>4 DEF InOrderInv, AllDistinct
  <2>1. Len(sent) \in Nat /\ Len(cut) <= Len(sent) /\ (Len(cut) = Len(sent) => Len(stream) = 0)
    BY NextMessage
  <2>2. Len(cut) # Len(sent)
    BY <1>1, <2>1 DEF Extractable
  <2>3. Len(cut) < Len(sent)
    BY <1>4, <2>1, <2>2
  <2> DEFINE k == Len(cut) + 1
             m == sent[k]
  <2>4. /\ m \in Message /\ Distinct(m)
        /\ \A j \in 1 .. Len(stream) : j <= Len(Encode(m)) => stream[j] = Encode(m)[j]
    BY <2>3, NextMessage
  <2> HIDE DEF m
  <2>5. e = [bytes |-> Encode(m), xor |-> m.xor]
    BY <1>1, <2>4, ReadDistinct DEF e
  <2>6. \A i \in 1 .. Len(cut) :
            i <= Len(sent) /\ cut[i] = [bytes |-> Encode(sent[i]), xor |-> sent[i].xor]
    BY <1>4 DEF CodecInv, InOrderInv
  <2>7. k <= Len(sent) /\ cut'[k] = [bytes |-> Encode(sent[k]), xor |-> sent[k].xor]
    BY <1>4, <2>1, <2>3, <2>5 DEF m
  <2>8. QED
    BY <1>4, <1>7, <2>6, <2>7
<1>10. QED
  BY <1>5, <1>6, <1>8, <1>9 DEF CodecInv

(* Nothing written, nothing read: the state a read is begun in, and left.  *)
NothingThere == sent = << >> /\ stream = << >> /\ cut = << >> /\ phase = "writing"

LEMMA NothingThereKeeps == NothingThere => CodecInv
<1> SUFFICES ASSUME NothingThere PROVE CodecInv
  OBVIOUS
<1> USE DEF NothingThere
<1>1. TypeOK
  BY DEF TypeOK
<1>2. Written = << >>
  <2>1. [i \in DOMAIN sent |-> Encode(sent[i])] = << >>
    OBVIOUS
  <2>2. QED
    BY <2>1, FlattenEmpty DEF Written
<1>3. WritingInv
  BY <1>2 DEF WritingInv
<1>4. NothingLost
  <2>1. [i \in DOMAIN cut |-> cut[i].bytes] = << >>
    OBVIOUS
  <2>2. FlattenSeq([i \in DOMAIN cut |-> cut[i].bytes]) = << >>
    BY <2>1, FlattenEmpty
  <2>3. << >> \in Seq(Byte) /\ << >> \o << >> = << >>
    OBVIOUS
  <2>4. IsPrefix(<< >>, << >>)
    BY <2>3, PrefixSelf
  <2>5. QED
    BY <1>2, <2>2, <2>3, <2>4 DEF NothingLost
<1>5. DOMAIN cut = {}
  OBVIOUS
<1>6. CutInv /\ InOrderInv
  BY <1>5 DEF CutInv, InOrderInv
<1>7. QED
  BY <1>1, <1>3, <1>4, <1>6 DEF CodecInv

LEMMA Invariant == Spec => []CodecInv
<1>1. Init => CodecInv
  BY NothingThereKeeps DEF Init, NothingThere
<1>2. CodecInv /\ [Next]_vars => CodecInv'
  <2> SUFFICES ASSUME CodecInv, [Next]_vars PROVE CodecInv'
    OBVIOUS
  <2>1. CASE CarWrites
    BY <2>1, WritesKeep
  <2>2. CASE Read
    BY <2>2, ReadKeeps
  <2>3. CASE CutOff
    BY <2>3, CutOffKeeps
  <2>4. CASE Done
    <3>1. NothingThere'
      BY <2>4 DEF Done, NothingThere
    <3>2. NothingThere' => CodecInv'
      BY NothingThereKeeps, PTL
    <3>3. QED
      BY <3>1, <3>2
  <2>5. CASE UNCHANGED vars
    BY <2>5 DEF vars, CodecInv, TypeOK, WritingInv, NothingLost, Written, CutInv,
        InOrderInv, AllDistinct
  <2>6. QED
    BY <2>1, <2>2, <2>3, <2>4, <2>5 DEF Next
<1>3. QED
  BY <1>1, <1>2, PTL DEF Spec

-----------------------------------------------------------------------------
(* Results.                                                                *)

(* A read is bytes, and what is cut off is bytes with a key of one byte,   *)
(* whatever the car wrote and wherever the read ended                      *)
(* (phev_pipe.c 851-875).                                                  *)
THEOREM TypeCorrect == Spec => []TypeOK
<1>1. CodecInv => TypeOK
  BY DEF CodecInv
<1>2. QED
  BY <1>1, Invariant, PTL

(* The three keys the library tries are enough: what it stops at is no     *)
(* message under any key there is, and what it takes is one under the key  *)
(* it found (phev_core.c 343-366).                                         *)
THEOREM ReadingFound == Spec => []FindsReading
<1>1. CodecInv => FindsReading
  <2> SUFFICES ASSUME CodecInv, Len(stream) >= 3
               PROVE  IF Extractable(stream) THEN Guessed(stream) \in Readings(stream)
                                             ELSE Readings(stream) = {}
    BY DEF FindsReading
  <2>1. stream \in Seq(Byte)
    BY DEF CodecInv, TypeOK
  <2>2. CASE Extractable(stream)
    <3>1. \E i \in {1, 2, 3} : Guessed(stream) = Guesses(stream)[i] /\ Accepts(stream, Guessed(stream))
      BY <2>1, <2>2, GuessedIs
    <3>2. Guessed(stream) \in Readings(stream)
      BY <2>1, <3>1, ReadingGuessed
    <3>3. QED
      BY <2>2, <3>2
  <2>3. CASE ~Extractable(stream)
    <3>1. \A i \in {1, 2, 3} : ~Accepts(stream, Guesses(stream)[i])
      BY <2>1, <2>3, GuessesType DEF Extractable
    <3>2. \A key : key \notin Readings(stream)
      BY <2>1, <3>1, ReadingGuessed
    <3>3. QED
      BY <2>3, <3>2
  <2>4. QED
    BY <2>2, <2>3
<1>2. QED
  BY <1>1, Invariant, PTL

(* Splitting a read, whatever it holds and wherever it ends, neither loses *)
(* nor repeats a byte (phev_pipe.c 851-875).                               *)
THEOREM BytesKept == Spec => []NothingLost
<1>1. CodecInv => NothingLost
  BY DEF CodecInv
<1>2. QED
  BY <1>1, Invariant, PTL

(* Each message cut off reads the same at every later stage of the chain,  *)
(* encoded or decoded, and the responder finds its key                     *)
(* (phev_pipe.c 293-316).                                                  *)
THEOREM StagesRead == Spec => []StagesAgree
<1>1. CodecInv => StagesAgree
  <2> SUFFICES ASSUME CodecInv, NEW i \in DOMAIN cut
               PROVE  LET m == Fields(Xored(cut[i].bytes, cut[i].xor), cut[i].xor)
                      IN  /\ Decode(cut[i].bytes) = m
                          /\ RespondedTo(Transformed(cut[i].bytes)) = m
    BY DEF StagesAgree
  <2> DEFINE s == cut[i].bytes
  <2>1. s \in Seq(Byte)
    <3>1. cut[i] \in Piece
      BY DEF CodecInv, TypeOK
    <3>2. QED
      BY <3>1 DEF Piece
  <2>2. Extractable(s) /\ Extract(s) = cut[i]
    BY DEF CodecInv, CutInv
  <2>3. LET e == Extract(s)
            m == Fields(Xored(e.bytes, e.xor), e.xor)
        IN  Decode(e.bytes) = m /\ RespondedTo(Transformed(e.bytes)) = m
    <3> HIDE DEF s
    <3>1. QED
      BY <2>1, <2>2, StagesAgreeOnOne
  <2>4. QED
    BY <2>2, <2>3
<1>2. QED
  BY <1>1, Invariant, PTL

(* Decoding undoes encoding: of any message that cannot be taken for       *)
(* another the library finds the key, the length and every field again,    *)
(* although the key is not sent (phev_core.c 343-410).                     *)
THEOREM DecodeOfEncode ==
    ASSUME NEW m \in Message, Distinct(m)
    PROVE  Extractable(Encode(m)) /\ Decode(Encode(m)) = m
<1> DEFINE s == Encode(m)
<1>1. s \in Seq(Byte) /\ Xored(s, m.xor) = Plain(m) /\ Len(s) \in Nat
  <2>1. s \in Seq(Byte) /\ Xored(s, m.xor) = Plain(m)
    BY EncodeType
  <2> HIDE DEF s
  <2>2. QED
    BY <2>1
<1>2. Extractable(s) /\ Extract(s) = [bytes |-> s, xor |-> m.xor]
  <2>1. \A j \in 1 .. Len(s) : j <= Len(Encode(m)) => s[j] = Encode(m)[j]
    OBVIOUS
  <2>2. Len(Encode(m)) = Len(s)
    OBVIOUS
  <2> HIDE DEF s
  <2>3. /\ Extractable(s) <=> Len(Encode(m)) <= Len(s)
        /\ Extractable(s) => Extract(s) = [bytes |-> Encode(m), xor |-> m.xor]
    BY <1>1, <2>1, ReadDistinct
  <2>4. Len(Encode(m)) <= Len(s)
    BY <1>1, <2>2
  <2>5. QED
    BY <2>3, <2>4 DEF s
<1> HIDE DEF s
<1>3. Extract(s).bytes = s /\ Extract(s).xor = m.xor
  BY <1>2
<1>4. Decode(s) = m
  BY <1>1, <1>3, FieldsOfPlain DEF Decode
<1>5. QED
  BY <1>2, <1>4 DEF s

(* Of messages that cannot be taken for another the library reads exactly  *)
(* what the car sent, in order, and a torn one never decodes, for any      *)
(* number of them, any data and any keys (phev_core.c 343-410).            *)
THEOREM SentIsRead == Spec => []ReadAsSent
<1>1. CodecInv => ReadAsSent
  <2> SUFFICES ASSUME CodecInv, AllDistinct
               PROVE  /\ IsPrefix([i \in DOMAIN cut |-> Decode(cut[i].bytes)], sent)
                      /\ (phase = "splitting" /\ ~Extractable(stream)) =>
                             LET rest == SubSeq(sent, Len(cut) + 1, Len(sent))
                             IN  rest # << >> => Len(stream) < Len(Encode(rest[1]))
    BY DEF ReadAsSent, AllDistinct
  <2>1. /\ sent \in Seq(Message) /\ stream \in Seq(Byte) /\ DOMAIN cut = 1 .. Len(cut)
        /\ Len(stream) \in Nat
    BY DEF CodecInv, TypeOK
  <2>2. Len(cut) \in Nat /\ Len(sent) \in Nat /\ Len(cut) <= Len(sent)
    BY NextMessage
  <2>3. IsPrefix([i \in DOMAIN cut |-> Decode(cut[i].bytes)], sent)
    <3> DEFINE d == [i \in 1 .. Len(cut) |-> Decode(cut[i].bytes)]
    <3>1. ASSUME NEW i \in 1 .. Len(cut)
          PROVE  Decode(cut[i].bytes) = sent[i] /\ sent[i] \in Message
      <4>1. i \in 1 .. Len(sent)
        BY <2>2
      <4>2. sent[i] \in Message /\ Distinct(sent[i])
        BY <2>1, <4>1 DEF AllDistinct
      <4>3. cut[i] = [bytes |-> Encode(sent[i]), xor |-> sent[i].xor]
        BY <2>1 DEF CodecInv, InOrderInv
      <4>4. cut[i].bytes = Encode(sent[i])
        BY <4>3
      <4>5. QED
        BY <4>2, <4>4, DecodeOfEncode
    <3>2. d \in Seq(Message) /\ Len(d) = Len(cut) /\ \A i \in 1 .. Len(cut) : d[i] = sent[i]
      BY <2>2, <3>1
    <3> HIDE DEF d
    <3>3. IsPrefix(d, sent)
      BY <2>1, <2>2, <3>2, PrefixElements
    <3>4. QED
      BY <2>1, <3>3 DEF d
  <2>4. ASSUME ~Extractable(stream), SubSeq(sent, Len(cut) + 1, Len(sent)) # << >>
        PROVE  Len(stream) < Len(Encode(SubSeq(sent, Len(cut) + 1, Len(sent))[1]))
    <3> DEFINE m == sent[Len(cut) + 1]
    <3>1. Len(cut) < Len(sent)
      BY <2>1, <2>2, <2>4
    <3>2. SubSeq(sent, Len(cut) + 1, Len(sent))[1] = m
      BY <2>1, <2>2, <3>1
    <3>3. /\ m \in Message /\ Distinct(m)
          /\ \A j \in 1 .. Len(stream) : j <= Len(Encode(m)) => stream[j] = Encode(m)[j]
      BY <3>1, NextMessage
    <3> HIDE DEF m
    <3>4. ~(Len(Encode(m)) <= Len(stream))
      BY <2>1, <2>4, <3>3, ReadDistinct
    <3>5. Len(Encode(m)) \in Nat
      BY <3>3, EncodeType
    <3>6. Len(stream) < Len(Encode(m))
      BY <2>1, <3>4, <3>5
    <3>7. QED
      BY <3>2, <3>6
  <2>5. QED
    BY <2>3, <2>4
<1>2. QED
  BY <1>1, Invariant, PTL

====
