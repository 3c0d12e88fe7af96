--------------------------- MODULE XsvfPlayerProofs ---------------------------
(***************************************************************************)
(* Proofs about XsvfPlayer, for every well-formed file, of any length, and *)
(* whatever the chain answers: the two passes of run() keep step with the  *)
(* file, the counter of the dummy pass is the length of it, the real pass  *)
(* compares with what it has read itself, and carries out the commands of  *)
(* the file in order, up to the first that fails.                          *)
(***************************************************************************)
EXTENDS XsvfPlayer, LenValProofs, FiniteSetTheorems

-----------------------------------------------------------------------------
(* FILES *)

(* A command of a file. *)
Entry == [cmd : Byte, data : Seq(Byte)]

(* A function is defined by recursion up to a bound. *)
Recurs(g, L, c, step) == g = [n \in 0 .. L |-> IF n = 0 THEN c ELSE step[<<n - 1, g[n - 1]>>]]

(* There is one. *)
LEMMA BoundedRecursion ==
  ASSUME NEW L \in Nat, NEW T, NEW c \in T, NEW step \in [Nat \X T -> T]
  PROVE  \E g : Recurs(g, L, c, step)
<1>1. PICK f : Iterates(f, T, c, step)
  BY PrimitiveRecursion
<1> DEFINE g == [n \in 0 .. L |-> f[n]]
<1>2. ASSUME NEW n \in 0 .. L
      PROVE  g[n] = IF n = 0 THEN c ELSE step[<<n - 1, g[n - 1]>>]
  <2>1. CASE n = 0
    BY <1>1, <2>1 DEF Iterates
  <2>2. CASE n # 0
    <3>1. n - 1 \in Nat /\ n - 1 \in 0 .. L /\ (n - 1) + 1 = n
      BY <2>2
    <3>2. f[(n - 1) + 1] = step[<<n - 1, f[n - 1]>>]
      BY <1>1, <3>1 DEF Iterates
    <3> QED
      BY <2>2, <3>1, <3>2
  <2> QED
    BY <2>1, <2>2
<1>3. g = [n \in 0 .. L |-> IF n = 0 THEN c ELSE step[<<n - 1, g[n - 1]>>]]
  BY <1>2
<1>4. Recurs(g, L, c, step)
  BY <1>3 DEF Recurs
<1> HIDE DEF g
<1> QED
  BY <1>4

(* Its values are in the set the steps stay in. *)
LEMMA RecursionType ==
  ASSUME NEW L \in Nat, NEW T, NEW g, g[0] \in T,
         \A n \in 0 .. L - 1 : g[n] \in T => g[n + 1] \in T
  PROVE  \A n \in 0 .. L : g[n] \in T
<1> DEFINE A == {n \in Nat : n \in 0 .. L => g[n] \in T}
<1>1. 0 \in A
  OBVIOUS
<1>2. ASSUME NEW n \in Nat, n \in A PROVE n + 1 \in A
  <2>1. n + 1 \in 0 .. L => n \in 0 .. L /\ n \in 0 .. L - 1
    OBVIOUS
  <2> QED
    BY <1>2, <2>1
<1>3. Nat \subseteq A
  <2> HIDE DEF A
  <2> QED
    BY <1>1, <1>2, NatSets
<1> QED
  BY <1>3

(* Encoded lays the commands one behind the other. *)
LEMMA EncodedSteps ==
  ASSUME NEW s \in Seq(Entry)
  PROVE  /\ Encoded(s)[0] = <<>>
         /\ \A n \in 0 .. Len(s) - 1 :
              Encoded(s)[n + 1] = Encoded(s)[n] \o <<s[n + 1].cmd>> \o s[n + 1].data
         /\ \A n \in 0 .. Len(s) : Encoded(s)[n] \in Seq(Byte)
<1> DEFINE L == Len(s)
           T == Seq(Byte)
           Rec(g) == g = [n \in 0 .. L |-> IF n = 0 THEN <<>>
                                          ELSE g[n - 1] \o <<s[n].cmd>> \o s[n].data]
           grown(n, b) == IF n < L THEN b \o <<s[n + 1].cmd>> \o s[n + 1].data ELSE b
           step == [p \in Nat \X T |-> grown(p[1], p[2])]
<1>0. L \in Nat /\ \A n \in 1 .. L : s[n] \in Entry /\ s[n].cmd \in Byte /\ s[n].data \in T
  <2>1. L \in Nat /\ \A n \in 1 .. L : s[n] \in Entry
    OBVIOUS
  <2>2. \A e \in Entry : e.cmd \in Byte /\ e.data \in T
    BY DEF Entry
  <2> QED
    BY <2>1, <2>2
<1>1. \A n \in Nat, b \in T : grown(n, b) \in T
  <2> SUFFICES ASSUME NEW n \in Nat, NEW b \in T PROVE grown(n, b) \in T
    OBVIOUS
  <2>1. CASE n < L
    <3>1. n + 1 \in 1 .. L
      BY <1>0, <2>1
    <3>2. s[n + 1].cmd \in Byte /\ s[n + 1].data \in T
      BY <1>0, <3>1
    <3> DEFINE x == s[n + 1].cmd
               d == s[n + 1].data
    <3> HIDE DEF x, d
    <3>3. b \o <<x>> \o d \in T
      BY <3>2 DEF x, d
    <3> QED
      BY <2>1, <3>3 DEF x, d
  <2>2. CASE ~(n < L)
    BY <2>2
  <2> QED
    BY <2>1, <2>2
<1>2. step \in [Nat \X T -> T]
  <2> HIDE DEF grown
  <2> QED
    BY <1>1
<1> DEFINE c == <<>>
<1>3. \E g : Recurs(g, L, c, step)
  <2>1. c \in T
    OBVIOUS
  <2>2. L \in Nat
    BY <1>0
  <2> HIDE DEF step, T, L, c
  <2> QED
    BY <1>2, <2>1, <2>2, BoundedRecursion
<1>4. PICK f : f = [n \in 0 .. L |-> IF n = 0 THEN <<>> ELSE step[<<n - 1, f[n - 1]>>]]
  BY <1>3 DEF Recurs
<1>5. \A n \in 0 .. L - 1 : f[n + 1] = step[<<n, f[n]>>]
  <2> SUFFICES ASSUME NEW n \in 0 .. L - 1 PROVE f[n + 1] = step[<<n, f[n]>>]
    OBVIOUS
  <2>1. n + 1 \in 0 .. L /\ n + 1 # 0 /\ (n + 1) - 1 = n
    BY <1>0
  <2> HIDE DEF step
  <2> QED
    BY <1>4, <2>1
<1>6. \A n \in 0 .. L : f[n] \in T
  <2>1. f[0] \in T
    BY <1>0, <1>4
  <2>2. ASSUME NEW n \in 0 .. L - 1, f[n] \in T PROVE f[n + 1] \in T
    <3> HIDE DEF step, T, L
    <3>1. n \in Nat /\ f[n + 1] = step[<<n, f[n]>>]
      BY <1>0, <1>5
    <3> QED
      BY <1>2, <2>2, <3>1
  <2> HIDE DEF T
  <2> QED
    BY <1>0, <2>1, <2>2, RecursionType
<1>7. Rec(f)
  <2>1. ASSUME NEW n \in 0 .. L
        PROVE  f[n] = IF n = 0 THEN <<>> ELSE f[n - 1] \o <<s[n].cmd>> \o s[n].data
    <3>1. CASE n = 0
      BY <1>0, <1>4, <3>1
    <3>2. CASE n # 0
      <4>1. /\ n - 1 \in 0 .. L - 1 /\ (n - 1) + 1 = n /\ n - 1 \in 0 .. L
            /\ n - 1 < L /\ n - 1 \in Nat
        BY <1>0, <3>2
      <4>2. f[n] = step[<<n - 1, f[n - 1]>>] /\ f[n - 1] \in T
        <5> HIDE DEF step, T
        <5> QED
          BY <1>5, <1>6, <4>1
      <4>3. step[<<n - 1, f[n - 1]>>] = grown(n - 1, f[n - 1])
        <5> HIDE DEF grown, T
        <5> QED
          BY <4>1, <4>2
      <4> QED
        BY <3>2, <4>1, <4>2, <4>3
    <3> QED
      BY <3>1, <3>2
  <2>2. f = [n \in 0 .. L |-> f[n]]
    <3> HIDE DEF step, L
    <3> QED
      BY <1>4
  <2> QED
    BY <2>1, <2>2
<1> DEFINE of == CHOOSE h : Rec(h)
<1>8. Rec(of)
  <2> HIDE DEF Rec
  <2> QED
    BY <1>7
<1>9. Encoded(s) = of
  BY DEF Encoded
<1> HIDE DEF of
<1>10. of[0] = <<>>
  BY <1>0, <1>8
<1>11. ASSUME NEW n \in 0 .. L - 1 PROVE of[n + 1] = of[n] \o <<s[n + 1].cmd>> \o s[n + 1].data
  <2>1. n + 1 \in 0 .. L /\ n + 1 # 0 /\ (n + 1) - 1 = n
    BY <1>0
  <2> QED
    BY <1>8, <2>1
<1>12. \A n \in 0 .. L : of[n] \in T
  <2>1. of[0] \in T
    BY <1>10
  <2>2. ASSUME NEW n \in 0 .. L - 1, of[n] \in T PROVE of[n + 1] \in T
    <3>1. n \in Nat /\ n < L
      BY <1>0
    <3>2. grown(n, of[n]) \in T
      BY <1>1, <2>2, <3>1
    <3> QED
      BY <1>11, <3>1, <3>2
  <2> HIDE DEF T
  <2> QED
    BY <1>0, <2>1, <2>2, RecursionType
<1> QED
  BY <1>9, <1>10, <1>11, <1>12

-----------------------------------------------------------------------------
(* BYTE STRINGS *)

(* A lenVal holds these bytes, whatever an earlier value has left behind them. *)
Holds(x, bytes) == x.len = Len(bytes) /\ \A i \in 0 .. Len(bytes) - 1 : x.val[i] = bytes[i + 1]

(* It does when it has read them. *)
LEMMA ReadHolds ==
  ASSUME NEW x, NEW bytes \in Seq(Byte), Len(bytes) <= MaxLen + 1
  PROVE  Holds(readVal(x, bytes), bytes)
<1>1. MaxLen \in Nat /\ Len(bytes) \in Nat
  BY BaseType
<1>2. \A i \in 0 .. Len(bytes) - 1 : i \in 0 .. MaxLen /\ i < Len(bytes)
  BY <1>1
<1> QED
  BY <1>2 DEF Holds, readVal

(* The number it stands for depends on the bytes only. *)
LEMMA ValueHeld ==
  ASSUME NEW x, NEW y, NEW bytes \in Seq(Byte), Holds(x, bytes), Holds(y, bytes)
  PROVE  value(x) = value(y) /\ value(x) \in Nat
<1> DEFINE L == Len(bytes)
<1>0. L \in Nat /\ \A i \in 0 .. L - 1 : i + 1 \in 1 .. L /\ bytes[i + 1] \in Byte
  OBVIOUS
<1>1. /\ x.len = L /\ \A i \in 0 .. L - 1 : x.val[i] = bytes[i + 1] /\ x.val[i] \in Byte
      /\ y.len = L /\ \A i \in 0 .. L - 1 : y.val[i] = bytes[i + 1] /\ y.val[i] \in Byte
  BY <1>0 DEF Holds
<1> HIDE DEF L
<1>2. PICK f : Sums(f, x) /\ value(x) = f[x.len]
  BY <1>0, <1>1, ValueSums
<1>3. PICK g : Sums(g, y) /\ value(y) = g[y.len]
  BY <1>0, <1>1, ValueSums
<1>4. f[0] = 0 /\ \A n \in 0 .. L - 1 : f[n + 1] = f[n] * Base + x.val[n]
  BY <1>1, <1>2 DEF Sums
<1>5. g[0] = 0 /\ \A n \in 0 .. L - 1 : g[n + 1] = g[n] * Base + y.val[n]
  BY <1>1, <1>3 DEF Sums
<1> DEFINE A == {n \in Nat : n \in 0 .. L => f[n] = g[n]}
<1>6. 0 \in A
  BY <1>4, <1>5
<1>7. ASSUME NEW n \in Nat, n \in A PROVE n + 1 \in A
  <2> SUFFICES ASSUME n + 1 \in 0 .. L PROVE f[n + 1] = g[n + 1]
    OBVIOUS
  <2>1. n \in 0 .. L /\ n \in 0 .. L - 1
    BY <1>0
  <2>2. f[n] = g[n] /\ x.val[n] = y.val[n]
    BY <1>1, <1>7, <2>1
  <2> QED
    BY <1>4, <1>5, <2>1, <2>2
<1>8. Nat \subseteq A
  <2> HIDE DEF A
  <2> QED
    BY <1>6, <1>7, NatSets
<1>9. f[L] = g[L]
  BY <1>0, <1>8
<1>10. f[L] \in Nat
  BY <1>0, <1>1, <1>2 DEF Sums
<1> QED
  BY <1>1, <1>2, <1>3, <1>9, <1>10

(* Number is that number. *)
LEMMA NumberHeld ==
  ASSUME NEW x, NEW bytes \in Seq(Byte), Len(bytes) <= MaxLen + 1, Holds(x, bytes)
  PROVE  value(x) = Number(bytes) /\ Number(bytes) \in Nat
<1>1. Holds(readVal(Zeroed, bytes), bytes)
  BY ReadHolds
<1> QED
  BY <1>1, ValueHeld DEF Number

(* The numbers below n. *)
LEMMA Below == ASSUME NEW n \in Nat PROVE IsFiniteSet(0 .. n - 1) /\ Cardinality(0 .. n - 1) = n
<1> DEFINE b == n - 1
<1>1. 0 \in Int /\ b \in Int
  OBVIOUS
<1> HIDE DEF b
<1>2. IsFiniteSet(0 .. b) /\ Cardinality(0 .. b) = IF 0 > b THEN 0 ELSE b - 0 + 1
  BY <1>1, FS_Interval
<1> QED
  BY <1>2 DEF b

(* The bits of a mask are among those of its bytes. *)
LEMMA MaskBitsBound ==
  ASSUME NEW x, x.len \in Nat
  PROVE  /\ IsFiniteSet(MaskBits(x)) /\ Cardinality(MaskBits(x)) \in Nat
         /\ Cardinality(MaskBits(x)) <= x.len * ByteBits
<1> DEFINE S == 0 .. x.len - 1
           T == 0 .. ByteBits - 1
<1>1. IsFiniteSet(S) /\ Cardinality(S) = x.len
  BY Below
<1>2. IsFiniteSet(T) /\ Cardinality(T) = ByteBits
  BY BaseType, Below
<1>3. MaskBits(x) \in SUBSET (S \X T)
  BY DEF MaskBits
<1> HIDE DEF S, T
<1>4. IsFiniteSet(S \X T) /\ Cardinality(S \X T) = x.len * ByteBits
  BY <1>1, <1>2, FS_Product
<1> QED
  BY <1>3, <1>4, FS_Subset, FS_CardinalityType

(* They depend on the bytes only. *)
LEMMA MaskBitsHeld ==
  ASSUME NEW x, NEW y, NEW bytes \in Seq(Byte), Holds(x, bytes), Holds(y, bytes)
  PROVE  MaskBits(x) = MaskBits(y)
<1>1. x.len = y.len /\ \A i \in 0 .. x.len - 1 : x.val[i] = y.val[i]
  BY DEF Holds
<1> QED
  BY <1>1 DEF MaskBits

-----------------------------------------------------------------------------
(* LENGTHS *)

(* The bytes for a number of bits. *)
LEMMA BytesForType ==
  ASSUME NEW n \in Nat
  PROVE  /\ BytesFor(n) \in Nat /\ n <= BytesFor(n) * ByteBits
         /\ \A k \in Nat : n <= k * ByteBits => BytesFor(n) <= k
<1> DEFINE B == ByteBits
           m == n + B - 1
           q == m \div B
<1>1. B \in Nat \ {0} /\ m \in Nat
  BY BaseType
<1> HIDE DEF B, m
<1>2. q \in Nat /\ m % B \in 0 .. B - 1 /\ m = B * q + (m % B)
  BY <1>1, NatQuotient
<1> HIDE DEF q
<1>3. ASSUME NEW k \in Nat, n <= k * B PROVE q <= k
  <2> SUFFICES ASSUME q >= k + 1 PROVE FALSE
    BY <1>2
  <2>1. B * q >= B * (k + 1)
    BY <1>1, <1>2
  <2>2. B * (k + 1) = k * B + B
    BY <1>1
  <2>3. B * q <= m /\ m = n + B - 1
    BY <1>1, <1>2 DEF m
  <2> QED
    BY <1>1, <1>2, <1>3, <2>1, <2>2, <2>3
<1>4. BytesFor(n) = q
  BY DEF BytesFor, q, m, B
<1>5. n <= q * B
  <2>1. n + B - 1 = B * q + (m % B) /\ m % B <= B - 1
    BY <1>1, <1>2 DEF m
  <2>2. B * q = q * B /\ m % B \in Nat
    BY <1>1, <1>2
  <2> DEFINE r == m % B
  <2> HIDE DEF r
  <2> QED
    BY <1>1, <1>2, <2>1, <2>2 DEF r
<1> QED
  BY <1>2, <1>3, <1>4, <1>5 DEF B

(* xsvfGetAsNumBytes counts them if a short can. *)
LEMMA BytesOfSmall ==
  ASSUME NEW n \in Nat, BytesFor(n) < ShortHalf
  PROVE  BytesOf(n) = BytesFor(n)
<1> DEFINE b == BytesFor(n)
           m == 2 * ShortHalf
<1>1. b \in Nat /\ ShortHalf \in Nat /\ b < ShortHalf
  BY BytesForType, LenValAssumption
<1>2. BytesOf(n) = ((b + ShortHalf) % m) - ShortHalf
  BY DEF BytesOf, xsvfGetAsNumBytes, BytesFor
<1> HIDE DEF b
<1>3. m \in Nat \ {0} /\ b + ShortHalf \in 0 .. m - 1
  BY <1>1
<1>4. (b + ShortHalf) % m = b + ShortHalf
  <2> HIDE DEF m
  <2> QED
    BY <1>3, RestOfRest
<1> QED
  BY <1>1, <1>2, <1>4 DEF b

-----------------------------------------------------------------------------
(* SETTINGS *)

SettingType == [bits : Nat, mask : Seq(Byte), expected : Seq(Byte)]

(* Parts of byte sequences. *)
LEMMA PartOf ==
  ASSUME NEW b \in Seq(Byte), NEW p \in Nat \ {0}, NEW n \in Nat, p + n - 1 <= Len(b)
  PROVE  /\ SubSeq(b, p, p + n - 1) \in Seq(Byte) /\ Len(SubSeq(b, p, p + n - 1)) = n
         /\ \A i \in 1 .. n : SubSeq(b, p, p + n - 1)[i] = b[p + i - 1]
<1>1. Len(SubSeq(b, p, p + n - 1)) = n
  OBVIOUS
<1>2. \A i \in 1 .. n : SubSeq(b, p, p + n - 1)[i] = b[p + i - 1] /\ p + i - 1 \in 1 .. Len(b)
  OBVIOUS
<1>3. \A i \in 1 .. Len(b) : b[i] \in Byte
  OBVIOUS
<1> QED
  BY <1>1, <1>2, <1>3

(* The upper half. *)
LEMMA UpperHalfIs ==
  ASSUME NEW b \in Seq(Byte)
  PROVE  /\ UpperHalf(b) \in Seq(Byte)
         /\ \A n \in Nat : Len(b) = 2 * n => UpperHalf(b) = SubSeq(b, 1 + n, 1 + n + n - 1)
<1> DEFINE h == Len(b) \div 2
           p == h + 1
           n == Len(b) - h
<1>1. h \in Nat /\ h <= Len(b) /\ Len(b) \in Nat
  OBVIOUS
<1>2. UpperHalf(b) = SubSeq(b, p, Len(b))
  BY DEF UpperHalf
<1> HIDE DEF h
<1>3. p \in Nat \ {0} /\ n \in Nat /\ p + n - 1 = Len(b)
  BY <1>1
<1>4. SubSeq(b, p, p + n - 1) \in Seq(Byte)
  <2>1. p + n - 1 <= Len(b)
    BY <1>1, <1>3
  <2> HIDE DEF p, n
  <2> QED
    BY <1>3, <2>1, PartOf
<1>5. ASSUME NEW m \in Nat, Len(b) = 2 * m PROVE UpperHalf(b) = SubSeq(b, 1 + m, 1 + m + m - 1)
  <2>1. h = m
    BY <1>5 DEF h
  <2>2. h + 1 = 1 + m /\ Len(b) = 1 + m + m - 1
    BY <1>5, <2>1
  <2> QED
    BY <1>2, <2>2
<1> QED
  BY <1>2, <1>3, <1>4, <1>5

(* What a command sets. *)
LEMMA AfterIs ==
  ASSUME NEW set \in SettingType, NEW c
  PROVE  /\ After(set, c).bits = IF c.cmd = XSDRSIZE THEN Number(c.data) ELSE set.bits
         /\ After(set, c).mask = IF c.cmd = XSETSDRMASKS THEN UpperHalf(c.data) ELSE set.mask
         /\ After(set, c).expected = IF c.cmd \in ExpectCodes THEN UpperHalf(c.data)
                                     ELSE set.expected
         /\ c \in Entry /\ (c.cmd = XSDRSIZE => Len(c.data) = 4) => After(set, c) \in SettingType
<1>2. After(set, c) = [bits |-> IF c.cmd = XSDRSIZE THEN Number(c.data) ELSE set.bits,
                       mask |-> IF c.cmd = XSETSDRMASKS THEN UpperHalf(c.data) ELSE set.mask,
                       expected |-> IF c.cmd \in ExpectCodes THEN UpperHalf(c.data)
                                    ELSE set.expected]
  BY DEF After
<1>3. ASSUME c \in Entry, c.cmd = XSDRSIZE => Len(c.data) = 4
      PROVE  After(set, c) \in SettingType
  <2>1. /\ c.data \in Seq(Byte) /\ set.bits \in Nat
        /\ set.mask \in Seq(Byte) /\ set.expected \in Seq(Byte)
    BY <1>3 DEF Entry, SettingType
  <2>2. UpperHalf(c.data) \in Seq(Byte)
    BY <2>1, UpperHalfIs
  <2>3. c.cmd = XSDRSIZE => Number(c.data) \in Nat
    <3> SUFFICES ASSUME c.cmd = XSDRSIZE PROVE Number(c.data) \in Nat
      OBVIOUS
    <3>0. MaxLen >= 4 /\ MaxLen \in Nat
      BY PlayerAssumption, BaseType
    <3>a. Len(c.data) = 4
      BY <1>3
    <3>1. Len(c.data) <= MaxLen + 1
      BY <3>a, <3>0
    <3>2. Holds(readVal(Zeroed, c.data), c.data)
      BY <2>1, <3>1, ReadHolds
    <3> QED
      BY <2>1, <3>1, <3>2, NumberHeld
  <2> DEFINE x == IF c.cmd = XSDRSIZE THEN Number(c.data) ELSE set.bits
             y == IF c.cmd = XSETSDRMASKS THEN UpperHalf(c.data) ELSE set.mask
             z == IF c.cmd \in ExpectCodes THEN UpperHalf(c.data) ELSE set.expected
  <2>4. x \in Nat
    BY <2>1, <2>3
  <2>5. y \in Seq(Byte) /\ z \in Seq(Byte)
    BY <2>1, <2>2
  <2>6. After(set, c) = [bits |-> x, mask |-> y, expected |-> z]
    BY <1>2
  <2> HIDE DEF x, y, z
  <2> QED
    BY <2>4, <2>5, <2>6 DEF SettingType
<1> QED
  BY <1>2, <1>3

(* Setting starts from nothing and follows the commands. *)
LEMMA SettingSteps ==
  ASSUME NEW s \in Seq(Entry), \A n \in 1 .. Len(s) : s[n].cmd = XSDRSIZE => Len(s[n].data) = 4
  PROVE  /\ Setting(s)[0] = [bits |-> 0, mask |-> <<>>, expected |-> <<>>]
         /\ \A n \in 0 .. Len(s) - 1 : Setting(s)[n + 1] = After(Setting(s)[n], s[n + 1])
         /\ \A n \in 0 .. Len(s) : Setting(s)[n] \in SettingType
<1> DEFINE L == Len(s)
           T == SettingType
           c == [bits |-> 0, mask |-> <<>>, expected |-> <<>>]
           Rec(g) == g = [n \in 0 .. L |-> IF n = 0 THEN c ELSE After(g[n - 1], s[n])]
           next(n, b) == IF n < L THEN After(b, s[n + 1]) ELSE b
           step == [p \in Nat \X T |-> next(p[1], p[2])]
<1>0. L \in Nat /\ \A n \in 1 .. L : s[n] \in Entry
  OBVIOUS
<1>1. \A n \in Nat, b \in T : next(n, b) \in T
  <2> SUFFICES ASSUME NEW n \in Nat, NEW b \in T PROVE next(n, b) \in T
    OBVIOUS
  <2>1. CASE n < L
    <3>1. n + 1 \in 1 .. L
      BY <1>0, <2>1
    <3>2. After(b, s[n + 1]) \in T
      BY <1>0, <3>1, AfterIs
    <3> QED
      BY <2>1, <3>2
  <2>2. CASE ~(n < L)
    BY <2>2
  <2> QED
    BY <2>1, <2>2
<1>2. step \in [Nat \X T -> T]
  <2> HIDE DEF next, T
  <2> QED
    BY <1>1
<1>c. c \in T
  BY DEF SettingType
<1>3. \E g : Recurs(g, L, c, step)
  <2> HIDE DEF step, T, L, c
  <2> QED
    BY <1>0, <1>2, <1>c, BoundedRecursion
<1> HIDE DEF c
<1>4. PICK f : f = [n \in 0 .. L |-> IF n = 0 THEN c ELSE step[<<n - 1, f[n - 1]>>]]
  BY <1>3 DEF Recurs
<1>5. \A n \in 0 .. L - 1 : f[n + 1] = step[<<n, f[n]>>]
  <2> SUFFICES ASSUME NEW n \in 0 .. L - 1 PROVE f[n + 1] = step[<<n, f[n]>>]
    OBVIOUS
  <2>1. n + 1 \in 0 .. L /\ n + 1 # 0 /\ (n + 1) - 1 = n
    BY <1>0
  <2> HIDE DEF step
  <2> QED
    BY <1>4, <2>1
<1>6. \A n \in 0 .. L : f[n] \in T
  <2>1. f[0] \in T
    BY <1>0, <1>4, <1>c
  <2>2. ASSUME NEW n \in 0 .. L - 1, f[n] \in T PROVE f[n + 1] \in T
    <3> HIDE DEF step, T, L
    <3>1. n \in Nat /\ f[n + 1] = step[<<n, f[n]>>]
      BY <1>0, <1>5
    <3> QED
      BY <1>2, <2>2, <3>1
  <2> HIDE DEF T
  <2> QED
    BY <1>0, <2>1, <2>2, RecursionType
<1>7. Rec(f)
  <2>1. ASSUME NEW n \in 0 .. L
        PROVE  f[n] = IF n = 0 THEN c ELSE After(f[n - 1], s[n])
    <3>1. CASE n = 0
      BY <1>0, <1>4, <3>1
    <3>2. CASE n # 0
      <4>1. /\ n - 1 \in 0 .. L - 1 /\ (n - 1) + 1 = n /\ n - 1 \in 0 .. L
            /\ n - 1 < L /\ n - 1 \in Nat
        BY <1>0, <3>2
      <4>2. f[n] = step[<<n - 1, f[n - 1]>>] /\ f[n - 1] \in T
        <5> HIDE DEF step, T
        <5> QED
          BY <1>5, <1>6, <4>1
      <4>3. step[<<n - 1, f[n - 1]>>] = next(n - 1, f[n - 1])
        <5> HIDE DEF next, T
        <5> QED
          BY <4>1, <4>2
      <4> QED
        BY <3>2, <4>1, <4>2, <4>3
    <3> QED
      BY <3>1, <3>2
  <2>2. f = [n \in 0 .. L |-> f[n]]
    <3> HIDE DEF step, L
    <3> QED
      BY <1>4
  <2> QED
    BY <2>1, <2>2
<1> DEFINE of == CHOOSE h : Rec(h)
<1>8. Rec(of)
  <2> HIDE DEF Rec
  <2> QED
    BY <1>7
<1>9. Setting(s) = of
  BY DEF Setting, c
<1> HIDE DEF of
<1>10. of[0] = c
  BY <1>0, <1>8
<1>11. ASSUME NEW n \in 0 .. L - 1 PROVE of[n + 1] = After(of[n], s[n + 1])
  <2>1. n + 1 \in 0 .. L /\ n + 1 # 0 /\ (n + 1) - 1 = n
    BY <1>0
  <2> QED
    BY <1>8, <2>1
<1>12. \A n \in 0 .. L : of[n] \in T
  <2>1. of[0] \in T
    BY <1>10, <1>c
  <2>2. ASSUME NEW n \in 0 .. L - 1, of[n] \in T PROVE of[n + 1] \in T
    <3>1. n \in Nat /\ n < L
      BY <1>0
    <3>2. next(n, of[n]) \in T
      BY <1>1, <2>2, <3>1
    <3> QED
      BY <1>11, <3>1, <3>2
  <2> HIDE DEF T
  <2> QED
    BY <1>0, <2>1, <2>2, RecursionType
<1> QED
  BY <1>9, <1>10, <1>11, <1>12 DEF c

(* What a well-formed file offers command by command. *)
LEMMA WellFormedIs ==
  ASSUME NEW s \in Seq(Entry), WellFormed(s)
  PROVE  /\ Len(s) \in Nat \ {0} /\ Len(s) <= MaxCommands
         /\ \A n \in 0 .. Len(s) - 1 :
              /\ s[n + 1] \in Entry /\ (s[n + 1].cmd = XCOMPLETE <=> n + 1 = Len(s))
              /\ Fitting(s[n + 1], Setting(s)[n])
         /\ \A n \in 1 .. Len(s) : s[n].cmd = XSDRSIZE => Len(s[n].data) = 4
<1>1. Len(s) \in Nat /\ s # <<>> /\ Len(s) <= MaxCommands
  BY DEF WellFormed
<1>2. Len(s) # 0
  BY <1>1
<1>3. \A i \in 1 .. Len(s) : /\ (s[i].cmd = XCOMPLETE <=> i = Len(s))
                             /\ Fitting(s[i], Setting(s)[i - 1])
  BY DEF WellFormed
<1>4. ASSUME NEW n \in 0 .. Len(s) - 1
      PROVE  /\ s[n + 1] \in Entry /\ (s[n + 1].cmd = XCOMPLETE <=> n + 1 = Len(s))
             /\ Fitting(s[n + 1], Setting(s)[n])
  <2>1. n + 1 \in 1 .. Len(s) /\ (n + 1) - 1 = n
    BY <1>1
  <2> QED
    BY <1>3, <2>1
<1>5. ASSUME NEW n \in 1 .. Len(s), s[n].cmd = XSDRSIZE PROVE Len(s[n].data) = 4
  <2>1. Fitting(s[n], Setting(s)[n - 1])
    BY <1>3
  <2> QED
    BY <1>5, <2>1 DEF Fitting
<1> QED
  BY <1>1, <1>2, <1>4, <1>5

(* What has been encoded stays where it is. *)
LEMMA EncodedGrows ==
  ASSUME NEW s \in Seq(Entry), NEW n \in 0 .. Len(s)
  PROVE  /\ Len(Encoded(s)[n]) <= Len(Encoded(s)[Len(s)])
         /\ \A p \in 1 .. Len(Encoded(s)[n]) : Encoded(s)[Len(s)][p] = Encoded(s)[n][p]
<1> DEFINE E == Encoded(s)
           L == Len(s)
           Keeps(m) == /\ Len(E[n]) <= Len(E[m])
                       /\ \A p \in 1 .. Len(E[n]) : E[m][p] = E[n][p]
           A == {k \in Nat : n + k <= L => Keeps(n + k)}
<1>0. L \in Nat /\ n \in Nat /\ n <= L /\ \A m \in 0 .. L : E[m] \in Seq(Byte)
  <2>1. L \in Nat /\ n \in Nat /\ n <= L
    OBVIOUS
  <2>2. \A m \in 0 .. L : E[m] \in Seq(Byte)
    BY EncodedSteps
  <2> QED
    BY <2>1, <2>2
<1>s. \A m \in 0 .. L - 1 : E[m + 1] = E[m] \o <<s[m + 1].cmd>> \o s[m + 1].data
  BY EncodedSteps
<1>d. \A m \in 0 .. L - 1 : s[m + 1].data \in Seq(Byte)
  <2>1. \A e \in Entry : e.data \in Seq(Byte)
    BY DEF Entry
  <2>2. \A m \in 0 .. L - 1 : s[m + 1] \in Entry
    BY <1>0
  <2> QED
    BY <2>1, <2>2
<1> HIDE DEF E, L
<1>1. 0 \in A
  BY <1>0
<1>2. ASSUME NEW k \in Nat, k \in A PROVE k + 1 \in A
  <2> SUFFICES ASSUME n + (k + 1) <= L PROVE Keeps(n + (k + 1))
    OBVIOUS
  <2> DEFINE m == n + k
             x == s[m + 1].cmd
             d == s[m + 1].data
  <2>1. m \in 0 .. L - 1 /\ n + (k + 1) = m + 1 /\ m <= L /\ m \in 0 .. L
    BY <1>0
  <2>2. Keeps(m)
    BY <1>2, <2>1
  <2> HIDE DEF m
  <2>3. E[m + 1] = E[m] \o <<x>> \o d /\ d \in Seq(Byte) /\ E[m] \in Seq(Byte)
    BY <1>0, <1>s, <1>d, <2>1
  <2> HIDE DEF x, d
  <2>4. Len(E[m + 1]) = Len(E[m]) + 1 + Len(d) /\ Len(d) \in Nat /\ Len(E[m]) \in Nat
    BY <2>3
  <2>5. \A p \in 1 .. Len(E[m]) : E[m + 1][p] = E[m][p]
    BY <2>3
  <2>6. Len(E[n]) \in Nat
    BY <1>0
  <2>7. Keeps(m + 1)
    BY <2>2, <2>4, <2>5, <2>6
  <2> QED
    BY <2>1, <2>7
<1>3. Nat \subseteq A
  <2> HIDE DEF A
  <2> QED
    BY <1>1, <1>2, NatSets
<1>4. L - n \in Nat /\ n + (L - n) = L
  BY <1>0
<1>5. Keeps(L)
  <2>1. L - n \in A
    BY <1>3, <1>4
  <2> QED
    BY <1>0, <1>4, <2>1
<1> QED
  BY <1>5 DEF E, L

(* Command n + 1 of a file begins behind the encoding of the first n, ... *)
LEMMA FileAt ==
  ASSUME NEW s \in Seq(Entry), NEW n \in 0 .. Len(s) - 1
  PROVE  LET all  == Encoded(s)[Len(s)]
             from == Len(Encoded(s)[n])
             d    == s[n + 1].data
         IN  /\ from \in Nat /\ Len(d) \in Nat /\ d \in Seq(Byte)
             /\ Len(Encoded(s)[n + 1]) = from + 1 + Len(d)
             /\ from + 1 + Len(d) <= Len(all) /\ Len(all) \in Nat
             /\ all[from + 1] = s[n + 1].cmd
             /\ \A k \in 1 .. Len(d) : all[from + 1 + k] = d[k]
<1> DEFINE E == Encoded(s)
           L == Len(s)
           x == s[n + 1].cmd
           d == s[n + 1].data
           from == Len(E[n])
<1>0. L \in Nat /\ n \in Nat /\ n \in 0 .. L /\ n + 1 \in 0 .. L
  OBVIOUS
<1>1. E[n + 1] = E[n] \o <<x>> \o d /\ \A m \in 0 .. L : E[m] \in Seq(Byte)
  BY EncodedSteps
<1>2. d \in Seq(Byte)
  <2>1. \A e \in Entry : e.data \in Seq(Byte)
    BY DEF Entry
  <2>2. s[n + 1] \in Entry
    OBVIOUS
  <2> QED
    BY <2>1, <2>2
<1>3. /\ Len(E[n + 1]) <= Len(E[L])
      /\ \A p \in 1 .. Len(E[n + 1]) : E[L][p] = E[n + 1][p]
  BY <1>0, EncodedGrows
<1>4. L \in 0 .. L
  BY <1>0
<1> HIDE DEF E, L, x, d
<1>5. E[n] \in Seq(Byte) /\ E[L] \in Seq(Byte)
  BY <1>0, <1>1, <1>4
<1>6. Len(E[n + 1]) = from + 1 + Len(d) /\ from \in Nat /\ Len(d) \in Nat /\ Len(E[L]) \in Nat
  BY <1>1, <1>2, <1>5
<1>7. E[n + 1][from + 1] = x /\ \A k \in 1 .. Len(d) : E[n + 1][from + 1 + k] = d[k]
  BY <1>1, <1>2, <1>5
<1>8. from + 1 \in 1 .. Len(E[n + 1]) /\ \A k \in 1 .. Len(d) : from + 1 + k \in 1 .. Len(E[n + 1])
  BY <1>6
<1>9. E[L][from + 1] = x /\ \A k \in 1 .. Len(d) : E[L][from + 1 + k] = d[k]
  BY <1>3, <1>7, <1>8
<1> QED
  BY <1>2, <1>3, <1>6, <1>9 DEF E, L, x, d

(* ... and there the player reads it. *)
LEMMA ReadsCommand ==
  ASSUME NEW n \in 0 .. Len(script) - 1, script \in Seq(Entry),
         file = Encoded(script)[Len(script)], pos = Len(Encoded(script)[n])
  PROVE  LET c == script[n + 1] IN
         /\ pos \in Nat /\ c.data \in Seq(Byte)
         /\ Len(Encoded(script)[n + 1]) = pos + 1 + Len(c.data)
         /\ pos + 1 + Len(c.data) <= Len(file) /\ Len(file) \in Nat
         /\ ByteAt(0) = c.cmd
         /\ \A k \in 1 .. Len(c.data) : ByteAt(k) = c.data[k]
<1> DEFINE d == script[n + 1].data
<1>1. /\ pos \in Nat /\ Len(d) \in Nat /\ d \in Seq(Byte)
      /\ Len(Encoded(script)[n + 1]) = pos + 1 + Len(d)
      /\ pos + 1 + Len(d) <= Len(file) /\ Len(file) \in Nat
      /\ file[pos + 1] = script[n + 1].cmd
      /\ \A k \in 1 .. Len(d) : file[pos + 1 + k] = d[k]
  BY FileAt
<1> DEFINE size == Len(d)
           all == Len(file)
<1>t. size \in Nat /\ all \in Nat /\ pos \in Nat /\ pos + 1 + size <= all
  BY <1>1
<1> HIDE DEF size, all
<1>2. ByteAt(0) = file[pos + 1]
  <2>1. pos + 0 < all /\ pos + 0 + 1 = pos + 1
    BY <1>t
  <2> QED
    BY <2>1 DEF ByteAt, all
<1>3. \A k \in 1 .. Len(d) : ByteAt(k) = file[pos + 1 + k]
  <2> SUFFICES ASSUME NEW k \in 1 .. size PROVE ByteAt(k) = file[pos + 1 + k]
    BY DEF size
  <2>1. pos + k < all /\ pos + k + 1 = pos + 1 + k
    BY <1>t
  <2> QED
    BY <2>1 DEF ByteAt, all
<1> QED
  BY <1>1, <1>2, <1>3

-----------------------------------------------------------------------------
(* WHAT THE COMMANDS CHANGE *)

Fields == {"complete", "error", "maxRepeat", "tapState", "endIR", "endDR", "runTestTime",
           "shiftBits", "shiftBytes"}

Shape ==
  /\ DOMAIN info = Fields /\ DOMAIN lv = Buffers /\ DOMAIN since = {"expected", "mask"}
  /\ info.complete \in BOOLEAN /\ (info.complete => more = 0)

(* Of what the position in the file and the comparisons depend on, nothing changes. *)
SizeKept  == /\ DOMAIN info' = Fields
             /\ info'.shiftBits = info.shiftBits /\ info'.shiftBytes = info.shiftBytes
InfoKept  == SizeKept /\ info'.complete = info.complete
LvKept    == /\ DOMAIN lv' = Buffers
             /\ lv'.data = lv.data /\ lv'.expected = lv.expected /\ lv'.captured = lv.captured
SinceKept == since' = since

(* The commands that only change settings of their own. *)
LEMMA IllegalCmdDoes ==
  ASSUME Shape, IllegalCmd
  PROVE  /\ Running /\ Illegal(Code) /\ Do(0) /\ LvKept /\ SinceKept /\ InfoKept
         /\ info'.error = "ILLEGALCMD"
BY DEF Shape, IllegalCmd, LvKept, SinceKept, SizeKept, InfoKept, Fail, Fields

(* XCOMPLETE ends the pass and leaves the error alone. *)
LEMMA XCOMPLETEDoes ==
  ASSUME Shape, DoXCOMPLETE
  PROVE  /\ Running /\ Code = XCOMPLETE /\ Do(0) /\ LvKept /\ SinceKept /\ SizeKept
         /\ info'.complete = TRUE /\ info'.error = info.error
BY DEF Shape, DoXCOMPLETE, LvKept, SinceKept, SizeKept, Fields, Is, Code

(* XRUNTEST sets a time. *)
LEMMA XRUNTESTDoes ==
  ASSUME Shape, DoXRUNTEST
  PROVE  /\ Running /\ Code = XRUNTEST /\ Do(4) /\ LvKept /\ SinceKept /\ InfoKept
         /\ info'.error = info.error
BY DEF Shape, DoXRUNTEST, LvKept, SinceKept, SizeKept, InfoKept, Fields, Is, Code, ReadTdi, Buffers

(* XREPEAT sets the number of retries. *)
LEMMA XREPEATDoes ==
  ASSUME Shape, DoXREPEAT
  PROVE  /\ Running /\ Code = XREPEAT /\ Do(1) /\ LvKept /\ SinceKept /\ InfoKept
         /\ info'.error = info.error
BY DEF Shape, DoXREPEAT, LvKept, SinceKept, SizeKept, InfoKept, Fields, Is, Code

(* XENDIR and XENDDR set a state, or refuse it. *)
LEMMA XENDXRDoes ==
  ASSUME Shape, DoXENDXR
  PROVE  /\ Running /\ Code \in {XENDIR, XENDDR} /\ Do(1) /\ LvKept /\ SinceKept /\ InfoKept
         /\ info'.error \in {info.error, "ILLEGALSTATE"}
BY DEF Shape, DoXENDXR, LvKept, SinceKept, SizeKept, InfoKept, Fields, Is, Code, Fail

(* XCOMMENT reads up to the first 0, and takes an error back. *)
LEMMA XCOMMENTDoes ==
  ASSUME Shape, DoXCOMMENT
  PROVE  /\ Running /\ Code = XCOMMENT /\ LvKept /\ SinceKept /\ InfoKept
         /\ info'.error = "NONE"
         /\ \E n \in CommentEnds : (\A k \in CommentEnds : n <= k) /\ Do(n + 1)
BY DEF Shape, DoXCOMMENT, LvKept, SinceKept, SizeKept, InfoKept, Fields, Is, Code, Fail

(* XSTATE moves the TAP, or refuses to. *)
LEMMA XSTATEDoes ==
  ASSUME Shape, DoXSTATE
  PROVE  /\ Running /\ Code = XSTATE /\ Do(1) /\ LvKept /\ SinceKept /\ InfoKept
         /\ info'.error \in {info.error, "ILLEGALSTATE"}
BY DEF Shape, DoXSTATE, LvKept, SinceKept, SizeKept, InfoKept, Fields, Is, Code

(* XWAIT moves the TAP and waits. *)
LEMMA XWAITDoes ==
  ASSUME Shape, DoXWAIT
  PROVE  /\ Running /\ Code = XWAIT /\ Do(6) /\ LvKept /\ SinceKept /\ InfoKept
         /\ info'.error = info.error
BY DEF Shape, DoXWAIT, LvKept, SinceKept, SizeKept, InfoKept, Fields, Is, Code, Buffers

(* XSIR and XSIR2 shift, or leave what is too long for the buffers unread. *)
LEMMA XSIRDoes ==
  ASSUME Shape, DoXSIR
  PROVE  LET width == IF Code = XSIR THEN 1 ELSE 2
             n     == BytesOf(Number(Bytes(1, width)))
         IN  /\ Running /\ Code \in {XSIR, XSIR2} /\ LvKept /\ SinceKept /\ InfoKept
             /\ \/ n > MaxLen /\ info'.error = "DATAOVERFLOW" /\ Do(width)
                \/ n <= MaxLen /\ info'.error = info.error /\ Do(width + n)
<1> DEFINE width == IF Code = XSIR THEN 1 ELSE 2
           bits  == Number(Bytes(1, width))
           n     == BytesOf(bits)
           first == IF Code = XSIR THEN lv ELSE ReadTdi(2)
<1>1. DOMAIN first = Buffers /\ first.data = lv.data /\ first.expected = lv.expected
      /\ first.captured = lv.captured
  <2>1. DOMAIN ReadTdi(2) = Buffers /\ ReadTdi(2).data = lv.data
        /\ ReadTdi(2).expected = lv.expected /\ ReadTdi(2).captured = lv.captured
    BY DEF Shape, ReadTdi, Buffers
  <2> QED
    BY <2>1 DEF Shape
<1>2. Running /\ Code \in {XSIR, XSIR2} /\ SinceKept
  BY DEF DoXSIR, Is, Code, SinceKept
<1>3. \/ n > MaxLen /\ info' = Fail("DATAOVERFLOW") /\ lv' = first /\ Do(width)
      \/ /\ n <= MaxLen /\ Do(width + n)
         /\ info' = [info EXCEPT
                !.tapState = AfterShift(SHIFTIR, bits, info.endIR, info.runTestTime)]
         /\ lv' = [first EXCEPT !.tdi = readVal(@, Bytes(1 + width, n))]
  BY DEF DoXSIR
<1> HIDE DEF first, n, bits, width
<1>4. CASE n > MaxLen /\ info' = Fail("DATAOVERFLOW") /\ lv' = first /\ Do(width)
  <2>1. InfoKept /\ info'.error = "DATAOVERFLOW"
    BY <1>4 DEF Shape, Fail, InfoKept, SizeKept, Fields
  <2>2. LvKept
    BY <1>1, <1>4 DEF LvKept
  <2> QED
    BY <1>2, <1>4, <2>1, <2>2 DEF n, bits, width
<1>5. CASE /\ n <= MaxLen /\ Do(width + n)
           /\ info' = [info EXCEPT
                !.tapState = AfterShift(SHIFTIR, bits, info.endIR, info.runTestTime)]
           /\ lv' = [first EXCEPT !.tdi = readVal(@, Bytes(1 + width, n))]
  <2>1. InfoKept /\ info'.error = info.error
    BY <1>5 DEF Shape, InfoKept, SizeKept, Fields
  <2>2. LvKept
    BY <1>1, <1>5 DEF LvKept, Buffers
  <2> QED
    BY <1>2, <1>5, <2>1, <2>2 DEF n, bits, width
<1> QED
  BY <1>3, <1>4, <1>5

(* The commands that set sizes and masks. *)
LEMMA XSDRSIZEDoes ==
  ASSUME Shape, DoXSDRSIZE
  PROVE  LET bits == value(readVal(lv.tdi, Bytes(1, 4))) IN
         /\ Running /\ Code = XSDRSIZE /\ Do(4) /\ LvKept /\ SinceKept
         /\ DOMAIN info' = Fields /\ info'.complete = info.complete
         /\ info'.shiftBits = bits /\ info'.shiftBytes = BytesOf(bits)
         /\ info'.error = IF BytesOf(bits) > MaxLen THEN "DATAOVERFLOW" ELSE info.error
<1>1. lv'.tdi = readVal(lv.tdi, Bytes(1, 4)) /\ LvKept
  BY DEF Shape, DoXSDRSIZE, ReadTdi, Buffers, LvKept
<1> DEFINE bits == value(lv'.tdi)
<1>2. info' = [info EXCEPT !.shiftBits = bits, !.shiftBytes = BytesOf(bits),
                           !.error = IF BytesOf(bits) > MaxLen THEN "DATAOVERFLOW" ELSE @]
  BY DEF DoXSDRSIZE
<1> HIDE DEF bits
<1>3. /\ DOMAIN info' = Fields /\ info'.complete = info.complete
      /\ info'.shiftBits = bits /\ info'.shiftBytes = BytesOf(bits)
      /\ info'.error = IF BytesOf(bits) > MaxLen THEN "DATAOVERFLOW" ELSE info.error
  BY <1>2 DEF Shape, Fields
<1>4. Running /\ Code = XSDRSIZE /\ Do(4) /\ SinceKept
  BY DEF DoXSDRSIZE, Is, Code, SinceKept
<1> QED
  BY <1>1, <1>3, <1>4 DEF bits

(* XTDOMASK reads the mask. *)
LEMMA XTDOMASKDoes ==
  ASSUME Shape, DoXTDOMASK
  PROVE  /\ Running /\ Code = XTDOMASK /\ BytesFit /\ Do(N) /\ LvKept /\ InfoKept
         /\ info'.error = info.error
         /\ DOMAIN since' = {"expected", "mask"}
         /\ since'.mask = pc /\ since'.expected = since.expected
BY DEF Shape, DoXTDOMASK, LvKept, SizeKept, InfoKept, Is, Code, Buffers

(* XSETSDRMASKS reads the masks of XSDRINC. *)
LEMMA XSETSDRMASKSDoes ==
  ASSUME Shape, DoXSETSDRMASKS
  PROVE  /\ Running /\ Code = XSETSDRMASKS /\ BytesFit /\ Do(2 * N) /\ SinceKept /\ InfoKept
         /\ info'.error = info.error
         /\ DOMAIN lv' = Buffers /\ lv'.expected = lv.expected /\ lv'.captured = lv.captured
         /\ lv'.data = readVal(lv.data, Bytes(1 + N, N))
BY DEF Shape, DoXSETSDRMASKS, SinceKept, SizeKept, InfoKept, Is, Code, Buffers

-----------------------------------------------------------------------------
(* WHAT A SHIFT CHANGES *)

(* A shift takes the new data over and puts what it has read into lvCaptured; it fails only *)
(* by a comparison.                                                                         *)
Shifted(new, judge, bad) ==
  /\ DOMAIN lv' = Buffers
  /\ lv'.tdi = new.tdi /\ lv'.data = new.data /\ lv'.expected = new.expected /\ lv'.mask = new.mask
  /\ \/ lv'.captured = new.captured
     \/ lv'.captured \in Answer(new.captured, new.tdi.len)
  /\ bad => info.shiftBits > 0 /\ ~Same(judge, lv'.captured)
  /\ InfoKept
  /\ IF bad THEN info'.error # "NONE" ELSE info'.error = info.error
  /\ stale' => stale \/ (pc = "real" /\ Stale(judge))

(* So does every shift of a command that gives all its buffers. *)
LEMMA ShiftDoes ==
  ASSUME Shape, NEW new, DOMAIN new = Buffers, NEW judge, NEW end, NEW time, NEW limit,
         NEW bad \in BOOLEAN, Shift(new, judge, end, time, limit, bad)
  PROVE  Shifted(new, judge, bad)
<1>1. PICK captured :
        /\ captured = new.captured \/ captured \in Answer(new.captured, new.tdi.len)
        /\ lv' = [new EXCEPT !.captured = captured]
        /\ bad = (info.shiftBits > 0 /\ ~Same(judge, captured))
  <2>1. \E captured \in IF judge = "none" \/ info.shiftBits = 0 THEN {new.captured}
                        ELSE Answer(new.captured, new.tdi.len) :
          /\ lv' = [new EXCEPT !.captured = captured]
          /\ bad = (info.shiftBits > 0 /\ ~Same(judge, captured))
    BY DEF Shift
  <2> QED
    BY <2>1
<1>2. /\ DOMAIN lv' = Buffers /\ lv'.captured = captured
      /\ lv'.tdi = new.tdi /\ lv'.data = new.data /\ lv'.expected = new.expected
      /\ lv'.mask = new.mask
  BY <1>1 DEF Buffers
<1>3. info' = [info EXCEPT !.tapState = AfterShift(SHIFTDR, info.shiftBits, end, time),
                           !.error = IF bad THEN MismatchError(limit) ELSE @]
  BY DEF Shift
<1>4. /\ InfoKept /\ info'.error = IF bad THEN MismatchError(limit) ELSE info.error
  BY <1>3 DEF Shape, InfoKept, SizeKept, Fields
<1>5. MismatchError(limit) # "NONE"
  BY DEF MismatchError
<1>6. stale' => stale \/ (pc = "real" /\ Stale(judge))
  BY DEF Shift
<1>7. IF bad THEN info'.error # "NONE" ELSE info'.error = info.error
  BY <1>4, <1>5
<1>8. bad => info.shiftBits > 0 /\ ~Same(judge, lv'.captured)
  <2>1. bad => info.shiftBits > 0 /\ ~Same(judge, captured)
    BY <1>1
  <2> QED
    BY <1>2, <2>1
<1>9. lv'.captured = new.captured \/ lv'.captured \in Answer(new.captured, new.tdi.len)
  BY <1>1, <1>2
<1> QED
  BY <1>2, <1>4, <1>6, <1>7, <1>8, <1>9 DEF Shifted

(* What the buffers hold when a shift begins. *)
LEMMA TdiRead ==
  ASSUME Shape, NEW n
  PROVE  /\ DOMAIN ReadTdi(n) = Buffers
         /\ ReadTdi(n).tdi = readVal(lv.tdi, Bytes(1, n)) /\ ReadTdi(n).data = lv.data
         /\ ReadTdi(n).expected = lv.expected /\ ReadTdi(n).captured = lv.captured
         /\ ReadTdi(n).mask = lv.mask
BY DEF Shape, ReadTdi, Buffers

(* With the data that are expected, too. *)
LEMMA ExpectedRead ==
  ASSUME Shape
  PROVE  /\ DOMAIN ReadExpected = Buffers
         /\ ReadExpected.tdi = readVal(lv.tdi, Bytes(1, N)) /\ ReadExpected.data = lv.data
         /\ ReadExpected.expected = readVal(lv.expected, Bytes(1 + N, N))
         /\ ReadExpected.captured = lv.captured
<1> DEFINE r == ReadTdi(N)
           e == readVal(r.expected, Bytes(1 + N, N))
<1>1. /\ DOMAIN r = Buffers /\ r.tdi = readVal(lv.tdi, Bytes(1, N)) /\ r.data = lv.data
      /\ r.expected = lv.expected /\ r.captured = lv.captured
  BY TdiRead
<1>2. ReadExpected = [r EXCEPT !.expected = e]
  BY DEF ReadExpected
<1>3. e = readVal(lv.expected, Bytes(1 + N, N))
  BY <1>1
<1> HIDE DEF r, e
<1> QED
  BY <1>1, <1>2, <1>3 DEF Buffers

(* XSDR compares with what is expected since an earlier command. *)
LEMMA XSDRDoes ==
  ASSUME Shape, DoXSDR
  PROVE  /\ Running /\ Code = XSDR /\ Fits /\ DoShift(N) /\ SinceKept
         /\ \E bad \in BOOLEAN : Shifted(ReadTdi(N), "masked", bad) /\ EndShift(Bytes(1, N), bad)
<1>1. PICK bad \in BOOLEAN : MaskedShift(ReadTdi(N), bad) /\ EndShift(Bytes(1, N), bad)
  BY DEF DoXSDR
<1>2. Shifted(ReadTdi(N), "masked", bad)
  BY <1>1, TdiRead, ShiftDoes DEF MaskedShift
<1> QED
  BY <1>1, <1>2 DEF DoXSDR, Is, Code, SinceKept

(* XSDRTDO compares with what it has read. *)
LEMMA XSDRTDODoes ==
  ASSUME Shape, DoXSDRTDO
  PROVE  /\ Running /\ Code = XSDRTDO /\ Fits /\ DoShift(2 * N)
         /\ DOMAIN since' = {"expected", "mask"}
         /\ since'.expected = pc /\ since'.mask = since.mask
         /\ \E bad \in BOOLEAN :
              Shifted(ReadExpected, "masked", bad) /\ EndShift(Bytes(1, 2 * N), bad)
<1>1. PICK bad \in BOOLEAN : MaskedShift(ReadExpected, bad) /\ EndShift(Bytes(1, 2 * N), bad)
  BY DEF DoXSDRTDO
<1>2. Shifted(ReadExpected, "masked", bad)
  BY <1>1, ExpectedRead, ShiftDoes DEF MaskedShift
<1>3. Running /\ Code = XSDRTDO /\ Fits /\ DoShift(2 * N) /\ since' = [since EXCEPT !.expected = pc]
  BY DEF DoXSDRTDO, Is, Code
<1>4. DOMAIN since' = {"expected", "mask"} /\ since'.expected = pc /\ since'.mask = since.mask
  BY <1>3 DEF Shape
<1> QED
  BY <1>1, <1>2, <1>3, <1>4

(* XSDRB, XSDRC and XSDRE do not compare. *)
LEMMA XSDRBCEDoes ==
  ASSUME Shape, DoXSDRBCE
  PROVE  /\ Running /\ Code \in {XSDRB, XSDRC, XSDRE} /\ Fits /\ DoShift(N) /\ SinceKept
         /\ Shifted(ReadTdi(N), "none", FALSE) /\ EndShift(Bytes(1, N), FALSE)
<1>1. Shift(ReadTdi(N), "none", IF Code = XSDRE THEN info.endDR ELSE SHIFTDR, 0, 0, FALSE)
  BY DEF DoXSDRBCE
<1>2. Shifted(ReadTdi(N), "none", FALSE)
  BY <1>1, TdiRead, ShiftDoes
<1> QED
  BY <1>2 DEF DoXSDRBCE, Is, Code, SinceKept

(* XSDRTDOB, XSDRTDOC and XSDRTDOE compare without the mask. *)
LEMMA XSDRTDOBCEDoes ==
  ASSUME Shape, DoXSDRTDOBCE
  PROVE  /\ Running /\ Code \in {XSDRTDOB, XSDRTDOC, XSDRTDOE} /\ Fits /\ DoShift(2 * N)
         /\ DOMAIN since' = {"expected", "mask"}
         /\ since'.expected = pc /\ since'.mask = since.mask
         /\ \E bad \in BOOLEAN :
              Shifted(ReadExpected, "plain", bad) /\ EndShift(Bytes(1, 2 * N), bad)
<1>1. PICK bad \in BOOLEAN :
        /\ Shift(ReadExpected, "plain", IF Code = XSDRTDOE THEN info.endDR ELSE SHIFTDR, 0, 0, bad)
        /\ EndShift(Bytes(1, 2 * N), bad)
  BY DEF DoXSDRTDOBCE
<1>2. Shifted(ReadExpected, "plain", bad)
  BY <1>1, ExpectedRead, ShiftDoes
<1>3. /\ Running /\ Code \in {XSDRTDOB, XSDRTDOC, XSDRTDOE} /\ Fits /\ DoShift(2 * N)
      /\ since' = [since EXCEPT !.expected = pc]
  BY DEF DoXSDRTDOBCE, Is, Code
<1>4. DOMAIN since' = {"expected", "mask"} /\ since'.expected = pc /\ since'.mask = since.mask
  BY <1>3 DEF Shape
<1> QED
  BY <1>1, <1>2, <1>3, <1>4

(* XSDRINC ends with its first shift, for want of a match or of pieces, hangs, or goes on. *)
LEMMA XSDRINCDoes ==
  ASSUME Shape, DoXSDRINC
  PROVE  /\ Running /\ Code = XSDRINC /\ Fits /\ SinceKept
         /\ UNCHANGED <<input, totalCommandCounter>>
         /\ \/ Shifted(ReadTdi(N), "masked", TRUE) /\ DoShift(N) /\ EndShift(<<>>, TRUE)
            \/ /\ Shifted(ReadTdi(N), "masked", FALSE) /\ pc' = "looping"
               /\ UNCHANGED <<more, executed>>
            \/ /\ Shifted(ReadTdi(N), "masked", FALSE) /\ DoShift(N + 1)
               /\ ByteAt(1 + N) = 0 /\ EndShift(Bytes(1, N + 1), FALSE)
            \/ /\ Shifted(ReadTdi(N), "masked", FALSE) /\ DoShift(N + 1)
               /\ ByteAt(1 + N) > 0 /\ more' = ByteAt(1 + N) /\ taken' = Bytes(1, N + 1)
               /\ UNCHANGED <<pc, executed>>
<1>1. ASSUME NEW bad \in BOOLEAN, MaskedShift(ReadTdi(N), bad)
      PROVE  Shifted(ReadTdi(N), "masked", bad)
  BY <1>1, TdiRead, ShiftDoes DEF MaskedShift
<1>2. Running /\ Code = XSDRINC /\ Fits /\ SinceKept
  BY DEF DoXSDRINC, Is, Code, SinceKept
<1>3. CASE MaskedShift(ReadTdi(N), TRUE) /\ DoShift(N) /\ EndShift(<<>>, TRUE)
  BY <1>1, <1>2, <1>3 DEF DoShift
<1>4. CASE /\ MaskedShift(ReadTdi(N), FALSE) /\ DoShift(N) /\ pc' = "looping"
           /\ UNCHANGED <<more, taken, executed>>
  BY <1>1, <1>2, <1>4 DEF DoShift
<1>5. CASE /\ MaskedShift(ReadTdi(N), FALSE) /\ DoShift(N + 1)
           /\ ByteAt(1 + N) = 0 /\ EndShift(Bytes(1, N + 1), FALSE)
  BY <1>1, <1>2, <1>5 DEF DoShift
<1>6. CASE /\ MaskedShift(ReadTdi(N), FALSE) /\ DoShift(N + 1)
           /\ ByteAt(1 + N) > 0 /\ more' = ByteAt(1 + N) /\ taken' = Bytes(1, N + 1)
           /\ UNCHANGED <<pc, executed>>
  BY <1>1, <1>2, <1>6 DEF DoShift
<1> QED
  BY <1>3, <1>4, <1>5, <1>6 DEF DoXSDRINC

(* A piece. *)
LEMMA PieceDoes ==
  ASSUME Shape, Piece
  PROVE  /\ more > 0 /\ UNCHANGED <<input, pc, counters>> /\ SinceKept /\ Advance(PieceBytes)
         /\ DOMAIN NextPiece = Buffers /\ NextPiece.data = lv.data
         /\ NextPiece.expected = lv.expected /\ NextPiece.captured = lv.captured
         /\ NextPiece.tdi.len = lv.tdi.len /\ NextPiece.mask = lv.mask
         /\ \E bad \in BOOLEAN :
              /\ Shifted(NextPiece, "masked", bad)
              /\ more' = IF bad THEN 0 ELSE more - 1
              /\ taken' = IF more' = 0 THEN <<>> ELSE taken \o Bytes(0, PieceBytes)
              /\ executed' =
                   IF pc = "real" /\ ~bad /\ more = 1
                   THEN Append(executed, [cmd |-> XSDRINC, data |-> taken \o Bytes(0, PieceBytes)])
                   ELSE executed
<1> DEFINE next == readVal(lv.next, Bytes(0, PieceBytes))
           tdi  == xsvfDoSDRMasking(lv.tdi, next, lv.address, lv.data)
<1>1. NextPiece = [lv EXCEPT !.next = next, !.tdi = tdi]
  BY DEF NextPiece
<1>2. tdi.len = lv.tdi.len
  <2> DEFINE sum == addVal(lv.tdi, lv.tdi, lv.address)
  <2>1. DOMAIN sum = {"len", "val"} /\ sum.len = lv.tdi.len
    BY DEF addVal
  <2>2. tdi = Inserted(sum, next, lv.data)
    BY DEF xsvfDoSDRMasking
  <2> HIDE DEF sum, next
  <2>3. Inserted(sum, next, lv.data).len = sum.len
    BY <2>1 DEF Inserted
  <2> QED
    BY <2>1, <2>2, <2>3
<1> HIDE DEF next, tdi
<1>3. /\ DOMAIN NextPiece = Buffers /\ NextPiece.data = lv.data
      /\ NextPiece.expected = lv.expected /\ NextPiece.captured = lv.captured
      /\ NextPiece.tdi = tdi /\ NextPiece.mask = lv.mask
  BY <1>1 DEF Shape, Buffers
<1>4. PICK bad \in BOOLEAN :
        /\ MaskedShift(NextPiece, bad)
        /\ more' = IF bad THEN 0 ELSE more - 1
        /\ taken' = IF more' = 0 THEN <<>> ELSE taken \o Bytes(0, PieceBytes)
        /\ executed' =
             IF pc = "real" /\ ~bad /\ more = 1
             THEN Append(executed, [cmd |-> XSDRINC, data |-> taken \o Bytes(0, PieceBytes)])
             ELSE executed
  BY DEF Piece
<1>5. Shifted(NextPiece, "masked", bad)
  BY <1>3, <1>4, ShiftDoes DEF MaskedShift
<1>6. more > 0 /\ UNCHANGED <<input, pc, counters>> /\ SinceKept /\ Advance(PieceBytes)
  BY DEF Piece, SinceKept
<1> QED
  BY <1>2, <1>3, <1>4, <1>5, <1>6

-----------------------------------------------------------------------------
(* WHERE A PASS STANDS *)

(* What the file of a run is. *)
Given ==
  script \in Seq(Entry) /\ WellFormed(script) /\ file = Encoded(script)[Len(script)]

(* The passes that keep step with it: the dummy pass over a file it can count, and the real *)
(* one up to its first error.                                                               *)
Sound == (pc = "dummy" /\ Countable(script)) \/ (pc = "real" /\ info.error = "NONE")

Current == script[commandCounter + 1]
Known   == Setting(script)[commandCounter]

Zeros(x) == \A i \in 0 .. MaxLen : x.val[i] = 0

(* Size of a shift and data mask are those of the setting; so are, in the dummy pass, which *)
(* has only read 0 from the chain, the expected data.                                       *)
Sized(set) ==
  /\ info.shiftBits = set.bits /\ info.shiftBytes = BytesFor(set.bits)
  /\ BytesFor(set.bits) < ShortHalf
Masked(set) == set.mask # <<>> => Holds(lv.data, set.mask) /\ Len(set.mask) <= MaxLen + 1
Compared(set) ==
  pc = "dummy" =>
    Zeros(lv.captured) /\ Holds(lv.expected, set.expected) /\ Len(set.expected) <= MaxLen + 1

(* Behind n commands of the real pass the marks say which data it has read. *)
Marked(n) ==
  pc = "real" => /\ GivenBefore(n, ExpectCodes) => since.expected = "real"
                 /\ GivenBefore(n, {XTDOMASK})  => since.mask = "real"

(* Between two commands, or between two pieces of an XSDRINC. *)
Between == more = 0 /\ pos = Len(Encoded(script)[commandCounter])

Within ==
  LET d == script[commandCounter].data IN
  /\ more \in Nat \ {0} /\ commandCounter > 0 /\ script[commandCounter].cmd = XSDRINC
  /\ taken = SubSeq(d, 1, Len(taken)) /\ Len(taken) \in 0 .. Len(d)
  /\ pos = Len(Encoded(script)[commandCounter - 1]) + 1 + Len(taken)
  /\ Len(d) = Len(taken) + more * PieceSize(Known.mask)
  /\ Known.mask # <<>> /\ lv.tdi.len \in Nat

Played ==
  pc = "real" =>
    executed = SubSeq(script, 1, IF more = 0 THEN commandCounter ELSE commandCounter - 1)

InStep ==
  /\ commandCounter \in 0 .. Len(script) /\ (info.complete <=> commandCounter = Len(script))
  /\ Between \/ Within
  /\ Sized(Known) /\ Masked(Known) /\ Compared(Known)
  /\ Marked(commandCounter) /\ Played

-----------------------------------------------------------------------------
(* READING A COMMAND *)

(* The player is about to read the current command. *)
AtCommand ==
  /\ commandCounter \in 0 .. Len(script) - 1 /\ Len(script) \in Nat
  /\ Current \in Entry /\ Current.data \in Seq(Byte) /\ Len(Current.data) \in Nat
  /\ pos \in Nat /\ Len(file) \in Nat /\ pos + 1 + Len(Current.data) <= Len(file)
  /\ Len(Encoded(script)[commandCounter + 1]) = pos + 1 + Len(Current.data)
  /\ ByteAt(0) = Current.cmd
  /\ \A k \in 1 .. Len(Current.data) : ByteAt(k) = Current.data[k]

(* Between two commands a pass that keeps step reads the next one of the file. *)
LEMMA GetsThere ==
  ASSUME Given, InStep, Running
  PROVE  /\ AtCommand /\ Known \in SettingType /\ Fitting(Current, Known) /\ Code = Current.cmd
         /\ (Current.cmd = XCOMPLETE <=> commandCounter + 1 = Len(script))
         /\ (Current.cmd = XSDRSIZE => Len(Current.data) = 4)
         /\ Setting(script)[commandCounter + 1] = After(Known, Current)
         /\ commandCounter + 1 <= MaxCommands
<1>1. more = 0 /\ ~info.complete
  BY DEF Running
<1>2. /\ Len(script) \in Nat \ {0} /\ Len(script) <= MaxCommands
      /\ \A n \in 0 .. Len(script) - 1 :
           /\ script[n + 1] \in Entry /\ (script[n + 1].cmd = XCOMPLETE <=> n + 1 = Len(script))
           /\ Fitting(script[n + 1], Setting(script)[n])
      /\ \A n \in 1 .. Len(script) : script[n].cmd = XSDRSIZE => Len(script[n].data) = 4
  BY WellFormedIs DEF Given
<1> DEFINE c == commandCounter
           L == Len(script)
<1>3. c \in 0 .. L - 1 /\ c + 1 \in 1 .. L /\ c \in 0 .. L
  BY <1>1, <1>2 DEF InStep
<1>4. pos = Len(Encoded(script)[c])
  BY <1>1 DEF InStep, Between, Within
<1>5. AtCommand /\ Code = Current.cmd
  <2>1. /\ pos \in Nat /\ Current.data \in Seq(Byte)
        /\ Len(Encoded(script)[c + 1]) = pos + 1 + Len(Current.data)
        /\ pos + 1 + Len(Current.data) <= Len(file) /\ Len(file) \in Nat
        /\ ByteAt(0) = Current.cmd
        /\ \A k \in 1 .. Len(Current.data) : ByteAt(k) = Current.data[k]
    BY <1>3, <1>4, ReadsCommand DEF Given, Current
  <2>2. Len(Current.data) \in Nat
    BY <2>1
  <2>3. Current \in Entry
    BY <1>2, <1>3 DEF Current
  <2> QED
    BY <1>2, <1>3, <2>1, <2>2, <2>3 DEF AtCommand, Code
<1>6. /\ Setting(script)[c + 1] = After(Setting(script)[c], script[c + 1])
      /\ Setting(script)[c] \in SettingType
  BY <1>2, <1>3, SettingSteps DEF Given
<1>7. c + 1 <= MaxCommands
  BY <1>2, <1>3, PlayerAssumption
<1> QED
  BY <1>2, <1>3, <1>5, <1>6, <1>7 DEF Current, Known

(* What is read of its parameters is that part of its data. *)
LEMMA BytesRead ==
  ASSUME AtCommand, NEW p \in Nat \ {0}, NEW n \in Nat, p + n - 1 <= Len(Current.data)
  PROVE  /\ Bytes(p, n) = SubSeq(Current.data, p, p + n - 1)
         /\ Bytes(p, n) \in Seq(Byte) /\ Len(Bytes(p, n)) = n
<1> DEFINE d == Current.data
           b == SubSeq(d, p, p + n - 1)
<1>1. d \in Seq(Byte) /\ Len(d) \in Nat /\ \A k \in 1 .. Len(d) : ByteAt(k) = d[k]
  BY DEF AtCommand
<1> HIDE DEF d
<1>2. p + n - 1 <= Len(d)
  BY DEF d
<1>3. b \in Seq(Byte) /\ Len(b) = n /\ \A i \in 1 .. n : b[i] = d[p + i - 1]
  BY <1>1, <1>2, PartOf
<1>4. \A i \in 1 .. n : ByteAt(p + i - 1) = d[p + i - 1]
  <2>1. \A i \in 1 .. n : p + i - 1 \in 1 .. Len(d)
    BY <1>1, <1>2
  <2> QED
    BY <1>1, <2>1
<1> HIDE DEF b
<1>5. b = [i \in 1 .. n |-> ByteAt(p + i - 1)]
  <2>1. b = [i \in 1 .. n |-> b[i]]
    BY <1>3
  <2> QED
    BY <1>3, <1>4, <2>1
<1> QED
  BY <1>3, <1>5 DEF Bytes, b, d

(* A command that reads all its parameters leaves the position behind it. *)
LEMMA Advanced ==
  ASSUME AtCommand, NEW n \in 0 .. Len(Current.data), Advance(1 + n)
  PROVE  pos' = pos + 1 + n
<1> DEFINE size == Len(Current.data)
           all == Len(file)
<1>1. size \in Nat /\ all \in Nat /\ pos \in Nat /\ pos + 1 + size <= all
  BY DEF AtCommand
<1>2. pos' = IF pos + (1 + n) < all THEN pos + (1 + n) ELSE all
  BY DEF Advance
<1>3. n \in 0 .. size
  OBVIOUS
<1> HIDE DEF size, all
<1> QED
  BY <1>1, <1>2, <1>3

(* It is counted: the counter does not overflow on a file that is well-formed. *)
LEMMA Counted ==
  ASSUME Given, AtCommand, commandCounter + 1 <= MaxCommands, Count
  PROVE  commandCounter' = commandCounter + 1
<1> DEFINE m == MaxCommands + 1
           n == commandCounter + 1
<1>1. m \in Nat \ {0} /\ n \in 0 .. m - 1
  BY PlayerAssumption DEF AtCommand
<1>2. commandCounter' = n % m
  BY DEF Count
<1> HIDE DEF m, n
<1>3. n % m = n
  BY <1>1, RestOfRest
<1> QED
  BY <1>2, <1>3 DEF n

(* The record of it is the command of the file. *)
LEMMA Recorded ==
  ASSUME AtCommand
  PROVE  [cmd |-> Code, data |-> Bytes(1, Len(Current.data))] = Current
<1>1. /\ Code = Current.cmd /\ Current = [cmd |-> Current.cmd, data |-> Current.data]
      /\ Current.data \in Seq(Byte) /\ Len(Current.data) \in Nat
  BY DEF AtCommand, Code, Entry
<1> DEFINE d == Current.data
<1>2. Bytes(1, Len(d)) = SubSeq(d, 1, 1 + Len(d) - 1)
  <2>1. 1 + Len(d) - 1 <= Len(d) /\ 1 \in Nat \ {0}
    BY <1>1
  <2> QED
    BY <1>1, <2>1, BytesRead
<1>3. SubSeq(d, 1, 1 + Len(d) - 1) = d
  BY <1>1
<1> QED
  BY <1>1, <1>2, <1>3

-----------------------------------------------------------------------------
(* ONE COMMAND *)

Ready == Given /\ Shape /\ Sound /\ InStep /\ Running

Settled ==
  /\ info.complete <=> commandCounter = Len(script)
  /\ Sized(Known) /\ Masked(Known) /\ Compared(Known) /\ Marked(commandCounter)

(* It is over and the pass stands in front of the next, or it has failed in the real pass. *)
Passed ==
  /\ UNCHANGED <<input, totalCommandCounter, pc>> /\ more' = 0
  /\ commandCounter' = commandCounter + 1
  /\ pos' = Len(Encoded(script)[commandCounter + 1])
  /\ executed' = IF pc = "real" THEN Append(executed, Current) ELSE executed
  /\ pc = "real" => info'.error = "NONE"

Failed ==
  /\ UNCHANGED <<input, totalCommandCounter, pc, executed>> /\ more' = 0
  /\ pc = "real" /\ info'.error # "NONE" /\ CanFail(Current.cmd) /\ ~info'.complete

Stepped == (Passed /\ Settled') \/ Failed

(* A command that shifts no data and reads all its parameters is passed. *)
LEMMA DoPasses ==
  ASSUME Ready, Do(Len(Current.data)), pc = "real" => info'.error = "NONE"
  PROVE  Passed
<1>1. AtCommand /\ commandCounter + 1 <= MaxCommands
  BY GetsThere DEF Ready
<1> DEFINE size == Len(Current.data)
<1>2. size \in Nat /\ pos + 1 + size = Len(Encoded(script)[commandCounter + 1])
  BY <1>1 DEF AtCommand
<1>3. /\ Count /\ Advance(1 + size) /\ UNCHANGED <<input, pc, more, totalCommandCounter>>
      /\ Executed(Bytes(1, size), info'.error)
  BY DEF Do
<1>4. pos' = pos + 1 + size
  BY <1>1, <1>2, <1>3, Advanced
<1>5. commandCounter' = commandCounter + 1
  BY <1>1, <1>3, Counted DEF Ready
<1>6. executed' = IF pc = "real" THEN Append(executed, Current) ELSE executed
  BY <1>1, <1>3, Recorded DEF Executed
<1>7. more' = 0
  BY <1>3 DEF Ready, Running
<1> QED
  BY <1>2, <1>3, <1>4, <1>5, <1>6, <1>7 DEF Passed

(* One that fails in the real pass, whatever it has read, ends it. *)
LEMMA DoFails ==
  ASSUME Ready, NEW n, Do(n), pc = "real", info'.error # "NONE", CanFail(Current.cmd),
         info'.complete = info.complete
  PROVE  Failed
BY DEF Ready, Running, Do, Executed, Failed

(* The setting behind it. *)
LEMMA KnownBehind ==
  ASSUME Ready, UNCHANGED input, commandCounter' = commandCounter + 1
  PROVE  /\ Known' \in SettingType
         /\ Known'.bits = IF Current.cmd = XSDRSIZE THEN Number(Current.data) ELSE Known.bits
         /\ Known'.mask = IF Current.cmd = XSETSDRMASKS THEN UpperHalf(Current.data) ELSE Known.mask
         /\ Known'.expected = IF Current.cmd \in ExpectCodes THEN UpperHalf(Current.data)
                              ELSE Known.expected
<1>1. /\ AtCommand /\ Known \in SettingType
      /\ Setting(script)[commandCounter + 1] = After(Known, Current)
      /\ (Current.cmd = XSDRSIZE => Len(Current.data) = 4)
  BY GetsThere DEF Ready
<1>2. Known' = After(Known, Current)
  BY <1>1 DEF Known, input
<1>3. Current \in Entry
  BY <1>1 DEF AtCommand
<1> QED
  BY <1>1, <1>2, <1>3, AfterIs

(* What a command leaves alone. *)
LEMMA SizeStays ==
  ASSUME Ready, UNCHANGED input, commandCounter' = commandCounter + 1,
         SizeKept, Current.cmd # XSDRSIZE
  PROVE  Sized(Known)'
<1>1. Known'.bits = Known.bits
  BY KnownBehind
<1> QED
  BY <1>1 DEF Ready, InStep, Sized, SizeKept

(* The data mask. *)
LEMMA MaskStays ==
  ASSUME Ready, UNCHANGED input, commandCounter' = commandCounter + 1,
         lv'.data = lv.data, Current.cmd # XSETSDRMASKS
  PROVE  Masked(Known)'
<1>1. Known'.mask = Known.mask
  BY KnownBehind
<1> QED
  BY <1>1 DEF Ready, InStep, Masked, Holds

(* What is expected, and captured, in the dummy pass. *)
LEMMA ComparedStays ==
  ASSUME Ready, UNCHANGED <<input, pc>>, commandCounter' = commandCounter + 1,
         lv'.expected = lv.expected, pc = "dummy" => Zeros(lv.captured)',
         Current.cmd \notin ExpectCodes
  PROVE  Compared(Known)'
<1>1. Known'.expected = Known.expected
  BY KnownBehind
<1> QED
  BY <1>1 DEF Ready, InStep, Compared, Holds

(* The marks of the real pass. *)
LEMMA MarksStay ==
  ASSUME Ready, UNCHANGED <<input, pc>>, commandCounter' = commandCounter + 1,
         Current.cmd \in ExpectCodes => since'.expected = pc,
         Current.cmd \notin ExpectCodes => since'.expected = since.expected,
         Current.cmd = XTDOMASK => since'.mask = pc,
         Current.cmd # XTDOMASK => since'.mask = since.mask
  PROVE  Marked(commandCounter)'
<1> DEFINE c == commandCounter
<1>1. c \in Nat
  BY GetsThere DEF Ready, AtCommand
<1>2. ASSUME NEW codes, GivenBefore(c, codes)'
      PROVE  GivenBefore(c, codes) \/ Current.cmd \in codes
  <2>1. PICK j \in 1 .. c + 1 : script[j].cmd \in codes
    BY <1>2 DEF GivenBefore, input
  <2>2. CASE j \in 1 .. c
    BY <2>1, <2>2 DEF GivenBefore
  <2>3. CASE j = c + 1
    BY <2>1, <2>3 DEF Current
  <2> QED
    BY <1>1, <2>1, <2>2, <2>3
<1>3. Marked(c)
  BY DEF Ready, InStep
<1>4. ASSUME pc = "real", GivenBefore(c, ExpectCodes)'
      PROVE  since'.expected = "real"
  BY <1>2, <1>3, <1>4 DEF Marked
<1>5. ASSUME pc = "real", GivenBefore(c, {XTDOMASK})'
      PROVE  since'.mask = "real"
  BY <1>2, <1>3, <1>5 DEF Marked
<1> QED
  BY <1>4, <1>5 DEF Marked

-----------------------------------------------------------------------------
(* THE COMMANDS THAT SHIFT NO DATA *)

Special == {XSDRSIZE, XTDOMASK, XSETSDRMASKS} \cup ExpectCodes

(* A command that changes nothing the comparisons depend on. *)
LEMMA Quiet ==
  ASSUME Ready, Do(Len(Current.data)), LvKept, SinceKept, SizeKept, Current.cmd \notin Special,
         info'.complete <=> Current.cmd = XCOMPLETE, pc = "real" => info'.error = "NONE"
  PROVE  Passed /\ Settled'
<1>1. Passed
  BY DoPasses
<1>2. UNCHANGED <<input, pc>> /\ commandCounter' = commandCounter + 1
  BY <1>1 DEF Passed
<1>3. /\ lv'.data = lv.data /\ lv'.expected = lv.expected
      /\ pc = "dummy" => Zeros(lv.captured)'
  BY DEF LvKept, Ready, InStep, Compared, Zeros
<1>4. /\ Current.cmd # XSDRSIZE /\ Current.cmd # XSETSDRMASKS /\ Current.cmd \notin ExpectCodes
      /\ Current.cmd # XTDOMASK
  BY DEF Special
<1>5. Sized(Known)' /\ Masked(Known)' /\ Compared(Known)'
  BY <1>2, <1>3, <1>4, SizeStays, MaskStays, ComparedStays
<1>6. Marked(commandCounter)'
  BY <1>2, <1>4, MarksStay DEF SinceKept
<1>7. (info.complete <=> commandCounter = Len(script))'
  BY <1>2, GetsThere DEF Ready, input
<1> QED
  BY <1>1, <1>5, <1>6, <1>7 DEF Settled

(* ... and, if it fails, not in the dummy pass only. *)
LEMMA QuietOrFails ==
  ASSUME Ready, Do(Len(Current.data)), LvKept, SinceKept, InfoKept, Current.cmd \notin Special,
         Current.cmd # XCOMPLETE, info'.error # info.error => CanFail(Current.cmd)
  PROVE  Stepped
<1>1. info'.complete = FALSE /\ info.complete = FALSE
  BY DEF Ready, Running, InfoKept, Shape
<1>2. pc = "real" => info.error = "NONE"
  BY DEF Ready, Sound
<1>3. CASE pc = "real" /\ info'.error # "NONE"
  <2>1. CanFail(Current.cmd)
    BY <1>2, <1>3
  <2> QED
    BY <1>1, <1>3, <2>1, DoFails DEF Stepped
<1>4. CASE pc = "real" => info'.error = "NONE"
  BY <1>1, <1>4, Quiet DEF InfoKept, Stepped
<1> QED
  BY <1>3, <1>4

(* A code that is none. *)
LEMMA StepIllegal ==
  ASSUME Ready, IllegalCmd
  PROVE  Stepped
<1>1. Code = Current.cmd /\ Fitting(Current, Known)
  BY GetsThere DEF Ready
<1>2. Illegal(Code) /\ Do(0) /\ LvKept /\ SinceKept /\ InfoKept
  BY IllegalCmdDoes DEF Ready
<1>3. /\ Len(Current.data) = 0 /\ CanFail(Current.cmd)
      /\ Current.cmd \notin Special /\ Current.cmd # XCOMPLETE
  BY <1>1, <1>2 DEF Fitting, CanFail, Illegal, Special, ExpectCodes, XCOMPLETE, XSDRSIZE, XTDOMASK,
     XSETSDRMASKS, XSDRTDO, XSDRTDOB, XSDRTDOC, XSDRTDOE, XLASTCMD
<1> QED
  BY <1>2, <1>3, QuietOrFails

(* The last command. *)
LEMMA StepXCOMPLETE ==
  ASSUME Ready, DoXCOMPLETE
  PROVE  Stepped
<1>1. Code = Current.cmd /\ Fitting(Current, Known)
  BY GetsThere DEF Ready
<1>2. /\ Code = XCOMPLETE /\ Do(0) /\ LvKept /\ SinceKept /\ SizeKept
      /\ info'.complete = TRUE /\ info'.error = info.error
  BY XCOMPLETEDoes DEF Ready
<1>3. Len(Current.data) = 0 /\ Current.cmd \notin Special
  BY <1>1, <1>2 DEF Fitting, Special, ExpectCodes, XCOMPLETE, XSDRSIZE, XTDOMASK,
     XSETSDRMASKS, XSDRTDO, XSDRTDOB, XSDRTDOC, XSDRTDOE
<1>4. pc = "real" => info'.error = "NONE"
  BY <1>2 DEF Ready, Sound
<1> QED
  BY <1>1, <1>2, <1>3, <1>4, Quiet DEF Stepped

(* The commands with a fixed number of parameters. *)
LEMMA StepSetting ==
  ASSUME Ready, DoXRUNTEST \/ DoXREPEAT \/ DoXENDXR \/ DoXSTATE \/ DoXWAIT
  PROVE  Stepped
<1>1. Code = Current.cmd /\ Fitting(Current, Known) /\ Shape
  BY GetsThere DEF Ready
<1>2. /\ Code \in {XRUNTEST, XREPEAT, XENDIR, XENDDR, XSTATE, XWAIT}
      /\ LvKept /\ SinceKept /\ InfoKept
      /\ info'.error # info.error => Code \in {XENDIR, XENDDR, XSTATE}
      /\ Do(Len(Current.data))
  <2>1. CASE DoXRUNTEST
    BY <1>1, <2>1, XRUNTESTDoes DEF Fitting
  <2>2. CASE DoXREPEAT
    BY <1>1, <2>2, XREPEATDoes DEF Fitting
  <2>3. CASE DoXENDXR
    BY <1>1, <2>3, XENDXRDoes DEF Fitting
  <2>4. CASE DoXSTATE
    BY <1>1, <2>4, XSTATEDoes DEF Fitting
  <2>5. CASE DoXWAIT
    BY <1>1, <2>5, XWAITDoes DEF Fitting
  <2> QED
    BY <2>1, <2>2, <2>3, <2>4, <2>5
<1>3. Current.cmd \notin Special /\ Current.cmd # XCOMPLETE
  BY <1>1, <1>2 DEF Special, ExpectCodes, XCOMPLETE, XSDRSIZE, XTDOMASK,
     XSETSDRMASKS, XSDRTDO, XSDRTDOB, XSDRTDOC, XSDRTDOE,
     XRUNTEST, XREPEAT, XENDIR, XENDDR, XSTATE, XWAIT
<1>4. info'.error # info.error => CanFail(Current.cmd)
  BY <1>1, <1>2 DEF CanFail
<1> QED
  BY <1>2, <1>3, <1>4, QuietOrFails

(* The comment: its first 0 is its last byte. *)
LEMMA StepXCOMMENT ==
  ASSUME Ready, DoXCOMMENT
  PROVE  Stepped
<1>1. Code = Current.cmd /\ Fitting(Current, Known) /\ AtCommand
  BY GetsThere DEF Ready
<1>2. PICK n \in CommentEnds : (\A k \in CommentEnds : n <= k) /\ Do(n + 1)
  BY XCOMMENTDoes DEF Ready
<1>3. Code = XCOMMENT /\ LvKept /\ SinceKept /\ InfoKept /\ info'.error = "NONE"
  BY XCOMMENTDoes DEF Ready
<1> DEFINE size == Len(Current.data)
<1>4. size \in Nat \ {0} /\ \A i \in 1 .. size : Current.data[i] = 0 <=> i = size
  BY <1>1, <1>3 DEF Fitting, AtCommand
<1>5. /\ pos + 1 + size <= Len(file) /\ pos \in Nat /\ Len(file) \in Nat
      /\ \A k \in 1 .. size : ByteAt(k) = Current.data[k]
  BY <1>1 DEF AtCommand
<1> HIDE DEF size
<1>6. \A k \in 1 .. size : ByteAt(k) = 0 <=> k = size
  BY <1>4, <1>5
<1>7. n = size - 1
  <2>1. n \in 0 .. Len(file) - pos - 2 /\ ByteAt(n + 1) = 0
    BY <1>2 DEF CommentEnds
  <2>2. size - 1 \in CommentEnds
    <3>1. size - 1 \in 0 .. Len(file) - pos - 2
      BY <1>4, <1>5
    <3>2. ByteAt((size - 1) + 1) = 0
      <4>1. (size - 1) + 1 = size /\ size \in 1 .. size
        BY <1>4
      <4> QED
        BY <1>6, <4>1
    <3> QED
      BY <3>1, <3>2 DEF CommentEnds
  <2>3. n <= size - 1
    BY <1>2, <2>2
  <2>4. n + 1 \in 1 .. size
    BY <1>4, <2>1, <2>3
  <2>5. n + 1 = size
    BY <1>6, <2>1, <2>4
  <2> QED
    BY <1>4, <2>1, <2>5
<1>8. Do(Len(Current.data))
  <2>1. n + 1 = size
    BY <1>4, <1>7
  <2> QED
    BY <1>2, <2>1 DEF size
<1>9. Current.cmd \notin Special /\ Current.cmd # XCOMPLETE
  BY <1>1, <1>3 DEF Special, ExpectCodes, XCOMPLETE, XSDRSIZE, XTDOMASK,
     XSETSDRMASKS, XSDRTDO, XSDRTDOB, XSDRTDOC, XSDRTDOE, XCOMMENT
<1>10. info'.complete <=> Current.cmd = XCOMPLETE
  BY <1>3, <1>9 DEF InfoKept, Ready, Running, Shape
<1> QED
  BY <1>3, <1>8, <1>9, <1>10, Quiet DEF InfoKept, Stepped

(* The number a command begins with. *)
LEMMA FirstNumber ==
  ASSUME Ready, NEW n \in Nat, n <= Len(Current.data), n <= MaxLen + 1
  PROVE  /\ Bytes(1, n) = SubSeq(Current.data, 1, n)
         /\ \A x : value(readVal(x, Bytes(1, n))) = Number(SubSeq(Current.data, 1, n))
         /\ Number(SubSeq(Current.data, 1, n)) \in Nat
<1>1. AtCommand
  BY GetsThere DEF Ready
<1>2. 1 + n - 1 = n /\ 1 \in Nat \ {0}
  OBVIOUS
<1>3. /\ Bytes(1, n) = SubSeq(Current.data, 1, n)
      /\ Bytes(1, n) \in Seq(Byte) /\ Len(Bytes(1, n)) = n
  BY <1>1, <1>2, BytesRead
<1>4. \A x : Holds(readVal(x, Bytes(1, n)), Bytes(1, n))
  BY <1>3, ReadHolds
<1>5. ASSUME NEW x
      PROVE  /\ value(readVal(x, Bytes(1, n))) = Number(Bytes(1, n))
             /\ Number(Bytes(1, n)) \in Nat
  BY <1>3, <1>4, NumberHeld
<1>6. \A x : value(readVal(x, Bytes(1, n))) = Number(Bytes(1, n))
  BY <1>5
<1>7. Number(Bytes(1, n)) \in Nat
  BY <1>5
<1> QED
  BY <1>3, <1>6, <1>7

(* A shift of the instruction register: the dummy pass meets none that is too long. *)
LEMMA StepXSIR ==
  ASSUME Ready, DoXSIR
  PROVE  Stepped
<1>1. /\ Code = Current.cmd /\ Fitting(Current, Known) /\ AtCommand
      /\ MaxLen \in Nat /\ MaxLen >= 4
  BY GetsThere, PlayerAssumption, LenValAssumption DEF Ready
<1> DEFINE width == IF Code = XSIR THEN 1 ELSE 2
           n     == BytesOf(Number(Bytes(1, width)))
<1>2. /\ Code \in {XSIR, XSIR2} /\ LvKept /\ SinceKept /\ InfoKept
      /\ \/ n > MaxLen /\ info'.error = "DATAOVERFLOW" /\ Do(width)
         \/ n <= MaxLen /\ info'.error = info.error /\ Do(width + n)
  BY XSIRDoes DEF Ready
<1> DEFINE size == Len(Current.data)
           bits == IRBits(Current)
<1>3. /\ width = Width(Current) /\ width \in {1, 2} /\ width <= size
      /\ size = width + BytesFor(bits) /\ BytesFor(bits) < ShortHalf
  BY <1>1, <1>2 DEF Fitting, Width
<1>4. bits = Number(SubSeq(Current.data, 1, width))
  BY <1>3 DEF IRBits
<1>5. width \in Nat /\ width <= MaxLen + 1
  BY <1>1, <1>3
<1>6. Number(Bytes(1, width)) = bits /\ bits \in Nat
  <2> HIDE DEF width
  <2> QED
    BY <1>3, <1>4, <1>5, FirstNumber
<1>7. n = BytesFor(bits)
  <2> HIDE DEF bits
  <2> QED
    BY <1>3, <1>6, BytesOfSmall
<1>8. Current.cmd \notin Special /\ Current.cmd # XCOMPLETE /\ CanFail(Current.cmd)
  BY <1>1, <1>2 DEF Special, ExpectCodes, XCOMPLETE, XSDRSIZE, XTDOMASK,
     XSETSDRMASKS, XSDRTDO, XSDRTDOB, XSDRTDOC, XSDRTDOE, XSIR, XSIR2, CanFail
<1>9. CASE n > MaxLen /\ info'.error = "DATAOVERFLOW" /\ Do(width)
  <2>1. pc = "real"
    <3>1. SUFFICES ASSUME Countable(script)
                   PROVE  FALSE
      BY DEF Ready, Sound
    <3>2. /\ commandCounter + 1 \in 1 .. Len(script)
          /\ Current = script[commandCounter + 1]
      BY <1>1 DEF AtCommand, Current
    <3>3. BytesFor(bits) <= MaxLen
      BY <1>1, <1>2, <3>1, <3>2 DEF Countable
    <3>4. n \in Nat
      BY <1>6, <1>7, BytesForType
    <3> HIDE DEF n, bits
    <3> QED
      BY <1>1, <1>7, <1>9, <3>3, <3>4
  <2> QED
    BY <1>2, <1>8, <1>9, <2>1, DoFails DEF Stepped, InfoKept
<1>10. CASE n <= MaxLen /\ info'.error = info.error /\ Do(width + n)
  <2>1. Do(Len(Current.data))
    BY <1>3, <1>7, <1>10
  <2> QED
    BY <1>2, <1>8, <1>10, <2>1, QuietOrFails
<1> QED
  BY <1>2, <1>9, <1>10

(* The size of a shift is set; one that is too large for the buffers fails in the real pass. *)
LEMMA StepXSDRSIZE ==
  ASSUME Ready, DoXSDRSIZE
  PROVE  Stepped
<1>1. /\ Code = Current.cmd /\ Fitting(Current, Known) /\ AtCommand
      /\ MaxLen \in Nat /\ MaxLen >= 4
  BY GetsThere, PlayerAssumption, LenValAssumption DEF Ready
<1> DEFINE bits == Number(Current.data)
<1>2. /\ Code = XSDRSIZE /\ Do(4) /\ LvKept /\ SinceKept
      /\ DOMAIN info' = Fields /\ info'.complete = info.complete
      /\ info'.shiftBits = value(readVal(lv.tdi, Bytes(1, 4)))
      /\ info'.shiftBytes = BytesOf(value(readVal(lv.tdi, Bytes(1, 4))))
  BY XSDRSIZEDoes DEF Ready
<1>3. Len(Current.data) = 4 /\ BytesFor(bits) < ShortHalf /\ CanFail(Current.cmd)
  BY <1>1, <1>2 DEF Fitting, CanFail
<1>4. SubSeq(Current.data, 1, 4) = Current.data
  BY <1>1, <1>3 DEF AtCommand
<1>5. bits \in Nat /\ info'.shiftBits = bits /\ info'.shiftBytes = BytesOf(bits)
  <2>1. 4 \in Nat /\ 4 <= Len(Current.data) /\ 4 <= MaxLen + 1
    BY <1>1, <1>3
  <2>2. value(readVal(lv.tdi, Bytes(1, 4))) = bits /\ bits \in Nat
    BY <1>4, <2>1, FirstNumber
  <2> QED
    BY <1>2, <2>2
<1>6. info'.shiftBytes = BytesFor(bits)
  BY <1>3, <1>5, BytesOfSmall
<1>7. info'.complete = FALSE /\ Current.cmd # XCOMPLETE
  BY <1>1, <1>2 DEF Ready, Running, Shape, XSDRSIZE, XCOMPLETE
<1>8. CASE pc = "real" /\ info'.error # "NONE"
  BY <1>2, <1>3, <1>8, DoFails DEF Stepped
<1>9. CASE pc = "real" => info'.error = "NONE"
  <2>1. Passed
    BY <1>2, <1>3, <1>9, DoPasses
  <2>2. UNCHANGED <<input, pc>> /\ commandCounter' = commandCounter + 1
    BY <2>1 DEF Passed
  <2>3. /\ Current.cmd # XSETSDRMASKS /\ Current.cmd \notin ExpectCodes
        /\ Current.cmd # XTDOMASK
    BY <1>1, <1>2 DEF ExpectCodes, XSDRSIZE, XTDOMASK, XSETSDRMASKS,
       XSDRTDO, XSDRTDOB, XSDRTDOC, XSDRTDOE
  <2>4. Sized(Known)'
    <3>1. Known'.bits = bits
      BY <1>1, <1>2, <2>2, KnownBehind
    <3> QED
      BY <1>3, <1>5, <1>6, <3>1 DEF Sized
  <2>5. /\ lv'.data = lv.data /\ lv'.expected = lv.expected
        /\ pc = "dummy" => Zeros(lv.captured)'
    BY <1>2 DEF LvKept, Ready, InStep, Compared, Zeros
  <2>6. Masked(Known)' /\ Compared(Known)'
    BY <2>2, <2>3, <2>5, MaskStays, ComparedStays
  <2>7. Marked(commandCounter)'
    BY <1>2, <2>2, <2>3, MarksStay DEF SinceKept
  <2>8. (info.complete <=> commandCounter = Len(script))'
    BY <1>7, <2>2, GetsThere DEF Ready, input
  <2> QED
    BY <2>1, <2>4, <2>6, <2>7, <2>8 DEF Settled, Stepped
<1> QED
  BY <1>8, <1>9

(* The mask of the expected data has the size that is set. *)
LEMMA StepXTDOMASK ==
  ASSUME Ready, DoXTDOMASK
  PROVE  Stepped
<1>1. Code = Current.cmd /\ Fitting(Current, Known)
  BY GetsThere DEF Ready
<1>2. /\ Code = XTDOMASK /\ Do(N) /\ LvKept /\ InfoKept /\ info'.error = info.error
      /\ since'.mask = pc /\ since'.expected = since.expected
  BY XTDOMASKDoes DEF Ready
<1>3. N = BytesFor(Known.bits)
  BY DEF Ready, InStep, Sized, N
<1>4. /\ Len(Current.data) = N
      /\ Current.cmd # XSDRSIZE /\ Current.cmd # XSETSDRMASKS /\ Current.cmd \notin ExpectCodes
      /\ Current.cmd # XCOMPLETE
  BY <1>1, <1>2, <1>3 DEF Fitting, ExpectCodes, XSDRSIZE, XTDOMASK, XSETSDRMASKS,
     XSDRTDO, XSDRTDOB, XSDRTDOC, XSDRTDOE, XCOMPLETE
<1>5. Passed
  BY <1>2, <1>4, DoPasses DEF Ready, Sound
<1>6. UNCHANGED <<input, pc>> /\ commandCounter' = commandCounter + 1
  BY <1>5 DEF Passed
<1>7. /\ lv'.data = lv.data /\ lv'.expected = lv.expected
      /\ pc = "dummy" => Zeros(lv.captured)'
  BY <1>2 DEF LvKept, Ready, InStep, Compared, Zeros
<1>8. Sized(Known)' /\ Masked(Known)' /\ Compared(Known)'
  BY <1>2, <1>4, <1>6, <1>7, SizeStays, MaskStays, ComparedStays DEF InfoKept
<1>9. Marked(commandCounter)'
  BY <1>1, <1>2, <1>4, <1>6, MarksStay
<1>10. (info.complete <=> commandCounter = Len(script))'
  BY <1>2, <1>4, <1>6, GetsThere DEF Ready, Running, Shape, InfoKept, input
<1> QED
  BY <1>5, <1>8, <1>9, <1>10 DEF Settled, Stepped

(* The upper half of the data of a command that has two parameters of n bytes. *)
LEMMA UpperHalfRead ==
  ASSUME Ready, NEW n \in Nat, Len(Current.data) = 2 * n
  PROVE  /\ UpperHalf(Current.data) = Bytes(1 + n, n) /\ Len(Bytes(1 + n, n)) = n
         /\ Bytes(1 + n, n) \in Seq(Byte)
<1>1. AtCommand
  BY GetsThere DEF Ready
<1>2. Current.data \in Seq(Byte)
  BY <1>1 DEF AtCommand
<1>3. UpperHalf(Current.data) = SubSeq(Current.data, 1 + n, 1 + n + n - 1)
  BY <1>2, UpperHalfIs
<1>4. 1 + n \in Nat \ {0} /\ 1 + n + n - 1 <= Len(Current.data)
  OBVIOUS
<1> QED
  BY <1>1, <1>3, <1>4, BytesRead

(* The data mask of XSDRINC is the upper half of the data. *)
LEMMA StepXSETSDRMASKS ==
  ASSUME Ready, DoXSETSDRMASKS
  PROVE  Stepped
<1>1. Code = Current.cmd /\ Fitting(Current, Known) /\ Known \in SettingType
  BY GetsThere DEF Ready
<1>2. /\ Code = XSETSDRMASKS /\ BytesFit /\ Do(2 * N) /\ SinceKept /\ InfoKept
      /\ info'.error = info.error
      /\ lv'.expected = lv.expected /\ lv'.captured = lv.captured
      /\ lv'.data = readVal(lv.data, Bytes(1 + N, N))
  BY XSETSDRMASKSDoes DEF Ready
<1>3. N = BytesFor(Known.bits) /\ N \in Nat /\ N <= MaxLen + 1
  BY <1>2, LenValAssumption DEF Ready, InStep, Sized, N, BytesFit
<1>4. /\ Len(Current.data) = 2 * N
      /\ Current.cmd # XSDRSIZE /\ Current.cmd # XTDOMASK /\ Current.cmd \notin ExpectCodes
      /\ Current.cmd # XCOMPLETE
  BY <1>1, <1>2, <1>3 DEF Fitting, ExpectCodes, XSDRSIZE, XTDOMASK, XSETSDRMASKS,
     XSDRTDO, XSDRTDOB, XSDRTDOC, XSDRTDOE, XCOMPLETE
<1>5. Passed
  BY <1>2, <1>4, DoPasses DEF Ready, Sound
<1>6. UNCHANGED <<input, pc>> /\ commandCounter' = commandCounter + 1
  BY <1>5 DEF Passed
<1>7. pc = "dummy" => Zeros(lv.captured)'
  BY <1>2 DEF Ready, InStep, Compared, Zeros
<1>8. Sized(Known)' /\ Compared(Known)'
  BY <1>2, <1>4, <1>6, <1>7, SizeStays, ComparedStays DEF InfoKept
<1>9. Masked(Known)'
  <2> DEFINE bytes == Bytes(1 + N, N)
  <2>1. Known'.mask = bytes /\ Len(bytes) = N /\ bytes \in Seq(Byte)
    BY <1>1, <1>2, <1>3, <1>4, <1>6, KnownBehind, UpperHalfRead
  <2>2. Holds(readVal(lv.data, bytes), bytes)
    <3> HIDE DEF bytes
    <3> QED
      BY <1>3, <2>1, ReadHolds
  <2>3. Known'.mask # <<>> => Holds(lv'.data, Known'.mask) /\ Len(Known'.mask) <= MaxLen + 1
    BY <1>2, <1>3, <2>1, <2>2
  <2> QED
    BY <2>3 DEF Masked, Holds
<1>10. Marked(commandCounter)'
  BY <1>2, <1>4, <1>6, MarksStay DEF SinceKept
<1>11. (info.complete <=> commandCounter = Len(script))'
  BY <1>2, <1>4, <1>6, GetsThere DEF Ready, Running, Shape, InfoKept, input
<1> QED
  BY <1>5, <1>8, <1>9, <1>10, <1>11 DEF Settled, Stepped

-----------------------------------------------------------------------------
(* THE COMMANDS THAT SHIFT DATA *)

(* The answers of the dummy pass leave a buffer of zeros one. *)
LEMMA ZerosAnswered ==
  ASSUME pc = "dummy", info.shiftBits \in Nat, NEW n \in Nat, NEW buffer, Zeros(buffer),
         NEW captured \in Answer(buffer, n)
  PROVE  Zeros(captured)
<1> DEFINE P == Pow2[info.shiftBits]
           d == Digits(0, n)
<1>1. P \in Nat \ {0} /\ Base \in Nat \ {0} /\ ByteBits \in Nat /\ MaxLen \in Nat
  BY Powers, BaseType
<1>2. 0 % P = 0
  <2> HIDE DEF P
  <2> QED
    BY <1>1, RestOfRest
<1>3. captured = readVal(buffer, Digits(0 % P, n))
  BY DEF Answer
<1>4. Len(d) = n /\ \A i \in 1 .. n : d[i] = 0
  <2>1. ASSUME NEW i \in 1 .. n
        PROVE  (0 \div Pow2[ByteBits * (n - i)]) % Base = 0
    <3> DEFINE k == ByteBits * (n - i)
               Q == Pow2[k]
    <3>1. n - i \in Nat
      BY <2>1
    <3> DEFINE m == n - i
    <3> HIDE DEF m
    <3>2. ByteBits * m \in Nat
      BY <1>1, <3>1 DEF m
    <3>3. Q \in Nat \ {0}
      BY <3>2, Powers DEF m
    <3> HIDE DEF Q, k
    <3>4. 0 \div Q = 0
      <4>1. (Q * 0 + 0) \div Q = 0
        BY <3>3, Quotient
      <4>2. Q * 0 + 0 = 0
        BY <3>3
      <4> QED
        BY <4>1, <4>2
    <3>5. 0 % Base = 0
      <4> DEFINE B == Base
      <4>1. B \in Nat \ {0}
        BY <1>1
      <4> HIDE DEF B
      <4>2. 0 % B = 0
        BY <4>1, RestOfRest
      <4> QED
        BY <4>2 DEF B
    <3> QED
      BY <3>4, <3>5 DEF Q, k
  <2>2. d = [i \in 1 .. n |-> (0 \div Pow2[ByteBits * (n - i)]) % Base]
    BY DEF Digits
  <2>3. d = [i \in 1 .. n |-> 0]
    BY <2>1, <2>2
  <2> HIDE DEF d
  <2> QED
    BY <2>3
<1>5. captured = readVal(buffer, d)
  BY <1>2, <1>3
<1> HIDE DEF d
<1>6. ASSUME NEW i \in 0 .. MaxLen
      PROVE  captured.val[i] = 0
  <2>1. captured.val[i] = IF i < Len(d) THEN d[i + 1] ELSE buffer.val[i]
    BY <1>5 DEF readVal
  <2>2. CASE i < n
    <3>1. i + 1 \in 1 .. n
      BY <1>1, <2>2
    <3> QED
      BY <1>4, <2>1, <2>2, <3>1
  <2>3. CASE ~(i < n)
    BY <1>4, <2>1, <2>3 DEF Zeros
  <2> QED
    BY <2>2, <2>3
<1> QED
  BY <1>6 DEF Zeros

(* A command that shifts data, reads all of it and does not fail is passed. *)
LEMMA ShiftPasses ==
  ASSUME Ready, DoShift(Len(Current.data)), NEW bad \in BOOLEAN,
         EndShift(Bytes(1, Len(Current.data)), bad),
         pc = "real" => ~bad /\ info'.error = "NONE"
  PROVE  Passed
<1>1. AtCommand /\ commandCounter + 1 <= MaxCommands
  BY GetsThere DEF Ready
<1> DEFINE size == Len(Current.data)
<1>2. size \in Nat /\ pos + 1 + size = Len(Encoded(script)[commandCounter + 1])
  BY <1>1 DEF AtCommand
<1>3. /\ Count /\ Advance(1 + size) /\ UNCHANGED <<input, pc, more, totalCommandCounter>>
  BY DEF DoShift, EndShift
<1>4. pos' = pos + 1 + size
  BY <1>1, <1>2, <1>3, Advanced
<1>5. commandCounter' = commandCounter + 1
  BY <1>1, <1>3, Counted DEF Ready
<1>6. executed' = IF pc = "real" THEN Append(executed, Current) ELSE executed
  BY <1>1, Recorded DEF EndShift
<1>7. more' = 0
  BY <1>3 DEF Ready, Running
<1> QED
  BY <1>2, <1>3, <1>4, <1>5, <1>6, <1>7 DEF Passed

(* The marks of a pass that has read before it compares. *)
Judges(judge) ==
  \/ judge = "none"
  \/ judge = "masked" /\ Current.cmd \in {XSDR, XSDRTDO, XSDRINC}
  \/ judge = "plain" /\ Current.cmd \in ExpectCodes

SinceStep ==
  /\ since'.expected = IF Current.cmd \in ExpectCodes THEN pc ELSE since.expected
  /\ since'.mask = since.mask

(* So nothing of the dummy pass is compared with. *)
LEMMA NotStale ==
  ASSUME Ready, Prepared, pc = "real", Current.cmd # XTDOMASK, SinceStep, NEW judge, Judges(judge)
  PROVE  ~Stale(judge)
<1> DEFINE c == commandCounter
<1>1. c \in 0 .. Len(script) - 1 /\ Len(script) \in Nat /\ script \in Seq(Entry)
  BY GetsThere DEF Ready, AtCommand, Given
<1>2. c + 1 \in DOMAIN script /\ Current = script[c + 1]
  BY <1>1 DEF Current
<1>3. ASSUME NEW codes, GivenBefore(c + 1, codes)
      PROVE  GivenBefore(c, codes) \/ Current.cmd \in codes
  <2>1. PICK j \in 1 .. c + 1 : script[j].cmd \in codes
    BY <1>3 DEF GivenBefore
  <2>2. CASE j \in 1 .. c
    BY <2>1, <2>2 DEF GivenBefore
  <2>3. CASE j = c + 1
    BY <2>1, <2>3 DEF Current
  <2> QED
    BY <1>1, <2>1, <2>2, <2>3
<1>4. Marked(c)
  BY DEF Ready, InStep
<1>5. CASE judge = "none"
  BY <1>5 DEF Stale
<1>6. CASE judge = "masked" /\ Current.cmd \in {XSDR, XSDRTDO, XSDRINC}
  <2>1. GivenBefore(c + 1, {XTDOMASK})
    BY <1>2, <1>6 DEF Prepared
  <2>2. since'.mask = "real"
    BY <1>3, <1>4, <2>1 DEF Marked, SinceStep
  <2>3. since'.expected = "real"
    <3>1. CASE Current.cmd \in ExpectCodes
      BY <3>1 DEF SinceStep
    <3>2. CASE Current.cmd \notin ExpectCodes
      <4>1. Current.cmd \in {XSDR, XSDRINC}
        BY <1>6, <3>2 DEF ExpectCodes
      <4>2. GivenBefore(c + 1, ExpectCodes)
        BY <1>2, <4>1 DEF Prepared
      <4> QED
        BY <1>3, <1>4, <3>2, <4>2 DEF Marked, SinceStep
    <3> QED
      BY <3>1, <3>2
  <2> QED
    BY <1>6, <2>2, <2>3 DEF Stale
<1>7. CASE judge = "plain" /\ Current.cmd \in ExpectCodes
  BY <1>7 DEF Stale, SinceStep
<1> QED
  BY <1>5, <1>6, <1>7 DEF Judges

Fresh == Prepared /\ ~stale => ~stale'

(* The data in "new" when a shift begins. *)
Prepares(new) ==
  /\ new.data = lv.data /\ new.captured = lv.captured /\ new.tdi.len \in Nat
  /\ IF Current.cmd \in ExpectCodes
     THEN Holds(new.expected, UpperHalf(Current.data)) /\ Len(UpperHalf(Current.data)) <= MaxLen + 1
     ELSE new.expected = lv.expected

(* What is captured in the dummy pass. *)
LEMMA CapturesZeros ==
  ASSUME Given, InStep, pc = "dummy", Known \in SettingType,
         NEW new, NEW judge, NEW bad \in BOOLEAN, Shifted(new, judge, bad),
         new.captured = lv.captured, new.tdi.len \in Nat
  PROVE  Zeros(lv.captured)'
<1>1. Zeros(lv.captured) /\ info.shiftBits \in Nat
  BY DEF InStep, Compared, Sized, SettingType
<1>2. lv'.captured = lv.captured \/ lv'.captured \in Answer(lv.captured, new.tdi.len)
  BY DEF Shifted
<1>3. ASSUME lv'.captured \in Answer(lv.captured, new.tdi.len)
      PROVE  Zeros(lv'.captured)
  BY <1>1, <1>3, ZerosAnswered
<1>4. ASSUME lv'.captured = lv.captured
      PROVE  Zeros(lv'.captured)
  BY <1>1, <1>4
<1>5. Zeros(lv'.captured)
  BY <1>2, <1>3, <1>4
<1> QED
  BY <1>5 DEF Zeros

(* What holds behind the shift. *)
LEMMA ShiftSettles ==
  ASSUME Ready, UNCHANGED <<input, pc>>, commandCounter' = commandCounter + 1,
         NEW new, NEW judge, NEW bad \in BOOLEAN, Shifted(new, judge, bad), Prepares(new),
         SinceStep, Current.cmd \notin {XSDRSIZE, XSETSDRMASKS, XTDOMASK, XCOMPLETE}
  PROVE  Settled'
<1>1. Known \in SettingType
  BY GetsThere DEF Ready
<1>2. /\ lv'.data = lv.data /\ lv'.expected = new.expected /\ SizeKept
      /\ info'.complete = info.complete
  BY DEF Shifted, Prepares, InfoKept
<1>3. pc = "dummy" => Zeros(lv.captured)'
  BY <1>1, CapturesZeros DEF Ready, Prepares
<1>4. Sized(Known)' /\ Masked(Known)'
  BY <1>2, SizeStays, MaskStays
<1>5. Compared(Known)'
  <2>1. CASE Current.cmd \in ExpectCodes
    <3>1. Known'.expected = UpperHalf(Current.data)
      BY <2>1, KnownBehind
    <3>2. Holds(lv'.expected, Known'.expected) /\ Len(Known'.expected) <= MaxLen + 1
      BY <1>2, <2>1, <3>1 DEF Prepares
    <3> QED
      BY <1>3, <3>2 DEF Compared, Holds
  <2>2. CASE Current.cmd \notin ExpectCodes
    BY <1>2, <1>3, <2>2, ComparedStays DEF Prepares
  <2> QED
    BY <2>1, <2>2
<1>6. Marked(commandCounter)'
  BY MarksStay DEF SinceStep
<1>7. (info.complete <=> commandCounter = Len(script))'
  BY <1>2, GetsThere DEF Ready, Running, Shape, input
<1> QED
  BY <1>4, <1>5, <1>6, <1>7 DEF Settled

(* The marks are right when it compares. *)
LEMMA ShiftFresh ==
  ASSUME Ready, NEW new, NEW judge, NEW bad \in BOOLEAN, Shifted(new, judge, bad), SinceStep,
         Current.cmd # XTDOMASK, Judges(judge)
  PROVE  Fresh
<1>1. stale' => stale \/ (pc = "real" /\ Stale(judge))
  BY DEF Shifted
<1>2. Prepared /\ pc = "real" => ~Stale(judge)
  BY NotStale
<1> QED
  BY <1>1, <1>2 DEF Fresh

(* A command that reads all its data and shifts once. *)
LEMMA StepShift ==
  ASSUME Ready, NEW new, NEW judge, NEW bad \in BOOLEAN, Shifted(new, judge, bad), Prepares(new),
         SinceStep, Judges(judge), DoShift(Len(Current.data)),
         EndShift(Bytes(1, Len(Current.data)), bad),
         Current.cmd \notin {XSDRSIZE, XSETSDRMASKS, XTDOMASK, XCOMPLETE},
         bad => CanFail(Current.cmd)
  PROVE  Stepped /\ Fresh
<1>1. Fresh
  BY ShiftFresh
<1>2. /\ info'.complete = FALSE /\ (pc = "real" => info.error = "NONE") /\ more = 0
      /\ IF bad THEN info'.error # "NONE" ELSE info'.error = info.error
  BY DEF Shifted, InfoKept, Ready, Running, Shape, Sound
<1>3. CASE pc = "real" /\ bad
  BY <1>1, <1>2, <1>3 DEF DoShift, EndShift, Stepped, Failed
<1>4. CASE pc = "real" => ~bad
  <2>1. Passed
    BY <1>2, <1>4, ShiftPasses
  <2>2. Settled'
    BY <2>1, ShiftSettles DEF Passed
  <2> QED
    BY <1>1, <2>1, <2>2 DEF Stepped
<1> QED
  BY <1>1, <1>3, <1>4

(* What the commands read before they shift. *)
LEMMA SizeIs ==
  ASSUME Ready, Fits
  PROVE  N = BytesFor(Known.bits) /\ N \in Nat /\ N <= MaxLen + 1 /\ Known \in SettingType
<1>1. Known \in SettingType
  BY GetsThere DEF Ready
<1> QED
  BY <1>1, LenValAssumption DEF Ready, InStep, Sized, N, BytesFit, Fits

(* Data alone ... *)
LEMMA TdiPrepares ==
  ASSUME Ready, Fits, N <= Len(Current.data), Current.cmd \notin ExpectCodes
  PROVE  Prepares(ReadTdi(N)) /\ ReadTdi(N).tdi.len = N
<1>1. AtCommand /\ N \in Nat
  BY GetsThere, SizeIs DEF Ready
<1>2. ReadTdi(N).tdi = readVal(lv.tdi, Bytes(1, N)) /\ Len(Bytes(1, N)) = N
  <2>1. 1 + N - 1 <= Len(Current.data) /\ 1 \in Nat \ {0}
    BY <1>1
  <2> QED
    BY <1>1, <2>1, BytesRead, TdiRead DEF Ready
<1>3. ReadTdi(N).tdi.len = N
  BY <1>2 DEF readVal
<1>4. /\ ReadTdi(N).data = lv.data /\ ReadTdi(N).captured = lv.captured
      /\ ReadTdi(N).expected = lv.expected
  BY TdiRead DEF Ready
<1> QED
  BY <1>1, <1>3, <1>4 DEF Prepares

(* ... and data with what is expected. *)
LEMMA ExpectedPrepares ==
  ASSUME Ready, Fits, Len(Current.data) = 2 * N, Current.cmd \in ExpectCodes
  PROVE  Prepares(ReadExpected)
<1>1. AtCommand /\ N \in Nat /\ N <= MaxLen + 1
  BY GetsThere, SizeIs DEF Ready
<1>2. /\ ReadExpected.tdi = readVal(lv.tdi, Bytes(1, N)) /\ ReadExpected.data = lv.data
      /\ ReadExpected.expected = readVal(lv.expected, Bytes(1 + N, N))
      /\ ReadExpected.captured = lv.captured
  BY ExpectedRead DEF Ready
<1>3. ReadExpected.tdi.len = N
  <2>1. 1 + N - 1 <= Len(Current.data) /\ 1 \in Nat \ {0}
    BY <1>1
  <2>2. Len(Bytes(1, N)) = N
    BY <1>1, <2>1, BytesRead
  <2> QED
    BY <1>2, <2>2 DEF readVal
<1>4. /\ UpperHalf(Current.data) = Bytes(1 + N, N) /\ Len(Bytes(1 + N, N)) = N
      /\ Bytes(1 + N, N) \in Seq(Byte)
  BY <1>1, UpperHalfRead
<1>5. Holds(readVal(lv.expected, Bytes(1 + N, N)), Bytes(1 + N, N))
  BY <1>1, <1>4, ReadHolds
<1> QED
  BY <1>1, <1>2, <1>3, <1>4, <1>5 DEF Prepares

(* XSDR. *)
LEMMA StepXSDR ==
  ASSUME Ready, DoXSDR
  PROVE  Stepped /\ Fresh
<1>1. Code = Current.cmd /\ Fitting(Current, Known)
  BY GetsThere DEF Ready
<1>2. Code = XSDR /\ Fits /\ DoShift(N) /\ SinceKept
  BY XSDRDoes DEF Ready
<1>3. PICK bad \in BOOLEAN : Shifted(ReadTdi(N), "masked", bad) /\ EndShift(Bytes(1, N), bad)
  BY XSDRDoes DEF Ready
<1>4. N = BytesFor(Known.bits) /\ N \in Nat
  BY <1>2, SizeIs
<1>5. Len(Current.data) = N
  BY <1>1, <1>2, <1>4 DEF Fitting
<1>6. /\ Current.cmd \notin {XSDRSIZE, XSETSDRMASKS, XTDOMASK, XCOMPLETE} \cup ExpectCodes
      /\ CanFail(Current.cmd) /\ Judges("masked")
  BY <1>1, <1>2 DEF ExpectCodes, XSDRSIZE, XTDOMASK, XSETSDRMASKS, XSDR,
     XSDRTDO, XSDRTDOB, XSDRTDOC, XSDRTDOE, XCOMPLETE, CanFail, Judges
<1>7. SinceStep
  BY <1>2, <1>6 DEF SinceStep, SinceKept
<1>8. Prepares(ReadTdi(N))
  BY <1>2, <1>4, <1>5, <1>6, TdiPrepares
<1> QED
  BY <1>2, <1>3, <1>5, <1>6, <1>7, <1>8, StepShift

(* XSDRB, XSDRC and XSDRE. *)
LEMMA StepXSDRBCE ==
  ASSUME Ready, DoXSDRBCE
  PROVE  Stepped /\ Fresh
<1>1. Code = Current.cmd /\ Fitting(Current, Known)
  BY GetsThere DEF Ready
<1>2. /\ Code \in {XSDRB, XSDRC, XSDRE} /\ Fits /\ DoShift(N) /\ SinceKept
      /\ Shifted(ReadTdi(N), "none", FALSE) /\ EndShift(Bytes(1, N), FALSE)
  BY XSDRBCEDoes DEF Ready
<1>3. N = BytesFor(Known.bits) /\ N \in Nat
  BY <1>2, SizeIs
<1>4. Len(Current.data) = N
  BY <1>1, <1>2, <1>3 DEF Fitting
<1>5. /\ Current.cmd \notin {XSDRSIZE, XSETSDRMASKS, XTDOMASK, XCOMPLETE} \cup ExpectCodes
      /\ Judges("none")
  BY <1>1, <1>2 DEF ExpectCodes, XSDRSIZE, XTDOMASK, XSETSDRMASKS, XSDRB, XSDRC, XSDRE,
     XSDRTDO, XSDRTDOB, XSDRTDOC, XSDRTDOE, XCOMPLETE, Judges
<1>6. SinceStep
  BY <1>2, <1>5 DEF SinceStep, SinceKept
<1>7. Prepares(ReadTdi(N))
  BY <1>2, <1>3, <1>4, <1>5, TdiPrepares
<1> QED
  BY <1>2, <1>4, <1>5, <1>6, <1>7, StepShift

(* XSDRTDO, XSDRTDOB, XSDRTDOC and XSDRTDOE. *)
LEMMA StepExpecting ==
  ASSUME Ready, DoXSDRTDO \/ DoXSDRTDOBCE
  PROVE  Stepped /\ Fresh
<1>1. Code = Current.cmd /\ Fitting(Current, Known)
  BY GetsThere DEF Ready
<1>2. PICK judge \in {"masked", "plain"} :
        /\ IF judge = "masked" THEN Code = XSDRTDO ELSE Code \in {XSDRTDOB, XSDRTDOC, XSDRTDOE}
        /\ Fits /\ DoShift(2 * N) /\ since'.expected = pc /\ since'.mask = since.mask
        /\ \E bad \in BOOLEAN :
             Shifted(ReadExpected, judge, bad) /\ EndShift(Bytes(1, 2 * N), bad)
  <2>1. CASE DoXSDRTDO
    BY <2>1, XSDRTDODoes DEF Ready
  <2>2. CASE DoXSDRTDOBCE
    BY <2>2, XSDRTDOBCEDoes DEF Ready
  <2> QED
    BY <2>1, <2>2
<1>3. PICK bad \in BOOLEAN : Shifted(ReadExpected, judge, bad) /\ EndShift(Bytes(1, 2 * N), bad)
  BY <1>2
<1>4. N = BytesFor(Known.bits) /\ N \in Nat
  BY <1>2, SizeIs
<1>5. /\ Current.cmd \in ExpectCodes
      /\ Current.cmd \notin {XSDRSIZE, XSETSDRMASKS, XTDOMASK, XCOMPLETE}
      /\ CanFail(Current.cmd) /\ Judges(judge)
  BY <1>1, <1>2 DEF ExpectCodes, XSDRSIZE, XTDOMASK, XSETSDRMASKS, XSDR,
     XSDRTDO, XSDRTDOB, XSDRTDOC, XSDRTDOE, XCOMPLETE, CanFail, Judges
<1>6. Len(Current.data) = 2 * N
  BY <1>1, <1>4, <1>5 DEF Fitting
<1>7. SinceStep
  BY <1>2, <1>5 DEF SinceStep
<1>8. Prepares(ReadExpected)
  BY <1>2, <1>5, <1>6, ExpectedPrepares
<1> QED
  BY <1>2, <1>3, <1>5, <1>6, <1>7, <1>8, StepShift

-----------------------------------------------------------------------------
(* XSDRINC AND ITS PIECES *)

(* The size of a piece is at most that of its mask. *)
LEMMA PieceSizeType ==
  ASSUME NEW mask \in Seq(Byte)
  PROVE  /\ PieceSize(mask) \in Nat /\ PieceSize(mask) <= Len(mask)
         /\ Cardinality(MaskBits(readVal(Zeroed, mask))) \in Nat
<1> DEFINE x == readVal(Zeroed, mask)
           k == Cardinality(MaskBits(x))
           n == Len(mask)
<1>1. x.len = n /\ n \in Nat
  BY DEF readVal
<1> HIDE DEF x
<1>2. k \in Nat /\ k <= n * ByteBits
  BY <1>1, MaskBitsBound
<1> HIDE DEF k, n
<1>3. BytesFor(k) \in Nat /\ BytesFor(k) <= n
  BY <1>1, <1>2, BytesForType
<1> QED
  BY <1>2, <1>3 DEF PieceSize, k, n, x

(* A piece has as many bytes as the file of the data mask says. *)
LEMMA PieceBytesAre ==
  ASSUME Masked(Known), Known \in SettingType, Known.mask # <<>>
  PROVE  PieceBytes = PieceSize(Known.mask) /\ PieceBytes \in Nat
<1> DEFINE mask == Known.mask
           x == readVal(Zeroed, mask)
           k == Cardinality(MaskBits(x))
<1>1. Holds(lv.data, mask) /\ Len(mask) <= MaxLen + 1 /\ mask \in Seq(Byte)
  BY DEF Masked, SettingType
<1>2. Holds(x, mask)
  <2> HIDE DEF mask
  <2> QED
    BY <1>1, ReadHolds
<1>3. MaskBits(lv.data) = MaskBits(x)
  <2> HIDE DEF mask, x
  <2> QED
    BY <1>1, <1>2, MaskBitsHeld
<1>4. PieceSize(mask) \in Nat /\ PieceSize(mask) <= Len(mask) /\ k \in Nat
  <2> HIDE DEF mask
  <2> QED
    BY <1>1, PieceSizeType
<1>5. PieceSize(mask) = BytesFor(k)
  BY DEF PieceSize
<1>6. BytesFor(k) < ShortHalf
  <2> DEFINE n == Len(mask)
             b == BytesFor(k)
  <2>1. b \in Nat /\ b <= n /\ n <= MaxLen + 1 /\ n \in Nat
    BY <1>1, <1>4, <1>5
  <2>2. MaxLen \in Nat /\ ShortHalf \in Nat /\ ShortHalf > MaxLen + 1
    BY LenValAssumption
  <2> HIDE DEF b, n
  <2>3. b < ShortHalf
    BY <2>1, <2>2
  <2> QED
    BY <2>3 DEF b
<1>7. BytesOf(k) = BytesFor(k)
  <2> HIDE DEF k
  <2> QED
    BY <1>4, <1>6, BytesOfSmall
<1>8. PieceBytes = BytesOf(k)
  BY <1>3 DEF PieceBytes
<1> QED
  BY <1>4, <1>5, <1>7, <1>8

(* In the dummy pass over a file it can count, nothing mismatches. *)
LEMMA NoMismatch ==
  ASSUME NEW bytes, Holds(lv'.expected, bytes), Len(bytes) <= MaxLen + 1, bytes \in Seq(Byte),
         \A k \in DOMAIN bytes : bytes[k] = 0, NEW captured, Zeros(captured)
  PROVE  Same("masked", captured)
<1> DEFINE e == lv'.expected
           n == Len(bytes)
<1>1. n \in Nat /\ n <= MaxLen + 1 /\ e.len = n /\ \A i \in 0 .. n - 1 : e.val[i] = bytes[i + 1]
  BY DEF Holds
<1>2. MaxLen \in Nat /\ \A i \in 0 .. MaxLen : captured.val[i] = 0
  BY LenValAssumption DEF Zeros
<1>3. \A k \in 1 .. n : bytes[k] = 0
  OBVIOUS
<1> HIDE DEF e, n
<1>4. \A i \in 0 .. n - 1 : e.val[i] = 0 /\ captured.val[i] = 0
  <2> TAKE i \in 0 .. n - 1
  <2>1. i + 1 \in 1 .. n /\ i \in 0 .. MaxLen
    BY <1>1, <1>2
  <2> QED
    BY <1>1, <1>2, <1>3, <2>1
<1>5. EqualLenVal(e, captured, lv'.mask)
  BY <1>1, <1>4 DEF EqualLenVal
<1>6. Same("masked", captured) = EqualLenVal(lv'.expected, captured, lv'.mask)
  BY DEF Same
<1> QED
  BY <1>5, <1>6 DEF e

(* A shift of XSDRINC that mismatches is one of the real pass. *)
LEMMA IncMismatch ==
  ASSUME Given, Sound, InStep, NEW n \in 1 .. Len(script), script[n].cmd = XSDRINC,
         Known \in SettingType, Known.expected = Setting(script)[n - 1].expected,
         NEW new, Shifted(new, "masked", TRUE),
         new.captured = lv.captured, new.tdi.len \in Nat, new.expected = lv.expected
  PROVE  pc = "real"
<1> SUFFICES ASSUME pc = "dummy", Countable(script)
             PROVE  FALSE
  BY DEF Sound
<1> DEFINE bytes == Known.expected
<1>1. Zeros(lv.captured)'
  BY CapturesZeros
<1>2. Zeros(lv'.captured)
  BY <1>1 DEF Zeros
<1>3. lv'.expected = lv.expected /\ ~Same("masked", lv'.captured)
  BY DEF Shifted
<1>4. Holds(lv.expected, bytes) /\ Len(bytes) <= MaxLen + 1 /\ bytes \in Seq(Byte)
  BY DEF InStep, Compared, SettingType
<1>5. \A k \in DOMAIN bytes : bytes[k] = 0
  BY DEF Countable
<1>6. Holds(lv'.expected, bytes)
  BY <1>3, <1>4
<1> QED
  BY <1>2, <1>3, <1>4, <1>5, <1>6, NoMismatch

Begun ==
  /\ UNCHANGED <<input, totalCommandCounter, pc, executed>>
  /\ commandCounter' = commandCounter + 1
  /\ Within' /\ Settled' /\ (pc = "real" => info'.error = "NONE")

Hung == UNCHANGED <<input, totalCommandCounter, executed>> /\ pc' = "looping" /\ more' = 0

(* The first shift of XSDRINC: it is over, goes on in pieces, fails or hangs. *)
LEMMA StepXSDRINC ==
  ASSUME Ready, DoXSDRINC
  PROVE  (Stepped \/ Begun \/ Hung) /\ Fresh
<1>1. /\ Code = Current.cmd /\ Fitting(Current, Known) /\ AtCommand /\ Known \in SettingType
      /\ commandCounter + 1 <= MaxCommands
  BY GetsThere DEF Ready
<1>2. Code = XSDRINC /\ Fits /\ SinceKept /\ UNCHANGED <<input, totalCommandCounter>>
  BY XSDRINCDoes DEF Ready
<1> DEFINE d == Current.data
           size == PieceSize(Known.mask)
<1>3. N = BytesFor(Known.bits) /\ N \in Nat
  BY <1>2, SizeIs
<1>4. Len(d) > N /\ Len(d) = N + 1 + d[N + 1] * size /\ (d[N + 1] > 0 => Known.mask # <<>>)
  BY <1>1, <1>2, <1>3 DEF Fitting
<1>5. /\ Current.cmd \notin {XSDRSIZE, XSETSDRMASKS, XTDOMASK, XCOMPLETE} \cup ExpectCodes
      /\ CanFail(Current.cmd) /\ Judges("masked") /\ Current.cmd = XSDRINC
  BY <1>1, <1>2 DEF ExpectCodes, XSDRSIZE, XTDOMASK, XSETSDRMASKS, XSDRINC,
     XSDRTDO, XSDRTDOB, XSDRTDOC, XSDRTDOE, XCOMPLETE, CanFail, Judges
<1>6. SinceStep
  BY <1>2, <1>5 DEF SinceStep, SinceKept
<1>7. Prepares(ReadTdi(N)) /\ ReadTdi(N).tdi.len = N
  <2>1. N <= Len(d)
    BY <1>1, <1>3, <1>4 DEF AtCommand
  <2> QED
    BY <1>2, <1>5, <2>1, TdiPrepares
<1>8. ASSUME NEW bad \in BOOLEAN, Shifted(ReadTdi(N), "masked", bad)
      PROVE  Fresh /\ info'.complete = FALSE
  <2>1. Fresh
    BY <1>5, <1>6, <1>8, ShiftFresh
  <2> QED
    BY <1>8, <2>1 DEF Shifted, InfoKept, Ready, Running, Shape
<1>9. /\ N + 1 \in 1 .. Len(d) /\ ByteAt(1 + N) = d[N + 1] /\ d[N + 1] \in Nat
      /\ Len(d) \in Nat /\ d \in Seq(Byte)
  <2>1. d \in Seq(Byte) /\ Len(d) \in Nat /\ \A k \in 1 .. Len(d) : ByteAt(k) = d[k]
    BY <1>1 DEF AtCommand
  <2>2. N + 1 \in 1 .. Len(d) /\ N + 1 = 1 + N
    BY <1>3, <1>4, <2>1
  <2>3. d[N + 1] \in Byte
    BY <2>1, <2>2
  <2> QED
    BY <2>1, <2>2, <2>3, BaseType
<1>10. size \in Nat
  BY <1>1, PieceSizeType DEF SettingType
<1> DEFINE pieces == d[N + 1]
           L == Len(d)
<1>11. CASE Shifted(ReadTdi(N), "masked", TRUE) /\ DoShift(N) /\ EndShift(<<>>, TRUE)
  <2>1. pc = "real"
    <3> DEFINE n == commandCounter + 1
    <3>1. n \in 1 .. Len(script) /\ script[n].cmd = XSDRINC /\ n - 1 = commandCounter
      BY <1>1, <1>5 DEF AtCommand, Current
    <3>2. Known.expected = Setting(script)[n - 1].expected
      BY <3>1 DEF Known
    <3>3. /\ ReadTdi(N).captured = lv.captured /\ ReadTdi(N).tdi.len \in Nat
          /\ ReadTdi(N).expected = lv.expected
      BY <1>5, <1>7 DEF Prepares
    <3> HIDE DEF n
    <3> QED
      BY <1>1, <1>11, <3>1, <3>2, <3>3, IncMismatch DEF Ready
  <2>2. Failed
    BY <1>5, <1>8, <1>11, <2>1 DEF Failed, DoShift, EndShift, Shifted, Ready, Running
  <2> QED
    BY <1>8, <1>11, <2>2 DEF Stepped
<1>12. CASE Shifted(ReadTdi(N), "masked", FALSE) /\ pc' = "looping" /\ UNCHANGED <<more, executed>>
  BY <1>2, <1>8, <1>12 DEF Hung, Ready, Running
<1>13. CASE /\ Shifted(ReadTdi(N), "masked", FALSE) /\ DoShift(N + 1)
            /\ ByteAt(1 + N) = 0 /\ EndShift(Bytes(1, N + 1), FALSE)
  <2>1. pieces = 0
    BY <1>9, <1>13
  <2>2. L = N + 1
    <3>1. pieces * size = 0
      <4> HIDE DEF pieces, size
      <4> QED
        BY <1>10, <2>1
    <3>2. L = N + 1 + pieces * size
      BY <1>4
    <3> HIDE DEF L, pieces, size
    <3> QED
      BY <1>3, <3>1, <3>2
  <2>3. DoShift(Len(Current.data)) /\ EndShift(Bytes(1, Len(Current.data)), FALSE)
    BY <1>13, <2>2
  <2> QED
    BY <1>5, <1>6, <1>7, <1>13, <2>3, StepShift
<1>14. CASE /\ Shifted(ReadTdi(N), "masked", FALSE) /\ DoShift(N + 1)
            /\ ByteAt(1 + N) > 0 /\ more' = ByteAt(1 + N) /\ taken' = Bytes(1, N + 1)
            /\ UNCHANGED <<pc, executed>>
  <2>1. more' = pieces /\ pieces \in Nat \ {0} /\ Known.mask # <<>>
    BY <1>4, <1>9, <1>14
  <2>2. pos' = pos + 1 + (N + 1)
    <3>1. N + 1 \in 0 .. Len(Current.data) /\ Advance(1 + (N + 1))
      BY <1>9, <1>14 DEF DoShift
    <3> QED
      BY <1>1, <3>1, Advanced
  <2>3. commandCounter' = commandCounter + 1 /\ UNCHANGED <<input, pc>>
    BY <1>1, <1>2, <1>14, Counted DEF DoShift, Ready
  <2>4. taken' = SubSeq(d, 1, N + 1) /\ Len(taken') = N + 1
    <3>1. 1 + (N + 1) - 1 = N + 1 /\ 1 \in Nat \ {0} /\ N + 1 \in Nat /\ N + 1 <= Len(Current.data)
      BY <1>3, <1>9
    <3>2. /\ Bytes(1, N + 1) = SubSeq(Current.data, 1, 1 + (N + 1) - 1)
          /\ Len(Bytes(1, N + 1)) = N + 1
      BY <1>1, <3>1, BytesRead
    <3> QED
      BY <1>14, <3>1, <3>2
  <2>5. Settled'
    BY <1>5, <1>6, <1>7, <1>14, <2>3, ShiftSettles
  <2>6. Known'.mask = Known.mask
    BY <1>5, <2>3, KnownBehind
  <2>7. Within'
    <3>1. script'[commandCounter'] = Current
      BY <2>3 DEF Current, input
    <3>2. /\ more' \in Nat \ {0} /\ commandCounter' > 0 /\ script'[commandCounter'].cmd = XSDRINC
      BY <1>1, <1>5, <2>1, <2>3, <3>1 DEF AtCommand
    <3>3. taken' = SubSeq(d, 1, Len(taken')) /\ Len(taken') \in 0 .. Len(d)
      BY <1>3, <1>9, <2>4
    <3>4. pos' = Len(Encoded(script')[commandCounter' - 1]) + 1 + Len(taken')
      <4>1. pos = Len(Encoded(script)[commandCounter]) /\ pos \in Nat
        BY <1>1 DEF Ready, InStep, Between, Within, Running, AtCommand
      <4>2. commandCounter' - 1 = commandCounter
        BY <1>1, <2>3 DEF AtCommand
      <4>3. script' = script
        BY <2>3 DEF input
      <4>4. pos' = pos + 1 + Len(taken')
        BY <2>2, <2>4
      <4> QED
        BY <4>1, <4>2, <4>3, <4>4
    <3>5. Len(d) = Len(taken') + more' * PieceSize(Known'.mask)
      <4>1. L = N + 1 + pieces * size
        BY <1>4
      <4>2. Len(taken') + more' * PieceSize(Known'.mask) = N + 1 + pieces * size
        BY <2>1, <2>4, <2>6
      <4> QED
        BY <4>1, <4>2
    <3>6. Known'.mask # <<>> /\ lv'.tdi.len \in Nat
      BY <1>3, <1>7, <1>14, <2>1, <2>6 DEF Shifted
    <3> QED
      BY <3>1, <3>2, <3>3, <3>4, <3>5, <3>6 DEF Within
  <2>8. pc = "real" => info'.error = "NONE"
    BY <1>14 DEF Shifted, Ready, Sound
  <2>9. Begun
    BY <1>2, <1>14, <2>3, <2>5, <2>7, <2>8 DEF Begun
  <2> QED
    BY <1>8, <1>14, <2>9
<1>15. \/ Shifted(ReadTdi(N), "masked", TRUE) /\ DoShift(N) /\ EndShift(<<>>, TRUE)
       \/ Shifted(ReadTdi(N), "masked", FALSE) /\ pc' = "looping" /\ UNCHANGED <<more, executed>>
       \/ /\ Shifted(ReadTdi(N), "masked", FALSE) /\ DoShift(N + 1)
          /\ ByteAt(1 + N) = 0 /\ EndShift(Bytes(1, N + 1), FALSE)
       \/ /\ Shifted(ReadTdi(N), "masked", FALSE) /\ DoShift(N + 1)
          /\ ByteAt(1 + N) > 0 /\ more' = ByteAt(1 + N) /\ taken' = Bytes(1, N + 1)
          /\ UNCHANGED <<pc, executed>>
  BY XSDRINCDoes DEF Ready
<1> QED
  BY <1>11, <1>12, <1>13, <1>14, <1>15

(* The next part of a byte sequence behind its first t bytes. *)
LEMMA NextPart ==
  ASSUME NEW d \in Seq(Byte), NEW t \in Nat, NEW k \in Nat, t + k <= Len(d)
  PROVE  /\ SubSeq(d, 1, t) \o [i \in 1 .. k |-> d[t + i]] = SubSeq(d, 1, t + k)
         /\ Len(SubSeq(d, 1, t + k)) = t + k
<1> DEFINE b == [i \in 1 .. k |-> d[t + i]]
           a == SubSeq(d, 1, t)
           w == SubSeq(d, 1, t + k)
           z == t + k
<1>1. a \in Seq(Byte) /\ Len(a) = t /\ \A i \in 1 .. t : a[i] = d[i]
  <2>1. 1 + t - 1 = t /\ t <= Len(d)
    OBVIOUS
  <2>2. \A i \in 1 .. t : 1 + i - 1 = i
    OBVIOUS
  <2> QED
    BY <2>1, <2>2, PartOf
<1>2. w \in Seq(Byte) /\ Len(w) = z /\ \A i \in 1 .. z : w[i] = d[i]
  <2>1. 1 + z - 1 = z /\ z <= Len(d) /\ z \in Nat
    OBVIOUS
  <2>2. \A i \in 1 .. z : 1 + i - 1 = i
    OBVIOUS
  <2> HIDE DEF z
  <2> QED
    BY <2>1, <2>2, PartOf DEF z
<1>3. b \in Seq(Byte) /\ Len(b) = k /\ \A i \in 1 .. k : b[i] = d[t + i]
  <2>1. \A i \in 1 .. k : t + i \in 1 .. Len(d)
    OBVIOUS
  <2>2. \A i \in 1 .. k : d[t + i] \in Byte
    BY <2>1
  <2> QED
    BY <2>2
<1> HIDE DEF a, b, w
<1>4. /\ a \o b \in Seq(Byte) /\ Len(a \o b) = z
      /\ \A i \in 1 .. z : (a \o b)[i] = IF i <= t THEN a[i] ELSE b[i - t]
  <2>1. a \in Seq(Byte) /\ b \in Seq(Byte) /\ Len(a) = t /\ Len(b) = k
    BY <1>1, <1>3
  <2> HIDE DEF z
  <2>2. /\ a \o b \in Seq(Byte) /\ Len(a \o b) = Len(a) + Len(b)
        /\ \A i \in 1 .. Len(a) + Len(b) : (a \o b)[i] = IF i <= Len(a) THEN a[i] ELSE b[i - Len(a)]
    BY <2>1
  <2>3. Len(a) + Len(b) = z
    BY <2>1 DEF z
  <2> QED
    BY <2>1, <2>2, <2>3
<1>5. \A i \in 1 .. z : (a \o b)[i] = w[i]
  <2> TAKE i \in 1 .. z
  <2>1. CASE i <= t
    <3>1. i \in 1 .. t
      BY <2>1
    <3> QED
      BY <1>1, <1>2, <1>4, <2>1, <3>1
  <2>2. CASE ~(i <= t)
    <3>1. i - t \in 1 .. k /\ t + (i - t) = i
      BY <2>2
    <3> QED
      BY <1>2, <1>3, <1>4, <2>2, <3>1
  <2> QED
    BY <2>1, <2>2
<1>6. a \o b = w
  <2> HIDE DEF z
  <2> QED
    BY <1>2, <1>4, <1>5
<1> QED
  BY <1>2, <1>6 DEF a, b, w

(* Places in a command of the file. *)
LEMMA PlaceWithin ==
  ASSUME NEW from \in Nat, NEW size \in Nat, NEW all \in Nat, from + 1 + size <= all,
         NEW t \in Nat, NEW k \in Nat, t + k <= size
  PROVE  /\ from + 1 + t + k <= all
         /\ \A i \in 1 .. k : /\ from + 1 + t + (i - 1) < all /\ t + i \in 1 .. size
                              /\ from + 1 + t + (i - 1) + 1 = from + 1 + (t + i)
OBVIOUS

(* What a piece reads is the next part of the data of its command. *)
LEMMA BytesWithin ==
  ASSUME Given, NEW n \in 0 .. Len(script) - 1, NEW t \in Nat, NEW k \in Nat,
         t + k <= Len(script[n + 1].data), pos = Len(Encoded(script)[n]) + 1 + t,
         Advance(k)
  PROVE  LET d == script[n + 1].data IN
         /\ SubSeq(d, 1, t) \o Bytes(0, k) = SubSeq(d, 1, t + k) /\ Len(SubSeq(d, 1, t + k)) = t + k
         /\ pos' = pos + k
<1> DEFINE d == script[n + 1].data
           from == Len(Encoded(script)[n])
           all == Len(file)
           size == Len(d)
<1>1. from \in Nat /\ size \in Nat /\ d \in Seq(Byte) /\ all \in Nat /\ from + 1 + size <= all
  BY FileAt DEF Given
<1>2. \A i \in 1 .. size : file[from + 1 + i] = d[i]
  BY FileAt DEF Given
<1>3. pos = from + 1 + t /\ t + k <= size
  OBVIOUS
<1>4. pos' = IF pos + k < all THEN pos + k ELSE all
  BY DEF Advance
<1>5. \A i \in 1 .. k : ByteAt(i - 1) =
        IF pos + (i - 1) < all THEN file[pos + (i - 1) + 1] ELSE Base - 1
  BY DEF ByteAt
<1> HIDE DEF from, all, size
<1>6. /\ from + 1 + t + k <= all
      /\ \A i \in 1 .. k : /\ from + 1 + t + (i - 1) < all /\ t + i \in 1 .. size
                           /\ from + 1 + t + (i - 1) + 1 = from + 1 + (t + i)
  BY <1>1, <1>3, PlaceWithin
<1>7. pos' = pos + k
  <2> DEFINE p == from + 1 + t
             z == p + k
  <2>1. pos' = (IF z < all THEN z ELSE all) /\ z <= all /\ z \in Nat
    BY <1>1, <1>3, <1>4, <1>6
  <2> HIDE DEF z
  <2>2. pos' = z
    BY <1>1, <2>1
  <2> QED
    BY <1>3, <2>2 DEF z
<1>8. \A i \in 1 .. k : ByteAt(i - 1) = d[t + i]
  <2> TAKE i \in 1 .. k
  <2>1. /\ pos + (i - 1) < all /\ t + i \in 1 .. size
        /\ pos + (i - 1) + 1 = from + 1 + (t + i)
    BY <1>3, <1>6
  <2>2. ByteAt(i - 1) = file[from + 1 + (t + i)]
    BY <1>5, <2>1
  <2> QED
    BY <1>2, <2>1, <2>2
<1>9. Bytes(0, k) = [i \in 1 .. k |-> d[t + i]]
  <2>1. \A i \in 1 .. k : 0 + i - 1 = i - 1
    OBVIOUS
  <2>2. Bytes(0, k) = [i \in 1 .. k |-> ByteAt(0 + i - 1)]
    BY DEF Bytes
  <2>3. [i \in 1 .. k |-> ByteAt(0 + i - 1)] = [i \in 1 .. k |-> d[t + i]]
    BY <1>8, <2>1
  <2> QED
    BY <2>2, <2>3
<1>10. /\ SubSeq(d, 1, t) \o [i \in 1 .. k |-> d[t + i]] = SubSeq(d, 1, t + k)
       /\ Len(SubSeq(d, 1, t + k)) = t + k
  <2>1. d \in Seq(Byte) /\ t + k <= Len(d)
    BY <1>1
  <2> HIDE DEF d
  <2> QED
    BY <2>1, NextPart
<1> QED
  BY <1>7, <1>9, <1>10

(* A piece keeps step: it is the last one, one of many, or fails in the real pass. *)
PieceEnds ==
  /\ more' = 0 /\ pos' = Len(Encoded(script)[commandCounter])
  /\ executed' = IF pc = "real" THEN Append(executed, script[commandCounter]) ELSE executed
  /\ Settled' /\ (pc = "real" => info'.error = "NONE")

PieceGoesOn == Within' /\ executed' = executed /\ Settled' /\ (pc = "real" => info'.error = "NONE")

PieceFails == more' = 0 /\ executed' = executed /\ info'.error # "NONE" /\ pc = "real"

(* Every piece keeps step, and compares with what this pass has read. *)
LEMMA StepPiece ==
  ASSUME Given, Shape, Sound, InStep, Piece
  PROVE  /\ commandCounter \in 1 .. Len(script) /\ script[commandCounter].cmd = XSDRINC
         /\ UNCHANGED <<input, pc, counters>> /\ ~info.complete /\ ~info'.complete
         /\ PieceEnds \/ PieceGoesOn \/ PieceFails
         /\ Fresh
<1>1. /\ more > 0 /\ UNCHANGED <<input, pc, counters>> /\ SinceKept /\ Advance(PieceBytes)
      /\ NextPiece.data = lv.data
      /\ NextPiece.expected = lv.expected /\ NextPiece.captured = lv.captured
      /\ NextPiece.tdi.len = lv.tdi.len /\ NextPiece.mask = lv.mask
  BY PieceDoes
<1> DEFINE c == commandCounter
           d == script[c].data
           size == PieceSize(Known.mask)
           t == Len(taken)
           n == c - 1
           from == Len(Encoded(script)[n])
           L == Len(d)
<1>2. /\ more \in Nat \ {0} /\ c > 0 /\ script[c].cmd = XSDRINC
      /\ taken = SubSeq(d, 1, t) /\ t \in 0 .. L /\ pos = from + 1 + t
      /\ L = t + more * size /\ Known.mask # <<>> /\ lv.tdi.len \in Nat
      /\ c \in 0 .. Len(script)
  BY <1>1 DEF InStep, Between, Within
<1>3. /\ Len(script) \in Nat \ {0} /\ script \in Seq(Entry)
      /\ \A i \in 1 .. Len(script) : script[i].cmd = XSDRSIZE => Len(script[i].data) = 4
  BY WellFormedIs DEF Given
<1>4. c \in 1 .. Len(script) /\ n \in 0 .. Len(script) - 1 /\ n + 1 = c
  BY <1>2, <1>3
<1>5. Known = After(Setting(script)[n], script[c]) /\ Known \in SettingType
      /\ Setting(script)[n] \in SettingType
  BY <1>3, <1>4, SettingSteps DEF Known
<1>6. PieceBytes = size /\ size \in Nat
  BY <1>2, <1>5, PieceBytesAre DEF InStep
<1>7. PICK bad \in BOOLEAN :
        /\ Shifted(NextPiece, "masked", bad)
        /\ more' = IF bad THEN 0 ELSE more - 1
        /\ taken' = IF more' = 0 THEN <<>> ELSE taken \o Bytes(0, size)
        /\ executed' =
             IF pc = "real" /\ ~bad /\ more = 1
             THEN Append(executed, [cmd |-> XSDRINC, data |-> taken \o Bytes(0, size)])
             ELSE executed
  BY <1>6, PieceDoes
<1>8. /\ from \in Nat /\ L \in Nat /\ d \in Seq(Byte)
      /\ Len(Encoded(script)[c]) = from + 1 + L
  BY <1>3, <1>4, FileAt
<1> DEFINE rest == (more - 1) * size
<1>9. rest \in Nat /\ L = t + size + rest
  <2>1. more - 1 \in Nat /\ more * size = size + (more - 1) * size
    <3> DEFINE m == more - 1
    <3>1. m \in Nat /\ more = m + 1
      BY <1>2
    <3>2. (m + 1) * size = size + m * size
      <4> HIDE DEF m, size
      <4> QED
        BY <1>6, <3>1
    <3> QED
      BY <3>1, <3>2
  <2>2. rest \in Nat
    <3> DEFINE m == more - 1
    <3> HIDE DEF m, size
    <3>1. m * size \in Nat
      BY <1>6, <2>1 DEF m
    <3> QED
      BY <3>1 DEF m
  <2> HIDE DEF size, t, L
  <2>3. L = t + (size + rest)
    BY <1>2, <2>1
  <2> HIDE DEF rest
  <2> QED
    BY <1>2, <1>6, <2>2, <2>3
<1>10. /\ taken \o Bytes(0, size) = SubSeq(d, 1, t + size) /\ Len(SubSeq(d, 1, t + size)) = t + size
       /\ pos' = pos + size
  <2>1. t + size <= Len(script[n + 1].data) /\ t \in Nat
    <3> HIDE DEF rest, size, t
    <3> QED
      BY <1>2, <1>4, <1>6, <1>8, <1>9
  <2>2. pos = Len(Encoded(script)[n]) + 1 + t /\ Advance(size)
    BY <1>1, <1>2, <1>6
  <2>3. n \in 0 .. Len(script) - 1 /\ script[n + 1].data = d /\ taken = SubSeq(d, 1, t)
    BY <1>2, <1>4
  <2> DEFINE s == script[n + 1].data
  <2>4. s = d
    BY <2>3
  <2> HIDE DEF n, size, t, d
  <2>5. /\ SubSeq(s, 1, t) \o Bytes(0, size) = SubSeq(s, 1, t + size)
        /\ Len(SubSeq(s, 1, t + size)) = t + size /\ pos' = pos + size
    BY <1>6, <2>1, <2>2, <2>3, BytesWithin
  <2> QED
    BY <2>3, <2>4, <2>5
<1>11. ~info.complete /\ ~info'.complete
  BY <1>1, <1>7 DEF Shape, Shifted, InfoKept
<1>12. Fresh
  <2>1. ASSUME Prepared, pc = "real"
        PROVE  ~Stale("masked")
    <3>1. GivenBefore(c, ExpectCodes) /\ GivenBefore(c, {XTDOMASK})
      <4>1. c \in DOMAIN script
        BY <1>3, <1>4
      <4> QED
        BY <1>2, <2>1, <4>1 DEF Prepared
    <3>2. since.expected = "real" /\ since.mask = "real"
      BY <2>1, <3>1 DEF InStep, Marked
    <3> QED
      BY <1>1, <3>2 DEF SinceKept, Stale
  <2>2. stale' => stale \/ (pc = "real" /\ Stale("masked"))
    BY <1>7 DEF Shifted
  <2> QED
    BY <2>1, <2>2 DEF Fresh
<1>13. Settled'
  <2>1. UNCHANGED <<script, commandCounter, pc>> /\ Known' = Known
    BY <1>1 DEF Known, input, counters
  <2>2. /\ lv'.data = lv.data /\ lv'.expected = lv.expected /\ SizeKept
        /\ info'.complete = info.complete
    BY <1>1, <1>7 DEF Shifted, InfoKept
  <2>3. pc = "dummy" => Zeros(lv.captured)'
    BY <1>1, <1>2, <1>5, <1>7, CapturesZeros
  <2>4. Sized(Known)' /\ Masked(Known)' /\ Compared(Known)'
    BY <2>1, <2>2, <2>3 DEF InStep, Sized, Masked, Compared, SizeKept, Holds
  <2>5. Marked(commandCounter)'
    BY <1>1, <2>1 DEF InStep, Marked, SinceKept, GivenBefore
  <2>6. (info.complete <=> commandCounter = Len(script))'
    BY <2>1, <2>2 DEF InStep
  <2> QED
    BY <2>4, <2>5, <2>6 DEF Settled
<1>14. PieceEnds \/ PieceGoesOn \/ PieceFails
  <2>1. CASE bad
    <3>1. Known.expected = Setting(script)[n].expected
      <4>1. script[c].cmd \notin ExpectCodes
        BY <1>2 DEF ExpectCodes, XSDRINC, XSDRTDO, XSDRTDOB, XSDRTDOC, XSDRTDOE
      <4> QED
        BY <1>5, <4>1, AfterIs
    <3>2. Shifted(NextPiece, "masked", TRUE)
      BY <1>7, <2>1
    <3>3. pc = "real"
      BY <1>1, <1>2, <1>4, <1>5, <3>1, <3>2, IncMismatch
    <3> QED
      BY <1>7, <2>1, <3>2, <3>3 DEF PieceFails, Shifted
  <2>2. CASE ~bad /\ more = 1
    <3>1. rest = 0 /\ L = t + size
      <4>1. rest = 0
        <5> HIDE DEF size
        <5>1. more - 1 = 0 /\ 0 * size = 0
          BY <1>6, <2>2
        <5> QED
          BY <5>1
      <4> HIDE DEF rest, t, L, size
      <4> QED
        BY <1>2, <1>6, <1>9, <4>1
    <3>2. SubSeq(d, 1, t + size) = d
      <4>1. SubSeq(d, 1, L) = d
        BY <1>8
      <4> HIDE DEF d, L, t, size
      <4> QED
        BY <3>1, <4>1
    <3>3. [cmd |-> XSDRINC, data |-> d] = script[c]
      <4>1. script[c] \in Entry
        BY <1>3, <1>4
      <4>2. script[c] = [cmd |-> script[c].cmd, data |-> script[c].data]
        BY <4>1 DEF Entry
      <4> QED
        BY <1>2, <4>2
    <3>4. executed' = IF pc = "real" THEN Append(executed, script[c]) ELSE executed
      BY <1>7, <1>10, <2>2, <3>2, <3>3
    <3>5. pos' = Len(Encoded(script)[c])
      <4> DEFINE e == Len(Encoded(script)[c])
      <4>1. pos' = pos + size /\ pos = from + 1 + t /\ e = from + 1 + L
        BY <1>2, <1>8, <1>10
      <4> HIDE DEF e, from, L, t, size
      <4> QED
        BY <1>2, <1>6, <1>8, <3>1, <4>1 DEF e
    <3>6. more' = 0 /\ (pc = "real" => info'.error = "NONE")
      BY <1>7, <2>2 DEF Shifted, Sound
    <3> QED
      BY <1>13, <3>4, <3>5, <3>6 DEF PieceEnds
  <2>3. CASE ~bad /\ more # 1
    <3>1. more' = more - 1 /\ more' \in Nat \ {0} /\ executed' = executed
          /\ (pc = "real" => info'.error = "NONE")
      BY <1>2, <1>7, <2>3 DEF Shifted, Sound
    <3>2. taken' = SubSeq(d, 1, t + size) /\ Len(taken') = t + size
      BY <1>7, <1>10, <3>1
    <3>3. UNCHANGED <<script, commandCounter>> /\ Known' = Known
      BY <1>1 DEF Known, input, counters
    <3>4. taken' = SubSeq(d, 1, Len(taken')) /\ Len(taken') \in 0 .. L
      <4>1. t + size \in 0 .. L
        <5> HIDE DEF rest, t, L, size
        <5> QED
          BY <1>2, <1>6, <1>8, <1>9
      <4> QED
        BY <3>2, <4>1
    <3>5. pos' = Len(Encoded(script)[c - 1]) + 1 + Len(taken')
      <4>1. pos' = pos + size /\ pos = from + 1 + t /\ Len(taken') = t + size
        BY <1>2, <1>10, <3>2
      <4>2. from = Len(Encoded(script)[c - 1])
        OBVIOUS
      <4> HIDE DEF from, t, size
      <4>3. t \in Nat
        BY <1>2
      <4>4. pos' = from + 1 + Len(taken')
        BY <1>6, <1>8, <4>1, <4>3
      <4> QED
        BY <4>2, <4>4
    <3>6. L = Len(taken') + more' * size
      BY <1>9, <3>1, <3>2
    <3>7. lv'.tdi.len \in Nat
      BY <1>1, <1>2, <1>7 DEF Shifted
    <3>8. Within'
      BY <1>2, <3>1, <3>3, <3>4, <3>5, <3>6, <3>7 DEF Within
    <3> QED
      BY <1>13, <3>1, <3>8 DEF PieceGoesOn
  <2> QED
    BY <2>1, <2>2, <2>3
<1> QED
  BY <1>1, <1>2, <1>4, <1>11, <1>12, <1>14

-----------------------------------------------------------------------------
(* ANY COMMAND *)

(* What every command does, whether the pass has kept step or not. *)
Moves ==
  /\ Running /\ Shape' /\ UNCHANGED <<input, totalCommandCounter>> /\ pc' \in {pc, "looping"}
  /\ pc' = "looping" => more' = 0
  /\ pc = "dummy" => executed' = executed /\ (stale' => stale)

(* Commands that shift no data, ... *)
LEMMA DoMoves ==
  ASSUME Shape, Running, NEW n, Do(n), DOMAIN info' = Fields, DOMAIN lv' = Buffers,
         DOMAIN since' = {"expected", "mask"}, info'.complete \in BOOLEAN
  PROVE  Moves /\ Fresh
<1>1. /\ UNCHANGED <<input, pc, more, totalCommandCounter, stale>>
      /\ Executed(Bytes(1, n), info'.error)
  BY DEF Do
<1>2. Shape'
  BY <1>1 DEF Shape, Running
<1>3. pc = "dummy" => executed' = executed
  BY <1>1 DEF Executed
<1> QED
  BY <1>1, <1>2, <1>3 DEF Moves, Fresh, Running

(* ... and commands that do, which keep the pass or hang. *)
LEMMA ShiftMoves ==
  ASSUME Shape, Running, NEW new, NEW judge, NEW bad \in BOOLEAN, Shifted(new, judge, bad),
         NEW n, DoShift(n), NEW data, EndShift(data, bad), DOMAIN since' = {"expected", "mask"}
  PROVE  Moves
<1>1. UNCHANGED <<input, pc, more, totalCommandCounter>> /\ (pc = "dummy" => executed' = executed)
  BY DEF DoShift, EndShift
<1>2. Shape'
  BY <1>1 DEF Shape, Running, Shifted, InfoKept, SizeKept
<1>3. stale' => stale \/ pc = "real"
  BY DEF Shifted
<1> QED
  BY <1>1, <1>2, <1>3 DEF Moves, Running

(* The commands that shift no data ... *)
ReadsOnly ==
  \/ IllegalCmd \/ DoXCOMPLETE \/ DoXTDOMASK \/ DoXSIR \/ DoXRUNTEST \/ DoXREPEAT
  \/ DoXSDRSIZE \/ DoXSETSDRMASKS \/ DoXSTATE \/ DoXENDXR \/ DoXCOMMENT \/ DoXWAIT

(* Each of them. *)
LEMMA ReadsOnlyMoves ==
  ASSUME Shape, ReadsOnly
  PROVE  Moves /\ Fresh
<1>1. ASSUME NEW n, Running, Do(n), LvKept, SinceKept, SizeKept, info'.complete \in BOOLEAN
      PROVE  Moves /\ Fresh
  BY <1>1, DoMoves DEF LvKept, SinceKept, SizeKept, Shape
<1>2. ASSUME NEW n, Running, Do(n), LvKept, SinceKept, InfoKept
      PROVE  Moves /\ Fresh
  BY <1>1, <1>2 DEF InfoKept, Shape
<1>3. CASE IllegalCmd
  BY <1>2, <1>3, IllegalCmdDoes
<1>4. CASE DoXCOMPLETE
  BY <1>1, <1>4, XCOMPLETEDoes
<1>5. CASE DoXTDOMASK
  BY <1>5, XTDOMASKDoes, DoMoves DEF LvKept, InfoKept, SizeKept, Shape
<1>6. CASE DoXSIR
  <2> DEFINE width == IF Code = XSIR THEN 1 ELSE 2
             n     == BytesOf(Number(Bytes(1, width)))
  <2>1. /\ Running /\ LvKept /\ SinceKept /\ InfoKept
        /\ Do(width) \/ Do(width + n)
    BY <1>6, XSIRDoes
  <2> HIDE DEF width, n
  <2> QED
    BY <1>2, <2>1
<1>7. CASE DoXRUNTEST
  BY <1>2, <1>7, XRUNTESTDoes
<1>8. CASE DoXREPEAT
  BY <1>2, <1>8, XREPEATDoes
<1>9. CASE DoXSDRSIZE
  <2>1. /\ Running /\ Do(4) /\ LvKept /\ SinceKept
        /\ DOMAIN info' = Fields /\ info'.complete = info.complete
    BY <1>9, XSDRSIZEDoes
  <2> QED
    BY <2>1, DoMoves DEF LvKept, SinceKept, Shape
<1>10. CASE DoXSETSDRMASKS
  BY <1>10, XSETSDRMASKSDoes, DoMoves DEF SinceKept, InfoKept, SizeKept, Shape
<1>11. CASE DoXSTATE
  BY <1>2, <1>11, XSTATEDoes
<1>12. CASE DoXENDXR
  BY <1>2, <1>12, XENDXRDoes
<1>13. CASE DoXCOMMENT
  <2>1. Running /\ LvKept /\ SinceKept /\ InfoKept
    BY <1>13, XCOMMENTDoes
  <2>2. PICK n \in CommentEnds : Do(n + 1)
    BY <1>13, XCOMMENTDoes
  <2> QED
    BY <1>2, <2>1, <2>2
<1>14. CASE DoXWAIT
  BY <1>2, <1>14, XWAITDoes
<1> QED
  BY <1>3, <1>4, <1>5, <1>6, <1>7, <1>8, <1>9, <1>10, <1>11, <1>12, <1>13, <1>14 DEF ReadsOnly

(* ... and those that do. *)
ShiftsData == DoXSDR \/ DoXSDRTDO \/ DoXSDRBCE \/ DoXSDRTDOBCE \/ DoXSDRINC

(* Each of them. *)
LEMMA ShiftsDataMoves ==
  ASSUME Shape, ShiftsData
  PROVE  Moves
<1>1. CASE DoXSDR
  <2>1. PICK bad \in BOOLEAN : Shifted(ReadTdi(N), "masked", bad) /\ EndShift(Bytes(1, N), bad)
    BY <1>1, XSDRDoes
  <2>2. Running /\ DoShift(N) /\ SinceKept
    BY <1>1, XSDRDoes
  <2> QED
    BY <2>1, <2>2, ShiftMoves DEF SinceKept, Shape
<1>2. CASE DoXSDRTDO
  <2>1. PICK bad \in BOOLEAN :
          Shifted(ReadExpected, "masked", bad) /\ EndShift(Bytes(1, 2 * N), bad)
    BY <1>2, XSDRTDODoes
  <2>2. Running /\ DoShift(2 * N) /\ DOMAIN since' = {"expected", "mask"}
    BY <1>2, XSDRTDODoes
  <2> QED
    BY <2>1, <2>2, ShiftMoves
<1>3. CASE DoXSDRBCE
  <2>1. /\ Running /\ DoShift(N) /\ SinceKept
        /\ Shifted(ReadTdi(N), "none", FALSE) /\ EndShift(Bytes(1, N), FALSE)
    BY <1>3, XSDRBCEDoes
  <2> QED
    BY <2>1, ShiftMoves DEF SinceKept, Shape
<1>4. CASE DoXSDRTDOBCE
  <2>1. PICK bad \in BOOLEAN : Shifted(ReadExpected, "plain", bad) /\ EndShift(Bytes(1, 2 * N), bad)
    BY <1>4, XSDRTDOBCEDoes
  <2>2. Running /\ DoShift(2 * N) /\ DOMAIN since' = {"expected", "mask"}
    BY <1>4, XSDRTDOBCEDoes
  <2> QED
    BY <2>1, <2>2, ShiftMoves
<1>5. CASE DoXSDRINC
  <2>1. Running /\ SinceKept /\ UNCHANGED <<input, totalCommandCounter>>
    BY <1>5, XSDRINCDoes
  <2>2. PICK bad \in BOOLEAN : Shifted(ReadTdi(N), "masked", bad)
    BY <1>5, XSDRINCDoes
  <2>3. /\ pc' \in {pc, "looping"} /\ (pc = "dummy" => executed' = executed)
        /\ (pc' = "looping" => more' = 0)
    BY <1>5, <2>1, XSDRINCDoes DEF EndShift, Running
  <2>4. Shape'
    BY <2>1, <2>2 DEF Shape, Running, Shifted, InfoKept, SizeKept, SinceKept
  <2>5. stale' => stale \/ pc = "real"
    BY <2>2 DEF Shifted
  <2> QED
    BY <2>1, <2>3, <2>4, <2>5 DEF Moves
<1> QED
  BY <1>1, <1>2, <1>3, <1>4, <1>5 DEF ShiftsData

(* A pass that keeps step goes on to do so, fails in the real pass, or hangs. *)
LEMMA StepCommand ==
  ASSUME Ready, Command
  PROVE  (Stepped \/ Begun \/ Hung) /\ Fresh
<1>1. CASE ReadsOnly
  <2>1. Stepped
    BY <1>1, StepIllegal, StepXCOMPLETE, StepXTDOMASK, StepXSIR, StepSetting, StepXSDRSIZE,
       StepXSETSDRMASKS, StepXCOMMENT DEF ReadsOnly
  <2> QED
    BY <1>1, <2>1, ReadsOnlyMoves DEF Ready
<1>2. CASE ShiftsData
  BY <1>2, StepXSDR, StepExpecting, StepXSDRBCE, StepXSDRINC DEF ShiftsData
<1> QED
  BY <1>1, <1>2 DEF Command, ReadsOnly, ShiftsData

(* Every command does. *)
LEMMA CommandMoves ==
  ASSUME Shape, Command
  PROVE  Moves
BY ReadsOnlyMoves, ShiftsDataMoves DEF Command, ReadsOnly, ShiftsData

-----------------------------------------------------------------------------
(* THE INVARIANT *)

AtStart == pos = 0 /\ more = 0 /\ Zeros(lv.captured) /\ lv.expected.len = 0

IInv ==
  /\ Given /\ Shape
  /\ pc \in {"start", "dummy", "real", "ended", "refused", "looping", "undefined"}
  /\ pc \in {"start", "dummy"} => executed = <<>> /\ ~stale
  /\ pc = "start" => AtStart
  /\ pc = "real" /\ info.error # "NONE" => more = 0 /\ ~info.complete
  /\ pc \in {"ended", "refused", "looping", "undefined"} => more = 0
  /\ Sound => InStep
  /\ Prepared => ~stale
  /\ Countable(script) /\ pc = "real" => totalCommandCounter = Len(script)

(* It holds before run() begins. *)
LEMMA InitInv == Init /\ WellFormed(script) => IInv
<1> SUFFICES ASSUME Init, WellFormed(script)
             PROVE  IInv
  OBVIOUS
<1>1. script \in Seq(Entry)
  BY PlayerAssumption DEF Init, Entry
<1>2. Given
  BY <1>1 DEF Given, Init
<1>3. Shape
  BY DEF Shape, Init, ZeroInfo, Fields
<1>4. AtStart
  <2>1. lv.captured = Zeroed /\ lv.expected = Zeroed /\ pos = 0 /\ more = 0
    BY DEF Init, Buffers
  <2> QED
    BY <2>1 DEF AtStart, Zeros, Zeroed
<1>5. pc = "start" /\ executed = <<>> /\ stale = FALSE
  BY DEF Init
<1> QED
  BY <1>2, <1>3, <1>4, <1>5 DEF IInv, Sound

(* One more command of a file. *)
LEMMA PrefixGrows ==
  ASSUME NEW S, NEW s \in Seq(S), NEW n \in 0 .. Len(s) - 1
  PROVE  /\ Append(SubSeq(s, 1, n), s[n + 1]) = SubSeq(s, 1, n + 1) /\ Len(SubSeq(s, 1, n)) = n
         /\ SubSeq(s, 1, 0) = <<>>
<1> DEFINE a == SubSeq(s, 1, n)
           w == SubSeq(s, 1, n + 1)
           x == s[n + 1]
<1>1. a \in Seq(S) /\ Len(a) = n /\ \A i \in 1 .. n : a[i] = s[i]
  OBVIOUS
<1>2. w \in Seq(S) /\ Len(w) = n + 1 /\ \A i \in 1 .. n + 1 : w[i] = s[i]
  OBVIOUS
<1>3. x \in S
  OBVIOUS
<1>4. /\ Append(a, x) \in Seq(S) /\ Len(Append(a, x)) = n + 1
      /\ \A i \in 1 .. n : Append(a, x)[i] = a[i]
      /\ Append(a, x)[n + 1] = x
  <2> HIDE DEF a, x
  <2> QED
    BY <1>1, <1>3
<1>5. \A i \in 1 .. n + 1 : Append(a, x)[i] = w[i]
  <2> TAKE i \in 1 .. n + 1
  <2>1. CASE i \in 1 .. n
    BY <1>1, <1>2, <1>4, <2>1
  <2>2. CASE i = n + 1
    BY <1>2, <1>4, <2>2
  <2> QED
    BY <2>1, <2>2
<1>6. Append(a, x) = w
  <2> DEFINE b == Append(a, x)
  <2> HIDE DEF b, a, w, x
  <2>1. b \in Seq(S) /\ w \in Seq(S) /\ Len(b) = n + 1 /\ Len(w) = n + 1
        /\ \A i \in 1 .. n + 1 : b[i] = w[i]
    BY <1>2, <1>4, <1>5 DEF b
  <2>2. b = w
    BY <2>1
  <2> QED
    BY <2>2 DEF b
<1>7. SubSeq(s, 1, 0) = <<>>
  OBVIOUS
<1> QED
  BY <1>1, <1>6, <1>7

(* Where a pass begins. *)
Begins ==
  /\ Given /\ commandCounter = 0 /\ more = 0 /\ pos = 0 /\ ~info.complete
  /\ info.shiftBits = 0 /\ info.shiftBytes = 0 /\ executed = <<>>
  /\ pc = "dummy" => Zeros(lv.captured) /\ lv.expected.len = 0

(* A pass that begins keeps step: no size is set, no mask, and nothing is expected. *)
LEMMA PassBegins == Begins => InStep
<1> SUFFICES ASSUME Begins
             PROVE  InStep
  OBVIOUS
<1> USE DEF Begins
<1>1. /\ Len(script) \in Nat \ {0} /\ script \in Seq(Entry)
      /\ \A n \in 1 .. Len(script) : script[n].cmd = XSDRSIZE => Len(script[n].data) = 4
  BY WellFormedIs DEF Given
<1>2. Known = [bits |-> 0, mask |-> <<>>, expected |-> <<>>]
  BY <1>1, SettingSteps DEF Known
<1>3. Between
  <2>1. Encoded(script)[0] = <<>>
    BY <1>1, EncodedSteps
  <2> QED
    BY <2>1 DEF Between
<1>4. Sized(Known)
  <2>1. BytesFor(0) \in Nat /\ (0 <= 0 * ByteBits => BytesFor(0) <= 0)
    BY BytesForType
  <2>2. 0 * ByteBits = 0 /\ ShortHalf \in Nat /\ ShortHalf > 0
    BY LenValAssumption
  <2>3. BytesFor(0) = 0
    BY <2>1, <2>2
  <2> QED
    BY <1>2, <2>2, <2>3 DEF Sized
<1>5. Masked(Known)
  BY <1>2 DEF Masked
<1>6. Compared(Known)
  <2>1. Len(Known.expected) = 0 /\ MaxLen \in Nat
    BY <1>2, LenValAssumption
  <2> QED
    BY <2>1 DEF Compared, Holds
<1>7. Marked(commandCounter)
  BY DEF Marked, GivenBefore
<1>8. Played
  <2>1. SubSeq(script, 1, 0) = <<>>
    BY <1>1
  <2> QED
    BY <2>1 DEF Played
<1>9. /\ commandCounter \in 0 .. Len(script) /\ (info.complete <=> commandCounter = Len(script))
  BY <1>1
<1> QED
  BY <1>3, <1>4, <1>5, <1>6, <1>7, <1>8, <1>9 DEF InStep

(* A command that keeps step leaves the invariant of the pass. *)
LEMMA SteppedKeeps ==
  ASSUME Ready, Stepped \/ Begun \/ Hung
  PROVE  Sound' => InStep'
<1>1. /\ commandCounter \in 0 .. Len(script) - 1 /\ Len(script) \in Nat /\ script \in Seq(Entry)
  BY GetsThere DEF Ready, AtCommand, Given
<1>2. more = 0 /\ (pc = "real" => executed = SubSeq(script, 1, commandCounter))
  BY DEF Ready, Running, InStep, Played
<1>3. CASE Passed /\ Settled'
  <2>1. /\ UNCHANGED <<script, pc>> /\ commandCounter' = commandCounter + 1 /\ more' = 0
        /\ commandCounter + 1 \in 0 .. Len(script)
    BY <1>1, <1>3 DEF Passed, input
  <2>2. Between'
    BY <1>3, <2>1 DEF Between, Passed
  <2>3. Played'
    <3>1. Append(SubSeq(script, 1, commandCounter), script[commandCounter + 1])
            = SubSeq(script, 1, commandCounter + 1)
      BY <1>1, PrefixGrows
    <3>2. pc = "real" => executed' = SubSeq(script, 1, commandCounter + 1)
      BY <1>2, <1>3, <3>1 DEF Passed, Current
    <3> QED
      BY <2>1, <3>2 DEF Played
  <2>4. commandCounter' \in 0 .. Len(script')
    BY <2>1
  <2> QED
    BY <1>3, <2>2, <2>3, <2>4 DEF InStep, Settled
<1>4. CASE Failed
  BY <1>4 DEF Failed, Sound
<1>5. CASE Begun
  <2>1. /\ UNCHANGED <<script, pc, executed>> /\ commandCounter' = commandCounter + 1
        /\ commandCounter + 1 \in 0 .. Len(script) /\ (commandCounter + 1) - 1 = commandCounter
    BY <1>1, <1>5 DEF Begun, input
  <2>2. Played'
    BY <1>2, <1>5, <2>1 DEF Played, Begun, Within
  <2>3. commandCounter' \in 0 .. Len(script')
    BY <2>1
  <2> QED
    BY <1>5, <2>2, <2>3 DEF InStep, Settled, Begun
<1>6. CASE Hung
  BY <1>6 DEF Hung, Sound
<1> QED
  BY <1>3, <1>4, <1>5, <1>6 DEF Stepped

(* So does a piece. *)
LEMMA PieceKeeps ==
  ASSUME Given, Shape, Sound, InStep, Piece
  PROVE  Sound' => InStep'
<1>1. /\ commandCounter \in 1 .. Len(script) /\ script[commandCounter].cmd = XSDRINC
      /\ UNCHANGED <<input, pc, counters>> /\ (PieceEnds \/ PieceGoesOn \/ PieceFails)
  BY StepPiece
<1>2. /\ UNCHANGED <<script, pc, commandCounter>> /\ script \in Seq(Entry)
      /\ commandCounter' \in 0 .. Len(script')
  BY <1>1 DEF input, counters, Given
<1>3. pc = "real" => executed = SubSeq(script, 1, commandCounter - 1)
  <2>1. more # 0
    BY DEF Piece
  <2> QED
    BY <2>1 DEF InStep, Played
<1>4. CASE PieceEnds
  <2>1. Between'
    BY <1>2, <1>4 DEF Between, PieceEnds
  <2>2. Played'
    <3> DEFINE n == commandCounter - 1
    <3>1. n \in 0 .. Len(script) - 1 /\ n + 1 = commandCounter
      BY <1>1
    <3>2. Append(SubSeq(script, 1, n), script[n + 1]) = SubSeq(script, 1, n + 1)
      <4> HIDE DEF n
      <4> QED
        BY <1>2, <3>1, PrefixGrows
    <3>3. pc = "real" => executed' = SubSeq(script, 1, commandCounter)
      BY <1>3, <1>4, <3>1, <3>2 DEF PieceEnds
    <3> QED
      BY <1>2, <1>4, <3>3 DEF Played, PieceEnds
  <2> QED
    BY <1>2, <1>4, <2>1, <2>2 DEF InStep, Settled, PieceEnds
<1>5. CASE PieceGoesOn
  <2>1. Played'
    BY <1>2, <1>3, <1>5 DEF Played, PieceGoesOn, Within
  <2> QED
    BY <1>2, <1>5, <2>1 DEF InStep, Settled, PieceGoesOn
<1>6. CASE PieceFails
  BY <1>1, <1>6 DEF PieceFails, Sound
<1> QED
  BY <1>1, <1>4, <1>5, <1>6

(* Every step keeps the invariant; a dummy pass that lost its place only moves on. *)
LEMMA NextKeeps ==
  ASSUME IInv, [Next]_vars
  PROVE  IInv'
<1>1. CASE UNCHANGED vars
  <2>1. UNCHANGED <<script, file, pos, pc, lv, info, more, commandCounter, totalCommandCounter,
                    taken, executed, since, stale>>
    BY <1>1 DEF vars, input, counters, history
  <2>2. Given' /\ Shape' /\ (Prepared' = Prepared) /\ (Countable(script)' = Countable(script))
    BY <2>1 DEF IInv, Given, Shape, Prepared, GivenBefore
  <2>3. Sound' => InStep'
    <3>1. Sound' => Sound
      BY <2>1 DEF Sound
    <3>2. InStep => InStep'
      BY <2>1 DEF InStep, Between, Within, Known, Sized, Masked, Compared, Marked, Played, Zeros,
         Holds, GivenBefore
    <3> QED
      BY <3>1, <3>2 DEF IInv
  <2> QED
    BY <2>1, <2>2, <2>3 DEF IInv, AtStart, Zeros
<1>2. CASE Command
  <2>1. Moves
    BY <1>2, CommandMoves DEF IInv
  <2>2. UNCHANGED <<script, file, totalCommandCounter>> /\ Given' /\ Shape'
        /\ (Prepared' = Prepared) /\ (Countable(script)' = Countable(script))
    BY <2>1 DEF IInv, Given, Moves, input, Prepared, GivenBefore
  <2>3. pc \in {"dummy", "real"} /\ pc' \in {pc, "looping"} /\ (pc = "real" => info.error = "NONE")
    BY <2>1 DEF Moves, Running
  <2>4. CASE Sound
    <3>1. Ready
      BY <2>1, <2>4 DEF IInv, Ready, Moves
    <3>2. (Stepped \/ Begun \/ Hung) /\ Fresh
      BY <1>2, <3>1, StepCommand
    <3>3. Sound' => InStep'
      BY <3>1, <3>2, SteppedKeeps
    <3>4. pc' = "real" /\ info'.error # "NONE" => more' = 0 /\ ~info'.complete
      <4>1. CASE Failed
        BY <4>1 DEF Failed
      <4>2. CASE Passed
        BY <4>2 DEF Passed
      <4>3. CASE Begun
        BY <4>3 DEF Begun
      <4>4. CASE Hung
        BY <4>4 DEF Hung
      <4> QED
        BY <3>2, <4>1, <4>2, <4>3, <4>4 DEF Stepped
    <3> QED
      BY <2>1, <2>2, <2>3, <3>2, <3>3, <3>4 DEF IInv, Moves, Fresh
  <2>5. CASE ~Sound
    <3>1. pc = "dummy" /\ ~Countable(script)
      BY <2>3, <2>5 DEF Sound
    <3>2. ~Sound'
      BY <2>2, <2>3, <3>1 DEF Sound
    <3> QED
      BY <2>1, <2>2, <2>3, <3>1, <3>2 DEF IInv, Moves
  <2> QED
    BY <2>4, <2>5
<1>3. CASE Piece
  <2>1. UNCHANGED <<input, pc, counters>> /\ more > 0 /\ SinceKept
    BY <1>3, PieceDoes DEF IInv
  <2>2. UNCHANGED <<script, file, pc, totalCommandCounter>> /\ Given'
        /\ (Prepared' = Prepared) /\ (Countable(script)' = Countable(script))
    BY <2>1 DEF IInv, Given, input, counters, Prepared, GivenBefore
  <2>3. PICK bad \in BOOLEAN :
          /\ Shifted(NextPiece, "masked", bad)
          /\ executed' =
               IF pc = "real" /\ ~bad /\ more = 1
               THEN Append(executed, [cmd |-> XSDRINC, data |-> taken \o Bytes(0, PieceBytes)])
               ELSE executed
    BY <1>3, PieceDoes DEF IInv
  <2>4. Shape' /\ ~info'.complete
    <3>1. ~info.complete
      BY <2>1 DEF IInv, Shape
    <3> QED
      BY <2>1, <2>3, <3>1 DEF IInv, Shape, Shifted, InfoKept, SizeKept, SinceKept
  <2>5. CASE Sound
    <3>1. PieceEnds \/ PieceGoesOn \/ PieceFails
      BY <1>3, <2>5, StepPiece DEF IInv
    <3>2. Fresh
      BY <1>3, <2>5, StepPiece DEF IInv
    <3>3. Sound' => InStep'
      BY <1>3, <2>5, PieceKeeps DEF IInv
    <3>4. pc' = "real" /\ info'.error # "NONE" => more' = 0 /\ ~info'.complete
      BY <2>2, <2>4, <3>1 DEF PieceEnds, PieceGoesOn, PieceFails
    <3>5. pc \in {"dummy", "real"}
      BY <2>5 DEF Sound
    <3>6. pc = "dummy" => executed' = executed /\ (stale' => stale)
      BY <2>3 DEF Shifted
    <3> QED
      BY <2>2, <2>4, <3>2, <3>3, <3>4, <3>5, <3>6 DEF IInv, Fresh
  <2>6. CASE ~Sound
    <3>1. more # 0
      BY <2>1
    <3>2. pc # "real"
      BY <2>6, <3>1 DEF IInv, Sound
    <3>3. ~Sound'
      BY <2>2, <2>6, <3>2 DEF Sound
    <3>4. executed' = executed /\ (stale' => stale)
      BY <2>3, <3>2 DEF Shifted
    <3>5. pc # "start" /\ pc \notin {"ended", "refused", "looping", "undefined"}
      BY <3>1 DEF IInv, AtStart
    <3> QED
      BY <2>2, <2>4, <3>2, <3>3, <3>4, <3>5 DEF IInv
  <2> QED
    BY <2>5, <2>6
<1>4. CASE Loop \/ Overrun
  <2>1. /\ UNCHANGED <<script, file, lv, info, more, totalCommandCounter, executed, since, stale>>
        /\ pc' \in {"looping", "undefined"} /\ more = 0
    BY <1>4 DEF Loop, Overrun, Running, input, counters, history
  <2>2. Given' /\ Shape' /\ (Prepared' = Prepared) /\ ~Sound'
    BY <2>1 DEF IInv, Given, Shape, Sound, Prepared, GivenBefore
  <2> QED
    BY <2>1, <2>2 DEF IInv
<1>5. CASE BeginDummy
  <2>1. /\ UNCHANGED <<script, file, pos, lv, more, executed, since, stale>>
        /\ pc = "start" /\ pc' = "dummy" /\ commandCounter' = 0 /\ info' = InfoInit
    BY <1>5 DEF BeginDummy, input, history
  <2>2. Given' /\ Shape' /\ (Prepared' = Prepared)
    BY <2>1 DEF IInv, Given, Shape, InfoInit, Fields, Prepared, GivenBefore
  <2>3. InStep'
    <3>1. /\ pos' = 0 /\ more' = 0 /\ Zeros(lv.captured)' /\ lv'.expected.len = 0
          /\ executed' = <<>>
      BY <2>1 DEF IInv, AtStart, Zeros
    <3>2. ~info'.complete /\ info'.shiftBits = 0 /\ info'.shiftBytes = 0
      BY <2>1 DEF InfoInit
    <3>3. Begins' => InStep'
      BY PassBegins, PTL
    <3> QED
      BY <2>1, <2>2, <3>1, <3>2, <3>3 DEF Begins
  <2> QED
    BY <2>1, <2>2, <2>3 DEF IInv
<1>6. CASE BeginReal
  <2>1. /\ UNCHANGED <<script, file, lv, more, executed, since, stale>>
        /\ pc = "dummy" /\ pc' = "real" /\ commandCounter' = 0 /\ info' = InfoInit /\ pos' = 0
        /\ info.complete /\ totalCommandCounter' = commandCounter
    BY <1>6 DEF BeginReal, input, history, DummyOver, Total
  <2>2. Given' /\ Shape' /\ (Prepared' = Prepared) /\ (Countable(script)' = Countable(script))
        /\ more = 0
    BY <2>1 DEF IInv, Given, Shape, InfoInit, Fields, Prepared, GivenBefore
  <2>3. InStep'
    <3>1. ~info'.complete /\ info'.shiftBits = 0 /\ info'.shiftBytes = 0
      BY <2>1 DEF InfoInit
    <3>2. Begins' => InStep'
      BY PassBegins, PTL
    <3>3. executed' = <<>>
      BY <2>1 DEF IInv
    <3> QED
      BY <2>1, <2>2, <3>1, <3>2, <3>3 DEF Begins
  <2>4. Countable(script) => totalCommandCounter' = Len(script)
    BY <2>1 DEF IInv, Sound, InStep
  <2>5. info'.error = "NONE"
    BY <2>1 DEF InfoInit
  <2> QED
    BY <2>1, <2>2, <2>3, <2>4, <2>5 DEF IInv
<1>7. CASE EndRun
  <2>1. /\ UNCHANGED <<script, file, lv, info, more, totalCommandCounter, executed, since, stale>>
        /\ pc' = "ended" /\ more = 0
    BY <1>7 DEF EndRun, input, counters, history
  <2>2. Given' /\ Shape' /\ (Prepared' = Prepared) /\ ~Sound'
    BY <2>1 DEF IInv, Given, Shape, Sound, Prepared, GivenBefore
  <2> QED
    BY <2>1, <2>2 DEF IInv
<1>8. CASE CannotOpen
  <2>1. /\ UNCHANGED <<script, file, lv, info, more, totalCommandCounter, executed, since, stale>>
        /\ pc = "start" /\ pc' = "refused"
    BY <1>8 DEF CannotOpen, input, counters, history
  <2>2. Given' /\ Shape' /\ (Prepared' = Prepared) /\ ~Sound'
    BY <2>1 DEF IInv, Given, Shape, Sound, Prepared, GivenBefore
  <2> QED
    BY <2>1, <2>2 DEF IInv, AtStart
<1> QED
  BY <1>1, <1>2, <1>3, <1>4, <1>5, <1>6, <1>7, <1>8 DEF Next, Player, Ended

-----------------------------------------------------------------------------
(* WHAT THE RUN CHECKS *)

(* The file does not change. *)
LEMMA ScriptStays == ASSUME [Next]_vars PROVE UNCHANGED script
<1>1. CASE UNCHANGED vars
  BY <1>1 DEF vars, input
<1>2. ASSUME NEW n, Do(n) PROVE UNCHANGED script
  BY <1>2 DEF Do, input
<1>3. ASSUME NEW n, DoShift(n) PROVE UNCHANGED script
  BY <1>3 DEF DoShift, input
<1>4. CASE ReadsOnly
  BY <1>2, <1>4 DEF ReadsOnly, IllegalCmd, DoXCOMPLETE, DoXTDOMASK, DoXSIR, DoXRUNTEST, DoXREPEAT,
     DoXSDRSIZE, DoXSETSDRMASKS, DoXSTATE, DoXENDXR, DoXCOMMENT, DoXWAIT
<1>5. CASE ShiftsData
  BY <1>3, <1>5 DEF ShiftsData, DoXSDR, DoXSDRTDO, DoXSDRBCE, DoXSDRTDOBCE, DoXSDRINC
<1>6. CASE Piece \/ Loop \/ Overrun \/ CannotOpen \/ BeginDummy \/ BeginReal \/ EndRun
  BY <1>6 DEF Piece, Loop, Overrun, CannotOpen, BeginDummy, BeginReal, EndRun, input
<1> QED
  BY <1>1, <1>4, <1>5, <1>6 DEF Next, Player, Command, Ended, ReadsOnly, ShiftsData

(* Both passes keep step with a well-formed file: the real one up to its first error, the *)
(* dummy one through the errors it meets, if it can count the file at all.                *)
THEOREM KeepsStep == Spec => [](WellFormed(script) => IInv)
<1> DEFINE I == WellFormed(script) => IInv
<1>1. Init => I
  BY InitInv
<1>2. I /\ [Next]_vars => I'
  <2> SUFFICES ASSUME I, [Next]_vars, WellFormed(script)'
               PROVE  IInv'
    OBVIOUS
  <2>1. WellFormed(script)
    BY ScriptStays
  <2> QED
    BY <2>1, NextKeeps
<1> QED
  BY <1>1, <1>2, PTL DEF Spec

(* Between two commands both passes stand where a command of the file begins, for files of *)
(* any length (xsvfRun).                                                                   *)
THEOREM FramesAreKept == Spec => []GoodFramingIsKept
<1>1. (WellFormed(script) => IInv) => GoodFramingIsKept
  BY DEF IInv, GoodFramingIsKept, Good, FramingIsKept, Sound, InStep, Between, Within
<1> QED
  BY <1>1, KeepsStep, PTL

(* The dummy pass has counted the commands of the file when the real pass begins *)
(* (XSVFPlayer.cpp:68).                                                          *)
THEOREM TotalsAreRight == Spec => []GoodTotalIsRight
<1>1. (WellFormed(script) => IInv) => GoodTotalIsRight
  BY DEF IInv, GoodTotalIsRight, Good, TotalIsRight
<1> QED
  BY <1>1, KeepsStep, PTL

(* A file that is well-formed stays so. *)
LEMMA WellFormedStays == Spec /\ WellFormed(script) => []WellFormed(script)
<1>1. WellFormed(script) /\ [Next]_vars => WellFormed(script)'
  BY ScriptStays
<1> QED
  BY <1>1, PTL DEF Spec

(* On a well-formed file that gives expected data and mask before it uses them, the real pass *)
(* never compares with what the dummy pass has left behind (XSVFPlayer.cpp:841).              *)
THEOREM ComparisonsAreFresh == Spec /\ WellFormed(script) => []ComparesThisPass
<1>1. (WellFormed(script) => IInv) /\ WellFormed(script) => ComparesThisPass
  BY DEF IInv, ComparesThisPass
<1> QED
  BY <1>1, KeepsStep, WellFormedStays, PTL

-----------------------------------------------------------------------------
(* NO LOOP AND NO OVERRUN *)

(* What a playable file says of the command a pass is about to read. *)
LEMMA NextIsPlayable ==
  ASSUME Ready, Playable(script)
  PROVE  /\ Current.cmd = XSTATE => Current.data[1] \in TapState
         /\ Current.cmd = XWAIT => Current.data[1] \in TapState /\ Current.data[2] \in TapState
         /\ Current.cmd \in Sizable => BytesFor(Known.bits) <= MaxLen + 1
         /\ Current.cmd = XSDRINC => Known.mask # <<>> /\ Len(Known.mask) < IndexModulus
<1> DEFINE n == commandCounter + 1
<1>1. n \in 1 .. Len(script) /\ n - 1 = commandCounter
  BY GetsThere DEF Ready, AtCommand
<1>2. script[n] = Current /\ Setting(script)[n - 1] = Known
  BY <1>1 DEF Current, Known
<1> HIDE DEF n
<1> QED
  BY <1>1, <1>2 DEF Playable

(* The bits of a data mask that is set can be counted, so no command hangs. *)
LEMMA CommandGoesOn ==
  ASSUME Ready, Playable(script), Command
  PROVE  pc' = pc
<1>1. ASSUME NEW n, Do(n) PROVE pc' = pc
  BY <1>1 DEF Do
<1>2. ASSUME NEW data, NEW bad, EndShift(data, bad) PROVE pc' = pc
  BY <1>2 DEF EndShift
<1>3. CASE ReadsOnly
  BY <1>1, <1>3 DEF ReadsOnly, IllegalCmd, DoXCOMPLETE, DoXTDOMASK, DoXSIR, DoXRUNTEST, DoXREPEAT,
     DoXSDRSIZE, DoXSETSDRMASKS, DoXSTATE, DoXENDXR, DoXCOMMENT, DoXWAIT
<1>4. CASE DoXSDR \/ DoXSDRTDO \/ DoXSDRBCE \/ DoXSDRTDOBCE
  BY <1>2, <1>4 DEF DoXSDR, DoXSDRTDO, DoXSDRBCE, DoXSDRTDOBCE
<1>5. CASE DoXSDRINC
  <2>1. Current.cmd = XSDRINC
    BY <1>5, GetsThere DEF Ready, DoXSDRINC, Is, Code
  <2>2. Known.mask # <<>> /\ Len(Known.mask) < IndexModulus
    BY <2>1, NextIsPlayable
  <2>3. lv.data.len = Len(Known.mask)
    BY <2>2 DEF Ready, InStep, Masked, Holds
  <2>4. CountEnds
    BY <2>2, <2>3 DEF CountEnds
  <2> QED
    BY <1>2, <1>5, <2>4 DEF DoXSDRINC
<1> QED
  BY <1>3, <1>4, <1>5 DEF Command, ReadsOnly

(* Targets are states, and comments end. *)
LEMMA NoLoop ==
  ASSUME Ready, Playable(script)
  PROVE  ~Loop
<1>1. Code = Current.cmd /\ Fitting(Current, Known) /\ AtCommand
  BY GetsThere DEF Ready
<1> DEFINE d == Current.data
<1>2. Len(d) \in Nat /\ \A k \in 1 .. Len(d) : ByteAt(k) = d[k]
  BY <1>1 DEF AtCommand
<1>3. CASE Code = XSTATE
  <2>1. Len(d) = 1
    BY <1>1, <1>3 DEF Fitting, XSTATE
  <2>2. ByteAt(1) = d[1] /\ d[1] \in TapState
    BY <1>1, <1>2, <1>3, <2>1, NextIsPlayable
  <2> QED
    BY <1>3, <2>2 DEF Loop, XSTATE, XWAIT, XCOMMENT
<1>4. CASE Code = XWAIT
  <2>1. Len(d) = 6
    BY <1>1, <1>4 DEF Fitting, XWAIT
  <2>2. /\ ByteAt(1) = d[1] /\ d[1] \in TapState
        /\ ByteAt(2) = d[2] /\ d[2] \in TapState
    BY <1>1, <1>2, <1>4, <2>1, NextIsPlayable
  <2> QED
    BY <1>4, <2>2 DEF Loop, XSTATE, XWAIT, XCOMMENT
<1>5. CASE Code = XCOMMENT
  <2>1. Len(d) \in Nat \ {0} /\ d[Len(d)] = 0
    BY <1>1, <1>2, <1>5 DEF Fitting, XCOMMENT
  <2> DEFINE n == Len(d) - 1
  <2>2. n \in 0 .. Len(file) - pos - 2 /\ n + 1 \in 1 .. Len(d) /\ n + 1 = Len(d)
    <3>1. pos \in Nat /\ Len(file) \in Nat /\ pos + 1 + Len(d) <= Len(file)
      BY <1>1 DEF AtCommand
    <3> DEFINE size == Len(d)
               all == Len(file)
    <3>2. /\ size \in Nat \ {0} /\ all \in Nat /\ pos \in Nat /\ pos + 1 + size <= all
          /\ n = size - 1
      BY <2>1, <3>1
    <3> HIDE DEF size, all, n
    <3>3. n \in 0 .. all - pos - 2 /\ n + 1 \in 1 .. size /\ n + 1 = size
      BY <3>2
    <3> QED
      BY <3>3 DEF size, all
  <2>3. ByteAt(n + 1) = 0
    BY <1>2, <2>1, <2>2
  <2>4. n \in CommentEnds
    <3> HIDE DEF n
    <3> QED
      BY <2>2, <2>3 DEF CommentEnds
  <2> QED
    BY <1>5, <2>4 DEF Loop, XSTATE, XWAIT, XCOMMENT
<1>6. CASE Code \notin {XSTATE, XWAIT, XCOMMENT}
  BY <1>6 DEF Loop
<1> QED
  BY <1>3, <1>4, <1>5, <1>6

(* What has the size of the shift fits the buffers. *)
LEMMA NoOverrun ==
  ASSUME Ready, Playable(script)
  PROVE  ~Overrun
<1> SUFFICES ASSUME Code \in Sizable PROVE Fits
  BY DEF Overrun, Sizable, Fits
<1>1. Code = Current.cmd /\ Known \in SettingType
  BY GetsThere DEF Ready
<1>2. BytesFor(Known.bits) <= MaxLen + 1
  BY <1>1, NextIsPlayable
<1>3. info.shiftBits = Known.bits /\ info.shiftBytes = BytesFor(Known.bits) /\ Known.bits \in Nat
  BY <1>1 DEF Ready, InStep, Sized, SettingType
<1>4. BytesFor(Known.bits) \in Nat /\ Known.bits <= BytesFor(Known.bits) * ByteBits
  BY <1>3, BytesForType
<1>5. MaxLen \in Nat /\ ByteBits \in Nat
  BY BaseType
<1> DEFINE b == BytesFor(Known.bits)
<1> HIDE DEF b
<1>6. b \in 0 .. MaxLen + 1 /\ b * ByteBits = ByteBits * b
  BY <1>2, <1>4, <1>5 DEF b
<1> QED
  BY <1>3, <1>4, <1>6 DEF Fits, BytesFit, b

(* On a file that is playable, well-formed and countable neither pass of run() gets stuck in a *)
(* loop or leaves a buffer, whatever the chain answers.                                       *)
THEOREM NothingIsStuck == Spec => []NeverStuck
<1> DEFINE I == WellFormed(script) => IInv
<1>1. Init => NeverStuck
  BY DEF Init, NeverStuck
<1>2. I /\ NeverStuck /\ [Next]_vars => NeverStuck'
  <2> SUFFICES ASSUME I, NeverStuck, [Next]_vars, Good', Playable(script)'
               PROVE  pc' \notin {"looping", "undefined"}
    BY DEF NeverStuck
  <2>1. UNCHANGED script
    BY ScriptStays
  <2>2. Good /\ Playable(script)
    BY <2>1 DEF Good
  <2>3. IInv /\ Countable(script) /\ pc \notin {"looping", "undefined"}
    BY <2>2 DEF Good, NeverStuck
  <2>4. Running => Ready
    BY <2>3 DEF Running, Ready, Sound, IInv
  <2>5. CASE Command
    <3>1. Running
      BY <2>3, <2>5, CommandMoves DEF IInv, Moves
    <3> QED
      BY <2>2, <2>3, <2>4, <2>5, <3>1, CommandGoesOn
  <2>6. CASE Loop \/ Overrun
    <3>1. Running
      BY <2>6 DEF Loop, Overrun
    <3> QED
      BY <2>2, <2>4, <2>6, <3>1, NoLoop, NoOverrun
  <2>7. CASE Piece \/ UNCHANGED vars \/ Ended
    BY <2>3, <2>7 DEF Piece, vars, Ended
  <2>8. CASE CannotOpen \/ BeginDummy \/ BeginReal \/ EndRun
    BY <2>8 DEF CannotOpen, BeginDummy, BeginReal, EndRun
  <2> QED
    BY <2>5, <2>6, <2>7, <2>8 DEF Next, Player
<1> QED
  BY <1>1, <1>2, KeepsStep, PTL DEF Spec

-----------------------------------------------------------------------------
(* THE ABSTRACT SPECIFICATION *)

Outcome ==
  IF pc = "refused" THEN "refused"
  ELSE IF pc \notin {"real", "ended"} THEN "playing"
  ELSE IF info.error # "NONE" THEN "failed"
  ELSE IF info.complete THEN "complete" ELSE "playing"

(* The codes are the same in both specifications. *)
LEMMA SameCodes ==
  Play!XCOMPLETE = XCOMPLETE /\ \A code : CanFail(code) => Play!CanFail(code)
BY DEF
    CanFail, Illegal, XLASTCMD, XCOMPLETE, XSIR, XSIR2, XSDRSIZE, XSDR, XSDRTDO, XSDRINC,
    XSDRTDOB, XSDRTDOC, XSDRTDOE, XSTATE, XENDIR, XENDDR, Play!CanFail, Play!Illegal,
    Play!XLASTCMD, Play!XCOMPLETE, Play!XSIR, Play!XSIR2, Play!XSDRSIZE, Play!XSDR,
    Play!XSDRTDO, Play!XSDRINC, Play!XSDRTDOB, Play!XSDRTDOC, Play!XSDRTDOE, Play!XSTATE,
    Play!XENDIR, Play!XENDDR

(* Between two commands, or two pieces, of the real pass. *)
LEMMA CommandPlays ==
  ASSUME IInv, Command, pc = "real"
  PROVE  [Play!Next]_(Play!vars)
<1>1. Moves
  BY CommandMoves DEF IInv
<1>2. Ready
  BY <1>1 DEF IInv, Ready, Sound, Moves, Running
<1>3. Stepped \/ Begun \/ Hung
  BY <1>2, StepCommand
<1> DEFINE c == commandCounter
<1>4. /\ c \in 0 .. Len(script) - 1 /\ Len(script) \in Nat /\ script \in Seq(Entry)
      /\ (Current.cmd = XCOMPLETE <=> c + 1 = Len(script))
  BY <1>2, GetsThere DEF Ready, AtCommand, Given
<1>5. executed = SubSeq(script, 1, c) /\ Len(executed) = c
  BY <1>2, <1>4, PrefixGrows DEF Ready, Running, InStep, Played
<1>6. script[Len(executed) + 1] = Current /\ Len(executed) < Len(script)
  BY <1>4, <1>5 DEF Current
<1>7. UNCHANGED script /\ info.error = "NONE" /\ ~info.complete
  BY <1>1 DEF Moves, Running, input
<1>8. Outcome = "playing"
  BY <1>7 DEF Outcome
<1>13. Play!Playing /\ Play!Command = Current
  BY <1>6, <1>8 DEF Outcome, Play!Playing, Play!Command
<1>9. CASE Passed /\ Settled'
  <2>1. /\ executed' = Append(executed, Current) /\ pc' = "real" /\ info'.error = "NONE"
        /\ c' = c + 1
    BY <1>9 DEF Passed
  <2>2. info'.complete <=> Current.cmd = XCOMPLETE
    BY <1>4, <1>7, <1>9, <2>1 DEF Settled
  <2>3. CASE Current.cmd = XCOMPLETE
    <3>1. Play!Complete
      BY <1>7, <1>13, <2>1, <2>2, <2>3, SameCodes DEF Play!Complete
    <3> QED
      BY <3>1 DEF Play!Next
  <2>4. CASE Current.cmd # XCOMPLETE
    <3>1. Play!Play
      BY <1>7, <1>13, <2>1, <2>2, <2>4, <1>9, SameCodes DEF Play!Play, Passed
    <3> QED
      BY <3>1 DEF Play!Next
  <2> QED
    BY <2>3, <2>4
<1>10. CASE Failed
  <2>1. Play!Fail
    BY <1>7, <1>10, <1>13, SameCodes DEF Failed, Play!Fail
  <2> QED
    BY <2>1 DEF Play!Next
<1>11. CASE Begun
  <2>1. /\ executed' = executed /\ pc' = "real" /\ info'.error = "NONE" /\ c' = c + 1
        /\ Current.cmd = XSDRINC
    <3>1. script'[commandCounter'] = Current
      BY <1>7, <1>11 DEF Begun, Current
    <3> QED
      BY <1>11, <3>1 DEF Begun, Within
  <2>2. Current.cmd # XCOMPLETE
    BY <2>1 DEF XSDRINC, XCOMPLETE
  <2>3. ~info'.complete
    BY <1>4, <1>7, <1>11, <2>1, <2>2 DEF Settled, Begun
  <2> QED
    BY <1>7, <2>1, <2>3 DEF Play!vars
<1>12. CASE Hung
  BY <1>7, <1>12 DEF Hung, Play!vars
<1> QED
  BY <1>3, <1>9, <1>10, <1>11, <1>12 DEF Stepped

(* A piece of the real pass carries its command out, or goes on, or fails. *)
LEMMA PiecePlays ==
  ASSUME IInv, Piece, pc = "real"
  PROVE  [Play!Next]_(Play!vars)
<1>1. info.error = "NONE" /\ Sound /\ InStep
  <2>1. more # 0
    BY DEF Piece
  <2> QED
    BY <2>1 DEF IInv, Sound
<1>2. /\ commandCounter \in 1 .. Len(script) /\ script[commandCounter].cmd = XSDRINC
      /\ UNCHANGED <<input, pc, counters>> /\ ~info.complete /\ ~info'.complete
      /\ (PieceEnds \/ PieceGoesOn \/ PieceFails)
  BY <1>1, StepPiece DEF IInv
<1> DEFINE n == commandCounter - 1
<1>3. UNCHANGED <<script, pc>> /\ script \in Seq(Entry)
  BY <1>2 DEF input, IInv, Given
<1>4. n \in 0 .. Len(script) - 1 /\ n + 1 = commandCounter
  BY <1>2
<1>5. executed = SubSeq(script, 1, n) /\ Len(executed) = n
  <2>1. more # 0
    BY DEF Piece
  <2>2. executed = SubSeq(script, 1, n)
    BY <1>1, <2>1 DEF InStep, Played
  <2> HIDE DEF n
  <2> QED
    BY <1>3, <1>4, <2>2, PrefixGrows
<1>6. script[Len(executed) + 1] = script[commandCounter] /\ Len(executed) < Len(script)
  BY <1>4, <1>5
<1>7. XSDRINC # XCOMPLETE /\ CanFail(XSDRINC)
  BY DEF XSDRINC, XCOMPLETE, CanFail
<1>11. Play!Playing /\ Play!Command = script[commandCounter]
  BY <1>1, <1>2, <1>6 DEF Play!Playing, Play!Command
<1>8. CASE PieceEnds
  <2>1. Play!Play
    BY <1>1, <1>2, <1>3, <1>7, <1>8, <1>11, SameCodes DEF PieceEnds, Play!Play
  <2> QED
    BY <2>1 DEF Play!Next
<1>9. CASE PieceGoesOn
  BY <1>1, <1>2, <1>3, <1>9 DEF PieceGoesOn, Play!vars
<1>10. CASE PieceFails
  <2>1. Play!Fail
    BY <1>1, <1>2, <1>3, <1>7, <1>10, <1>11, SameCodes DEF PieceFails, Play!Fail
  <2> QED
    BY <2>1 DEF Play!Next
<1> QED
  BY <1>2, <1>8, <1>9, <1>10

(* Every other step is hidden, the whole dummy pass included. *)
LEMMA StepPlays ==
  ASSUME IInv, [Next]_vars
  PROVE  [Play!Next]_(Play!vars)
<1>1. CASE UNCHANGED vars
  BY <1>1 DEF vars, input, history, Play!vars
<1>2. CASE Command
  <2>1. Moves
    BY <1>2, CommandMoves DEF IInv
  <2>2. CASE pc = "real"
    BY <1>2, <2>2, CommandPlays
  <2>3. CASE pc # "real"
    <3>1. pc = "dummy" /\ pc' \in {"dummy", "looping"} /\ executed' = executed /\ script' = script
      BY <2>1, <2>3 DEF Moves, Running, input
    <3> QED
      BY <3>1 DEF Play!vars
  <2> QED
    BY <2>2, <2>3
<1>3. CASE Piece
  <2>1. CASE pc = "real"
    BY <1>3, <2>1, PiecePlays
  <2>2. CASE pc # "real"
    <3>1. more # 0 /\ UNCHANGED <<script, pc>> /\ executed' = executed
      BY <1>3, <2>2 DEF Piece, input
    <3>2. pc # "ended"
      BY <3>1 DEF IInv
    <3> QED
      BY <2>2, <3>1, <3>2 DEF Play!vars
  <2> QED
    BY <2>1, <2>2
<1>4. CASE Loop \/ Overrun
  <2>1. /\ UNCHANGED <<script, info, executed>> /\ pc' \in {"looping", "undefined"} /\ Running
    BY <1>4 DEF Loop, Overrun, input, history
  <2>2. pc \in {"dummy", "real"} /\ ~info.complete /\ (pc = "real" => info.error = "NONE")
    BY <2>1 DEF Running
  <2> QED
    BY <2>1, <2>2 DEF Play!vars
<1>5. CASE BeginDummy
  BY <1>5 DEF BeginDummy, input, history, Play!vars
<1>6. CASE BeginReal
  BY <1>6 DEF BeginReal, input, history, InfoInit, Play!vars
<1>7. CASE EndRun
  BY <1>7 DEF EndRun, input, history, Play!vars
<1>8. CASE CannotOpen
  <2>1. pc = "start" /\ pc' = "refused" /\ UNCHANGED <<script, executed>> /\ executed = <<>>
    BY <1>8 DEF CannotOpen, input, history, IInv
  <2>2. Play!Refuse
    BY <2>1 DEF Play!Refuse
  <2> QED
    BY <2>2 DEF Play!Next
<1> QED
  BY <1>1, <1>2, <1>3, <1>4, <1>5, <1>6, <1>7, <1>8 DEF Next, Player, Ended

(* run() implements XsvfScript on every well-formed file: each command once, in order and with *)
(* its own data, up to XCOMPLETE or the first that fails.                                      *)
THEOREM PlaysTheScript == Spec /\ WellFormed(script) => ImplementsScript
<1>1. Init => Play!Init
  BY DEF Init, Play!Init
<1>2. IInv /\ [Next]_vars => [Play!Next]_(Play!vars)
  BY StepPlays
<1> QED
  BY <1>1, <1>2, KeepsStep, WellFormedStays, PTL DEF Spec, ImplementsScript, Play!Spec
===============================================================================
