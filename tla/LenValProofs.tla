------------------------------ MODULE LenValProofs ------------------------------
(***************************************************************************)
(* Facts about numbers, their bits and lenVal, for bytes and values of     *)
(* every size: what the recursive functions of LenVal compute is proved    *)
(* here by induction, and what is done with it in the proofs about the     *)
(* components that keep their data in a lenVal.                            *)
(***************************************************************************)
EXTENDS LenVal, WellFoundedInduction, TLAPS

-----------------------------------------------------------------------------
(* INDUCTION *)

(* A set of numbers that holds 0 and with every number the next one holds them all: the set *)
(* takes the place of the operator of NatInduction.                                          *)
LEMMA NatSets ==
  ASSUME NEW S, 0 \in S, \A n \in Nat : n \in S => n + 1 \in S
  PROVE  Nat \subseteq S
<1> DEFINE T == Nat \ S
           R == OpToRel(<, Nat)
<1>1. SUFFICES ASSUME T # {} PROVE FALSE
  OBVIOUS
<1>2. PICK x \in T : \A y \in T : <<y, x>> \notin R
  <2>1. IsWellFoundedOn(R, Nat)
    BY NatLessThanWellFounded
  <2>2. T \subseteq Nat
    OBVIOUS
  <2> HIDE DEF R, T
  <2> QED
    BY <1>1, <2>1, <2>2, WFMin
<1>3. x \in Nat /\ x \notin S /\ x - 1 \in Nat /\ (x - 1) + 1 = x
  OBVIOUS
<1>4. <<x - 1, x>> \in R
  BY <1>3 DEF OpToRel
<1> HIDE DEF R, T
<1>5. x - 1 \notin T
  BY <1>2, <1>4
<1>6. x - 1 \in S
  BY <1>3, <1>5 DEF T
<1> QED
  BY <1>3, <1>6

(* A function starts with c and goes on by steps. *)
Iterates(f, T, c, step) ==
  /\ f \in [Nat -> T]
  /\ f[0] = c
  /\ \A n \in Nat : f[n + 1] = step[<<n, f[n]>>]

(* There is one for every first value and step. *)
LEMMA PrimitiveRecursion ==
  ASSUME NEW T, NEW c \in T, NEW step \in [Nat \X T -> T]
  PROVE  \E f : Iterates(f, T, c, step)
<1> DEFINE Starts(g, n) == /\ g \in [0 .. n -> T]
                           /\ g[0] = c
                           /\ \A i \in 0 .. n - 1 : g[i + 1] = step[<<i, g[i]>>]
           S == {n \in Nat : \E g \in [0 .. n -> T] : Starts(g, n)}
           G(n) == CHOOSE g : Starts(g, n)
<1>1. Nat \subseteq S
  <2>1. 0 \in S
    <3>1. Starts([i \in 0 .. 0 |-> c], 0)
      OBVIOUS
    <3> QED
      BY <3>1
  <2>2. ASSUME NEW n \in Nat, n \in S PROVE n + 1 \in S
    <3>1. PICK g \in [0 .. n -> T] : Starts(g, n)
      BY <2>2
    <3> DEFINE h == [i \in 0 .. n + 1 |-> IF i = n + 1 THEN step[<<n, g[n]>>] ELSE g[i]]
    <3>2. h \in [0 .. n + 1 -> T]
      <4>1. \A i \in 0 .. n : g[i] \in T
        BY <3>1
      <4>2. step[<<n, g[n]>>] \in T
        BY <4>1
      <4> QED
        BY <4>1, <4>2
    <3>3. h[0] = c
      BY <3>1
    <3>4. ASSUME NEW i \in 0 .. (n + 1) - 1 PROVE h[i + 1] = step[<<i, h[i]>>]
      <4>1. h[i] = g[i] /\ i + 1 \in 0 .. n + 1
        OBVIOUS
      <4>2. CASE i = n
        BY <4>1, <4>2
      <4>3. CASE i < n
        <5>1. h[i + 1] = g[i + 1] /\ i \in 0 .. n - 1
          BY <4>3
        <5>2. g[i + 1] = step[<<i, g[i]>>]
          BY <3>1, <5>1
        <5> QED
          BY <4>1, <5>1, <5>2
      <4> QED
        BY <4>2, <4>3
    <3>5. Starts(h, n + 1)
      BY <3>2, <3>3, <3>4
    <3>6. \E k \in [0 .. n + 1 -> T] : Starts(k, n + 1)
      <4> HIDE DEF h, Starts
      <4> QED
        BY <3>2, <3>5
    <3> QED
      BY <3>6
  <2> HIDE DEF S
  <2> QED
    BY <2>1, <2>2, NatSets
<1>2. \A n \in Nat : Starts(G(n), n)
  <2> SUFFICES ASSUME NEW n \in Nat PROVE Starts(G(n), n)
    OBVIOUS
  <2>1. \E g : Starts(g, n)
    BY <1>1
  <2> HIDE DEF Starts
  <2> QED
    BY <2>1
<1>3. \A n \in Nat : \A i \in 0 .. n : G(n)[i] = G(i)[i]
  <2> DEFINE A == {i \in Nat : \A n \in Nat : i <= n => G(n)[i] = G(i)[i]}
  <2> HIDE DEF G
  <2>1. 0 \in A
    BY <1>2
  <2>2. ASSUME NEW i \in Nat, i \in A PROVE i + 1 \in A
    <3> SUFFICES ASSUME NEW n \in Nat, i + 1 <= n PROVE G(n)[i + 1] = G(i + 1)[i + 1]
      OBVIOUS
    <3>1. G(n)[i + 1] = step[<<i, G(n)[i]>>]
      BY <1>2
    <3>2. G(i + 1)[i + 1] = step[<<i, G(i + 1)[i]>>]
      BY <1>2
    <3>3. G(n)[i] = G(i)[i] /\ G(i + 1)[i] = G(i)[i]
      BY <2>2
    <3> QED
      BY <3>1, <3>2, <3>3
  <2>3. Nat \subseteq A
    <3> HIDE DEF A
    <3> QED
      BY <2>1, <2>2, NatSets
  <2> QED
    BY <2>3
<1> DEFINE f == [n \in Nat |-> G(n)[n]]
<1> HIDE DEF G
<1>4. f \in [Nat -> T]
  BY <1>2
<1>5. f[0] = c
  BY <1>2
<1>6. ASSUME NEW n \in Nat PROVE f[n + 1] = step[<<n, f[n]>>]
  <2>1. G(n + 1)[n + 1] = step[<<n, G(n + 1)[n]>>]
    BY <1>2
  <2>2. G(n + 1)[n] = G(n)[n]
    BY <1>3
  <2> QED
    BY <2>1, <2>2
<1> QED
  BY <1>4, <1>5, <1>6 DEF Iterates

-----------------------------------------------------------------------------
(* POWERS OF TWO *)

(* The powers of two are those the recursion says. *)
LEMMA Powers ==
  /\ Pow2 \in [Nat -> Nat \ {0}]
  /\ Pow2[0] = 1
  /\ \A n \in Nat : Pow2[n + 1] = 2 * Pow2[n]
<1> DEFINE Is(g) == g = [n \in Nat |-> IF n = 0 THEN 1 ELSE 2 * g[n - 1]]
           T == Nat \ {0}
           step == [p \in Nat \X T |-> 2 * p[2]]
<1>1. step \in [Nat \X T -> T] /\ 1 \in T
  OBVIOUS
<1>2. PICK f \in [Nat -> T] : f[0] = 1 /\ \A n \in Nat : f[n + 1] = step[<<n, f[n]>>]
  <2>1. \E f : Iterates(f, T, 1, step)
    <3> HIDE DEF step, T
    <3> QED
      BY <1>1, PrimitiveRecursion
  <2> QED
    BY <2>1 DEF Iterates
<1>3. \A n \in Nat : f[n + 1] = 2 * f[n]
  BY <1>2
<1>4. Is(f)
  <2>1. ASSUME NEW n \in Nat PROVE f[n] = IF n = 0 THEN 1 ELSE 2 * f[n - 1]
    <3>1. CASE n # 0
      <4>1. n - 1 \in Nat /\ (n - 1) + 1 = n
        BY <3>1
      <4> QED
        BY <1>3, <3>1, <4>1
    <3> QED
      BY <1>2, <3>1
  <2> QED
    BY <2>1
<1>5. Is(Pow2)
  <2>1. Pow2 = CHOOSE g : Is(g)
    BY DEF Pow2
  <2> HIDE DEF Is
  <2> QED
    BY <1>4, <2>1
<1>6. Pow2[0] = 1 /\ \A n \in Nat : Pow2[n + 1] = 2 * Pow2[n]
  BY <1>5
<1>7. \A n \in Nat : Pow2[n] \in Nat \ {0}
  <2> DEFINE A == {n \in Nat : Pow2[n] \in Nat \ {0}}
  <2>1. 0 \in A /\ \A n \in Nat : n \in A => n + 1 \in A
    BY <1>6
  <2>2. Nat \subseteq A
    <3> HIDE DEF A
    <3> QED
      BY <2>1, NatSets
  <2> QED
    BY <2>2
<1>8. Pow2 = [n \in Nat |-> Pow2[n]]
  BY <1>5
<1> QED
  BY <1>6, <1>7, <1>8

(* They multiply ... *)
LEMMA PowerOfSum == \A m, n \in Nat : Pow2[m + n] = Pow2[m] * Pow2[n]
<1> SUFFICES ASSUME NEW m \in Nat PROVE \A n \in Nat : Pow2[m + n] = Pow2[m] * Pow2[n]
  OBVIOUS
<1> DEFINE A == {n \in Nat : Pow2[m + n] = Pow2[m] * Pow2[n]}
<1>1. 0 \in A
  BY Powers
<1>2. ASSUME NEW n \in Nat, n \in A PROVE n + 1 \in A
  <2>1. Pow2[m + (n + 1)] = 2 * Pow2[m + n] /\ Pow2[n + 1] = 2 * Pow2[n]
    <3>1. m + (n + 1) = (m + n) + 1 /\ m + n \in Nat
      OBVIOUS
    <3> QED
      BY <3>1, Powers
  <2>2. Pow2[m] \in Nat /\ Pow2[n] \in Nat
    BY Powers
  <2> DEFINE x == Pow2[m]
             y == Pow2[n]
  <2>3. 2 * (x * y) = x * (2 * y)
    <3> HIDE DEF x, y
    <3> QED
      BY <2>2 DEF x, y
  <2> QED
    BY <1>2, <2>1, <2>3
<1>3. Nat \subseteq A
  <2> HIDE DEF A
  <2> QED
    BY <1>1, <1>2, NatSets
<1> QED
  BY <1>3

(* ... and grow with the exponent. *)
LEMMA PowersGrow == ASSUME NEW n \in Nat, NEW m \in 0 .. n PROVE Pow2[m] <= Pow2[n]
<1>1. n - m \in Nat /\ m + (n - m) = n /\ m \in Nat
  OBVIOUS
<1> DEFINE x == Pow2[m]
           y == Pow2[n - m]
<1>2. x \in Nat \ {0} /\ y \in Nat \ {0} /\ Pow2[n] = x * y
  BY <1>1, Powers, PowerOfSum
<1> HIDE DEF x, y
<1>3. x * y >= x
  BY <1>2
<1> QED
  BY <1>2, <1>3 DEF x

-----------------------------------------------------------------------------
(* QUOTIENTS AND BITS *)

(* What the provers have to be told of a division. *)
LEMMA Division ==
  ASSUME NEW n \in Int, NEW m \in Nat \ {0}
  PROVE  n % m \in 0 .. m - 1 /\ n \div m \in Int /\ n = m * (n \div m) + (n % m)
OBVIOUS

(* Quotient and remainder are determined by what they make. *)
LEMMA Quotient ==
  ASSUME NEW m \in Nat \ {0}, NEW q \in Int, NEW r \in 0 .. m - 1
  PROVE  (m * q + r) \div m = q /\ (m * q + r) % m = r
<1> DEFINE n == m * q + r
           d == (n \div m) - q
           s == n % m
<1>1. n \in Int
  OBVIOUS
<1>2. s \in 0 .. m - 1 /\ n \div m \in Int /\ n = m * (n \div m) + s
  BY <1>1, Division
<1>3. m * d = r - s /\ d \in Int
  BY <1>2
<1>4. d = 0
  <2> HIDE DEF d, s
  <2>1. CASE d >= 1
    <3>1. m * d >= m
      BY <1>3, <2>1
    <3> QED
      BY <1>2, <1>3, <3>1
  <2>2. CASE d <= -1
    <3>1. m * d <= -m
      BY <1>3, <2>2
    <3> QED
      BY <1>2, <1>3, <3>1
  <2> QED
    BY <1>3, <2>1, <2>2
<1> QED
  BY <1>2, <1>3, <1>4

(* The same of natural numbers. *)
LEMMA NatQuotient ==
  ASSUME NEW n \in Nat, NEW m \in Nat \ {0}
  PROVE  n \div m \in Nat /\ n % m \in 0 .. m - 1 /\ n = m * (n \div m) + (n % m)
<1>1. n \div m \in Int /\ n % m \in 0 .. m - 1 /\ n = m * (n \div m) + (n % m)
  BY Division
<1> DEFINE q == n \div m
<1>2. q >= 0
  <2> SUFFICES ASSUME q <= -1 PROVE FALSE
    BY <1>1
  <2>1. m * q <= -m
    <3>1. q \in Int
      BY <1>1
    <3> HIDE DEF q
    <3> QED
      BY <3>1
  <2> QED
    BY <1>1, <2>1
<1> QED
  BY <1>1, <1>2

(* A bit is 0 or 1, ... *)
LEMMA BitType == ASSUME NEW n \in Nat, NEW i \in Nat PROVE Bit(n, i) \in {0, 1}
<1>1. Pow2[i] \in Nat \ {0}
  BY Powers
<1>2. n \div Pow2[i] \in Nat
  BY <1>1, NatQuotient
<1> QED
  BY <1>2 DEF Bit

(* ... and such a number is its own bit 0. *)
LEMMA BitOfBit == ASSUME NEW b \in {0, 1} PROVE Bit(b, 0) = b
<1>1. b \div 1 = b /\ b % 2 = b
  OBVIOUS
<1> QED
  BY <1>1, Powers DEF Bit

(* The bits of a number are those of its lower and of its upper part. *)
LEMMA BitsOfParts ==
  ASSUME NEW q \in Nat, NEW m \in Nat, NEW r \in 0 .. Pow2[m] - 1, NEW i \in Nat
  PROVE  Bit(Pow2[m] * q + r, i) = IF i < m THEN Bit(r, i) ELSE Bit(q, i - m)
<1> DEFINE M == Pow2[m]
           P == Pow2[i]
           n == M * q + r
<1>1. M \in Nat \ {0} /\ P \in Nat \ {0} /\ r \in Nat
  BY Powers
<1>2. CASE i < m
  <2> DEFINE K == Pow2[m - (i + 1)]
             a == r \div P
             b == r % P
  <2>1. K \in Nat \ {0} /\ M = (2 * P) * K
    <3>1. m - (i + 1) \in Nat /\ i + 1 \in Nat /\ (i + 1) + (m - (i + 1)) = m
      BY <1>2
    <3>2. Pow2[(i + 1) + (m - (i + 1))] = Pow2[i + 1] * Pow2[m - (i + 1)]
      BY <3>1, PowerOfSum
    <3>3. Pow2[i + 1] = 2 * Pow2[i]
      BY Powers
    <3>4. Pow2[m - (i + 1)] \in Nat \ {0}
      BY <3>1, Powers
    <3> QED
      BY <3>1, <3>2, <3>3, <3>4
  <2>2. a \in Nat /\ b \in 0 .. P - 1 /\ r = P * a + b
    BY <1>1, NatQuotient
  <2>3. n = P * (2 * (K * q) + a) + b
    <3> HIDE DEF M, P, K, a, b
    <3>1. M * q = P * (2 * (K * q))
      BY <1>1, <2>1
    <3>2. K * q \in Nat
      BY <2>1
    <3> DEFINE kq == K * q
    <3> HIDE DEF kq
    <3>3. P * (2 * kq + a) = P * (2 * kq) + P * a
      BY <1>1, <2>2, <3>2 DEF kq
    <3> QED
      BY <1>1, <2>2, <3>1, <3>3 DEF kq
  <2>4. n \div P = 2 * (K * q) + a
    <3>1. 2 * (K * q) + a \in Int
      BY <2>1, <2>2
    <3> HIDE DEF M, P, K, a, b, n
    <3> QED
      BY <1>1, <2>2, <2>3, <3>1, Quotient
  <2>5. (2 * (K * q) + a) % 2 = a % 2
    <3>1. K * q \in Nat
      BY <2>1
    <3> DEFINE kq == K * q
    <3> HIDE DEF kq, a
    <3> QED
      BY <2>2, <3>1 DEF kq
  <2> QED
    BY <1>2, <2>4, <2>5 DEF Bit
<1>3. CASE i >= m
  <2> DEFINE L == Pow2[i - m]
             a == q \div L
             b == q % L
  <2>1. L \in Nat \ {0} /\ P = M * L
    <3>1. i - m \in Nat /\ m + (i - m) = i
      BY <1>3
    <3> QED
      BY <3>1, Powers, PowerOfSum
  <2>2. a \in Nat /\ b \in 0 .. L - 1 /\ q = L * a + b
    BY <2>1, NatQuotient
  <2>3. M * b + r \in 0 .. P - 1
    <3> HIDE DEF M, P, L, a, b
    <3>1. M * b <= M * (L - 1)
      BY <1>1, <2>1, <2>2
    <3>2. M * b >= 0
      BY <1>1, <2>2
    <3>3. M * (L - 1) = P - M
      BY <1>1, <2>1
    <3>4. M * b \in Int
      BY <1>1, <2>2
    <3> QED
      BY <1>1, <3>1, <3>2, <3>3, <3>4 DEF M
  <2>4. n = P * a + (M * b + r)
    <3> HIDE DEF M, P, L, a, b
    <3>1. M * (L * a + b) = (M * L) * a + M * b
      BY <1>1, <2>1, <2>2
    <3> QED
      BY <1>1, <2>1, <2>2, <3>1
  <2>5. n \div P = a
    <3> HIDE DEF P, a, n
    <3>1. n = P * a + (M * b + r) /\ M * b + r \in 0 .. P - 1
      BY <2>3, <2>4
    <3> DEFINE rest == M * b + r
    <3> HIDE DEF rest
    <3> QED
      BY <1>1, <2>2, <3>1, Quotient DEF rest
  <2> QED
    BY <1>3, <2>5 DEF Bit
<1> QED
  BY <1>2, <1>3

(* A number below a power of two has no bits from there on. *)
LEMMA HighBits ==
  ASSUME NEW m \in Nat, NEW n \in 0 .. Pow2[m] - 1, NEW i \in Nat, i >= m
  PROVE  Bit(n, i) = 0
<1>1. Pow2[m] \in Nat \ {0} /\ Pow2[i - m] \in Nat \ {0}
  BY Powers
<1>2. Bit(Pow2[m] * 0 + n, i) = Bit(0, i - m)
  BY BitsOfParts
<1>3. Bit(0, i - m) = 0
  BY <1>1 DEF Bit
<1>4. Pow2[m] * 0 + n = n
  BY <1>1
<1> QED
  BY <1>2, <1>3, <1>4

(* Numbers with the same bits are the same. *)
LEMMA SameBits ==
  ASSUME NEW m \in Nat, NEW n \in 0 .. Pow2[m] - 1, NEW k \in 0 .. Pow2[m] - 1,
         \A i \in 0 .. m - 1 : Bit(n, i) = Bit(k, i)
  PROVE  n = k
<1> DEFINE Same(w) == \A x, y \in 0 .. Pow2[w] - 1 :
                        (\A i \in 0 .. w - 1 : Bit(x, i) = Bit(y, i)) => x = y
           A == {w \in Nat : Same(w)}
<1>1. 0 \in A
  BY Powers
<1>2. ASSUME NEW w \in Nat, w \in A PROVE w + 1 \in A
  <2> SUFFICES ASSUME NEW x \in 0 .. Pow2[w + 1] - 1, NEW y \in 0 .. Pow2[w + 1] - 1,
                      \A i \in 0 .. w : Bit(x, i) = Bit(y, i)
               PROVE  x = y
    OBVIOUS
  <2> DEFINE W == Pow2[w]
  <2>1. W \in Nat \ {0} /\ Pow2[w + 1] = 2 * W /\ x \in Nat /\ y \in Nat
    BY Powers
  <2>2. ASSUME NEW z \in 0 .. 2 * W - 1
        PROVE  /\ z \div W \in {0, 1} /\ z % W \in 0 .. W - 1 /\ z = W * (z \div W) + (z % W)
               /\ \A i \in 0 .. w - 1 : Bit(z, i) = Bit(z % W, i)
               /\ Bit(z, w) = z \div W
    <3> DEFINE q == z \div W
               r == z % W
    <3>1. q \in Nat /\ r \in 0 .. W - 1 /\ z = W * q + r
      <4>1. z \in Nat
        BY <2>1
      <4> HIDE DEF W
      <4> QED
        BY <2>1, <4>1, NatQuotient
    <3>2. q < 2
      <4> HIDE DEF q, r, W
      <4> SUFFICES ASSUME q >= 2 PROVE FALSE
        BY <3>1
      <4>1. W * q >= W * 2
        BY <2>1, <3>1
      <4> QED
        BY <2>1, <3>1, <4>1
    <3>3. \A i \in Nat : Bit(z, i) = IF i < w THEN Bit(r, i) ELSE Bit(q, i - w)
      <4> HIDE DEF q, r
      <4> QED
        BY <3>1, BitsOfParts
    <3>4. Bit(q, 0) = q
      <4> HIDE DEF q
      <4>1. q \in {0, 1}
        BY <3>1, <3>2
      <4>2. q \div 1 = q /\ q % 2 = q
        BY <4>1
      <4> QED
        BY <4>2, Powers DEF Bit
    <3> HIDE DEF q, r
    <3>5. \A i \in 0 .. w - 1 : Bit(z, i) = Bit(r, i)
      BY <3>3
    <3>6. Bit(z, w) = q
      <4>1. w - w = 0 /\ ~(w < w)
        OBVIOUS
      <4> QED
        BY <3>3, <3>4, <4>1
    <3> QED
      BY <3>1, <3>2, <3>5, <3>6 DEF q, r
  <2>3. x \div W = y \div W
    BY <2>1, <2>2
  <2>4. x % W = y % W
    <3>1. \A i \in 0 .. w - 1 : Bit(x % W, i) = Bit(y % W, i)
      BY <2>1, <2>2
    <3>2. x % W \in 0 .. Pow2[w] - 1 /\ y % W \in 0 .. Pow2[w] - 1
      BY <2>1, <2>2
    <3> QED
      BY <1>2, <3>1, <3>2
  <2> QED
    BY <2>1, <2>2, <2>3, <2>4
<1>3. Nat \subseteq A
  <2> HIDE DEF A
  <2> QED
    BY <1>1, <1>2, NatSets
<1>4. Same(m)
  BY <1>3
<1> QED
  BY <1>4

(* A remainder is its own, ... *)
LEMMA RestOfRest == ASSUME NEW m \in Nat \ {0}, NEW n \in 0 .. m - 1 PROVE n % m = n
<1>1. (m * 0 + n) % m = n
  BY Quotient
<1>2. m * 0 + n = n
  OBVIOUS
<1> QED
  BY <1>1, <1>2

(* ... and may be taken before or after an addition. *)
LEMMA RestOfSum ==
  ASSUME NEW m \in Nat \ {0}, NEW x \in Int, NEW y \in Int
  PROVE  ((x % m) + y) % m = (x + y) % m
<1> DEFINE r == x % m
           q == x \div m
           t == r + y
           s == t % m
           k == t \div m
<1>1. r \in 0 .. m - 1 /\ q \in Int /\ x = m * q + r
  BY Division
<1>2. t \in Int
  <2> HIDE DEF r
  <2> QED
    BY <1>1
<1>3. s \in 0 .. m - 1 /\ k \in Int /\ t = m * k + s
  <2> HIDE DEF t
  <2> QED
    BY <1>2, Division
<1>4. x + y = m * (q + k) + s
  <2>1. m * (q + k) = m * q + m * k /\ m * q \in Int /\ m * k \in Int
    <3> HIDE DEF q, k
    <3> QED
      BY <1>1, <1>3
  <2>2. x + y = m * q + t
    <3> HIDE DEF r, q
    <3> QED
      BY <1>1, <2>1
  <2> HIDE DEF q, k, t, s
  <2> QED
    BY <1>2, <1>3, <2>1, <2>2
<1>5. (x + y) % m = s
  <2>1. q + k \in Int
    BY <1>1, <1>3
  <2> DEFINE j == q + k
  <2> HIDE DEF j, s
  <2> QED
    BY <1>3, <1>4, <2>1, Quotient DEF j
<1> QED
  BY <1>5

(* The upper part of a number and its bits. *)
LEMMA HighPart ==
  ASSUME NEW w \in Nat, NEW d \in 0 .. w, NEW n \in 0 .. Pow2[w] - 1
  PROVE  /\ n \div Pow2[d] \in 0 .. Pow2[w - d] - 1
         /\ \A i \in Nat : Bit(n \div Pow2[d], i) = Bit(n, d + i)
<1> DEFINE D == Pow2[d]
           N == Pow2[w - d]
           q == n \div D
           r == n % D
<1>1. D \in Nat \ {0} /\ N \in Nat \ {0} /\ Pow2[w] = D * N /\ n \in Nat /\ d \in Nat
  <2>1. d \in Nat /\ w - d \in Nat /\ d + (w - d) = w
    OBVIOUS
  <2>2. Pow2[d + (w - d)] = Pow2[d] * Pow2[w - d]
    BY <2>1, PowerOfSum
  <2>3. Pow2[d] \in Nat \ {0} /\ Pow2[w - d] \in Nat \ {0}
    BY <2>1, Powers
  <2>4. n \in Nat
    <3> Pow2[w] \in Nat
      BY Powers
    <3> QED
      OBVIOUS
  <2> QED
    BY <2>1, <2>2, <2>3, <2>4
<1>2. q \in Nat /\ r \in 0 .. D - 1 /\ n = D * q + r
  <2> HIDE DEF D
  <2> QED
    BY <1>1, NatQuotient
<1>3. q <= N - 1
  <2> HIDE DEF D, N, q, r
  <2> SUFFICES ASSUME q >= N PROVE FALSE
    BY <1>1, <1>2
  <2>1. D * q >= D * N /\ D * q \in Nat /\ D * N \in Nat
    BY <1>1, <1>2
  <2> QED
    BY <1>1, <1>2, <2>1
<1>4. ASSUME NEW i \in Nat PROVE Bit(q, i) = Bit(n, d + i)
  <2>1. d + i \in Nat /\ ~(d + i < d) /\ (d + i) - d = i /\ r \in 0 .. Pow2[d] - 1
    BY <1>1, <1>2
  <2>2. Bit(Pow2[d] * q + r, d + i) = IF d + i < d THEN Bit(r, d + i) ELSE Bit(q, (d + i) - d)
    <3> HIDE DEF q, r
    <3> QED
      BY <1>1, <1>2, <2>1, BitsOfParts
  <2> HIDE DEF q, r
  <2> QED
    BY <1>2, <2>1, <2>2
<1> HIDE DEF q, N
<1> QED
  BY <1>1, <1>2, <1>3, <1>4 DEF q, N

(* A number without a lower part is added to the upper part alone. *)
LEMMA HighSum ==
  ASSUME NEW w \in Nat, NEW d \in 0 .. w, NEW x \in Nat, NEW y \in Nat, y % Pow2[d] = 0
  PROVE  ((x + y) % Pow2[w]) \div Pow2[d] = ((x \div Pow2[d]) + (y \div Pow2[d])) % Pow2[w - d]
<1> DEFINE D == Pow2[d]
           N == Pow2[w - d]
           M == Pow2[w]
           q == x \div D
           r == x % D
           a == y \div D
           t == q + a
           k == t \div N
           s == t % N
<1>1. D \in Nat \ {0} /\ N \in Nat \ {0} /\ M \in Nat \ {0} /\ M = D * N
  <2>1. d \in Nat /\ w - d \in Nat /\ d + (w - d) = w
    OBVIOUS
  <2>2. Pow2[d + (w - d)] = Pow2[d] * Pow2[w - d]
    BY <2>1, PowerOfSum
  <2>3. Pow2[d] \in Nat \ {0} /\ Pow2[w - d] \in Nat \ {0} /\ Pow2[w] \in Nat \ {0}
    BY <2>1, Powers
  <2> QED
    BY <2>1, <2>2, <2>3
<1>2. q \in Nat /\ r \in 0 .. D - 1 /\ x = D * q + r
  <2> HIDE DEF D
  <2> QED
    BY <1>1, NatQuotient
<1>3. a \in Nat /\ y = D * a
  <2>1. y = D * a + (y % D) /\ a \in Nat
    <3> HIDE DEF D
    <3> QED
      BY <1>1, NatQuotient
  <2>2. D * a \in Nat
    <3> HIDE DEF a, D
    <3> QED
      BY <1>1, <2>1
  <2> QED
    BY <2>1, <2>2
<1>4. k \in Nat /\ s \in 0 .. N - 1 /\ t = N * k + s
  <2>1. t \in Nat
    BY <1>2, <1>3
  <2> HIDE DEF N, t
  <2> QED
    BY <1>1, <2>1, NatQuotient
<1> HIDE DEF D, N, M, q, r, a, k, s
<1>5. x + y = M * k + (D * s + r)
  <2>1. D * q + D * a = D * (q + a) /\ D * q \in Nat /\ D * a \in Nat
    BY <1>1, <1>2, <1>3
  <2>2. D * (N * k + s) = (D * N) * k + D * s
    BY <1>1, <1>4
  <2>3. D * s \in Nat /\ (D * N) * k \in Nat
    BY <1>1, <1>4
  <2>4. D * (q + a) = M * k + D * s
    BY <1>1, <1>4, <2>2
  <2>5. x + y = (D * q + D * a) + r
    BY <1>2, <1>3, <2>1
  <2>6. M * k = (D * N) * k
    BY <1>1
  <2>7. x + y = (M * k + D * s) + r
    BY <2>1, <2>4, <2>5
  <2>8. ASSUME NEW u \in Nat, NEW v \in Nat, NEW z \in Nat PROVE (u + v) + z = u + (v + z)
    OBVIOUS
  <2>9. r \in Nat /\ M * k \in Nat
    BY <1>1, <1>2, <2>3, <2>6
  <2> QED
    BY <2>3, <2>7, <2>8, <2>9
<1>6. D * s + r \in 0 .. M - 1
  <2>1. D * s <= D * (N - 1) /\ D * (N - 1) = D * N - D /\ D * s \in Nat /\ D * N \in Nat
    BY <1>1, <1>4
  <2> QED
    BY <1>1, <1>2, <2>1
<1>7. (x + y) % M = D * s + r
  <2> DEFINE low == D * s + r
  <2>1. low \in 0 .. M - 1 /\ x + y = M * k + low
    BY <1>5, <1>6
  <2> HIDE DEF low
  <2>2. (M * k + low) % M = low
    <3> k \in Int
      BY <1>4
    <3> QED
      BY <1>1, <2>1, Quotient
  <2> QED
    BY <2>1, <2>2 DEF low
<1>8. (D * s + r) \div D = s
  BY <1>1, <1>2, <1>4, Quotient
<1> QED
  BY <1>7, <1>8 DEF D, N, M, q, a, s

-----------------------------------------------------------------------------
(* VALUES *)

(* One byte is between 0 and the base, and the powers of the base are powers of two. *)
LEMMA BaseType ==
  /\ ByteBits \in Nat \ {0} /\ MaxLen \in Nat \ {0} /\ Base \in Nat \ {0}
  /\ 0 \in Byte /\ \A n \in Byte : n \in Nat
  /\ \A n \in Nat : Pow2[ByteBits * (n + 1)] = Pow2[ByteBits * n] * Base
<1>1. ByteBits \in Nat \ {0} /\ MaxLen \in Nat \ {0} /\ Base \in Nat \ {0}
  BY LenValAssumption, Powers DEF Base
<1>2. 0 \in Byte /\ \A n \in Byte : n \in Nat
  BY <1>1 DEF Byte
<1>3. ASSUME NEW n \in Nat PROVE Pow2[ByteBits * (n + 1)] = Pow2[ByteBits * n] * Base
  <2>1. ByteBits * (n + 1) = ByteBits * n + ByteBits /\ ByteBits * n \in Nat
    BY <1>1
  <2> QED
    BY <1>1, <2>1, PowerOfSum DEF Base
<1> QED
  BY <1>1, <1>2, <1>3

(* The number that the first n bytes make. *)
Sums(of, lv) ==
  /\ of \in [0 .. lv.len -> Nat]
  /\ of[0] = 0
  /\ \A n \in 0 .. lv.len - 1 : of[n + 1] = of[n] * Base + lv.val[n]

(* value is the number that all of them make. *)
LEMMA ValueSums ==
  ASSUME NEW lv, lv.len \in Nat, \A i \in 0 .. lv.len - 1 : lv.val[i] \in Byte
  PROVE  \E of : Sums(of, lv) /\ value(lv) = of[lv.len]
<1> DEFINE L == lv.len
           Is(g) == g = [n \in 0 .. L |-> IF n = 0 THEN 0 ELSE g[n - 1] * Base + lv.val[n - 1]]
           byte(n) == IF n \in 0 .. L - 1 THEN lv.val[n] ELSE 0
           step == [p \in Nat \X Nat |-> p[2] * Base + byte(p[1])]
<1>1. step \in [Nat \X Nat -> Nat]
  <2>1. \A n \in Nat : byte(n) \in Nat
    BY BaseType
  <2>2. \A m, n \in Nat : m * Base + byte(n) \in Nat
    <3> HIDE DEF byte
    <3> QED
      BY <2>1, BaseType
  <2> HIDE DEF byte
  <2> QED
    BY <2>2
<1>2. PICK f : f \in [Nat -> Nat] /\ f[0] = 0 /\ \A n \in Nat : f[n + 1] = step[<<n, f[n]>>]
  <2>1. \E f : Iterates(f, Nat, 0, step)
    <3> HIDE DEF step
    <3> QED
      BY <1>1, PrimitiveRecursion
  <2> QED
    BY <2>1 DEF Iterates
<1>3. \A n \in 0 .. L - 1 : f[n + 1] = f[n] * Base + lv.val[n]
  <2> SUFFICES ASSUME NEW n \in 0 .. L - 1 PROVE f[n + 1] = f[n] * Base + lv.val[n]
    OBVIOUS
  <2>1. n \in Nat /\ f[n] \in Nat /\ byte(n) = lv.val[n]
    BY <1>2
  <2>2. step[<<n, f[n]>>] = f[n] * Base + byte(n)
    <3> HIDE DEF byte
    <3> QED
      BY <2>1
  <2> HIDE DEF step, byte
  <2> QED
    BY <1>2, <2>1, <2>2
<1> DEFINE g == [n \in 0 .. L |-> f[n]]
<1>4. Is(g)
  <2>1. ASSUME NEW n \in 0 .. L
        PROVE  g[n] = IF n = 0 THEN 0 ELSE g[n - 1] * Base + lv.val[n - 1]
    <3>1. CASE n = 0
      BY <1>2, <3>1
    <3>2. CASE n # 0
      <4>1. n - 1 \in 0 .. L - 1 /\ (n - 1) + 1 = n /\ n - 1 \in 0 .. L
        BY <3>2
      <4>2. f[(n - 1) + 1] = f[n - 1] * Base + lv.val[n - 1]
        BY <1>3, <4>1
      <4> QED
        BY <3>2, <4>1, <4>2
    <3> QED
      BY <3>1, <3>2
  <2> QED
    BY <2>1
<1> DEFINE of == CHOOSE h : Is(h)
<1>5. Is(of)
  <2> HIDE DEF Is
  <2> QED
    BY <1>4
<1>6. value(lv) = of[L]
  BY DEF value
<1>7. of = g
  <2> DEFINE A == {n \in Nat : n \in 0 .. L => of[n] = g[n]}
  <2>1. 0 \in A
    BY <1>4, <1>5
  <2>2. ASSUME NEW n \in Nat, n \in A PROVE n + 1 \in A
    <3> SUFFICES ASSUME n + 1 \in 0 .. L PROVE of[n + 1] = g[n + 1]
      OBVIOUS
    <3>1. n \in 0 .. L /\ (n + 1) - 1 = n /\ n + 1 # 0
      OBVIOUS
    <3> HIDE DEF of, g
    <3>2. of[n + 1] = of[n] * Base + lv.val[n]
      BY <1>5, <3>1
    <3>3. g[n + 1] = g[n] * Base + lv.val[n]
      BY <1>4, <3>1
    <3> QED
      BY <2>2, <3>1, <3>2, <3>3
  <2>3. Nat \subseteq A
    <3> HIDE DEF A
    <3> QED
      BY <2>1, <2>2, NatSets
  <2>4. \A n \in 0 .. L : of[n] = g[n]
    <3>1. \A n \in 0 .. L : n \in Nat
      OBVIOUS
    <3> HIDE DEF of, g
    <3> QED
      BY <2>3, <3>1
  <2>5. DOMAIN of = 0 .. L /\ of = [n \in 0 .. L |-> of[n]]
    <3> HIDE DEF of
    <3> QED
      BY <1>5
  <2> HIDE DEF of
  <2> QED
    BY <2>4, <2>5
<1>8. Sums(g, lv)
  <2>1. g \in [0 .. L -> Nat] /\ g[0] = 0
    BY <1>2
  <2>2. \A n \in 0 .. L - 1 : g[n + 1] = g[n] * Base + lv.val[n]
    <3> SUFFICES ASSUME NEW n \in 0 .. L - 1 PROVE g[n + 1] = g[n] * Base + lv.val[n]
      OBVIOUS
    <3>1. n \in 0 .. L /\ n + 1 \in 0 .. L
      OBVIOUS
    <3> QED
      BY <1>3, <3>1
  <2> HIDE DEF g
  <2> QED
    BY <2>1, <2>2 DEF Sums
<1> HIDE DEF of, g
<1> QED
  BY <1>6, <1>7, <1>8

(* A number of n bytes is below the n-th power of the base ... *)
LEMMA SumsBound ==
  ASSUME NEW lv, lv.len \in Nat, \A i \in 0 .. lv.len - 1 : lv.val[i] \in Byte,
         NEW of, Sums(of, lv), NEW n \in 0 .. lv.len
  PROVE  of[n] \in 0 .. Pow2[ByteBits * n] - 1
<1> DEFINE A == {k \in Nat : k \in 0 .. lv.len => of[k] \in 0 .. Pow2[ByteBits * k] - 1}
<1>1. 0 \in A
  <2>1. ByteBits * 0 = 0 /\ of[0] = 0
    BY BaseType DEF Sums
  <2> QED
    BY <2>1, Powers
<1>2. ASSUME NEW k \in Nat, k \in A PROVE k + 1 \in A
  <2> SUFFICES ASSUME k + 1 \in 0 .. lv.len
               PROVE  of[k + 1] \in 0 .. Pow2[ByteBits * (k + 1)] - 1
    OBVIOUS
  <2> DEFINE P == Pow2[ByteBits * k]
             x == of[k]
             y == lv.val[k]
  <2>1. k \in 0 .. lv.len - 1 /\ k \in 0 .. lv.len
    OBVIOUS
  <2>2. x \in 0 .. P - 1 /\ y \in Byte /\ of[k + 1] = x * Base + y
    BY <1>2, <2>1 DEF Sums
  <2>3. P \in Nat /\ Base \in Nat \ {0} /\ Pow2[ByteBits * (k + 1)] = P * Base
    <3>1. ByteBits * k \in Nat
      BY BaseType
    <3> QED
      BY <3>1, BaseType, Powers
  <2>4. x * Base + y \in 0 .. P * Base - 1
    <3> HIDE DEF P, x, y
    <3>1. y \in 0 .. Base - 1
      BY <2>2 DEF Byte
    <3> DEFINE B == Base
    <3> HIDE DEF B
    <3>2. x * B <= (P - 1) * B /\ x * B \in Nat
      BY <2>2, <2>3 DEF B
    <3>3. (P - 1) * B = P * B - B /\ P * B \in Nat
      BY <2>3 DEF B
    <3> QED
      BY <2>3, <3>1, <3>2, <3>3 DEF B
  <2> QED
    BY <2>2, <2>3, <2>4
<1>3. Nat \subseteq A
  <2> HIDE DEF A
  <2> QED
    BY <1>1, <1>2, NatSets
<1>4. n \in Nat
  OBVIOUS
<1> QED
  BY <1>3, <1>4

(* ... and its bits are those of its bytes, from the last one on. *)
LEMMA SumsBits ==
  ASSUME NEW lv, lv.len \in Nat, \A i \in 0 .. lv.len - 1 : lv.val[i] \in Byte,
         NEW of, Sums(of, lv), NEW n \in 0 .. lv.len, NEW r \in 0 .. (ByteBits * n) - 1
  PROVE  /\ n - 1 - (r \div ByteBits) \in 0 .. n - 1
         /\ Bit(of[n], r) = Bit(lv.val[n - 1 - (r \div ByteBits)], r % ByteBits)
<1> DEFINE Right(k, s) == /\ k - 1 - (s \div ByteBits) \in 0 .. k - 1
                          /\ Bit(of[k], s) = Bit(lv.val[k - 1 - (s \div ByteBits)], s % ByteBits)
           A == {k \in Nat : k \in 0 .. lv.len => \A s \in 0 .. (ByteBits * k) - 1 : Right(k, s)}
<1>1. 0 \in A
  <2>1. 0 .. (ByteBits * 0) - 1 = {}
    BY BaseType
  <2> HIDE DEF Right
  <2> QED
    BY <2>1
<1>2. ASSUME NEW k \in Nat, k \in A PROVE k + 1 \in A
  <2> SUFFICES ASSUME k + 1 \in 0 .. lv.len, NEW s \in 0 .. (ByteBits * (k + 1)) - 1
               PROVE  Right(k + 1, s)
    BY DEF A
  <2> DEFINE x == of[k]
             y == lv.val[k]
  <2>1. k \in 0 .. lv.len - 1 /\ k \in 0 .. lv.len /\ ByteBits \in Nat \ {0} /\ s \in Nat
    <3>1. ByteBits \in Nat \ {0}
      BY BaseType
    <3> QED
      BY <3>1
  <2>2. x \in Nat /\ y \in 0 .. Pow2[ByteBits] - 1 /\ of[k + 1] = x * Base + y
    <3>1. x \in 0 .. Pow2[ByteBits * k] - 1
      BY <2>1, SumsBound
    <3>2. y \in Byte /\ of[k + 1] = x * Base + y
      BY <2>1 DEF Sums
    <3> QED
      BY <3>1, <3>2 DEF Byte, Base
  <2>3. of[k + 1] = Pow2[ByteBits] * x + y
    <3> DEFINE B == Base
    <3> HIDE DEF x, y, B
    <3>1. x * B = B * x
      BY <2>2, BaseType DEF B
    <3> QED
      BY <2>2, <3>1 DEF B, Base
  <2>4. Bit(of[k + 1], s) = IF s < ByteBits THEN Bit(y, s) ELSE Bit(x, s - ByteBits)
    <3> HIDE DEF x, y
    <3> QED
      BY <2>1, <2>2, <2>3, BitsOfParts
  <2>5. CASE s < ByteBits
    <3>1. s \div ByteBits = 0 /\ s % ByteBits = s
      <4>1. ByteBits * 0 + s = s /\ s \in 0 .. ByteBits - 1 /\ 0 \in Int
        BY <2>1, <2>5
      <4>2. (ByteBits * 0 + s) \div ByteBits = 0 /\ (ByteBits * 0 + s) % ByteBits = s
        BY <2>1, <4>1, Quotient
      <4> QED
        BY <4>1, <4>2
    <3>2. (k + 1) - 1 - 0 = k /\ k \in 0 .. (k + 1) - 1
      OBVIOUS
    <3> QED
      BY <2>4, <2>5, <3>1, <3>2
  <2>6. CASE ~(s < ByteBits)
    <3> DEFINE t == s - ByteBits
    <3>1. t \in 0 .. (ByteBits * k) - 1
      <4>1. ByteBits * (k + 1) = ByteBits * k + ByteBits /\ ByteBits * k \in Nat
        BY <2>1
      <4> QED
        BY <2>1, <2>6, <4>1
    <3>2. k - 1 - (t \div ByteBits) \in 0 .. k - 1
          /\ Bit(x, t) = Bit(lv.val[k - 1 - (t \div ByteBits)], t % ByteBits)
      BY <1>2, <2>1, <3>1
    <3>3. s \div ByteBits = (t \div ByteBits) + 1 /\ s % ByteBits = t % ByteBits
          /\ t \div ByteBits \in Nat
      <4> DEFINE q == t \div ByteBits
                 m == t % ByteBits
      <4>1. q \in Nat /\ m \in 0 .. ByteBits - 1 /\ t = ByteBits * q + m
        <5>1. t \in Nat
          BY <2>1, <2>6
        <5> HIDE DEF t
        <5> QED
          BY <2>1, <5>1, NatQuotient
      <4>2. s = ByteBits * (q + 1) + m
        <5> HIDE DEF q, m
        <5>1. ByteBits * (q + 1) = ByteBits * q + ByteBits /\ ByteBits * q \in Nat
          BY <2>1, <4>1
        <5> QED
          BY <2>1, <4>1, <5>1
      <4>3. s \div ByteBits = q + 1 /\ s % ByteBits = m
        <5>1. q + 1 \in Int
          BY <4>1
        <5> HIDE DEF q, m
        <5> QED
          BY <2>1, <4>1, <4>2, <5>1, Quotient
      <4> QED
        BY <4>1, <4>3
    <3>4. (k + 1) - 1 - (s \div ByteBits) = k - 1 - (t \div ByteBits)
          /\ k - 1 - (t \div ByteBits) \in 0 .. (k + 1) - 1
      <4> DEFINE q == t \div ByteBits
      <4> HIDE DEF q, t
      <4> QED
        BY <3>2, <3>3 DEF q
    <3> QED
      BY <2>4, <2>6, <3>2, <3>3, <3>4
  <2> QED
    BY <2>5, <2>6
<1>3. Nat \subseteq A
  <2> HIDE DEF A
  <2> QED
    BY <1>1, <1>2, NatSets
<1>4. n \in Nat /\ \A s \in 0 .. (ByteBits * n) - 1 : Right(n, s)
  BY <1>3
<1> QED
  BY <1>4

(* So value makes a number of its bytes whose bits are the ones BitOfValue reads. *)
LEMMA ValueBits ==
  ASSUME NEW lv, lv.len \in Nat, \A i \in 0 .. lv.len - 1 : lv.val[i] \in Byte
  PROVE  /\ value(lv) \in 0 .. Pow2[ByteBits * lv.len] - 1
         /\ \A r \in 0 .. (ByteBits * lv.len) - 1 :
              /\ lv.len - 1 - (r \div ByteBits) \in 0 .. lv.len - 1
              /\ Bit(value(lv), r) = BitOfValue(lv, r)
<1>1. PICK of : Sums(of, lv) /\ value(lv) = of[lv.len]
  BY ValueSums
<1>2. lv.len \in 0 .. lv.len
  OBVIOUS
<1> QED
  BY <1>1, <1>2, SumsBound, SumsBits DEF BitOfValue

(* ByteOf makes a byte of its bits. *)
LEMMA ByteOfBits ==
  ASSUME NEW bit, \A i \in 0 .. ByteBits - 1 : bit[i] \in {0, 1}
  PROVE  /\ ByteOf(bit) \in Byte
         /\ \A i \in 0 .. ByteBits - 1 : Bit(ByteOf(bit), i) = bit[i]
<1> DEFINE L == ByteBits
           Is(g) == g = [i \in 0 .. L |-> IF i = 0 THEN 0 ELSE g[i - 1] + bit[i - 1] * Pow2[i - 1]]
           b(n) == IF n \in 0 .. L - 1 THEN bit[n] ELSE 0
           step == [p \in Nat \X Nat |-> p[2] + b(p[1]) * Pow2[p[1]]]
<1>0. L \in Nat \ {0}
  BY BaseType
<1>1. step \in [Nat \X Nat -> Nat]
  <2>1. \A n \in Nat : b(n) \in Nat /\ Pow2[n] \in Nat
    BY Powers
  <2>2. \A m, n \in Nat : m + b(n) * Pow2[n] \in Nat
    <3> HIDE DEF b
    <3> QED
      BY <2>1
  <2> HIDE DEF b
  <2> QED
    BY <2>2
<1>2. PICK f : f \in [Nat -> Nat] /\ f[0] = 0 /\ \A n \in Nat : f[n + 1] = step[<<n, f[n]>>]
  <2>1. \E f : Iterates(f, Nat, 0, step)
    <3> HIDE DEF step
    <3> QED
      BY <1>1, PrimitiveRecursion
  <2> QED
    BY <2>1 DEF Iterates
<1>3. \A n \in 0 .. L - 1 : f[n + 1] = f[n] + bit[n] * Pow2[n]
  <2> SUFFICES ASSUME NEW n \in 0 .. L - 1 PROVE f[n + 1] = f[n] + bit[n] * Pow2[n]
    OBVIOUS
  <2>1. n \in Nat /\ f[n] \in Nat /\ b(n) = bit[n]
    BY <1>2
  <2>2. step[<<n, f[n]>>] = f[n] + b(n) * Pow2[n]
    <3> HIDE DEF b
    <3> QED
      BY <2>1
  <2> HIDE DEF step, b
  <2> QED
    BY <1>2, <2>1, <2>2
<1> DEFINE g == [n \in 0 .. L |-> f[n]]
<1>4. Is(g)
  <2>1. ASSUME NEW n \in 0 .. L
        PROVE  g[n] = IF n = 0 THEN 0 ELSE g[n - 1] + bit[n - 1] * Pow2[n - 1]
    <3>1. CASE n = 0
      BY <1>2, <3>1
    <3>2. CASE n # 0
      <4>1. n - 1 \in 0 .. L - 1 /\ (n - 1) + 1 = n /\ n - 1 \in 0 .. L
        BY <1>0, <3>2
      <4>2. f[(n - 1) + 1] = f[n - 1] + bit[n - 1] * Pow2[n - 1]
        BY <1>3, <4>1
      <4> QED
        BY <3>2, <4>1, <4>2
    <3> QED
      BY <3>1, <3>2
  <2> QED
    BY <2>1
<1> DEFINE upTo == CHOOSE h : Is(h)
<1>5. Is(upTo)
  <2> HIDE DEF Is
  <2> QED
    BY <1>4
<1>6. ByteOf(bit) = upTo[L]
  BY DEF ByteOf
<1>7. /\ upTo[0] = 0
      /\ \A n \in 0 .. L - 1 : upTo[n + 1] = upTo[n] + bit[n] * Pow2[n]
  <2> HIDE DEF upTo
  <2>1. upTo[0] = 0
    BY <1>0, <1>5
  <2>2. ASSUME NEW n \in 0 .. L - 1 PROVE upTo[n + 1] = upTo[n] + bit[n] * Pow2[n]
    <3>1. n + 1 \in 0 .. L /\ n + 1 # 0 /\ (n + 1) - 1 = n
      BY <1>0
    <3> QED
      BY <1>5, <3>1
  <2> QED
    BY <2>1, <2>2
<1> HIDE DEF upTo
<1> DEFINE A == {n \in Nat : n \in 0 .. L => /\ upTo[n] \in 0 .. Pow2[n] - 1
                                             /\ \A i \in 0 .. n - 1 : Bit(upTo[n], i) = bit[i]}
<1>8. 0 \in A
  BY <1>7, Powers
<1>9. ASSUME NEW n \in Nat, n \in A PROVE n + 1 \in A
  <2> SUFFICES ASSUME n + 1 \in 0 .. L
               PROVE  /\ upTo[n + 1] \in 0 .. Pow2[n + 1] - 1
                      /\ \A i \in 0 .. n : Bit(upTo[n + 1], i) = bit[i]
    BY DEF A
  <2> DEFINE P == Pow2[n]
             x == upTo[n]
             y == bit[n]
  <2>1. n \in 0 .. L - 1 /\ n \in 0 .. L
    BY <1>0
  <2>2. /\ x \in 0 .. P - 1 /\ y \in {0, 1} /\ upTo[n + 1] = x + y * P
        /\ \A i \in 0 .. n - 1 : Bit(x, i) = bit[i]
    BY <1>7, <1>9, <2>1
  <2>3. P \in Nat \ {0} /\ Pow2[n + 1] = 2 * P
    BY Powers
  <2>4. upTo[n + 1] = P * y + x /\ upTo[n + 1] \in 0 .. 2 * P - 1
    <3> HIDE DEF P, x, y
    <3>1. y * P = P * y /\ P * y \in {0, P}
      BY <2>2, <2>3
    <3> QED
      BY <2>2, <2>3, <3>1
  <2>5. \A i \in Nat : Bit(upTo[n + 1], i) = IF i < n THEN Bit(x, i) ELSE Bit(y, i - n)
    <3>1. y \in Nat /\ x \in 0 .. Pow2[n] - 1 /\ upTo[n + 1] = Pow2[n] * y + x
      BY <2>2, <2>4
    <3> HIDE DEF x, y, P
    <3> QED
      BY <3>1, BitsOfParts
  <2>6. ASSUME NEW i \in 0 .. n PROVE Bit(upTo[n + 1], i) = bit[i]
    <3>1. CASE i < n
      <4>1. i \in 0 .. n - 1 /\ i \in Nat
        BY <3>1
      <4> HIDE DEF x, y, P
      <4> QED
        BY <2>2, <2>5, <3>1, <4>1
    <3>2. CASE i = n
      <4>1. i - n = 0 /\ ~(i < n) /\ i \in Nat
        BY <3>2
      <4>2. Bit(y, 0) = y
        BY <2>2, BitOfBit
      <4>3. y = bit[i]
        BY <3>2
      <4> HIDE DEF x, y, P
      <4> QED
        BY <2>5, <4>1, <4>2, <4>3
    <3> QED
      BY <3>1, <3>2
  <2> QED
    BY <2>3, <2>4, <2>6
<1>10. Nat \subseteq A
  <2> HIDE DEF A
  <2> QED
    BY <1>8, <1>9, NatSets
<1>11. L \in A /\ L \in 0 .. L
  BY <1>0, <1>10
<1> QED
  BY <1>6, <1>11 DEF Byte, Base

(* A value that has been read from the file is of its bytes, and 0 behind them. *)
LEMMA WrittenType ==
  ASSUME NEW number \in Nat, NEW n \in 0 .. MaxLen
  PROVE  Written(number, n).len = n /\ Written(number, n).val \in [0 .. MaxLen -> Byte]
<1>1. Base \in Nat \ {0} /\ ByteBits \in Nat
  BY LenValAssumption, Powers DEF Base
<1> DEFINE digits == Digits(number, n)
<1>2. digits = [i \in 1 .. n |-> (number \div Pow2[ByteBits * (n - i)]) % Base]
  BY DEF Digits
<1>3. Len(digits) = n
  BY <1>2
<1>4. \A i \in 1 .. n : digits[i] \in Byte
  <2> SUFFICES ASSUME NEW i \in 1 .. n PROVE digits[i] \in Byte
    OBVIOUS
  <2>1. ByteBits * (n - i) \in Nat
    BY <1>1
  <2>2. Pow2[ByteBits * (n - i)] \in Nat \ {0}
    BY <2>1, Powers
  <2>3. number \div Pow2[ByteBits * (n - i)] \in Nat
    BY <2>2, NatQuotient
  <2>4. (number \div Pow2[ByteBits * (n - i)]) % Base \in 0 .. Base - 1
    BY <1>1, <2>3, NatQuotient
  <2> QED
    BY <1>2, <2>4 DEF Byte
<1>5. 0 \in Byte
  BY <1>1 DEF Byte
<1>6. Written(number, n) =
        [len |-> n, val |-> [i \in 0 .. MaxLen |-> IF i < n THEN digits[i + 1] ELSE 0]]
  <2>1. \A i \in 0 .. MaxLen : Zeroed.val[i] = 0
    BY DEF Zeroed
  <2> HIDE DEF digits
  <2> QED
    BY <1>3, <2>1 DEF Written, readVal, digits
<1>7. \A i \in 0 .. MaxLen : i < n => i + 1 \in 1 .. n
  OBVIOUS
<1> HIDE DEF digits
<1> QED
  BY <1>4, <1>5, <1>6, <1>7

(* And one that was zeroed. *)
LEMMA ZeroedType == Zeroed.len = 0 /\ Zeroed.val \in [0 .. MaxLen -> Byte]
<1>1. Base \in Nat \ {0}
  BY LenValAssumption, Powers DEF Base
<1> QED
  BY <1>1 DEF Zeroed, Byte

-----------------------------------------------------------------------------
(* SUMS OF BYTE STRINGS *)

(* One place of the sum: the carry into it, the two bytes, what is left and the carry out. *)
LEMMA OnePlace ==
  ASSUME NEW x \in Byte, NEW y \in Byte, NEW in \in {0, 1}
  PROVE  LET out == IF x + y + in > Base - 1 THEN 1 ELSE 0
         IN  (x + y + in) % Base \in Byte /\ x + y + in = Base * out + ((x + y + in) % Base)
<1> DEFINE s == x + y + in
           out == IF s > Base - 1 THEN 1 ELSE 0
           B == Base
<1>1. B \in Nat \ {0} /\ x \in 0 .. B - 1 /\ y \in 0 .. B - 1
  BY BaseType DEF Byte
<1>2. s - B * out \in 0 .. B - 1 /\ out \in Int /\ B * out \in Int
  <2> HIDE DEF B
  <2> QED
    BY <1>1 DEF B
<1> DEFINE r == s - B * out
<1>3. s = B * out + r /\ r \in 0 .. B - 1
  <2> HIDE DEF B, out
  <2> QED
    BY <1>1, <1>2
<1>4. s % B = r
  <2> HIDE DEF B, out, r, s
  <2> QED
    BY <1>1, <1>2, <1>3, Quotient
<1> QED
  BY <1>3, <1>4 DEF Byte

(* The carries out of each byte. *)
Carries(c, a, b) ==
  /\ c \in [0 .. a.len -> {0, 1}]
  /\ c[a.len] = 0
  /\ \A i \in 0 .. a.len - 1 :
       c[i] = IF a.val[i] + b.val[i] + c[i + 1] > Base - 1 THEN 1 ELSE 0

(* addVal works with such carries. *)
LEMMA AddCarries ==
  ASSUME NEW res, NEW a, NEW b, a.len \in Nat
  PROVE  \E c : /\ Carries(c, a, b)
                /\ addVal(res, a, b) =
                     [len |-> a.len,
                      val |-> [i \in 0 .. MaxLen |->
                                 IF i < a.len THEN (a.val[i] + b.val[i] + c[i + 1]) % Base
                                 ELSE res.val[i]]]
<1> DEFINE L == a.len
           out(i, in) == IF a.val[i] + b.val[i] + in > Base - 1 THEN 1 ELSE 0
           Is(g) == g = [i \in 0 .. L |->
                           IF i < L /\ a.val[i] + b.val[i] + g[i + 1] > Base - 1 THEN 1 ELSE 0]
           step == [p \in Nat \X {0, 1} |-> out(L - (p[1] + 1), p[2])]
<1>1. step \in [Nat \X {0, 1} -> {0, 1}]
  OBVIOUS
<1>2. PICK f : f \in [Nat -> {0, 1}] /\ f[0] = 0 /\ \A n \in Nat : f[n + 1] = step[<<n, f[n]>>]
  <2>1. \E f : Iterates(f, {0, 1}, 0, step)
    <3> HIDE DEF step
    <3> QED
      BY <1>1, PrimitiveRecursion
  <2> QED
    BY <2>1 DEF Iterates
<1>3. \A n \in Nat : f[n + 1] = out(L - (n + 1), f[n])
  <2> SUFFICES ASSUME NEW n \in Nat PROVE f[n + 1] = out(L - (n + 1), f[n])
    OBVIOUS
  <2>1. f[n] \in {0, 1}
    BY <1>2
  <2>2. step[<<n, f[n]>>] = out(L - (n + 1), f[n])
    <3> HIDE DEF out
    <3> QED
      BY <2>1
  <2> HIDE DEF step, out
  <2> QED
    BY <1>2, <2>2
<1> DEFINE g == [i \in 0 .. L |-> f[L - i]]
<1>4. Is(g)
  <2>1. ASSUME NEW i \in 0 .. L
        PROVE  g[i] = IF i < L /\ a.val[i] + b.val[i] + g[i + 1] > Base - 1 THEN 1 ELSE 0
    <3>1. CASE i = L
      BY <1>2, <3>1
    <3>2. CASE i # L
      <4> DEFINE n == L - (i + 1)
      <4>1. n \in Nat /\ n + 1 = L - i /\ L - (n + 1) = i /\ i + 1 \in 0 .. L /\ i < L
        BY <3>2
      <4>2. g[i] = f[n + 1] /\ g[i + 1] = f[n]
        BY <4>1
      <4>3. f[n + 1] = out(i, f[n])
        <5> HIDE DEF n, out, g
        <5> QED
          BY <1>3, <4>1
      <4> HIDE DEF n, g
      <4> QED
        BY <4>1, <4>2, <4>3
    <3> QED
      BY <3>1, <3>2
  <2> QED
    BY <2>1
<1> DEFINE carry == CHOOSE h : Is(h)
<1>5. Is(carry)
  <2> HIDE DEF Is
  <2> QED
    BY <1>4
<1>6. addVal(res, a, b) =
        [len |-> L,
         val |-> [i \in 0 .. MaxLen |->
                    IF i < L THEN (a.val[i] + b.val[i] + carry[i + 1]) % Base ELSE res.val[i]]]
  BY DEF addVal
<1>7. Carries(carry, a, b)
  <2> HIDE DEF carry
  <2>1. carry \in [0 .. L -> {0, 1}]
    BY <1>5
  <2>2. carry[L] = 0
    <3>1. L \in 0 .. L /\ ~(L < L)
      OBVIOUS
    <3> QED
      BY <1>5, <3>1
  <2>3. \A i \in 0 .. L - 1 : i \in 0 .. L /\ i < L
    OBVIOUS
  <2> QED
    BY <1>5, <2>1, <2>2, <2>3 DEF Carries
<1> HIDE DEF carry
<1> QED
  BY <1>6, <1>7

(* addVal adds the numbers, and drops what the bytes cannot hold. *)
LEMMA AddIsSum ==
  ASSUME NEW res, NEW a, NEW b, a.len \in 0 .. MaxLen + 1, b.len = a.len,
         \A i \in 0 .. a.len - 1 : a.val[i] \in Byte /\ b.val[i] \in Byte
  PROVE  /\ addVal(res, a, b).len = a.len
         /\ \A i \in 0 .. a.len - 1 : addVal(res, a, b).val[i] \in Byte
         /\ \A i \in a.len .. MaxLen : addVal(res, a, b).val[i] = res.val[i]
         /\ value(addVal(res, a, b)) = (value(a) + value(b)) % Pow2[ByteBits * a.len]
<1> DEFINE L == a.len
           sum == addVal(res, a, b)
<1>0. L \in Nat /\ MaxLen \in Nat /\ \A i \in 0 .. L - 1 : i \in 0 .. MaxLen /\ i < L
  BY BaseType
<1>1. PICK c : /\ Carries(c, a, b)
               /\ sum = [len |-> L,
                         val |-> [i \in 0 .. MaxLen |->
                                    IF i < L THEN (a.val[i] + b.val[i] + c[i + 1]) % Base
                                    ELSE res.val[i]]]
  BY <1>0, AddCarries
<1>2. sum.len = L /\ \A i \in L .. MaxLen : sum.val[i] = res.val[i]
  BY <1>0, <1>1
<1>3. ASSUME NEW i \in 0 .. L - 1
      PROVE  /\ sum.val[i] \in Byte /\ c[i] \in {0, 1} /\ c[i + 1] \in {0, 1}
             /\ a.val[i] + b.val[i] + c[i + 1] = Base * c[i] + sum.val[i]
  <2>1. sum.val[i] = (a.val[i] + b.val[i] + c[i + 1]) % Base
    BY <1>0, <1>1
  <2>2. c[i + 1] \in {0, 1} /\ c[i] \in {0, 1}
    <3>1. i + 1 \in 0 .. L /\ i \in 0 .. L
      BY <1>0
    <3> QED
      BY <1>1, <3>1 DEF Carries
  <2>3. c[i] = IF a.val[i] + b.val[i] + c[i + 1] > Base - 1 THEN 1 ELSE 0
    BY <1>1 DEF Carries
  <2> HIDE DEF sum
  <2> QED
    BY <2>1, <2>2, <2>3, OnePlace
<1> HIDE DEF sum
<1>4. PICK A : Sums(A, a) /\ value(a) = A[L]
  BY <1>0, ValueSums
<1>5. PICK B : Sums(B, b) /\ value(b) = B[L]
  BY <1>0, ValueSums
<1>6. PICK S : Sums(S, sum) /\ value(sum) = S[L]
  BY <1>0, <1>2, <1>3, ValueSums
<1> DEFINE P(n) == Pow2[ByteBits * n]
           T == {n \in Nat : n \in 0 .. L => A[n] + B[n] + c[n] = P(n) * c[0] + S[n]}
<1>7. 0 \in T
  <2>1. A[0] = 0 /\ B[0] = 0 /\ S[0] = 0
    BY <1>4, <1>5, <1>6 DEF Sums
  <2>2. P(0) = 1 /\ c[0] \in {0, 1}
    <3>1. ByteBits * 0 = 0
      BY BaseType
    <3>2. 0 \in 0 .. L
      BY <1>0
    <3> QED
      BY <1>1, <3>1, <3>2, Powers DEF Carries
  <2> QED
    BY <2>1, <2>2
<1>8. ASSUME NEW n \in Nat, n \in T PROVE n + 1 \in T
  <2> SUFFICES ASSUME n + 1 \in 0 .. L
               PROVE  A[n + 1] + B[n + 1] + c[n + 1] = P(n + 1) * c[0] + S[n + 1]
    BY DEF T
  <2>1. n \in 0 .. L - 1 /\ n \in 0 .. L
    BY <1>0
  <2>2. A[n + 1] = A[n] * Base + a.val[n]
    BY <1>4, <2>1 DEF Sums
  <2>3. B[n + 1] = B[n] * Base + b.val[n]
    BY <1>5, <2>1 DEF Sums
  <2>4. S[n + 1] = S[n] * Base + sum.val[n]
    BY <1>2, <1>6, <2>1 DEF Sums
  <2>5. A[n] \in Nat /\ B[n] \in Nat /\ S[n] \in Nat
    BY <1>2, <1>4, <1>5, <1>6, <2>1 DEF Sums
  <2>6. /\ a.val[n] + b.val[n] + c[n + 1] = Base * c[n] + sum.val[n]
        /\ a.val[n] \in Nat /\ b.val[n] \in Nat /\ sum.val[n] \in Nat
        /\ c[n] \in Nat /\ c[n + 1] \in Nat
    <3>1. c[n] \in Nat /\ c[n + 1] \in Nat
      BY <1>3, <2>1
    <3> QED
      BY <1>3, <2>1, <3>1, BaseType
  <2>7. A[n] + B[n] + c[n] = P(n) * c[0] + S[n]
    BY <1>8, <2>1
  <2>8. P(n + 1) = P(n) * Base /\ P(n) \in Nat /\ Base \in Nat /\ c[0] \in Nat
    <3>1. ByteBits * n \in Nat
      BY BaseType
    <3>2. c[0] \in {0, 1}
      BY <1>0, <1>1 DEF Carries
    <3> QED
      BY <3>1, <3>2, BaseType, Powers
  <2> DEFINE an == A[n]
             bn == B[n]
             sn == S[n]
             cn == c[n]
             pc == P(n) * c[0]
             H == Base
  <2>9. H * an + H * bn + H * cn = H * pc + H * sn
    <3>1. pc \in Nat
      <4> HIDE DEF P
      <4> QED
        BY <2>8
    <3>2. an + bn + cn = pc + sn
      BY <2>7
    <3>3. an \in Nat /\ bn \in Nat /\ cn \in Nat /\ sn \in Nat /\ H \in Nat
      BY <2>5, <2>6, <2>8
    <3> HIDE DEF an, bn, cn, sn, pc, H
    <3>4. H * (an + bn + cn) = H * an + H * bn + H * cn /\ H * (pc + sn) = H * pc + H * sn
      BY <3>1, <3>3
    <3> QED
      BY <3>2, <3>4
  <2>10. P(n + 1) * c[0] = H * pc
    <3> DEFINE p == P(n)
               k == c[0]
    <3>1. p \in Nat /\ k \in Nat /\ H \in Nat /\ P(n + 1) = p * H
      BY <2>8
    <3> HIDE DEF p, k, H
    <3>2. (p * H) * k = H * (p * k)
      BY <3>1
    <3> QED
      BY <3>1, <3>2 DEF p, k
  <2>11. an * H = H * an /\ bn * H = H * bn /\ sn * H = H * sn
    BY <2>5, <2>8
  <2>12. /\ H * an \in Nat /\ H * bn \in Nat /\ H * cn \in Nat /\ H * sn \in Nat /\ H * pc \in Nat
    <3>1. pc \in Nat
      <4> HIDE DEF P
      <4> QED
        BY <2>8
    <3>2. an \in Nat /\ bn \in Nat /\ cn \in Nat /\ sn \in Nat /\ H \in Nat
      BY <2>5, <2>6, <2>8
    <3> HIDE DEF an, bn, cn, sn, pc, H
    <3> QED
      BY <3>1, <3>2
  <2> DEFINE x == H * an
             y == H * bn
             z == H * cn
             u == H * sn
             w == H * pc
  <2>13. /\ A[n + 1] = x + a.val[n] /\ B[n + 1] = y + b.val[n] /\ S[n + 1] = u + sum.val[n]
         /\ a.val[n] + b.val[n] + c[n + 1] = z + sum.val[n]
         /\ x + y + z = w + u /\ P(n + 1) * c[0] = w
    BY <2>2, <2>3, <2>4, <2>6, <2>9, <2>10, <2>11
  <2>14. x \in Nat /\ y \in Nat /\ z \in Nat /\ u \in Nat /\ w \in Nat
    BY <2>12
  <2> HIDE DEF x, y, z, u, w, P
  <2> QED
    BY <2>6, <2>13, <2>14
<1>9. Nat \subseteq T
  <2> HIDE DEF T
  <2> QED
    BY <1>7, <1>8, NatSets
<1>10. A[L] + B[L] + 0 = P(L) * c[0] + S[L]
  <2>1. L \in 0 .. L /\ c[L] = 0
    BY <1>0, <1>1 DEF Carries
  <2> QED
    BY <1>0, <1>9, <2>1
<1>11. /\ value(sum) \in 0 .. P(L) - 1 /\ value(a) \in Nat /\ value(b) \in Nat
       /\ P(L) \in Nat \ {0} /\ c[0] \in Int
  <2>1. ByteBits * L \in Nat
    BY <1>0, BaseType
  <2>2. P(L) \in Nat \ {0}
    BY <2>1, Powers
  <2>3. value(sum) \in 0 .. P(L) - 1
    BY <1>0, <1>2, <1>3, ValueBits
  <2>4. value(a) \in 0 .. P(L) - 1 /\ value(b) \in 0 .. P(L) - 1
    BY <1>0, ValueBits
  <2>5. c[0] \in {0, 1}
    BY <1>0, <1>1 DEF Carries
  <2> HIDE DEF P
  <2> QED
    BY <2>2, <2>3, <2>4, <2>5
<1>12. (value(a) + value(b)) % P(L) = value(sum)
  <2> DEFINE p == P(L)
             q == c[0]
             r == value(sum)
             t == value(a) + value(b)
  <2>1. t = p * q + r
    <3>1. p * q \in Int
      <4> HIDE DEF p, q
      <4> QED
        BY <1>11 DEF p, q
    <3> HIDE DEF P
    <3> QED
      BY <1>4, <1>5, <1>6, <1>10, <1>11, <3>1
  <2> HIDE DEF p, q, r, t
  <2> QED
    BY <1>11, <2>1, Quotient DEF p, q, r, t
<1> QED
  BY <1>2, <1>3, <1>12 DEF sum
=============================================================================
