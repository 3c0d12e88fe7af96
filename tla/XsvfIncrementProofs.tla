------------------------- MODULE XsvfIncrementProofs -------------------------
(***************************************************************************)
(* Proofs about XsvfIncrement, for every size of a byte and of the values, *)
(* all masks, and any number of pieces: what xsvfDoSDRMasking does byte by *)
(* byte is what the properties say of numbers.                             *)
(***************************************************************************)
EXTENDS XsvfIncrement, LenValProofs, FiniteSetTheorems

-----------------------------------------------------------------------------
(* THE PLACES OF THE BITS *)

(* Byte and bit of the byte in which bit r of a value is. *)
At(r) == <<Size - 1 - (r \div ByteBits), r % ByteBits>>

(* The values of a shift. *)
Fits(lv) == lv.len = Size /\ lv.val \in [0 .. MaxLen -> Byte]

(* The sizes of the fields, and the width of a shift. *)
LEMMA Sizes ==
  /\ ByteBits \in Nat \ {0} /\ MaxLen \in Nat \ {0} /\ Size \in 1 .. MaxLen
  /\ Width \in Nat \ {0} /\ Width = ByteBits * Size /\ Modulus \in Nat \ {0}
<1>1. ByteBits \in Nat \ {0} /\ MaxLen \in Nat \ {0} /\ Size \in 1 .. MaxLen
  BY BaseType, IncrementAssumption
<1>2. ByteBits * Size \in Nat \ {0}
  BY <1>1
<1> QED
  BY <1>1, <1>2, Powers DEF Width, Modulus

(* A byte string of the length of the shift has a byte for every place of a bit. *)
LEMMA FitsBytes ==
  ASSUME NEW lv, Fits(lv)
  PROVE  /\ lv.len \in Nat /\ lv.len \in 0 .. MaxLen + 1
         /\ \A i \in 0 .. lv.len - 1 : i \in 0 .. MaxLen /\ lv.val[i] \in Byte
<1>1. lv.len = Size /\ Size \in 1 .. MaxLen /\ MaxLen \in Nat
  BY Sizes DEF Fits
<1>2. \A i \in 0 .. Size - 1 : i \in 0 .. MaxLen
  BY <1>1
<1> QED
  BY <1>1, <1>2 DEF Fits

(* Every bit has one place, and every place one bit. *)
LEMMA Places ==
  ASSUME NEW r \in 0 .. Width - 1
  PROVE  /\ r \div ByteBits \in 0 .. Size - 1 /\ r % ByteBits \in 0 .. ByteBits - 1
         /\ r = ByteBits * (r \div ByteBits) + (r % ByteBits)
         /\ At(r) \in (0 .. Size - 1) \X (0 .. ByteBits - 1)
<1> DEFINE q == r \div ByteBits
           m == r % ByteBits
<1>1. r \in Nat /\ ByteBits \in Nat \ {0} /\ Size \in Nat \ {0} /\ Width = ByteBits * Size
  BY Sizes
<1>2. q \in Nat /\ m \in 0 .. ByteBits - 1 /\ r = ByteBits * q + m
  BY <1>1, NatQuotient
<1>3. q <= Size - 1
  <2> HIDE DEF q, m
  <2> SUFFICES ASSUME q >= Size PROVE FALSE
    BY <1>1, <1>2
  <2>1. ByteBits * q >= ByteBits * Size /\ ByteBits * q \in Nat /\ ByteBits * Size \in Nat
    BY <1>1, <1>2
  <2> QED
    BY <1>1, <1>2, <2>1
<1> QED
  BY <1>1, <1>2, <1>3 DEF At

(* The place of a bit in the order of XSDRINC: the last byte first, each from its bit 0. *)
LEMMA PlaceOfBit ==
  ASSUME NEW i \in 0 .. Size - 1, NEW b \in 0 .. ByteBits - 1
  PROVE  \E r \in 0 .. Width - 1 : At(r) = <<i, b>>
<1> DEFINE q == Size - 1 - i
           r == ByteBits * q + b
<1>1. ByteBits \in Nat \ {0} /\ Size \in Nat \ {0} /\ Width = ByteBits * Size
  BY Sizes
<1>2. q \in Int /\ q \in 0 .. Size - 1 /\ Size - 1 - q = i
  BY <1>1
<1>3. r \div ByteBits = q /\ r % ByteBits = b
  <2> HIDE DEF q
  <2> QED
    BY <1>1, <1>2, Quotient
<1>4. r \in 0 .. Width - 1
  <2> HIDE DEF q
  <2>1. ByteBits * q <= ByteBits * (Size - 1)
    BY <1>1, <1>2
  <2>2. ByteBits * (Size - 1) = ByteBits * Size - ByteBits
    BY <1>1
  <2>3. ByteBits * q \in Nat /\ ByteBits * Size \in Nat
    BY <1>1, <1>2
  <2> QED
    BY <1>1, <2>1, <2>2, <2>3
<1>5. At(r) = <<i, b>>
  <2> HIDE DEF r, q
  <2> QED
    BY <1>2, <1>3 DEF At
<1> HIDE DEF r
<1> QED
  BY <1>4, <1>5

(* The order of the bits is that of their places, the last byte first. *)
LEMMA Order ==
  ASSUME NEW q \in 0 .. Width - 1, NEW r \in 0 .. Width - 1
  PROVE  /\ (At(q)[1] > At(r)[1] \/ (At(q)[1] = At(r)[1] /\ At(q)[2] < At(r)[2])) <=> q < r
         /\ At(q) = At(r) => q = r
<1> DEFINE qd == q \div ByteBits
           qm == q % ByteBits
           rd == r \div ByteBits
           rm == r % ByteBits
<1>1. ByteBits \in Nat \ {0} /\ Size \in Nat
  BY Sizes
<1>2. qd \in 0 .. Size - 1 /\ qm \in 0 .. ByteBits - 1 /\ q = ByteBits * qd + qm
  BY Places
<1>3. rd \in 0 .. Size - 1 /\ rm \in 0 .. ByteBits - 1 /\ r = ByteBits * rd + rm
  BY Places
<1>4. At(q) = <<Size - 1 - qd, qm>> /\ At(r) = <<Size - 1 - rd, rm>>
  BY DEF At
<1> HIDE DEF qd, qm, rd, rm
<1>5. ASSUME NEW x \in Nat, NEW y \in Nat, x < y PROVE ByteBits * x + ByteBits <= ByteBits * y
  <2>1. ByteBits * (x + 1) <= ByteBits * y
    BY <1>1, <1>5
  <2>2. ByteBits * (x + 1) = ByteBits * x + ByteBits
    BY <1>1
  <2> QED
    BY <2>1, <2>2
<1>6. ByteBits * qd \in Nat /\ ByteBits * rd \in Nat
  BY <1>1, <1>2, <1>3
<1>7. qd < rd => q < r
  <2> SUFFICES ASSUME qd < rd PROVE q < r
    OBVIOUS
  <2>1. ByteBits * qd + ByteBits <= ByteBits * rd
    BY <1>1, <1>2, <1>3, <1>5
  <2> QED
    BY <1>1, <1>2, <1>3, <1>6, <2>1
<1>8. rd < qd => r < q
  <2> SUFFICES ASSUME rd < qd PROVE r < q
    OBVIOUS
  <2>1. ByteBits * rd + ByteBits <= ByteBits * qd
    BY <1>1, <1>2, <1>3, <1>5
  <2> QED
    BY <1>1, <1>2, <1>3, <1>6, <2>1
<1>9. qd = rd => (q < r <=> qm < rm)
  BY <1>1, <1>2, <1>3, <1>6
<1>10. (qd < rd \/ (qd = rd /\ qm < rm)) <=> q < r
  BY <1>1, <1>2, <1>3, <1>7, <1>8, <1>9
<1>11. At(q)[1] > At(r)[1] <=> qd < rd
  BY <1>1, <1>2, <1>3, <1>4
<1>12. At(q)[1] = At(r)[1] <=> qd = rd
  BY <1>1, <1>2, <1>3, <1>4
<1>13. At(q)[2] = qm /\ At(r)[2] = rm
  BY <1>4
<1>14. At(q) = At(r) => q = r
  BY <1>2, <1>3, <1>4, <1>12, <1>13
<1> QED
  BY <1>10, <1>11, <1>12, <1>13, <1>14

-----------------------------------------------------------------------------
(* THE RANK OF A BIT *)

(* The numbers of the bits a mask selects. *)
Ones(mask) == {r \in 0 .. Width - 1 : Bit(value(mask), r) = 1}

(* The ones of a mask, by their rank in the shift, are its set bits, by byte and bit of it. *)
LEMMA OnesAreMaskBits ==
  ASSUME NEW mask, Fits(mask)
  PROVE  /\ \A r \in 0 .. Width - 1 : r \in Ones(mask) <=> At(r) \in MaskBits(mask)
         /\ \A p \in MaskBits(mask) : \E r \in Ones(mask) : At(r) = p
<1>1. mask.len = Size /\ mask.len \in Nat /\ \A i \in 0 .. mask.len - 1 : mask.val[i] \in Byte
  BY FitsBytes DEF Fits
<1>2. \A r \in 0 .. Width - 1 : r \in Ones(mask) <=> At(r) \in MaskBits(mask)
  <2> SUFFICES ASSUME NEW r \in 0 .. Width - 1
               PROVE  r \in Ones(mask) <=> At(r) \in MaskBits(mask)
    OBVIOUS
  <2>1. r \in 0 .. (ByteBits * mask.len) - 1
    BY <1>1 DEF Width
  <2>2. Bit(value(mask), r) = BitOfValue(mask, r)
    BY <1>1, <2>1, ValueBits
  <2>3. BitOfValue(mask, r) = Bit(mask.val[At(r)[1]], At(r)[2])
    BY <1>1 DEF BitOfValue, At
  <2>4. At(r) \in (0 .. mask.len - 1) \X (0 .. ByteBits - 1)
    BY <1>1, Places
  <2> QED
    BY <2>2, <2>3, <2>4 DEF Ones, MaskBits
<1>3. \A p \in MaskBits(mask) : \E r \in Ones(mask) : At(r) = p
  <2> SUFFICES ASSUME NEW p \in MaskBits(mask) PROVE \E r \in Ones(mask) : At(r) = p
    OBVIOUS
  <2>1. p \in (0 .. Size - 1) \X (0 .. ByteBits - 1)
    BY <1>1 DEF MaskBits
  <2>2. PICK i \in 0 .. Size - 1, b \in 0 .. ByteBits - 1 : p = <<i, b>>
    BY <2>1
  <2>3. PICK r \in 0 .. Width - 1 : At(r) = <<i, b>>
    BY PlaceOfBit
  <2> QED
    BY <1>2, <2>2, <2>3
<1> QED
  BY <1>2, <1>3

(* The mask bits below a bit are as many as the ones of the number below it. *)
LEMMA RankCounts ==
  ASSUME NEW mask, Fits(mask)
  PROVE  /\ IsFiniteSet(Ones(mask)) /\ Cardinality(Ones(mask)) \in 0 .. Width
         /\ Cardinality(MaskBits(mask)) = Cardinality(Ones(mask))
         /\ \A r \in Ones(mask) :
              /\ Rank(mask, At(r)) = Cardinality({q \in Ones(mask) : q < r})
              /\ Rank(mask, At(r)) \in 0 .. Cardinality(Ones(mask)) - 1
<1> DEFINE O == Ones(mask)
           M == MaskBits(mask)
<1>1. IsFiniteSet(O) /\ Cardinality(O) \in 0 .. Width
  <2>1. IsFiniteSet(0 .. Width - 1) /\ Cardinality(0 .. Width - 1) = Width
    <3>1. 0 \in Int /\ Width - 1 \in Int /\ ~(0 > Width - 1) /\ (Width - 1) - 0 + 1 = Width
      BY Sizes
    <3> QED
      BY <3>1, FS_Interval
  <2>2. O \in SUBSET (0 .. Width - 1)
    BY DEF Ones
  <2>3. IsFiniteSet(O) /\ Cardinality(O) <= Cardinality(0 .. Width - 1)
    <3> HIDE DEF O
    <3> QED
      BY <2>1, <2>2, FS_Subset
  <2>4. Cardinality(O) \in Nat
    BY <2>3, FS_CardinalityType
  <2> HIDE DEF O
  <2> QED
    BY <2>1, <2>3, <2>4, Sizes
<1>2. ASSUME NEW S \in SUBSET O, NEW T \in SUBSET M,
             \A r \in O : r \in S <=> At(r) \in T
      PROVE  Cardinality(T) = Cardinality(S)
  <2> DEFINE f == [r \in S |-> At(r)]
  <2>1. \A r \in S : r \in O /\ r \in 0 .. Width - 1
    BY DEF Ones
  <2>2. f \in [S -> T]
    BY <1>2, <2>1
  <2>3. \A a, b \in S : f[a] = f[b] => a = b
    BY <2>1, Order
  <2>4. \A t \in T : \E s \in S : f[s] = t
    <3> SUFFICES ASSUME NEW t \in T PROVE \E s \in S : f[s] = t
      OBVIOUS
    <3>1. PICK r \in O : At(r) = t
      BY OnesAreMaskBits
    <3>2. r \in S
      BY <1>2, <3>1
    <3> QED
      BY <3>1, <3>2
  <2>5. f \in Bijection(S, T)
    <3> HIDE DEF f
    <3>1. IsInjective(f)
      BY <2>2, <2>3 DEF IsInjective
    <3> QED
      BY <2>2, <2>4, <3>1 DEF Bijection, Injection, Surjection
  <2>6. ExistsBijection(S, T)
    <3> HIDE DEF f
    <3> QED
      BY <2>5 DEF ExistsBijection
  <2>7. IsFiniteSet(S)
    <3> HIDE DEF O
    <3> QED
      BY <1>1, FS_Subset
  <2> QED
    BY <2>6, <2>7, FS_Bijection
<1>3. Cardinality(M) = Cardinality(O)
  <2>1. \A r \in O : r \in O <=> At(r) \in M
    BY OnesAreMaskBits DEF Ones
  <2> HIDE DEF O, M
  <2> QED
    BY <1>2, <2>1
<1>4. ASSUME NEW r \in O
      PROVE  /\ Rank(mask, At(r)) = Cardinality({q \in O : q < r})
             /\ Rank(mask, At(r)) \in 0 .. Cardinality(O) - 1
  <2> DEFINE S == {q \in O : q < r}
             T == {p \in M : p[1] > At(r)[1] \/ (p[1] = At(r)[1] /\ p[2] < At(r)[2])}
  <2>1. \A q \in O : q \in 0 .. Width - 1 /\ At(q) \in M
    BY OnesAreMaskBits DEF Ones
  <2>2. \A q \in O : q \in S <=> At(q) \in T
    <3> SUFFICES ASSUME NEW q \in O PROVE q \in S <=> At(q) \in T
      OBVIOUS
    <3>1. q \in 0 .. Width - 1 /\ r \in 0 .. Width - 1 /\ At(q) \in M
      BY <2>1
    <3>2. (At(q)[1] > At(r)[1] \/ (At(q)[1] = At(r)[1] /\ At(q)[2] < At(r)[2])) <=> q < r
      BY <3>1, Order
    <3> HIDE DEF M, O
    <3> QED
      BY <3>1, <3>2
  <2>3. Cardinality(T) = Cardinality(S)
    <3>1. S \in SUBSET O /\ T \in SUBSET M
      OBVIOUS
    <3> HIDE DEF S, T, O, M
    <3> QED
      BY <1>2, <2>2, <3>1
  <2>4. Rank(mask, At(r)) = Cardinality(T)
    BY DEF Rank
  <2>5. S \in SUBSET O /\ S # O
    <3>1. r \notin S
      <4>1. r \in Int
        BY <2>1
      <4> QED
        BY <4>1
    <3> QED
      BY <3>1
  <2>6. IsFiniteSet(S) /\ Cardinality(S) <= Cardinality(O) /\ Cardinality(O) # Cardinality(S)
    <3> HIDE DEF S, O
    <3> QED
      BY <1>1, <2>5, FS_Subset
  <2>7. Cardinality(S) \in Nat
    BY <2>6, FS_CardinalityType
  <2> HIDE DEF S, T, O
  <2> QED
    BY <1>1, <2>3, <2>4, <2>6, <2>7 DEF S
<1> QED
  BY <1>1, <1>3, <1>4

(* The pieces have a byte for every started eight bits of the mask. *)
LEMMA NumBytes ==
  ASSUME NEW k \in 0 .. Width
  PROVE  xsvfGetAsNumBytes(k) \in 0 .. Size /\ k <= ByteBits * xsvfGetAsNumBytes(k)
<1> DEFINE t == k + ByteBits - 1
           x == t \div ByteBits
           m == t % ByteBits
           H == 2 * ShortHalf
           s == x + ShortHalf
<1>1. /\ ByteBits \in Nat \ {0} /\ Size \in 1 .. MaxLen /\ MaxLen \in Nat /\ Width = ByteBits * Size
      /\ ShortHalf \in Nat /\ ShortHalf > MaxLen + 1 /\ Width \in Nat
  BY Sizes, LenValAssumption
<1>2. t \in Nat
  BY <1>1
<1>3. x \in Nat /\ m \in 0 .. ByteBits - 1 /\ t = ByteBits * x + m
  <2> HIDE DEF t
  <2> QED
    BY <1>1, <1>2, NatQuotient
<1>4. k <= ByteBits * x
  <2> HIDE DEF x, m
  <2>1. ByteBits * x \in Nat
    BY <1>1, <1>3
  <2> QED
    BY <1>1, <1>3, <2>1
<1>5. x <= Size
  <2> HIDE DEF x, m
  <2> SUFFICES ASSUME x >= Size + 1 PROVE FALSE
    BY <1>1, <1>3
  <2>1. ByteBits * x >= ByteBits * (Size + 1)
    BY <1>1, <1>3
  <2>2. ByteBits * (Size + 1) = ByteBits * Size + ByteBits /\ ByteBits * x \in Nat
    BY <1>1, <1>3
  <2> QED
    BY <1>1, <1>3, <2>1, <2>2
<1>6. s \in 0 .. H - 1 /\ H \in Nat \ {0}
  <2> HIDE DEF x
  <2> QED
    BY <1>1, <1>3, <1>5
<1>7. s % H = s
  <2> HIDE DEF s, H
  <2>1. (H * 0 + s) % H = s
    BY <1>6, Quotient
  <2>2. H * 0 + s = s
    BY <1>6
  <2> QED
    BY <2>1, <2>2
<1>8. xsvfGetAsNumBytes(k) = x
  <2>1. xsvfGetAsNumBytes(k) = (s % H) - ShortHalf
    BY DEF xsvfGetAsNumBytes
  <2> HIDE DEF x, H
  <2> QED
    BY <1>1, <1>3, <1>7, <2>1
<1> HIDE DEF x
<1> QED
  BY <1>1, <1>3, <1>4, <1>5, <1>8

-----------------------------------------------------------------------------
(* THE INVARIANT *)

(* All values are of the size of the shift, and bytes. *)
Inv ==
  /\ Fits(lvTdi) /\ Fits(lvAddressMask) /\ Fits(lvDataMask) /\ Fits(first)
  /\ lvNextData.val \in [0 .. MaxLen -> Byte]
  /\ pieces \in Nat

(* A value that has been read from the file fits. *)
LEMMA WrittenFits == ASSUME NEW number \in Nat PROVE Fits(Written(number, Size))
BY WrittenType, Sizes DEF Fits

(* The inductive invariant holds at the start ... *)
LEMMA InitInv == Init => Inv
<1> SUFFICES ASSUME Init PROVE Inv
  OBVIOUS
<1>1. \A n \in Firsts \cup Addresses \cup Masks : Fits(Written(n, Size))
  <2>1. \A n \in Firsts \cup Addresses \cup Masks : n \in Nat
    BY IncrementAssumption
  <2> QED
    BY <2>1, WrittenFits
<1> QED
  BY <1>1, ZeroedType DEF Init, Inv

(* A piece is as many bytes as the mask needs, and fits the buffer. *)
LEMMA PieceType ==
  ASSUME Inv, NEW bytes \in [1 .. PieceBytes -> Byte]
  PROVE  /\ readVal(lvNextData, bytes).len \in 0 .. Size
         /\ Cardinality(Ones(lvDataMask)) <= ByteBits * readVal(lvNextData, bytes).len
         /\ readVal(lvNextData, bytes).val \in [0 .. MaxLen -> Byte]
<1>1. PieceBytes \in 0 .. Size /\ Cardinality(Ones(lvDataMask)) <= ByteBits * PieceBytes
  BY RankCounts, NumBytes DEF Inv, PieceBytes
<1>2. PieceBytes \in Nat /\ Len(bytes) = PieceBytes
  BY <1>1
<1> DEFINE new == readVal(lvNextData, bytes)
<1>3. new = [len |-> PieceBytes,
             val |-> [i \in 0 .. MaxLen |-> IF i < PieceBytes THEN bytes[i + 1]
                                                              ELSE lvNextData.val[i]]]
  BY <1>2 DEF readVal
<1>4. \A i \in 0 .. MaxLen : i < PieceBytes => i + 1 \in 1 .. PieceBytes
  BY <1>2, Sizes
<1>5. \A i \in 0 .. MaxLen : (IF i < PieceBytes THEN bytes[i + 1] ELSE lvNextData.val[i]) \in Byte
  BY <1>4 DEF Inv
<1> QED
  BY <1>1, <1>3, <1>5

(* What is inserted keeps the size, and replaces the selected bits. *)
LEMMA InsertedBits ==
  ASSUME NEW lv, Fits(lv), NEW mask, Fits(mask),
         NEW next, next.len \in 0 .. Size, next.val \in [0 .. MaxLen -> Byte],
         Cardinality(Ones(mask)) <= ByteBits * next.len
  PROVE  /\ Fits(Inserted(lv, next, mask))
         /\ \A r \in 0 .. Width - 1 :
              Bit(value(Inserted(lv, next, mask)), r) =
                IF r \in Ones(mask) THEN Bit(value(next), Cardinality({q \in Ones(mask) : q < r}))
                                    ELSE Bit(value(lv), r)
<1> DEFINE new == Inserted(lv, next, mask)
           bit(i) == [b \in 0 .. ByteBits - 1 |->
                        IF <<i, b>> \in MaskBits(mask) THEN BitOfValue(next, Rank(mask, <<i, b>>))
                                                       ELSE Bit(lv.val[i], b)]
<1>0. /\ ByteBits \in Nat \ {0} /\ MaxLen \in Nat /\ Size \in 1 .. MaxLen /\ Width = ByteBits * Size
      /\ Width \in Nat
  BY Sizes
<1>1. mask.len = Size /\ lv.len = Size /\ lv.val \in [0 .. MaxLen -> Byte]
  BY DEF Fits
<1>2. next.len \in Nat /\ \A i \in 0 .. next.len - 1 : next.val[i] \in Byte
  <2>1. \A i \in 0 .. next.len - 1 : i \in 0 .. MaxLen
    BY <1>0
  <2> QED
    BY <1>0, <2>1
<1>3. ASSUME NEW r \in Ones(mask)
      PROVE  /\ BitOfValue(next, Rank(mask, At(r))) =
                  Bit(value(next), Cardinality({q \in Ones(mask) : q < r}))
             /\ BitOfValue(next, Rank(mask, At(r))) \in {0, 1}
  <2> DEFINE k == Rank(mask, At(r))
  <2>1. k = Cardinality({q \in Ones(mask) : q < r}) /\ k \in 0 .. Cardinality(Ones(mask)) - 1
        /\ Cardinality(Ones(mask)) \in Nat
    BY RankCounts
  <2>2. k \in 0 .. (ByteBits * next.len) - 1
    <3>1. ByteBits * next.len \in Nat
      BY <1>0, <1>2
    <3> HIDE DEF k
    <3> QED
      BY <2>1, <3>1
  <2>3. /\ Bit(value(next), k) = BitOfValue(next, k)
        /\ value(next) \in 0 .. Pow2[ByteBits * next.len] - 1
    <3> HIDE DEF k
    <3> QED
      BY <1>2, <2>2, ValueBits
  <2>4. Bit(value(next), k) \in {0, 1}
    <3>1. ByteBits * next.len \in Nat
      BY <1>0, <1>2
    <3>2. value(next) \in Nat
      BY <2>3, <3>1, Powers
    <3>3. k \in Nat
      <4> HIDE DEF k
      <4> QED
        BY <2>1
    <3> HIDE DEF k
    <3> QED
      BY <3>2, <3>3, BitType
  <2> QED
    BY <2>1, <2>3, <2>4
<1>4. ASSUME NEW i \in 0 .. Size - 1
      PROVE  /\ new.val[i] = ByteOf(bit(i)) /\ new.val[i] \in Byte
             /\ \A b \in 0 .. ByteBits - 1 : Bit(new.val[i], b) = bit(i)[b]
  <2>1. i \in 0 .. MaxLen /\ i < mask.len
    BY <1>0, <1>1
  <2>2. new.val[i] = ByteOf(bit(i))
    BY <1>1, <2>1 DEF Inserted
  <2>3. ASSUME NEW b \in 0 .. ByteBits - 1 PROVE bit(i)[b] \in {0, 1}
    <3>1. bit(i)[b] = IF <<i, b>> \in MaskBits(mask) THEN BitOfValue(next, Rank(mask, <<i, b>>))
                                                     ELSE Bit(lv.val[i], b)
      OBVIOUS
    <3>2. CASE <<i, b>> \in MaskBits(mask)
      <4>1. PICK r \in Ones(mask) : At(r) = <<i, b>>
        BY <3>2, OnesAreMaskBits
      <4>2. BitOfValue(next, Rank(mask, <<i, b>>)) \in {0, 1}
        BY <1>3, <4>1
      <4> HIDE DEF bit
      <4> QED
        BY <3>1, <3>2, <4>2
    <3>3. CASE <<i, b>> \notin MaskBits(mask)
      <4>1. lv.val[i] \in Nat /\ b \in Nat
        BY <1>1, <2>1, BaseType
      <4>2. Bit(lv.val[i], b) \in {0, 1}
        BY <4>1, BitType
      <4> HIDE DEF bit
      <4> QED
        BY <3>1, <3>3, <4>2
    <3> QED
      BY <3>2, <3>3
  <2> HIDE DEF new, bit
  <2> QED
    BY <2>2, <2>3, ByteOfBits
<1>5. new.len = Size /\ new.val \in [0 .. MaxLen -> Byte]
  <2>1. new.len = Size
    BY <1>1 DEF Inserted
  <2>2. new.val = [i \in 0 .. MaxLen |-> IF i < mask.len THEN ByteOf(bit(i)) ELSE lv.val[i]]
    BY <1>1 DEF Inserted
  <2>3. ASSUME NEW i \in 0 .. MaxLen
        PROVE  (IF i < mask.len THEN ByteOf(bit(i)) ELSE lv.val[i]) \in Byte
    <3>1. CASE i < mask.len
      <4>1. i \in 0 .. Size - 1
        BY <1>0, <1>1, <3>1
      <4>2. ByteOf(bit(i)) \in Byte
        <5> HIDE DEF new, bit
        <5> QED
          BY <1>4, <4>1
      <4> HIDE DEF bit
      <4> QED
        BY <3>1, <4>2
    <3>2. CASE ~(i < mask.len)
      BY <1>1, <3>2
    <3> QED
      BY <3>1, <3>2
  <2> HIDE DEF new, bit
  <2> QED
    BY <2>1, <2>2, <2>3
<1>6. Fits(new)
  <2> HIDE DEF new
  <2> QED
    BY <1>5 DEF Fits
<1>7. ASSUME NEW r \in 0 .. Width - 1
      PROVE  Bit(value(new), r) =
               IF r \in Ones(mask) THEN Bit(value(next), Cardinality({q \in Ones(mask) : q < r}))
                                   ELSE Bit(value(lv), r)
  <2> DEFINE i == Size - 1 - (r \div ByteBits)
             b == r % ByteBits
  <2>1. i \in 0 .. Size - 1 /\ b \in 0 .. ByteBits - 1 /\ At(r) = <<i, b>>
    <3>1. r \div ByteBits \in 0 .. Size - 1 /\ b \in 0 .. ByteBits - 1
      BY Places
    <3> DEFINE q == r \div ByteBits
    <3> HIDE DEF q
    <3>2. Size - 1 - q \in 0 .. Size - 1
      BY <1>0, <3>1 DEF q
    <3> QED
      BY <3>1, <3>2 DEF q, At
  <2>2. Bit(value(new), r) = Bit(new.val[i], b)
    <3>1. new.len = Size /\ new.len \in Nat /\ \A j \in 0 .. new.len - 1 : new.val[j] \in Byte
      <4> HIDE DEF new
      <4> QED
        BY <1>0, <1>4, <1>5
    <3>2. r \in 0 .. (ByteBits * new.len) - 1
      <4> HIDE DEF new
      <4> QED
        BY <1>0, <3>1
    <3> HIDE DEF new
    <3> QED
      BY <3>1, <3>2, ValueBits DEF BitOfValue
  <2>3. Bit(value(lv), r) = Bit(lv.val[i], b)
    <3>1. lv.len \in Nat /\ \A j \in 0 .. lv.len - 1 : lv.val[j] \in Byte
      BY FitsBytes
    <3>2. r \in 0 .. (ByteBits * lv.len) - 1
      BY <1>0, <1>1
    <3> QED
      BY <1>1, <3>1, <3>2, ValueBits DEF BitOfValue
  <2>4. Bit(new.val[i], b) = bit(i)[b]
    <3> HIDE DEF new, bit, i, b
    <3> QED
      BY <1>4, <2>1
  <2>5. bit(i)[b] = IF At(r) \in MaskBits(mask) THEN BitOfValue(next, Rank(mask, At(r)))
                                                ELSE Bit(lv.val[i], b)
    <3> HIDE DEF i, b
    <3> QED
      BY <2>1
  <2>6. r \in Ones(mask) <=> At(r) \in MaskBits(mask)
    BY OnesAreMaskBits
  <2> HIDE DEF new, bit, i, b
  <2> QED
    BY <1>3, <2>2, <2>3, <2>4, <2>5, <2>6
<1> HIDE DEF new
<1> QED
  BY <1>6, <1>7 DEF new

(* One piece: what the code computes, and that it is the sum with the piece put in. *)
LEMMA PieceStep ==
  ASSUME Inv, Piece
  PROVE  /\ Inv'
         /\ \A r \in 0 .. Width - 1 :
              Bit(value(lvTdi)', r) =
                IF r \in DataBits
                THEN Bit(value(lvNextData)', Cardinality({q \in DataBits : q < r}))
                ELSE Bit((value(lvTdi) + Address) % Modulus, r)
<1> DEFINE sum == addVal(lvTdi, lvTdi, lvAddressMask)
<1>1. PICK bytes \in [1 .. PieceBytes -> Byte] : lvNextData' = readVal(lvNextData, bytes)
  BY DEF Piece
<1>2. /\ lvNextData'.len \in 0 .. Size /\ lvNextData'.val \in [0 .. MaxLen -> Byte]
      /\ Cardinality(Ones(lvDataMask)) <= ByteBits * lvNextData'.len
  BY <1>1, PieceType
<1>3. lvTdi' = Inserted(sum, lvNextData', lvDataMask)
  BY DEF Piece, xsvfDoSDRMasking
<1>4. Fits(sum) /\ value(sum) = (value(lvTdi) + Address) % Modulus
  <2>1. /\ lvTdi.len = Size /\ lvAddressMask.len = Size /\ lvTdi.len \in 0 .. MaxLen + 1
        /\ lvTdi.val \in [0 .. MaxLen -> Byte]
        /\ \A i \in 0 .. lvTdi.len - 1 : lvTdi.val[i] \in Byte /\ lvAddressMask.val[i] \in Byte
    BY FitsBytes DEF Inv, Fits
  <2>2. /\ sum.len = lvTdi.len
        /\ \A i \in 0 .. lvTdi.len - 1 : sum.val[i] \in Byte
        /\ \A i \in lvTdi.len .. MaxLen : sum.val[i] = lvTdi.val[i]
        /\ value(sum) = (value(lvTdi) + value(lvAddressMask)) % Pow2[ByteBits * lvTdi.len]
    BY <2>1, AddIsSum
  <2>3. sum.val = [i \in 0 .. MaxLen |-> sum.val[i]]
    BY DEF addVal
  <2>4. \A i \in 0 .. MaxLen : sum.val[i] \in Byte
    <3> SUFFICES ASSUME NEW i \in 0 .. MaxLen PROVE sum.val[i] \in Byte
      OBVIOUS
    <3>1. i \in 0 .. Size - 1 \/ i \in Size .. MaxLen
      BY Sizes
    <3> HIDE DEF sum
    <3> QED
      BY <2>1, <2>2, <3>1
  <2> HIDE DEF sum
  <2> QED
    BY <2>1, <2>2, <2>3, <2>4 DEF Fits, Address, Modulus, Width
<1> HIDE DEF sum
<1>5. /\ Fits(lvTdi')
      /\ \A r \in 0 .. Width - 1 :
           Bit(value(lvTdi'), r) =
             IF r \in Ones(lvDataMask)
             THEN Bit(value(lvNextData'), Cardinality({q \in Ones(lvDataMask) : q < r}))
             ELSE Bit(value(sum), r)
  BY <1>2, <1>3, <1>4, InsertedBits DEF Inv
<1>6. DataBits = Ones(lvDataMask)
  BY DEF DataBits, Ones, Mask
<1>7. Inv'
  BY <1>2, <1>5 DEF Inv, Piece, Fits
<1> QED
  BY <1>4, <1>5, <1>6, <1>7

(* ... is kept by a piece and by the end ... *)
LEMMA StepInv == Inv /\ [Next]_vars => Inv'
<1>1. ASSUME Inv, Piece PROVE Inv'
  BY <1>1, PieceStep
<1>2. ASSUME Inv, Finished \/ UNCHANGED vars PROVE Inv'
  BY <1>2 DEF Inv, Fits, Finished, vars
<1> QED
  BY <1>1, <1>2 DEF Next

(* ... and so holds in every reachable state. *)
LEMMA Invariance == Spec => []Inv
BY InitInv, StepInv, PTL DEF Spec

(* The numbers that values stand for. *)
LEMMA FitsNumber ==
  ASSUME NEW lv, Fits(lv)
  PROVE  value(lv) \in 0 .. Modulus - 1 /\ value(lv) \in Nat
<1>1. value(lv) \in 0 .. Pow2[ByteBits * lv.len] - 1
  BY FitsBytes, ValueBits
<1> QED
  BY <1>1, Sizes DEF Fits, Modulus, Width

-----------------------------------------------------------------------------
(* WHAT THE MANUAL OF THE COMMAND SAYS *)

(* A number without bits below d leaves the lower bits of a sum alone. *)
LEMMA LowSum ==
  ASSUME NEW w \in Nat, NEW d \in 0 .. w, NEW x \in Nat, NEW y \in Nat, y % Pow2[d] = 0,
         NEW i \in 0 .. d - 1
  PROVE  Bit((x + y) % Pow2[w], i) = Bit(x, i)
<1> DEFINE D == Pow2[d]
           M == Pow2[w]
           N == Pow2[w - d]
           q == x \div D
           r == x % D
           a == y \div D
           s == (x + y) % M
           k == (x + y) \div M
<1>1. D \in Nat \ {0} /\ N \in Nat \ {0} /\ M \in Nat \ {0} /\ M = D * N /\ d \in Nat /\ i \in Nat
  <2>1. d \in Nat /\ w - d \in Nat /\ d + (w - d) = w /\ i \in Nat
    OBVIOUS
  <2>2. Pow2[d + (w - d)] = Pow2[d] * Pow2[w - d]
    BY <2>1, PowerOfSum
  <2> QED
    BY <2>1, <2>2, Powers
<1>2. q \in Nat /\ r \in 0 .. D - 1 /\ x = D * q + r
  <2> HIDE DEF D
  <2> QED
    BY <1>1, NatQuotient
<1>3. a \in Nat /\ y = D * a
  <2>1. a \in Nat /\ y = D * a + (y % D)
    <3> HIDE DEF D
    <3> QED
      BY <1>1, NatQuotient
  <2> HIDE DEF a
  <2> QED
    BY <1>1, <2>1
<1>4. s \in 0 .. M - 1 /\ k \in Nat /\ x + y = M * k + s /\ s \in Nat
  <2> HIDE DEF M
  <2> DEFINE t == x + y
  <2>1. t \in Nat
    OBVIOUS
  <2> HIDE DEF t
  <2>2. t \div M \in Nat /\ t % M \in 0 .. M - 1 /\ t = M * (t \div M) + (t % M)
    BY <1>1, <2>1, NatQuotient
  <2>3. t % M \in Nat
    BY <1>1, <2>2
  <2> QED
    BY <2>2, <2>3 DEF t
<1>5. s = D * (s \div D) + (s % D) /\ s % D \in 0 .. D - 1 /\ s \div D \in Nat
  <2> HIDE DEF D, s
  <2> QED
    BY <1>1, <1>4, NatQuotient
<1>6. s % D = r
  <2> HIDE DEF D, M, N, q, r, a, s, k
  <2>1. s = D * (q + a - N * k) + r
    <3>1. x + y = D * q + D * a + r /\ M * k = D * (N * k)
      BY <1>1, <1>2, <1>3, <1>4
    <3>2. D * (q + a - N * k) = D * q + D * a - D * (N * k)
      BY <1>1, <1>2, <1>3, <1>4
    <3> QED
      BY <1>1, <1>2, <1>3, <1>4, <3>1, <3>2
  <2>2. q + a - N * k \in Int
    BY <1>1, <1>2, <1>3, <1>4
  <2> DEFINE t == q + a - N * k
  <2> HIDE DEF t
  <2> QED
    BY <1>1, <1>2, <2>1, <2>2, Quotient DEF t
<1>7. Bit(s, i) = Bit(s % D, i) /\ Bit(x, i) = Bit(r, i)
  <2>1. i < d /\ r \in 0 .. Pow2[d] - 1 /\ s % D \in 0 .. Pow2[d] - 1
    BY <1>2, <1>5
  <2>2. Bit(Pow2[d] * (s \div D) + (s % D), i) = Bit(s % D, i)
    <3> DEFINE u == s \div D
               v == s % D
    <3> HIDE DEF u, v
    <3> QED
      BY <1>1, <1>5, <2>1, BitsOfParts DEF u, v
  <2>3. Bit(Pow2[d] * q + r, i) = Bit(r, i)
    <3> HIDE DEF q, r
    <3> QED
      BY <1>1, <1>2, <2>1, BitsOfParts
  <2> HIDE DEF q, r, s
  <2> QED
    BY <1>2, <1>5, <2>2, <2>3
<1> QED
  BY <1>6, <1>7

(* The data field ends at some bit; an address field that is apart from it starts there. *)
LEMMA FieldsMeet ==
  ASSUME Inv, Apart
  PROVE  \E d \in 0 .. Width : (\A r \in DataBits : r < d) /\ Address % Pow2[d] = 0
<1>1. Width \in Nat /\ DataBits \subseteq 0 .. Width - 1
  BY Sizes DEF DataBits
<1> DEFINE Below(n, d) == (\A r \in DataBits : r < n => r < d) /\ Address % Pow2[d] = 0
           G == {n \in Nat : n <= Width => \E d \in 0 .. n : Below(n, d)}
<1>2. 0 \in G
  <2>1. Pow2[0] = 1 /\ Address \in Nat
    BY Powers, FitsNumber DEF Inv, Address
  <2>2. Address % 1 = 0
    BY <2>1
  <2>3. Below(0, 0)
    BY <1>1, <2>1, <2>2
  <2> QED
    BY <2>3
<1>3. ASSUME NEW n \in Nat, n \in G PROVE n + 1 \in G
  <2> SUFFICES ASSUME n + 1 <= Width PROVE \E d \in 0 .. n + 1 : Below(n + 1, d)
    OBVIOUS
  <2>1. CASE n \in DataBits
    <3>1. Address % Pow2[n + 1] = 0
      BY <2>1 DEF Apart
    <3>2. Below(n + 1, n + 1)
      BY <3>1
    <3> QED
      BY <3>2
  <2>2. CASE n \notin DataBits
    <3>1. PICK d \in 0 .. n : Below(n, d)
      BY <1>1, <1>3
    <3>2. \A r \in DataBits : r < n + 1 => r < n
      BY <1>1, <2>2
    <3>3. Below(n + 1, d) /\ d \in 0 .. n + 1
      BY <3>1, <3>2
    <3> QED
      BY <3>3
  <2> QED
    BY <2>1, <2>2
<1>4. Nat \subseteq G
  <2> HIDE DEF G
  <2> QED
    BY <1>2, <1>3, NatSets
<1>5. PICK d \in 0 .. Width : Below(Width, d)
  BY <1>1, <1>4
<1>6. \A r \in DataBits : r < Width
  BY <1>1
<1> QED
  BY <1>5, <1>6

(* One piece replaces the bits and adds the address, in this order, if the fields are apart. *)
LEMMA PieceApplied ==
  ASSUME Inv, Piece, Apart
  PROVE  \E replaced \in 0 .. Modulus - 1 :
           /\ Replaces(replaced, value(lvTdi), value(lvNextData)')
           /\ value(lvTdi)' = (replaced + Address) % Modulus
<1> DEFINE put == Inserted(lvTdi, lvNextData', lvDataMask)
           old == value(lvTdi)
           replaced == value(put)
           new == value(lvTdi)'
<1>1. Width \in Nat /\ Modulus = Pow2[Width] /\ Modulus \in Nat \ {0}
  BY Sizes DEF Modulus
<1>2. Replaces(replaced, old, value(lvNextData)') /\ Fits(put)
  <2>1. PICK bytes \in [1 .. PieceBytes -> Byte] : lvNextData' = readVal(lvNextData, bytes)
    BY DEF Piece
  <2>2. /\ lvNextData'.len \in 0 .. Size /\ lvNextData'.val \in [0 .. MaxLen -> Byte]
        /\ Cardinality(Ones(lvDataMask)) <= ByteBits * lvNextData'.len
    BY <2>1, PieceType
  <2>3. DataBits = Ones(lvDataMask)
    BY DEF DataBits, Ones, Mask
  <2>4. Fits(lvTdi) /\ Fits(lvDataMask)
    BY DEF Inv
  <2> DEFINE next == lvNextData'
  <2> HIDE DEF next
  <2>5. /\ Fits(Inserted(lvTdi, next, lvDataMask))
        /\ \A r \in 0 .. Width - 1 :
             Bit(value(Inserted(lvTdi, next, lvDataMask)), r) =
               IF r \in Ones(lvDataMask)
               THEN Bit(value(next), Cardinality({q \in Ones(lvDataMask) : q < r}))
               ELSE Bit(value(lvTdi), r)
    BY <2>2, <2>4, InsertedBits DEF next
  <2> QED
    BY <2>3, <2>5 DEF Replaces, next
<1>3. /\ replaced \in 0 .. Modulus - 1 /\ replaced \in Nat
      /\ old \in 0 .. Modulus - 1 /\ old \in Nat /\ Address \in Nat
      /\ new \in 0 .. Modulus - 1
  <2>1. Fits(lvTdi')
    BY PieceStep DEF Inv
  <2> HIDE DEF put
  <2> QED
    BY <1>2, <2>1, FitsNumber DEF Inv, Address
<1>4. PICK d \in 0 .. Width : (\A r \in DataBits : r < d) /\ Address % Pow2[d] = 0
  BY FieldsMeet
<1> DEFINE sum == (old + Address) % Modulus
           then == (replaced + Address) % Modulus
<1>5. sum \in 0 .. Modulus - 1 /\ then \in 0 .. Modulus - 1
  <2> HIDE DEF old, replaced
  <2> QED
    BY <1>1, <1>3
<1>6. ASSUME NEW r \in 0 .. Width - 1
      PROVE  /\ Bit(new, r) = IF r \in DataBits
                              THEN Bit(value(lvNextData)', Cardinality({q \in DataBits : q < r}))
                              ELSE Bit(sum, r)
             /\ Bit(replaced, r) = IF r \in DataBits
                              THEN Bit(value(lvNextData)', Cardinality({q \in DataBits : q < r}))
                              ELSE Bit(old, r)
  BY <1>2, PieceStep DEF Replaces
<1> HIDE DEF new, old, replaced
<1>7. old \div Pow2[d] = replaced \div Pow2[d]
  <2>1. /\ old \div Pow2[d] \in 0 .. Pow2[Width - d] - 1
        /\ \A i \in Nat : Bit(old \div Pow2[d], i) = Bit(old, d + i)
    BY <1>1, <1>3, HighPart
  <2>2. /\ replaced \div Pow2[d] \in 0 .. Pow2[Width - d] - 1
        /\ \A i \in Nat : Bit(replaced \div Pow2[d], i) = Bit(replaced, d + i)
    BY <1>1, <1>3, HighPart
  <2>3. ASSUME NEW i \in 0 .. (Width - d) - 1
        PROVE  Bit(old \div Pow2[d], i) = Bit(replaced \div Pow2[d], i)
    <3>1. d + i \in 0 .. Width - 1 /\ ~(d + i < d) /\ i \in Nat
      BY <1>1
    <3> QED
      BY <1>4, <1>6, <2>1, <2>2, <3>1
  <2> QED
    BY <1>1, <2>1, <2>2, <2>3, SameBits
<1>8. sum \div Pow2[d] = then \div Pow2[d]
  BY <1>1, <1>3, <1>4, <1>7, HighSum
<1>9. ASSUME NEW r \in 0 .. Width - 1 PROVE Bit(new, r) = Bit(then, r)
  <2>1. CASE r < d
    <3>1. r \in 0 .. d - 1
      BY <2>1
    <3>2. Bit(sum, r) = Bit(old, r) /\ Bit(then, r) = Bit(replaced, r)
      BY <1>1, <1>3, <1>4, <3>1, LowSum
    <3> QED
      BY <1>6, <3>2
  <2>2. CASE ~(r < d)
    <3>1. r \notin DataBits /\ r - d \in Nat /\ d + (r - d) = r
      BY <1>4, <2>2
    <3>2. Bit(sum, r) = Bit(sum \div Pow2[d], r - d)
          /\ Bit(then, r) = Bit(then \div Pow2[d], r - d)
      <4> HIDE DEF sum, then
      <4>1. \A i \in Nat : Bit(sum \div Pow2[d], i) = Bit(sum, d + i)
        BY <1>1, <1>5, HighPart
      <4>2. \A i \in Nat : Bit(then \div Pow2[d], i) = Bit(then, d + i)
        BY <1>1, <1>5, HighPart
      <4> QED
        BY <3>1, <4>1, <4>2
    <3> QED
      BY <1>6, <1>8, <3>1, <3>2
  <2> QED
    BY <2>1, <2>2
<1>10. new = then
  <2> HIDE DEF then
  <2> QED
    BY <1>1, <1>3, <1>5, <1>9, SameBits
<1> QED
  BY <1>2, <1>3, <1>10 DEF new, old, replaced

(* Every piece that xsvfDoSDRMasking applies replaces the bits of the data mask by the next *)
(* data, the least significant bit first and across the borders of both, and adds the       *)
(* address mask, if the address field is above the data field.                              *)
THEOREM PiecesAreApplied == Spec => PieceIsApplied
<1> DEFINE Applied ==
      Apart => \E replaced \in 0 .. Modulus - 1 :
                 /\ Replaces(replaced, value(lvTdi), value(lvNextData)')
                 /\ value(lvTdi)' = (replaced + Address) % Modulus
<1>1. Inv /\ [Next]_vars => [Applied]_vars
  BY PieceApplied DEF Next, Finished
<1> QED
  BY <1>1, Invariance, PTL DEF Spec, PieceIsApplied

-----------------------------------------------------------------------------
(* THE ADDRESSES *)

(* With the address field at bit d and no carry into it the address is right. *)
Counts(d) ==
  value(lvTdi) \div Pow2[d]
    = ((value(first) \div Pow2[d]) + pieces * (Address \div Pow2[d])) % Pow2[Width - d]

(* Before the first piece the address is that of the first shift. *)
LEMMA CountsFrom ==
  ASSUME Inv, NEW d \in 0 .. Width, lvTdi = first, pieces = 0
  PROVE  Counts(d)
<1> DEFINE x == value(first) \div Pow2[d]
           a == Address \div Pow2[d]
<1>1. x \in 0 .. Pow2[Width - d] - 1
  <2>1. value(first) \in 0 .. Pow2[Width] - 1
    BY FitsNumber DEF Inv, Modulus
  <2> QED
    BY <2>1, Sizes, HighPart
<1>2. a \in Nat /\ Pow2[Width - d] \in Nat \ {0}
  <2>1. Pow2[d] \in Nat \ {0} /\ Pow2[Width - d] \in Nat \ {0}
    BY Sizes, Powers
  <2>2. Address \in Nat
    BY FitsNumber DEF Inv, Address
  <2> QED
    BY <2>1, <2>2, NatQuotient
<1>3. x + pieces * a = x
  <2> HIDE DEF x, a
  <2> QED
    BY <1>1, <1>2
<1>4. x % Pow2[Width - d] = x
  <2> HIDE DEF x
  <2> QED
    BY <1>1, <1>2, RestOfRest
<1> QED
  BY <1>3, <1>4 DEF Counts

(* One more piece adds the address mask to the upper part of the number, modulo its size. *)
LEMMA CountsOn ==
  ASSUME Inv, Piece, NEW d \in 0 .. Width, \A r \in DataBits : r < d, Address % Pow2[d] = 0,
         Counts(d)
  PROVE  Counts(d)'
<1> DEFINE old == value(lvTdi)
           new == value(lvTdi)'
           sum == (old + Address) % Modulus
           D == Pow2[d]
           N == Pow2[Width - d]
           x == value(first) \div D
           a == Address \div D
<1>1. Width \in Nat /\ Width - d \in Nat /\ d \in Nat /\ Modulus = Pow2[Width]
  BY Sizes DEF Modulus
<1>2. D \in Nat \ {0} /\ N \in Nat \ {0} /\ Modulus \in Nat \ {0}
  BY <1>1, Powers
<1>3. /\ old \in Nat /\ Address \in Nat /\ value(first) \in Nat /\ pieces \in Nat
      /\ x \in Nat /\ a \in Nat
  <2>1. old \in Nat /\ Address \in Nat /\ value(first) \in Nat
    BY FitsNumber DEF Inv, Address
  <2>2. x \in Nat /\ a \in Nat
    BY <1>2, <2>1, NatQuotient
  <2> QED
    BY <2>1, <2>2 DEF Inv
<1>4. new \in 0 .. Modulus - 1
  <2>1. Fits(lvTdi')
    BY PieceStep DEF Inv, Fits
  <2> QED
    BY <2>1, FitsNumber
<1>5. sum \in 0 .. Modulus - 1
  <2>1. old + Address \in Nat
    BY <1>3
  <2> DEFINE both == old + Address
  <2> HIDE DEF both
  <2> QED
    BY <1>2, <2>1, NatQuotient DEF both
<1>6. new \div D = sum \div D
  <2> HIDE DEF new, sum
  <2>1. new \div D \in 0 .. N - 1 /\ \A i \in Nat : Bit(new \div D, i) = Bit(new, d + i)
    BY <1>1, <1>4, HighPart
  <2>2. sum \div D \in 0 .. N - 1 /\ \A i \in Nat : Bit(sum \div D, i) = Bit(sum, d + i)
    BY <1>1, <1>5, HighPart
  <2>3. ASSUME NEW i \in 0 .. (Width - d) - 1 PROVE Bit(new \div D, i) = Bit(sum \div D, i)
    <3>1. d + i \in 0 .. Width - 1 /\ ~(d + i < d) /\ i \in Nat
      BY <1>1
    <3>2. Bit(new, d + i) = Bit(sum, d + i)
      BY <3>1, PieceStep DEF new, sum
    <3> QED
      BY <2>1, <2>2, <3>1, <3>2
  <2> HIDE DEF D
  <2> QED
    BY <1>1, <2>1, <2>2, <2>3, SameBits
<1>7. sum \div D = ((old \div D) + a) % N
  BY <1>1, <1>3, HighSum
<1>8. old \div D = (x + pieces * a) % N
  BY DEF Counts
<1>9. ((old \div D) + a) % N = (x + (pieces + 1) * a) % N
  <2> DEFINE y == x + pieces * a
  <2>1. y \in Int /\ y + a = x + (pieces + 1) * a
    <3> HIDE DEF x, a
    <3>1. pieces * a \in Nat /\ (pieces + 1) * a = pieces * a + a
      BY <1>3
    <3> QED
      BY <1>3, <3>1
  <2>2. ((y % N) + a) % N = (y + a) % N
    <3>1. N \in Nat \ {0}
      BY <1>2
    <3>2. a \in Int
      BY <1>3
    <3>3. y \in Int
      BY <2>1
    <3> HIDE DEF y, N, a
    <3> QED
      BY <3>1, <3>2, <3>3, RestOfSum
  <2> HIDE DEF N, a, x
  <2> QED
    BY <1>8, <2>1, <2>2
<1>10. first' = first /\ lvAddressMask' = lvAddressMask /\ pieces' = pieces + 1
  BY DEF Piece
<1>11. Counts(d)' <=> new \div D = (x + (pieces + 1) * a) % N
  BY <1>10 DEF Counts, Address, Width
<1> HIDE DEF new, sum
<1> QED
  BY <1>6, <1>7, <1>9, <1>11

(* Every step keeps the count of the addresses. *)
LEMMA AddressStep == Inv /\ AddressCounts /\ [Next]_vars => AddressCounts'
<1> SUFFICES ASSUME Inv, AddressCounts, [Next]_vars PROVE AddressCounts'
  OBVIOUS
<1>1. CASE Piece
  <2>1. DataBits' = DataBits /\ Address' = Address /\ Width' = Width
    BY <1>1 DEF Piece, DataBits, Mask, Address, Width
  <2>2. ASSUME NEW d \in 0 .. Width, \A r \in DataBits : r < d
        PROVE  Counts(d)' \/ Address % Pow2[d] # 0
    <3>1. Counts(d) \/ Address % Pow2[d] # 0
      BY <2>2 DEF AddressCounts, Counts
    <3> QED
      BY <1>1, <2>2, <3>1, CountsOn
  <2> QED
    BY <2>1, <2>2 DEF AddressCounts, Counts
<1>2. CASE Finished \/ UNCHANGED vars
  BY <1>2 DEF Finished, vars, AddressCounts, DataBits, Mask, Address, Width
<1> QED
  BY <1>1, <1>2 DEF Next

(* With the data field of XSDRINC below the address field, piece after piece goes to the next *)
(* address, whatever the data were.                                                           *)
THEOREM AddressesCount == Spec => []AddressCounts
<1>1. Init => AddressCounts
  <2>1. ASSUME Init, NEW d \in 0 .. Width PROVE Counts(d)
    <3>1. Inv /\ lvTdi = first /\ pieces = 0
      BY <2>1, InitInv DEF Init
    <3> QED
      BY <3>1, CountsFrom
  <2> QED
    BY <2>1 DEF AddressCounts, Counts
<1> QED
  BY <1>1, AddressStep, Invariance, PTL DEF Spec
=============================================================================
