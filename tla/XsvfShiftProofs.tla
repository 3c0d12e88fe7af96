--------------------------- MODULE XsvfShiftProofs ---------------------------
(***************************************************************************)
(* Proofs about XsvfShift, for every size of a byte, length of a shift,    *)
(* data and number of rounds:                                              *)
(*   - the data arrive in the register of the chain, bit by bit, at the    *)
(*     place they belong to (the register is a row of cells there, and     *)
(*     BitOfValue stays closed);                                           *)
(*   - what the register held is in lvTdoCaptured;                         *)
(*   - a shift and its comparison are one step of DataExchange.            *)
(***************************************************************************)
EXTENDS XsvfShift, LenValProofs

(* A register is a row of cells, one for each bit of the shift. *)
Cells(reg) == reg = [i \in 0 .. bits - 1 |-> reg[i]]

(* Where the shift is, and that TDI holds the next bit when TCK rises. *)
Position ==
  /\ left \in 0 .. bits
  /\ pc \in {"present", "read", "high", "compare", "done"}
  /\ pc \in {"read", "high"} => left > 0 /\ tdi = BitOfValue(lvTdi, Shifted)
  /\ pc \in {"compare", "done"} => left = 0

(* The inductive invariant of the data sent. *)
IInv ==
  /\ bits \in Nat \ {0}
  /\ Cells(register) /\ Cells(before)
  /\ Position
  /\ ChainHoldsTdi

(* It holds when the shift begins ... *)
LEMMA InitInv == Init => IInv
<1> SUFFICES ASSUME Init PROVE IInv
  OBVIOUS
<1>1. bits \in Nat \ {0} /\ left = bits /\ register = before /\ pc = "present"
  BY ShiftAssumption DEF Init
<1>2. Cells(register) /\ Cells(before)
  BY <1>1 DEF Init, Contents, Cells
<1>3. ChainHoldsTdi
  BY <1>1 DEF ChainHoldsTdi, Shifted
<1> QED
  BY <1>1, <1>2, <1>3 DEF IInv, Position

-----------------------------------------------------------------------------
(* The step that moves the data: what was at i + 1 is at i, and TDI comes in at the top. *)
LEMMA ClockHighInv == IInv /\ ClockHigh => IInv'
<1> SUFFICES ASSUME IInv, ClockHigh PROVE IInv'
  OBVIOUS
<1>1. /\ bits \in Nat \ {0} /\ left \in 1 .. bits /\ tdi = BitOfValue(lvTdi, Shifted)
      /\ Cells(register) /\ Cells(before) /\ ChainHoldsTdi
  BY DEF IInv, Position, ClockHigh
<1>2. /\ bits' = bits /\ lvTdi' = lvTdi /\ before' = before /\ left' = left - 1
      /\ pc' = (IF left = 1 THEN "compare" ELSE "present")
  BY DEF ClockHigh, args
<1>3. register' = [i \in 0 .. bits - 1 |-> IF i = bits - 1 THEN tdi ELSE register[i + 1]]
  BY DEF ClockHigh, Rising
<1>4. Shifted' = Shifted + 1
  BY <1>1, <1>2 DEF Shifted
<1>5. Cells(register)' /\ Cells(before)'
  BY <1>1, <1>2, <1>3 DEF Cells
<1>6. Position'
  BY <1>1, <1>2 DEF Position
<1>7. ASSUME NEW i \in 0 .. left - 2 PROVE register'[i] = before[i + Shifted + 1]
  <2>1. register'[i] = register[i + 1]
    BY <1>1, <1>3
  <2>2. register[i + 1] = before[i + 1 + Shifted]
    BY <1>1 DEF ChainHoldsTdi
  <2>3. i + 1 + Shifted = i + Shifted + 1
    BY <1>1 DEF Shifted
  <2> QED
    BY <2>1, <2>2, <2>3
<1>8. ASSUME NEW i \in left - 1 .. bits - 1 PROVE register'[i] = BitOfValue(lvTdi, i - (left - 1))
  <2>1. CASE i = bits - 1
    <3>1. register'[i] = tdi /\ i - (left - 1) = Shifted
      BY <1>1, <1>3, <2>1 DEF Shifted
    <3> QED
      BY <1>1, <3>1
  <2>2. CASE i # bits - 1
    <3>1. i + 1 \in left .. bits - 1 /\ register'[i] = register[i + 1]
      BY <1>1, <1>3, <2>2
    <3>2. register[i + 1] = BitOfValue(lvTdi, (i + 1) - left)
      BY <1>1, <3>1 DEF ChainHoldsTdi
    <3>3. (i + 1) - left = i - (left - 1)
      BY <1>1
    <3> QED
      BY <3>1, <3>2, <3>3
  <2> QED
    BY <2>1, <2>2
<1>9. ChainHoldsTdi'
  <2>1. \A i \in 0 .. left' - 1 : register'[i] = before'[i + Shifted']
    <3> SUFFICES ASSUME NEW i \in 0 .. left' - 1 PROVE register'[i] = before'[i + Shifted']
      OBVIOUS
    <3>1. i \in 0 .. left - 2 /\ i + Shifted' = i + Shifted + 1
      BY <1>1, <1>2, <1>4 DEF Shifted
    <3> QED
      BY <1>2, <1>7, <3>1
  <2>2. \A i \in left' .. bits' - 1 : register'[i] = BitOfValue(lvTdi', i - left')
    <3> SUFFICES ASSUME NEW i \in left' .. bits' - 1
                 PROVE  register'[i] = BitOfValue(lvTdi', i - left')
      OBVIOUS
    <3> QED
      BY <1>2, <1>8
  <2> QED
    BY <2>1, <2>2 DEF ChainHoldsTdi, BitOfValue, Bit
<1> QED
  BY <1>1, <1>2, <1>5, <1>6, <1>9 DEF IInv

(* The other steps leave the register alone, or start from a new one. *)
LEMMA SameRegister ==
  ASSUME IInv, UNCHANGED <<bits, lvTdi, left, register, before>>
  PROVE  (bits \in Nat \ {0} /\ Cells(register) /\ Cells(before) /\ ChainHoldsTdi)'
<1>1. bits \in Nat \ {0} /\ Cells(register) /\ Cells(before) /\ ChainHoldsTdi
  BY DEF IInv
<1>2. ChainHoldsTdi' <=> ChainHoldsTdi
  BY DEF ChainHoldsTdi, Shifted, BitOfValue, Bit
<1> QED
  BY <1>1, <1>2 DEF Cells

(* ... and is kept by every step. *)
LEMMA StepInv == IInv /\ [Next]_vars => IInv'
<1> SUFFICES ASSUME IInv, [Next]_vars PROVE IInv'
  OBVIOUS
<1> USE DEF args, pins
<1>1. CASE Present
  <2>1. UNCHANGED <<bits, lvTdi, left, register, before>> /\ left > 0
    BY <1>1 DEF Present, Falling
  <2>2. tdi' = BitOfValue(lvTdi, Shifted) /\ pc' \in {"read", "high"}
    BY <1>1 DEF Present, NextTdi
  <2>3. BitOfValue(lvTdi, Shifted)' = BitOfValue(lvTdi, Shifted)
    BY <2>1 DEF BitOfValue, Bit, Shifted
  <2>4. Position'
    BY <2>1, <2>2, <2>3 DEF IInv, Position
  <2> QED
    BY <2>1, <2>4, SameRegister DEF IInv
<1>2. CASE ReadTdo
  <2>1. UNCHANGED <<bits, lvTdi, left, register, before, tdi>>
    BY <1>2 DEF ReadTdo
  <2>2. pc = "read" /\ pc' = "high"
    BY <1>2 DEF ReadTdo
  <2>3. BitOfValue(lvTdi, Shifted)' = BitOfValue(lvTdi, Shifted)
    BY <2>1 DEF BitOfValue, Bit, Shifted
  <2>4. Position'
    BY <2>1, <2>2, <2>3 DEF IInv, Position
  <2> QED
    BY <2>1, <2>4, SameRegister DEF IInv
<1>3. CASE ClockHigh
  BY <1>3, ClockHighInv
<1>4. CASE Compare
  <2>1. UNCHANGED <<bits, lvTdi, left, register, before>>
    BY <1>4 DEF Compare
  <2>2. Position'
    BY <1>4, <2>1 DEF Compare, IInv, Position
  <2> QED
    BY <2>1, <2>2, SameRegister DEF IInv
<1>5. CASE Settle \/ Finished \/ UNCHANGED vars
  <2>1. UNCHANGED <<bits, lvTdi, left, register, before, tdi, pc>>
    BY <1>5 DEF Settle, Finished, vars
  <2>2. BitOfValue(lvTdi, Shifted)' = BitOfValue(lvTdi, Shifted)
    BY <2>1 DEF BitOfValue, Bit, Shifted
  <2>3. Position'
    BY <2>1, <2>2 DEF IInv, Position
  <2> QED
    BY <2>1, <2>3, SameRegister DEF IInv
<1>6. CASE Again
  <2>1. /\ bits' = bits /\ bits \in Nat \ {0} /\ left' = bits /\ pc' = "present"
        /\ register' \in Contents(bits) /\ before' = register'
    BY <1>6 DEF Again, IInv
  <2>2. Cells(register)' /\ Cells(before)'
    BY <2>1 DEF Cells, Contents
  <2>3. ChainHoldsTdi'
    BY <2>1 DEF ChainHoldsTdi, Shifted
  <2> QED
    BY <2>1, <2>2, <2>3 DEF IInv, Position
<1> QED
  BY <1>1, <1>2, <1>3, <1>4, <1>5, <1>6 DEF Next, Player

(* Whatever is sent, and however often the shift is repeated, the data are in the register *)
(* of the chain from its TDI end on, the least significant bit foremost.                   *)
THEOREM DataReachChain == Spec => []ChainHoldsTdi
<1>1. Spec => []IInv
  BY InitInv, StepInv, PTL DEF Spec
<1>2. IInv => ChainHoldsTdi
  BY DEF IInv
<1> QED
  BY <1>1, <1>2, PTL

-----------------------------------------------------------------------------
(* THE VALUES OF A SHIFT *)

(* The last bit of a shift is in the first byte of its value: there is no byte too many. *)
LEMMA NoSpareByte ==
  ASSUME NEW n \in Lengths
  PROVE  ByteBits * xsvfGetAsNumBytes(n) < n + ByteBits
<1> DEFINE x == (n + ByteBits - 1) \div ByteBits
           H == 2 * ShortHalf
           y == x + ShortHalf
           N == xsvfGetAsNumBytes(n)
<1>1. n \in Nat \ {0} /\ ByteBits \in Nat \ {0} /\ ShortHalf \in Nat /\ H \in Nat \ {0}
  BY ShiftAssumption, LenValAssumption
<1>2. x \in Nat /\ ByteBits * x <= n + ByteBits - 1
  <2>1. n + ByteBits - 1 \in Nat
    BY <1>1
  <2> DEFINE k == n + ByteBits - 1
  <2> HIDE DEF k
  <2>2. k \div ByteBits \in Nat /\ k % ByteBits \in 0 .. ByteBits - 1
        /\ k = ByteBits * (k \div ByteBits) + (k % ByteBits)
    BY <1>1, <2>1, NatQuotient DEF k
  <2>3. ByteBits * (k \div ByteBits) <= k
    BY <1>1, <2>2
  <2> QED
    BY <2>2, <2>3 DEF k
<1>3. N <= x /\ N \in Int
  <2>1. y \in Nat
    BY <1>1, <1>2
  <2>2. y \div H \in Nat /\ y % H \in 0 .. H - 1 /\ y = H * (y \div H) + (y % H)
    <3> HIDE DEF y, H
    <3> QED
      BY <1>1, <2>1, NatQuotient
  <2>3. y % H <= y
    <3> DEFINE q == y \div H
               r0 == y % H
    <3>1. q \in Nat /\ r0 \in Nat /\ y = H * q + r0
      BY <1>1, <2>2
    <3> HIDE DEF q, r0, y, H
    <3>2. H * q >= 0
      BY <1>1, <3>1
    <3>3. H * q \in Int
      BY <1>1, <3>1
    <3> QED
      BY <3>1, <3>2, <3>3 DEF r0
  <2>4. N = (y % H) - ShortHalf
    BY DEF xsvfGetAsNumBytes
  <2> QED
    BY <1>1, <1>2, <2>2, <2>3, <2>4
<1>4. ByteBits * N <= ByteBits * x
  <2> HIDE DEF N, x
  <2> QED
    BY <1>1, <1>2, <1>3
<1> HIDE DEF N, x
<1>5. ByteBits * N \in Int /\ ByteBits * x \in Int
  BY <1>1, <1>2, <1>3
<1> QED
  BY <1>1, <1>2, <1>4, <1>5 DEF N

-----------------------------------------------------------------------------
(* THE CAPTURED BITS *)

(* The bytes of the shift, and the byte of the buffer in which bit i is. *)
Bytes    == xsvfGetAsNumBytes(bits)
Place(i) == Bytes - 1 - (i \div ByteBits)

(* What the shift is given and what it keeps. *)
Types ==
  /\ bits \in Lengths
  /\ judge \in {"none", "plain", "masked"}
  /\ lvTdi.len = Bytes
  /\ judge # "none" => lvTdoExpected.len = Bytes
  /\ judge = "masked" => lvTdoMask.len = Bytes
  /\ \A lv \in {lvTdi, lvTdoExpected, lvTdoMask, lvTdoCaptured} : lv.val \in [0 .. MaxLen -> Byte]
  /\ register \in Contents(bits) /\ before \in Contents(bits)
  /\ tdi \in {0, 1} /\ tck \in {0, 1} /\ tdo \in {0, 1}

(* TDO shows the next bit while TCK is low, which it is where TDO is read. *)
Wires ==
  /\ tck = 0 => tdo = register[0]
  /\ pc \in {"read", "high"} => tck = 0
  /\ pc = "read" => judge # "none"
  /\ pc \in {"compare", "done"} => tck = 1

(* What has been read so far is what the register held, and the rest of the byte is clear. *)
Taken == IF pc = "high" THEN Shifted + 1 ELSE Shifted

(* An earlier round leaves its bits in the bytes that have not been reached again: nothing is *)
(* said of those.                                                                            *)
CapturedSoFar ==
  judge # "none" =>
    /\ Taken > 0 => /\ lvTdoCaptured.len = Bytes
                    /\ lvTdoCaptured.val[Place(Taken - 1)] < Pow2[((Taken - 1) % ByteBits) + 1]
    /\ \A i \in 0 .. Taken - 1 : Bit(lvTdoCaptured.val[Place(i)], i % ByteBits) = before[i]

(* The inductive invariant of the data received. *)
CInv == IInv /\ Types /\ Wires /\ CapturedSoFar

(* The shift has at least one bit, and its bytes fit into the buffer. *)
LEMMA Sizes ==
  ASSUME bits \in Lengths
  PROVE  /\ ByteBits \in Nat \ {0} /\ MaxLen \in Nat \ {0} /\ bits \in Nat \ {0}
         /\ Bytes \in 1 .. MaxLen /\ bits <= ByteBits * Bytes /\ ByteBits * Bytes < bits + ByteBits
BY ShiftAssumption, LenValAssumption, NoSpareByte DEF Bytes

(* Every bit has its place in the buffer. *)
LEMMA BitPlace ==
  ASSUME bits \in Lengths, NEW i \in 0 .. (ByteBits * Bytes) - 1
  PROVE  /\ i \div ByteBits \in 0 .. Bytes - 1 /\ i % ByteBits \in 0 .. ByteBits - 1
         /\ i = ByteBits * (i \div ByteBits) + (i % ByteBits)
         /\ Place(i) \in 0 .. Bytes - 1
<1> DEFINE q == i \div ByteBits
           m == i % ByteBits
<1>1. ByteBits \in Nat \ {0} /\ Bytes \in Nat \ {0}
  BY Sizes
<1>2. i \in Nat
  OBVIOUS
<1>3. q \in Nat /\ m \in 0 .. ByteBits - 1 /\ i = ByteBits * q + m
  BY <1>1, <1>2, NatQuotient
<1>4. q <= Bytes - 1
  <2> HIDE DEF q, m
  <2> SUFFICES ASSUME q >= Bytes PROVE FALSE
    BY <1>1, <1>3
  <2>1. ByteBits * q >= ByteBits * Bytes
    BY <1>1, <1>3
  <2>2. ByteBits * q \in Int /\ ByteBits * Bytes \in Int
    BY <1>1, <1>3
  <2> QED
    BY <1>3, <2>1, <2>2
<1> QED
  BY <1>1, <1>3, <1>4 DEF Place

(* The bits of a byte. *)
LEMMA ByteBitType ==
  ASSUME NEW n \in Byte, NEW i \in Nat
  PROVE  n \in Nat /\ Bit(n, i) \in {0, 1}
<1>1. Base \in Nat \ {0}
  BY LenValAssumption, Powers DEF Base
<1> QED
  BY <1>1, BitType DEF Byte

(* The two places of a bit: in the buffer and in the value. *)
LEMMA BitOfBytes ==
  ASSUME NEW lv, lv.len = Bytes, NEW i
  PROVE  BitOfValue(lv, i) = Bit(lv.val[Place(i)], i % ByteBits)
BY DEF BitOfValue, Place

(* No bit has been read when the shift begins. *)
LEMMA InitCInv == Init => CInv
<1> SUFFICES ASSUME Init PROVE CInv
  OBVIOUS
<1>1. IInv
  BY InitInv
<1>2. bits \in Lengths /\ Bytes \in 0 .. MaxLen
  BY Sizes DEF Init
<1>3. \A d \in Tdi \cup Tdo : /\ Written(d, Bytes).len = Bytes
                              /\ Written(d, Bytes).val \in [0 .. MaxLen -> Byte]
  BY <1>2, WrittenType, ShiftAssumption
<1>4. /\ judge \in {"none", "plain", "masked"}
      /\ \E d \in Tdi : lvTdi = Written(d, Bytes)
      /\ IF judge = "none" THEN lvTdoExpected = Zeroed
         ELSE \E d \in Tdo : lvTdoExpected = Written(d, Bytes)
      /\ IF judge # "masked" THEN lvTdoMask = Zeroed
         ELSE \E d \in Tdo : lvTdoMask = Written(d, Bytes)
      /\ lvTdoCaptured = Zeroed
  BY DEF Init, Bytes
<1>5. lvTdi.len = Bytes /\ lvTdi.val \in [0 .. MaxLen -> Byte]
  BY <1>3, <1>4
<1>6. (judge # "none" => lvTdoExpected.len = Bytes) /\ lvTdoExpected.val \in [0 .. MaxLen -> Byte]
  BY <1>3, <1>4, ZeroedType
<1>14. judge = "masked" => lvTdoMask.len = Bytes
  BY <1>3, <1>4
<1>7. lvTdoMask.val \in [0 .. MaxLen -> Byte] /\ lvTdoCaptured.val \in [0 .. MaxLen -> Byte]
  BY <1>3, <1>4, ZeroedType
<1>8. /\ register \in Contents(bits) /\ before = register
      /\ tdi \in {0, 1} /\ tck \in {0, 1}
      /\ tdo = (IF tck = 0 THEN register[0] ELSE 0)
      /\ pc = "present" /\ left = bits
  BY DEF Init
<1>12. register[0] \in {0, 1}
  <2>1. 0 \in 0 .. bits - 1
    BY <1>2, Sizes
  <2> QED
    BY <1>8, <2>1 DEF Contents
<1>13. tdo \in {0, 1}
  BY <1>8, <1>12
<1>9. Types
  BY <1>2, <1>4, <1>5, <1>6, <1>7, <1>8, <1>13, <1>14 DEF Types
<1>10. Wires
  BY <1>8 DEF Wires
<1>11. CapturedSoFar
  <2>1. Taken = 0
    BY <1>2, <1>8, Sizes DEF Taken, Shifted
  <2> QED
    BY <2>1 DEF CapturedSoFar
<1> QED
  BY <1>1, <1>9, <1>10, <1>11 DEF CInv

(* The byte that readTDOBit puts together. *)
NewValue == (IF NewByte THEN 0 ELSE lvTdoCaptured.val[Place(Shifted)]) + TdoBit

(* It keeps its bits and gets the new one, and the rest of it is clear. *)
LEMMA ReadTdoByte ==
  ASSUME CInv, pc = "read", judge # "none"
  PROVE  /\ Shifted \in 0 .. (ByteBits * Bytes) - 1 /\ Shifted \in 0 .. bits - 1
         /\ Shifted % ByteBits \in 0 .. ByteBits - 1
         /\ Place(Shifted) \in 0 .. Bytes - 1
         /\ NewValue \in 0 .. Pow2[(Shifted % ByteBits) + 1] - 1
         /\ NewValue \in Byte
         /\ Bit(NewValue, Shifted % ByteBits) = before[Shifted]
         /\ ~NewByte => \A i \in 0 .. (Shifted % ByteBits) - 1 :
              Bit(NewValue, i) = Bit(lvTdoCaptured.val[Place(Shifted)], i)
<1> USE DEF CInv
<1> DEFINE m   == Shifted % ByteBits
           old == IF NewByte THEN 0 ELSE lvTdoCaptured.val[Place(Shifted)]
<1>1. /\ bits \in Nat \ {0} /\ ByteBits \in Nat \ {0} /\ Bytes \in 1 .. MaxLen
      /\ bits <= ByteBits * Bytes /\ ByteBits * Bytes \in Nat
  BY Sizes DEF Types
<1>2. /\ Shifted \in 0 .. (ByteBits * Bytes) - 1 /\ Shifted \in 0 .. bits - 1
      /\ left \in 1 .. bits
  BY <1>1 DEF Shifted, IInv, Position
<1>3. /\ m \in 0 .. ByteBits - 1 /\ Shifted = ByteBits * (Shifted \div ByteBits) + m
      /\ Place(Shifted) \in 0 .. Bytes - 1
  BY <1>2, BitPlace DEF Types
<1>4. tdo = before[Shifted] /\ tdo \in {0, 1}
  <2>1. tdo = register[0] /\ tdo \in {0, 1}
    BY DEF Wires, Types
  <2>2. register[0] = before[0 + Shifted]
    <3>1. 0 \in 0 .. left - 1
      BY <1>2
    <3> QED
      BY <3>1 DEF IInv, ChainHoldsTdi
  <2>3. 0 + Shifted = Shifted
    BY <1>2
  <2> QED
    BY <2>1, <2>2, <2>3
<1>5. Pow2[m] \in Nat \ {0} /\ Pow2[m + 1] = 2 * Pow2[m]
  BY <1>3, Powers
<1>6. old \in 0 .. Pow2[m] - 1
  <2>1. CASE NewByte
    BY <1>5, <2>1
  <2>2. CASE ~NewByte
    <3>1. m > 0
      BY <1>3, <2>2 DEF NewByte
    <3> DEFINE q == Shifted \div ByteBits
    <3>2. q \in Nat /\ q \in Int
      <4>1. Shifted \in Nat
        BY <1>2
      <4> QED
        BY <1>1, <4>1, NatQuotient
    <3>3. /\ (Shifted - 1) \div ByteBits = q /\ (Shifted - 1) % ByteBits = m - 1
      <4>1. Shifted - 1 = ByteBits * q + (m - 1) /\ m - 1 \in 0 .. ByteBits - 1
        <5>1. ByteBits * q \in Nat
          BY <1>1, <3>2
        <5> HIDE DEF q, m
        <5> QED
          BY <1>1, <1>2, <1>3, <3>1, <5>1 DEF q, m
      <4> DEFINE r == m - 1
      <4> HIDE DEF q, r
      <4>2. (ByteBits * q + r) \div ByteBits = q /\ (ByteBits * q + r) % ByteBits = r
        BY <1>1, <3>2, <4>1, Quotient DEF r
      <4> QED
        BY <4>1, <4>2 DEF r
    <3>4. Place(Shifted - 1) = Place(Shifted)
      BY <3>3 DEF Place
    <3>5. Taken = Shifted /\ Shifted > 0
      <4>1. Shifted # 0
        <5> SUFFICES ASSUME Shifted = 0 PROVE FALSE
          OBVIOUS
        <5> QED
          BY <1>1, <2>2 DEF NewByte
      <4> QED
        BY <1>2, <4>1 DEF Taken
    <3>6. lvTdoCaptured.val[Place(Shifted)] < Pow2[m]
      <4>1. lvTdoCaptured.val[Place(Taken - 1)] < Pow2[((Taken - 1) % ByteBits) + 1]
        BY <3>5 DEF CapturedSoFar
      <4>2. (m - 1) + 1 = m
        BY <1>3
      <4> QED
        BY <3>3, <3>4, <3>5, <4>1, <4>2
    <3>7. lvTdoCaptured.val[Place(Shifted)] \in Nat
      <4>3. Place(Shifted) \in 0 .. MaxLen
        BY <1>1, <1>3, LenValAssumption
      <4>1. lvTdoCaptured.val[Place(Shifted)] \in Byte
        BY <4>3 DEF Types
      <4>2. Base \in Nat
        BY Powers, <1>1 DEF Base
      <4> QED
        BY <4>1, <4>2 DEF Byte
    <3> QED
      BY <1>5, <2>2, <3>6, <3>7
  <2> QED
    BY <2>1, <2>2
<1>7. NewValue = Pow2[m] * tdo + old
  <2>1. TdoBit = tdo * Pow2[m]
    BY DEF TdoBit
  <2> DEFINE P == Pow2[m]
  <2> HIDE DEF P
  <2>2. tdo * P = P * tdo
    BY <1>4, <1>5 DEF P
  <2>3. P * tdo \in Nat
    BY <1>4, <1>5 DEF P
  <2> HIDE DEF old
  <2> QED
    BY <1>6, <1>5, <2>1, <2>2, <2>3 DEF P, NewValue, old
<1>8. \A i \in Nat : Bit(NewValue, i) = IF i < m THEN Bit(old, i) ELSE Bit(tdo, i - m)
  <2>1. tdo \in Nat /\ m \in Nat
    BY <1>3, <1>4
  <2> HIDE DEF m, old
  <2> QED
    BY <1>6, <1>7, <2>1, BitsOfParts
<1>9. NewValue \in 0 .. Pow2[m + 1] - 1
  <2> HIDE DEF old, m
  <2> QED
    BY <1>4, <1>5, <1>6, <1>7
<1>10. NewValue \in Byte
  <2>1. Pow2[m + 1] <= Base
    BY <1>1, <1>3, PowersGrow DEF Base
  <2>2. Base \in Nat /\ Pow2[m + 1] \in Nat
    BY <1>1, <1>5, Powers DEF Base
  <2> HIDE DEF m
  <2> QED
    BY <1>9, <2>1, <2>2 DEF Byte
<1>11. Bit(NewValue, m) = before[Shifted]
  <2>1. Bit(NewValue, m) = Bit(tdo, 0)
    <3>1. m \in Nat /\ ~(m < m) /\ m - m = 0
      BY <1>3
    <3> HIDE DEF m, old
    <3> QED
      BY <1>8, <3>1
  <2>2. Bit(tdo, 0) = tdo
    BY <1>4, BitOfBit
  <2> QED
    BY <1>4, <2>1, <2>2
<1>12. ~NewByte => \A i \in 0 .. m - 1 :
                      Bit(NewValue, i) = Bit(lvTdoCaptured.val[Place(Shifted)], i)
  <2> SUFFICES ASSUME ~NewByte, NEW i \in 0 .. m - 1
               PROVE  Bit(NewValue, i) = Bit(lvTdoCaptured.val[Place(Shifted)], i)
    OBVIOUS
  <2>1. old = lvTdoCaptured.val[Place(Shifted)] /\ i \in Nat /\ i < m
    BY <1>3
  <2> HIDE DEF old, m
  <2> QED
    BY <1>8, <2>1
<1> QED
  BY <1>2, <1>3, <1>9, <1>10, <1>11, <1>12

(* Without TDO no bit is read. *)
LEMMA ReadsForTdo == CInv /\ pc = "read" => judge # "none"
BY DEF CInv, Wires

(* The types are kept: what is put together in a byte of the buffer is a byte, ... *)
LEMMA TypesStep == CInv /\ [Next]_vars => Types'
<1> SUFFICES ASSUME CInv, [Next]_vars PROVE Types'
  OBVIOUS
<1> USE DEF CInv, args, pins
<1>1. /\ bits \in Nat \ {0} /\ ByteBits \in Nat \ {0} /\ Bytes \in 1 .. MaxLen
      /\ bits <= ByteBits * Bytes /\ ByteBits * Bytes \in Nat
  BY Sizes DEF Types
<1>2. register[0] \in {0, 1}
  BY <1>1 DEF Types, Contents
<1>3. CASE Present
  <2>1. tdi' \in {0, 1}
    <3>1. Shifted \in 0 .. (ByteBits * Bytes) - 1
      BY <1>1, <1>3 DEF Present, Shifted, IInv, Position
    <3>2. Place(Shifted) \in 0 .. Bytes - 1 /\ Shifted % ByteBits \in Nat
      BY <1>1, <3>1, BitPlace DEF Types
    <3>5. Place(Shifted) \in 0 .. MaxLen
      BY <1>1, <3>2, LenValAssumption
    <3>3. tdi' = Bit(lvTdi.val[Place(Shifted)], Shifted % ByteBits)
      BY <1>3, BitOfBytes DEF Present, NextTdi, Types
    <3>4. lvTdi.val[Place(Shifted)] \in Byte
      BY <3>5 DEF Types
    <3> QED
      BY <3>2, <3>3, <3>4, ByteBitType
  <2> QED
    BY <1>2, <1>3, <2>1 DEF Present, Types, Falling, Bytes
<1>4. CASE ReadTdo
  <2>1. pc = "read" /\ judge # "none"
    BY <1>4, ReadsForTdo DEF ReadTdo
  <2>2. Place(Shifted) \in 0 .. Bytes - 1 /\ NewValue \in Byte
    BY <2>1, ReadTdoByte
  <2>3. lvTdoCaptured' = [len |-> lvTdi.len,
                          val |-> [lvTdoCaptured.val EXCEPT ![Place(Shifted)] = NewValue]]
    BY <1>4, <2>2, <1>1, LenValAssumption DEF ReadTdo, NewValue, Types, Place
  <2>4. lvTdoCaptured'.val \in [0 .. MaxLen -> Byte]
    BY <2>2, <2>3 DEF Types
  <2> QED
    BY <1>4, <2>4 DEF ReadTdo, Types, Bytes
<1>5. CASE ClockHigh
  <2>1. register' \in Contents(bits)
    <3>1. \A i \in 0 .. bits - 1 : i # bits - 1 => i + 1 \in 0 .. bits - 1
      BY <1>1
    <3> QED
      BY <1>1, <1>5, <3>1 DEF ClockHigh, Rising, Types, Contents
  <2> QED
    BY <1>5, <2>1 DEF ClockHigh, Rising, Types, Bytes
<1>6. CASE Compare \/ Settle \/ Finished \/ UNCHANGED vars
  BY <1>6 DEF Compare, Settle, Finished, vars, Types, Bytes
<1>7. CASE Again
  BY <1>7 DEF Again, Types, Bytes
<1> QED
  BY <1>3, <1>4, <1>5, <1>6, <1>7 DEF Next, Player

(* ... TDO follows the register, ... *)
LEMMA WiresStep == CInv /\ [Next]_vars => Wires'
<1> SUFFICES ASSUME CInv, [Next]_vars PROVE Wires'
  OBVIOUS
<1> USE DEF CInv, args, pins
<1>1. CASE Present
  <2>1. tck' = 0 /\ tdo' = register[0] /\ register' = register
    BY <1>1 DEF Present, Falling, Wires, Types
  <2> QED
    BY <1>1, <2>1 DEF Present, Wires
<1>2. CASE ReadTdo
  BY <1>2 DEF ReadTdo, Wires
<1>3. CASE ClockHigh
  BY <1>3 DEF ClockHigh, Rising, Wires
<1>4. CASE Compare \/ Settle \/ Finished \/ UNCHANGED vars
  BY <1>4 DEF Compare, Settle, Finished, vars, Wires
<1>5. CASE Again
  BY <1>5 DEF Again, Wires
<1> QED
  BY <1>1, <1>2, <1>3, <1>4, <1>5 DEF Next, Player

(* Steps that read nothing and move nothing of what has been read. *)
LEMMA SameCaptured ==
  ASSUME CapturedSoFar, UNCHANGED <<bits, judge, lvTdoCaptured, before>>, Taken' = Taken
  PROVE  CapturedSoFar'
BY DEF CapturedSoFar, Place, Bytes, Bit

(* ... the bit that is read joins the ones read before it, in its byte or in a new one, ... *)
LEMMA ReadTdoCaptured == CInv /\ ReadTdo => CapturedSoFar'
<1> SUFFICES ASSUME CInv, ReadTdo PROVE CapturedSoFar'
  OBVIOUS
<1> DEFINE m == Shifted % ByteBits
           S == Shifted
           val == lvTdoCaptured.val
<1>1. pc = "read" /\ judge # "none"
  BY ReadsForTdo DEF ReadTdo
<1>2. /\ bits \in Lengths /\ ByteBits \in Nat \ {0} /\ Bytes \in 1 .. MaxLen /\ MaxLen \in Nat
      /\ bits <= ByteBits * Bytes /\ ByteBits * Bytes \in Nat
  BY Sizes DEF CInv, Types
<1>3. /\ S \in 0 .. bits - 1 /\ m \in 0 .. ByteBits - 1 /\ Place(S) \in 0 .. Bytes - 1
      /\ S \in 0 .. (ByteBits * Bytes) - 1
      /\ NewValue \in 0 .. Pow2[m + 1] - 1
      /\ Bit(NewValue, m) = before[S]
      /\ ~NewByte => \A i \in 0 .. m - 1 : Bit(NewValue, i) = Bit(val[Place(S)], i)
  BY <1>1, ReadTdoByte
<1>4. lvTdoCaptured' = [len |-> Bytes, val |-> [val EXCEPT ![Place(S)] = NewValue]]
  BY <1>2, <1>3 DEF ReadTdo, NewValue, CInv, Types, Place
<1>5. UNCHANGED <<bits, judge, before, left>> /\ pc' = "high"
  BY DEF ReadTdo, args, pins
<1>6. Taken' = S + 1 /\ Taken = S /\ S \in Nat
  BY <1>1, <1>3, <1>5 DEF Taken, Shifted
<1>7. val \in [0 .. MaxLen -> Byte] /\ Place(S) \in 0 .. MaxLen
  <2>1. val \in [0 .. MaxLen -> Byte]
    BY DEF CInv, Types
  <2> QED
    BY <1>2, <1>3, <2>1
<1>8. \A i : Place(i)' = Place(i)
  BY <1>5 DEF Place, Bytes
<1>9. lvTdoCaptured'.val[Place(S)] = NewValue
  BY <1>4, <1>7
<1>10. lvTdoCaptured'.len = Bytes' /\ lvTdoCaptured'.val[Place(S)] < Pow2[m + 1]
  <2>1. Pow2[m + 1] \in Nat
    BY <1>3, Powers
  <2> QED
    BY <1>3, <1>4, <1>5, <1>9, <2>1 DEF Bytes
<1>11. ASSUME NEW i \in 0 .. S
       PROVE  Bit(lvTdoCaptured'.val[Place(i)], i % ByteBits) = before[i]
  <2>1. CASE i = S
    BY <1>3, <1>9, <2>1
  <2>2. CASE i # S
    <3>1. i \in 0 .. Taken - 1 /\ i \in 0 .. (ByteBits * Bytes) - 1
      <4>1. Taken = S /\ S \in Nat
        BY <1>6
      <4> HIDE DEF S
      <4> QED
        BY <1>2, <1>3, <2>2, <4>1
    <3>2. Bit(val[Place(i)], i % ByteBits) = before[i]
      BY <1>1, <3>1 DEF CInv, CapturedSoFar
    <3>3. Place(i) \in 0 .. MaxLen /\ i % ByteBits \in 0 .. ByteBits - 1
      BY <1>2, <3>1, BitPlace
    <3>4. CASE Place(i) # Place(S)
      BY <1>4, <1>7, <3>2, <3>3, <3>4
    <3>5. CASE Place(i) = Place(S)
      <4> DEFINE q == i \div ByteBits
                 k == i % ByteBits
      <4>1. S \div ByteBits = q /\ q \in Nat
        BY <1>2, <1>3, <3>1, <3>5, BitPlace DEF Place
      <4>2. i = ByteBits * q + k /\ S = ByteBits * q + m /\ k \in 0 .. ByteBits - 1
        BY <1>2, <1>3, <3>1, <4>1, BitPlace
      <4>3. k < m
        <5>1. ByteBits * q \in Nat
          BY <1>2, <4>1
        <5> HIDE DEF q, k, m
        <5> QED
          BY <1>3, <2>2, <4>2, <5>1
      <4>4. ~NewByte
        BY <4>2, <4>3, <1>3 DEF NewByte
      <4>5. Bit(NewValue, k) = Bit(val[Place(S)], k)
        BY <1>3, <4>2, <4>3, <4>4
      <4> QED
        BY <1>9, <3>2, <3>5, <4>5
    <3> QED
      BY <3>4, <3>5
  <2> QED
    BY <2>1, <2>2
<1>12. (S + 1) - 1 = S
  BY <1>6
<1> HIDE DEF S, val
<1>13. \A i \in 0 .. Taken' - 1 : Bit(lvTdoCaptured.val[Place(i)], i % ByteBits)' = before[i]'
  BY <1>5, <1>6, <1>8, <1>11, <1>12 DEF Bit
<1>14. lvTdoCaptured'.val[Place(Taken - 1)'] < Pow2[((Taken - 1)' % ByteBits) + 1]
  BY <1>6, <1>8, <1>10, <1>12, <1>5 DEF S
<1> QED
  BY <1>10, <1>13, <1>14 DEF CapturedSoFar

(* ... and the other steps leave them alone or begin anew. *)
LEMMA CapturedStep == CInv /\ [Next]_vars => CapturedSoFar'
<1> SUFFICES ASSUME CInv, [Next]_vars PROVE CapturedSoFar'
  OBVIOUS
<1> USE DEF args, pins
<1>0. /\ CapturedSoFar /\ bits \in Nat \ {0} /\ left \in 0 .. bits /\ Position
      /\ judge \in {"none", "plain", "masked"}
  BY DEF CInv, IInv, Position, Types
<1>1. CASE Present
  <2>1. CASE judge = "none"
    BY <1>1, <2>1 DEF Present, CapturedSoFar
  <2>2. CASE judge # "none"
    <3>1. Taken' = Taken
      BY <1>1, <2>2 DEF Present, Taken, Shifted
    <3> QED
      BY <1>0, <1>1, <3>1, SameCaptured DEF Present
  <2> QED
    BY <2>1, <2>2
<1>2. CASE ReadTdo
  BY <1>2, ReadTdoCaptured
<1>3. CASE ClockHigh
  <2>1. Taken' = Taken
    BY <1>0, <1>3 DEF ClockHigh, Taken, Shifted
  <2> QED
    BY <1>0, <1>3, <2>1, SameCaptured DEF ClockHigh
<1>4. CASE Compare
  <2>1. Taken' = Taken
    BY <1>4 DEF Compare, Taken, Shifted
  <2> QED
    BY <1>0, <1>4, <2>1, SameCaptured DEF Compare
<1>5. CASE Settle \/ Finished \/ UNCHANGED vars
  <2>1. Taken' = Taken
    BY <1>5 DEF Settle, Finished, vars, Taken, Shifted
  <2> QED
    BY <1>0, <1>5, <2>1, SameCaptured DEF Settle, Finished, vars
<1>6. CASE Again
  <2>1. Taken' = 0
    BY <1>0, <1>6 DEF Again, Taken, Shifted
  <2> QED
    BY <2>1 DEF CapturedSoFar
<1> QED
  BY <1>1, <1>2, <1>3, <1>4, <1>5, <1>6 DEF Next, Player

(* So the invariant holds. *)
LEMMA CInvariance == Spec => []CInv
<1>1. CInv /\ [Next]_vars => CInv'
  BY StepInv, TypesStep, WiresStep, CapturedStep DEF CInv
<1> QED
  BY <1>1, InitCInv, PTL DEF Spec

(* The bits behind the end of the shift are in the byte of its last bit. *)
LEMMA SpareBits ==
  ASSUME bits \in Lengths, NEW i \in bits .. (ByteBits * Bytes) - 1
  PROVE  /\ Place(i) = Place(bits - 1)
         /\ i % ByteBits \in Nat /\ ((bits - 1) % ByteBits) + 1 \in 0 .. i % ByteBits
<1>1. /\ bits \in Nat \ {0} /\ ByteBits \in Nat \ {0} /\ Bytes \in 1 .. MaxLen
      /\ ByteBits * Bytes < bits + ByteBits /\ bits <= ByteBits * Bytes /\ ByteBits * Bytes \in Nat
  BY Sizes
<1>2. ASSUME NEW k \in bits - 1 .. (ByteBits * Bytes) - 1
      PROVE  /\ k \div ByteBits = Bytes - 1
             /\ k % ByteBits \in Nat /\ k = ByteBits * (Bytes - 1) + (k % ByteBits)
  <2> DEFINE q == k \div ByteBits
             m == k % ByteBits
  <2>1. q \in 0 .. Bytes - 1 /\ m \in 0 .. ByteBits - 1 /\ k = ByteBits * q + m
    <3>1. k \in 0 .. (ByteBits * Bytes) - 1
      BY <1>1
    <3> QED
      BY <3>1, BitPlace
  <2>2. q = Bytes - 1
    <3> HIDE DEF q, m
    <3> SUFFICES ASSUME q <= Bytes - 2 PROVE FALSE
      BY <1>1, <2>1
    <3>1. ByteBits * q <= ByteBits * (Bytes - 2)
      BY <1>1, <2>1
    <3>2. ByteBits * (Bytes - 2) = ByteBits * Bytes - 2 * ByteBits
      BY <1>1
    <3>3. ByteBits * q \in Nat
      BY <1>1, <2>1
    <3> QED
      BY <1>1, <2>1, <3>1, <3>2, <3>3
  <2> QED
    BY <2>1, <2>2
<1>3. i \in bits - 1 .. (ByteBits * Bytes) - 1 /\ bits - 1 \in bits - 1 .. (ByteBits * Bytes) - 1
  BY <1>1
<1> DEFINE c == ByteBits * (Bytes - 1)
           mi == i % ByteBits
           mb == (bits - 1) % ByteBits
<1>4. c \in Nat /\ mi \in Nat /\ mb \in Nat /\ i = c + mi /\ bits - 1 = c + mb
  <2>1. c \in Nat
    BY <1>1
  <2>2. mi \in Nat /\ i = c + mi
    BY <1>2, <1>3
  <2>3. mb \in Nat /\ bits - 1 = c + mb
    BY <1>2, <1>3
  <2> QED
    BY <2>1, <2>2, <2>3
<1>5. mb + 1 \in 0 .. mi
  <2> HIDE DEF c, mi, mb
  <2> QED
    BY <1>1, <1>4
<1> QED
  BY <1>2, <1>3, <1>4, <1>5 DEF Place

(* After the last bit it says that every bit is in its place. *)
LEMMA CapturedHere == CInv => CapturedIsOldRegister
<1> SUFFICES ASSUME CInv, pc \in {"compare", "done"}, judge # "none",
                    NEW i \in 0 .. ByteBits * lvTdi.len - 1
             PROVE  BitOfValue(lvTdoCaptured, i) = IF i < bits THEN before[i] ELSE 0
  BY DEF CapturedIsOldRegister
<1>1. /\ bits \in Lengths /\ lvTdi.len = Bytes /\ i \in 0 .. (ByteBits * Bytes) - 1
      /\ lvTdoCaptured.val \in [0 .. MaxLen -> Byte]
  BY DEF CInv, Types
<1>2. /\ bits \in Nat \ {0} /\ ByteBits \in Nat \ {0} /\ Bytes \in 1 .. MaxLen
      /\ MaxLen \in Nat /\ bits <= ByteBits * Bytes /\ ByteBits * Bytes \in Nat
  BY <1>1, Sizes
<1>3. Taken = bits
  BY <1>2 DEF CInv, IInv, Position, Taken, Shifted
<1>4. BitOfValue(lvTdoCaptured, i) = Bit(lvTdoCaptured.val[Place(i)], i % ByteBits)
  BY <1>2, <1>3, BitOfBytes DEF CInv, CapturedSoFar
<1>5. CASE i < bits
  <2>1. i \in 0 .. Taken - 1
    BY <1>1, <1>2, <1>3, <1>5
  <2> QED
    BY <1>4, <1>5, <2>1 DEF CInv, CapturedSoFar
<1>6. CASE ~(i < bits)
  <2> DEFINE w == ((bits - 1) % ByteBits) + 1
             n == lvTdoCaptured.val[Place(bits - 1)]
  <2>1. i \in bits .. (ByteBits * Bytes) - 1
    BY <1>1, <1>2, <1>6
  <2>2. Place(i) = Place(bits - 1) /\ i % ByteBits \in Nat /\ w \in 0 .. i % ByteBits
    BY <1>1, <2>1, SpareBits
  <2>3. n < Pow2[w]
    BY <1>2, <1>3 DEF CInv, CapturedSoFar
  <2>4. Place(i) \in 0 .. Bytes - 1
    BY <1>1, BitPlace
  <2>5. Place(i) \in 0 .. MaxLen
    BY <1>2, <2>4
  <2>6. n \in Byte
    BY <1>1, <2>2, <2>5
  <2>7. n \in Nat
    <3>1. 0 \in Nat
      OBVIOUS
    <3> HIDE DEF n
    <3> QED
      BY <2>6, <3>1, ByteBitType
  <2>8. w \in Nat /\ i % ByteBits >= w
    <3> HIDE DEF w
    <3> QED
      BY <2>2
  <2>9. Pow2[w] \in Nat
    BY <2>8, Powers
  <2>10. n \in 0 .. Pow2[w] - 1
    <3> HIDE DEF n, w
    <3> QED
      BY <2>3, <2>7, <2>9
  <2>11. Bit(n, i % ByteBits) = 0
    <3> HIDE DEF n, w
    <3> QED
      BY <2>2, <2>8, <2>10, HighBits
  <2> QED
    BY <1>4, <1>6, <2>2, <2>11
<1> QED
  BY <1>5, <1>6

(* Whatever the register held, however long the shift and whatever an earlier round has left *)
(* in the buffer, lvTdoCaptured is what the register held, bit by bit.                       *)
THEOREM CapturesOldRegister == Spec => []CapturedIsOldRegister
BY CInvariance, CapturedHere, PTL

-----------------------------------------------------------------------------
(* THE EXCHANGE *)

(* Every bit of every byte of a value has its number. *)
LEMMA NumberOfBit ==
  ASSUME bits \in Lengths, NEW i \in 0 .. Bytes - 1, NEW b \in 0 .. ByteBits - 1
  PROVE  \E j \in 0 .. (ByteBits * Bytes) - 1 : Place(j) = i /\ j % ByteBits = b
<1> DEFINE q == Bytes - 1 - i
           j == ByteBits * q + b
<1>1. ByteBits \in Nat \ {0} /\ Bytes \in 1 .. MaxLen /\ MaxLen \in Nat
  BY Sizes
<1>2. q \in Int /\ q \in 0 .. Bytes - 1 /\ Bytes - 1 - q = i
  BY <1>1
<1>3. j \div ByteBits = q /\ j % ByteBits = b
  <2> HIDE DEF q
  <2> QED
    BY <1>1, <1>2, Quotient
<1>4. j \in 0 .. (ByteBits * Bytes) - 1
  <2> HIDE DEF q
  <2>1. ByteBits * q <= ByteBits * (Bytes - 1)
    BY <1>1, <1>2
  <2>2. ByteBits * (Bytes - 1) = ByteBits * Bytes - ByteBits
    BY <1>1
  <2>3. ByteBits * q \in Nat /\ ByteBits * Bytes \in Nat
    BY <1>1, <1>2
  <2> QED
    BY <1>1, <2>1, <2>2, <2>3
<1>5. Place(j) = i
  <2> HIDE DEF j, q
  <2> QED
    BY <1>2, <1>3 DEF Place
<1> HIDE DEF j
<1> QED
  BY <1>3, <1>4, <1>5

(* The bytes are compared as the bits are. *)
LEMMA MaskedByBits ==
  ASSUME bits \in Lengths, NEW e, NEW c, NEW m, e.len = Bytes, c.len = Bytes, m.len = Bytes
  PROVE  EqualLenVal(e, c, m) <=>
           \A j \in 0 .. (ByteBits * Bytes) - 1 :
             BitOfValue(m, j) = 1 => BitOfValue(e, j) = BitOfValue(c, j)
<1>1. ASSUME EqualLenVal(e, c, m), NEW j \in 0 .. (ByteBits * Bytes) - 1, BitOfValue(m, j) = 1
      PROVE  BitOfValue(e, j) = BitOfValue(c, j)
  <2>1. Place(j) \in 0 .. Bytes - 1 /\ j % ByteBits \in 0 .. ByteBits - 1
    BY BitPlace
  <2> QED
    BY <1>1, <2>1, BitOfBytes DEF EqualLenVal
<1>2. ASSUME \A j \in 0 .. (ByteBits * Bytes) - 1 :
               BitOfValue(m, j) = 1 => BitOfValue(e, j) = BitOfValue(c, j),
             NEW i \in 0 .. Bytes - 1, NEW b \in 0 .. ByteBits - 1, Bit(m.val[i], b) = 1
      PROVE  Bit(e.val[i], b) = Bit(c.val[i], b)
  <2>1. PICK j \in 0 .. (ByteBits * Bytes) - 1 : Place(j) = i /\ j % ByteBits = b
    BY NumberOfBit
  <2>2. /\ BitOfValue(e, j) = Bit(e.val[i], b)
        /\ BitOfValue(c, j) = Bit(c.val[i], b)
        /\ BitOfValue(m, j) = Bit(m.val[i], b)
    BY <2>1, BitOfBytes
  <2> QED
    BY <1>2, <2>2
<1> QED
  BY <1>1, <1>2 DEF EqualLenVal

(* Without a mask the bytes are compared as numbers: equal if their bits are. *)
LEMMA UnmaskedByBits ==
  ASSUME bits \in Lengths, NEW e, NEW c, e.len = Bytes, c.len = Bytes,
         e.val \in [0 .. MaxLen -> Byte], c.val \in [0 .. MaxLen -> Byte]
  PROVE  EqualUnmasked(e, c) <=>
           \A j \in 0 .. (ByteBits * Bytes) - 1 : BitOfValue(e, j) = BitOfValue(c, j)
<1>1. ASSUME EqualUnmasked(e, c), NEW j \in 0 .. (ByteBits * Bytes) - 1
      PROVE  BitOfValue(e, j) = BitOfValue(c, j)
  <2>1. Place(j) \in 0 .. Bytes - 1
    BY BitPlace
  <2> QED
    BY <1>1, <2>1, BitOfBytes DEF EqualUnmasked
<1>2. ASSUME \A j \in 0 .. (ByteBits * Bytes) - 1 : BitOfValue(e, j) = BitOfValue(c, j),
             NEW i \in 0 .. Bytes - 1
      PROVE  e.val[i] = c.val[i]
  <2>1. i \in 0 .. MaxLen /\ ByteBits \in Nat
    BY Sizes
  <2>2. e.val[i] \in 0 .. Pow2[ByteBits] - 1 /\ c.val[i] \in 0 .. Pow2[ByteBits] - 1
    BY <2>1 DEF Byte, Base
  <2>3. ASSUME NEW b \in 0 .. ByteBits - 1 PROVE Bit(e.val[i], b) = Bit(c.val[i], b)
    <3>1. PICK j \in 0 .. (ByteBits * Bytes) - 1 : Place(j) = i /\ j % ByteBits = b
      BY NumberOfBit
    <3>2. BitOfValue(e, j) = Bit(e.val[i], b) /\ BitOfValue(c, j) = Bit(c.val[i], b)
      BY <3>1, BitOfBytes
    <3> QED
      BY <1>2, <3>2
  <2> QED
    BY <2>1, <2>2, <2>3, SameBits
<1> QED
  BY <1>1, <1>2 DEF EqualUnmasked

(* A step of DataExchange, or none. *)
ExchangeStep == Exchange!Next \/ UNCHANGED Exchange!vars

(* The register and the outcome as the exchange sees them. *)
SeenRegister == IF Busy THEN before ELSE register
SeenOutcome  == IF Busy THEN "pending" ELSE IF mismatch THEN "different" ELSE "equal"

(* A step that changes neither what is asked nor what is seen. *)
LEMMA SameSeen ==
  ASSUME UNCHANGED <<args, SeenRegister, SeenOutcome>>
  PROVE  UNCHANGED Exchange!vars
<1>1. /\ UNCHANGED <<bits, lvTdi, lvTdoExpected, lvTdoMask, judge>>
      /\ SeenRegister' = SeenRegister /\ SeenOutcome' = SeenOutcome
  BY DEF args
<1> QED
  BY <1>1 DEF Exchange!vars, SeenRegister, SeenOutcome, AllBits, BitOfValue, Bit

(* The comparison is where the exchange takes place: the register holds the data, what it held *)
(* is in lvTdoCaptured, and the bytes agree where the bits do.                                *)
LEMMA CompareExchanges == CInv /\ Compare => Exchange!Exchange
<1> SUFFICES ASSUME CInv, Compare PROVE Exchange!Exchange
  OBVIOUS
<1>1. /\ bits \in Lengths /\ lvTdi.len = Bytes /\ AllBits = 0 .. (ByteBits * Bytes) - 1
      /\ judge \in {"none", "plain", "masked"}
  BY DEF CInv, Types, AllBits
<1>2. UNCHANGED <<bits, lvTdi, lvTdoExpected, lvTdoMask, judge, lvTdoCaptured, register>>
  BY DEF Compare, args, pins
<1>3. pc = "compare" /\ pc' = "done" /\ Busy /\ ~Busy'
  BY DEF Compare, Busy
<1>4. register = [i \in 0 .. bits - 1 |-> BitOfValue(lvTdi, i)]
  <2>1. left = 0 /\ bits \in Nat
    BY <1>1, <1>3, Sizes DEF CInv, IInv, Position
  <2>2. \A i \in 0 .. bits - 1 : register[i] = BitOfValue(lvTdi, i)
    <3> SUFFICES ASSUME NEW i \in 0 .. bits - 1 PROVE register[i] = BitOfValue(lvTdi, i)
      OBVIOUS
    <3>1. i \in left .. bits - 1 /\ i - left = i
      BY <2>1
    <3> QED
      BY <3>1 DEF CInv, IInv, ChainHoldsTdi
  <2> QED
    BY <2>2 DEF CInv, IInv, Cells
<1>5. \A i \in 0 .. bits - 1 : i \in AllBits
  BY <1>1, Sizes
<1>6. judge # "none" => \A i \in AllBits : BitOfValue(lvTdoCaptured, i) = Exchange!Held(i)
  BY <1>1, <1>3, CapturedHere DEF CapturedIsOldRegister, Exchange!Held, AllBits
<1> DEFINE Agrees == \A i \in AllBits :
             (CASE judge = "none" -> 0
                [] judge = "plain" -> 1
                [] judge = "masked" -> BitOfValue(lvTdoMask, i)) = 1
             => (IF judge = "none" THEN 0 ELSE BitOfValue(lvTdoExpected, i)) = Exchange!Held(i)
<1>7. mismatch' = ~Agrees
  <2>1. CASE judge = "none"
    <3>1. mismatch' = FALSE
      BY <2>1 DEF Compare
    <3>2. Agrees
      BY <2>1
    <3> QED
      BY <3>1, <3>2
  <2>2. CASE judge = "plain"
    <3>1. mismatch' = ~EqualUnmasked(lvTdoExpected, lvTdoCaptured)
      BY <2>2 DEF Compare
    <3>2. lvTdoCaptured.len = Bytes
      BY <1>1, <1>3, <2>2, Sizes DEF CInv, IInv, Position, CapturedSoFar, Taken, Shifted
    <3>3. lvTdoExpected.len = Bytes /\ lvTdoExpected.val \in [0 .. MaxLen -> Byte]
          /\ lvTdoCaptured.val \in [0 .. MaxLen -> Byte]
      BY <2>2 DEF CInv, Types
    <3>4. EqualUnmasked(lvTdoExpected, lvTdoCaptured) <=>
            \A i \in AllBits : BitOfValue(lvTdoExpected, i) = BitOfValue(lvTdoCaptured, i)
      BY <1>1, <3>2, <3>3, UnmaskedByBits
    <3>5. Agrees <=> \A i \in AllBits : BitOfValue(lvTdoExpected, i) = Exchange!Held(i)
      BY <2>2
    <3>6. Agrees <=> EqualUnmasked(lvTdoExpected, lvTdoCaptured)
      <4> HIDE DEF Agrees
      <4> QED
        BY <1>6, <2>2, <3>4, <3>5
    <3> QED
      BY <3>1, <3>6
  <2>3. CASE judge = "masked"
    <3>1. mismatch' = ~EqualLenVal(lvTdoExpected, lvTdoCaptured, lvTdoMask)
      BY <2>3 DEF Compare
    <3>2. lvTdoCaptured.len = Bytes
      BY <1>1, <1>3, <2>3, Sizes DEF CInv, IInv, Position, CapturedSoFar, Taken, Shifted
    <3>3. lvTdoExpected.len = Bytes /\ lvTdoMask.len = Bytes
      BY <2>3 DEF CInv, Types
    <3>4. EqualLenVal(lvTdoExpected, lvTdoCaptured, lvTdoMask) <=>
            \A i \in AllBits : BitOfValue(lvTdoMask, i) = 1 =>
              BitOfValue(lvTdoExpected, i) = BitOfValue(lvTdoCaptured, i)
      BY <1>1, <3>2, <3>3, MaskedByBits
    <3>5. Agrees <=> \A i \in AllBits : BitOfValue(lvTdoMask, i) = 1 =>
                       BitOfValue(lvTdoExpected, i) = Exchange!Held(i)
      BY <2>3
    <3>6. Agrees <=> EqualLenVal(lvTdoExpected, lvTdoCaptured, lvTdoMask)
      <4> HIDE DEF Agrees
      <4> QED
        BY <1>6, <2>3, <3>4, <3>5
    <3> QED
      BY <3>1, <3>6
  <2> QED
    BY <1>1, <2>1, <2>2, <2>3
<1>8. register = [i \in 0 .. bits - 1 |-> [k \in AllBits |-> BitOfValue(lvTdi, k)][i]]
  BY <1>4, <1>5
<1>9. AllBits' = AllBits /\ \A lv, i : BitOfValue(lv, i)' = BitOfValue(lv, i)
  BY <1>2 DEF AllBits, BitOfValue, Bit
<1> HIDE DEF Agrees
<1>10. (IF mismatch' THEN "different" ELSE "equal") = IF Agrees THEN "equal" ELSE "different"
  BY <1>7
<1>11. UNCHANGED <<bits, [i \in AllBits |-> BitOfValue(lvTdi, i)],
                   IF judge = "none" THEN [i \in AllBits |-> 0]
                   ELSE [i \in AllBits |-> BitOfValue(lvTdoExpected, i)],
                   CASE judge = "none"   -> [i \in AllBits |-> 0]
                     [] judge = "plain"  -> [i \in AllBits |-> 1]
                     [] judge = "masked" -> [i \in AllBits |-> BitOfValue(lvTdoMask, i)]>>
  BY <1>2 DEF AllBits, BitOfValue, Bit
<1> DEFINE care     == CASE judge = "none"   -> [i \in AllBits |-> 0]
                         [] judge = "plain"  -> [i \in AllBits |-> 1]
                         [] judge = "masked" -> [i \in AllBits |-> BitOfValue(lvTdoMask, i)]
           expected == IF judge = "none" THEN [i \in AllBits |-> 0]
                       ELSE [i \in AllBits |-> BitOfValue(lvTdoExpected, i)]
<1>12. Agrees <=> \A i \in DOMAIN care : care[i] = 1 => expected[i] = Exchange!Held(i)
  <2>1. CASE judge = "none"
    BY <2>1 DEF Agrees
  <2>2. CASE judge = "plain"
    BY <2>2 DEF Agrees
  <2>3. CASE judge = "masked"
    BY <2>3 DEF Agrees
  <2> QED
    BY <1>1, <2>1, <2>2, <2>3
<1> QED
  BY <1>2, <1>3, <1>8, <1>10, <1>11, <1>12 DEF Exchange!Exchange

(* The steps before it are not seen, and a retry is one. *)
LEMMA StepExchanges == CInv /\ [Next]_vars => ExchangeStep
<1> SUFFICES ASSUME CInv, [Next]_vars PROVE ExchangeStep
  OBVIOUS
<1> USE DEF ExchangeStep
<1>1. CASE Present \/ ReadTdo \/ ClockHigh
  <2>1. UNCHANGED args /\ before' = before /\ Busy /\ Busy'
    BY <1>1 DEF Present, ReadTdo, ClockHigh, Busy
  <2> QED
    BY <2>1, SameSeen DEF SeenRegister, SeenOutcome
<1>2. CASE Compare
  BY <1>2, CompareExchanges DEF Exchange!Next
<1>3. CASE Settle \/ Finished \/ UNCHANGED vars
  <2>1. UNCHANGED <<args, before, register, mismatch, pc>>
    BY <1>3 DEF Settle, Finished, vars, pins
  <2> QED
    BY <2>1, SameSeen DEF SeenRegister, SeenOutcome, Busy
<1>4. CASE Again
  <2>1. UNCHANGED <<bits, lvTdi, lvTdoExpected, lvTdoMask, judge>> /\ ~Busy /\ Busy' /\ mismatch
    BY <1>4 DEF Again, Busy, args
  <2>2. before' \in Contents(bits)
    BY <1>4 DEF Again
  <2>3. Exchange!Again
    BY <2>1, <2>2 DEF Exchange!Again, Exchange!Contents, Contents, AllBits, BitOfValue, Bit
  <2> QED
    BY <2>3 DEF Exchange!Next
<1> QED
  BY <1>1, <1>2, <1>3, <1>4 DEF Next, Player

(* A shift that begins is an exchange that is pending. *)
LEMMA InitExchanges == Init => Exchange!Init
BY DEF Init, Exchange!Init, Exchange!Contents, Contents, Busy

(* Every shift is an exchange of data, bit by bit, however often it is tried. *)
THEOREM ShiftsAreExchanges == Spec => ImplementsExchange
<1>1. Spec => []CInv
  BY CInvariance
<1>2. CInv /\ [Next]_vars => [Exchange!Next]_(Exchange!vars)
  BY StepExchanges DEF ExchangeStep
<1> QED
  BY <1>1, <1>2, InitExchanges, PTL DEF Spec, ImplementsExchange, Exchange!Spec
=============================================================================
