-------------------------------- MODULE LenVal --------------------------------
(***************************************************************************)
(* lenVal, the byte string of variable length the XSVF player keeps its    *)
(* data in: val[0] is the most significant byte.  The buffer behind it has *)
(* a fixed size, and the bytes at and beyond len keep what an earlier and  *)
(* longer value has left there.                                            *)
(***************************************************************************)
EXTENDS Integers, FiniteSets, Sequences

CONSTANTS
  ByteBits,   (* Bits of a byte (8).                                            *)
  MaxLen,     (* MAX_LEN: the bytes a value may have; the buffer has one more. *)
  ShortHalf   (* Least number a short cannot hold (2^15).                      *)

ASSUME LenValAssumption ==
  ByteBits \in Nat \ {0} /\ MaxLen \in Nat \ {0} /\ ShortHalf \in Nat /\ ShortHalf > MaxLen + 1

(* 2 to the power of n. *)
Pow2[n \in Nat] == IF n = 0 THEN 1 ELSE 2 * Pow2[n - 1]

Base   == Pow2[ByteBits]
Byte   == 0 .. Base - 1
lenVal == [len : 0 .. MaxLen + 1, val : [0 .. MaxLen -> Byte]]

(* A variable of the type lenVal that was zeroed. *)
Zeroed == [len |-> 0, val |-> [i \in 0 .. MaxLen |-> 0]]

(* Bit i of a number, bit 0 being the least significant, and the byte of given bits. *)
Bit(n, i)   == (n \div Pow2[i]) % 2
ByteOf(bit) ==
  LET upTo[i \in 0 .. ByteBits] == IF i = 0 THEN 0 ELSE upTo[i - 1] + bit[i - 1] * Pow2[i - 1]
  IN  upTo[ByteBits]

-----------------------------------------------------------------------------
(* value: the number a lenVal stands for. *)
value(lv) ==
  LET of[n \in 0 .. lv.len] == IF n = 0 THEN 0 ELSE of[n - 1] * Base + lv.val[n - 1]
  IN  of[lv.len]

(* Mutant: the mask is inverted. *)
EqualUnderInverse(expected, captured, mask) ==
  \A i \in 0 .. expected.len - 1, b \in 0 .. ByteBits - 1 :
    Bit(mask.val[i], b) = 0 => Bit(expected.val[i], b) = Bit(captured.val[i], b)

(* EqualLenVal, with a mask and without: as many bytes as are expected, whatever the *)
(* lengths of the other two.                                                         *)
EqualLenVal(expected, captured, mask) ==
  \A i \in 0 .. expected.len - 1, b \in 0 .. ByteBits - 1 :
    Bit(mask.val[i], b) = 1 => Bit(expected.val[i], b) = Bit(captured.val[i], b)

EqualUnmasked(expected, captured) ==
  \A i \in 0 .. expected.len - 1 : expected.val[i] = captured.val[i]

(* Mutant: no carry from one byte to the next. *)
addBytes(res, a, b) ==
  [len |-> a.len,
   val |-> [i \in 0 .. MaxLen |->
              IF i < a.len THEN (a.val[i] + b.val[i]) % Base ELSE res.val[i]]]

(* addVal: the sum of a and of as many bytes of b, from the last byte to the first. *)
addVal(res, a, b) ==
  LET carry[i \in 0 .. a.len] ==   \* Out of byte i.
        IF i < a.len /\ a.val[i] + b.val[i] + carry[i + 1] > Base - 1 THEN 1 ELSE 0
  IN  [len |-> a.len,
       val |-> [i \in 0 .. MaxLen |->
                  IF i < a.len THEN (a.val[i] + b.val[i] + carry[i + 1]) % Base ELSE res.val[i]]]

-----------------------------------------------------------------------------
(* readVal: the bytes are laid over what the buffer holds. *)
readVal(lv, bytes) ==
  [len |-> Len(bytes),
   val |-> [i \in 0 .. MaxLen |-> IF i < Len(bytes) THEN bytes[i + 1] ELSE lv.val[i]]]

(* The n bytes in which a file holds a number, and what a lenVal is that has read them. *)
Digits(number, n)  == [i \in 1 .. n |-> (number \div Pow2[ByteBits * (n - i)]) % Base]
Written(number, n) == readVal(Zeroed, Digits(number, n))

(* xsvfGetAsNumBytes: the number is cast to a short. *)
xsvfGetAsNumBytes(bits) ==
  (((bits + ByteBits - 1) \div ByteBits + ShortHalf) % (2 * ShortHalf)) - ShortHalf

(* The bits of a mask that are set, and how many of them are less significant than one. *)
MaskBits(mask) ==
  {p \in (0 .. mask.len - 1) \X (0 .. ByteBits - 1) : Bit(mask.val[p[1]], p[2]) = 1}

(* Mutant: the bytes of the mask are gone through from the first to the last. *)
RankForward(mask, p) ==
  Cardinality({q \in MaskBits(mask) : q[1] < p[1] \/ (q[1] = p[1] /\ q[2] < p[2])})

Rank(mask, p) ==
  Cardinality({q \in MaskBits(mask) : q[1] > p[1] \/ (q[1] = p[1] /\ q[2] < p[2])})

(* Bit r of the number a lenVal stands for. *)
BitOfValue(lv, r) == Bit(lv.val[lv.len - 1 - r \div ByteBits], r % ByteBits)

(* The bits the mask selects are replaced by those of the next data, the least significant *)
(* bit first.                                                                              *)
Inserted(lv, next, mask) ==
  [lv EXCEPT !.val = [i \in 0 .. MaxLen |->
     IF i < mask.len
     THEN ByteOf([b \in 0 .. ByteBits - 1 |->
            IF <<i, b>> \in MaskBits(mask) THEN BitOfValue(next, Rank(mask, <<i, b>>))
                                           ELSE Bit(@[i], b)])
     ELSE @[i]]]

(* xsvfDoSDRMasking: the address mask is added, then the data is put in. *)
xsvfDoSDRMasking(tdi, next, address, mask) == Inserted(addVal(tdi, tdi, address), next, mask)
=============================================================================
