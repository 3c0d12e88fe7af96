---------------------------- MODULE XsvfIncrement ----------------------------
(***************************************************************************)
(* The data of XSDRINC, the command of compressed files: a first value,    *)
(* and for every following shift the value before it with the address mask *)
(* added and the bits of the data mask replaced by the next piece of data. *)
(***************************************************************************)
EXTENDS LenVal

CONSTANTS
  Size,        (* Bytes of the shift.                  *)
  Firsts,      (* First values (numbers) ...           *)
  Addresses,   (* ... address masks, and               *)
  Masks,       (* data masks.                          *)
  MaxPieces    (* Bound on ucNumTimes.                 *)

ASSUME IncrementAssumption ==
  /\ Size \in 1 .. MaxLen /\ MaxPieces \in Nat
  /\ Firsts \cup Addresses \cup Masks \subseteq 0 .. Pow2[ByteBits * Size] - 1

VARIABLES
  lvTdi, lvNextData, lvAddressMask, lvDataMask,
  first,      (* History: the first value.                   *)
  pieces      (* Pieces of data shifted so far (i).           *)

vars == <<lvTdi, lvNextData, lvAddressMask, lvDataMask, first, pieces>>

Init ==
  /\ lvTdi \in {Written(n, Size) : n \in Firsts} /\ first = lvTdi
  /\ lvAddressMask \in {Written(n, Size) : n \in Addresses}
  /\ lvDataMask \in {Written(n, Size) : n \in Masks}
  /\ lvNextData = Zeroed
  /\ pieces = 0

(* As many bytes as the data mask has bits for. *)
PieceBytes == xsvfGetAsNumBytes(Cardinality(MaskBits(lvDataMask)))

(* The next piece is read; its spare bits can be anything. *)
Piece ==
  /\ pieces < MaxPieces
  /\ \E bytes \in [1 .. PieceBytes -> Byte] : lvNextData' = readVal(lvNextData, bytes)
  /\ lvTdi' = xsvfDoSDRMasking(lvTdi, lvNextData', lvAddressMask, lvDataMask)
  /\ pieces' = pieces + 1
  /\ UNCHANGED <<lvAddressMask, lvDataMask, first>>

Finished == pieces = MaxPieces /\ UNCHANGED vars

Next == Piece \/ Finished

Spec == Init /\ [][Next]_vars

-----------------------------------------------------------------------------
(* PROPERTIES *)

(* The values as numbers of Width bits. *)
Width    == ByteBits * Size
Modulus  == Pow2[Width]
Mask     == value(lvDataMask)
Address  == value(lvAddressMask)
DataBits == {r \in 0 .. Width - 1 : Bit(Mask, r) = 1}

(* The address field lies above the data field, as in XSVFPlayer.cpp:650. *)
Apart == \A r \in DataBits : Address % Pow2[r + 1] = 0

(* A value with the bits of the data mask replaced: read from the least significant bit *)
(* upwards they spell the data, across the bytes of both.                               *)
Replaces(replaced, old, data) ==
  \A r \in 0 .. Width - 1 :
    Bit(replaced, r) = IF r \in DataBits THEN Bit(data, Cardinality({q \in DataBits : q < r}))
                                         ELSE Bit(old, r)

(* A piece of data does what XSVFPlayer.cpp:962 says: it "replaces the bits from the starting *)
(* TDI as defined by the XSETSDRMASKS.dataMask, adds the address mask", with the carry        *)
(* through all bytes.  The code adds first (line 668), which is the same only if no carry     *)
(* reaches a bit of the data: so the fields are apart.                                        *)
PieceIsApplied ==
  [][Apart => \E replaced \in 0 .. Modulus - 1 :
                /\ Replaces(replaced, value(lvTdi), value(lvNextData)')
                /\ value(lvTdi)' = (replaced + Address) % Modulus]_vars

(* What XSDRINC is for: with the data field below the address field, the k-th piece goes *)
(* to the first address plus k times the step, whatever the data were.                   *)
AddressCounts ==
  \A d \in 0 .. Width :
    (\A r \in DataBits : r < d) =>
      value(lvTdi) \div Pow2[d]
        = (value(first) \div Pow2[d] + pieces * (Address \div Pow2[d])) % Pow2[Width - d]
      \/ Address % Pow2[d] # 0
=============================================================================
