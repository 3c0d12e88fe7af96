------------------------------ MODULE XsvfShift ------------------------------
(***************************************************************************)
(* One xsvfShift of the XSVF player bit by bit, with the data: what        *)
(* xsvfShiftOnly writes to the registers behind the pins TDI and TCK, what *)
(* it reads from TDO, and the comparison with the expected data.  The      *)
(* chain shifts on the rising edge of TCK and puts out the next bit on the *)
(* falling edge; the register in which TCK can be read back follows the    *)
(* pin after a while.  TMS, the states of the TAP and the number of        *)
(* retries are in XsvfTap.                                                 *)
(***************************************************************************)
EXTENDS LenVal

CONSTANTS
  Lengths,   (* Bits of a shift.              *)
  Tdi,       (* Data to send (numbers).       *)
  Tdo        (* Data and masks to expect.     *)

ASSUME ShiftAssumption ==
  /\ Lengths \subseteq Nat \ {0}
  /\ \A n \in Lengths : xsvfGetAsNumBytes(n) \in 1 .. MaxLen /\ n <= ByteBits * xsvfGetAsNumBytes(n)
  /\ Tdi \subseteq Nat /\ Tdo \subseteq Nat

VARIABLES
  bits,         (* lNumBits: the length of the shift, and of the register in the chain. *)
  lvTdi, lvTdoExpected, lvTdoMask, lvTdoCaptured,
  judge,        (* The arguments given: "none" (no TDO), "plain" or "masked".           *)
  register,     (* The register of the chain; bit 0 is the next to leave it.            *)
  tdi, tck,     (* The pins the player drives ...                                       *)
  tdo,          (* ... the one it reads, and                                            *)
  tckRead,      (* what it reads back of TCK.                                           *)
  left,         (* Bits still to shift.                                                 *)
  mismatch,     (* iMismatch                                                            *)
  pc,
  before        (* History: the register when the shift began. *)

args == <<bits, lvTdi, lvTdoExpected, lvTdoMask, judge>>
pins == <<register, tdi, tck, tdo>>
vars == <<args, lvTdoCaptured, pins, tckRead, left, mismatch, pc, before>>

Contents(n) == [0 .. n - 1 -> {0, 1}]

(* The register is between Capture-DR and the first bit; TCK was left high by the      *)
(* transition to the shift state, or low by a wait there, which brought the first bit out. *)
Init ==
  /\ bits \in Lengths
  /\ lvTdi \in {Written(d, xsvfGetAsNumBytes(bits)) : d \in Tdi}
  /\ judge \in {"none", "plain", "masked"}
  /\ lvTdoExpected \in (IF judge = "none" THEN {Zeroed}
                        ELSE {Written(d, xsvfGetAsNumBytes(bits)) : d \in Tdo})
  /\ lvTdoMask \in (IF judge # "masked" THEN {Zeroed}
                    ELSE {Written(d, xsvfGetAsNumBytes(bits)) : d \in Tdo})
  /\ lvTdoCaptured = Zeroed
  /\ register \in Contents(bits) /\ before = register
  /\ tdi \in {0, 1} /\ tck \in {0, 1} /\ tckRead \in {0, 1}
  /\ tdo = IF tck = 0 THEN register[0] ELSE 0
  /\ left = bits /\ mismatch = FALSE /\ pc = "present"

-----------------------------------------------------------------------------
(* THE CHAIN *)

(* The edges of TCK, in the shift state. *)
Falling == tck' = 0 /\ tdo' = register[0] /\ UNCHANGED register

Rising ==
  /\ tck' = 1
  /\ register' = [i \in 0 .. bits - 1 |-> IF i = bits - 1 THEN tdi ELSE register[i + 1]]
  /\ UNCHANGED tdo

(* The register with TCK shows what the pin is. *)
Settle ==
  /\ tckRead # tck
  /\ tckRead' = tck
  /\ UNCHANGED <<args, lvTdoCaptured, pins, left, mismatch, pc, before>>

-----------------------------------------------------------------------------
(* THE PLAYER *)

Shifted == bits - left

(* Mutants: the most significant bit goes first; the bits of a byte are not moved to their *)
(* place; the wrong level of TCK is waited for.            *)
LeftmostFirst    == BitOfValue(lvTdi, ByteBits * lvTdi.len - 1 - Shifted)
Unmoved          == tdo
WaitForHigh      == tckRead = 1

(* Data go out from the last byte to the first, the least significant bit of each first ... *)
NextTdi == BitOfValue(lvTdi, Shifted)

(* ... and come in the same way. *)
TdoBit  == tdo * Pow2[Shifted % ByteBits]

NewByte == Shifted % ByteBits = 0

TckIsLow == tckRead = 0

(* setPort(TDI), setPort(TCK, 0) *)
Present ==
  /\ pc = "present" /\ left > 0
  /\ tdi' = NextTdi
  /\ IF tck = 1 THEN Falling ELSE UNCHANGED <<tck, tdo, register>>
  /\ pc' = IF judge = "none" THEN "high" ELSE "read"
  /\ UNCHANGED <<args, lvTdoCaptured, tckRead, left, mismatch, before>>

(* readTDOBit: TCK is low already; TDO is read when that can be seen.  The captured value *)
(* is as long as the data sent, and its bytes are put together from nothing.             *)
ReadTdo ==
  /\ pc = "read" /\ TckIsLow
  /\ lvTdoCaptured' =
       [len |-> lvTdi.len,
        val |-> [lvTdoCaptured.val EXCEPT ![lvTdi.len - 1 - Shifted \div ByteBits] =
                   (IF NewByte THEN 0 ELSE @) + TdoBit]]
  /\ pc' = "high"
  /\ UNCHANGED <<args, pins, tckRead, left, mismatch, before>>

(* setPort(TCK, 1) *)
ClockHigh ==
  /\ pc = "high"
  /\ Rising
  /\ left' = left - 1
  /\ pc' = IF left = 1 THEN "compare" ELSE "present"
  /\ UNCHANGED <<args, lvTdoCaptured, tdi, tckRead, mismatch, before>>

Compare ==
  /\ pc = "compare"
  /\ mismatch' = CASE judge = "none"   -> FALSE
                   [] judge = "plain"  -> ~EqualUnmasked(lvTdoExpected, lvTdoCaptured)
                   [] judge = "masked" -> ~EqualLenVal(lvTdoExpected, lvTdoCaptured, lvTdoMask)
  /\ pc' = "done"
  /\ UNCHANGED <<args, lvTdoCaptured, pins, tckRead, left, before>>

(* A retry: the register captures, and what is in lvTdoCaptured stays there. *)
Again ==
  /\ pc = "done" /\ mismatch
  /\ register' \in Contents(bits) /\ before' = register'
  /\ left' = bits
  /\ pc' = "present"
  /\ UNCHANGED <<args, lvTdoCaptured, tdi, tck, tdo, tckRead, mismatch>>

(* The shift is over. *)
Finished == pc = "done" /\ ~mismatch /\ UNCHANGED vars

Player == Present \/ ReadTdo \/ ClockHigh \/ Compare

Next == Player \/ Settle \/ Again \/ Finished

(* The player keeps running, and the pin and its register settle. *)
Spec == Init /\ [][Next]_vars /\ WF_vars(Player) /\ WF_vars(Settle)

-----------------------------------------------------------------------------
(* PROPERTIES *)

(* After every bit the register of the chain holds, from its TDI end, the bits of lvTdi *)
(* sent so far, the least significant one foremost, and in front of them what has not    *)
(* left it yet: LSB first, val[N-1] == LSB (XSVFPlayer.cpp:459).                         *)
ChainHoldsTdi ==
  /\ \A i \in 0 .. left - 1 : register[i] = before[i + Shifted]
  /\ \A i \in left .. bits - 1 : register[i] = BitOfValue(lvTdi, i - left)

(* lvTdoCaptured is what the register held before the shift, bit by bit, and 0 in the bits *)
(* of its first byte that the shift does not reach, whatever an earlier round left there.  *)
CapturedIsOldRegister ==
  pc \in {"compare", "done"} /\ judge # "none" =>
    \A i \in 0 .. ByteBits * lvTdi.len - 1 :
      BitOfValue(lvTdoCaptured, i) = IF i < bits THEN before[i] ELSE 0

(* Seen from the command, the shift is one exchange of data, and its outcome is right. *)
AllBits == 0 .. ByteBits * lvTdi.len - 1
Busy    == pc # "done"
Exchange == INSTANCE DataExchange WITH
  length   <- bits,
  data     <- [i \in AllBits |-> BitOfValue(lvTdi, i)],
  expected <- IF judge = "none" THEN [i \in AllBits |-> 0]
              ELSE [i \in AllBits |-> BitOfValue(lvTdoExpected, i)],
  care     <- CASE judge = "none"   -> [i \in AllBits |-> 0]
                [] judge = "plain"  -> [i \in AllBits |-> 1]
                [] judge = "masked" -> [i \in AllBits |-> BitOfValue(lvTdoMask, i)],
  register <- IF Busy THEN before ELSE register,
  outcome  <- IF Busy THEN "pending" ELSE IF mismatch THEN "different" ELSE "equal"

ImplementsExchange == Exchange!Spec

(* Every round of a shift comes to its end: the poll of TCK, which has no bound *)
(* (MtcaProgrammerJTAG.cpp:117), does end if the register follows the pin.       *)
ShiftEnds == Busy ~> ~Busy
=============================================================================
