----------------------------- MODULE MCXsvfShift -----------------------------
(* Small instances of XsvfShift: bytes of two bits, shifts of a part of a byte, of a whole *)
(* one, and of one and a half.                                                             *)
EXTENDS XsvfShift

MCLengths == {1, 2, 3}
MCTdi     == {5, 6, 11}
MCTdo     == {0, 1, 2, 5, 6, 9, 12, 15}
=============================================================================
