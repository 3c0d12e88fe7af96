--------------------------- MODULE MCXsvfIncrement ---------------------------
(* Small instances of XsvfIncrement: values of two bytes of two bits; data and address *)
(* fields apart, across the border of the bytes, and overlapping.                       *)
EXTENDS XsvfIncrement

MCNumbers == 0 .. Modulus - 1
=============================================================================
