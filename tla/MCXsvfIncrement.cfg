\* The values XSDRINC computes from masks and pieces of data.
CONSTANTS
  ByteBits = 2
  MaxLen = 2
  ShortHalf = 8
  Size = 2
  Firsts <- MCNumbers
  Addresses <- MCNumbers
  Masks <- MCNumbers
  MaxPieces = 3
SPECIFICATION Spec
INVARIANT
  AddressCounts
PROPERTY
  PieceIsApplied
