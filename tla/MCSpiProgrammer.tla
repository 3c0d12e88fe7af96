--------------------------- MODULE MCSpiProgrammer ---------------------------
(* Small instances of SpiProgrammer: a chip of a few bytes of one bit, in pages of two. *)
EXTENDS SpiProgrammer

MCBits     == {"b"}
MCIds      == {"plain24", "quad32", "foreign"}
MCPlain    == {"plain24"}
MCTwo      == {"plain24", "quad32"}
MCNoId     == "FFFFFFFFFF"
MCQuadOnly == {"QUAD"}
MCConfig   == {"QUAD", "TBPROT"}
MCQuadBit  == "QUAD"

(* One supported chip of each kind and one that is not supported. *)
MCKnownProms ==
  [id \in Ids \cap {"plain24", "quad32"} |->
     IF id = "plain24" THEN [addressing_mode |-> "24B", quad_mode |-> FALSE]
                       ELSE [addressing_mode |-> "32B", quad_mode |-> TRUE]]

Zero == {}
One  == MCBits

(* A chip as delivered and a chip that holds something else. *)
MCContents == {Blank, [a \in Address |-> IF a % 3 = 2 THEN Zero ELSE One]}

Image(n) == [opens |-> TRUE, header |-> TRUE, len |-> n,
             byte |-> [k \in 0 .. n - 1 |-> IF k % 2 = 1 THEN Zero ELSE One]]

NoSuchFile == [Image(0) EXCEPT !.opens = FALSE]
BadHeader  == [Image(0) EXCEPT !.header = FALSE]

(* One byte more than a chunk; a file whose data offset is its end; files that are refused. *)
MCFiles == {Image(5), Image(0), NoSuchFile, BadHeader}

(* One and a half pages. *)
MCOneFile   == {Image(3)}

(* The same, with another last byte than the byte a wrapped page program would hit. *)
MCOutOfStep == {[Image(3) EXCEPT !.byte = [k \in 0 .. 2 |-> IF k = 2 THEN Zero ELSE One]]}

(* No bytes, and some that are no whole number of chunks. *)
MCDumpSizes == {0, 5}
MCDumpAll   == {8}
=============================================================================
