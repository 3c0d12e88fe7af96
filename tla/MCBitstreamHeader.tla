-------------------------- MODULE MCBitstreamHeader --------------------------
(* Instances of BitstreamHeader: files as they are written for several FPGA families, their *)
(* headers and padding such that the sync word is anywhere up to the end of the buffer and   *)
(* behind it.                                                                               *)
EXTENDS BitstreamHeader

File(bit, header, pad, width, gap, len) ==
  [bit |-> bit, header |-> header, pad |-> pad, width |-> width, gap |-> gap,
   sync |-> TRUE, len |-> len]

NoSync(f) == [f EXCEPT !.sync = FALSE]

Headers == {76, 77, 120} \cup 456 .. 466

(* With the bus width pattern, and two words between it and the sync word. *)
BitFiles == {File(TRUE, h, p, 8, 8, 560) : h \in Headers, p \in {0, 4, 32}}
BinFiles == {File(FALSE, 0, p, w, 8, 560) : p \in {0, 1, 15, 16, 32, 484} \cup 490 .. 504,
                                             w \in {0, 8}}
              \cup {File(FALSE, 0, 0, 0, 0, 560)}
Short    == {File(b, 76, 32, 8, 8, n) : b \in BOOLEAN, n \in {13, 14, 200, 511, 512}}
Without  == {NoSync(File(b, 76, 32, 8, 8, 560)) : b \in BOOLEAN}

Usual == BitFiles \cup BinFiles \cup {f \in Short : f.bit \/ f.len < 512} \cup Without

(* Bit files without bus width pattern: 16 bytes 0xff and the sync word, and nothing but *)
(* the pattern and the sync word, where the offset is negative.                           *)
NoWidth == {File(TRUE, 76, 0, 0, 16, 560), File(TRUE, 14, 0, 0, 0, 560), File(TRUE, 15, 0, 0, 0, 560)}

MCFiles == Usual \cup NoWidth
=============================================================================
