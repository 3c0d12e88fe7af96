------------------------- MODULE MCFirmwareProgrammer -------------------------
(* Small instances of FirmwareProgrammer: a chip of two cells of one bit. *)
EXTENDS FirmwareProgrammer

MCBits     == {"b"}
MCFailures == {"failed", "killed"}

File(bytes, suited, opens) ==
  [len |-> 2, byte |-> [k \in 0 .. 1 |-> bytes[k + 1]], opens |-> opens, suited |-> suited]

Good    == File(<<{}, MCBits>>, TRUE, TRUE)
Unfit   == File(<<{}, MCBits>>, FALSE, TRUE)
Missing == File(<<{}, MCBits>>, TRUE, FALSE)

MCFiles == {Good, Unfit, Missing}

Given == [help |-> FALSE, program |-> FALSE, verify |-> FALSE, dump |-> FALSE, reload |-> FALSE,
          interface |-> "spi", firmware_file |-> Good, fileNamed |-> TRUE, device |-> "raw",
          dmap |-> FALSE, address |-> "", bar |-> 0, flash_size |-> 0]

Actions == {[Given EXCEPT !.program = p, !.verify = v, !.dump = d, !.reload = r, !.flash_size = s] :
              p \in BOOLEAN, v \in BOOLEAN, d \in BOOLEAN, r \in BOOLEAN, s \in {0, 1024}}

All == [Given EXCEPT !.program = TRUE, !.verify = TRUE, !.reload = TRUE]

(* What is wrong, or other, with the rest of a command line. *)
Others == { [All EXCEPT !.help = TRUE], [All EXCEPT !.interface = "other"],
            [All EXCEPT !.interface = ""], [All EXCEPT !.firmware_file = Unfit],
            [All EXCEPT !.firmware_file = Missing], [All EXCEPT !.fileNamed = FALSE],
            [All EXCEPT !.device = ""], [All EXCEPT !.device = "alias"],
            [All EXCEPT !.device = "alias", !.dmap = TRUE],
            [All EXCEPT !.address = "good", !.bar = 258], [All EXCEPT !.address = "bad"],
            [Given EXCEPT !.dump = TRUE, !.flash_size = -1024],
            [All EXCEPT !.flash_size = 1000], [All EXCEPT !.flash_size = 8192] }

Jtag == {[a EXCEPT !.interface = "jtag"] : a \in {All, [All EXCEPT !.program = FALSE],
                                                  [Given EXCEPT !.dump = TRUE, !.flash_size = 1024]}}

MCReaches == {2}

MCOptions == Actions \cup Others \cup Jtag

(* What the board scripts call the program with. *)
MCScripts == {[Given EXCEPT !.interface = i] : i \in {"spi", "jtag"}}
=============================================================================
