----------------------------- MODULE FlashService -----------------------------
(***************************************************************************)
(* What MtcaProgrammerSPI promises the code that calls it, without         *)
(* registers, commands, pages or chunks: a chip whose cells change only    *)
(* through erase and program, and operations that end with an answer that  *)
(* is true of the chip or fail without one.                                *)
(*                                                                         *)
(* A failed operation may leave a command behind that the chip carries out *)
(* later, so "target" is what the cells will be once the command sent last *)
(* has had its effect, and "cells" is what they are.                       *)
(*                                                                         *)
(* Reading the file can fail and go on ("misread").  The bytes are then    *)
(* out of step with the pages of the chip and may reach any cell, so such  *)
(* an operation never ends as a success.                                   *)
(***************************************************************************)
EXTENDS Integers

CONSTANTS
  Size,      (* Cells of the chip.                                             *)
  Bits,      (* The bits of a cell, a set of its 1 bits.                       *)
  Files,     (* Firmware files, as in SpiProgrammer.                           *)
  Failures   (* The ways an operation can fail.                                *)

Cells == [0 .. Size - 1 -> SUBSET Bits]
Empty == [a \in 0 .. Size - 1 |-> Bits]

VARIABLES
  cells,     (* The content of the chip.                                       *)
  target,    (* Its content once the last command has been carried out.        *)
  reach,     (* The addresses the operations can express for this chip.        *)
  working,   (* An operation is running.                                       *)
  operation, (* It, or the last one.                                           *)
  firmware,  (* Its file.                                                      *)
  misread,   (* Reading that file has failed in between.                       *)
  answer     (* How the last operation ended.                                  *)

request == <<reach, operation, firmware>>
svars   == <<cells, target, working, misread, answer, request>>

(* The cell an image byte goes to: images longer than the chip come round again. *)
Place(k) == (k % reach) % Size

Image(k) == firmware.byte[k]
InFile   == 0 .. firmware.len - 1

Settled == target = cells

Init ==
  /\ cells \in Cells /\ Settled
  /\ reach \in Nat \ {0}
  /\ working = FALSE /\ misread = FALSE
  /\ operation = "erase" /\ firmware \in Files /\ answer = "none"

Begin ==
  /\ ~working /\ working' = TRUE
  /\ operation' \in {"erase", "program", "verify", "dump"}
  /\ firmware' \in Files
  /\ answer' = "none"
  /\ UNCHANGED <<cells, target, misread, reach>>

(* Reading the file fails; the operation may go on. *)
Misread ==
  /\ working /\ operation \in {"program", "verify"}
  /\ misread' = TRUE
  /\ UNCHANGED <<cells, target, working, answer, request>>

(* The erase command is sent. *)
SendErase ==
  /\ working /\ operation = "erase" /\ Settled
  /\ target' = Empty
  /\ UNCHANGED <<cells, working, misread, answer, request>>

(* Some bytes of the image are sent to the chip, which clears the bits they have clear. *)
SendBytes ==
  /\ working /\ operation = "program" /\ Settled
  /\ target' \in Cells
  /\ \A a \in DOMAIN cells :
       \/ target'[a] = cells[a]
       \/ \E k \in InFile : (Place(k) = a \/ misread) /\ target'[a] = cells[a] \cap Image(k)
  /\ UNCHANGED <<cells, working, misread, answer, request>>

(* The chip carries out the last command, at the latest when asked for its answer. *)
TakeEffect ==
  /\ ~Settled
  /\ cells' = target
  /\ UNCHANGED <<target, working, misread, answer, request>>

(* A command an earlier, failed operation left behind is called off. *)
CallOff ==
  /\ working /\ ~Settled
  /\ target' = cells
  /\ UNCHANGED <<cells, working, misread, answer, request>>

(* The answers, each with what it says of the chip. *)
Succeeds(value) ==
  \/ value = "done" /\ operation = "erase" /\ cells = Empty
  \/ value = "done" /\ operation = "program" /\ \A k \in InFile : cells[Place(k)] \subseteq Image(k)
  \/ value = "true" /\ operation = "verify" /\ \A k \in InFile : cells[Place(k)] = Image(k)
  \/ value = "true" /\ operation = "dump"

Differs(value) ==
  value = "false" /\ operation = "verify" /\ (misread \/ \E k \in InFile : cells[Place(k)] # Image(k))

Promise(value) ==
  \/ value \in Failures
  \/ Settled /\ ~misread /\ Succeeds(value)
  \/ Settled /\ Differs(value)

Finish ==
  /\ working /\ working' = FALSE /\ misread' = FALSE
  /\ answer' \in Failures \cup {"done", "true", "false"}
  /\ Promise(answer')
  /\ UNCHANGED <<cells, target, request>>

Next == Begin \/ Misread \/ SendErase \/ SendBytes \/ TakeEffect \/ CallOff \/ Finish

(* What the service never does, ... *)
Safety == Init /\ [][Next]_svars

(* ... and that it answers. *)
Spec == Safety /\ WF_svars(Finish)
=============================================================================
