-------------------------- MODULE FirmwareProgrammer --------------------------
(***************************************************************************)
(* main of mtca4u_fw_programmer, from the options to the exit code: which  *)
(* operations it asks the programmer for, in which order, and what it      *)
(* makes of their answers.  One invocation follows another, and each can   *)
(* be killed; the chip keeps what the one before has left in it, a command *)
(* still to be carried out included.  The SPI programmer is FlashService,  *)
(* which SpiProgrammer implements; the JTAG programmer plays a file that   *)
(* can do anything to the chip.                                            *)
(***************************************************************************)
EXTENDS Integers

CONSTANTS
  Size, Bits, Files, Failures,   (* As in FlashService; a file is also "suited" or not, what  *)
                                 (* checkFirmwareFile says of it.                             *)
  Reaches,     (* Addresses the operations can express, of one chip or another.               *)
  Options,     (* Command lines, with what a configuration file adds.                         *)
  Word,        (* Numbers an uint32_t can hold (2^32).                                        *)
  BarLimit     (* Numbers an uint8_t can hold (256).                                          *)

Interfaces == {"", "spi", "jtag", "other"}

ASSUME MainAssumption ==
  /\ Size \in Nat \ {0} /\ Reaches \subseteq Nat \ {0} /\ Word \in Nat \ {0} /\ BarLimit \in Nat \ {0}
  /\ "killed" \in Failures /\ Failures \cap {"none", "done", "true", "false"} = {}
  /\ \A f \in Files : /\ f.len \in Nat /\ \A k \in 0 .. f.len - 1 : f.byte[k] \subseteq Bits
                      /\ f.opens \in BOOLEAN /\ f.suited \in BOOLEAN
  /\ Options \subseteq
       [help : BOOLEAN, program : BOOLEAN, verify : BOOLEAN, dump : BOOLEAN, reload : BOOLEAN,
        interface : Interfaces, firmware_file : Files, fileNamed : BOOLEAN,
        device : {"", "raw", "alias"}, dmap : BOOLEAN,
        address : {"", "good", "bad"}, bar : Int, flash_size : Int]

VARIABLES
  cells, target, reach, working, operation, firmware, misread, answer,   (* FlashService.   *)
  options,     (* The command line.                                                         *)
  bar,         (* arguments.bar and ...                                                     *)
  flashSize,   (* ... arguments.flash_size.                                                 *)
  pc,          (* The step of main to come; "exited" between two invocations.               *)
  called,      (* Main has called the programmer for this step.                             *)
  exitCode,    (* How the last invocation ended.                                            *)
  loaded       (* History: what the FPGA was rebooted from in this invocation.              *)

Chip == INSTANCE FlashService

chip  == <<cells, target, reach, working, operation, firmware, misread, answer>>
args  == <<options, bar, flashSize>>
vars  == <<chip, args, pc, called, exitCode, loaded>>

NotRebooted == [a \in {} |-> {}]

Steps == {"parse", "verifyArguments", "construct", "check", "erase", "program", "dump", "verify",
          "reload", "exited"}

TypeOK ==
  /\ cells \in Chip!Cells /\ target \in Chip!Cells
  /\ reach \in Reaches
  /\ working \in BOOLEAN /\ misread \in BOOLEAN
  /\ operation \in {"erase", "program", "verify", "dump"}
  /\ firmware \in Files
  /\ answer \in Failures \cup {"none", "done", "true", "false"}
  /\ options \in Options
  /\ bar \in 0 .. BarLimit - 1 /\ flashSize \in 0 .. Word - 1
  /\ pc \in Steps
  /\ called \in BOOLEAN
  /\ exitCode \in {0, 1}
  /\ loaded \in Chip!Cells \cup {NotRebooted}

Init ==
  /\ reach \in Reaches /\ Chip!Init
  /\ options \in Options /\ bar = 0 /\ flashSize = 0
  /\ pc = "exited" /\ called = FALSE /\ exitCode = 1 /\ loaded = NotRebooted

-----------------------------------------------------------------------------
(* Main ends, or goes on. *)
Return(code) == pc' = "exited" /\ exitCode' = code /\ called' = FALSE /\ UNCHANGED loaded

(* The next step, or the end. *)
GoOn(step) ==
  IF step = "exited" THEN Return(0)
  ELSE pc' = step /\ called' = FALSE /\ UNCHANGED <<exitCode, loaded>>

(* What main does after each operation: the first one that was asked for. *)
AfterReload    == "exited"
AfterVerify    == IF options.reload THEN "reload" ELSE AfterReload
AfterDump      == IF options.verify THEN "verify" ELSE AfterVerify
AfterProgram   == IF options.dump THEN "dump" ELSE AfterDump
AfterErase     == "program"
AfterCheck     == IF options.program THEN "erase" ELSE AfterProgram
AfterConstruct == IF options.program \/ options.verify THEN "check" ELSE AfterCheck

Following ==
  CASE pc = "erase"   -> AfterErase
    [] pc = "program" -> AfterProgram
    [] pc = "dump"    -> AfterDump
    [] pc = "verify"  -> AfterVerify

-----------------------------------------------------------------------------
(* THE ARGUMENTS *)

(* The program is started. *)
Start ==
  /\ pc = "exited"
  /\ options' \in Options
  /\ pc' = "parse" /\ loaded' = NotRebooted
  /\ UNCHANGED <<chip, bar, flashSize, called, exitCode>>

(* Mutant: the bar is not cut to a byte. *)
WholeBar == options.bar

CutBar == options.bar % BarLimit

(* parse_arguments: help ends the program; stoi throws for what an int cannot hold, and *)
(* what it can hold is cut to the width of the argument.                                *)
ParseArguments ==
  /\ pc = "parse"
  /\ IF \/ options.help
        \/ options.interface = "other"
        \/ options.address = "bad"
        \/ options.flash_size >= Word \div 2 \/ options.flash_size < -(Word \div 2)
     THEN Return(1) /\ UNCHANGED <<bar, flashSize>>
     ELSE /\ GoOn("verifyArguments")
          /\ bar' = IF options.address = "good" THEN CutBar ELSE 0
          /\ flashSize' = options.flash_size % Word
  /\ UNCHANGED <<chip, options>>

NeedsFile == options.program \/ options.verify

(* verify_arguments *)
ArgumentsFit ==
  /\ options.program \/ options.reload \/ options.verify \/ options.dump
  /\ ~(NeedsFile /\ options.dump)
  /\ options.dump => flashSize # 0
  /\ flashSize % 1024 = 0
  /\ options.device # "" /\ options.interface # ""
  /\ NeedsFile => options.fileNamed /\ options.firmware_file.opens

VerifyArguments ==
  /\ pc = "verifyArguments"
  /\ IF ArgumentsFit THEN GoOn("construct") ELSE Return(1)
  /\ UNCHANGED <<chip, args>>

(* DMAP file, MAP file or bare address: the last needs a device descriptor.  Opening the *)
(* device, or finding the boot area in it, may fail.                                     *)
AccessMode ==
  IF options.dmap THEN "DMAP"
  ELSE IF options.device = "raw" /\ options.address = "" THEN "MAP" ELSE "RAW"

Construct ==
  /\ pc = "construct"
  /\ Return(1) \/ ((AccessMode = "RAW" => options.device = "raw") /\ GoOn(AfterConstruct))
  /\ UNCHANGED <<chip, args>>

-----------------------------------------------------------------------------
(* THE OPERATIONS *)

(* Mutant: the file is not looked at. *)
AnyFile == options.interface # ""

(* checkFirmwareFile; it may also find that the file cannot be read any more. *)
FileAccepted == options.firmware_file.suited

CheckFirmwareFile ==
  /\ pc = "check"
  /\ Return(1) \/ (FileAccepted /\ GoOn(AfterCheck))
  /\ UNCHANGED <<chip, args>>

(* An operation of the SPI programmer is called ... *)
CallSpi ==
  /\ options.interface = "spi" /\ pc \in {"erase", "program", "dump", "verify"} /\ ~called
  /\ Chip!Begin
  /\ operation' = pc
  /\ firmware' = IF pc \in {"program", "verify"} THEN options.firmware_file ELSE firmware
  /\ called' = TRUE
  /\ UNCHANGED <<args, pc, exitCode, loaded>>

(* Mutants: the answer of verify is not looked at; an exception of erase does not end main. *)
AnyAnswer    == answer \in {"done", "true", "false"}
ErasedOrNot  == answer \in {"done", "true"} \/ operation = "erase"

(* ... and returns: an exception, or false, ends main. *)
Succeeded == answer \in {"done", "true"}

SpiReturns ==
  /\ called /\ ~working
  /\ IF Succeeded THEN GoOn(Following) ELSE Return(1)
  /\ UNCHANGED <<chip, args>>

(* The JTAG programmer: erase does nothing, ... *)
JtagErase ==
  /\ options.interface = "jtag" /\ pc = "erase"
  /\ GoOn(AfterErase)
  /\ UNCHANGED <<chip, args>>

(* ... program plays the file, command by command, ... *)
JtagPlay ==
  /\ options.interface = "jtag" /\ pc = "program"
  /\ cells' \in Chip!Cells /\ target' = cells'
  /\ UNCHANGED <<reach, working, operation, firmware, misread, answer, args, pc, called, exitCode,
                 loaded>>

(* ... until it has come to its end or failed.  Nothing says that it does: run may play a *)
(* file for ever.                                                                         *)
JtagReturns ==
  /\ options.interface = "jtag" /\ pc = "program"
  /\ Return(1) \/ GoOn(AfterProgram)
  /\ UNCHANGED <<chip, args>>

(* ... there is no dump, and verify is always true. *)
JtagDump ==
  /\ options.interface = "jtag" /\ pc = "dump"
  /\ Return(1)
  /\ UNCHANGED <<chip, args>>

JtagVerify ==
  /\ options.interface = "jtag" /\ pc = "verify"
  /\ GoOn(AfterVerify)
  /\ UNCHANGED <<chip, args>>

(* rebootFPGA of either programmer: the FPGA loads what the chip holds. *)
Reload ==
  /\ pc = "reload"
  /\ \/ Return(1)
     \/ pc' = AfterReload /\ exitCode' = 0 /\ called' = FALSE /\ loaded' = cells
  /\ UNCHANGED <<chip, args>>

(* The process is killed; an operation in progress ends with it. *)
Kill ==
  /\ pc # "exited"
  /\ Return(1)
  /\ IF working THEN Chip!Finish /\ answer' = "killed" ELSE UNCHANGED chip
  /\ UNCHANGED args

-----------------------------------------------------------------------------
(* The programmer and the chip work on their own. *)
ChipWorks ==
  /\ Chip!Misread \/ Chip!SendErase \/ Chip!SendBytes \/ Chip!TakeEffect \/ Chip!CallOff
  /\ UNCHANGED <<args, pc, called, exitCode, loaded>>

ChipAnswers == Chip!Finish /\ UNCHANGED <<args, pc, called, exitCode, loaded>>

Main ==
  \/ ParseArguments \/ VerifyArguments \/ Construct \/ CheckFirmwareFile
  \/ CallSpi \/ SpiReturns \/ JtagErase \/ JtagPlay \/ JtagReturns \/ JtagDump \/ JtagVerify \/ Reload

Next == Start \/ Main \/ Kill \/ ChipWorks \/ ChipAnswers

Spec == Init /\ [][Next]_vars

-----------------------------------------------------------------------------
(* PROPERTIES *)

Image == options.firmware_file

(* The image has a cell of its own for every byte. *)
Fits == Image.len <= reach /\ Image.len <= Size

Holds(content) == \A k \in 0 .. Image.len - 1 : content[k] = Image.byte[k]

(* An invocation over SPI that was to program or verify and exits with 0 leaves exactly *)
(* the image in the chip, and nothing that could still change it, whatever was killed   *)
(* before.                                                                              *)
SuccessMeansImage ==
  pc = "exited" /\ exitCode = 0 /\ options.interface = "spi" /\ NeedsFile /\ Fits =>
    Holds(cells) /\ target = cells

(* The FPGA is never rebooted from anything but the image that was to be programmed or *)
(* verified: a failure before the reboot prevents it.                                  *)
RebootsIntoImage ==
  loaded # NotRebooted /\ options.interface = "spi" /\ NeedsFile /\ Fits => Holds(loaded)

(* An invocation changes the chip only if it was asked to program a file it has accepted; *)
(* one that dumps never does.  What it can do is to carry out, or to call off, a command  *)
(* that was left behind.                                                                  *)
ChangesOnlyWhenAsked ==
  [][(options.program /\ ~options.dump /\ Image.suited) \/ target' \in {target, cells}]_vars

(* The command line of a board script is one the program accepts: the script is a         *)
(* "FPGA configuration memory programmer" (tck7_programmer.sh:11), and this its only call. *)
CommandLineIsAccepted == pc = "verifyArguments" => ArgumentsFit
=============================================================================
