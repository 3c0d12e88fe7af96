---------------------------- MODULE SpiProgrammer ----------------------------
(***************************************************************************)
(* MtcaProgrammerSPI: the erase, program, verify and dump operations over  *)
(* the registers and the chip of SpiFlash.                                 *)
(*                                                                         *)
(* The code is one thread.  "pc" names the register sequence it is about   *)
(* to send or the answer it is about to look at; "waiting" says that it is *)
(* inside waitForSpi() for the transfer it has just started.  A register   *)
(* sequence (clear REG_CONTROL, fill AREA_WRITE and the length registers,  *)
(* set SPI_START) is one step: the hardware looks at those registers only  *)
(* once SPI_START is set.  The hardware runs between any two steps, the    *)
(* process can be killed between any two steps, and the next operation can *)
(* follow it at once, from the same process or from a new one: nothing     *)
(* survives in the programmer between two operations.                      *)
(***************************************************************************)
EXTENDS SpiFlash, FiniteSets

CONSTANTS
  KnownProms,    (* known_proms: identifier -> [addressing_mode, quad_mode].       *)
  Span24,        (* Addresses three address bytes can express (2^24).              *)
  Span32,        (* Addresses four address bytes can express (2^32).               *)
  MaxPolls,      (* The polls after which waitForSpi() gives up (1000000).         *)
  Files,         (* Firmware files: [opens, header, len, byte], byte[k] being the  *)
                 (* k-th of the len bytes from the data offset to the end of file. *)
  DumpSizes,     (* Values of the -s option.                                       *)
  DumpCapacity   (* Room for the largest dump file.                                *)

AddressingMode == {"24B", "32B"}

ASSUME KnownPromsAssumption ==
  /\ DOMAIN KnownProms \subseteq Ids
  /\ \A id \in DOMAIN KnownProms :
       /\ KnownProms[id].addressing_mode \in AddressingMode
       /\ KnownProms[id].quad_mode \in BOOLEAN

ASSUME SpanAssumption ==
  /\ Span24 \in Nat \ {0} /\ Span24 % PageSize = 0 /\ Span24 % AreaReadSize = 0
  /\ Span32 \in Nat \ {0} /\ Span32 % PageSize = 0 /\ Span32 % AreaReadSize = 0
  /\ MaxPolls \in Nat

ASSUME FilesAssumption ==
  \A f \in Files : /\ f.opens \in BOOLEAN /\ f.header \in BOOLEAN
                   /\ f.len \in Nat
                   /\ \A k \in 0 .. f.len - 1 : f.byte[k] \in Byte

ASSUME DumpAssumption ==
  /\ DumpSizes \subseteq Nat
  /\ DumpCapacity \in Nat
  /\ \A s \in DumpSizes : s + AreaReadSize <= DumpCapacity

Known(id)  == id \in DOMAIN KnownProms
DumpIndex  == 0 .. DumpCapacity - 1
Operation  == {"erase", "program", "verify", "dump"}
Exceptions == {"UnknownProm", "OutOfRange", "Timeout", "NoFile", "BadFile", "ReadError",
               "WriteError"}
Results    == {"none", "done", "true", "false", "killed"} \cup Exceptions

(* getCommand and writeAddress: the form of a command and the address it carries. *)
PageProgramOp(mode) == IF mode = "24B" THEN "PP3" ELSE "PP4"
FastReadOp(mode)    == IF mode = "24B" THEN "READ3" ELSE "READ4"
Span(mode)          == IF mode = "24B" THEN Span24 ELSE Span32
AddrLen(mode)       == IF mode = "24B" THEN 3 ELSE 4

VARIABLES
  pc,        (* Where the thread is; "idle" between operations.                  *)
  waiting,   (* It is polling in waitForSpi().                                   *)
  polls,     (* The polls done so far (i).                                       *)
  op,        (* The operation running, or the last one that ran.                 *)
  file,      (* Its firmware file.                                               *)
  dumpSize,  (* Its imageSize.                                                   *)
  memId,     (* The last identifier read (memID, mem_id).                        *)
  addr,      (* addr: bytes programmed, verified or dumped so far.               *)
  bread,     (* Bytes of the file in the buffer.                                 *)
  ioErr,     (* ferror() of the file.                                            *)
  dumped,    (* The file dump() writes.                                          *)
  result,    (* How the last operation ended.                                    *)
  atCall     (* History: the chip when the operation was called, and whether it  *)
             (* was idle with no transfer outstanding.                           *)

thread == <<pc, waiting, polls>>
stack  == <<memId, addr, bread, ioErr>>
locals == <<stack, dumped>>
call   == <<op, file, dumpSize, atCall>>
vars   == <<hw, thread, call, locals, result>>

Mode == KnownProms[memId].addressing_mode

Labels == {"idle", "probe1", "probe2", "checkId", "writeEnable", "bulkErase", "readStatus",
           "testStatus", "readConfig", "writeConfig", "openFile", "lookup1", "lookup2",
           "useId", "openDump", "readChunk", "pageEnable", "programPage", "fastRead",
           "compare", "store"}

TypeOK ==
  /\ HwTypeOK
  /\ pc \in Labels
  /\ waiting \in BOOLEAN
  /\ polls \in 0 .. MaxPolls
  /\ op \in Operation
  /\ file \in Files
  /\ dumpSize \in DumpSizes
  /\ memId \in Ids \cup {NoId}
  /\ addr \in Nat
  /\ bread \in Nat
  /\ ioErr \in BOOLEAN
  /\ dumped \in [DumpIndex -> Byte]
  /\ result \in Results
  /\ atCall \in [mem : Memory, config : Config, quiet : BOOLEAN]

Init ==
  /\ HwInit
  /\ pc = "idle" /\ waiting = FALSE /\ polls = 0
  /\ op = "erase" /\ file \in Files /\ dumpSize \in DumpSizes
  /\ memId = NoId /\ addr = 0 /\ bread = 0 /\ ioErr = FALSE
  /\ dumped = [k \in DumpIndex |-> Erased]
  /\ result = "none"
  /\ atCall = [mem |-> mem, config |-> config, quiet |-> TRUE]

-----------------------------------------------------------------------------
At(label) == pc = label /\ ~waiting

Goto(label) == pc' = label /\ UNCHANGED <<waiting, polls, result>>

(* The operation ends, and its local variables with it. *)
Return(value) ==
  /\ pc' = "idle" /\ waiting' = FALSE /\ polls' = 0
  /\ memId' = NoId /\ addr' = 0 /\ bread' = 0 /\ ioErr' = FALSE
  /\ result' = value

(* Start a transfer and wait for it; "next" follows once it is done. *)
Transfer(start, command, next) ==
  /\ areaWrite' = command
  /\ control' = start
  /\ pc' = next /\ waiting' = TRUE /\ polls' = 0
  /\ UNCHANGED <<areaRead, chip, call, result>>

(* An operation is called. *)
Begin(operation) ==
  /\ pc = "idle"
  /\ pc' = "probe1"
  /\ op' = operation
  /\ result' = "none"
  /\ atCall' = [mem |-> memNext, config |-> configNext, quiet |-> ~busy /\ ~Started]
  /\ dumped' = [k \in DumpIndex |-> Erased]
  /\ UNCHANGED <<hw, waiting, polls, stack>>

CallErase   == Begin("erase") /\ UNCHANGED <<file, dumpSize>>
CallProgram == Begin("program") /\ file' \in Files /\ UNCHANGED dumpSize
CallVerify  == Begin("verify") /\ file' \in Files /\ UNCHANGED dumpSize
CallDump    == Begin("dump") /\ dumpSize' \in DumpSizes /\ UNCHANGED file

(* Mutants: one poll too many; the polls are not counted. *)
LateTimeout == polls > MaxPolls
SamePoll    == polls

(* waitForSpi: the poll that finds the transfer done ends it, the last poll allowed *)
(* throws whatever it finds.                                                        *)
TimedOut == polls = MaxPolls
NextPoll == polls + 1

Poll ==
  /\ waiting
  /\ IF TimedOut
     THEN Return("Timeout")
     ELSE /\ IF control = "done" THEN waiting' = FALSE /\ polls' = 0
                                 ELSE waiting' = TRUE  /\ polls' = NextPoll
          /\ UNCHANGED <<pc, result, stack>>
  /\ UNCHANGED <<hw, call, dumped>>

(* Mutant: the unreliable first answer is taken. *)
ReadIdOnce == [probe1 |-> "checkId", probe2 |-> "checkId", lookup1 |-> "lookup2", lookup2 |-> "useId"]

(* getMemoryId: the identifier is read twice, "first read returns garbage". *)
IdSteps == [probe1 |-> "probe2", probe2 |-> "checkId", lookup1 |-> "lookup2", lookup2 |-> "useId"]

ReadMemoryId ==
  \E label \in DOMAIN IdSteps :
    /\ At(label)
    /\ Transfer("startRead", Frame("RDID"), IdSteps[label])
    /\ bytesToWrite' = 0
    /\ bytesToRead' = 4
    /\ UNCHANGED locals

(* Mutants: erase, or verify, does not look at the outcome of the check. *)
PassesInErase(id)  == Known(id) \/ op = "erase"
PassesInVerify(id) == Known(id) \/ op = "verify"

(* checkMemoryId, at the start of every operation. *)
PassesCheck(id) == Known(id)

CheckMemoryId ==
  /\ At("checkId")
  /\ IF ~PassesCheck(areaRead.id)
     THEN Return("UnknownProm")
     ELSE /\ Goto(CASE op \in {"erase", "program"} -> "writeEnable"
                    [] op = "verify"               -> "openFile"
                    [] op = "dump"                 -> "lookup1")
          /\ memId' = areaRead.id
          /\ UNCHANGED <<addr, bread, ioErr>>
  /\ UNCHANGED <<hw, call, dumped>>

(* The second getMemoryId of an operation, for the addressing mode: known_proms.at() *)
(* throws on an identifier it does not hold.                                         *)
SelectMode ==
  /\ At("useId")
  /\ IF ~Known(areaRead.id)
     THEN Return("OutOfRange")
     ELSE /\ Goto(IF op = "dump" THEN "openDump" ELSE "readChunk")
          /\ memId' = areaRead.id
          /\ UNCHANGED <<addr, bread, ioErr>>
  /\ UNCHANGED <<hw, call, dumped>>

(* Mutant: memoryWriteEnable does not set REG_BYTES_TO_WRITE. *)
StaleLength == bytesToWrite

WriteEnableLength == 0

MemoryWriteEnable ==
  /\ \E next \in {"bulkErase", "readConfig", "openFile", "programPage"} :
       /\ \/ At("writeEnable") /\ next = (IF op = "erase" THEN "bulkErase"
                                          ELSE IF KnownProms[memId].quad_mode THEN "readConfig"
                                          ELSE "openFile")
          \/ At("pageEnable") /\ next = "programPage"
       /\ Transfer("start", Frame("WREN"), next)
  /\ bytesToWrite' = WriteEnableLength
  /\ UNCHANGED <<bytesToRead, locals>>

(* memoryBulkErase leaves REG_BYTES_TO_WRITE as memoryWriteEnable left it. *)
MemoryBulkErase ==
  /\ At("bulkErase")
  /\ Transfer("start", Frame("BE"), "readStatus")
  /\ UNCHANGED <<bytesToWrite, bytesToRead, locals>>

(* readStatus leaves REG_BYTES_TO_WRITE as the command before it left it. *)
ReadStatus ==
  /\ At("readStatus")
  /\ Transfer("startRead", Frame("RDSR"), "testStatus")
  /\ bytesToRead' = 0
  /\ UNCHANGED <<bytesToWrite, locals>>

(* The next round of the loop over the file. *)
NextBlock ==
  /\ Goto("readChunk")
  /\ addr' = addr + bread
  /\ UNCHANGED <<memId, bread, ioErr>>

(* Mutant: memoryBulkErase reads the status once. *)
InProgressInProgram == areaRead.status /\ op = "program"

(* The end of the loops on the status of memoryBulkErase and programMemoryPage. *)
InProgress == areaRead.status

TestStatus ==
  /\ At("testStatus")
  /\ \/ InProgress /\ Goto("readStatus") /\ UNCHANGED stack
     \/ ~InProgress /\ op = "erase" /\ Return("done")
     \/ ~InProgress /\ op = "program" /\ NextBlock
  /\ UNCHANGED <<hw, call, dumped>>

(* enableQuadMode: read the configuration register, then write it back with the quad *)
(* bit set; the end of that write is not waited for.                                 *)
ReadConfig ==
  /\ At("readConfig")
  /\ Transfer("startRead", Frame("RDCR"), "writeConfig")
  /\ bytesToRead' = 0
  /\ UNCHANGED <<bytesToWrite, locals>>

(* Mutant: the register is written without regard to what was read. *)
QuadBitOnly == {QuadBit}

NewConfig == areaRead.config \cup {QuadBit}

WriteConfig ==
  /\ At("writeConfig")
  /\ Transfer("start", [Frame("WRR") EXCEPT !.config = NewConfig], "openFile")
  /\ bytesToWrite' = 2
  /\ UNCHANGED <<bytesToRead, locals>>

(* fopen and findDataOffset of programMemory and verify. *)
OpenFile ==
  /\ At("openFile")
  /\ \/ ~file.opens /\ Return("NoFile")
     \/ file.opens /\ ~file.header /\ Return("BadFile")
     \/ file.opens /\ file.header /\ Goto("lookup1") /\ UNCHANGED stack
  /\ UNCHANGED <<hw, call, dumped>>

OpenDump ==
  /\ At("openDump")
  /\ Return("NoFile") \/ (Goto("fastRead") /\ UNCHANGED stack)
  /\ UNCHANGED <<hw, call, dumped>>

(* Mutants: program reads as much at a time as verify; ferror is not consulted. *)
WholeChunk          == AreaReadSize
NeverFailed(n, full) == FALSE

(* fread: a page or a chunk, what is left of the file, or less after an I/O error. *)
ChunkSize           == IF op = "program" THEN PageSize ELSE AreaReadSize
ReadFailed(n, full) == ioErr \/ n < full

ReadChunk ==
  /\ At("readChunk")
  /\ LET left == file.len - addr
         full == IF left < ChunkSize THEN left ELSE ChunkSize
     IN  \E n \in 0 .. full :
           \/ /\ n > 0
              /\ Goto(IF op = "program" THEN "pageEnable" ELSE "fastRead")
              /\ bread' = n
              /\ ioErr' = ReadFailed(n, full)
              /\ UNCHANGED <<memId, addr>>
           \/ /\ n = 0
              /\ Return(IF ReadFailed(n, full) THEN "ReadError"
                        ELSE IF op = "program" THEN "done" ELSE "true")
  /\ UNCHANGED <<hw, call, dumped>>

(* Mutant: the length is one short. *)
ShortPageLength == bread + AddrLen(Mode) - 1

PageLength == bread + (AddrLen(Mode) + 1) - 1

ProgramMemoryPage ==
  /\ At("programPage")
  /\ Transfer("start",
              [Frame(PageProgramOp(Mode)) EXCEPT
                 !.addr = addr % Span(Mode),
                 !.data = [i \in PageIndex |-> IF i < bread THEN file.byte[addr + i] ELSE @[i]]],
              "readStatus")
  /\ bytesToWrite' = PageLength
  /\ UNCHANGED <<bytesToRead, locals>>

(* Mutant: dump reads one byte less than it stores. *)
ShortReadLength == IF op = "verify" THEN bread - 1 ELSE AreaReadSize - 2

(* The read command of verify and dump; dump always reads a whole chunk. *)
ReadLength == IF op = "verify" THEN bread - 1 ELSE AreaReadSize - 1

FastRead ==
  /\ At("fastRead")
  /\ Transfer("startRead",
              [Frame(FastReadOp(Mode)) EXCEPT !.addr = addr % Span(Mode)],
              IF op = "verify" THEN "compare" ELSE "store")
  /\ bytesToWrite' = AddrLen(Mode) + 1
  /\ bytesToRead' = ReadLength
  /\ UNCHANGED locals

(* Mutant: the last byte of the chunk is not compared. *)
SameButTheLast == \A i \in 0 .. bread - 2 : areaRead.data[i] = file.byte[addr + i]

Same == \A i \in 0 .. bread - 1 : areaRead.data[i] = file.byte[addr + i]

Compare ==
  /\ At("compare")
  /\ IF Same
     THEN NextBlock
     ELSE Return("false")
  /\ UNCHANGED <<hw, call, dumped>>

(* The bytes of a chunk are written to the dump file one by one. *)
Store ==
  /\ At("store")
  /\ dumped' = [k \in DumpIndex |-> IF k - addr \in ReadIndex THEN areaRead.data[k - addr]
                                                              ELSE dumped[k]]
  /\ LET stored == addr + AreaReadSize
     IN  \/ Return("WriteError")
         \/ /\ stored < dumpSize
            /\ Goto("fastRead")
            /\ addr' = stored
            /\ UNCHANGED <<memId, bread, ioErr>>
         \/ stored >= dumpSize /\ Return("true")
  /\ UNCHANGED <<hw, call>>

(* The process is killed; the transfer it started, if any, stays with the hardware. *)
Kill ==
  /\ pc # "idle"
  /\ Return("killed")
  /\ UNCHANGED <<hw, call, dumped>>

-----------------------------------------------------------------------------
Call == CallErase \/ CallProgram \/ CallVerify \/ CallDump

Software ==
  \/ Poll \/ ReadMemoryId \/ CheckMemoryId \/ SelectMode \/ MemoryWriteEnable
  \/ MemoryBulkErase \/ ReadStatus \/ TestStatus \/ ReadConfig \/ WriteConfig
  \/ OpenFile \/ OpenDump \/ ReadChunk \/ ProgramMemoryPage \/ FastRead \/ Compare \/ Store

Hardware == (Execute \/ WriteDone) /\ UNCHANGED <<thread, call, locals, result>>

Next == Call \/ Software \/ Kill \/ Hardware

(* The thread keeps running, and a write the chip has started comes to its end; *)
(* nothing is promised of the SPI master, whose answer waitForSpi bounds.       *)
Fairness ==
  /\ WF_vars(Software)
  /\ WF_vars(WriteDone /\ UNCHANGED <<thread, call, locals, result>>)

Spec == Init /\ [][Next]_vars /\ Fairness
-----------------------------------------------------------------------------
(* PROPERTIES *)

(* The cell of the chip that holds byte k of an image, under an addressing mode. *)
Cell(mode, k) == (k % Span(mode)) % FlashSize

ChipMode == KnownProms[promId].addressing_mode

(* The image has an address of its own for every byte. *)
Fits(mode) == file.len <= Span(mode) /\ file.len <= FlashSize

Returned(operation, value) == pc = "idle" /\ op = operation /\ result = value

(* The data bytes of a page program. *)
DataBytes == FrameLength - 1 - AddressBytes(areaWrite.op)

(* Every command of erase and program that changes the chip is one the chip carries  *)
(* out: when SPI_START is set, the chip is idle, enabled by the WREN before, and the  *)
(* length registers, which memoryBulkErase and readStatus leave as an earlier *)
(* command set them, give the command its exact length.                               *)
WriteCommandsAreCarriedOut ==
  Started =>
    CASE areaWrite.op = "WREN"              -> ~busy /\ FrameLength = 1
      [] areaWrite.op = "BE"                -> Accepted(1)
      [] areaWrite.op = "WRR"               -> Accepted(3)
      [] areaWrite.op \in PageProgramOps    ->
           Accepted(FrameLength) /\ DataBytes \in 1 .. PageSize
      [] OTHER                              -> TRUE

(* A page program of programMemory stays inside one page of the chip, where a longer one *)
(* would wrap to its start.  Only after an I/O error that shortened a block, and that     *)
(* will end the operation with an exception, is the rest of the file out of step.         *)
PageProgramStaysInPage ==
  Started /\ waiting /\ areaWrite.op \in PageProgramOps /\ ~ioErr =>
    (areaWrite.addr % PageSize) + DataBytes <= PageSize

(* An erase that returns has erased the chip, and the chip is idle again: readStatus *)
(* has seen the end of the erase and not the idle chip before it.                     *)
EraseMeansBlank == Returned("erase", "done") => mem = Blank /\ ~busy

(* A program that returns normally has cleared in the chip exactly the bits the image *)
(* has clear, and nothing is left in progress.                                        *)
ProgramMeansOverlay ==
  Returned("program", "done") /\ atCall.quiet /\ Fits(ChipMode) =>
    /\ ~busy
    /\ mem = [a \in Address |-> IF a < file.len THEN atCall.mem[a] \cap file.byte[a]
                                                ELSE atCall.mem[a]]

(* Programming a chip with quad mode sets the quad bit of its configuration register and *)
(* keeps the other bits; programming another chip does not touch the register.           *)
ProgramSetsQuadMode ==
  Returned("program", "done") /\ atCall.quiet =>
    config = IF KnownProms[promId].quad_mode THEN atCall.config \cup {QuadBit}
                                             ELSE atCall.config

(* verify returns true only if every byte of the image is in the chip (also when the file *)
(* could not be read to its end: that is an exception), and false only if one is not.  An *)
(* image of more bytes than the addresses reach is left out of the second: after a read   *)
(* error its chunks can cross the end of the addresses, where the chip reads on.          *)
VerifyIsRight ==
  LET InChip(k) == mem[Cell(ChipMode, k)] = file.byte[k]
  IN  /\ Returned("verify", "true") => \A k \in 0 .. file.len - 1 : InChip(k)
      /\ Returned("verify", "false") /\ file.len <= Span(ChipMode) =>
           \E k \in 0 .. file.len - 1 : ~InChip(k)

(* The dump file holds the content of the chip, from address 0 on, for the size asked for *)
(* and never less than one chunk, whatever the size (as long as the addresses of the      *)
(* command reach that far).                                                                *)
DumpIsRight ==
  Returned("dump", "true") =>
    \A k \in DumpIndex :
       /\ k < dumpSize \/ k < AreaReadSize
       /\ k < Span(ChipMode) /\ k < FlashSize
       => dumped[k] = mem[k]

(* A chip that is not in known_proms is never modified. *)
UnknownChipUntouched ==
  ~Known(promId) => ~busy /\ mem = memNext /\ ~(Started /\ areaWrite.op \in Modifying)

(* A supported, idle chip is always recognised: the first, unreliable answer to RDID is *)
(* never the one looked at.                                                             *)
IdleChipIsRecognised ==
  pc = "idle" /\ result = "UnknownProm" /\ atCall.quiet => ~Known(promId)

(* known_proms.at() never throws, except in program: there the chip may still be writing *)
(* its configuration register, which enableQuadMode does not wait for.                   *)
OutOfRangeOnlyAfterQuadMode ==
  result = "OutOfRange" => op = "program" /\ KnownProms[promId].quad_mode

(* Every operation ends, whatever the SPI master does, if the chip ends its writes. *)
EveryCallReturns == pc # "idle" ~> pc = "idle"

(* The dump file holds the content of the chip for the whole size asked for, as the help *)
(* text of -s has it for a 32 MiB chip (main.cpp:137).                                    *)
DumpShowsWholeChip ==
  Returned("dump", "true") =>
    \A k \in 0 .. dumpSize - 1 : k < FlashSize => dumped[k] = mem[k]

-----------------------------------------------------------------------------
(* REFINEMENT *)

(* The content the chip will have: a write in progress comes first, a command that is *)
(* still to be carried out next.                                                      *)
Target ==
  CASE busy                                             -> memNext
    [] ~busy /\ Started /\ areaWrite.op = "BE"            -> Blank
    [] ~busy /\ Started /\ areaWrite.op \in PageProgramOps -> PageProgrammed(areaWrite.addr, DataBytes)
    [] OTHER                                            -> mem

Service == INSTANCE FlashService WITH
  Size <- FlashSize, Failures <- Exceptions \cup {"killed"},
  cells <- mem, target <- Target,
  reach <- IF Known(promId) THEN Span(ChipMode) ELSE 1,
  working <- pc # "idle", operation <- op, firmware <- file, misread <- ioErr, answer <- result

(* MtcaProgrammerSPI over its registers implements the service: the cells change only *)
(* as the running operation asks, and each answer is true of the chip when it is given. *)
ImplementsService == Service!Spec
=============================================================================
