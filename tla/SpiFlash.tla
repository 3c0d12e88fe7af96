------------------------------ MODULE SpiFlash ------------------------------
(***************************************************************************)
(* The hardware MtcaProgrammerSPI talks to: the register block of the      *)
(* boot area in the FPGA (a SPI master) and the PROM chip behind it.       *)
(*                                                                         *)
(* Neither is in the repository.  The SPI master is modelled from how the  *)
(* code uses its registers: setting SPI_START clocks REG_BYTES_TO_WRITE+1  *)
(* bytes of AREA_WRITE to the chip, then, with SPI_R_NW, clocks            *)
(* REG_BYTES_TO_READ+1 bytes into AREA_READ, and clears SPI_START.  The    *)
(* chip is modelled from the command bytes the code sends: it drops every  *)
(* command but the status reads while an erase, a page program or a        *)
(* register write is in progress, it drops a modifying command that was    *)
(* not enabled by WREN or that does not have the exact length, programming *)
(* only clears bits, and a page program wraps inside its page.             *)
(***************************************************************************)
EXTENDS Integers

CONSTANTS
  Bits,           (* The bit positions of a byte; a byte is the set of its 1 bits. *)
  FlashSize,      (* Bytes in the chip.                                            *)
  PageSize,       (* Bytes in a page of the chip (256).                            *)
  AreaReadSize,   (* Words in AREA_READ (1024), one byte of the chip per word.     *)
  Ids,            (* The five-byte identifiers chips answer to RDID.               *)
  NoId,           (* What is read when no chip drives the line.                    *)
  Contents,       (* What the chip may hold when the programmer is first started.  *)
  ConfigBits,     (* The bits of the configuration register of the chip.           *)
  QuadBit         (* The one that enables quad mode (0x02).                        *)

ASSUME SizesAssumption ==
  /\ FlashSize \in Nat \ {0}
  /\ PageSize \in Nat \ {0}
  /\ AreaReadSize \in Nat \ {0}

  /\ FlashSize % PageSize = 0

ASSUME IdsAssumption == NoId \notin Ids

ASSUME QuadAssumption == QuadBit \in ConfigBits

Byte      == SUBSET Bits
Erased    == Bits                          \* 0xFF
Address   == 0 .. FlashSize - 1
Memory    == [Address -> Byte]
Blank     == [a \in Address |-> Erased]
Config    == SUBSET ConfigBits
PageIndex == 0 .. PageSize - 1
ReadIndex == 0 .. AreaReadSize - 1

ASSUME ContentsAssumption == Contents \subseteq Memory

(* The command bytes; PP and READ have a form with 3 and one with 4 address bytes. *)
PageProgramOps == {"PP3", "PP4"}
FastReadOps    == {"READ3", "READ4"}
Opcode == {"RDID", "RDSR", "RDCR", "WREN", "BE", "WRR"} \cup PageProgramOps \cup FastReadOps

(* The commands a chip drops while it is busy. *)
DroppedWhenBusy == Opcode \ {"RDSR"}
Modifying       == {"WREN", "BE", "WRR"} \cup PageProgramOps

AddressBytes(op) == IF op \in {"PP4", "READ4"} THEN 4 ELSE 3

VARIABLES
  areaWrite,    (* AREA_WRITE: command byte, address bytes, data bytes, configuration. *)
  areaRead,     (* AREA_READ: the last answer, by its kind.                           *)
  bytesToWrite, (* REG_BYTES_TO_WRITE                                                 *)
  bytesToRead,  (* REG_BYTES_TO_READ                                                  *)
  control,      (* REG_CONTROL: cleared, SPI_START (with SPI_R_NW: "startRead"), done. *)
  promId,       (* The identifier of the chip mounted on the board.                   *)
  mem,          (* The bytes stored in the chip.                                      *)
  config,       (* Its configuration register.                                        *)
  wel,          (* Write enable latch.                                                *)
  busy,         (* Write in progress (status bit 0).                                  *)
  memNext,      (* mem once the write in progress is over.                            *)
  configNext,   (* config once the write in progress is over.                       *)
  idPrimed      (* The last command was RDID, so the next RDID answers reliably.      *)

regs == <<areaWrite, bytesToWrite, bytesToRead>>
chip == <<promId, mem, config, wel, busy, memNext, configNext, idPrimed>>
hw   == <<areaWrite, areaRead, bytesToWrite, bytesToRead, control,
          promId, mem, config, wel, busy, memNext, configNext, idPrimed>>

HwTypeOK ==
  /\ areaWrite \in [op : Opcode, addr : Nat, data : [PageIndex -> Byte], config : Config]
  /\ areaRead \in [id : Ids \cup {NoId}, status : BOOLEAN, config : Config,
                   data : [ReadIndex -> Byte]]
  /\ bytesToWrite \in Nat
  /\ bytesToRead \in Nat
  /\ control \in {"clear", "start", "startRead", "done"}
  /\ promId \in Ids
  /\ mem \in Memory /\ memNext \in Memory
  /\ config \in Config /\ configNext \in Config
  /\ wel \in BOOLEAN /\ busy \in BOOLEAN /\ idPrimed \in BOOLEAN

(* AREA_WRITE with a command that has nothing behind the command byte. *)
Frame(op) == [op |-> op, addr |-> 0, data |-> [i \in PageIndex |-> Erased], config |-> {}]

NoAnswer == [id |-> NoId, status |-> FALSE, config |-> {},
             data |-> [i \in ReadIndex |-> Erased]]

(* A board with some chip mounted, idle, holding anything. *)
HwInit ==
  /\ areaWrite = Frame("RDID") /\ areaRead = NoAnswer
  /\ bytesToWrite = 0 /\ bytesToRead = 0
  /\ control = "clear"
  /\ promId \in Ids
  /\ mem \in Contents /\ memNext = mem
  /\ config \in Config /\ configNext = config
  /\ wel = FALSE /\ busy = FALSE /\ idPrimed = FALSE

-----------------------------------------------------------------------------
Started == control \in {"start", "startRead"}
Reading == control = "startRead"

(* The bytes that reach the chip before it answers. *)
FrameLength == bytesToWrite + 1

(* A command of this length is carried out: enabled, idle chip. *)
Accepted(length) == ~busy /\ wel /\ FrameLength = length

(* The bytes of mem after a page program of n bytes: the address wraps inside its page. *)
PageProgrammed(addr, n) ==
  LET start == addr % FlashSize
      base == start - (start % PageSize)
      Cell(k) == base + ((start + k) % PageSize)
  IN  [a \in Address |->
         IF \E k \in PageIndex : k < n /\ Cell(k) = a
         THEN mem[a] \cap areaWrite.data[CHOOSE k \in PageIndex : k < n /\ Cell(k) = a]
         ELSE mem[a]]

ExecReadId ==
  /\ areaWrite.op = "RDID"
  /\ \E answer \in (IF busy THEN {NoId} ELSE IF idPrimed THEN {promId} ELSE {promId, NoId}) :
       areaRead' = IF Reading THEN [NoAnswer EXCEPT !.id = answer] ELSE areaRead
  /\ idPrimed' = TRUE
  /\ UNCHANGED <<mem, config, wel, busy, memNext, configNext>>

ExecReadStatus ==
  /\ areaWrite.op = "RDSR"
  /\ areaRead' = IF Reading THEN [NoAnswer EXCEPT !.status = busy] ELSE areaRead
  /\ idPrimed' = FALSE
  /\ UNCHANGED <<mem, config, wel, busy, memNext, configNext>>

ExecReadConfig ==
  /\ areaWrite.op = "RDCR"
  /\ areaRead' = IF Reading THEN [NoAnswer EXCEPT !.config = IF busy THEN @ ELSE config] ELSE areaRead
  /\ idPrimed' = FALSE
  /\ UNCHANGED <<mem, config, wel, busy, memNext, configNext>>

(* One dummy byte follows the address; undriven lines read as ones. *)
ExecFastRead ==
  /\ areaWrite.op \in FastReadOps
  /\ LET answered == ~busy /\ FrameLength = AddressBytes(areaWrite.op) + 2
         Answer(i) == IF answered /\ i <= bytesToRead
                      THEN mem[(areaWrite.addr + i) % FlashSize] ELSE Erased
     IN  areaRead' = IF Reading
                     THEN [NoAnswer EXCEPT !.data = [i \in ReadIndex |-> Answer(i)]]
                     ELSE areaRead
  /\ idPrimed' = FALSE
  /\ UNCHANGED <<mem, config, wel, busy, memNext, configNext>>

ExecWriteEnable ==
  /\ areaWrite.op = "WREN"
  /\ wel' = (wel \/ (~busy /\ FrameLength = 1))
  /\ idPrimed' = FALSE
  /\ UNCHANGED <<areaRead, mem, config, busy, memNext, configNext>>

ExecBulkErase ==
  /\ areaWrite.op = "BE"
  /\ busy' = (busy \/ Accepted(1))
  /\ memNext' = IF Accepted(1) THEN Blank ELSE memNext
  /\ idPrimed' = FALSE
  /\ UNCHANGED <<areaRead, mem, config, wel, configNext>>

ExecWriteRegisters ==
  /\ areaWrite.op = "WRR"
  /\ busy' = (busy \/ Accepted(3))
  /\ configNext' = IF Accepted(3) THEN areaWrite.config ELSE configNext
  /\ idPrimed' = FALSE
  /\ UNCHANGED <<areaRead, mem, config, wel, memNext>>

ExecPageProgram ==
  /\ areaWrite.op \in PageProgramOps
  /\ LET n == FrameLength - 1 - AddressBytes(areaWrite.op)
         programmed == ~busy /\ wel /\ n > 0
     IN  /\ busy' = (busy \/ programmed)
         /\ memNext' = IF programmed THEN PageProgrammed(areaWrite.addr, n) ELSE memNext
  /\ idPrimed' = FALSE
  /\ UNCHANGED <<areaRead, mem, config, wel, configNext>>

(* The SPI master carries out the transfer it was started on. *)
Execute ==
  /\ Started
  /\ control' = "done"
  /\ \/ ExecReadId \/ ExecReadStatus \/ ExecReadConfig \/ ExecFastRead
     \/ ExecWriteEnable \/ ExecBulkErase \/ ExecWriteRegisters \/ ExecPageProgram
  /\ UNCHANGED <<regs, promId>>

(* The write in progress ends; the chip clears its write enable latch. *)
WriteDone ==
  /\ busy
  /\ busy' = FALSE
  /\ wel' = FALSE
  /\ mem' = memNext
  /\ config' = configNext
  /\ UNCHANGED <<regs, areaRead, control, promId, memNext, configNext, idPrimed>>
=============================================================================
