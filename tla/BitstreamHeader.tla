--------------------------- MODULE BitstreamHeader ---------------------------
(***************************************************************************)
(* How the SPI programmer finds the first byte of a firmware file that     *)
(* belongs into the PROM: checkFirmwareFile before the erase, and          *)
(* findDataOffset once for programming and once more for verifying.        *)
(* What happens at the registers and in the chip is in SpiProgrammer; here *)
(* the chip is what programming leaves in it.                              *)
(***************************************************************************)
EXTENDS Integers, Sequences, FiniteSetsExt

CONSTANTS
  BufferSize,      (* Bytes of a file that are searched (512).                          *)
  PatternLength,   (* Bytes of bit_pattern (14).                                        *)
  Files            (* Firmware files: [bit, header, pad, width, gap, sync, len].        *)

(* A bit file begins with the pattern; then a file has, in this order, the rest of its *)
(* header, "pad" bytes 0xff, "width" bytes of the bus width pattern, "gap" bytes 0xff  *)
(* and, if "sync", the sync word.                                                      *)
ASSUME HeaderAssumption ==
  /\ BufferSize \in Nat \ {0} /\ PatternLength \in 2 .. BufferSize
  /\ \A f \in Files :
       /\ f.bit \in BOOLEAN /\ f.sync \in BOOLEAN
       /\ {f.header, f.pad, f.width, f.gap, f.len} \subseteq Nat
       /\ f.bit => f.header >= PatternLength

(* What the code expects of a file that has a sync word: sixteen bytes with the bus width *)
(* pattern in front of the word, behind whole words of padding, or none of it but whole   *)
(* blocks of sixteen bytes 0xff; and no header in a bin file.                             *)
ASSUME LayoutAssumption ==
  \A f \in Files :
     f.sync /\ f.len >= BufferSize =>
       IF ~f.bit THEN f.header = 0
       ELSE IF f.width > 0 THEN f.pad % 4 = 0 /\ f.width + f.gap = 16 /\ f.gap < 15
       ELSE (f.pad + f.gap) % 16 = 0

VARIABLES
  file,
  pc,         (* The operation to come next; "ended".                                 *)
  erased,     (* The chip has been erased.                                            *)
  start,      (* The byte of the file that was programmed to address 0; None.         *)
  result      (* "none", "done", "false" (from verify) or "refused" (an exception).   *)

vars == <<file, pc, erased, start, result>>

None == -1

Init ==
  /\ file \in Files /\ pc = "check"
  /\ erased = FALSE /\ start = None /\ result = "none"

-----------------------------------------------------------------------------
(* THE FILE *)

c0 == 255
SyncWord == <<170, 153, 85, 102>>

(* Byte k of the file.  Neither the header's last bytes (its length field) nor the bus *)
(* width pattern are 0xff; payload bytes are told apart by their place.                *)
SyncPlace == file.header + file.pad + file.width + file.gap

FileByte(k) ==
  CASE k < file.header                          -> 0
    [] k \in file.header .. file.header + file.pad - 1 -> c0
    [] k \in SyncPlace - file.gap - file.width .. SyncPlace - file.gap - 1 -> 187
    [] k \in SyncPlace - file.gap .. SyncPlace - 1     -> c0
    [] k \in SyncPlace .. SyncPlace + 3 /\ file.sync   -> SyncWord[k - SyncPlace + 1]
    [] OTHER                                    -> 1 + (k % 64)

-----------------------------------------------------------------------------
(* FIND DATA OFFSET *)

Index == 0 .. BufferSize - 1

(* The comparison with the sync word reads up to three bytes behind the buffer: they are *)
(* what the word needs ("lucky"), or not.                                                *)
SyncAt(i, lucky) ==
  \A k \in 0 .. 3 : IF i + k \in Index THEN FileByte(i + k) = SyncWord[k + 1] ELSE lucky

(* From the sync word back over the bytes 0xff before it: whole blocks of 16 of them, *)
(* the byte that ends them included.                                                   *)
StepBack(i) ==
  LET others == {j \in 1 .. i : FileByte(i - j) # c0}
      j      == IF others = {} THEN i ELSE Min(others)
  IN  i - (j - (j % 16))

(* Mutant: the padding stays with the header. *)
KeepPadding(offset) == offset

(* The words 0xffffffff before the offset belong to the data. *)
TakePadding(offset) ==
  LET WordEndsAt(e) == e > 4 /\ \A b \in 0 .. 3 : FileByte(e - b) = c0
      counts == {n \in 0 .. BufferSize \div 4 :
                   \A m \in 0 .. n - 1 : WordEndsAt(offset - 1 - 4 * m)}
  IN  offset - 4 * Max(counts)

(* Files that are too short make it throw; see CheckFirmwareFile and Read. *)
LongEnough == file.len >= BufferSize

findDataOffset(lucky) ==
  LET found == {i \in Index : SyncAt(i, lucky)}
      back  == StepBack(Min(found))
  IN  IF found = {} THEN -1
      ELSE IF back <= 0 THEN back
      ELSE IF file.bit THEN TakePadding(back - 16) ELSE 0

-----------------------------------------------------------------------------
(* THE OPERATIONS *)

Refuse == pc' = "ended" /\ result' = "refused" /\ UNCHANGED <<file, erased, start>>

(* Mutant: what findDataOffset says of a bin file is not looked at. *)
AnyLongFile(lucky) == file.len >= PatternLength

(* checkFirmwareFile: of a bit file only the pattern is looked at. *)
Accepts(lucky) ==
  /\ file.len >= PatternLength
  /\ file.bit \/ (LongEnough /\ findDataOffset(lucky) \in 0 .. 512)

CheckFirmwareFile ==
  /\ pc = "check"
  /\ \E lucky \in BOOLEAN :
       IF Accepts(lucky) THEN pc' = "erase" /\ UNCHANGED <<file, erased, start, result>>
                         ELSE Refuse

Erase ==
  /\ pc = "erase"
  /\ erased' = TRUE
  /\ pc' = "program"
  /\ UNCHANGED <<file, start, result>>

(* Mutant: verify does not seek. *)
SeekToProgram(offset) == IF pc = "verify" THEN 0 ELSE IF offset < 0 THEN file.len ELSE offset

(* fseek to a negative offset fails, and leaves the position at the end of the file. *)
Seek(offset) == IF offset < 0 THEN file.len ELSE offset

(* Programming or verifying begins: the offset is searched for, again; without one they *)
(* throw.                                                                                *)
Readable(lucky) == LongEnough /\ findDataOffset(lucky) # -1
From(lucky)     == Seek(findDataOffset(lucky))

Program ==
  /\ pc = "program"
  /\ \E lucky \in BOOLEAN :
       \/ ~Readable(lucky) /\ Refuse
       \/ /\ Readable(lucky)
          /\ start' = From(lucky) /\ pc' = "verify"
          /\ UNCHANGED <<file, erased, result>>

(* The byte at an address of the chip. *)
Cell(a) == IF start + a < file.len THEN FileByte(start + a) ELSE c0

Verify ==
  /\ pc = "verify"
  /\ \E lucky \in BOOLEAN :
       \/ ~Readable(lucky) /\ Refuse
       \/ /\ Readable(lucky)
          /\ \E from \in {From(lucky)} :
               result' = IF \A k \in from .. file.len - 1 : FileByte(k) = Cell(k - from)
                         THEN "done" ELSE "false"
          /\ pc' = "ended" /\ UNCHANGED <<file, erased, start>>

Ended == pc = "ended" /\ UNCHANGED vars

Next == CheckFirmwareFile \/ Erase \/ Program \/ Verify \/ Ended

Spec == Init /\ [][Next]_vars

-----------------------------------------------------------------------------
(* PROPERTIES *)

(* The first byte in the chip is the first one behind the header of the file, with the   *)
(* padding and bus width pattern of the data; a bin file has no header                    *)
(* (MtcaProgrammerSPI.cpp:438: "number of bytes of header to ommit").  A bit file without *)
(* a bus width pattern is taken for one with it, and keeps the end of its header.         *)
HeaderIsOmitted ==
  start # None => start = IF file.bit /\ file.width = 0 THEN Seek(file.header - 16) ELSE file.header

(* The bytes behind the buffer, which are not of the file, can make verify fail behind a *)
(* program that succeeded, but never compare at another offset than was programmed.       *)
VerifyAgrees == result # "false"

(* A file is refused before the chip is erased, unless it is a bit file, which is only   *)
(* looked at later, or its sync word crosses the end of the buffer.                      *)
CrossesEnd == file.sync /\ SyncPlace < BufferSize /\ SyncPlace + 3 >= BufferSize

RefusedBeforeErase == result = "refused" /\ erased => file.bit \/ CrossesEnd
=============================================================================
