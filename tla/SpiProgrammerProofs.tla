------------------------- MODULE SpiProgrammerProofs -------------------------
(***************************************************************************)
(* Proofs about SpiProgrammer, for every chip, file, page and chunk size:  *)
(*   - type correctness, and that the chip carries out every command of    *)
(*     erase and program that changes it (the inductive invariant IInv);   *)
(*   - that an unsupported chip is never modified and an idle, supported   *)
(*     one always recognised (Identified and Inert, on top of IInv);       *)
(*   - that an erase that returns has erased the chip (ErasedAsAsked);     *)
(*   - that the second identification of an operation fails only behind a  *)
(*     write of the configuration register (Located);                      *)
(*   - that the answer of verify is right and that a dump is what the chip *)
(*     holds, that program lays the image over what the chip held, a page  *)
(*     of the chip at a time, and sets the quad mode bit (ImageInv, which  *)
(*     is inductive together with the invariants above, BInv);             *)
(*   - that the programmer over its registers implements FlashService.     *)
(***************************************************************************)
EXTENDS SpiProgrammer, TLAPS

-----------------------------------------------------------------------------
(* THE INDUCTIVE INVARIANT *)

(* The thread polls for a transfer it has started, and goes on once it is done. *)
Handshake ==
  /\ pc \in {"idle", "probe1"} => ~waiting
  /\ pc \notin {"idle", "probe1"} /\ ~waiting => control = "done"

(* The command whose transfer is awaited before a label. *)
Awaited(label) ==
  CASE label \in {"probe2", "checkId", "lookup2", "useId"}       -> {"RDID"}
    [] label \in {"bulkErase", "readConfig", "programPage"}      -> {"WREN"}
    [] label = "openFile"                                        -> {"WREN", "WRR"}
    [] label = "readStatus"              -> IF op = "erase" THEN {"BE"} ELSE PageProgramOps
    [] label = "testStatus"                                      -> {"RDSR"}
    [] label = "writeConfig"                                     -> {"RDCR"}
    [] label \in {"compare", "store"}                            -> FastReadOps
    [] OTHER                                                     -> {}

(* What is awaited is what was sent, and an answer is not of an older command. *)
AwaitsItsCommand ==
  /\ waiting => areaWrite.op \in Awaited(pc)
  /\ areaWrite.op \in {"RDID", "RDSR"} => control # "start"

(* The chip is idle where the thread has been told so: by an identifier, which a busy *)
(* chip does not give, or by the status.                                              *)
QuietLabels == {"writeEnable", "bulkErase", "readConfig", "writeConfig", "pageEnable",
                "programPage", "readChunk", "openDump", "fastRead", "compare", "store"}

QuietWhereAssumed ==
  /\ pc \in QuietLabels => ~busy
  /\ pc \in {"checkId", "useId"} /\ control = "done" /\ areaRead.id # NoId => ~busy
  /\ pc = "testStatus" /\ control = "done" /\ ~areaRead.status => ~busy

(* The write enable latch is set where a modifying command follows. *)
EnabledWhereNeeded ==
  /\ pc \in {"bulkErase", "readConfig", "programPage"} /\ control = "done" => wel
  /\ pc = "writeConfig" => wel
  /\ pc = "bulkErase" => bytesToWrite = 0

(* The position in the file. *)
InLoop   == {"readChunk", "pageEnable", "programPage", "readStatus", "testStatus", "fastRead",
             "compare", "store"}
WithData == {"pageEnable", "programPage", "readStatus", "testStatus", "fastRead", "compare"}

Position ==
  /\ pc \notin InLoop => addr = 0
  /\ pc = "readChunk" => op \in {"program", "verify"} /\ addr <= file.len
  /\ pc \in {"pageEnable", "programPage"} => op = "program" /\ bread <= PageSize
  /\ pc = "bulkErase" => op = "erase"
  /\ pc \in {"writeEnable", "readStatus", "testStatus"} => op \in {"erase", "program"}
  /\ pc \in WithData /\ op \in {"program", "verify"} => bread > 0 /\ addr + bread <= file.len
  /\ pc = "compare" => op = "verify"
  /\ pc = "fastRead" => op \in {"verify", "dump"}
  /\ pc = "useId" => op # "erase"
  /\ pc \in {"openDump", "store"} => op = "dump"
  /\ pc \in {"lookup1", "lookup2", "openFile", "readConfig", "writeConfig"} => op # "erase"

(* Together they are inductive, and imply that no command is sent in vain. *)
IInv ==
  /\ TypeOK
  /\ Handshake
  /\ AwaitsItsCommand
  /\ QuietWhereAssumed
  /\ EnabledWhereNeeded
  /\ Position
  /\ WriteCommandsAreCarriedOut

-----------------------------------------------------------------------------
(* TYPES OF THE HELPERS *)

(* The records AREA_WRITE may hold. *)
WriteArea == [op : Opcode, addr : Nat, data : [PageIndex -> Byte], config : Config]

(* A command without data is a content of AREA_WRITE. *)
LEMMA FrameType == \A o \in Opcode : Frame(o) \in WriteArea
BY DEF Frame, WriteArea, PageIndex, Byte, Erased, Config

(* The form of a command for an addressing mode is a command byte. *)
LEMMA ModeTypes ==
  \A mode : /\ PageProgramOp(mode) \in PageProgramOps
            /\ FastReadOp(mode) \in FastReadOps
            /\ Span(mode) \in Nat \ {0}
            /\ AddrLen(mode) \in {3, 4}
BY SpanAssumption
   DEF PageProgramOp, FastReadOp, Span, AddrLen, PageProgramOps, FastReadOps

(* Starting a transfer keeps the types. *)
LEMMA TransferTypes ==
  ASSUME TypeOK,
         NEW start \in {"start", "startRead"},
         NEW command \in WriteArea,
         NEW next \in Labels,
         Transfer(start, command, next),
         bytesToWrite' \in Nat,
         bytesToRead' \in Nat,
         UNCHANGED locals
  PROVE  TypeOK'
<1> USE DEF Transfer, chip, call, locals, stack
<1>1. HwTypeOK'
  BY DEF TypeOK, HwTypeOK, WriteArea
<1>2. waiting' \in BOOLEAN /\ ioErr' \in BOOLEAN
  BY Zenon DEF TypeOK
<1>3. pc' \in Labels /\ polls' \in 0 .. MaxPolls
  BY SpanAssumption
<1>4. /\ op' \in Operation /\ file' \in Files /\ dumpSize' \in DumpSizes
      /\ memId' \in Ids \cup {NoId} /\ addr' \in Nat /\ bread' \in Nat
      /\ dumped' \in [DumpIndex -> Byte] /\ result' \in Results
      /\ atCall' \in [mem : Memory, config : Config, quiet : BOOLEAN]
  BY DEF TypeOK
<1> QED
  BY ONLY <1>1, <1>2, <1>3, <1>4 DEF TypeOK

(* So does a step of the thread that leaves the hardware and the call alone. *)
LEMMA ThreadTypes ==
  ASSUME TypeOK,
         UNCHANGED <<hw, call>>,
         pc' \in Labels,
         waiting' \in BOOLEAN,
         polls' \in 0 .. MaxPolls,
         memId' \in Ids \cup {NoId},
         addr' \in Nat,
         bread' \in Nat,
         ioErr' \in BOOLEAN,
         dumped' \in [DumpIndex -> Byte],
         result' \in Results
  PROVE  TypeOK'
BY DEF TypeOK, HwTypeOK, hw, call

(* The way an operation ends keeps the whole invariant: an idle thread needs nothing. *)
LEMMA ReturnStep ==
  ASSUME IInv,
         NEW value \in Results,
         Return(value),
         UNCHANGED <<hw, call>>,
         dumped' \in [DumpIndex -> Byte]
  PROVE  IInv'
<1> USE DEF IInv, Return, hw, call
<1>1. TypeOK'
  <2>1. waiting' \in BOOLEAN /\ ioErr' \in BOOLEAN
    BY Zenon
  <2>2. pc' \in Labels /\ polls' \in 0 .. MaxPolls /\ memId' \in Ids \cup {NoId}
    BY SpanAssumption DEF Labels
  <2>3. addr' \in Nat /\ bread' \in Nat /\ result' \in Results
    OBVIOUS
  <2> QED
    BY <2>1, <2>2, <2>3, ThreadTypes
<1>2. Handshake' /\ AwaitsItsCommand'
  BY DEF Handshake, AwaitsItsCommand
<1>3. QuietWhereAssumed' /\ EnabledWhereNeeded'
  BY DEF QuietWhereAssumed, QuietLabels, EnabledWhereNeeded
<1>4. Position'
  BY DEF Position, InLoop, WithData
<1>5. WriteCommandsAreCarriedOut'
  BY DEF WriteCommandsAreCarriedOut, Started, Accepted, FrameLength, DataBytes
<1> QED
  BY <1>1, <1>2, <1>3, <1>4, <1>5

-----------------------------------------------------------------------------
(* THE STEPS OF THE THREAD *)

(* A poll of waitForSpi. *)
LEMMA PollStep == IInv /\ Poll => IInv'
<1> SUFFICES ASSUME IInv, Poll
             PROVE  IInv'
  OBVIOUS
<1>1. CASE TimedOut
  BY <1>1, ReturnStep DEF Poll, IInv, TypeOK, Results, Exceptions
<1>2. CASE ~TimedOut
  <2> USE <1>2 DEF IInv, Poll, TimedOut, NextPoll, hw, call, stack
  <2>1. waiting' \in BOOLEAN
    BY Zenon
  <2>2. polls' \in 0 .. MaxPolls
    BY SpanAssumption DEF TypeOK
  <2>3. TypeOK'
    BY <2>1, <2>2, ThreadTypes DEF TypeOK
  <2>4. Handshake' /\ AwaitsItsCommand'
    BY DEF Handshake, AwaitsItsCommand, Awaited
  <2>5. QuietWhereAssumed' /\ EnabledWhereNeeded' /\ Position'
    BY DEF QuietWhereAssumed, EnabledWhereNeeded, Position
  <2>6. WriteCommandsAreCarriedOut'
    BY DEF WriteCommandsAreCarriedOut, Started, Accepted, FrameLength, DataBytes
  <2> QED
    BY <2>3, <2>4, <2>5, <2>6
<1> QED
  BY <1>1, <1>2

(* A read of the identifier. *)
LEMMA ReadMemoryIdStep == IInv /\ ReadMemoryId => IInv'
<1> SUFFICES ASSUME IInv, ReadMemoryId
             PROVE  IInv'
  OBVIOUS
<1> USE DEF IInv, ReadMemoryId, At, IdSteps
<1>1. TypeOK'
  BY FrameType, TransferTypes DEF TypeOK, HwTypeOK, Labels, Opcode, locals, stack
<1> USE DEF Transfer, chip, call, locals, stack
<1>2. Handshake' /\ AwaitsItsCommand'
  BY DEF Handshake, AwaitsItsCommand, Awaited, Frame, Position
<1>3. QuietWhereAssumed'
  BY DEF QuietWhereAssumed, QuietLabels, Handshake
<1>4. EnabledWhereNeeded'
  BY DEF EnabledWhereNeeded, Handshake
<1>5. Position'
  BY DEF Position, InLoop, WithData, TypeOK, Operation
<1>6. WriteCommandsAreCarriedOut'
  BY DEF WriteCommandsAreCarriedOut, Started, Accepted, FrameLength, Frame, PageProgramOps,
         QuietWhereAssumed, QuietLabels, EnabledWhereNeeded, Handshake
<1> QED
  BY <1>1, <1>2, <1>3, <1>4, <1>5, <1>6

(* WREN, which the chip, idle here, carries out. *)
LEMMA MemoryWriteEnableStep == IInv /\ MemoryWriteEnable => IInv'
<1> SUFFICES ASSUME IInv, MemoryWriteEnable
             PROVE  IInv'
  OBVIOUS
<1> USE DEF IInv, MemoryWriteEnable, At, WriteEnableLength
<1>1. TypeOK'
  BY FrameType, TransferTypes DEF TypeOK, HwTypeOK, Labels, Opcode, locals, stack
<1> USE DEF Transfer, chip, call, locals, stack
<1>2. Handshake' /\ AwaitsItsCommand'
  BY DEF Handshake, AwaitsItsCommand, Awaited, Frame, Position
<1>3. QuietWhereAssumed'
  BY DEF QuietWhereAssumed, QuietLabels, Handshake
<1>4. EnabledWhereNeeded'
  BY DEF EnabledWhereNeeded, Handshake
<1>5. Position'
  BY DEF Position, InLoop, WithData, TypeOK, Operation
<1>6. WriteCommandsAreCarriedOut'
  BY DEF WriteCommandsAreCarriedOut, Started, Accepted, FrameLength, Frame, PageProgramOps,
         QuietWhereAssumed, QuietLabels, EnabledWhereNeeded, Handshake
<1> QED
  BY <1>1, <1>2, <1>3, <1>4, <1>5, <1>6

(* The erase command, enabled by the WREN before and of its length. *)
LEMMA MemoryBulkEraseStep == IInv /\ MemoryBulkErase => IInv'
<1> SUFFICES ASSUME IInv, MemoryBulkErase
             PROVE  IInv'
  OBVIOUS
<1> USE DEF IInv, MemoryBulkErase, At, FrameLength
<1>1. TypeOK'
  BY FrameType, TransferTypes DEF TypeOK, HwTypeOK, Labels, Opcode, locals, stack
<1> USE DEF Transfer, chip, call, locals, stack
<1>2. Handshake' /\ AwaitsItsCommand'
  BY DEF Handshake, AwaitsItsCommand, Awaited, Frame, Position
<1>3. QuietWhereAssumed'
  BY DEF QuietWhereAssumed, QuietLabels, Handshake
<1>4. EnabledWhereNeeded'
  BY DEF EnabledWhereNeeded, Handshake
<1>5. Position'
  BY DEF Position, InLoop, WithData, TypeOK, Operation
<1>6. WriteCommandsAreCarriedOut'
  BY DEF WriteCommandsAreCarriedOut, Started, Accepted, FrameLength, Frame, PageProgramOps,
         QuietWhereAssumed, QuietLabels, EnabledWhereNeeded, Handshake
<1> QED
  BY <1>1, <1>2, <1>3, <1>4, <1>5, <1>6

(* A read of the status. *)
LEMMA ReadStatusStep == IInv /\ ReadStatus => IInv'
<1> SUFFICES ASSUME IInv, ReadStatus
             PROVE  IInv'
  OBVIOUS
<1> USE DEF IInv, ReadStatus, At, FrameLength
<1>1. TypeOK'
  BY FrameType, TransferTypes DEF TypeOK, HwTypeOK, Labels, Opcode, locals, stack
<1> USE DEF Transfer, chip, call, locals, stack
<1>2. Handshake' /\ AwaitsItsCommand'
  BY DEF Handshake, AwaitsItsCommand, Awaited, Frame, Position
<1>3. QuietWhereAssumed'
  BY DEF QuietWhereAssumed, QuietLabels, Handshake
<1>4. EnabledWhereNeeded'
  BY DEF EnabledWhereNeeded, Handshake
<1>5. Position'
  BY DEF Position, InLoop, WithData, TypeOK, Operation
<1>6. WriteCommandsAreCarriedOut'
  BY DEF WriteCommandsAreCarriedOut, Started, Accepted, FrameLength, Frame, PageProgramOps,
         QuietWhereAssumed, QuietLabels, EnabledWhereNeeded, Handshake
<1> QED
  BY <1>1, <1>2, <1>3, <1>4, <1>5, <1>6

(* A read of the configuration register. *)
LEMMA ReadConfigStep == IInv /\ ReadConfig => IInv'
<1> SUFFICES ASSUME IInv, ReadConfig
             PROVE  IInv'
  OBVIOUS
<1> USE DEF IInv, ReadConfig, At, FrameLength
<1>1. TypeOK'
  BY FrameType, TransferTypes DEF TypeOK, HwTypeOK, Labels, Opcode, locals, stack
<1> USE DEF Transfer, chip, call, locals, stack
<1>2. Handshake' /\ AwaitsItsCommand'
  BY DEF Handshake, AwaitsItsCommand, Awaited, Frame, Position
<1>3. QuietWhereAssumed'
  BY DEF QuietWhereAssumed, QuietLabels, Handshake
<1>4. EnabledWhereNeeded'
  BY DEF EnabledWhereNeeded, Handshake
<1>5. Position'
  BY DEF Position, InLoop, WithData, TypeOK, Operation
<1>6. WriteCommandsAreCarriedOut'
  BY DEF WriteCommandsAreCarriedOut, Started, Accepted, FrameLength, Frame, PageProgramOps,
         QuietWhereAssumed, QuietLabels, EnabledWhereNeeded, Handshake
<1> QED
  BY <1>1, <1>2, <1>3, <1>4, <1>5, <1>6

(* A known identifier: a busy chip does not give one. *)
LEMMA CheckMemoryIdStep == IInv /\ CheckMemoryId => IInv'
<1> SUFFICES ASSUME IInv, CheckMemoryId
             PROVE  IInv'
  OBVIOUS
<1>1. ASSUME NEW value \in Results, Return(value)
      PROVE  IInv'
  BY <1>1, ReturnStep DEF CheckMemoryId, IInv, TypeOK
<1>2. CASE PassesCheck(areaRead.id)
  <2> USE <1>2 DEF IInv, CheckMemoryId, At, Goto, PassesCheck, Known, hw, call, stack
  <2>1. TypeOK'
    BY ThreadTypes DEF TypeOK, HwTypeOK, Labels, Operation
  <2>2. Handshake' /\ AwaitsItsCommand'
    BY DEF Handshake, AwaitsItsCommand, Operation, TypeOK
  <2>3. QuietWhereAssumed' /\ EnabledWhereNeeded'
    BY IdsAssumption, KnownPromsAssumption
       DEF QuietWhereAssumed, QuietLabels, EnabledWhereNeeded, Handshake, Known, Operation, TypeOK
  <2>4. Position'
    BY DEF Position, InLoop, WithData, Operation, TypeOK
  <2>5. WriteCommandsAreCarriedOut'
    BY DEF WriteCommandsAreCarriedOut, Started, Accepted, FrameLength, DataBytes
  <2> QED
    BY <2>1, <2>2, <2>3, <2>4, <2>5
<1> QED
  BY <1>1, <1>2 DEF CheckMemoryId, Results, Exceptions

(* The same for the second identifier of an operation. *)
LEMMA SelectModeStep == IInv /\ SelectMode => IInv'
<1> SUFFICES ASSUME IInv, SelectMode
             PROVE  IInv'
  OBVIOUS
<1>1. ASSUME NEW value \in Results, Return(value)
      PROVE  IInv'
  BY <1>1, ReturnStep DEF SelectMode, IInv, TypeOK
<1>2. CASE Known(areaRead.id)
  <2> USE <1>2 DEF IInv, SelectMode, At, Goto, Known, hw, call, stack
  <2>1. TypeOK'
    BY ThreadTypes DEF TypeOK, HwTypeOK, Labels
  <2>2. Handshake' /\ AwaitsItsCommand'
    BY DEF Handshake, AwaitsItsCommand, Operation, TypeOK
  <2>3. QuietWhereAssumed' /\ EnabledWhereNeeded'
    BY IdsAssumption, KnownPromsAssumption
       DEF QuietWhereAssumed, QuietLabels, EnabledWhereNeeded, Handshake, Known, Operation, TypeOK
  <2>4. Position'
    BY FilesAssumption DEF Position, InLoop, WithData, Operation, TypeOK
  <2>5. WriteCommandsAreCarriedOut'
    BY DEF WriteCommandsAreCarriedOut, Started, Accepted, FrameLength, DataBytes
  <2> QED
    BY <2>1, <2>2, <2>3, <2>4, <2>5
<1> QED
  BY <1>1, <1>2 DEF SelectMode, Results, Exceptions

(* The end of a write, seen in the status. *)
LEMMA TestStatusStep == IInv /\ TestStatus => IInv'
<1> SUFFICES ASSUME IInv, TestStatus
             PROVE  IInv'
  OBVIOUS
<1>1. ASSUME NEW value \in Results, Return(value)
      PROVE  IInv'
  BY <1>1, ReturnStep DEF TestStatus, IInv, TypeOK
<1>2. CASE \/ InProgress /\ Goto("readStatus") /\ UNCHANGED stack
           \/ op = "program" /\ NextBlock
  <2> USE <1>2 DEF IInv, TestStatus, At, Goto, InProgress, NextBlock, hw, call, stack
  <2>1. TypeOK'
    BY ThreadTypes DEF TypeOK, HwTypeOK, Labels
  <2>2. Handshake' /\ AwaitsItsCommand'
    BY DEF Handshake, AwaitsItsCommand, Operation, TypeOK
  <2>3. QuietWhereAssumed' /\ EnabledWhereNeeded'
    BY IdsAssumption, KnownPromsAssumption
       DEF QuietWhereAssumed, QuietLabels, EnabledWhereNeeded, Handshake, Known, Operation, TypeOK
  <2>4. Position'
    BY DEF Position, InLoop, WithData, Operation, TypeOK
  <2>5. WriteCommandsAreCarriedOut'
    BY DEF WriteCommandsAreCarriedOut, Started, Accepted, FrameLength, DataBytes
  <2> QED
    BY <2>1, <2>2, <2>3, <2>4, <2>5
<1> QED
  BY <1>1, <1>2 DEF TestStatus, Results, Exceptions

(* A file that opens and has a header. *)
LEMMA OpenFileStep == IInv /\ OpenFile => IInv'
<1> SUFFICES ASSUME IInv, OpenFile
             PROVE  IInv'
  OBVIOUS
<1>1. ASSUME NEW value \in Results, Return(value)
      PROVE  IInv'
  BY <1>1, ReturnStep DEF OpenFile, IInv, TypeOK
<1>2. CASE Goto("lookup1") /\ UNCHANGED stack
  <2> USE <1>2 DEF IInv, OpenFile, At, Goto, hw, call, stack
  <2>1. TypeOK'
    BY ThreadTypes DEF TypeOK, HwTypeOK, Labels
  <2>2. Handshake' /\ AwaitsItsCommand'
    BY DEF Handshake, AwaitsItsCommand, Operation, TypeOK
  <2>3. QuietWhereAssumed' /\ EnabledWhereNeeded'
    BY IdsAssumption, KnownPromsAssumption
       DEF QuietWhereAssumed, QuietLabels, EnabledWhereNeeded, Handshake, Known, Operation, TypeOK
  <2>4. Position'
    BY DEF Position, InLoop, WithData, Operation, TypeOK
  <2>5. WriteCommandsAreCarriedOut'
    BY DEF WriteCommandsAreCarriedOut, Started, Accepted, FrameLength, DataBytes
  <2> QED
    BY <2>1, <2>2, <2>3, <2>4, <2>5
<1> QED
  BY <1>1, <1>2 DEF OpenFile, Results, Exceptions

(* A dump file that opens. *)
LEMMA OpenDumpStep == IInv /\ OpenDump => IInv'
<1> SUFFICES ASSUME IInv, OpenDump
             PROVE  IInv'
  OBVIOUS
<1>1. ASSUME NEW value \in Results, Return(value)
      PROVE  IInv'
  BY <1>1, ReturnStep DEF OpenDump, IInv, TypeOK
<1>2. CASE Goto("fastRead") /\ UNCHANGED stack
  <2> USE <1>2 DEF IInv, OpenDump, At, Goto, hw, call, stack
  <2>1. TypeOK'
    BY ThreadTypes DEF TypeOK, HwTypeOK, Labels
  <2>2. Handshake' /\ AwaitsItsCommand'
    BY DEF Handshake, AwaitsItsCommand, Operation, TypeOK
  <2>3. QuietWhereAssumed' /\ EnabledWhereNeeded'
    BY IdsAssumption, KnownPromsAssumption
       DEF QuietWhereAssumed, QuietLabels, EnabledWhereNeeded, Handshake, Known, Operation, TypeOK
  <2>4. Position'
    BY DEF Position, InLoop, WithData, Operation, TypeOK
  <2>5. WriteCommandsAreCarriedOut'
    BY DEF WriteCommandsAreCarriedOut, Started, Accepted, FrameLength, DataBytes
  <2> QED
    BY <2>1, <2>2, <2>3, <2>4, <2>5
<1> QED
  BY <1>1, <1>2 DEF OpenDump, Results, Exceptions

(* A chunk that is as in the file. *)
LEMMA CompareStep == IInv /\ Compare => IInv'
<1> SUFFICES ASSUME IInv, Compare
             PROVE  IInv'
  OBVIOUS
<1>1. ASSUME NEW value \in Results, Return(value)
      PROVE  IInv'
  BY <1>1, ReturnStep DEF Compare, IInv, TypeOK
<1>2. CASE Same
  <2> USE <1>2 DEF IInv, Compare, At, Goto, Same, NextBlock, hw, call, stack
  <2>1. TypeOK'
    BY ThreadTypes DEF TypeOK, HwTypeOK, Labels
  <2>2. Handshake' /\ AwaitsItsCommand'
    BY DEF Handshake, AwaitsItsCommand, Operation, TypeOK
  <2>3. QuietWhereAssumed' /\ EnabledWhereNeeded'
    BY IdsAssumption, KnownPromsAssumption
       DEF QuietWhereAssumed, QuietLabels, EnabledWhereNeeded, Handshake, Known, Operation, TypeOK
  <2>4. Position'
    BY DEF Position, InLoop, WithData, Operation, TypeOK
  <2>5. WriteCommandsAreCarriedOut'
    BY DEF WriteCommandsAreCarriedOut, Started, Accepted, FrameLength, DataBytes
  <2> QED
    BY <2>1, <2>2, <2>3, <2>4, <2>5
<1> QED
  BY <1>1, <1>2 DEF Compare, Results, Exceptions

(* The process is killed. *)
LEMMA KillStep == IInv /\ Kill => IInv'
BY ReturnStep DEF IInv, TypeOK, Kill, Results

(* The configuration register is written, enabled by the WREN before it was read. *)
LEMMA WriteConfigStep == IInv /\ WriteConfig => IInv'
<1> SUFFICES ASSUME IInv, WriteConfig
             PROVE  IInv'
  OBVIOUS
<1> DEFINE command == [Frame("WRR") EXCEPT !.config = NewConfig]
<1>0. command \in WriteArea
  BY FrameType, QuadAssumption DEF IInv, TypeOK, HwTypeOK, NewConfig, Config, WriteArea, Opcode
<1> USE DEF IInv, WriteConfig, At, NewConfig
<1>1. TypeOK'
  BY <1>0, TransferTypes DEF TypeOK, HwTypeOK, Labels, locals, stack
<1> USE DEF Transfer, chip, call, locals, stack
<1>2. Handshake' /\ AwaitsItsCommand'
  BY ModeTypes DEF Handshake, AwaitsItsCommand, Awaited, Frame, Position
<1>3. QuietWhereAssumed' /\ EnabledWhereNeeded'
  BY DEF QuietWhereAssumed, QuietLabels, EnabledWhereNeeded, Handshake
<1>4. Position'
  BY DEF Position, InLoop, WithData, TypeOK, Operation
<1>5. WriteCommandsAreCarriedOut'
  BY SizesAssumption, ModeTypes
     DEF WriteCommandsAreCarriedOut, Started, Accepted, FrameLength, DataBytes, AddressBytes,
         Frame, PageProgramOps, FastReadOps, QuietWhereAssumed, QuietLabels, EnabledWhereNeeded,
         Handshake, Position, WithData, TypeOK
<1> QED
  BY <1>1, <1>2, <1>3, <1>4, <1>5

(* A page program of as many bytes as the length register says. *)
LEMMA ProgramMemoryPageStep == IInv /\ ProgramMemoryPage => IInv'
<1> SUFFICES ASSUME IInv, ProgramMemoryPage
             PROVE  IInv'
  OBVIOUS
<1> DEFINE byte(i, rest) == IF i < bread THEN file.byte[addr + i] ELSE rest
           frame == Frame(PageProgramOp(Mode))
           command == [frame EXCEPT !.addr = addr % Span(Mode),
                                    !.data = [i \in PageIndex |-> byte(i, @[i])]]
<1>0. command \in WriteArea
  <2>1. frame \in WriteArea
    BY FrameType, ModeTypes DEF Opcode
  <2>2. addr % Span(Mode) \in Nat
    BY ModeTypes DEF IInv, TypeOK
  <2>3. \A i \in PageIndex : byte(i, frame.data[i]) \in Byte
    <3>1. /\ addr \in Nat /\ bread \in Nat /\ file \in Files /\ file.len \in Nat
          /\ addr + bread <= file.len
      BY FilesAssumption DEF IInv, TypeOK, Position, WithData, ProgramMemoryPage, At
    <3>2. \A i \in PageIndex : i < bread => addr + i \in 0 .. file.len - 1
      BY <3>1, SizesAssumption DEF PageIndex
    <3>3. \A i \in PageIndex : i < bread => file.byte[addr + i] \in Byte
      BY <3>1, <3>2, FilesAssumption
    <3>4. \A i \in PageIndex : frame.data[i] \in Byte
      BY <2>1 DEF WriteArea
    <3> QED
      BY <3>3, <3>4
  <2> QED
    BY <2>1, <2>2, <2>3 DEF WriteArea
<1> USE DEF IInv, ProgramMemoryPage, At, PageLength, PageProgramOp, AddrLen
<1>1. TypeOK'
  BY <1>0, ModeTypes, TransferTypes DEF TypeOK, HwTypeOK, Labels, locals, stack
<1> USE DEF Transfer, chip, call, locals, stack
<1>2. Handshake' /\ AwaitsItsCommand'
  BY ModeTypes DEF Handshake, AwaitsItsCommand, Awaited, Frame, Position
<1>3. QuietWhereAssumed' /\ EnabledWhereNeeded'
  BY DEF QuietWhereAssumed, QuietLabels, EnabledWhereNeeded, Handshake
<1>4. Position'
  BY DEF Position, InLoop, WithData, TypeOK, Operation
<1>5. WriteCommandsAreCarriedOut'
  BY SizesAssumption, ModeTypes
     DEF WriteCommandsAreCarriedOut, Started, Accepted, FrameLength, DataBytes, AddressBytes,
         Frame, PageProgramOps, FastReadOps, QuietWhereAssumed, QuietLabels, EnabledWhereNeeded,
         Handshake, Position, WithData, TypeOK
<1> QED
  BY <1>1, <1>2, <1>3, <1>4, <1>5

(* A read of the chip. *)
LEMMA FastReadStep == IInv /\ FastRead => IInv'
<1> SUFFICES ASSUME IInv, FastRead
             PROVE  IInv'
  OBVIOUS
<1> DEFINE command == [Frame(FastReadOp(Mode)) EXCEPT !.addr = addr % Span(Mode)]
<1>0. command \in WriteArea
  BY FrameType, ModeTypes DEF IInv, TypeOK, WriteArea, Opcode
<1> USE DEF IInv, FastRead, At, ReadLength
<1>1. TypeOK'
  <2>1. bytesToWrite' \in Nat /\ bytesToRead' \in Nat
    BY ModeTypes, SizesAssumption DEF Position, WithData, TypeOK
  <2> QED
    BY <1>0, <2>1, TransferTypes DEF Labels
<1> USE DEF Transfer, chip, call, locals, stack
<1>2. Handshake' /\ AwaitsItsCommand'
  BY ModeTypes DEF Handshake, AwaitsItsCommand, Awaited, Frame, Position
<1>3. QuietWhereAssumed' /\ EnabledWhereNeeded'
  BY DEF QuietWhereAssumed, QuietLabels, EnabledWhereNeeded, Handshake
<1>4. Position'
  BY DEF Position, InLoop, WithData, TypeOK, Operation
<1>5. WriteCommandsAreCarriedOut'
  BY SizesAssumption, ModeTypes
     DEF WriteCommandsAreCarriedOut, Started, Accepted, FrameLength, DataBytes, AddressBytes,
         Frame, PageProgramOps, FastReadOps, QuietWhereAssumed, QuietLabels, EnabledWhereNeeded,
         Handshake, Position, WithData, TypeOK
<1> QED
  BY <1>1, <1>2, <1>3, <1>4, <1>5

(* A block of the file is read. *)
LEMMA ReadChunkStep == IInv /\ ReadChunk => IInv'
<1> SUFFICES ASSUME IInv, ReadChunk
             PROVE  IInv'
  OBVIOUS
<1>1. ASSUME NEW value \in Results, Return(value)
      PROVE  IInv'
  BY <1>1, ReturnStep DEF ReadChunk, IInv, TypeOK
<1> DEFINE rest == file.len - addr
           full == IF rest < ChunkSize THEN rest ELSE ChunkSize
<1>2. ASSUME NEW n \in 0 .. full, n > 0,
             Goto(IF op = "program" THEN "pageEnable" ELSE "fastRead"),
             bread' = n, ioErr' = ReadFailed(n, full), UNCHANGED <<memId, addr>>
      PROVE  IInv'
  <2>1. /\ n \in Nat /\ addr + n <= file.len
        /\ op = "program" => n <= PageSize
        /\ op \in {"program", "verify"}
    BY <1>2, FilesAssumption, SizesAssumption
       DEF IInv, TypeOK, Position, ReadChunk, At, ChunkSize
  <2> USE <1>2 DEF IInv, ReadChunk, At, Goto, hw, call
  <2>2. TypeOK'
    <3>1. ioErr' \in BOOLEAN
      BY DEF ReadFailed, TypeOK
    <3> QED
      BY <2>1, <3>1, ThreadTypes DEF TypeOK, Labels
  <2>3. Handshake' /\ AwaitsItsCommand'
    BY DEF Handshake, AwaitsItsCommand
  <2>4. QuietWhereAssumed' /\ EnabledWhereNeeded'
    BY DEF QuietWhereAssumed, QuietLabels, EnabledWhereNeeded
  <2>5. Position'
    BY <2>1 DEF Position, InLoop, WithData
  <2>6. WriteCommandsAreCarriedOut'
    BY DEF WriteCommandsAreCarriedOut, Started, Accepted, FrameLength, DataBytes
  <2> QED
    BY <2>2, <2>3, <2>4, <2>5, <2>6
<1> QED
  BY <1>1, <1>2 DEF ReadChunk, Results, Exceptions

(* A chunk goes into the dump file. *)
LEMMA StoreStep == IInv /\ Store => IInv'
<1> SUFFICES ASSUME IInv, Store
             PROVE  IInv'
  OBVIOUS
<1>1. dumped' \in [DumpIndex -> Byte]
  BY DEF IInv, TypeOK, HwTypeOK, Store
<1>2. ASSUME NEW value \in Results, Return(value)
      PROVE  IInv'
  BY <1>1, <1>2, ReturnStep DEF Store
<1>3. CASE Goto("fastRead") /\ addr' = addr + AreaReadSize /\ UNCHANGED <<memId, bread, ioErr>>
  <2> USE <1>3 DEF IInv, Store, At, Goto, hw, call
  <2>1. TypeOK'
    BY <1>1, SizesAssumption, ThreadTypes DEF TypeOK, Labels
  <2>2. Handshake' /\ AwaitsItsCommand'
    BY DEF Handshake, AwaitsItsCommand
  <2>3. QuietWhereAssumed' /\ EnabledWhereNeeded'
    BY DEF QuietWhereAssumed, QuietLabels, EnabledWhereNeeded
  <2>4. Position'
    BY DEF Position, InLoop, WithData
  <2>5. WriteCommandsAreCarriedOut'
    BY DEF WriteCommandsAreCarriedOut, Started, Accepted, FrameLength, DataBytes
  <2> QED
    BY <2>1, <2>2, <2>3, <2>4, <2>5
<1> QED
  BY <1>2, <1>3 DEF Store, Results, Exceptions

(* An operation is called. *)
LEMMA CallStep == IInv /\ Call => IInv'
<1> SUFFICES ASSUME IInv, Call
             PROVE  IInv'
  OBVIOUS
<1>1. /\ pc = "idle" /\ pc' = "probe1" /\ result' = "none"
      /\ op' \in Operation /\ file' \in Files /\ dumpSize' \in DumpSizes
      /\ atCall' = [mem |-> memNext, config |-> configNext, quiet |-> ~busy /\ ~Started]
      /\ dumped' = [k \in DumpIndex |-> Erased]
      /\ UNCHANGED <<hw, waiting, polls, stack>>
  BY DEF IInv, TypeOK, Call, CallErase, CallProgram, CallVerify, CallDump, Begin, Operation
<1> USE <1>1 DEF IInv, hw, stack
<1>2. TypeOK'
  <2>1. HwTypeOK'
    BY DEF TypeOK, HwTypeOK
  <2>2. dumped' \in [DumpIndex -> Byte]
    BY DEF Byte, Erased
  <2>3. atCall' \in [mem : Memory, config : Config, quiet : BOOLEAN]
    BY DEF TypeOK, HwTypeOK
  <2>4. /\ pc' \in Labels /\ polls' \in 0 .. MaxPolls /\ memId' \in Ids \cup {NoId}
        /\ addr' \in Nat /\ bread' \in Nat /\ result' \in Results
    BY DEF TypeOK, Labels, Results
  <2>5. waiting' \in BOOLEAN /\ ioErr' \in BOOLEAN
    BY Zenon DEF TypeOK
  <2> QED
    BY ONLY <1>1, <2>1, <2>2, <2>3, <2>4, <2>5 DEF TypeOK
<1>3. Handshake' /\ AwaitsItsCommand'
  BY DEF Handshake, AwaitsItsCommand
<1>4. QuietWhereAssumed' /\ EnabledWhereNeeded'
  BY DEF QuietWhereAssumed, QuietLabels, EnabledWhereNeeded
<1>5. Position'
  BY DEF Position, InLoop, WithData
<1>6. WriteCommandsAreCarriedOut'
  BY DEF WriteCommandsAreCarriedOut, Started, Accepted, FrameLength, DataBytes
<1> QED
  BY <1>2, <1>3, <1>4, <1>5, <1>6

-----------------------------------------------------------------------------
(* THE STEPS OF THE HARDWARE *)

(* What the transfers have in common. *)
Transferred ==
  /\ Started /\ control' = "done"
  /\ UNCHANGED <<regs, promId, mem, config, thread, call, locals, result>>

(* The bytes after a page program are bytes. *)
LEMMA PageProgrammedType ==
  ASSUME mem \in Memory, NEW a, NEW n
  PROVE  PageProgrammed(a, n) \in Memory
BY DEF PageProgrammed, Memory, Byte

(* The types of the thread do not depend on the hardware. *)
LEMMA HardwareTypes ==
  ASSUME TypeOK, HwTypeOK', UNCHANGED <<thread, call, locals, result>>
  PROVE  TypeOK'
BY DEF TypeOK, thread, call, locals, stack

(* A transfer keeps the invariant if the chip becomes busy only through a command that *)
(* starts a write, and answers about it truly.                                         *)
LEMMA TransferredStep ==
  ASSUME IInv, Transferred, HwTypeOK',
         areaWrite.op \in {"BE", "WRR"} \cup PageProgramOps \/ busy' = busy,
         areaWrite.op # "RDID" \/ control = "start" \/ areaRead'.id = NoId \/ ~busy,
         areaWrite.op # "RDSR" \/ control = "start" \/ areaRead'.status = busy,
         wel => wel',
         areaWrite.op = "WREN" /\ ~busy /\ FrameLength = 1 => wel'
  PROVE  IInv'
<1> USE DEF IInv, Transferred, Started, regs, thread, call, locals, stack
<1>1. TypeOK'
  BY HardwareTypes
<1>2. Handshake' /\ AwaitsItsCommand'
  BY DEF Handshake, AwaitsItsCommand, Awaited
<1>3. QuietWhereAssumed'
  BY DEF QuietWhereAssumed, QuietLabels, Handshake, AwaitsItsCommand, Awaited, PageProgramOps,
         FastReadOps
<1>4. EnabledWhereNeeded'
  BY DEF EnabledWhereNeeded, Handshake, AwaitsItsCommand, Awaited, WriteCommandsAreCarriedOut,
         PageProgramOps
<1>5. Position'
  BY DEF Position
<1>6. WriteCommandsAreCarriedOut'
  BY DEF WriteCommandsAreCarriedOut
<1> QED
  BY <1>1, <1>2, <1>3, <1>4, <1>5, <1>6

(* The SPI master carries out a transfer. *)
LEMMA ExecuteStep == IInv /\ Execute /\ UNCHANGED <<thread, call, locals, result>> => IInv'
<1> SUFFICES ASSUME IInv, Execute, UNCHANGED <<thread, call, locals, result>>
             PROVE  IInv'
  OBVIOUS
<1> USE DEF IInv, TypeOK, HwTypeOK, Execute, Transferred, regs, PageProgramOps
<1>1. CASE ExecReadId
  <2>1. PICK id \in Ids \cup {NoId} :
           /\ areaRead' = IF Reading THEN [NoAnswer EXCEPT !.id = id] ELSE areaRead
           /\ busy => id = NoId
    BY <1>1 DEF ExecReadId
  <2>2. areaRead' \in [id : Ids \cup {NoId}, status : BOOLEAN, config : Config,
                      data : [ReadIndex -> Byte]]
    BY <2>1 DEF NoAnswer, Byte, Erased, Config
  <2>3. HwTypeOK'
    BY <1>1, <2>2 DEF ExecReadId
  <2>4. areaWrite.op # "RDID" \/ control = "start" \/ areaRead'.id = NoId \/ ~busy
    BY <2>1 DEF Started, Reading, NoAnswer
  <2> QED
    BY <1>1, <2>3, <2>4, TransferredStep DEF ExecReadId
<1>2. CASE ExecReadStatus
  BY <1>2, TransferredStep DEF ExecReadStatus, NoAnswer, Byte, Erased, Config, Started, Reading
<1>3. CASE ExecReadConfig
  BY <1>3, TransferredStep DEF ExecReadConfig, NoAnswer, Byte, Erased, Config
<1>4. CASE ExecFastRead
  <2> DEFINE cell(i) == mem[(areaWrite.addr + i) % FlashSize]
             answered == ~busy /\ FrameLength = AddressBytes(areaWrite.op) + 2
             answer(i) == IF answered /\ i <= bytesToRead THEN cell(i) ELSE Erased
  <2>1. \A i \in ReadIndex : cell(i) \in Byte
    BY SizesAssumption DEF Memory, Address, ReadIndex
  <2>2. [i \in ReadIndex |-> answer(i)] \in [ReadIndex -> Byte]
    BY <2>1 DEF Byte, Erased
  <2>3. areaRead' = IF Reading THEN [NoAnswer EXCEPT !.data = [i \in ReadIndex |-> answer(i)]]
                               ELSE areaRead
    BY <1>4 DEF ExecFastRead
  <2> HIDE DEF answer
  <2>4. areaRead' \in [id : Ids \cup {NoId}, status : BOOLEAN, config : Config,
                      data : [ReadIndex -> Byte]]
    BY <2>2, <2>3 DEF NoAnswer, Config
  <2> QED
    BY <1>4, <2>4, TransferredStep DEF ExecFastRead, FastReadOps
<1>5. CASE ExecWriteEnable
  BY <1>5, TransferredStep DEF ExecWriteEnable
<1>6. CASE ExecBulkErase
  BY <1>6, TransferredStep DEF ExecBulkErase, Blank, Memory, Byte, Erased
<1>7. CASE ExecWriteRegisters
  BY <1>7, TransferredStep DEF ExecWriteRegisters
<1>8. CASE ExecPageProgram
  BY <1>8, PageProgrammedType, TransferredStep DEF ExecPageProgram
<1> QED
  BY <1>1, <1>2, <1>3, <1>4, <1>5, <1>6, <1>7, <1>8

(* The chip ends a write: no modifying command is on its way then. *)
LEMMA WriteDoneStep == IInv /\ WriteDone /\ UNCHANGED <<thread, call, locals, result>> => IInv'
<1> SUFFICES ASSUME IInv, WriteDone, UNCHANGED <<thread, call, locals, result>>
             PROVE  IInv'
  OBVIOUS
<1> USE DEF IInv, WriteDone, regs, thread, call, locals, stack
<1>1. TypeOK'
  <2>1. HwTypeOK'
    BY DEF TypeOK, HwTypeOK
  <2> QED
    BY <2>1, HardwareTypes
<1>2. Handshake' /\ AwaitsItsCommand'
  BY DEF Handshake, AwaitsItsCommand, Awaited
<1>3. QuietWhereAssumed' /\ EnabledWhereNeeded'
  BY DEF QuietWhereAssumed, QuietLabels, EnabledWhereNeeded
<1>4. Position'
  BY DEF Position
<1>5. WriteCommandsAreCarriedOut'
  BY DEF WriteCommandsAreCarriedOut, Started, Accepted
<1> QED
  BY <1>1, <1>2, <1>3, <1>4, <1>5

-----------------------------------------------------------------------------
(* TYPES AND COMMANDS *)

(* The invariant holds on a board before the first operation ... *)
LEMMA InitHolds == Init => IInv
<1> SUFFICES ASSUME Init
             PROVE  IInv
  OBVIOUS
<1> USE DEF Init, HwInit, IInv
<1>1. TypeOK
  <2>1. HwTypeOK
    BY FrameType, ContentsAssumption, IdsAssumption
       DEF HwTypeOK, NoAnswer, WriteArea, Opcode, Byte, Erased, Config
  <2>2. atCall \in [mem : Memory, config : Config, quiet : BOOLEAN]
    BY <2>1 DEF HwTypeOK
  <2>3. dumped \in [DumpIndex -> Byte]
    BY DEF Byte, Erased
  <2>4. /\ pc \in Labels /\ polls \in 0 .. MaxPolls /\ op \in Operation /\ file \in Files
        /\ dumpSize \in DumpSizes /\ memId \in Ids \cup {NoId} /\ addr \in Nat /\ bread \in Nat
        /\ result \in Results
    BY SpanAssumption DEF Labels, Operation, Results
  <2>5. waiting \in BOOLEAN /\ ioErr \in BOOLEAN
    BY Zenon
  <2> QED
    BY ONLY <2>1, <2>2, <2>3, <2>4, <2>5 DEF TypeOK
<1>2. Handshake /\ AwaitsItsCommand
  BY DEF Handshake, AwaitsItsCommand
<1>3. QuietWhereAssumed /\ EnabledWhereNeeded
  BY DEF QuietWhereAssumed, EnabledWhereNeeded
<1>4. Position
  BY DEF Position, InLoop, WithData
<1>5. WriteCommandsAreCarriedOut
  BY DEF WriteCommandsAreCarriedOut, Started
<1> QED
  BY <1>1, <1>2, <1>3, <1>4, <1>5

(* ... and every step keeps it. *)
LEMMA StepKeeps == IInv /\ [Next]_vars => IInv'
<1>1. ASSUME IInv, Software
      PROVE  IInv'
  BY <1>1, PollStep, ReadMemoryIdStep, CheckMemoryIdStep, SelectModeStep, MemoryWriteEnableStep,
     MemoryBulkEraseStep, ReadStatusStep, TestStatusStep, ReadConfigStep, WriteConfigStep,
     OpenFileStep, OpenDumpStep, ReadChunkStep, ProgramMemoryPageStep, FastReadStep, CompareStep,
     StoreStep
     DEF Software
<1>2. ASSUME IInv, Hardware
      PROVE  IInv'
  BY <1>2, ExecuteStep, WriteDoneStep DEF Hardware
<1>3. ASSUME IInv, UNCHANGED vars
      PROVE  IInv'
  <2> USE <1>3 DEF IInv, vars, hw, thread, call, locals, stack
  <2>1. TypeOK'
    BY DEF TypeOK, HwTypeOK
  <2>2. Handshake' /\ AwaitsItsCommand' /\ QuietWhereAssumed'
    BY DEF Handshake, AwaitsItsCommand, Awaited, QuietWhereAssumed
  <2>3. EnabledWhereNeeded' /\ Position'
    BY DEF EnabledWhereNeeded, Position
  <2>4. WriteCommandsAreCarriedOut'
    BY DEF WriteCommandsAreCarriedOut, Started, Accepted, FrameLength, DataBytes
  <2> QED
    BY <2>1, <2>2, <2>3, <2>4
<1> QED
  BY <1>1, <1>2, <1>3, CallStep, KillStep DEF Next

(* The invariant holds in every state of the system. *)
LEMMA Invariance == Spec => []IInv
BY InitHolds, StepKeeps, PTL DEF Spec

(* Whatever chip is mounted, whenever the process is killed and whatever the files hold: *)
(* the registers, the chip and the local variables of the operations have their types.    *)
THEOREM TypeCorrect == Spec => []TypeOK
BY Invariance, PTL DEF IInv

(* The chip carries out every command of erase and program that is sent to change it: it *)
(* finds the chip idle and enabled, and has its exact length although memoryBulkErase and *)
(* readStatus rely on the length register an earlier command has set.                     *)
THEOREM CommandsCarriedOut == Spec => []WriteCommandsAreCarriedOut
BY Invariance, PTL DEF IInv


-----------------------------------------------------------------------------
(* THE IDENTIFIER AND THE ERASE *)

(* What the chip answers to RDID: nothing but its identifier, and that reliably the second *)
(* time, if it is idle.                                                                     *)
Identified ==
  /\ areaRead.id \in {promId, NoId}
  /\ pc \notin {"idle", "probe1", "probe2", "checkId"} => Known(promId)
  /\ atCall.quiet =>
       /\ pc = "probe1" => ~busy /\ ~Started
       /\ pc = "probe2" => ~busy /\ (control = "done" => idPrimed)
       /\ pc = "checkId" => ~busy /\ idPrimed /\ (control = "done" => areaRead.id = promId)
       /\ pc = "idle" /\ result = "UnknownProm" => ~Known(promId)

(* A chip that is not supported never gets beyond the identification. *)
Inert == ~Known(promId) => areaWrite.op = "RDID" /\ ~busy /\ mem = memNext

(* The erase, once carried out, has erased the chip or is about to. *)
Erasing == IF busy THEN memNext = Blank ELSE mem = Blank

(* From the end of the transfer of BE on, and after an erase that returned. *)
ErasedAsAsked ==
  /\ op = "erase" /\ pc = "readStatus" /\ control = "done" => Erasing
  /\ op = "erase" /\ pc = "testStatus" => Erasing
  /\ op = "erase" /\ pc = "idle" /\ result = "done" => control = "done" /\ ~busy /\ mem = Blank

(* No identifier of known_proms is what a silent chip reads as. *)
LEMMA UnknownIsNoId == ~Known(NoId)
BY IdsAssumption, KnownPromsAssumption DEF Known

(* Every step of the thread keeps what is known of the identifier, ... *)
LEMMA IdentifiedBySoftware == IInv /\ Identified /\ Inert /\ Software => Identified' /\ Inert'
<1> SUFFICES ASSUME IInv, Identified, Inert, Software
             PROVE  Identified' /\ Inert'
  OBVIOUS
<1> USE UnknownIsNoId
    DEF IInv, Identified, Inert, Handshake, At, Started, Frame,
        hw, thread, call, locals, stack, chip
<1>1. CASE Poll
  BY <1>1 DEF Poll, TimedOut, NextPoll, Return
<1>2. CASE ReadMemoryId
  BY <1>2 DEF ReadMemoryId, IdSteps, Transfer
<1>3. CASE CheckMemoryId
  BY <1>3 DEF CheckMemoryId, PassesCheck, Goto, Return, TypeOK, Operation
<1>4. CASE SelectMode
  BY <1>4 DEF SelectMode, Goto, Return
<1>5. CASE MemoryWriteEnable
  BY <1>5 DEF MemoryWriteEnable, Transfer
<1>6. CASE MemoryBulkErase
  BY <1>6 DEF MemoryBulkErase, Transfer
<1>7. CASE ReadStatus
  BY <1>7 DEF ReadStatus, Transfer
<1>8. CASE TestStatus
  BY <1>8 DEF TestStatus, InProgress, NextBlock, Goto, Return
<1>9. CASE ReadConfig
  BY <1>9 DEF ReadConfig, Transfer
<1>10. CASE WriteConfig
  BY <1>10 DEF WriteConfig, Transfer
<1>11. CASE OpenFile
  BY <1>11 DEF OpenFile, Goto, Return
<1>12. CASE OpenDump
  BY <1>12 DEF OpenDump, Goto, Return
<1>13. CASE ReadChunk
  BY <1>13 DEF ReadChunk, Goto, Return
<1>14. CASE ProgramMemoryPage
  BY <1>14 DEF ProgramMemoryPage, Transfer
<1>15. CASE FastRead
  BY <1>15 DEF FastRead, Transfer
<1>16. CASE Compare
  BY <1>16 DEF Compare, NextBlock, Goto, Return
<1>17. CASE Store
  BY <1>17 DEF Store, Goto, Return
<1> QED
  BY <1>1, <1>2, <1>3, <1>4, <1>5, <1>6, <1>7, <1>8, <1>9, <1>10, <1>11, <1>12, <1>13, <1>14,
     <1>15, <1>16, <1>17
     DEF Software

(* ... and so does every step of the hardware. *)
LEMMA IdentifiedByHardware == IInv /\ Identified /\ Inert /\ Hardware => Identified' /\ Inert'
<1> SUFFICES ASSUME IInv, Identified, Inert, Hardware
             PROVE  Identified' /\ Inert'
  OBVIOUS
<1> USE DEF IInv, Identified, Inert, Handshake, AwaitsItsCommand, Awaited, Started, Reading,
            NoAnswer, PageProgramOps, FastReadOps, Hardware, regs, thread, call, locals, stack
<1>1. CASE WriteDone
  BY <1>1 DEF WriteDone
<1>2. CASE Execute /\ ExecReadId
  BY <1>2 DEF Execute, ExecReadId, TypeOK, HwTypeOK
<1>3. CASE Execute /\ ~ExecReadId
  BY <1>3 DEF Execute, ExecReadStatus, ExecReadConfig, ExecFastRead, ExecWriteEnable,
              ExecBulkErase, ExecWriteRegisters, ExecPageProgram, TypeOK, HwTypeOK
<1> QED
  BY <1>1, <1>2, <1>3

(* An operation called or killed keeps it too. *)
LEMMA IdentifiedByCall == IInv /\ Identified /\ Inert /\ (Call \/ Kill) => Identified' /\ Inert'
<1> USE DEF IInv, Identified, Inert, Started, hw, call, stack
<1>1. ASSUME IInv, Identified, Inert, Call
      PROVE  Identified' /\ Inert'
  <2>1. /\ pc = "idle" /\ pc' = "probe1" /\ UNCHANGED hw
        /\ atCall' = [mem |-> memNext, config |-> configNext, quiet |-> ~busy /\ ~Started]
    BY <1>1 DEF Call, CallErase, CallProgram, CallVerify, CallDump, Begin
  <2>2. atCall'.quiet = (~busy /\ ~Started)
    BY <2>1
  <2> QED
    BY <1>1, <2>1, <2>2
<1>2. ASSUME IInv, Identified, Inert, Kill
      PROVE  Identified' /\ Inert'
  BY <1>2 DEF Kill, Return
<1> QED
  BY <1>1, <1>2

(* So it holds throughout, and with it that an unsupported chip is left alone. *)
LEMMA IdentificationInvariance == Spec => [](Identified /\ Inert)
<1>1. Init => Identified /\ Inert
  BY DEF Init, HwInit, Identified, Inert, NoAnswer, Frame
<1>2. IInv /\ (Identified /\ Inert) /\ [Next]_vars => (Identified /\ Inert)'
  <2>1. ASSUME Identified, Inert, UNCHANGED vars
        PROVE  (Identified /\ Inert)'
    BY <2>1 DEF Identified, Inert, Started, vars, hw, thread, call, locals, stack
  <2> QED
    BY <2>1, IdentifiedBySoftware, IdentifiedByHardware, IdentifiedByCall DEF Next
<1> QED
  BY <1>1, <1>2, Invariance, PTL DEF Spec

(* A chip that is not in known_proms is never modified, ... *)
THEOREM UnknownChipsAreSafe == Spec => []UnknownChipUntouched
<1>1. Identified /\ Inert => UnknownChipUntouched
  BY DEF Inert, UnknownChipUntouched, Modifying, PageProgramOps
<1> QED
  BY <1>1, IdentificationInvariance, PTL

(* ... and a supported one that is idle when an operation is called is always recognised. *)
THEOREM IdleChipsAreRecognised == Spec => []IdleChipIsRecognised
<1>1. Identified => IdleChipIsRecognised
  BY DEF Identified, IdleChipIsRecognised
<1> QED
  BY <1>1, IdentificationInvariance, PTL

(* Every step keeps what is known of the erase, ... *)
LEMMA ErasedBySoftware == IInv /\ ErasedAsAsked /\ Software => ErasedAsAsked'
<1> SUFFICES ASSUME IInv, ErasedAsAsked, Software
             PROVE  ErasedAsAsked'
  OBVIOUS
<1> USE DEF IInv, ErasedAsAsked, Erasing, Handshake, At, hw, thread, call, locals, stack, chip
<1>1. CASE Poll
  BY <1>1 DEF Poll, TimedOut, NextPoll, Return
<1>2. CASE ReadMemoryId
  BY <1>2 DEF ReadMemoryId, IdSteps, Transfer
<1>3. CASE CheckMemoryId
  BY <1>3 DEF CheckMemoryId, PassesCheck, Goto, Return, TypeOK, Operation
<1>4. CASE SelectMode
  BY <1>4 DEF SelectMode, Goto, Return
<1>5. CASE MemoryWriteEnable
  BY <1>5 DEF MemoryWriteEnable, Transfer
<1>6. CASE MemoryBulkErase
  BY <1>6 DEF MemoryBulkErase, Transfer
<1>7. CASE ReadStatus
  BY <1>7 DEF ReadStatus, Transfer
<1>8. CASE TestStatus
  BY <1>8 DEF TestStatus, InProgress, NextBlock, Goto, Return, QuietWhereAssumed
<1>9. CASE ReadConfig
  BY <1>9 DEF ReadConfig, Transfer
<1>10. CASE WriteConfig
  BY <1>10 DEF WriteConfig, Transfer, Position
<1>11. CASE OpenFile
  BY <1>11 DEF OpenFile, Goto, Return
<1>12. CASE OpenDump
  BY <1>12 DEF OpenDump, Goto, Return
<1>13. CASE ReadChunk
  BY <1>13 DEF ReadChunk, Goto, Return
<1>14. CASE ProgramMemoryPage
  BY <1>14 DEF ProgramMemoryPage, Transfer
<1>15. CASE FastRead
  BY <1>15 DEF FastRead, Transfer
<1>16. CASE Compare
  BY <1>16 DEF Compare, NextBlock, Goto, Return
<1>17. CASE Store
  BY <1>17 DEF Store, Goto, Return
<1> QED
  BY <1>1, <1>2, <1>3, <1>4, <1>5, <1>6, <1>7, <1>8, <1>9, <1>10, <1>11, <1>12, <1>13, <1>14,
     <1>15, <1>16, <1>17
     DEF Software

(* ... so does every step of the hardware, ... *)
LEMMA ErasedByHardware == IInv /\ ErasedAsAsked /\ Hardware => ErasedAsAsked'
<1> SUFFICES ASSUME IInv, ErasedAsAsked, Hardware
             PROVE  ErasedAsAsked'
  OBVIOUS
<1> USE DEF IInv, ErasedAsAsked, Erasing, Handshake, AwaitsItsCommand, Awaited, Started, Accepted,
            PageProgramOps, FastReadOps, Position, InLoop, WithData,
            WriteCommandsAreCarriedOut, Hardware, regs, thread, call, locals, stack
<1>1. CASE WriteDone
  BY <1>1 DEF WriteDone
<1>2. CASE Execute /\ ExecBulkErase
  BY <1>2 DEF Execute, ExecBulkErase
<1>3. CASE Execute /\ ExecPageProgram
  BY <1>3 DEF Execute, ExecPageProgram
<1>4. CASE Execute /\ ~ExecBulkErase /\ ~ExecPageProgram
  BY <1>4 DEF Execute, ExecReadId, ExecReadStatus, ExecReadConfig, ExecFastRead, ExecWriteEnable,
              ExecWriteRegisters
<1> QED
  BY <1>1, <1>2, <1>3, <1>4

(* ... and an operation called or killed. *)
LEMMA ErasedByCall == IInv /\ ErasedAsAsked /\ (Call \/ Kill) => ErasedAsAsked'
BY DEF ErasedAsAsked, Erasing, Call, CallErase, CallProgram, CallVerify, CallDump, Begin, Kill,
       Return, hw, call, stack

(* So it holds throughout. *)
LEMMA ErasureInvariance == Spec => []ErasedAsAsked
<1>1. Init => ErasedAsAsked
  BY DEF Init, HwInit, ErasedAsAsked
<1>2. IInv /\ ErasedAsAsked /\ [Next]_vars => ErasedAsAsked'
  <2>1. ASSUME ErasedAsAsked, UNCHANGED vars
        PROVE  ErasedAsAsked'
    BY <2>1 DEF ErasedAsAsked, Erasing, vars, hw, thread, call, locals, stack
  <2> QED
    BY <2>1, ErasedBySoftware, ErasedByHardware, ErasedByCall DEF Next
<1> QED
  BY <1>1, <1>2, Invariance, PTL DEF Spec

(* An erase that returns has erased the whole chip: readStatus has seen the end of the erase *)
(* and not the idle chip before it.                                                           *)
THEOREM ErasesAreComplete == Spec => []EraseMeansBlank
<1>1. ErasedAsAsked => EraseMeansBlank
  BY DEF ErasedAsAsked, EraseMeansBlank, Returned
<1> QED
  BY <1>1, ErasureInvariance, PTL

-----------------------------------------------------------------------------
(* THE SECOND IDENTIFICATION *)

(* The operations that write the configuration register. *)
QuadProgram == op = "program" /\ Known(promId) /\ KnownProms[promId].quad_mode

(* The identifier looked at for the addressing mode is that of the chip, unless the chip may *)
(* be busy with its configuration register.                                                  *)
Located ==
  /\ pc \notin {"idle", "probe1", "probe2", "checkId"} => memId = promId
  /\ pc \in {"readConfig", "writeConfig"} => QuadProgram
  /\ ~QuadProgram =>
       /\ pc \in {"openFile", "lookup1", "lookup2", "useId"} =>
            ~busy /\ (Started => areaWrite.op # "WRR")
       /\ pc = "lookup2" /\ control = "done" => idPrimed
       /\ pc = "useId" => idPrimed /\ (control = "done" => areaRead.id = promId)
  /\ result = "OutOfRange" => QuadProgram

(* Every step of the thread keeps what is known of the second identification, ... *)
LEMMA LocatedBySoftware == IInv /\ Identified /\ Located /\ Software => Located'
<1> SUFFICES ASSUME IInv, Identified, Located, Software
             PROVE  Located'
  OBVIOUS
<1> USE UnknownIsNoId
    DEF IInv, Identified, Located, QuadProgram, Handshake, At, Started, Frame,
        hw, thread, call, locals, stack, chip
<1>1. CASE Poll
  BY <1>1 DEF Poll, TimedOut, NextPoll, Return
<1>2. CASE ReadMemoryId
  BY <1>2 DEF ReadMemoryId, IdSteps, Transfer
<1>3. CASE CheckMemoryId
  BY <1>3 DEF CheckMemoryId, PassesCheck, Goto, Return, TypeOK, Operation, QuietWhereAssumed, Known
<1>4. CASE SelectMode
  BY <1>4 DEF SelectMode, Goto, Return
<1>5. CASE MemoryWriteEnable
  BY <1>5 DEF MemoryWriteEnable, Transfer, TypeOK, Operation, QuietWhereAssumed, QuietLabels,
              Position
<1>6. CASE MemoryBulkErase
  BY <1>6 DEF MemoryBulkErase, Transfer
<1>7. CASE ReadStatus
  BY <1>7 DEF ReadStatus, Transfer
<1>8. CASE TestStatus
  BY <1>8 DEF TestStatus, InProgress, NextBlock, Goto, Return
<1>9. CASE ReadConfig
  BY <1>9 DEF ReadConfig, Transfer
<1>10. CASE WriteConfig
  BY <1>10 DEF WriteConfig, Transfer
<1>11. CASE OpenFile
  BY <1>11 DEF OpenFile, Goto, Return
<1>12. CASE OpenDump
  BY <1>12 DEF OpenDump, Goto, Return
<1>13. CASE ReadChunk
  BY <1>13 DEF ReadChunk, Goto, Return
<1>14. CASE ProgramMemoryPage
  BY <1>14 DEF ProgramMemoryPage, Transfer, PageProgramOp
<1>15. CASE FastRead
  BY <1>15 DEF FastRead, Transfer, FastReadOp
<1>16. CASE Compare
  BY <1>16 DEF Compare, NextBlock, Goto, Return
<1>17. CASE Store
  BY <1>17 DEF Store, Goto, Return
<1> QED
  BY <1>1, <1>2, <1>3, <1>4, <1>5, <1>6, <1>7, <1>8, <1>9, <1>10, <1>11, <1>12, <1>13, <1>14,
     <1>15, <1>16, <1>17
     DEF Software

(* ... so does every step of the hardware, ... *)
LEMMA LocatedByHardware == IInv /\ Identified /\ Located /\ Hardware => Located'
<1> SUFFICES ASSUME IInv, Identified, Located, Hardware
             PROVE  Located'
  OBVIOUS
<1> USE DEF IInv, Located, QuadProgram, Handshake, AwaitsItsCommand, Awaited, Started, Reading,
            NoAnswer, PageProgramOps, FastReadOps, Hardware, regs, thread, call, locals, stack
<1>1. CASE WriteDone
  BY <1>1 DEF WriteDone
<1>2. CASE Execute /\ ExecReadId
  BY <1>2 DEF Execute, ExecReadId
<1>3. CASE Execute /\ ~ExecReadId
  BY <1>3 DEF Execute, ExecReadStatus, ExecReadConfig, ExecFastRead, ExecWriteEnable,
              ExecBulkErase, ExecWriteRegisters, ExecPageProgram
<1> QED
  BY <1>1, <1>2, <1>3

(* ... and an operation called or killed. *)
LEMMA LocatedByCall == IInv /\ Located /\ (Call \/ Kill) => Located'
BY DEF Located, QuadProgram, Call, CallErase, CallProgram, CallVerify, CallDump, Begin, Kill,
       Return, Started, hw, call, stack

(* So it holds throughout. *)
LEMMA LocationInvariance == Spec => []Located
<1>1. Init => Located
  BY DEF Init, HwInit, Located
<1>2. IInv /\ Identified /\ Located /\ [Next]_vars => Located'
  <2>1. ASSUME Located, UNCHANGED vars
        PROVE  Located'
    BY <2>1 DEF Located, QuadProgram, Started, vars, hw, thread, call, locals, stack
  <2> QED
    BY <2>1, LocatedBySoftware, LocatedByHardware, LocatedByCall DEF Next
<1> QED
  BY <1>1, <1>2, Invariance, IdentificationInvariance, PTL DEF Spec

(* known_proms.at() never throws, except in program on a chip with quad mode. *)
THEOREM LookupsSucceed == Spec => []OutOfRangeOnlyAfterQuadMode
<1>1. Located => OutOfRangeOnlyAfterQuadMode
  BY DEF Located, QuadProgram, OutOfRangeOnlyAfterQuadMode
<1> QED
  BY <1>1, LocationInvariance, PTL

-----------------------------------------------------------------------------
(* WHAT THE OPERATIONS DO WITH A WHOLE FILE *)

-----------------------------------------------------------------------------
(* ARITHMETIC OF BLOCKS *)

(* What the provers have to be told of a division. *)
LEMMA Division ==
  ASSUME NEW a \in Int, NEW n \in Nat \ {0}
  PROVE  a % n \in 0 .. n - 1 /\ a \div n \in Int /\ a = n * (a \div n) + (a % n)
OBVIOUS

(* A number below the divisor is its own remainder. *)
LEMMA Small == ASSUME NEW a \in Nat, NEW n \in Nat \ {0}, a < n PROVE a % n = a
OBVIOUS

(* Only 0 is a multiple of n between -n and n. *)
LEMMA NoMultiple ==
  ASSUME NEW n \in Nat \ {0}, NEW q \in Int, NEW r \in Int, -n < r, r < n, n * q = r
  PROVE q = 0
<1>1. CASE q >= 1
  <2>1. n * q >= n BY <1>1
  <2> QED BY <2>1
<1>2. CASE q <= -1
  <2>1. n * q <= -n BY <1>2
  <2> QED BY <2>1
<1> QED BY <1>1, <1>2

(* A number and its remainder determine each other. *)
LEMMA Remainder ==
  ASSUME NEW n \in Nat \ {0}, NEW q \in Int, NEW r \in 0 .. n - 1
  PROVE  (n * q + r) % n = r
<1> DEFINE a == n * q + r
<1>1. a \in Int OBVIOUS
<1>2. a % n \in 0 .. n - 1 /\ a \div n \in Int /\ a = n * (a \div n) + (a % n)
  BY <1>1, Division
<1> DEFINE d == (a \div n) - q
           m == a % n
<1>3. n * d = r - m
   BY <1>2
<1>4. d = 0
   <2>1. d \in Int /\ r - m \in Int /\ -n < r - m /\ r - m < n BY <1>2
   <2> HIDE DEF d, m
   <2> QED BY <1>3, <2>1, NoMultiple
<1> QED BY <1>3, <1>4, <1>2

(* The offset in a block of p bytes is the same in a whole number of blocks. *)
LEMMA ModOfMod ==
  ASSUME NEW a \in Int, NEW s \in Nat \ {0}, NEW p \in Nat \ {0}, s % p = 0
  PROVE  (a % s) % p = a % p
<1>1. s = p * (s \div p) /\ s \div p \in Int BY Division
<1>2. a = s * (a \div s) + (a % s) /\ a \div s \in Int /\ a % s \in Int BY Division
<1>3. /\ a % s = p * ((a % s) \div p) + ((a % s) % p)
      /\ (a % s) \div p \in Int /\ (a % s) % p \in 0 .. p - 1
  BY <1>2, Division
<1> DEFINE k == s \div p
           q == a \div s
           m == (a % s) \div p
           r == (a % s) % p
<1>4. k \in Int /\ q \in Int /\ m \in Int /\ r \in 0 .. p - 1
  BY <1>1, <1>2, <1>3
<1>5. a = p * k * q + p * m + r
  <2>1. s = p * k /\ a % s = p * m + r BY <1>1, <1>3
  <2>2. a = s * q + (p * m + r) BY <1>2, <2>1
  <2> HIDE DEF k, q, m, r
  <2> QED BY <2>1, <2>2, <1>4
<1>6. a = p * (k * q + m) + r
  <2> HIDE DEF k, q, m, r
  <2> QED BY <1>4, <1>5
<1>7. a % p = r
  <2> HIDE DEF k, q, m, r
  <2> QED BY <1>4, <1>6, Remainder
<1> QED BY <1>7

(* The next block starts at the same offset. *)
LEMMA NextMultiple ==
  ASSUME NEW a \in Int, NEW n \in Nat \ {0}
  PROVE (a + n) % n = a % n
<1>1. a % n \in 0 .. n - 1 /\ a \div n \in Int /\ a = n * (a \div n) + (a % n) BY Division
<1> DEFINE q == a \div n
           r == a % n
<1>2. a + n = n * (q + 1) + r BY <1>1
<1> QED 
  <2> HIDE DEF q, r
  <2>1. q + 1 \in Int /\ r \in 0 .. n - 1 BY <1>1 DEF q, r
  <2>2. (a + n) % n = r BY <2>1, <1>2, Remainder
  <2> QED BY <2>2 DEF r

(* The bytes of a block do not cross the end of an area of whole blocks. *)
LEMMA InBlock ==
  ASSUME NEW a \in Int, NEW s \in Nat \ {0}, NEW p \in Nat \ {0}, s % p = 0, a % p = 0,
  NEW i \in 0 .. p - 1
  PROVE  (a + i) % s = (a % s) + i
<1>1. a % s \in 0 .. s - 1 /\ a \div s \in Int /\ a = s * (a \div s) + (a % s) BY Division
<1>2. (a % s) % p = 0 BY ModOfMod
<1> DEFINE r == a % s
<1>3. r = p * (r \div p) /\ r \div p \in Int
  <2>1. r = p * (r \div p) + (r % p) /\ r \div p \in Int BY <1>1, Division
  <2> QED BY <1>2, <2>1
<1>4. s = p * (s \div p) /\ s \div p \in Int BY Division
<1> DEFINE x == r \div p
           y == s \div p
           q == a \div s
<1>5. x < y
   <2>1. r < s /\ x \in Int /\ y \in Int /\ p * x = r /\ p * y = s BY <1>1, <1>3, <1>4
   <2> HIDE DEF x, y, r
   <2>2. SUFFICES ASSUME x >= y PROVE FALSE BY <2>1
   <2>3. p * x >= p * y BY <2>1, <2>2
   <2> QED BY <2>1, <2>3
<1>6. r + i <= s - 1
   <2>1. x \in Int /\ y \in Int /\ p * x = r /\ p * y = s BY <1>3, <1>4
   <2> HIDE DEF x, y, r
   <2>3. x + 1 <= y BY <2>1, <1>5
   <2>2. p * (x + 1) <= p * y BY <2>1, <2>3
   <2> QED BY <2>1, <2>2
<1>7. a + i = s * q + (r + i) BY <1>1
<1>8. q \in Int /\ r + i \in 0 .. s - 1 BY <1>1, <1>6
<1> HIDE DEF r, q
<1>9. (s * q + (r + i)) % s = r + i
  BY <1>8, Remainder
<1> QED BY <1>7, <1>9 DEF r

(* The page, or the chunk, after a block of the file. *)
LEMMA BlockAfter == \A a \in Nat, c \in {PageSize, AreaReadSize} : (a + c) % c = a % c
<1> SUFFICES ASSUME NEW a \in Nat, NEW c \in {PageSize, AreaReadSize} PROVE (a + c) % c = a % c
  OBVIOUS
<1>1. a \in Int /\ c \in Nat \ {0} BY SizesAssumption
<1> QED BY <1>1, NextMultiple

-----------------------------------------------------------------------------
(* THE INDUCTIVE INVARIANT *)

(* The chip holds what it is going to hold unless a write is in progress. *)
Steady == ~busy => mem = memNext /\ config = configNext

(* An operation that has succeeded leaves nothing behind. *)
AtRest ==
  pc = "idle" /\ result \in {"done", "true", "false"} =>
    Known(promId) /\ ~busy /\ control = "done"

(* The labels of the loops of program and verify over the file. *)
FileLoop == {"readChunk", "pageEnable", "programPage", "readStatus", "testStatus", "fastRead",
             "compare"}

(* The blocks of the file are whole and in step with the pages and chunks of the chip, up to *)
(* the last one, as long as no read has failed.                                              *)
InStep ==
  /\ ioErr => op \in {"program", "verify"} /\ pc \in FileLoop
  /\ op = "program" /\ pc \in FileLoop => pc \notin {"fastRead", "compare"}
  /\ op = "verify" /\ pc \in FileLoop => pc \in {"readChunk", "fastRead", "compare"}
  /\ op \in {"program", "verify"} /\ pc \in FileLoop \ {"readChunk"} => bread <= ChunkSize
  /\ op \in {"program", "verify"} /\ pc \in FileLoop /\ ~ioErr =>
       IF pc = "readChunk" THEN addr % ChunkSize = 0 \/ addr = file.len
       ELSE addr % ChunkSize = 0 /\ (bread = ChunkSize \/ addr + bread = file.len)

(* How a state is paced: by the writes of the chip and by the blocks of the file. *)
Paced == Steady /\ AtRest /\ InStep

(* What SpiProgrammerProofs proves of the types, the commands and the identifier. *)
BInv == IInv /\ Identified /\ Located

(* An operation that ends with an exception leaves the pace alone. *)
LEMMA PacedByReturn ==
  ASSUME Paced, NEW value, Return(value), UNCHANGED <<hw, call>>,
         value \in {"done", "true", "false"} => Known(promId) /\ ~busy /\ control = "done"
  PROVE  Paced'
BY DEF Paced, Steady, AtRest, InStep, FileLoop, Return, hw, call

(* Every step of the thread keeps the pace, ... *)
LEMMA PacedBySoftware == BInv /\ Paced /\ Software => Paced'
<1> SUFFICES ASSUME BInv, Paced, Software
             PROVE  Paced'
  OBVIOUS
<1>1. ASSUME NEW value \in Exceptions, Return(value), UNCHANGED <<hw, call>>
      PROVE  Paced'
  BY <1>1, PacedByReturn DEF Exceptions
<1>2. pc \notin {"idle", "probe1", "probe2", "checkId"} => Known(promId)
  BY DEF BInv, Identified
<1>3. ASSUME ~waiting, control = "done", ~busy, Known(promId), 
             NEW value, Return(value), UNCHANGED <<hw, call>>
      PROVE  Paced'
  BY <1>3, PacedByReturn
<1> USE DEF BInv, IInv, Paced, Steady, AtRest, InStep, FileLoop, ChunkSize, Handshake, At, Started, 
        hw, thread, call, locals, stack, chip
<1>4. CASE Poll
  <2>1. CASE TimedOut
    BY <1>1, <1>4, <2>1 DEF Poll, Exceptions
  <2>2. CASE ~TimedOut
    BY <1>4, <2>2 DEF Poll
  <2> QED BY <2>1, <2>2
<1>5. CASE ReadMemoryId
  BY <1>5 DEF ReadMemoryId, IdSteps, Transfer
<1>6. CASE CheckMemoryId
  <2>1. CASE PassesCheck(areaRead.id)
    BY <1>6, <2>1 DEF CheckMemoryId, Goto, TypeOK, Operation
  <2> QED BY <1>1, <1>6, <2>1 DEF CheckMemoryId, Exceptions
<1>7. CASE SelectMode
  <2>1. CASE Known(areaRead.id)
    BY <1>7, <2>1, Small, SizesAssumption DEF SelectMode, Goto, TypeOK, Operation, Position, InLoop
  <2> QED BY <1>1, <1>7, <2>1 DEF SelectMode, Exceptions
<1>8. CASE \/ MemoryWriteEnable \/ MemoryBulkErase \/ ReadStatus \/ ReadConfig \/ WriteConfig
           \/ ProgramMemoryPage \/ FastRead
  BY <1>8 DEF MemoryWriteEnable, Transfer, MemoryBulkErase, ReadStatus, ReadConfig, WriteConfig,
     ProgramMemoryPage, FastRead, TypeOK, Operation, Position, WithData, InLoop
<1>9. CASE OpenFile
  <2>1. CASE Goto("lookup1") /\ UNCHANGED stack
    BY <1>9, <2>1 DEF OpenFile, Goto
  <2> QED BY <1>1, <1>9, <2>1 DEF OpenFile, Exceptions
<1>10. CASE OpenDump
  <2>1. CASE Goto("fastRead") /\ UNCHANGED stack
    BY <1>10, <2>1 DEF OpenDump, Goto, Position
  <2> QED BY <1>1, <1>10, <2>1 DEF OpenDump, Exceptions
<1>11. CASE TestStatus
  <2>1. CASE InProgress
    BY <1>11, <2>1 DEF TestStatus, Goto
  <2>2. CASE ~InProgress /\ op = "erase"
    BY <1>2, <1>3, <1>11, <2>2 DEF TestStatus, InProgress, QuietWhereAssumed
  <2>3. CASE ~InProgress /\ op = "program"
    <3>1. ~ioErr /\ bread = PageSize => (addr + bread) % PageSize = addr % PageSize
      BY BlockAfter DEF TypeOK
    <3> QED
      BY <3>1, <1>11, <2>3 DEF TestStatus, NextBlock, Goto
  <2> QED BY <1>11, <2>1, <2>2, <2>3 DEF TestStatus
<1>12. CASE ReadChunk
  <2> DEFINE left == file.len - addr
             full == IF left < ChunkSize THEN left ELSE ChunkSize
  <2>1. /\ addr \in Nat /\ file.len \in Nat /\ addr <= file.len /\ ChunkSize \in Nat \ {0}
        /\ op \in {"program", "verify"} /\ pc = "readChunk"
    BY <1>12, SizesAssumption, FilesAssumption DEF ReadChunk, TypeOK, Position
  <2>2. ASSUME NEW n \in 0 .. full, n > 0,
               Goto(IF op = "program" THEN "pageEnable" ELSE "fastRead"),
               bread' = n, ioErr' = ReadFailed(n, full), UNCHANGED <<memId, addr>>
        PROVE  Paced'
    <3>1. n <= ChunkSize /\ n <= left /\ addr # file.len
      BY <2>1, <2>2
    <3>2. ~ioErr' => ~ioErr /\ (n = ChunkSize \/ addr + n = file.len)
      <4>1. ~ioErr' => ~ioErr /\ ~(n < full)
        BY Zenon, <2>2 DEF ReadFailed
      <4> QED BY <2>1, <2>2, <4>1
    <3>3. ~ioErr' => addr % ChunkSize = 0
      BY <2>1, <3>1, <3>2
    <3>4. /\ UNCHANGED <<op, file, busy, mem, memNext, config, configNext>>
          /\ pc' \in {"pageEnable", "fastRead"}
          /\ pc' = (IF op = "program" THEN "pageEnable" ELSE "fastRead")
      BY <1>12, <2>2 DEF ReadChunk, Goto
    <3> QED BY <2>1, <2>2, <3>1, <3>2, <3>3, <3>4
  <2>3. CASE Return("ReadError")
    BY <1>1, <1>12, <2>3 DEF ReadChunk, Exceptions
  <2>4. ASSUME NEW value, Return(value) PROVE Paced'
    BY <1>2, <1>3, <1>12, <2>4 DEF ReadChunk, QuietWhereAssumed, QuietLabels
  <2> QED BY <1>12, <2>2, <2>3, <2>4 DEF ReadChunk
<1>13. CASE Compare
  <2>1. CASE Same
    <3>1. ~ioErr /\ bread = AreaReadSize => (addr + bread) % AreaReadSize = addr % AreaReadSize
      BY BlockAfter DEF TypeOK
    <3> QED
      BY <3>1, <1>13, <2>1 DEF Compare, NextBlock, Goto, Position
  <2>2. CASE ~Same
    BY <1>2, <1>3, <1>13, <2>2 DEF Compare, QuietWhereAssumed, QuietLabels
  <2> QED BY <2>1, <2>2
<1>14. CASE Store
  <2>1. ASSUME NEW value, Return(value) PROVE Paced'
    BY <1>2, <1>3, <1>14, <2>1 DEF Store, QuietWhereAssumed, QuietLabels
  <2>2. CASE Goto("fastRead") /\ UNCHANGED <<memId, bread, ioErr>>
    BY <1>14, <2>2 DEF Store, Goto, Position
  <2> QED BY <1>14, <2>1, <2>2 DEF Store
<1> QED
  BY <1>4, <1>5, <1>6, <1>7, <1>8, <1>9, <1>10, <1>11, <1>12, <1>13, <1>14
     DEF Software

(* ... so does every step of the hardware, ... *)
LEMMA PacedByHardware == BInv /\ Paced /\ Hardware => Paced'
<1> SUFFICES ASSUME BInv, Paced, Hardware
             PROVE  Paced'
  OBVIOUS
<1>1. UNCHANGED <<thread, call, locals, result, promId>>
  BY DEF Hardware, WriteDone, Execute, regs
<1>2. InStep'
  BY <1>1 DEF Paced, InStep, FileLoop, ChunkSize, thread, call, locals, stack
<1>3. Steady'
  BY DEF Hardware, WriteDone, Execute, ExecReadId, ExecReadStatus, ExecReadConfig, ExecFastRead,
     ExecWriteEnable,
         ExecBulkErase, ExecWriteRegisters, ExecPageProgram, Accepted, Paced, Steady
<1>4. AtRest'
  BY <1>1 DEF Hardware, WriteDone, Execute, Started, Paced, AtRest, thread
<1> QED
  BY <1>2, <1>3, <1>4 DEF Paced

(* ... and so does a call or a kill. *)
LEMMA PacedByCall == BInv /\ Paced /\ (Call \/ Kill) => Paced'
<1>1. ASSUME BInv, Paced, Kill PROVE Paced'
  BY <1>1, PacedByReturn DEF Kill
<1>2. ASSUME BInv, Paced, Call PROVE Paced'
  <2>1. pc = "idle" /\ pc' = "probe1" /\ UNCHANGED <<hw, stack>>
    BY <1>2 DEF Call, CallErase, CallProgram, CallVerify, CallDump, Begin
  <2> QED
    BY <1>2, <2>1 DEF Paced, Steady, AtRest, InStep, FileLoop, hw, stack
<1> QED
  BY <1>1, <1>2

-----------------------------------------------------------------------------
(* THE TRANSFERS *)

(* What a transfer that is under way carries, ... *)
PageSent ==
  pc = "readStatus" /\ op = "program" /\ Started =>
    /\ areaWrite.op = PageProgramOp(ChipMode)
    /\ areaWrite.addr = addr % Span(ChipMode)
    /\ bytesToWrite = bread + AddrLen(ChipMode)
    /\ \A i \in PageIndex : i < bread => areaWrite.data[i] = file.byte[addr + i]

(* ... for a page that is programmed and for a chunk that is read. *)
ReadSent ==
  pc \in {"compare", "store"} /\ Started =>
    /\ Reading
    /\ areaWrite.op = FastReadOp(ChipMode)
    /\ areaWrite.addr = addr % Span(ChipMode)
    /\ bytesToWrite = AddrLen(ChipMode) + 1
    /\ bytesToRead = ReadLength

(* ... and what it has brought. *)
ReadAnswered ==
  pc \in {"compare", "store"} /\ ~Started =>
    \A i \in ReadIndex : i <= ReadLength =>
      areaRead.data[i] = mem[((addr % Span(ChipMode)) + i) % FlashSize]

(* All that is known of a transfer. *)
Sent == PageSent /\ ReadSent /\ ReadAnswered

(* What the thread writes into the registers is what it means to send, ... *)
LEMMA SentBySoftware == BInv /\ Sent /\ Software => Sent'
<1> SUFFICES ASSUME BInv, Sent, Software
             PROVE  Sent'
  OBVIOUS
<1> USE DEF BInv, IInv, Sent
<1>1. ASSUME pc' \notin {"readStatus", "compare", "store"}
      PROVE  Sent'
  BY <1>1 DEF PageSent, ReadSent, ReadAnswered
<1>2. pc \in InLoop => memId = promId
  BY DEF Located, InLoop
<1>3. CASE Poll
  <2>1. CASE TimedOut
    BY <1>1, <1>3, <2>1 DEF Poll, Return
  <2>2. CASE ~TimedOut
    BY <1>3, <2>2 DEF Poll, PageSent, ReadSent, ReadAnswered, Started, Reading, ReadLength,
       ChipMode, hw, call, stack
  <2> QED
    BY <2>1, <2>2
<1>4. CASE MemoryBulkErase
  BY <1>4 DEF MemoryBulkErase, Transfer, call, At, Position, PageSent, ReadSent, ReadAnswered
<1>5. CASE TestStatus
  <2>1. control = "done" /\ UNCHANGED hw /\ pc' \notin {"compare", "store"}
    BY <1>5 DEF TestStatus, At, Handshake, NextBlock, Goto, Return
  <2> QED
    BY <2>1 DEF PageSent, ReadSent, ReadAnswered, Started, hw
<1>6. CASE ProgramMemoryPage
  <2>1. /\ pc' = "readStatus" /\ promId' = promId /\ memId = promId
        /\ UNCHANGED <<op, file, addr, bread>>
    BY <1>2, <1>6 DEF ProgramMemoryPage, Transfer, At, InLoop, chip, call, locals, stack
  <2>2. ChipMode' = Mode
    BY <2>1 DEF ChipMode, Mode
  <2>3. areaWrite' = [Frame(PageProgramOp(Mode)) EXCEPT !.addr = addr % Span(Mode),
                       !.data = [i \in PageIndex |->
                                   IF i < bread THEN file.byte[addr + i] ELSE @[i]]]
    BY <1>6 DEF ProgramMemoryPage, Transfer
  <2>4. /\ areaWrite'.op = PageProgramOp(Mode) /\ areaWrite'.addr = addr % Span(Mode)
        /\ \A i \in PageIndex : i < bread => areaWrite'.data[i] = file.byte[addr + i]
    BY <2>3 DEF Frame
  <2>5. bytesToWrite' = bread + AddrLen(Mode)
    BY <1>6, ModeTypes DEF ProgramMemoryPage, PageLength, TypeOK
  <2> QED
    BY <2>1, <2>2, <2>4, <2>5 DEF PageSent, ReadSent, ReadAnswered
<1>7. CASE FastRead
  <2>1. /\ pc' # "readStatus" /\ promId' = promId /\ memId = promId
        /\ UNCHANGED <<op, file, addr, bread>>
    BY <1>2, <1>7 DEF FastRead, Transfer, At, InLoop, chip, call, locals, stack
  <2>2. ChipMode' = Mode
    BY <2>1 DEF ChipMode, Mode
  <2>3. areaWrite' = [Frame(FastReadOp(Mode)) EXCEPT !.addr = addr % Span(Mode)]
    BY <1>7 DEF FastRead, Transfer
  <2>4. areaWrite'.op = FastReadOp(Mode) /\ areaWrite'.addr = addr % Span(Mode)
    BY <2>3 DEF Frame
  <2>5. bytesToWrite' = AddrLen(Mode) + 1 /\ bytesToRead' = ReadLength /\ ReadLength' = ReadLength
        /\ control' = "startRead"
    BY <1>7, <2>1 DEF FastRead, ReadLength, Transfer
  <2> QED
    BY <2>1, <2>2, <2>4, <2>5 DEF PageSent, ReadSent, ReadAnswered, Started, Reading
<1>8. CASE \/ ReadMemoryId \/ CheckMemoryId \/ SelectMode \/ MemoryWriteEnable \/ ReadStatus
           \/ ReadConfig \/ WriteConfig \/ OpenFile \/ OpenDump \/ ReadChunk \/ Compare \/ Store
  <2>1. pc' \notin {"readStatus", "compare", "store"}
    BY <1>8 DEF ReadMemoryId, IdSteps, CheckMemoryId, SelectMode, MemoryWriteEnable, ReadStatus,
       ReadConfig,
      WriteConfig, OpenFile, OpenDump, ReadChunk, Compare, Store, NextBlock, Transfer, Goto,
      Return, TypeOK, Operation
  <2> QED
    BY <1>1, <2>1
<1> QED
  BY <1>3, <1>4, <1>5, <1>6, <1>7, <1>8 DEF Software

(* ... the answer to a read is from the address that was sent, ... *)
LEMMA ReadExecuted ==
  ASSUME BInv, Sent, Execute, pc \in {"compare", "store"}, UNCHANGED <<thread, call, locals,
  result>>
  PROVE  ReadAnswered'
<1> USE DEF BInv, IInv
<1>1. /\ areaWrite.op = FastReadOp(ChipMode) /\ Reading /\ ~busy
      /\ areaWrite.addr = addr % Span(ChipMode) /\ bytesToRead = ReadLength
      /\ bytesToWrite = AddrLen(ChipMode) + 1
  BY DEF Execute, Sent, ReadSent, QuietWhereAssumed, QuietLabels
<1>2. ExecFastRead
  BY <1>1 DEF Execute, FastReadOp, ExecReadId, ExecReadStatus, ExecReadConfig, ExecWriteEnable,
      ExecBulkErase, ExecWriteRegisters, ExecPageProgram, PageProgramOps
<1>3. FrameLength = AddressBytes(areaWrite.op) + 2
  BY <1>1 DEF FrameLength, AddressBytes, FastReadOp, AddrLen
<1> DEFINE answered == ~busy /\ FrameLength = AddressBytes(areaWrite.op) + 2
           Answer(i) == IF answered /\ i <= bytesToRead
                        THEN mem[(areaWrite.addr + i) % FlashSize] ELSE Erased
<1>4. areaRead'.data = [i \in ReadIndex |-> Answer(i)]
  BY <1>1, <1>2 DEF ExecFastRead, NoAnswer
<1>5. \A i \in ReadIndex : i <= ReadLength =>
         areaRead'.data[i] = mem[((addr % Span(ChipMode)) + i) % FlashSize]
  BY <1>1, <1>3, <1>4
<1>6. UNCHANGED <<mem, op, bread, addr, promId>>
  BY <1>2 DEF ExecFastRead, Execute, call, locals, stack
<1>7. ChipMode' = ChipMode /\ ReadLength' = ReadLength
  BY <1>6 DEF ChipMode, ReadLength
<1> QED
  BY <1>5, <1>6, <1>7 DEF ReadAnswered

(* ... so that every step of the hardware keeps what is known of a transfer, ... *)
LEMMA SentByHardware == BInv /\ Sent /\ Hardware => Sent'
<1> SUFFICES ASSUME BInv, Sent, Hardware
             PROVE  Sent'
  OBVIOUS
<1>1. CASE Execute
  <2>1. ~Started' /\ pc' = pc
    BY <1>1 DEF Hardware, Execute, Started, thread
  <2>2. pc \in {"compare", "store"} => ReadAnswered'
    BY <1>1, ReadExecuted DEF Hardware
  <2> QED
    BY <2>1, <2>2 DEF Sent, PageSent, ReadSent, ReadAnswered
<1>2. CASE WriteDone
  <2>1. pc \notin {"compare", "store"}
    BY <1>2 DEF WriteDone, BInv, IInv, QuietWhereAssumed, QuietLabels
  <2> QED
    BY <1>2, <2>1 DEF WriteDone, Hardware, Sent, PageSent, ReadSent, ReadAnswered, Started,
       ChipMode, regs, thread, call, locals, stack
<1> QED
  BY <1>1, <1>2 DEF Hardware

(* ... and no transfer is awaited after a call or a kill. *)
LEMMA SentByCall == BInv /\ Sent /\ (Call \/ Kill) => Sent'
<1>1. ASSUME Call \/ Kill PROVE pc' \in {"idle", "probe1"}
  BY <1>1 DEF Call, CallErase, CallProgram, CallVerify, CallDump, Begin, Kill, Return
<1> QED
  BY <1>1 DEF Sent, PageSent, ReadSent, ReadAnswered

-----------------------------------------------------------------------------
(* WHAT THE STEPS HAVE IN COMMON *)

(* The thread changes neither the chip nor the request. *)
LEMMA SoftwareLeaves == Software => UNCHANGED <<chip, call>>
<1>1. Poll \/ CheckMemoryId \/ SelectMode \/ TestStatus \/ OpenFile \/ OpenDump \/ ReadChunk
        \/ Compare \/ Store
        => UNCHANGED <<hw, call>>
  BY DEF Poll, CheckMemoryId, SelectMode, TestStatus, OpenFile, OpenDump, ReadChunk, Compare, Store
<1>2. ReadMemoryId \/ MemoryWriteEnable \/ MemoryBulkErase \/ ReadStatus \/ ReadConfig \/ WriteConfig
        \/ ProgramMemoryPage \/ FastRead
        => UNCHANGED <<chip, call>>
  BY DEF ReadMemoryId, MemoryWriteEnable, MemoryBulkErase, ReadStatus, ReadConfig, WriteConfig,
         ProgramMemoryPage, FastRead, Transfer
<1> QED
  BY <1>1, <1>2 DEF Software, hw, chip

(* An operation ends with an exception but in four places. *)
LEMMA Endings ==
  ASSUME IInv, Software, pc' = "idle"
  PROVE  \/ result' \in Exceptions
         \/ TestStatus /\ op = "erase" /\ result' = "done"
         \/ ReadChunk /\ result' = (IF op = "program" THEN "done" ELSE "true")
         \/ Compare /\ ~Same /\ result' = "false"
         \/ Store /\ result' = "true"
<1> USE DEF IInv, Handshake, At, Goto, Return, Exceptions
<1>1. ~(\/ ReadMemoryId \/ MemoryWriteEnable \/ MemoryBulkErase \/ ReadStatus \/ ReadConfig
        \/ WriteConfig \/ ProgramMemoryPage \/ FastRead)
  BY DEF ReadMemoryId, IdSteps, MemoryWriteEnable, MemoryBulkErase, ReadStatus, ReadConfig,
         WriteConfig, ProgramMemoryPage, FastRead, Transfer
<1>2. CASE Poll \/ CheckMemoryId \/ SelectMode \/ OpenFile \/ OpenDump
  BY <1>2 DEF Poll, CheckMemoryId, SelectMode, OpenFile, OpenDump, TypeOK, Operation
<1>3. CASE TestStatus
  BY <1>3 DEF TestStatus, NextBlock
<1>4. CASE ReadChunk
  BY <1>4 DEF ReadChunk
<1>5. CASE Compare
  BY <1>5 DEF Compare, NextBlock
<1>6. CASE Store
  BY <1>6 DEF Store
<1> QED
  BY <1>1, <1>2, <1>3, <1>4, <1>5, <1>6 DEF Software

(* The hardware leaves the thread and the request alone, and the chip where it is idle. *)
LEMMA HardwareLeaves ==
  Hardware => /\ UNCHANGED <<thread, call, locals, result, promId>>
              /\ ~busy => UNCHANGED <<mem, config>>
BY DEF Hardware, WriteDone, Execute, ExecReadId, ExecReadStatus, ExecReadConfig, ExecFastRead,
   ExecWriteEnable,
       ExecBulkErase, ExecWriteRegisters, ExecPageProgram, regs

(* The hardware rests after a success. *)
LEMMA RestingHardware ==
  ASSUME Paced, pc = "idle", result \in {"done", "true", "false"}
  PROVE  ~Hardware
BY DEF Paced, AtRest, Hardware, Execute, Started, WriteDone

(* A call or a kill ends in a state without an answer. *)
LEMMA CallLeaves ==
  Call \/ Kill => UNCHANGED hw /\ ((pc' = "probe1" /\ Call) \/ (pc' = "idle" /\ result' = "killed"))
BY DEF Call, CallErase, CallProgram, CallVerify, CallDump, Begin, Kill, Return

(* A block of the file is read until the file has been read to its end. *)
LEMMA BlockRead ==
  ASSUME IInv, ReadChunk
  PROVE  \/ pc' \in FileLoop /\ UNCHANGED <<addr, memId>> /\ (~ioErr' => ~ioErr) /\ bread' > 0
         \/ Return("ReadError")
         \/ Return(IF op = "program" THEN "done" ELSE "true") /\ ~ioErr /\ addr = file.len
<1> DEFINE left == file.len - addr
           full == IF left < ChunkSize THEN left ELSE ChunkSize
<1>1. /\ addr \in Nat /\ file.len \in Nat /\ addr <= file.len /\ ChunkSize \in Nat \ {0}
  BY SizesAssumption, FilesAssumption DEF ReadChunk, At, IInv, TypeOK, Position, ChunkSize
<1>2. \A n \in 0 .. full : ~ReadFailed(n, full) => ~ioErr /\ ~(n < full)
  BY Zenon DEF ReadFailed
<1>3. PICK n \in 0 .. full :
         \/ /\ n > 0
            /\ Goto(IF op = "program" THEN "pageEnable" ELSE "fastRead")
            /\ bread' = n
            /\ ioErr' = ReadFailed(n, full)
            /\ UNCHANGED <<memId, addr>>
         \/ /\ n = 0
            /\ Return(IF ReadFailed(n, full) THEN "ReadError"
                      ELSE IF op = "program" THEN "done" ELSE "true")
  BY DEF ReadChunk
<1>4. ~(0 < full) => addr = file.len
  BY <1>1
<1>5. CASE n > 0
  BY <1>2, <1>3, <1>5 DEF Goto, FileLoop
<1>6. CASE n = 0 /\ ReadFailed(n, full)
  BY <1>3, <1>6
<1>7. CASE n = 0 /\ ~ReadFailed(n, full)
  BY <1>2, <1>3, <1>4, <1>7
<1> QED
  BY <1>5, <1>6, <1>7, <1>1

-----------------------------------------------------------------------------
(* VERIFY *)

(* Image byte k is in its cell. *)
InChip(k) == mem[Cell(ChipMode, k)] = file.byte[k]

(* What verify has gone past is as in the file. *)
Compared == op = "verify" /\ pc \in FileLoop /\ ~ioErr => \A k \in 0 .. addr - 1 : InChip(k)

(* The bytes of a chunk come from the cells of the bytes of the image. *)
LEMMA ChunkIsFromItsCells ==
  ASSUME BInv, Paced, Sent, Compare, ~ioErr \/ file.len <= Span(ChipMode), NEW i \in 0 .. bread - 1
  PROVE  areaRead.data[i] = mem[Cell(ChipMode, addr + i)]
<1> USE DEF BInv, IInv
<1>1. /\ pc = "compare" /\ ~Started /\ op = "verify"
      /\ addr \in Nat /\ bread \in Nat /\ file.len \in Nat /\ addr + bread <= file.len
      /\ bread <= AreaReadSize
  BY FilesAssumption DEF Compare, At, Handshake, Started, Position, WithData, TypeOK, Paced,
     InStep, FileLoop,
     ChunkSize
<1>2. i \in ReadIndex /\ i <= ReadLength
  BY <1>1, SizesAssumption DEF ReadIndex, ReadLength
<1>3. areaRead.data[i] = mem[((addr % Span(ChipMode)) + i) % FlashSize]
  BY <1>1, <1>2 DEF Sent, ReadAnswered
<1>4. Span(ChipMode) \in Nat \ {0} /\ Span(ChipMode) % AreaReadSize = 0
  BY SpanAssumption DEF Span
<1>5. (addr + i) % Span(ChipMode) = (addr % Span(ChipMode)) + i
  <2>1. CASE ~ioErr
    <3>1. addr % AreaReadSize = 0
      BY <1>1, <2>1 DEF Paced, InStep, FileLoop, ChunkSize
    <3>2. addr \in Int /\ AreaReadSize \in Nat \ {0} /\ i \in 0 .. AreaReadSize - 1
      BY <1>1, <1>2, SizesAssumption DEF ReadIndex
    <3> HIDE DEF BInv, IInv
    <3> QED
      BY ONLY <1>4, <3>1, <3>2, InBlock
  <2>2. CASE file.len <= Span(ChipMode)
    BY <1>1, <1>4, <2>2, Small
  <2> QED
    BY <2>1, <2>2
<1> QED
  BY <1>3, <1>5 DEF Cell

(* A chunk that differs from the file differs in a byte of the image. *)
LEMMA MismatchIsReal ==
  ASSUME BInv, Paced, Sent, Compare, ~ioErr \/ file.len <= Span(ChipMode), ~Same
  PROVE  \E k \in 0 .. file.len - 1 : ~InChip(k)
<1>1. addr \in Nat /\ bread \in Nat /\ addr + bread <= file.len /\ file.len \in Nat
  BY FilesAssumption DEF BInv, IInv, Compare, At, TypeOK, Position, WithData
<1>2. PICK i \in 0 .. bread - 1 : areaRead.data[i] # file.byte[addr + i]
  BY DEF Same
<1>3. ~InChip(addr + i)
  BY <1>2, ChunkIsFromItsCells DEF InChip
<1>4. addr + i \in 0 .. file.len - 1
  BY <1>1
<1> QED
  BY <1>3, <1>4

(* The thread goes on only where the chunk is as in the file, ... *)
LEMMA ComparedBySoftware ==
  ASSUME BInv, Paced, Sent, Compared, VerifyIsRight, Software
  PROVE  Compared' /\ VerifyIsRight'
<1> USE DEF BInv, IInv
<1>1. UNCHANGED <<mem, promId, op, file>>
  BY SoftwareLeaves DEF chip, call
<1>2. \A k : InChip(k)' = InChip(k)
  BY <1>1 DEF InChip, ChipMode
<1>3. CASE Compare
  <2>1. /\ pc = "compare" /\ op = "verify" /\ addr \in Nat /\ bread \in Nat
        /\ addr + bread <= file.len /\ file.len \in Nat
    BY <1>3, FilesAssumption DEF Compare, At, TypeOK, Position, WithData
  <2>2. CASE Same
    <3>1. pc' = "readChunk" /\ addr' = addr + bread /\ ioErr' = ioErr
      BY <1>3, <2>2 DEF Compare, NextBlock, Goto
    <3>2. ASSUME ~ioErr, NEW k \in 0 .. addr + bread - 1 PROVE InChip(k)
      <4>1. CASE k < addr
        BY <2>1, <3>2, <4>1 DEF Compared, FileLoop
      <4>2. CASE k >= addr
        <5>1. PICK i \in 0 .. bread - 1 : k = addr + i
          <6>1. k - addr \in 0 .. bread - 1 /\ k = addr + (k - addr)
            BY <2>1, <4>2
          <6> QED
            BY <6>1
        <5> QED
          BY <1>3, <2>2, <3>2, <5>1, ChunkIsFromItsCells DEF Same, InChip
      <4> QED
        BY <2>1, <4>1, <4>2
    <3>3. VerifyIsRight'
      BY <3>1 DEF VerifyIsRight, Returned
    <3>4. ~ioErr => \A k \in 0 .. addr' - 1 : InChip(k)'
      <4>1. ~ioErr => \A k \in 0 .. addr + bread - 1 : InChip(k)
        BY <3>2
      <4>2. 0 .. addr' - 1 = 0 .. addr + bread - 1
        BY <2>1, <3>1
      <4> QED
        BY Zenon, <1>2, <4>1, <4>2
    <3>5. Compared'
      <4>1. ~ioErr' => ~ioErr
        BY Zenon, <3>1
      <4> QED
        BY <3>4, <4>1 DEF Compared
    <3> QED
      BY <3>3, <3>5
  <2>3. CASE ~Same
    <3>1. pc' = "idle" /\ result' = "false"
      BY <1>3, <2>3 DEF Compare, Return
    <3>5. file'.len = file.len /\ Span(ChipMode)' = Span(ChipMode)
      BY <1>1 DEF ChipMode
    <3>6. file'.len <= Span(ChipMode)' => \E k \in 0 .. file'.len - 1 : ~InChip(k)'
      BY <1>2, <1>3, <2>3, <3>5, MismatchIsReal
    <3> QED
      BY <3>1, <3>6 DEF Compared, FileLoop, VerifyIsRight, Returned, InChip
  <2> QED
    BY <2>2, <2>3
<1>4. CASE ReadChunk
  <2>1. CASE pc' \in FileLoop /\ UNCHANGED addr /\ (~ioErr' => ~ioErr)
    BY <1>1, <1>2, <1>4, <2>1 DEF ReadChunk, At, Compared, FileLoop, VerifyIsRight, Returned
  <2>2. CASE Return("ReadError")
    BY <2>2 DEF Return, Compared, FileLoop, VerifyIsRight, Returned
  <2>3. CASE Return(IF op = "program" THEN "done" ELSE "true") /\ ~ioErr /\ addr = file.len
    <3>1. op = "verify" => \A k \in 0 .. file.len - 1 : InChip(k)
      BY <1>4, <2>3 DEF Compared, ReadChunk, At, FileLoop
    <3> QED
      BY <1>1, <1>2, <2>3, <3>1 DEF Return, Compared, FileLoop, VerifyIsRight, Returned, InChip
  <2> QED
    BY <1>4, <2>1, <2>2, <2>3, BlockRead
<1>5. CASE ~Compare /\ ~ReadChunk
  <2>1. op = "verify" /\ pc' = "idle" => result' \notin {"true", "false"}
    BY <1>5, Endings DEF Exceptions, Store, At, Position
  <2>2. op = "verify" /\ pc' \in FileLoop =>
          addr' = 0 \/ (addr' = addr /\ ioErr' = ioErr /\ pc \in FileLoop)
    BY <1>5 DEF Software, Poll, ReadMemoryId, IdSteps, CheckMemoryId, SelectMode, MemoryWriteEnable,
       MemoryBulkErase, ReadStatus, TestStatus, ReadConfig, WriteConfig, OpenFile, OpenDump,
       ProgramMemoryPage, FastRead, Store, Transfer, Goto, Return, At, NextBlock, Position,
       InLoop, FileLoop, Paced, InStep,
       locals, stack, hw, call, Handshake, TypeOK, Operation
  <2> QED
    BY <1>1, <1>2, <2>1, <2>2 DEF Compared, VerifyIsRight, Returned, InChip
<1> QED
  BY <1>3, <1>4, <1>5

(* ... the hardware changes nothing under a verify, ... *)
LEMMA ComparedByHardware ==
  ASSUME BInv, Paced, Compared, VerifyIsRight, Hardware
  PROVE  Compared' /\ VerifyIsRight'
<1>1. UNCHANGED <<thread, call, locals, result, promId>> /\ (~busy => mem' = mem)
  BY HardwareLeaves
<1>2. op = "verify" /\ pc \in FileLoop => ~busy
  BY DEF Paced, InStep, BInv, IInv, QuietWhereAssumed, QuietLabels
<1>3. pc = "idle" => result \notin {"true", "false"}
  BY RestingHardware
<1> QED
  BY <1>1, <1>2, <1>3 DEF Compared, VerifyIsRight, Returned, InChip, ChipMode, thread, call,
     locals, stack

(* ... and a call or a kill answers nothing. *)
LEMMA ComparedByCall ==
  ASSUME Compared, VerifyIsRight, Call \/ Kill
  PROVE  Compared' /\ VerifyIsRight'
BY CallLeaves DEF Compared, VerifyIsRight, Returned, FileLoop

-----------------------------------------------------------------------------
(* DUMP *)

(* What dump has written so far is what the chip holds. *)
Dumped ==
  op = "dump" /\ pc \in {"fastRead", "store"} =>
    \A k \in 0 .. addr - 1 :
      k \in DumpIndex /\ k < Span(ChipMode) /\ k < FlashSize => dumped[k] = mem[k]

(* A chunk is written where it has been read. *)
LEMMA ChunkIsStoredInPlace ==
  ASSUME BInv, Sent, Dumped, Store,
         NEW k \in 0 .. (addr + AreaReadSize) - 1,
         k \in DumpIndex, k < Span(ChipMode), k < FlashSize
  PROVE  dumped'[k] = mem[k]
<1> USE DEF BInv, IInv
<1>1. pc = "store" /\ op = "dump" /\ ~Started /\ addr \in Nat /\ AreaReadSize \in Nat \ {0}
  BY SizesAssumption DEF Store, At, Handshake, Started, Position, TypeOK
<1>2. dumped'[k] = IF k - addr \in ReadIndex THEN areaRead.data[k - addr] ELSE dumped[k]
  BY DEF Store
<1>3. CASE k < addr
  <2>1. k - addr \notin ReadIndex
    BY <1>1, <1>3 DEF ReadIndex
  <2>2. dumped[k] = mem[k]
    BY <1>1, <1>3 DEF Dumped
  <2> QED
    BY <1>2, <2>1, <2>2
<1>4. CASE k >= addr
  <2> DEFINE i == k - addr
  <2>1. i \in ReadIndex /\ i <= ReadLength
    BY <1>1, <1>4 DEF ReadIndex, ReadLength
  <2>2. areaRead.data[i] = mem[((addr % Span(ChipMode)) + i) % FlashSize]
    <3> HIDE DEF i
    <3> QED
      BY <1>1, <2>1 DEF Sent, ReadAnswered
  <2>3. addr % Span(ChipMode) = addr
    <3>1. Span(ChipMode) \in Nat \ {0}
      BY ModeTypes
    <3>2. addr < Span(ChipMode)
      BY <1>1, <1>4, <3>1
    <3> QED
      BY <1>1, <3>1, <3>2, Small
  <2>4. addr + i = k
    BY <1>1
  <2>5. k % FlashSize = k
    BY Small, SizesAssumption, <1>1
  <2> QED
    BY <1>2, <2>1, <2>2, <2>3, <2>4, <2>5
<1> QED
  BY <1>1, <1>3, <1>4

(* The thread writes the dump chunk by chunk, ... *)
LEMMA DumpedBySoftware ==
  ASSUME BInv, Sent, Dumped, DumpIsRight, Software
  PROVE  Dumped' /\ DumpIsRight'
<1> USE DEF BInv, IInv
<1>1. UNCHANGED <<mem, promId, op, dumpSize>>
  BY SoftwareLeaves DEF chip, call
<1>2. Span(ChipMode)' = Span(ChipMode)
  BY <1>1 DEF ChipMode
<1>3. CASE Store
  <2> DEFINE stored == addr + AreaReadSize
  <2>1. \A k \in 0 .. stored - 1 :
          k \in DumpIndex /\ k < Span(ChipMode) /\ k < FlashSize => dumped'[k] = mem[k]
    BY <1>3, ChunkIsStoredInPlace
  <2>2. CASE Return("WriteError")
    BY <2>2 DEF Return, Dumped, DumpIsRight, Returned
  <2>3. CASE Goto("fastRead") /\ addr' = stored
    <3>1. Dumped'
      BY <1>1, <1>2, <2>1, <2>3 DEF Dumped
    <3> QED
      BY <2>3, <3>1 DEF Goto, DumpIsRight, Returned
  <2>4. CASE stored >= dumpSize /\ Return("true")
    <3>1. /\ dumpSize \in Nat /\ AreaReadSize \in Nat /\ DumpCapacity \in Nat /\ addr \in Nat
          /\ dumpSize + AreaReadSize <= DumpCapacity
      BY SizesAssumption, DumpAssumption DEF TypeOK
    <3>2. \A k \in DumpIndex : k < dumpSize \/ k < AreaReadSize => k \in 0 .. stored - 1
      BY <2>4, <3>1 DEF DumpIndex
    <3>3. \A k \in DumpIndex :
            /\ k < dumpSize \/ k < AreaReadSize
            /\ k < Span(ChipMode) /\ k < FlashSize
            => dumped'[k] = mem[k]
      BY <2>1, <3>2
    <3> QED
      BY <1>1, <1>2, <2>4, <3>3 DEF Return, Dumped, DumpIsRight, Returned
  <2> QED
    BY <1>3, <2>2, <2>3, <2>4 DEF Store
<1>4. CASE ~Store
  <2>1. op = "dump" /\ pc' = "idle" => result' # "true"
    BY <1>4, Endings DEF Exceptions, ReadChunk, At, Position
  <2>2. op = "dump" /\ pc' \in {"fastRead", "store"} =>
          addr' = 0 \/ (UNCHANGED <<addr, dumped>> /\ pc \in {"fastRead", "store"})
    BY <1>4 DEF Software, Poll, ReadMemoryId, IdSteps, CheckMemoryId, SelectMode,
       MemoryWriteEnable, MemoryBulkErase, ReadStatus, TestStatus, ReadConfig, WriteConfig,
       OpenFile, OpenDump, ReadChunk, ProgramMemoryPage, FastRead, Compare, Transfer, Goto, Return,
       At, NextBlock, Position, InLoop, locals, stack, TypeOK, Operation
  <2> QED
    BY <1>1, <1>2, <2>1, <2>2 DEF Dumped, DumpIsRight, Returned
<1> QED
  BY <1>3, <1>4

(* ... the hardware changes nothing under a dump, ... *)
LEMMA DumpedByHardware ==
  ASSUME BInv, Paced, Dumped, DumpIsRight, Hardware
  PROVE  Dumped' /\ DumpIsRight'
<1>1. UNCHANGED <<thread, call, locals, result, promId>> /\ (~busy => mem' = mem)
  BY HardwareLeaves
<1>2. pc \in {"fastRead", "store"} => ~busy
  BY DEF BInv, IInv, QuietWhereAssumed, QuietLabels
<1>3. pc = "idle" => result # "true"
  BY RestingHardware
<1> QED
  BY <1>1, <1>2, <1>3 DEF Dumped, DumpIsRight, Returned, ChipMode, thread, call, locals, stack

(* ... and a call or a kill answers nothing. *)
LEMMA DumpedByCall ==
  ASSUME Dumped, DumpIsRight, Call \/ Kill
  PROVE  Dumped' /\ DumpIsRight'
BY CallLeaves DEF Dumped, DumpIsRight, Returned

-----------------------------------------------------------------------------
(* THE PAGES OF PROGRAM *)

(* Nothing is programmed across the end of a page as long as the file is read as it is. *)
LEMMA PageStays == BInv /\ Paced /\ Sent => PageProgramStaysInPage
<1> SUFFICES ASSUME BInv, Paced, Sent, Started, waiting, areaWrite.op \in PageProgramOps, ~ioErr
             PROVE  (areaWrite.addr % PageSize) + DataBytes <= PageSize
  BY DEF PageProgramStaysInPage
<1> USE DEF BInv, IInv
<1>1. pc = "readStatus" /\ op = "program"
  BY DEF AwaitsItsCommand, Awaited, PageProgramOps, FastReadOps, Position, TypeOK
<1>2. /\ areaWrite.op = PageProgramOp(ChipMode)
      /\ areaWrite.addr = addr % Span(ChipMode)
      /\ bytesToWrite = bread + AddrLen(ChipMode)
  BY <1>1 DEF Sent, PageSent
<1>3. addr \in Nat /\ bread \in Nat /\ addr % PageSize = 0 /\ bread <= PageSize
  BY <1>1 DEF TypeOK, Paced, InStep, FileLoop, ChunkSize
<1>4. DataBytes = bread
  <2>1. AddressBytes(areaWrite.op) = AddrLen(ChipMode)
    BY <1>2 DEF AddressBytes, PageProgramOp, AddrLen
  <2> QED
    BY <1>2, <1>3, <2>1, ModeTypes DEF DataBytes, FrameLength
<1>5. (addr % Span(ChipMode)) % PageSize = addr % PageSize
  <2>1. Span(ChipMode) \in Nat \ {0} /\ Span(ChipMode) % PageSize = 0
    BY SpanAssumption DEF Span
  <2>2. addr \in Int /\ PageSize \in Nat \ {0}
    BY <1>3, SizesAssumption
  <2> QED
    BY ONLY <2>1, <2>2, ModOfMod
<1> QED
  BY <1>2, <1>3, <1>4, <1>5, SizesAssumption

-----------------------------------------------------------------------------
(* THE CONFIGURATION REGISTER *)

(* The labels before the configuration register is written. *)
BeforeConfig == {"probe1", "probe2", "checkId", "writeEnable", "readConfig", "writeConfig"}

(* The register the chip gets. *)
NewRegister == IF KnownProms[promId].quad_mode THEN atCall.config \cup {QuadBit} ELSE atCall.config

(* The register is read as it was when program was called, and written once. *)
Configured ==
  op = "program" /\ atCall.quiet =>
    /\ pc \in BeforeConfig => configNext = atCall.config
    /\ pc = "writeConfig" => IF Started THEN Reading ELSE areaRead.config = atCall.config
    /\ pc = "openFile" /\ Started =>
         IF KnownProms[promId].quad_mode
         THEN areaWrite.op = "WRR" /\ areaWrite.config = NewRegister
         ELSE areaWrite.op = "WREN" /\ configNext = NewRegister
    /\ pc \notin BeforeConfig \cup {"idle"} /\ ~(pc = "openFile" /\ Started) =>
         configNext = NewRegister
    /\ pc = "idle" /\ result = "done" => configNext = NewRegister

(* The thread reads the register, adds the bit of its own and writes it, ... *)
LEMMA ConfiguredBySoftware ==
  ASSUME BInv, Configured, Software
  PROVE  Configured'
<1> USE DEF BInv, IInv
<1>1. UNCHANGED <<promId, configNext, atCall, op>>
  BY SoftwareLeaves DEF chip, call
<1>2. NewRegister' = NewRegister
  BY <1>1 DEF NewRegister
<1>3. ASSUME pc \notin BeforeConfig \cup {"idle"}, ~(pc = "openFile" /\ Started),
             pc' \notin BeforeConfig \cup {"openFile"}
      PROVE  Configured'
  BY <1>1, <1>2, <1>3 DEF Configured, BeforeConfig
<1>4. ASSUME pc \in BeforeConfig, pc' \in BeforeConfig \ {"writeConfig"}
      PROVE  Configured'
  BY <1>1, <1>2, <1>4 DEF Configured, BeforeConfig
<1>5. ASSUME pc' = "idle", result' # "done"
      PROVE  Configured'
  BY <1>5 DEF Configured, BeforeConfig
<1>6. CASE Poll
  <2>1. CASE TimedOut
    BY <1>5, <1>6, <2>1 DEF Poll, Return
  <2>2. CASE ~TimedOut
    BY <1>1, <1>2, <1>6, <2>2 DEF Poll, Configured, Started, Reading, hw
  <2> QED
    BY <2>1, <2>2
<1>7. CASE ReadMemoryId
  BY <1>3, <1>4, <1>7 DEF ReadMemoryId, IdSteps, Transfer, At, BeforeConfig, Handshake, Started
<1>8. CASE CheckMemoryId
  <2>1. CASE Return("UnknownProm")
    BY <1>5, <2>1 DEF Return
  <2>2. CASE Goto(CASE op \in {"erase", "program"} -> "writeEnable"
                    [] op = "verify"               -> "openFile"
                    [] op = "dump"                 -> "lookup1")
    BY <1>1, <1>4, <1>8, <2>2 DEF CheckMemoryId, Goto, At, BeforeConfig, TypeOK, Operation,
       Configured
  <2> QED
    BY <1>8, <2>1, <2>2 DEF CheckMemoryId
<1>9. CASE SelectMode
  BY <1>3, <1>5, <1>9 DEF SelectMode, Goto, Return, At, BeforeConfig
<1>10. CASE MemoryWriteEnable
  <2>1. CASE At("writeEnable") /\ op = "program"
    <3>1. memId = promId
      BY <2>1 DEF Located, At
    <3> QED
      BY <1>1, <1>10, <2>1, <3>1
         DEF MemoryWriteEnable, Transfer, At, BeforeConfig, Configured, NewRegister, Started, Frame
  <2>2. CASE At("pageEnable")
    BY <1>3, <1>10, <2>2 DEF MemoryWriteEnable, Transfer, At, BeforeConfig
  <2>3. CASE op # "program"
    BY <1>1, <2>3 DEF Configured
  <2> QED
    BY <1>10, <2>1, <2>2, <2>3 DEF MemoryWriteEnable
<1>11. CASE ReadConfig
  BY <1>1, <1>11 DEF ReadConfig, Transfer, At, BeforeConfig, Configured, Started, Reading
<1>12. CASE WriteConfig
  <2>1. QuadProgram
    BY <1>12 DEF WriteConfig, At, Located
  <2>2. /\ areaWrite' = [Frame("WRR") EXCEPT !.config = NewConfig]
        /\ pc' = "openFile" /\ pc = "writeConfig"
        /\ ~Started /\ Started'
    BY <1>12 DEF WriteConfig, Transfer, At, Handshake, Started
  <2>3. areaWrite'.op = "WRR" /\ areaWrite'.config = areaRead.config \cup {QuadBit}
    BY <2>2 DEF Frame, NewConfig
  <2>4. atCall.quiet /\ op = "program" => areaWrite'.config = NewRegister
    BY <2>1, <2>2, <2>3 DEF Configured, NewRegister, QuadProgram
  <2>5. KnownProms[promId].quad_mode'
    BY <1>1, <2>1 DEF QuadProgram
  <2> QED
    BY <1>1, <1>2, <2>2, <2>3, <2>4, <2>5 DEF Configured, BeforeConfig
<1>13. CASE OpenFile
  BY <1>3, <1>5, <1>13 DEF OpenFile, Goto, Return, At, BeforeConfig, Handshake, Started
<1>14. CASE MemoryBulkErase \/ ReadStatus \/ ProgramMemoryPage \/ FastRead
  BY <1>3, <1>14 DEF MemoryBulkErase, ReadStatus, ProgramMemoryPage, FastRead, Transfer, At,
     BeforeConfig
<1>15. CASE TestStatus \/ OpenDump \/ ReadChunk \/ Compare \/ Store
  BY <1>3, <1>15
     DEF TestStatus, OpenDump, ReadChunk, Compare, Store, NextBlock, Goto, Return, At, BeforeConfig
<1> QED
  BY <1>6, <1>7, <1>8, <1>9, <1>10, <1>11, <1>12, <1>13, <1>14, <1>15 DEF Software

(* ... the chip carries the write out, ... *)
LEMMA ConfiguredByHardware ==
  ASSUME BInv, Paced, Configured, Hardware
  PROVE  Configured'
<1> USE DEF BInv, IInv
<1>1. UNCHANGED <<pc, waiting, op, atCall, result, promId>>
  BY HardwareLeaves DEF thread, call
<1>2. NewRegister' = NewRegister
  BY <1>1 DEF NewRegister
<1>3. CASE WriteDone
  BY <1>1, <1>2, <1>3 DEF WriteDone, regs, Configured, Started, Reading, BeforeConfig,
     QuietWhereAssumed, QuietLabels
<1>4. CASE Execute
  <2>1. Started /\ ~Started' /\ UNCHANGED <<areaWrite, bytesToWrite>>
    BY <1>4 DEF Execute, Started, regs
  <2>2. CASE pc = "openFile"
    <3>1. CASE areaWrite.op = "WRR"
      <4>1. Accepted(3)
        BY <2>1, <3>1 DEF WriteCommandsAreCarriedOut, PageProgramOps
      <4>2. configNext' = areaWrite.config
        BY <1>4, <3>1, <4>1 DEF Execute, ExecReadId, ExecReadStatus, ExecReadConfig,
           ExecFastRead, ExecWriteEnable,
          ExecBulkErase, ExecWriteRegisters, ExecPageProgram, PageProgramOps, FastReadOps
      <4> QED
        BY <1>1, <1>2, <2>1, <2>2, <3>1, <4>2 DEF Configured, BeforeConfig
    <3>2. CASE areaWrite.op # "WRR"
      <4>1. configNext' = configNext
        BY <1>4, <3>2 DEF Execute, ExecReadId, ExecReadStatus, ExecReadConfig, ExecFastRead,
           ExecWriteEnable,
          ExecBulkErase, ExecWriteRegisters, ExecPageProgram
      <4> QED
        BY <1>1, <1>2, <2>1, <2>2, <3>2, <4>1 DEF Configured, BeforeConfig
    <3> QED
      BY <3>1, <3>2
  <2>3. CASE pc # "openFile" /\ waiting
    <3>1. areaWrite.op # "WRR"
      BY <2>3 DEF AwaitsItsCommand, Awaited, PageProgramOps, FastReadOps
    <3>2. configNext' = configNext
      BY <1>4, <3>1 DEF Execute, ExecReadId, ExecReadStatus, ExecReadConfig, ExecFastRead,
         ExecWriteEnable,
        ExecBulkErase, ExecWriteRegisters, ExecPageProgram
    <3>3. op = "program" /\ atCall.quiet /\ pc = "writeConfig" => areaRead'.config = atCall.config
      <4>1. SUFFICES ASSUME op = "program", atCall.quiet, pc = "writeConfig"
                     PROVE  areaRead'.config = atCall.config
        OBVIOUS
      <4>2. areaWrite.op = "RDCR" /\ Reading /\ ~busy /\ configNext = atCall.config
        BY <2>1, <2>3, <4>1 DEF AwaitsItsCommand, Awaited, Configured, BeforeConfig,
           QuietWhereAssumed, QuietLabels
      <4>3. areaRead' = [NoAnswer EXCEPT !.config = config]
        BY <1>4, <4>2 DEF Execute, ExecReadId, ExecReadStatus, ExecReadConfig, ExecFastRead,
           ExecWriteEnable,
          ExecBulkErase, ExecWriteRegisters, ExecPageProgram, PageProgramOps, FastReadOps
      <4>4. areaRead'.config = config
        BY <4>3 DEF NoAnswer
      <4> QED
        BY <4>2, <4>4 DEF Paced, Steady
    <3> QED
      BY <1>1, <1>2, <2>1, <2>3, <3>2, <3>3 DEF Configured, BeforeConfig
  <2>4. CASE pc \in {"idle", "probe1"}
    BY <1>1, <2>1, <2>4 DEF Configured, BeforeConfig, Identified, Paced, AtRest, Started
  <2> QED
    BY <2>1, <2>2, <2>3, <2>4 DEF Handshake, Started
<1> QED
  BY <1>3, <1>4 DEF Hardware

(* ... and a call starts with the register that the chip is going to have. *)
LEMMA ConfiguredByCall ==
  ASSUME BInv, Paced, Configured, Call \/ Kill
  PROVE  Configured'
<1>1. CASE Call
  <2>1. /\ UNCHANGED hw /\ pc' = "probe1"
        /\ atCall' = [mem |-> memNext, config |-> configNext, quiet |-> ~busy /\ ~Started]
    BY <1>1 DEF Call, CallErase, CallProgram, CallVerify, CallDump, Begin
  <2>2. configNext' = atCall'.config
    BY <2>1 DEF hw
  <2> QED
    BY <2>1, <2>2 DEF Configured, BeforeConfig
<1>2. CASE Kill
  BY <1>2 DEF Kill, Return, Configured, BeforeConfig
<1> QED
  BY <1>1, <1>2

(* What the invariant says of the register at the end is the property. *)
LEMMA ConfiguredMeans == Paced /\ Configured => ProgramSetsQuadMode
BY DEF Paced, Steady, AtRest, Configured, ProgramSetsQuadMode, Returned, NewRegister

-----------------------------------------------------------------------------
(* THE IMAGE IN THE CHIP *)

(* The content of the chip with the first n bytes of the file programmed. *)
Overlay(n) ==
  [a \in Address |-> IF a < n THEN atCall.mem[a] \cap file.byte[a] ELSE atCall.mem[a]]

(* The page that has been sent has been carried out. *)
PageDone == pc = "testStatus" \/ (pc = "readStatus" /\ ~Started)

(* As many bytes of the file have been programmed. *)
Programmed == IF PageDone THEN addr + bread ELSE addr

(* The chip is going to hold what it held with the programmed bytes laid over it. *)
Overlaid ==
  op = "program" /\ atCall.quiet =>
    /\ pc \notin FileLoop \cup {"idle"} => memNext = atCall.mem
    /\ pc \in FileLoop /\ ~ioErr /\ Fits(ChipMode) => memNext = Overlay(Programmed)
    /\ pc = "idle" /\ result = "done" /\ Fits(ChipMode) => memNext = Overlay(file.len)

(* Image byte k has cleared its bits in its cell. *)
Cleared(k) == memNext[Cell(ChipMode, k)] \subseteq file.byte[k]

(* The same bit by bit, which holds of an image that does not fit too. *)
ClearedSoFar ==
  /\ op = "program" /\ pc \in FileLoop /\ ~ioErr => \A k \in 0 .. Programmed - 1 : Cleared(k)
  /\ Returned("program", "done") => \A k \in 0 .. file.len - 1 : Cleared(k)

(* A page program that starts with a page goes to successive cells. *)
LEMMA WholePage ==
  ASSUME NEW a \in Nat, a % PageSize = 0, NEW n \in 0 .. PageSize
  PROVE  PageProgrammed(a, n) =
           [c \in Address |-> IF a % FlashSize <= c /\ c < (a % FlashSize) + n
                              THEN mem[c] \cap areaWrite.data[c - (a % FlashSize)]
                              ELSE mem[c]]
<1> DEFINE start == a % FlashSize
           base == start - (start % PageSize)
           At_(k) == base + ((start + k) % PageSize)
<1>1. start \in Nat /\ start < FlashSize /\ PageSize \in Nat \ {0}
  BY SizesAssumption
<1>2. start % PageSize = 0
  <2>1. a \in Int /\ FlashSize \in Nat \ {0} /\ PageSize \in Nat \ {0} /\ FlashSize % PageSize = 0
    BY SizesAssumption
  <2> QED
    BY <2>1, ModOfMod
<1>3. \A k \in PageIndex : At_(k) = start + k
  <2>1. SUFFICES ASSUME NEW k \in PageIndex PROVE At_(k) = start + k
    OBVIOUS
  <2>2. k \in Nat /\ k < PageSize
    BY <1>1 DEF PageIndex
  <2>3. PageSize % PageSize = 0
    BY <1>1
  <2>4. (start + k) % PageSize = (start % PageSize) + k
    <3>1. start \in Int /\ k \in 0 .. PageSize - 1
      BY <1>1 DEF PageIndex
    <3> HIDE DEF start
    <3> QED
      BY ONLY <1>1, <1>2, <2>3, <3>1, InBlock
  <2> HIDE DEF start
  <2> QED
    BY <1>1, <1>2, <2>2, <2>4
<1> DEFINE Goes(c) == \E k \in PageIndex : k < n /\ At_(k) = c
           From(c) == CHOOSE k \in PageIndex : k < n /\ At_(k) = c
<1>4. PageProgrammed(a, n) =
        [c \in Address |-> IF Goes(c) THEN mem[c] \cap areaWrite.data[From(c)] ELSE mem[c]]
  BY DEF PageProgrammed
<1>5. ASSUME NEW c \in Address, start <= c /\ c < start + n
      PROVE  Goes(c) /\ From(c) = c - start
  <2> HIDE DEF At_, start
  <2>1. c - start \in PageIndex /\ c - start < n /\ c \in Int
    BY <1>1, <1>5, SizesAssumption DEF PageIndex, Address
  <2>2. At_(c - start) = c
    BY <1>1, <1>3, <2>1
  <2>3. \A k \in PageIndex : k < n /\ At_(k) = c => k = c - start
    BY <1>1, <1>3, <2>1 DEF PageIndex
  <2> QED
    BY <2>1, <2>2, <2>3
<1>6. ASSUME NEW c \in Address, ~(start <= c /\ c < start + n)
      PROVE  ~Goes(c)
  <2> HIDE DEF At_, start
  <2>1. SUFFICES ASSUME NEW k \in PageIndex, k < n, At_(k) = c PROVE FALSE
    OBVIOUS
  <2> QED
    BY <1>1, <1>3, <1>6, <2>1 DEF PageIndex
<1> HIDE DEF start, Goes, From
<1>7. \A c \in Address :
        (IF Goes(c) THEN mem[c] \cap areaWrite.data[From(c)] ELSE mem[c]) =
        (IF start <= c /\ c < start + n THEN mem[c] \cap areaWrite.data[c - start] ELSE mem[c])
  BY <1>5, <1>6
<1>8. PageProgrammed(a, n) =
        [c \in Address |-> IF start <= c /\ c < start + n
                           THEN mem[c] \cap areaWrite.data[c - start] ELSE mem[c]]
  BY <1>4, <1>7
<1> QED
  BY <1>8 DEF start

(* What the page program of programMemoryPage does to the chip. *)
LEMMA PageIsProgrammed ==
  ASSUME BInv, Paced, Sent, op = "program", pc = "readStatus", Started, ~ioErr, Execute
  PROVE  LET start == (addr % Span(ChipMode)) % FlashSize
         IN  /\ memNext' = [c \in Address |-> IF start <= c /\ c < start + bread
                                              THEN memNext[c] \cap file.byte[addr + (c - start)]
                                              ELSE memNext[c]]
             /\ \A i \in 0 .. bread - 1 : Cell(ChipMode, addr + i) = start + i
<1> USE DEF BInv, IInv
<1> DEFINE at == addr % Span(ChipMode)
           start == at % FlashSize
<1>1. /\ areaWrite.op = PageProgramOp(ChipMode) /\ areaWrite.addr = at
      /\ bytesToWrite = bread + AddrLen(ChipMode)
      /\ \A i \in PageIndex : i < bread => areaWrite.data[i] = file.byte[addr + i]
  BY DEF Sent, PageSent
<1>2. /\ addr \in Nat /\ bread \in Nat /\ addr % PageSize = 0 /\ bread <= PageSize /\ bread > 0
      /\ PageSize \in Nat \ {0} /\ FlashSize \in Nat \ {0} /\ FlashSize % PageSize = 0
  BY SizesAssumption DEF TypeOK, Paced, InStep, FileLoop, ChunkSize, Position, WithData
<1>3. Span(ChipMode) \in Nat \ {0} /\ Span(ChipMode) % PageSize = 0
  BY SpanAssumption DEF Span
<1>4. at \in Nat /\ at % PageSize = 0
  <2>1. addr \in Int
    BY <1>2
  <2>2. (addr % Span(ChipMode)) % PageSize = addr % PageSize
    BY <1>2, <1>3, <2>1, ModOfMod
  <2> QED
    BY <1>2, <1>3, <2>2
<1>5. ExecPageProgram /\ ~busy /\ wel
  <2>1. areaWrite.op \in PageProgramOps
    BY <1>1, ModeTypes
  <2>2. Accepted(FrameLength)
    BY <2>1 DEF WriteCommandsAreCarriedOut, PageProgramOps
  <2> QED
    BY <2>1, <2>2 DEF Accepted, Execute, ExecReadId, ExecReadStatus, ExecReadConfig,
       ExecFastRead, ExecWriteEnable,
          ExecBulkErase, ExecWriteRegisters, PageProgramOps, FastReadOps
<1>6. FrameLength - 1 - AddressBytes(areaWrite.op) = bread
  <2>1. AddressBytes(areaWrite.op) = AddrLen(ChipMode)
    BY <1>1 DEF AddressBytes, PageProgramOp, AddrLen
  <2> QED
    BY <1>1, <1>2, <2>1, ModeTypes DEF FrameLength
<1>7. memNext' = PageProgrammed(at, bread)
  <2> HIDE DEF at
  <2> QED
    BY <1>1, <1>2, <1>5, <1>6 DEF ExecPageProgram
<1>8. memNext' = [c \in Address |-> IF start <= c /\ c < start + bread
                                    THEN mem[c] \cap areaWrite.data[c - start] ELSE mem[c]]
  <2> HIDE DEF at
  <2>1. bread \in 0 .. PageSize
    BY <1>2
  <2> QED
    BY <1>4, <1>7, <2>1, WholePage
<1>9. start \in Nat /\ mem = memNext
  BY <1>2, <1>4, <1>5 DEF Paced, Steady
<1>10. \A c \in Address : start <= c /\ c < start + bread =>
         areaWrite.data[c - start] = file.byte[addr + (c - start)]
  <2> HIDE DEF start
  <2>1. SUFFICES ASSUME NEW c \in Address, start <= c /\ c < start + bread
                 PROVE  areaWrite.data[c - start] = file.byte[addr + (c - start)]
    OBVIOUS
  <2>2. c - start \in PageIndex /\ c - start < bread
    BY <1>2, <1>9, <2>1 DEF Address, PageIndex
  <2> QED
    BY <1>1, <2>2
<1>11. \A i \in 0 .. bread - 1 : Cell(ChipMode, addr + i) = start + i
  <2>1. SUFFICES ASSUME NEW i \in 0 .. bread - 1
                 PROVE  Cell(ChipMode, addr + i) = start + i
    OBVIOUS
  <2>2. i \in 0 .. PageSize - 1 /\ addr \in Int /\ at \in Int
    BY <1>2, <1>4
  <2>3. (addr + i) % Span(ChipMode) = at + i
    BY ONLY <1>2, <1>3, <2>2, InBlock
  <2>4. (at + i) % FlashSize = start + i
    <3> HIDE DEF at
    <3> QED
      BY ONLY <1>2, <1>4, <2>2, InBlock
  <2> QED
    BY <2>3, <2>4 DEF Cell
<1> HIDE DEF at
<1>12. memNext' = [c \in Address |-> IF start <= c /\ c < start + bread
                                     THEN memNext[c] \cap file.byte[addr + (c - start)]
                                     ELSE memNext[c]]
  BY <1>8, <1>9, <1>10
<1> QED
  BY <1>11, <1>12 DEF at

(* The thread never loses count of the bytes it has programmed. *)
LEMMA ProgrammedBySoftware ==
  ASSUME BInv, Paced, Software, op = "program"
  PROVE  /\ pc \in FileLoop /\ pc' \in FileLoop => Programmed' = Programmed /\ (~ioErr' => ~ioErr)
         /\ pc \notin FileLoop /\ pc' \in FileLoop => pc # "idle" /\ Programmed' = 0
         /\ pc' \notin FileLoop \cup {"idle"} => pc \notin FileLoop \cup {"idle"}
         /\ pc' = "idle" /\ result' = "done" =>
              pc \in FileLoop /\ ~ioErr /\ Programmed = file.len
<1> USE DEF BInv, IInv
<1> DEFINE Goal ==
      /\ pc \in FileLoop /\ pc' \in FileLoop => Programmed' = Programmed /\ (~ioErr' => ~ioErr)
      /\ pc \notin FileLoop /\ pc' \in FileLoop => pc # "idle" /\ Programmed' = 0
      /\ pc' \notin FileLoop \cup {"idle"} => pc \notin FileLoop \cup {"idle"}
<1>1. ASSUME pc' = "idle", result' = "done"
      PROVE  pc \in FileLoop /\ ~ioErr /\ Programmed = file.len
  <2>1. ReadChunk
    BY <1>1, Endings DEF Exceptions
  <2>2. pc = "readChunk"
    BY <2>1 DEF ReadChunk, At
  <2> QED
    BY <1>1, <2>1, <2>2, BlockRead DEF Return, FileLoop, Programmed, PageDone
<1>2. ASSUME pc' = "idle" PROVE Goal
  BY <1>2 DEF FileLoop
<1>3. CASE Poll
  <2>1. CASE TimedOut
    BY <1>2, <1>3, <2>1 DEF Poll, Return
  <2>2. CASE ~TimedOut
    BY <1>3, <2>2 DEF Poll, hw, stack, Programmed, PageDone, Started, Handshake, FileLoop
  <2> QED
    BY <2>1, <2>2
<1>4. CASE ReadMemoryId
  BY <1>4 DEF ReadMemoryId, IdSteps, Transfer, FileLoop, At
<1>5. CASE CheckMemoryId
  BY <1>2, <1>5 DEF CheckMemoryId, Goto, Return, FileLoop, At
<1>6. CASE SelectMode
  BY <1>2, <1>6 DEF SelectMode, Goto, Return, FileLoop, At, Programmed, PageDone, Position, InLoop
<1>7. CASE MemoryWriteEnable
  BY <1>7 DEF MemoryWriteEnable, Transfer, FileLoop, At, Programmed, PageDone, locals, stack
<1>8. CASE MemoryBulkErase
  BY <1>8 DEF MemoryBulkErase, At, Position
<1>9. CASE ReadStatus
  BY <1>9 DEF ReadStatus, Transfer, FileLoop, At, Programmed, PageDone, Handshake, Started,
     locals, stack
<1>10. CASE TestStatus
  <2>1. CASE InProgress
    BY <1>10, <2>1 DEF TestStatus, Goto, FileLoop, At, Programmed, PageDone, Handshake, Started,
       hw, stack
  <2>2. CASE ~InProgress
    BY <1>10, <2>2 DEF TestStatus, NextBlock, Goto, FileLoop, At, Programmed, PageDone
  <2> QED
    BY <2>1, <2>2
<1>11. CASE ReadConfig \/ WriteConfig
  BY <1>11 DEF ReadConfig, WriteConfig, Transfer, FileLoop, At
<1>12. CASE OpenFile
  BY <1>2, <1>12 DEF OpenFile, Goto, Return, FileLoop, At
<1>13. CASE OpenDump \/ Store \/ Compare
  BY <1>13 DEF OpenDump, Store, Compare, At, Position
<1>14. CASE ReadChunk
  <2>1. pc' = "idle" \/ (pc' \in {"pageEnable", "fastRead"} /\ addr' = addr /\ (~ioErr' => ~ioErr))
    <3>1. pc' \in {"idle", "pageEnable", "fastRead"}
      BY <1>14 DEF ReadChunk, Goto, Return
    <3> QED
      BY <1>14, <3>1, BlockRead DEF Return
  <2>2. pc = "readChunk"
    BY <1>14 DEF ReadChunk, At
  <2>3. CASE pc' = "idle"
    BY <1>1, <1>2, <2>3
  <2>4. CASE pc' # "idle"
    <3>1. Programmed' = Programmed
      BY <2>1, <2>2, <2>4 DEF Programmed, PageDone
    <3>2. pc' \in FileLoop /\ pc \in FileLoop
      BY <2>1, <2>2, <2>4 DEF FileLoop
    <3> QED
      BY Zenon, <2>1, <2>4, <3>1, <3>2
  <2> QED
    BY <2>3, <2>4
<1>15. CASE ProgramMemoryPage
  BY <1>15 DEF ProgramMemoryPage, Transfer, FileLoop, At, Programmed, PageDone, Started, locals,
     stack
<1>16. CASE FastRead
  BY <1>16 DEF FastRead, At, Position
<1>17. Goal
  BY <1>3, <1>4, <1>5, <1>6, <1>7, <1>8, <1>9, <1>10, <1>11, <1>12, <1>13, <1>14, <1>15, <1>16
     DEF Software
<1> QED
  BY <1>1, <1>17

(* The thread does not change the chip, ... *)
LEMMA OverlaidBySoftware ==
  ASSUME BInv, Paced, Overlaid, ClearedSoFar, Software
  PROVE  Overlaid' /\ ClearedSoFar'
<1> USE DEF BInv, IInv
<1>1. UNCHANGED <<promId, memNext, op, file, atCall>>
  BY SoftwareLeaves DEF chip, call
<1>2. /\ Fits(ChipMode)' = Fits(ChipMode)
      /\ \A n : Overlay(n)' = Overlay(n)
      /\ \A k : Cleared(k)' = Cleared(k)
  BY <1>1 DEF Fits, ChipMode, Overlay, Cleared
<1>3. CASE op = "program"
  <2>1. memNext = atCall.mem => memNext = Overlay(0)
    <3>1. \A a \in Address : ~(a < 0)
      BY SizesAssumption DEF Address
    <3>2. atCall.mem \in Memory
      BY DEF TypeOK
    <3> QED
      BY <3>1, <3>2 DEF Overlay, Memory
  <2>2. Overlaid'
    BY <1>1, <1>2, <1>3, <2>1, ProgrammedBySoftware DEF Overlaid
  <2>3. ClearedSoFar'
    <3>1. ASSUME pc' \in FileLoop, ~ioErr'
          PROVE  \A k \in 0 .. Programmed' - 1 : Cleared(k)
      <4>1. CASE pc \in FileLoop
        BY <1>3, <3>1, <4>1, ProgrammedBySoftware DEF ClearedSoFar
      <4>2. CASE pc \notin FileLoop
        <5>1. Programmed' = 0
          BY <1>3, <3>1, <4>2, ProgrammedBySoftware
        <5> QED
          BY <5>1
      <4> QED
        BY <4>1, <4>2
    <3>2. ASSUME pc' = "idle", result' = "done"
          PROVE  \A k \in 0 .. file.len - 1 : Cleared(k)
      BY <1>3, <3>2, ProgrammedBySoftware DEF ClearedSoFar
    <3> QED
      BY <1>1, <1>2, <3>1, <3>2 DEF ClearedSoFar, Returned
  <2> QED
    BY <2>2, <2>3
<1>4. CASE op # "program"
  BY <1>1, <1>4 DEF Overlaid, ClearedSoFar, Returned
<1> QED
  BY <1>3, <1>4

(* The chip changes what it is going to hold only for an erase and for a page program. *)
LEMMA OnlyAsSent ==
  ASSUME BInv, Hardware, memNext' # memNext
  PROVE  /\ Execute
         /\ Started
         /\ areaWrite.op = "BE" \/ areaWrite.op \in PageProgramOps
BY DEF Hardware, WriteDone, Execute, ExecReadId, ExecReadStatus, ExecReadConfig, ExecFastRead,
   ExecWriteEnable,
       ExecBulkErase, ExecWriteRegisters, ExecPageProgram

(* ... the hardware changes it by the page that has been sent, ... *)
LEMMA OverlaidByHardware ==
  ASSUME BInv, Paced, Sent, Overlaid, ClearedSoFar, Hardware
  PROVE  Overlaid' /\ ClearedSoFar'
<1> USE DEF BInv, IInv
<1>1. UNCHANGED <<pc, waiting, addr, bread, ioErr, op, file, atCall, result, promId>>
  BY HardwareLeaves DEF thread, call, locals, stack
<1>2. Fits(ChipMode)' = Fits(ChipMode) /\ (\A n : Overlay(n)' = Overlay(n))
      /\ \A k : Cell(ChipMode, k)' = Cell(ChipMode, k)
  BY <1>1 DEF Fits, ChipMode, Overlay, Cell, Span
<1>3. CASE op = "program" /\ pc = "readStatus" /\ Started /\ Execute
  <2>1. ~PageDone /\ PageDone' /\ pc \in FileLoop /\ Programmed = addr /\ Programmed' = addr + bread
    BY <1>1, <1>3 DEF PageDone, FileLoop, Programmed, Execute, Started
  <2> DEFINE start == (addr % Span(ChipMode)) % FlashSize
  <2>2. /\ addr \in Nat /\ bread \in Nat /\ bread > 0 /\ addr + bread <= file.len /\ file.len \in Nat
        /\ memNext \in Memory /\ FlashSize \in Nat \ {0} /\ Span(ChipMode) \in Nat \ {0}
    BY <1>3, ModeTypes, SizesAssumption, FilesAssumption DEF TypeOK, HwTypeOK, Position, WithData
  <2>3. ASSUME ~ioErr
        PROVE  /\ memNext' = [c \in Address |-> IF start <= c /\ c < start + bread
                                                THEN memNext[c] \cap file.byte[addr + (c - start)]
                                                ELSE memNext[c]]
               /\ \A i \in 0 .. bread - 1 : Cell(ChipMode, addr + i) = start + i
    BY <1>3, <2>3, PageIsProgrammed
  <2>4. Overlaid'
    <3>1. SUFFICES ASSUME ~ioErr, Fits(ChipMode), atCall.quiet
                   PROVE  memNext' = Overlay(addr + bread)
      BY <1>1, <1>2, <1>3, <2>1 DEF Overlaid, FileLoop
    <3>2. start = addr
      <4>1. addr < Span(ChipMode) /\ addr < FlashSize
        BY <2>2, <3>1 DEF Fits
      <4>2. addr % Span(ChipMode) = addr /\ addr % FlashSize = addr
        BY <2>2, <4>1, Small
      <4> QED
        BY <4>2
    <3>3. memNext = Overlay(addr)
      BY <1>3, <2>1, <3>1 DEF Overlaid
    <3> HIDE DEF start
    <3>4. memNext' = [c \in Address |-> IF addr <= c /\ c < addr + bread
                                        THEN memNext[c] \cap file.byte[addr + (c - addr)]
                                        ELSE memNext[c]]
      BY <2>3, <3>1, <3>2
    <3>5. \A c \in Address :
            memNext[c] = IF c < addr THEN atCall.mem[c] \cap file.byte[c] ELSE atCall.mem[c]
      BY <3>3 DEF Overlay
    <3>6. ASSUME NEW c \in Address
          PROVE  (IF addr <= c /\ c < addr + bread
                  THEN memNext[c] \cap file.byte[addr + (c - addr)]
                  ELSE memNext[c])
                 = IF c < addr + bread THEN atCall.mem[c] \cap file.byte[c] ELSE atCall.mem[c]
      <4>1. c \in Int /\ addr + (c - addr) = c
        BY <2>2 DEF Address
      <4>2. ~(c < addr) => memNext[c] = atCall.mem[c]
        BY <3>5
      <4>3. c < addr => memNext[c] = atCall.mem[c] \cap file.byte[c]
        BY <3>5
      <4>4. c < addr => c < addr + bread
        BY <2>2, <4>1
      <4>5. ~(c < addr) => addr <= c
        BY <2>2, <4>1
      <4>6. c < addr => ~(addr <= c)
        BY <2>2, <4>1
      <4> QED
        BY Zenon, <4>1, <4>2, <4>3, <4>4, <4>5, <4>6
    <3> QED
      BY <3>4, <3>6 DEF Overlay
  <2>5. ClearedSoFar'
    <3>1. SUFFICES ASSUME ~ioErr, NEW k \in 0 .. (addr + bread) - 1
                   PROVE  memNext'[Cell(ChipMode, k)] \subseteq file.byte[k]
      BY <1>1, <1>2, <1>3, <2>1 DEF ClearedSoFar, Cleared, Returned
    <3>2. Cell(ChipMode, k) \in Address
      <4>1. k % Span(ChipMode) \in Nat
        BY <2>2, <3>1
      <4> QED
        BY <2>2, <4>1 DEF Cell, Address
    <3> HIDE DEF start
    <3>3. CASE k < addr
      <4>1. memNext[Cell(ChipMode, k)] \subseteq file.byte[k]
        BY <1>3, <2>1, <2>2, <3>1, <3>3 DEF ClearedSoFar, Cleared
      <4>2. memNext'[Cell(ChipMode, k)] \subseteq memNext[Cell(ChipMode, k)]
        BY <2>3, <3>1, <3>2
      <4> QED
        BY <4>1, <4>2
    <3>4. CASE k >= addr
      <4>1. k - addr \in 0 .. bread - 1 /\ addr + (k - addr) = k
        BY <2>2, <3>1, <3>4
      <4>2. Cell(ChipMode, k) = start + (k - addr)
        BY <2>3, <3>1, <4>1
      <4>3. start \in Int
        BY <2>2 DEF start
      <4>4. start <= Cell(ChipMode, k) /\ Cell(ChipMode, k) < start + bread
            /\ Cell(ChipMode, k) - start = k - addr
        BY <2>2, <4>1, <4>2, <4>3
      <4>5. memNext'[Cell(ChipMode, k)] = memNext[Cell(ChipMode, k)] \cap file.byte[addr + (k - addr)]
        BY <2>3, <3>1, <3>2, <4>4
      <4> QED
        BY <4>1, <4>5
    <3> QED
      BY <2>2, <3>1, <3>3, <3>4
  <2> QED
    BY <2>4, <2>5
<1>4. CASE op = "program" /\ ~(pc = "readStatus" /\ Started /\ Execute)
  <2>1. PageDone' = PageDone
    <3>1. pc = "readStatus" => Started' = Started
      BY <1>1, <1>4 DEF Hardware, Execute, WriteDone, Started
    <3> QED
      BY <1>1, <3>1 DEF PageDone
  <2>2. Programmed' = Programmed
    BY <1>1, <2>1 DEF Programmed
  <2>3. CASE memNext' = memNext
    BY <1>1, <1>2, <2>2, <2>3 DEF Overlaid, ClearedSoFar, Cleared, Returned
  <2>4. CASE memNext' # memNext
    <3>1. pc \in {"idle", "probe1"}
      BY <1>4, <2>4, OnlyAsSent DEF AwaitsItsCommand, Awaited, PageProgramOps, FastReadOps,
         Handshake, Started
    <3>2. ~(pc = "idle" /\ result = "done")
      BY <2>4, OnlyAsSent DEF Paced, AtRest, Started
    <3>3. ~(pc = "probe1" /\ atCall.quiet)
      BY <2>4, OnlyAsSent DEF Identified
    <3> QED
      BY <1>1, <3>1, <3>2, <3>3 DEF Overlaid, ClearedSoFar, FileLoop, Returned
  <2> QED
    BY <2>3, <2>4
<1>5. CASE op # "program"
  BY <1>1, <1>5 DEF Overlaid, ClearedSoFar, Returned
<1> QED
  BY <1>3, <1>4, <1>5

(* ... and a call starts with what the chip is going to hold. *)
LEMMA OverlaidByCall ==
  ASSUME BInv, Overlaid, ClearedSoFar, Call \/ Kill
  PROVE  Overlaid' /\ ClearedSoFar'
<1>1. CASE Call
  <2>1. /\ UNCHANGED hw /\ pc' = "probe1"
        /\ atCall' = [mem |-> memNext, config |-> configNext, quiet |-> ~busy /\ ~Started]
    BY <1>1 DEF Call, CallErase, CallProgram, CallVerify, CallDump, Begin
  <2>2. memNext' = atCall'.mem
    BY <2>1 DEF hw
  <2> QED
    BY <2>1, <2>2 DEF Overlaid, ClearedSoFar, FileLoop, Returned
<1>2. CASE Kill
  BY <1>2 DEF Kill, Return, Overlaid, ClearedSoFar, FileLoop, Returned
<1> QED
  BY <1>1, <1>2

(* What the invariant says of the cells at the end is the property. *)
LEMMA OverlaidMeans == Paced /\ Overlaid => ProgramMeansOverlay
BY DEF Paced, Steady, AtRest, Overlaid, ProgramMeansOverlay, Returned, Overlay

-----------------------------------------------------------------------------
(* THE THEOREMS *)

(* The parts of the invariant. *)
ImageInv ==
  /\ Paced /\ Sent
  /\ Compared /\ VerifyIsRight
  /\ Dumped /\ DumpIsRight
  /\ Configured
  /\ Overlaid /\ ClearedSoFar

(* The invariant holds on a board before the first operation, ... *)
LEMMA ImageInit == Init => ImageInv
<1> SUFFICES ASSUME Init PROVE ImageInv
  OBVIOUS
<1>1. /\ pc = "idle" /\ op = "erase" /\ result = "none" /\ ioErr = FALSE /\ busy = FALSE
      /\ mem = memNext /\ config = configNext
  BY DEF Init, HwInit
<1>2. Paced /\ Sent
  BY <1>1 DEF Paced, Steady, AtRest, InStep, FileLoop, Sent, PageSent, ReadSent, ReadAnswered
<1>3. Compared /\ VerifyIsRight /\ Dumped /\ DumpIsRight
  BY <1>1 DEF Compared, VerifyIsRight, Dumped, DumpIsRight, Returned
<1>4. Configured /\ Overlaid /\ ClearedSoFar
  BY <1>1 DEF Configured, Overlaid, ClearedSoFar, Returned
<1> QED
  BY <1>2, <1>3, <1>4 DEF ImageInv

(* ... where nothing changes, ... *)
LEMMA ImageStutters ==
  ASSUME ImageInv, UNCHANGED vars
  PROVE  ImageInv'
<1> USE DEF ImageInv, vars, hw, thread, call, locals, stack, Started
<1>1. Paced' /\ Sent'
  BY DEF Paced, Steady, AtRest, InStep, ChunkSize, Sent, PageSent, ReadSent, ReadAnswered,
     ReadLength,
         Reading, ChipMode
<1>2. Compared' /\ VerifyIsRight'
  BY DEF Compared, InChip, VerifyIsRight, Returned, ChipMode
<1>3. Dumped' /\ DumpIsRight'
  BY DEF Dumped, DumpIsRight, Returned, ChipMode
<1>4. Configured'
  BY DEF Configured, NewRegister, Reading
<1>5. Overlaid' /\ ClearedSoFar'
  BY DEF Overlaid, Overlay, ClearedSoFar, Cleared, Programmed, PageDone, Returned, Fits, ChipMode
<1> QED
  BY <1>1, <1>2, <1>3, <1>4, <1>5

(* ... and after every step. *)
LEMMA ImageStep == BInv /\ ImageInv /\ [Next]_vars => ImageInv'
<1> USE DEF ImageInv
<1>1. ASSUME BInv, ImageInv, Software PROVE ImageInv'
  BY <1>1, PacedBySoftware, SentBySoftware, ComparedBySoftware, DumpedBySoftware,
     ConfiguredBySoftware, OverlaidBySoftware
<1>2. ASSUME BInv, ImageInv, Hardware PROVE ImageInv'
  BY <1>2, PacedByHardware, SentByHardware, ComparedByHardware, DumpedByHardware,
     ConfiguredByHardware, OverlaidByHardware
<1>3. ASSUME BInv, ImageInv, Call \/ Kill PROVE ImageInv'
  BY <1>3, PacedByCall, SentByCall, ComparedByCall, DumpedByCall, ConfiguredByCall, OverlaidByCall
<1> QED
  BY <1>1, <1>2, <1>3, ImageStutters DEF Next

(* The invariant holds in every state of the system. *)
LEMMA ImageInvariance == Spec => [](BInv /\ ImageInv)
<1>1. Spec => []BInv
  BY Invariance, IdentificationInvariance, LocationInvariance, PTL DEF BInv
<1> QED
  BY <1>1, ImageInit, ImageStep, PTL DEF Spec

(* verify of MtcaProgrammerSPI.cpp answers true only where every byte of the image is in its *)
(* cell, and false only where one is not (for an image that the addresses reach).            *)
THEOREM VerifiesAreRight == Spec => []VerifyIsRight
BY ImageInvariance, PTL DEF ImageInv

(* The file that dump leaves holds what the chip holds, each byte at its own address. *)
THEOREM DumpsAreRight == Spec => []DumpIsRight
BY ImageInvariance, PTL DEF ImageInv

(* A program that returns, called on a quiet chip, has added the quad mode bit to the      *)
(* register where the chip has a quad mode, and has left every other bit and chip alone.   *)
THEOREM QuadModeIsSet == Spec => []ProgramSetsQuadMode
<1>1. ImageInv => ProgramSetsQuadMode
  BY ConfiguredMeans DEF ImageInv
<1> QED
  BY <1>1, ImageInvariance, PTL

(* A program that returns, of an image that fits and on a chip that was quiet when it was  *)
(* called, has cleared in the cells of the image the bits that are clear in the file, has  *)
(* touched no other cell and has waited for the last page.                                 *)
THEOREM ProgramsOverlay == Spec => []ProgramMeansOverlay
<1>1. ImageInv => ProgramMeansOverlay
  BY OverlaidMeans DEF ImageInv
<1> QED
  BY <1>1, ImageInvariance, PTL

(* No page program wraps around in its page, as long as no read of the file has failed. *)
THEOREM PagesDoNotWrap == Spec => []PageProgramStaysInPage
<1>1. BInv /\ ImageInv => PageProgramStaysInPage
  BY PageStays DEF ImageInv
<1> QED
  BY <1>1, ImageInvariance, PTL

-----------------------------------------------------------------------------
(* THE SERVICE *)

(* What a page program that has been sent is going to do to the cells. *)
PageIsFromTheFile ==
  pc = "readStatus" /\ op = "program" /\ Started =>
    /\ Target \in Memory
    /\ \A a \in Address :
         \/ Target[a] = mem[a]
         \/ \E k \in 0 .. file.len - 1 :
              (Cell(ChipMode, k) = a \/ ioErr) /\ Target[a] = mem[a] \cap file.byte[k]

(* A page program that has been sent changes cells of the image by their bytes only: where *)
(* no read has failed, those that it is meant for.                                         *)
LEMMA PageTarget == BInv /\ Paced /\ Sent => PageIsFromTheFile
<1> SUFFICES ASSUME BInv, Paced, Sent, pc = "readStatus", op = "program", Started
             PROVE  /\ Target \in Memory
                    /\ \A a \in Address :
                         \/ Target[a] = mem[a]
                         \/ \E k \in 0 .. file.len - 1 :
                              /\ Cell(ChipMode, k) = a \/ ioErr
                              /\ Target[a] = mem[a] \cap file.byte[k]
  BY DEF PageIsFromTheFile
<1> USE DEF BInv, IInv
<1>1. /\ areaWrite.op = PageProgramOp(ChipMode) /\ areaWrite.addr = addr % Span(ChipMode)
      /\ bytesToWrite = bread + AddrLen(ChipMode)
      /\ \A i \in PageIndex : i < bread => areaWrite.data[i] = file.byte[addr + i]
  BY DEF Sent, PageSent
<1>2. /\ addr \in Nat /\ bread \in Nat /\ addr + bread <= file.len /\ file.len \in Nat
      /\ bread <= PageSize /\ PageSize \in Nat \ {0} /\ areaWrite.addr \in Nat
      /\ mem \in [Address -> Byte]
  BY SizesAssumption, FilesAssumption
     DEF TypeOK, HwTypeOK, Memory, Paced, InStep, FileLoop, ChunkSize, Position, WithData
<1>3. ~busy /\ areaWrite.op \in PageProgramOps /\ areaWrite.op # "BE"
  <2>1. areaWrite.op \in PageProgramOps
    BY <1>1, ModeTypes
  <2> QED
    BY <2>1 DEF WriteCommandsAreCarriedOut, PageProgramOps, Accepted
<1>4. DataBytes = bread
  <2>1. AddressBytes(areaWrite.op) = AddrLen(ChipMode)
    BY <1>1 DEF AddressBytes, PageProgramOp, AddrLen
  <2> QED
    BY <1>1, <1>2, <2>1, ModeTypes DEF DataBytes, FrameLength
<1>5. Target = PageProgrammed(areaWrite.addr, bread)
  BY <1>3, <1>4 DEF Target
<1>6. Target \in Memory
  BY <1>2, <1>5, PageProgrammedType DEF Memory
<1>7. CASE ioErr
  <2> DEFINE start == areaWrite.addr % FlashSize
             At_(k) == (start - (start % PageSize)) + ((start + k) % PageSize)
  <2>1. Target = [a \in Address |->
                    IF \E k \in PageIndex : k < bread /\ At_(k) = a
                    THEN mem[a] \cap areaWrite.data[CHOOSE k \in PageIndex : k < bread /\ At_(k) = a]
                    ELSE mem[a]]
    BY <1>5 DEF PageProgrammed
  <2> HIDE DEF At_
  <2>2. SUFFICES ASSUME NEW a \in Address, Target[a] # mem[a]
                 PROVE  \E k \in 0 .. file.len - 1 : Target[a] = mem[a] \cap file.byte[k]
    BY <1>6, <1>7
  <2>3. \E k \in PageIndex : k < bread /\ At_(k) = a
    BY <2>1, <2>2
  <2>4. PICK i \in PageIndex : i < bread /\ Target[a] = mem[a] \cap areaWrite.data[i]
    BY <2>1, <2>3
  <2>5. Target[a] = mem[a] \cap file.byte[addr + i] /\ addr + i \in 0 .. file.len - 1
    BY <1>1, <1>2, <2>4 DEF PageIndex
  <2> QED
    BY <2>5
<1>8. CASE ~ioErr
  <2>1. addr % PageSize = 0
    BY <1>8 DEF Paced, InStep, FileLoop, ChunkSize
  <2>2. Span(ChipMode) \in Nat \ {0} /\ Span(ChipMode) % PageSize = 0 /\ addr \in Int
        /\ FlashSize \in Nat \ {0} /\ FlashSize % PageSize = 0
    BY <1>2, SpanAssumption, SizesAssumption DEF Span
  <2> DEFINE at == addr % Span(ChipMode)
             start == at % FlashSize
  <2>3. at \in Nat /\ at % PageSize = 0
    <3>1. at % PageSize = addr % PageSize
      BY <1>2, <2>2, ModOfMod
    <3> QED
      BY <2>1, <2>2, <3>1
  <2>4. start \in Nat
    BY <2>2, <2>3
  <2>5. Target = [c \in Address |-> IF start <= c /\ c < start + bread
                                    THEN mem[c] \cap areaWrite.data[c - start] ELSE mem[c]]
    <3> HIDE DEF at
    <3>1. bread \in 0 .. PageSize
      BY <1>2
    <3>2. areaWrite.addr = at
      BY <1>1 DEF at
    <3> QED
      BY <1>5, <2>3, <3>1, <3>2, WholePage
  <2>6. ASSUME NEW a \in Address, Target[a] # mem[a]
        PROVE  \E k \in 0 .. file.len - 1 :
                 Cell(ChipMode, k) = a /\ Target[a] = mem[a] \cap file.byte[k]
    <3> DEFINE i == a - start
    <3>1. start <= a /\ a < start + bread /\ Target[a] = mem[a] \cap areaWrite.data[i]
      <4> HIDE DEF start
      <4> QED
        BY <2>5, <2>6
    <3>2. i \in 0 .. PageSize - 1 /\ i < bread /\ a = start + i
      <4> HIDE DEF start
      <4> QED
        BY <1>2, <2>2, <2>4, <3>1 DEF Address
    <3>3. Cell(ChipMode, addr + i) = a
      <4> HIDE DEF i
      <4>1. (addr + i) % Span(ChipMode) = at + i
        BY ONLY <1>2, <2>1, <2>2, <3>2, InBlock
      <4>2. at \in Int
        BY <2>3
      <4>3. (at + i) % FlashSize = start + i
        <5> HIDE DEF at
        <5> QED
          BY ONLY <1>2, <2>2, <2>3, <3>2, <4>2, InBlock
      <4> QED
        BY <3>2, <4>1, <4>3 DEF Cell
    <3>4. Target[a] = mem[a] \cap file.byte[addr + i] /\ addr + i \in 0 .. file.len - 1
      <4> HIDE DEF i
      <4> QED
        BY <1>1, <1>2, <3>1, <3>2 DEF PageIndex
    <3> QED
      BY <3>3, <3>4
  <2> QED
    BY <1>6, <2>6
<1> QED
  BY <1>7, <1>8

(* The same after a step. *)
LEMMA PageTargetNext == (BInv /\ Paced /\ Sent)' => PageIsFromTheFile'
BY PageTarget, PTL

(* The cells are settled where nothing is under way. *)
LEMMA SettledAtRest == ~busy /\ ~Started => Target = mem
BY DEF Target

(* What they are going to be is up to the hardware alone. *)
LEMMA TargetStays == UNCHANGED hw => Target' = Target
BY DEF Target, hw, Started, PageProgrammed, DataBytes, FrameLength

(* A step of the service. *)
ServiceStep == Service!Next \/ UNCHANGED Service!svars

(* The steps of the service as the programmer takes them. *)
LEMMA ServiceStutter ==
  ASSUME UNCHANGED <<mem, promId, op, file, ioErr, result>>, Target' = Target,
         (pc' = "idle") <=> (pc = "idle")
  PROVE  ServiceStep
BY DEF ServiceStep, Service!svars, Service!request, ChipMode

(* An operation ends with the answer the service promises. *)
LEMMA ServiceFinish ==
  ASSUME pc # "idle", UNCHANGED <<mem, promId, op, file>>, Target' = Target, pc' = "idle",
         ioErr' = FALSE,
         \/ result' \in Exceptions \cup {"killed"}
         \/ /\ Target = mem /\ Known(promId) /\ ~ioErr
            /\ \/ op = "erase" /\ result' = "done" /\ mem = Blank
               \/ /\ op = "program" /\ result' = "done"
                  /\ \A k \in 0 .. file.len - 1 : mem[Cell(ChipMode, k)] \subseteq file.byte[k]
               \/ op = "verify" /\ result' = "true" /\ \A k \in 0 .. file.len - 1 : InChip(k)
               \/ op = "dump" /\ result' = "true"
         \/ /\ Target = mem /\ Known(promId)
            /\ op = "verify" /\ result' = "false"
            /\ ioErr \/ \E k \in 0 .. file.len - 1 : ~InChip(k)
  PROVE  ServiceStep
<1>1. UNCHANGED <<mem, Target, Service!request>>
  BY DEF Service!request, ChipMode
<1>2. Known(promId) => \A k : Service!Place(k) = Cell(ChipMode, k)
  BY DEF Service!Place, Cell
<1>3. result' \in (Exceptions \cup {"killed"}) \cup {"done", "true", "false"}
  OBVIOUS
<1>4. Service!Promise(result')
  BY <1>2 DEF Service!Promise, Service!Succeeds, Service!Differs, Service!Settled, Service!InFile,
              Service!Image, Service!Empty, Blank, Address, Erased, InChip
<1>5. Service!Finish
  BY <1>1, <1>3, <1>4 DEF Service!Finish
<1> QED
  BY <1>5 DEF ServiceStep, Service!Next

(* The thread starts a transfer that changes nothing. *)
LEMMA ServiceTransfer ==
  ASSUME BInv, pc # "idle", pc' # "idle", UNCHANGED <<chip, call, locals, result>>, Started',
         areaWrite'.op \notin {"BE"} \cup PageProgramOps
  PROVE  ServiceStep
<1> USE DEF chip, call, locals, stack
<1>1. Target' = IF busy THEN memNext ELSE mem
  BY DEF Target
<1>2. CASE busy
  <2>1. Target' = Target
    BY <1>1, <1>2 DEF Target
  <2> QED
    BY <2>1, ServiceStutter
<1>3. CASE ~busy /\ Target = mem
  BY <1>1, <1>3, ServiceStutter
<1>4. CASE ~busy /\ Target # mem
  <2>1. Service!CallOff
    BY <1>1, <1>4 DEF Service!CallOff, Service!Settled, Service!request, ChipMode
  <2> QED
    BY <2>1 DEF ServiceStep, Service!Next
<1> QED
  BY <1>2, <1>3, <1>4

(* The start of a transfer: an erase or a page is sent, another one changes nothing. *)
LEMMA ServiceByTransfer ==
  ASSUME BInv, BInv', Paced', Sent', PageIsFromTheFile',
         \/ ReadMemoryId \/ MemoryWriteEnable \/ MemoryBulkErase \/ ReadStatus \/ ReadConfig
         \/ WriteConfig \/ ProgramMemoryPage \/ FastRead
  PROVE  ServiceStep
<1> USE DEF BInv, IInv
<1>1. CASE ReadMemoryId \/ MemoryWriteEnable \/ ReadStatus \/ ReadConfig
  BY <1>1, ServiceTransfer DEF ReadMemoryId, IdSteps, MemoryWriteEnable, ReadStatus, ReadConfig,
     Transfer, At,
     Started, Frame, PageProgramOps
<1>2. CASE WriteConfig
  BY <1>2, ServiceTransfer DEF WriteConfig, Transfer, At, Started, Frame, PageProgramOps
<1>3. CASE FastRead
  <2>1. areaWrite'.op = FastReadOp(Mode)
    BY <1>3 DEF FastRead, Transfer, Frame
  <2> QED
    BY <1>3, <2>1, ServiceTransfer DEF FastRead, Transfer, At, Started, FastReadOp, PageProgramOps
<1>4. CASE MemoryBulkErase
  <2>1. pc = "bulkErase" /\ pc' = "readStatus" /\ ~busy /\ ~Started /\ op = "erase"
        /\ UNCHANGED <<chip, call, locals, result>>
    BY <1>4 DEF MemoryBulkErase, Transfer, At, Handshake, Started, QuietWhereAssumed,
       QuietLabels, Position
  <2>2. Target = mem
    BY <2>1, SettledAtRest
  <2>3. Target' = Blank
    <3>1. areaWrite'.op = "BE" /\ Started' /\ ~busy'
      BY <1>4, <2>1 DEF MemoryBulkErase, Transfer, Started, Frame, chip
    <3> QED
      BY <3>1 DEF Target, PageProgramOps
  <2>4. Service!SendErase
    BY <2>1, <2>2, <2>3 DEF Service!SendErase, Service!Settled, Service!Empty, Service!request,
       Blank, Address, Erased,
       ChipMode, chip, call, locals, stack
  <2> QED
    BY <2>4 DEF ServiceStep, Service!Next
<1>5. CASE ProgramMemoryPage
  <2>1. pc = "programPage" /\ pc' = "readStatus" /\ ~busy /\ ~Started /\ op = "program" /\ Started'
        /\ UNCHANGED <<chip, call, locals, result>> /\ Known(promId)
    BY <1>5 DEF ProgramMemoryPage, Transfer, At, Handshake, Started, QuietWhereAssumed,
       QuietLabels, Position, Identified
  <2>2. Target = mem
    BY <2>1, SettledAtRest
  <2>3. UNCHANGED <<mem, promId, op, file, ioErr, result>>
    BY <2>1 DEF chip, call, locals, stack
  <2>4. \A k : Cell(ChipMode, k)' = Cell(ChipMode, k)
    BY <2>3 DEF ChipMode, Cell
  <2>5. /\ Target' \in Memory
        /\ \A a \in Address :
             \/ Target'[a] = mem[a]
             \/ \E k \in 0 .. file.len - 1 :
                  (Cell(ChipMode, k) = a \/ ioErr) /\ Target'[a] = mem[a] \cap file.byte[k]
    BY <2>1, <2>3, <2>4 DEF PageIsFromTheFile
  <2>6. \A k : Service!Place(k) = Cell(ChipMode, k)
    BY <2>1 DEF Service!Place, Cell
  <2>7. DOMAIN mem = Address
    BY DEF TypeOK, HwTypeOK, Memory
  <2>8. Service!SendBytes
    BY <2>1, <2>2, <2>3, <2>5, <2>6, <2>7
       DEF Service!SendBytes, Service!Settled, Service!Cells, Service!InFile, Service!Image,
       Service!request,
           Memory, Address, Byte, ChipMode
  <2> QED
    BY <2>8 DEF ServiceStep, Service!Next
<1> QED
  BY <1>1, <1>2, <1>3, <1>4, <1>5

(* A step of the thread that sends nothing: a read that fails is a Misread, the end of an *)
(* operation keeps its promise and the others are invisible.                              *)
LEMMA ServiceByThread ==
  ASSUME BInv, ImageInv, ErasedAsAsked, ImageInv', ErasedAsAsked',
         \/ Poll \/ CheckMemoryId \/ SelectMode \/ TestStatus \/ OpenFile \/ OpenDump \/ ReadChunk
         \/ Compare \/ Store
  PROVE  ServiceStep
<1> USE DEF BInv, IInv
<1>1. UNCHANGED <<hw, call>> /\ Software
  BY DEF Poll, CheckMemoryId, SelectMode, TestStatus, OpenFile, OpenDump, ReadChunk, Compare,
     Store, Software
<1>2. Target' = Target /\ UNCHANGED <<mem, promId, op, file>>
  BY <1>1, TargetStays DEF hw, call
<1>3. pc # "idle"
  BY DEF Poll, CheckMemoryId, SelectMode, TestStatus, OpenFile, OpenDump, ReadChunk, Compare,
     Store, At, Handshake
<1>4. CASE pc' # "idle"
  <2>1. result' = result
    BY <1>4 DEF Poll, CheckMemoryId, SelectMode, TestStatus, OpenFile, OpenDump, ReadChunk,
       Compare, Store, NextBlock,
       Goto, Return
  <2>2. CASE ioErr' = ioErr
    BY <1>2, <1>3, <1>4, <2>1, <2>2, ServiceStutter
  <2>3. CASE ioErr' # ioErr
    <3>1. ReadChunk
      BY <1>4, <2>3 DEF Poll, CheckMemoryId, SelectMode, TestStatus, OpenFile, OpenDump, Compare,
         Store, NextBlock,
         Goto, Return, stack
    <3>2. op \in {"program", "verify"}
      BY <3>1 DEF ReadChunk, At, Position
    <3>3. ioErr' = TRUE
      <4>1. ~ioErr' => ~ioErr
        BY <1>4, <3>1, BlockRead DEF Return
      <4>2. ioErr \in BOOLEAN /\ ioErr' \in BOOLEAN
        <5>1. ioErr \in BOOLEAN
          BY DEF TypeOK
        <5>2. ioErr' \in BOOLEAN
          BY <1>4, <3>1 DEF ReadChunk, Return, ReadFailed
        <5> QED
          BY <5>1, <5>2
      <4> QED
        BY <2>3, <4>1, <4>2
    <3>4. Service!Misread
      BY <1>2, <1>3, <1>4, <2>1, <3>2, <3>3 DEF Service!Misread, Service!request, ChipMode
    <3> QED
      BY <3>4 DEF ServiceStep, Service!Next
  <2> QED
    BY <2>2, <2>3
<1>5. CASE pc' = "idle"
  <2>1. ioErr' = FALSE
    <3>1. CASE ReadChunk
      BY <1>5, <3>1, BlockRead DEF FileLoop, Return
    <3>2. CASE ~ReadChunk
      BY <1>5, <3>2
         DEF Poll, CheckMemoryId, SelectMode, TestStatus, OpenFile, OpenDump, Compare, Store,
             NextBlock, Goto, Return, At, Handshake, TypeOK, Operation
    <3> QED
      BY <3>1, <3>2
  <2>2. CASE result' \in Exceptions
    BY <1>2, <1>3, <1>5, <2>1, <2>2, ServiceFinish
  <2>3. CASE result' \in {"done", "true", "false"}
    <3>1. Known(promId) /\ ~busy /\ ~Started
      BY <1>1, <1>5, <2>3 DEF ImageInv, Paced, AtRest, Started, hw
    <3>2. Target = mem /\ mem = memNext
      BY <3>1, SettledAtRest DEF ImageInv, Paced, Steady
    <3>3. memNext' = memNext /\ ChipMode' = ChipMode
      BY <1>1 DEF hw, ChipMode
    <3>4. CASE TestStatus /\ op = "erase" /\ result' = "done"
      <4>1. mem = Blank
        BY <1>2, <1>5, <3>4 DEF ErasedAsAsked
      <4>2. ~ioErr
        BY <3>4 DEF ImageInv, Paced, InStep
      <4> QED
        BY <1>2, <1>3, <1>5, <2>1, <3>1, <3>2, <3>4, <4>1, <4>2, ServiceFinish
    <3>5. CASE ReadChunk /\ result' = (IF op = "program" THEN "done" ELSE "true")
      <4>1. ~ioErr
        <5>1. result' # "ReadError" /\ pc' \notin FileLoop
          BY <1>5, <2>3 DEF FileLoop
        <5> QED
          BY <3>5, <5>1, BlockRead DEF Return
      <4>2. op \in {"program", "verify"}
        BY <3>5 DEF ReadChunk, At, Position
      <4>3. CASE op = "program"
        <5>1. \A k \in 0 .. file.len - 1 : mem[Cell(ChipMode, k)] \subseteq file.byte[k]
          BY <1>2, <1>5, <3>2, <3>3, <3>5, <4>3 DEF ImageInv, ClearedSoFar, Returned, Cleared, Cell
        <5> QED
          BY <1>2, <1>3, <1>5, <2>1, <3>1, <3>2, <3>5, <4>1, <4>3, <5>1, ServiceFinish
      <4>4. CASE op = "verify"
        <5>1. \A k \in 0 .. file.len - 1 : InChip(k)
          BY <1>2, <1>5, <3>3, <3>5, <4>4 DEF ImageInv, VerifyIsRight, Returned, InChip, Cell
        <5> QED
          BY <1>2, <1>3, <1>5, <2>1, <3>1, <3>2, <3>5, <4>1, <4>4, <5>1, ServiceFinish
      <4> QED
        BY <4>2, <4>3, <4>4
    <3>6. CASE Compare /\ ~Same /\ result' = "false"
      <4>1. op = "verify"
        BY <3>6 DEF Compare, At, Position
      <4>2. ioErr \/ \E k \in 0 .. file.len - 1 : ~InChip(k)
        BY <3>6, MismatchIsReal DEF ImageInv
      <4> QED
        BY <1>2, <1>3, <1>5, <2>1, <3>1, <3>2, <3>6, <4>1, <4>2, ServiceFinish
    <3>7. CASE Store /\ result' = "true"
      <4>1. op = "dump" /\ ~ioErr
        BY <3>7 DEF Store, At, Position, ImageInv, Paced, InStep
      <4> QED
        BY <1>2, <1>3, <1>5, <2>1, <3>1, <3>2, <3>7, <4>1, ServiceFinish
    <3> QED
      BY <1>1, <1>5, <2>3, <3>4, <3>5, <3>6, <3>7, Endings DEF Exceptions
  <2> QED
    BY <1>1, <1>5, <2>2, <2>3, Endings
<1> QED
  BY <1>4, <1>5

(* A step of the hardware carries out a part of what was sent, or nothing. *)
LEMMA ServiceByHardware ==
  ASSUME BInv, ImageInv, Hardware
  PROVE  ServiceStep
<1> USE DEF BInv, IInv
<1>1. UNCHANGED <<thread, call, locals, result, promId>> /\ (~busy => mem' = mem)
  BY HardwareLeaves
<1>2. UNCHANGED <<pc, op, file, ioErr, result, promId>>
  BY <1>1 DEF thread, call, locals, stack
<1>3. CASE WriteDone
  <2>1. Target = memNext /\ Target' = memNext /\ mem' = memNext
    <3>1. busy /\ ~busy' /\ mem' = memNext /\ UNCHANGED <<control, areaWrite>>
      BY <1>3 DEF WriteDone, regs
    <3>2. Started => areaWrite.op \notin {"BE"} \cup PageProgramOps
      BY <3>1 DEF WriteCommandsAreCarriedOut, Accepted, PageProgramOps
    <3> QED
      BY <3>1, <3>2 DEF Target, Started
  <2>2. CASE memNext = mem
    BY <1>2, <2>1, <2>2, ServiceStutter
  <2>3. CASE memNext # mem
    <3>1. Service!TakeEffect
      BY <1>2, <2>1, <2>3 DEF Service!TakeEffect, Service!Settled, Service!request, ChipMode
    <3> QED
      BY <3>1 DEF ServiceStep, Service!Next
  <2> QED
    BY <2>2, <2>3
<1>4. CASE Execute
  <2>1. Started /\ ~Started' /\ mem' = mem
    BY <1>4 DEF Execute, Started, ExecReadId, ExecReadStatus, ExecReadConfig, ExecFastRead,
       ExecWriteEnable,
       ExecBulkErase, ExecWriteRegisters, ExecPageProgram
  <2>2. Target' = Target
    <3>1. CASE areaWrite.op = "BE"
      <4>1. Accepted(1)
        BY <2>1, <3>1 DEF WriteCommandsAreCarriedOut, PageProgramOps
      <4>2. busy' /\ memNext' = Blank
        BY <1>4, <3>1, <4>1 DEF Execute, ExecReadId, ExecReadStatus, ExecReadConfig,
           ExecFastRead, ExecWriteEnable,
           ExecBulkErase, ExecWriteRegisters, ExecPageProgram, PageProgramOps, FastReadOps
      <4> QED
        BY <2>1, <3>1, <4>1, <4>2 DEF Target, Accepted, PageProgramOps
    <3>2. CASE areaWrite.op \in PageProgramOps
      <4>1. Accepted(FrameLength) /\ DataBytes \in 1 .. PageSize
        BY <2>1, <3>2 DEF WriteCommandsAreCarriedOut, PageProgramOps
      <4>2. ExecPageProgram
        BY <1>4, <3>2 DEF Execute, ExecReadId, ExecReadStatus, ExecReadConfig, ExecFastRead,
           ExecWriteEnable, ExecBulkErase, ExecWriteRegisters, PageProgramOps, FastReadOps
      <4>3. ~busy /\ wel /\ DataBytes > 0
        BY <4>1, SizesAssumption DEF Accepted
      <4>4. busy' /\ memNext' = PageProgrammed(areaWrite.addr, DataBytes)
        BY <4>2, <4>3 DEF ExecPageProgram, DataBytes
      <4> QED
        BY <2>1, <3>2, <4>3, <4>4 DEF Target, PageProgramOps
    <3>3. CASE areaWrite.op \notin {"BE"} \cup PageProgramOps
      <4>1. memNext' = memNext
        BY <1>4, <3>3
           DEF Execute, ExecReadId, ExecReadStatus, ExecReadConfig, ExecFastRead, ExecWriteEnable,
               ExecBulkErase, ExecWriteRegisters, ExecPageProgram
      <4>3. busy => busy'
        BY Zenon, <1>4
           DEF Execute, ExecReadId, ExecReadStatus, ExecReadConfig, ExecFastRead, ExecWriteEnable,
               ExecBulkErase, ExecWriteRegisters, ExecPageProgram
      <4>2. ~busy => mem = memNext
        BY DEF ImageInv, Paced, Steady
      <4> QED
        BY <2>1, <3>3, <4>1, <4>2, <4>3 DEF Target
    <3> QED
      BY <3>1, <3>2, <3>3
  <2> QED
    BY <1>2, <2>1, <2>2, ServiceStutter
<1> QED
  BY <1>3, <1>4 DEF Hardware

(* A call begins a request, a kill ends it without an answer. *)
LEMMA ServiceByCall ==
  ASSUME BInv, BInv', Call \/ Kill
  PROVE  ServiceStep
<1>1. UNCHANGED hw /\ Target' = Target
  BY CallLeaves, TargetStays
<1>2. CASE Call
  <2>1. /\ pc = "idle" /\ pc' # "idle" /\ op' \in Operation /\ file' \in Files /\ result' = "none"
        /\ UNCHANGED stack
    BY <1>2 DEF Call, CallErase, CallProgram, CallVerify, CallDump, Begin, BInv, IInv, TypeOK,
       Operation
  <2>2. Service!Begin
    BY <1>1, <2>1 DEF Service!Begin, Operation, hw, stack, ChipMode
  <2> QED
    BY <2>2 DEF ServiceStep, Service!Next
<1>3. CASE Kill
  BY <1>1, <1>3, ServiceFinish DEF Kill, Return, hw, call
<1> QED
  BY <1>2, <1>3

(* The programmer starts as the service does. *)
LEMMA ServiceBegins == Init => Service!Init
<1> SUFFICES ASSUME Init PROVE Service!Init
  OBVIOUS
<1>1. mem \in Memory /\ promId \in Ids
  BY ContentsAssumption DEF Init, HwInit
<1>2. Target = mem
  BY SettledAtRest DEF Init, HwInit, Started
<1>3. (IF Known(promId) THEN Span(ChipMode) ELSE 1) \in Nat \ {0}
  BY ModeTypes
<1> QED
  BY <1>1, <1>2, <1>3
     DEF Service!Init, Service!Cells, Service!Settled, Memory, Address, Byte, Init

(* The programmer over its registers implements the service: what the chip holds changes in *)
(* the steps of Service only, and what an operation answers is what Service promises.       *)
THEOREM SpiImplementsService == Spec => Service!Safety
<1> DEFINE All == BInv /\ ImageInv /\ ErasedAsAsked
<1>1. Spec => []All
  BY ImageInvariance, ErasureInvariance, PTL
<1>2. All /\ All' /\ PageIsFromTheFile' /\ [Next]_vars => ServiceStep
  <2>1. ASSUME All, All', UNCHANGED vars PROVE ServiceStep
    <3>1. UNCHANGED hw /\ UNCHANGED <<mem, promId, op, file, ioErr, result, pc>>
      BY <2>1 DEF vars, hw, thread, call, locals, stack
    <3> QED
      BY <3>1, TargetStays, ServiceStutter
  <2>2. ASSUME All, All', PageIsFromTheFile', Software PROVE ServiceStep
    BY <2>2, ServiceByTransfer, ServiceByThread DEF Software, ImageInv
  <2> QED
    BY <2>1, <2>2, ServiceByHardware, ServiceByCall DEF Next
<1>3. All' => PageIsFromTheFile'
  BY PageTarget, PTL DEF ImageInv
<1>4. ServiceStep => [Service!Next]_(Service!svars)
  BY DEF ServiceStep
<1> QED
  BY <1>1, <1>2, <1>3, <1>4, ServiceBegins, PTL DEF Spec, Service!Safety

=============================================================================
