# FirmwareProgrammer in TLA+

`mtca4u_fw_programmer` erases, programs, verifies and dumps the PROM of a MicroTCA board through
registers of the running FPGA, either by SPI commands to the chip or by playing an XSVF file at a
JTAG port. This directory holds TLA+ models of that code, TLC runs that check them on small
instances, and TLAPS proofs of the most important invariants for all values of the constants.

## 1. Inventory of the system

| Component | Source | State it keeps | Operations | Modelled in |
|---|---|---|---|---|
| SPI programmer | `src/MtcaProgrammerSPI.cpp` | locals of the running operation; the table `known_proms` | erase, program, verify, dump, and the command sequences they are built from | `SpiProgrammer`, abstractly `FlashService` |
| SPI master and PROM chip (external) | used by `src/MtcaProgrammerSPI.cpp` through `include/registers.h` | registers; cells, configuration register, write enable latch, write in progress | carry out a transfer; end a write | `SpiFlash` |
| File headers | `checkFirmwareFile`, `findDataOffset` of `src/MtcaProgrammerSPI.cpp` | none | accept a file, find its first data byte | `BitstreamHeader` |
| XSVF player, file | `run`, `xsvfRun` and the commands of `src/XSVFPlayer.cpp` | `SXsvfInfo` with its byte strings, the position in the file, the counters of commands | the dummy and the real pass; one operation per command | `XsvfPlayer`, abstractly `XsvfScript`; codes in `XsvfCommands` |
| XSVF player, TAP | `xsvfGotoTapState`, `xsvfShift`, `xsvfDoXWAIT` | TAP state, end states, repeat count, wait time, error code | move, shift, retry, wait | `XsvfTap` |
| XSVF player, data | `xsvfShiftOnly`, `xsvfDoSDRMasking` | byte strings | exchange data with the chain; compute the data of XSDRINC | `XsvfShift`, abstractly `DataExchange`; `XsvfIncrement` |
| lenval | `src/lenval.cpp` | none | value of, comparison of, sum of byte strings | `LenVal` |
| TAP controller (external) | IEEE 1149.1, codes in `include/XSVFPlayerConstants.h` | one of sixteen states | a step per rising edge of TCK | `JtagTap` |
| JTAG programmer | `src/MtcaProgrammerJTAG.cpp` | pin registers | program plays the file; `setPort`, `readTDOBit`, `waitTime`; erase and verify do nothing | pins in `XsvfShift`, `waitTime` in `XsvfTap`, operations in `FirmwareProgrammer` |
| main | `src/main.cpp` | the parsed options | check the file, then erase, program, verify, dump, reboot as asked; exit code | `FirmwareProgrammer` |
| Register layout | `src/MtcaProgrammerBase.cpp` | register accessors | find the registers of the boot area | that it can fail: `Construct` of `FirmwareProgrammer` |
| Board scripts | `scripts/*` | memory switch and JTAG chain of a board, PCI device | switch, program, switch back, reload | their command line: run `main_scripts` |
| Progress bar | `src/progress_bar.cpp` | — | display | not modelled |
| Build and style scripts | `CMakeLists.txt`, `cmake/*` | — | — | not modelled |

**Interaction.** `main` calls the four operations of `MtcaProgrammerBase`, one after the other in
one thread. The SPI programmer and the hardware share the register block: the programmer clears
`REG_CONTROL`, fills `AREA_WRITE` and the length registers, sets `SPI_START`, polls until the SPI
master has done the transfer, and reads `AREA_READ`. The chip finishes erases and page programs on
its own. The JTAG programmer calls `XSVFPlayer::run`, which calls it back for every pin change and
wait.

**What is hard.** There is no concurrency inside the program, but there is between the program
and the hardware, and nothing of an operation survives it except what it did to the hardware: it
can be killed (a user does that to an erase that takes a minute), it can time out with a transfer
under way, and the next operation begins in whatever state that left. The registers keep their
values too, and two sequences rely on what an earlier one left in `REG_BYTES_TO_WRITE`. In the XSVF
player the difficulty is a state that is kept twice: the TAP controller is a state machine on the
board, `ucTapState` is the player's belief about it, and every command and retry must keep the two
together without ever reading one back. The player also reads its file twice: the first, dummy pass
ignores errors and sees zeroes on TDO, and what it leaves in the byte strings is there when the real
pass begins. Above both programmers, `main` is run again and again on a chip that may still be
carrying out what a killed invocation asked for. The full list of hazards, each at its line, is in
`PROJECT.json`.

**What makes each component correct.**

* SPI programmer: an answer is true of the chip (erased, programmed, verified, dumped) or there is
  none; a command that modifies the chip meets it idle and enabled and has its exact length; a page
  program stays in its page; a chip that is not known is not touched; every operation ends.
* XSVF player: the belief about the TAP is right; bits are shifted in the shift state they are meant
  for; waits are waited where they are meant; a shift ends in its end state; an exhausted retry is
  reported as one; every command ends. The data arrive in the chain bit by bit in the right order, also
  in a retry. Both passes stay in step with the commands of the file, the real pass plays them in
  order, each with its own data, and run() ends.
* lenval: addition and masking are what they are on numbers, across the borders of bytes.
* File headers: programming and verifying use the same offset, and it is the start of the data.
* main: no operation follows a failed one; what is reported as success has happened.

## 2. Modules

```
SpiFlash ─── SpiProgrammer ─┬─ MCSpiProgrammer                 (runs spi_*)
                            ├─ SpiProgrammerProofs             (TLAPS)
                            └─INSTANCE─ FlashService ─┐
                                                      │ INSTANCE
                         FirmwareProgrammer ──────────┘
                            ├─ MCFirmwareProgrammer            (runs main_*)
                            └─ FirmwareProgrammerProofs        (TLAPS)
BitstreamHeader ─┬─ MCBitstreamHeader                          (run header)
                 └─ BitstreamHeaderProofs                      (TLAPS)

JtagTap ─┬─ XsvfTap ────┬─ MCXsvfTap                           (runs xsvf_tap, xsvf_long_wait)
         │              └─ XsvfTapProofs                       (TLAPS)
         └─ XsvfPlayer ─┬─ MCXsvfPlayer                        (runs xsvf_player, xsvf_counting)
 XsvfCommands ┘  │      ├─ XsvfPlayerProofs                    (TLAPS)
                 │      └─INSTANCE─ XsvfScript
                 │
LenVal ─┬────────┼─ XsvfShift ──┬─ MCXsvfShift                 (run xsvf_shift)
        │        │              ├─ XsvfShiftProofs             (TLAPS)
        │        │              └─INSTANCE─ DataExchange
        │        └─ XsvfIncrement ─┬─ MCXsvfIncrement          (run xsvf_increment)
        │                          └─ XsvfIncrementProofs      (TLAPS)
        └─ LenValProofs ── XsvfShiftProofs, XsvfIncrementProofs, XsvfPlayerProofs   (TLAPS)
```

Lines are EXTENDS unless they say otherwise.

### SpiFlash: the hardware

The SPI master and the chip are not in the repository. They are modelled from how the code uses
them, and the assumptions are these:

* Setting `SPI_START` makes the master clock `REG_BYTES_TO_WRITE`+1 bytes of `AREA_WRITE` to the
  chip and, with `SPI_R_NW`, `REG_BYTES_TO_READ`+1 bytes into `AREA_READ`. It looks at the registers
  only then, and clearing `REG_CONTROL` calls off a transfer it has not carried out.
* While an erase, a page program or a register write is in progress the chip answers status reads
  only; other reads find an undriven line (all ones, no identifier).
* A modifying command takes effect only on an idle chip, enabled by WREN, and with its exact
  length; programming clears bits; a page program wraps inside its page; the end of a write clears
  the write enable latch.
* The first identifier read after another command may be garbage ("first read returns garbage",
  `MtcaProgrammerSPI.cpp:263`).

A byte is the set of its 1 bits, so programming is intersection and an erased byte is the set of
all bits.

### SpiProgrammer: MtcaProgrammerSPI

`pc` names the register sequence the thread is about to send or the answer it is about to look at,
`waiting` and `polls` are `waitForSpi`. Each action is one register sequence, one decision or one
poll:

| Action | Code |
|---|---|
| `CallErase`, `CallProgram`, `CallVerify`, `CallDump` | the four operations |
| `ReadMemoryId`, `CheckMemoryId`, `SelectMode` | `getMemoryId` (two reads), `checkMemoryId`, `known_proms.at()` |
| `MemoryWriteEnable`, `MemoryBulkErase`, `ReadStatus`, `TestStatus` | the functions of these names and the loops on the status |
| `ReadConfig`, `WriteConfig` | `enableQuadMode` |
| `OpenFile`, `ReadChunk`, `ProgramMemoryPage` | `programMemory`, `programMemoryPage` |
| `FastRead`, `Compare`, `Store`, `OpenDump` | `verify`, `dump` |
| `Poll` | `waitForSpi`, with its timeout |
| `Kill` | the process ends between any two steps |

A sequence that fills the registers and sets `SPI_START` is one step because the hardware looks at
them only at its end. Any operation may follow any other at once, also a killed one, so a run of
the model covers any number of invocations of the program. A file is the outcome of opening it, the
outcome of the header search and the bytes from the data offset on; `fread` may return less than
asked for at any time, which is an I/O error, and the flag it sets is kept as `ioErr`.

### FlashService: what the callers rely on

The abstract specification has no registers, commands, pages or chunks. The cells change only
through erase and program, an operation ends with an answer that is true of the chip at that moment,
or with a failure. Because a failed operation may leave a command behind, `target` says what the
cells will be once the last command has had its effect. `SpiProgrammer!Service` instantiates it with
`target` computed from the write in progress and the transfer outstanding.

A read of the file that fails does not end the loop at once: the next block is read from where the file
stands, and its bytes go to (or are compared with) addresses they do not belong to, until the error flag is
looked at behind the loop. `Misread` is that step, and `misread` says that an operation has taken it: a
program can then no longer succeed, and a verify that answers "false" before it comes to the flag has
found a difference that need not be one of the file.

### JtagTap and XsvfTap: the XSVF player at the JTAG port

`JtagTap` is the TAP controller. `XsvfTap` has one action per XSVF command that touches the TAP or
sets a parameter of a shift (`XSIR` stands for XSIR and XSIR2, `XSDR` for XSDR and XSDRTDO,
`XSDRBCE` for the six streaming shifts), and the steps of `xsvfGotoTapState` (`Goto`, `Move`: one
TCK edge), `xsvfShiftOnly` (`ShiftBit`: one bit), `xsvfShift` (`Compare`, `Retry`, `AfterShift`,
`RunTestWait`, `ShiftAgain`, `GiveUp`, `EndShift`) and `xsvfDoXWAIT` (`XWAIT`, `EndXWAIT`). What the
chain answers on TDO is any answer, so the comparison has any outcome. Commands that only store
data (XTDOMASK, XSETSDRMASKS, XCOMMENT) change nothing at this level. The model is of the pass of
`run()` that drives the pins, which ends with XCOMPLETE or after the command that failed (`Stop`);
the TAP may be in any state when it begins.

### LenVal: byte strings

`lenVal` with its fixed buffer, `value`, `EqualLenVal` (with and without a mask), `addVal`, `readVal` and
`xsvfDoSDRMasking`, as functions on records. The bytes of the buffer behind the length keep what a longer
value has left there, because the code compares and adds as many bytes as *another* string has. The
length in bytes is cast to a `short` (`xsvfGetAsNumBytes`). The number of bits of a byte is a constant. Powers
of two and sums are recursive functions, not `^` and not RECURSIVE operators, so that they can be proved about.

### XsvfShift and DataExchange: the data of a shift

`XsvfShift` is one `xsvfShift` with its retries at the level of the pins: `Present` (setPort of TDI, then TCK
low), `ReadTdo` (readTDOBit, which polls the register TCK is read back from until it is low), `ClockHigh`,
`Compare`, `Again` (a retry, before which the register of the chain captures something new). The chain
puts out a bit on the falling edge and shifts on the rising one; `Settle` is the register with TCK that
follows the pin after a while. `DataExchange` says what that amounts to: in one step the register takes
the data and its old contents are judged. `XsvfShift` implements it.

### XsvfIncrement: the data of XSDRINC

`Piece` reads the next piece of data and applies `xsvfDoSDRMasking`; the properties compare the result with
arithmetic on numbers. The comment on XSDRINC (`XSVFPlayer.cpp:962`) replaces the masked bits and then adds the
address mask, the code adds first and then replaces (line 668). `PieceIsApplied` states the order of the comment, for
an address field above the data field (`Apart`; line 650 has an example), where it comes to the same.

### XsvfPlayer, XsvfCommands and XsvfScript: a file and its two passes

A file is a sequence of commands encoded to bytes (`Encoded`), and `XsvfPlayer` reads bytes: when a pass falls out of
step with the commands it takes data for commands, as the code does, and behind the end it reads 0xff.
One action is one command (`DoXTDOMASK` … `DoXWAIT`, `IllegalCmd`), XSDRINC also has one per piece (`Piece`).
`CannotOpen` (the `fopen` that fails, line 63), `BeginDummy`, `BeginReal` and `EndRun` are `run()`, with what
`xsvfInfoInit` resets and what it does not (the
byte strings). A shift is its outcome: the dummy pass captures zeroes, the real one anything. Two kinds
of behaviour leave what the code defines: `Loop` (a target that is no TAP state, a comment without an end,
the count of a long data mask in `DoXSDRINC`) does not return, and behind `Overrun` (data that do not fit
the buffers) nothing is said. `XsvfScript` is what a caller expects: the commands of the file are
carried out in order, each once and with its own data, up to XCOMPLETE or the first that fails, or the file is
refused.

What a translator writes is stated on the commands, without the player: a file is `WellFormed` if XCOMPLETE
ends it and every command has as many bytes of data as its code and the commands before it ask for (the size of
the last XSDRSIZE, the data mask of the last XSETSDRMASKS; `Setting`), with lengths whose bytes a short
can count. It is `Countable` if the dummy pass, which goes on behind an error and reads only 0 from the
chain, meets no error that leaves data unread: no instruction too long for the buffers, and
no XSDRINC that expects anything but zeroes (`xsvf_counting`). It is `Playable` if the targets of its XSTATE and
XWAIT are TAP states, what it reads or shifts with the size of XSDRSIZE fits a buffer, and each XSDRINC has a data mask
that its loop can count. An `ASSUME` of `MCXsvfPlayer` has TLC confirm that the good files of the run are all three.

`XsvfTap`, `XsvfShift` and `XsvfIncrement` are refinements of single steps of `XsvfPlayer` in words, not by a
mapping: the TAP state behind a shift (`AfterShift`) is what `ShiftEndsInEndState` proves of `XsvfTap`, the
comparison what `ImplementsExchange` shows of `XsvfShift`.

### BitstreamHeader: where the data begin

A firmware file is described by its layout: whether it begins with the pattern of a bit file, the length
of the header, the padding, the bus width pattern, the gap, and whether there is a sync word.
`findDataOffset` searches these bytes as the code does, the up to three bytes behind its buffer being
arbitrary (`lucky`). `CheckFirmwareFile`, `Erase`, `Program` and `Verify` are the calls of `main`, of which the last
two search again.

### FirmwareProgrammer: main

One action per step of `main`: `ParseArguments` (with the cuts of the bar to a byte and of the size to 32
bits), `VerifyArguments`, `Construct`, `CheckFirmwareFile`, `CallSpi` and `SpiReturns`, the operations of the
JTAG programmer, `Reload`. `Kill` ends an invocation anywhere, and `Start` begins the next with any command
line. The SPI programmer is `FlashService` (`Chip == INSTANCE FlashService`): its steps interleave with those
of main, and a command it has left behind may take effect (`TakeEffect`) or be called off (`CallOff`)
in a later invocation. That the SPI programmer is such a service is what run `spi_service` shows. A JTAG
programming may do anything to the chip, any number of times (`JtagPlay`), and may return or fail at any time
(`JtagReturns`), or never: `XSVFPlayer::run` does not end for every file.

## 3. Runs

Constants are small, but each is chosen so that the case it stands for happens.

| Run | Instance | Shows |
|---|---|---|
| `spi_all` | chips with 24 bit addresses, with 32 bit addresses and quad mode, and one that is not known; 8 cells of one bit in pages of 2, chunks of 4; a configuration register of two bits; files of 5 bytes (three pages, two chunks), of none, missing, without sync word; dumps of 5 and of no byte; timeout on the second poll | the safety invariants of the four operations |
| `spi_service` | the two known chips with 4 cells, one file of 3 bytes, of which the last alone clears bits | `SpiProgrammer` implements `FlashService`; every call returns |
| `spi_alias` (violation) | 8 cells, three address bytes that reach 4 | a dump of a chip beyond its address range repeats its beginning |
| `xsvf_tap` | shifts of 0 and 2 bits, and 3, which is too long; 0, 1 or 2 retries, of which 2 is the largest the counter holds; with and without wait; XSTATE and XWAIT to all states | the invariants of the player at the TAP; for which counts exhausted retries are reported; every command ends |
| `xsvf_long_wait` (violation) | a wait of 200 seconds | it is cut to 30 |
| `xsvf_shift` | bytes of two bits; shifts of 1, 2 and 3 bits; all registers, several data and masks | the data of a shift, its comparison, and its end |
| `xsvf_increment` | bytes of two bits; all values, address masks and data masks of two bytes; three pieces | the arithmetic of XSDRINC, in the order of its comment |
| `xsvf_player` | bytes of five bits; files of two commands from a palette of every kind behind a prologue; files that are unterminated, oversized or misleading, and files with sizes of 256, 512 and 513 bytes, which the short (here of 512 values) holds as -256, 0 and 1; a file that cannot be opened | the real pass plays the script, from any file; good files keep both passes in step, are counted right, leave no buffer, and end |
| `xsvf_counting` (violation) | an XSDRINC that expects something other than zeroes | the dummy pass takes its parameters for commands |
| `header` | a buffer of 512 bytes; files with the sync word at any place around its end, with and without bus width pattern, too short, or without sync word | where the data begin, in program and verify; what is refused late |
| `main_any` | a chip of two cells of one bit; every combination of actions; every option that is refused; both interfaces | what exit code 0 and a reboot promise |
| `main_scripts` (violation) | the command line of the board scripts | it is refused |

**Why the bounds are enough.** A page of two bytes distinguishes a page that is filled from one that
is not, a chunk of two pages is larger than a page, and an image of five bytes has full pages and a
partial one, a full chunk and a partial one. One bit per byte distinguishes all that programming (clear)
and erasing (set) can do. A timeout at the second poll allows an answer before, in and after the last
poll. Two bits are a first and a last one. Two retries have a first one, a last one, and a round after
the last. Repeat counters have 3 values instead of 256; only the wrap at the end matters. Three bits in
bytes of two are a part of a byte, a whole one, and a byte and a half; two bytes are enough for a carry
and for data that cross from one byte to the next. Five bits hold the code of every command, and an end
of file that is none. In the files of `xsvf_player` two commands in a row are enough for one to find what
any other has left, and the second pass for what the whole first has left; the index of the loop over
the data mask wraps at 4 instead of 256, and the counter of commands at 40, more than the files have. The
header is searched in a buffer of its real size, since the steps of 16 and 4 bytes matter. Two cells
allow an image that is partly written; `Word` is 2^14 (the code: 2^32), a multiple of 1024 as the check of
the size needs.

**Fairness.** The program is one thread with nothing to block it: `WF` on its steps. The chip ends a
write it has started: `WF` on `WriteDone`, which its data sheet promises and without which the
unbounded status loops (`MtcaProgrammerSPI.cpp:375` and `564`) do not end. Nothing is assumed of the
SPI master (`waitForSpi` bounds the wait for it), of the caller, or of the end of an XSVF file. The
refinement to `FlashService` needs the same fairness: `WF(Finish)` is its liveness part. In `XsvfShift` the
register TCK is read back from follows the pin (`WF(Settle)`), since `readTDOBit` polls it without a bound.
`FirmwareProgrammer` has no fairness and no liveness property: over JTAG an invocation need not end, since
`XSVFPlayer::run` does not for every file (section 4), and over SPI its end is that of the operations
(`EveryCallReturns` of `spi_service`).

## 4. What the code does against its own words

Four runs end in a violation, each of a statement found in the repository:

1. `spi_alias`: the help text gives `-s 33554432` as the size of a 32 MiB chip (`main.cpp:137`); the
   32 MiB chip in the table is used with three address bytes (`MtcaProgrammerSPI.cpp:30`), so a dump
   of it holds its first half twice. Images longer than 16 MiB would be programmed over themselves;
   verify follows the same addresses, so it reports the overlap only where the data differ.
2. `xsvf_long_wait`: "This function must consume/wait at least the specified number of microsec"
   (`MtcaProgrammerJTAG.cpp:133`), and waits above 100 s are cut to 30 s (line 142).
3. `xsvf_counting`: "run dummy programming to calculate the total number of commands" (`XSVFPlayer.cpp:68`);
   but the dummy pass sees zeroes on TDO, an XSDRINC that expects something else fails in its first
   shift and does not read its remaining parameters (line 981), and these are counted as commands. If one
   of them is the code of XCOMMENT, the dummy pass may not find its end.
4. `main_scripts`: the board scripts call the program with `-d`, `-i` and `-f` only
   (`tck7_programmer.sh:61`), which `verify_arguments` refuses (`main.cpp:237`): "Please specify action(s) to
   be executed".

More deviations show as the exceptions the invariants make; each invariant is violated without its
exception:

* `OutOfRangeOnlyAfterQuadMode`: programming a chip with quad mode may end in `std::out_of_range`, because
  the identifier is read again while the chip may still be writing its configuration register.
* `ExhaustedRetriesAreReported` says for which repeat counts: not for 255, with which the counter wraps in
  its last increment (`XSVFPlayer.cpp:598`) and a plain mismatch is reported.
* `XWaitWaitsInReachableState`: XWAIT for one of the two Exit2 states, from anywhere but the pause state in front of
  it, waits where it is, because the error of `xsvfGotoTapState` is dropped (`XSVFPlayer.cpp:1192`).
* `PieceIsApplied`: where the address mask reaches into the bits of the data mask or below them, adding first is not
  what the comment says (`XSVFPlayer.cpp:962` to 965: "replaces the bits", "adds the address mask", then shifts): the
  comment adds the mask to the new data, the code to the old value and lays the new data over the sum. The code does as
  its own comment at line 668 says.
* `NeverStuck` and `GoodRunEnds` are about files that are `WellFormed`, `Countable` and `Playable`. `run()` does not return
  for a file without XCOMPLETE (the dummy pass ignores errors, line 77), for an XSTATE or XWAIT to a code above 15 (line
  296), for a data mask of more than 255 bytes (line 986), and for a comment without its 0 (line 1148).
* `ComparesThisPass` needs expected data and mask before the first comparison; otherwise the real pass
  compares with what the dummy pass has read (`xsvfInfoInit` leaves the byte strings alone).
* `GoodFramingIsKept` and `GoodTotalIsRight` are about files that are `WellFormed` and `Countable`. An
  instruction reported as too long is not read (`XSVFPlayer.cpp:780`), and the dummy pass takes it for commands, as
  it takes the rest of an XSDRINC. A size of 262137 bits or more wraps to a negative number of bytes (line 899).
  A size that is only too long for the buffers is an error too, but it is kept (line 901), and the dummy
  pass goes on in step, as long as no data of that size follow (`Overrun`).
* `HeaderIsOmitted`: of a bit file without bus width pattern the last sixteen bytes of the header are
  programmed (`MtcaProgrammerSPI.cpp:488`).
* `RefusedBeforeErase`: bit files that are too short or have no sync word are refused behind the erase.
* `SuccessMeansImage` is about the SPI programmer: verify over JTAG is always true.
* A bar above 255 becomes another one (`main.cpp:221`, `CutBar`), a negative size a large one; nothing in the
  repository says what should happen, so no property is about it.

## 5. Proofs

Eight modules prove the theorems listed in `PROJECT.json`, for every value of the constants that satisfies
the `ASSUME`s of the modules they extend: sizes are positive, pages and chunks divide what the address bytes
reach (24 and 32 bits in the code), files are well-formed, the table maps identifiers to modes, parameters
fit their bytes, shifts fit their buffers, failures are told apart from answers. `LayoutAssumption` of
`BitstreamHeader` is the one that says something of the input: how a file with a sync word is padded, without
which the searches in steps of 16 and 4 bytes do not meet the end of the header.

**SpiProgrammerProofs.** The invariant that matters is `WriteCommandsAreCarriedOut`: whenever the SPI
master is started on a command that modifies the chip, the chip will carry it out. It is not
inductive: that WREN is sent to an idle chip depends on how the operation got there. The
inductive invariant `IInv` adds

* `Handshake` and `AwaitsItsCommand`: what is in `AREA_WRITE` and the length registers while a
  transfer is awaited, at each label; outside `waitForSpi` the transfer is done;
* `QuietWhereAssumed`: the labels at which the chip is known to be idle. The anchor is the
  identifier: a busy chip does not answer with one, so an operation that gets past `checkMemoryId`
  has an idle chip whatever was left behind before;
* `EnabledWhereNeeded`: the labels at which the write enable latch is set;
* `Position`: where in the file the operation is, and that a block is not longer than a page.

Three more results rest on it with an invariant of their own: unknown chips are untouched (nothing
passes the check with them), an erase that returns has erased (from the command to the end of the
status loop the outcome is the blank chip), and `known_proms.at()` throws only in program on a chip
with quad mode (anywhere else the chip is idle between the two identifier reads).

What the operations do with a whole file follows from `ImageInv`. It is inductive together with `IInv` and
the first and last of these three (`BInv`), and each of its parts is carried through the steps of the thread, of the
hardware and of the caller by a lemma of its own:

* `Paced`: an idle chip holds what it was going to hold (`Steady`), a success leaves nothing behind
  (`AtRest`), and the blocks of the file are in step with the pages and chunks as long as no read has failed
  (`InStep`, which is what keeps a page program in its page);
* `Sent`: a transfer under way carries the address, length and bytes of the page or chunk meant, and what it
  has brought is what the chip held there;
* `Compared` and `Dumped`: what verify and dump have gone past. A verify that says "true" has read the file, one
  that says "false" has met a byte that differs, for an image that the addresses reach;
* `Configured`: the configuration register is read as it was at the call and written once;
* `Overlaid` and `ClearedSoFar`: the cells the chip is going to have are those of the call with the
  first `Programmed` bytes of the file laid over them; bit by bit, this also holds of an image that wraps
  around.

From these follow the five invariants about files, and `SpiImplementsService`: `Init` and every step map to
`FlashService`. Calls and their ends map to `Begin` and `Finish`, a failed read to `Misread`, the start of an erase
or of a page program to `SendErase` and `SendBytes`, its completion to `TakeEffect`, a transfer that replaces
one left behind to `CallOff`; everything else stutters. `FirmwareProgrammerProofs` uses the service through
its definitions only, so the two chains of proofs meet there: what main reports is true of cells that the
register sequences have written.

**BitstreamHeaderProofs.** The sync word is found at its own place or nowhere, whatever lies behind the buffer
(`FoundAtSyncPlace`), and the offset computed from it depends on the file alone (`SearchDependsOnFile`), so
that verify compares from where program has written. `DataOffset` follows the two searches backwards to the
end of the header.

**LenValProofs.** The library's induction takes an operator as a parameter, which the provers cannot
instantiate; the module proves induction over *sets* of numbers from well-foundedness (`NatSets`) and the
existence of functions defined by recursion (`PrimitiveRecursion`), and uses them in its place. On these
rest powers of two (`Powers`, `PowerOfSum`), the bits of a number (`BitsOfParts`, `SameBits`), that `value` makes the number
whose bits are those of the bytes, last byte first (`ValueBits`), that `ByteOf` makes the byte of its bits, and that
`addVal`, which adds byte by byte with a carry, adds the numbers and drops the last carry (`AddIsSum`).

**XsvfShiftProofs.** `DataReachChain`: whatever is sent, in whatever length and however often it is repeated, the
register of the chain holds the bits of `lvTdi` in order behind what has not left it yet. The invariant
`ChainHoldsTdi` is inductive together with the domain of the register and the position (`Position`: at the
labels where a bit is under way, TDI is the next bit and one is left to shift). `CInv` adds the way back: TDO shows
the next bit while TCK is low (`Wires`), and the bits read so far are those the register held, with the
rest of the current byte clear (`CapturedSoFar`; of bytes not reached yet nothing is said, an earlier round has
left its bits there). With `MaskedByBits` and `UnmaskedByBits` (comparing bytes is comparing bits)
`ShiftsAreExchanges` follows: `Compare` is the step `Exchange` of `DataExchange`, `Again` is its `Again`, and every pin
change in between stutters.

**XsvfIncrementProofs.** `PiecesAreApplied` relates the two loops of `xsvfDoSDRMasking` over bytes and bits to numbers.
`Places` and `Order` number the bits, `RankCounts` shows that the bit a mask bit takes is its rank among the mask
bits below it, `InsertedBits` that the others stay, and `AddIsSum` that the carry goes through all bytes.
That shows what the code does, add and then insert. `FieldsMeet` and `PieceApplied` turn it into the order of the
comment: with the address field above the data field the sum has the low bits of the old value, and replacing the
data does not touch the high ones. `AddressesCount` follows by looking at the part of the number above the data
field only (`HighSum`): data
that are inserted below never disturb the address.

**XsvfPlayerProofs.** What the two passes of `run()` do with a well-formed file of any length, whatever the chain answers.
A file is a sequence of bytes that the player cuts into commands again, so the module first shows what a position
means: `EncodedSteps` and `FileAt` give the bytes behind the first `n` commands (the induction over the file is
`NatSets` of `LenValProofs`, by `BoundedRecursion`), `ReadsCommand` that a player which stands there reads command
`n + 1` and its data, and `SettingSteps` what the commands before it ask for. None of the five theorems is
inductive by itself: where a command ends depends on the size and the data mask in the buffers, and whether an
XSDRINC reads its parameters depends on a comparison. The inductive invariant `IInv` says, of a pass that is `Sound`
(the real one up to its first error, the dummy one over a file it can count), `InStep`:

* `Between` or `Within`: the position is the length of the encoding of the commands counted, or, in an
  XSDRINC, of the pieces taken;
* `Sized` and `Masked`: the size and the data mask in the structure are those the file has set;
* `Compared`: in the dummy pass the captured bytes are zeroes and the expected ones those of the file, so an XSDRINC
  that expects zeroes cannot mismatch and leave its parameters unread;
* `Marked`: the history variables say which data this pass has read;
* `Played`: what the real pass has carried out is a prefix of the file.

and of every pass that nothing stale was compared and that the total, once taken, is the length of the file.
`FramesAreKept` and `TotalsAreRight` are the invariants of the run. `ComparisonsAreFresh` and `PlaysTheScript`
have the hypothesis `WellFormed(script)`, which the run does without: it also checks them on single files that
are not well-formed. `PlaysTheScript` needs no `Countable`: a dummy pass that has lost its place may make the total
wrong, or not end, but the real pass does not see it, because `xsvfInfoInit` resets all that `InStep` needs at its
beginning (`PassBegins`). Every command is a step of `XsvfScript` or, when it fails, the end of the script;
a piece that is not the last one, and the dummy pass, stutter (`StepPlays`). `NothingIsStuck` needs all three conditions on
the file: the next command has the targets, the sizes and the data mask of the file (`NextIsPlayable`), so it is none that
loops (`NoLoop`) or leaves a buffer (`NoOverrun`).

**XsvfTapProofs.** `IInv` is `TypeOK`, `TrackedStateIsReal`, that TMS is low in a shift state, and where
the current `xsvfGotoTapState` is going at each label (`Destination`, `InShift`). The heart is the
lemma `MoveIsTracked`: from each of the sixteen states and for any target, the TMS value the player
chooses takes the TAP controller to the state the player notes. All the invariants of run `xsvf_tap` follow.
`ExhaustionIsReported` has an invariant of its own: the counter stays within the limit of its shift (`Retries`),
so the one increment that can wrap is the one behind the last retry, and it does so for the largest count only.

**FirmwareProgrammerProofs.** `SuccessIsReal`: exit code 0 over SPI means that the image is in the chip and that
nothing is left that could still change it, after any sequence of killed invocations. `RebootIsSafe` and
`ChangesAreAsked` go with it. `IInv` is `TypeOK`, what the operation in progress is while main waits for it
(`Calls`), that every step was asked for by the options (`Asked`), and what is true of the chip at each step
of main (`Progress`): blank behind the erase, the image behind program and behind verify.

**Only model-checked**: everything under fairness (`EveryCallReturns`, `EveryCommandEnds`, `ShiftEnds`,
`GoodRunEnds`, and the `WF(Finish)` half of `ImplementsService`), because liveness and ENABLED
are beyond the prover; and `ComparesThisPass` and `ImplementsScript` on files that are not well-formed, of which
the run has a few and the theorems say nothing. Every other property of a passing run is stated by a theorem.

## 6. Not modelled

* Exceptions and timeouts of the register transport (the DeviceAccess library); a transport that
  fails ends the operation, which is `Kill`. Names and offsets of the registers
  (`MtcaProgrammerBase.cpp`, `registers.h`) are data.
* `REG_SPI_DIVIDER`, and the word that is written to reboot the FPGA.
* The calls of ipmitool and of the kernel in the board scripts; that `uvm_programmer.sh` ignores the exit code
  of the programmer has no model for this reason.
* What `checkFirmwareFile` of the JTAG programmer looks at (16 fixed bytes); its answer is an input.
* `initLenVal`, `RetBit` and `SetBit`, which nothing calls.
* What the code does behind an access beyond its buffers (`Overrun`): the model stops there. `XsvfTap` takes
  targets of XSTATE and XWAIT above 15 as a further target that is never reached, which the proofs of
  safety cover and the run does not.
* `sleep`, the progress bar, messages.

## 7. Plan

Everything the inventory names is modelled as far as it has behaviour of its own, and every safety property of
the runs is proved. What is left are the three refinements in words of section 2: `XsvfTap`, `XsvfShift` and
`XsvfIncrement` to single steps of `XsvfPlayer`, as theorems about their operators.
