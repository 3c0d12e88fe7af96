------------------------------ MODULE XsvfPlayer ------------------------------
(***************************************************************************)
(* XSVFPlayer::run: the file is played twice, first without touching the   *)
(* pins to count its commands ("dummy"), then for real.  The commands are  *)
(* read byte by byte, each is one step here, and the byte strings they     *)
(* leave behind are kept from one command, and one pass, to the next.      *)
(* How a shift moves the TAP, retries and waits is in XsvfTap, how its     *)
(* bits cross the pins in XsvfShift, and how XSDRINC computes its data in  *)
(* XsvfIncrement; here a shift is its outcome.                             *)
(***************************************************************************)
EXTENDS LenVal, XsvfCommands, JtagTap

CONSTANTS
  Scripts,         (* What the files hold: sequences of commands [cmd, data].         *)
  Answers,         (* Numbers a register of the chain may hold when it is shifted.     *)
  IndexModulus,    (* Values of the index of the loop over the data mask (256).        *)
  MaxCommands      (* Greatest value of the counter of commands.                       *)

(* A byte can hold every command code, the parameter 255 and an end of file are its *)
(* largest value; a lenVal can hold a parameter of four bytes.                      *)
ASSUME PlayerAssumption ==
  /\ Base > XLASTCMD /\ MaxLen >= 4
  /\ \A s \in Scripts : s \in Seq([cmd : Byte, data : Seq(Byte)])
  /\ Answers \subseteq Nat /\ IndexModulus \in Nat \ {0} /\ MaxCommands \in Nat

VARIABLES
  script, file,   (* What the file holds, and its bytes.                                   *)
  pos,            (* Bytes of it read in this pass.                                        *)
  pc,             (* "start", "dummy", "real", "ended"; "refused" if the file cannot be    *)
                  (* opened; "looping" in a loop without an end; "undefined" behind an     *)
                  (* access beyond a buffer.                                               *)
  lv,             (* The byte strings of SXsvfInfo, which xsvfInfoInit leaves alone.       *)
  info,           (* The other members of SXsvfInfo.                                       *)
  more,           (* XSDRINC: pieces of data still to shift.                               *)
  commandCounter, totalCommandCounter,
  taken,          (* History: parameters read by the XSDRINC in progress, ...              *)
  executed,       (* ... commands of the real pass that have not failed, and               *)
  since,          (* the pass in which expected data and mask were read,                   *)
  stale           (* and whether the real pass has compared with any from the dummy pass.  *)

input    == <<script, file>>
counters == <<commandCounter, totalCommandCounter>>
history  == <<taken, executed, since, stale>>
vars     == <<input, pos, pc, lv, info, more, counters, history>>

Buffers == {"tdi", "expected", "captured", "mask", "address", "data", "next"}

(* The file of a script, as the translator writes it, up to and with command n. *)
Encoded(s) ==
  LET upTo[n \in 0 .. Len(s)] ==
        IF n = 0 THEN <<>> ELSE upTo[n - 1] \o <<s[n].cmd>> \o s[n].data
  IN  upTo

(* The structure before run(). *)
ZeroInfo == [complete |-> FALSE, error |-> "NONE", maxRepeat |-> 0, tapState |-> RESET,
             endIR |-> RESET, endDR |-> RESET, runTestTime |-> 0,
             shiftBits |-> 0, shiftBytes |-> 0]

(* Mutant: the error of the dummy pass is kept. *)
KeepError == [complete |-> FALSE, error |-> info.error, maxRepeat |-> 0, tapState |-> RESET,
              endIR |-> RUNTEST, endDR |-> RUNTEST, runTestTime |-> 0,
              shiftBits |-> 0, shiftBytes |-> 0]

(* xsvfInfoInit, and the reset of the TAP by xsvfInitialize. *)
InfoInit == [complete |-> FALSE, error |-> "NONE", maxRepeat |-> 0, tapState |-> RESET,
             endIR |-> RUNTEST, endDR |-> RUNTEST, runTestTime |-> 0,
             shiftBits |-> 0, shiftBytes |-> 0]

Init ==
  /\ script \in Scripts /\ file = Encoded(script)[Len(script)]
  /\ pos = 0 /\ pc = "start"
  /\ lv = [b \in Buffers |-> Zeroed]
  /\ info = ZeroInfo
  /\ more = 0 /\ commandCounter = 0 /\ totalCommandCounter = 0
  /\ taken = <<>> /\ executed = <<>>
  /\ since = [expected |-> "start", mask |-> "start"] /\ stale = FALSE

-----------------------------------------------------------------------------
(* THE FILE *)

(* readByte, p bytes behind the position: at the end of the file it reads as all ones. *)
ByteAt(p)  == IF pos + p < Len(file) THEN file[pos + p + 1] ELSE Base - 1
Bytes(p, n) == [i \in 1 .. n |-> ByteAt(p + i - 1)]

(* n bytes are read. *)
Advance(n) == pos' = IF pos + n < Len(file) THEN pos + n ELSE Len(file)

Number(bytes) == value(readVal(Zeroed, bytes))

-----------------------------------------------------------------------------
(* THE COMMANDS *)

(* xsvfRun reads the next command unless the last one has completed, or failed in the *)
(* real pass.                                                                          *)
Running == more = 0 /\ ~info.complete /\ (pc = "dummy" \/ (pc = "real" /\ info.error = "NONE"))
Is(codes) == Running /\ ByteAt(0) \in codes
Code    == ByteAt(0)

Count == commandCounter' = (commandCounter + 1) % (MaxCommands + 1)

(* The command is over, with n bytes of parameters. *)
Executed(data, error) ==
  executed' = IF pc = "real" /\ error = "NONE" THEN Append(executed, [cmd |-> Code, data |-> data])
              ELSE executed

(* A command that has n bytes of parameters and shifts no data. *)
Do(n) ==
  /\ Count /\ Advance(1 + n)
  /\ Executed(Bytes(1, n), info'.error)
  /\ UNCHANGED <<input, pc, more, totalCommandCounter, taken, stale>>

Fail(error) == [info EXCEPT !.error = error]

(* Commands the parameters of which are read, unless stated otherwise, into lvTdi. *)
ReadTdi(n) == [lv EXCEPT !.tdi = readVal(@, Bytes(1, n))]

IllegalCmd ==
  /\ Running /\ Illegal(Code)
  /\ info' = Fail("ILLEGALCMD")
  /\ Do(0) /\ UNCHANGED <<lv, since>>

DoXCOMPLETE ==
  /\ Is({XCOMPLETE})
  /\ info' = [info EXCEPT !.complete = TRUE]
  /\ Do(0) /\ UNCHANGED <<lv, since>>

DoXRUNTEST ==
  /\ Is({XRUNTEST})
  /\ lv' = ReadTdi(4)
  /\ info' = [info EXCEPT !.runTestTime = value(lv'.tdi)]
  /\ Do(4) /\ UNCHANGED since

DoXREPEAT ==
  /\ Is({XREPEAT})
  /\ info' = [info EXCEPT !.maxRepeat = ByteAt(1)]
  /\ Do(1) /\ UNCHANGED <<lv, since>>

(* Mutant: a last byte that is not full is forgotten. *)
WholeBytes(bits) == bits \div ByteBits

BytesOf(bits) == xsvfGetAsNumBytes(bits)

(* A size too large for the buffers is an error, but it is kept. *)
DoXSDRSIZE ==
  /\ Is({XSDRSIZE})
  /\ lv' = ReadTdi(4)
  /\ LET bits == value(lv'.tdi) IN
     info' = [info EXCEPT !.shiftBits = bits, !.shiftBytes = BytesOf(bits),
                          !.error = IF BytesOf(bits) > MaxLen THEN "DATAOVERFLOW" ELSE @]
  /\ Do(4) /\ UNCHANGED since

(* XENDIR and XENDDR; 0 is Run-Test/Idle, 1 the pause state. *)
DoXENDXR ==
  /\ Is({XENDIR, XENDDR})
  /\ \/ /\ ByteAt(1) \notin {0, 1}
        /\ info' = Fail("ILLEGALSTATE")
     \/ /\ ByteAt(1) \in {0, 1} /\ Code = XENDIR
        /\ info' = [info EXCEPT !.endIR = IF ByteAt(1) = 0 THEN RUNTEST ELSE PAUSEIR]
     \/ /\ ByteAt(1) \in {0, 1} /\ Code = XENDDR
        /\ info' = [info EXCEPT !.endDR = IF ByteAt(1) = 0 THEN RUNTEST ELSE PAUSEDR]
  /\ Do(1) /\ UNCHANGED <<lv, since>>

(* The comment is read up to its 0; then there is no error any more. *)
CommentEnds == {n \in 0 .. Len(file) - pos - 2 : ByteAt(n + 1) = 0}

DoXCOMMENT ==
  /\ Is({XCOMMENT})
  /\ \E n \in CommentEnds :
       /\ \A k \in CommentEnds : n <= k
       /\ info' = Fail("NONE")
       /\ Do(n + 1)
  /\ UNCHANGED <<lv, since>>

(* The paths xsvfGotoTapState refuses, and those it finds no end of. *)
IllegalPath(from, target) ==
  \/ target = EXIT2DR /\ from \notin {PAUSEDR, EXIT2DR}
  \/ target = EXIT2IR /\ from \notin {PAUSEIR, EXIT2IR}

Goto(from, target) == IF IllegalPath(from, target) THEN from ELSE target

DoXSTATE ==
  /\ Is({XSTATE}) /\ ByteAt(1) \in TapState
  /\ info' = [info EXCEPT
       !.tapState = Goto(@, ByteAt(1)),
       !.error = IF IllegalPath(info.tapState, ByteAt(1)) THEN "ILLEGALSTATE" ELSE @]
  /\ Do(1) /\ UNCHANGED <<lv, since>>

(* Wait state, end state and time; refused paths are not reported. *)
DoXWAIT ==
  /\ Is({XWAIT}) /\ ByteAt(1) \in TapState /\ ByteAt(2) \in TapState
  /\ info' = [info EXCEPT !.tapState = Goto(Goto(@, ByteAt(1)), ByteAt(2))]
  /\ lv' = [lv EXCEPT !.tdi = readVal(readVal(readVal(@, Bytes(1, 1)), Bytes(2, 1)), Bytes(3, 4))]
  /\ Do(6) /\ UNCHANGED since

-----------------------------------------------------------------------------
(* SHIFTS *)

(* The state of the TAP behind a shift. *)
AfterShift(start, bits, end, time) ==
  CASE bits = 0 /\ time = 0                -> info.tapState
    [] bits = 0 /\ time > 0                -> RUNTEST
    [] bits > 0 /\ start = end             -> start
    [] bits > 0 /\ start # end /\ time > 0 -> RUNTEST
    [] bits > 0 /\ start # end /\ time = 0 -> end

(* XSIR and XSIR2: the length is in the command, in one byte or in two; nothing is compared. *)
DoXSIR ==
  /\ Is({XSIR, XSIR2})
  /\ LET width == IF Code = XSIR THEN 1 ELSE 2
         bits  == Number(Bytes(1, width))
         n     == BytesOf(bits)
         first == IF Code = XSIR THEN lv ELSE ReadTdi(2)
     IN \/ /\ n > MaxLen
           /\ info' = Fail("DATAOVERFLOW")
           /\ lv' = first
           /\ Do(width)
        \/ /\ n <= MaxLen
           /\ info' = [info EXCEPT !.tapState =
                         AfterShift(SHIFTIR, bits, info.endIR, info.runTestTime)]
           /\ lv' = [first EXCEPT !.tdi = readVal(@, Bytes(1 + width, n))]
           /\ Do(width + n)
  /\ UNCHANGED since

(* Mutant: the buffers have no byte more than a value may have. *)
ShortBuffers == info.shiftBytes \in 0 .. MaxLen

(* The data fit the buffers, and their bits the bytes: a short may have hidden that they do not. *)
BytesFit == info.shiftBytes \in 0 .. MaxLen + 1
Fits     == BytesFit /\ info.shiftBits <= ByteBits * info.shiftBytes

(* The data the chain answers with, in a buffer; in the dummy pass all 0. *)
Answer(buffer, n) ==
  {readVal(buffer, Digits(a % Pow2[info.shiftBits], n)) : a \in IF pc = "dummy" THEN {0} ELSE Answers}

(* The retry counter is a byte: 255 retries are not told from a mismatch without any. *)
MismatchError(limit) ==
  IF limit > 0 /\ (limit + 1) % Base > limit THEN "MAXRETRIES" ELSE "TDOMISMATCH"

Same(judge, captured) ==
  CASE judge = "masked" -> EqualLenVal(lv'.expected, captured, lv'.mask)
    [] judge = "plain"  -> EqualUnmasked(lv'.expected, captured)
    [] judge = "none"   -> TRUE

Stale(judge) ==
  \/ judge # "none" /\ since'.expected # "real"
  \/ judge = "masked" /\ since'.mask # "real"

(* The data in "new" are shifted, from Shift-DR to end; "bad" is the mismatch, after all *)
(* retries.                                                                              *)
Shift(new, judge, end, time, limit, bad) ==
  /\ \E captured \in IF judge = "none" \/ info.shiftBits = 0 THEN {new.captured}
                     ELSE Answer(new.captured, new.tdi.len) :
       /\ lv' = [new EXCEPT !.captured = captured]
       /\ bad = (info.shiftBits > 0 /\ ~Same(judge, captured))
  /\ info' = [info EXCEPT
       !.tapState = AfterShift(SHIFTDR, info.shiftBits, end, time),
       !.error    = IF bad THEN MismatchError(limit) ELSE @]
  /\ stale' = (stale \/ (pc = "real" /\ info.shiftBits > 0 /\ Stale(judge)))

(* The arguments of the commands that compare with lvTdoMask. *)
MaskedShift(new, bad) ==
  Shift(new, "masked", info.endDR, info.runTestTime, info.maxRepeat, bad)

N == info.shiftBytes

(* As Do, for the commands that shift data: "stale" is theirs. *)
DoShift(n) ==
  /\ Count /\ Advance(1 + n)
  /\ UNCHANGED <<input, totalCommandCounter>>

EndShift(data, bad) ==
  /\ executed' = IF pc = "real" /\ ~bad THEN Append(executed, [cmd |-> Code, data |-> data])
                 ELSE executed
  /\ UNCHANGED <<pc, more, taken>>

(* Mutant: the parameters of the real pass are taken for those of the dummy pass. *)
DummyTDOMASK ==
  /\ Is({XTDOMASK}) /\ BytesFit
  /\ UNCHANGED <<lv, since, info>> /\ Do(N)

DoXTDOMASK ==
  /\ Is({XTDOMASK}) /\ BytesFit
  /\ lv' = [lv EXCEPT !.mask = readVal(@, Bytes(1, N))]
  /\ since' = [since EXCEPT !.mask = pc]
  /\ UNCHANGED info /\ Do(N)

DoXSETSDRMASKS ==
  /\ Is({XSETSDRMASKS}) /\ BytesFit
  /\ lv' = [lv EXCEPT !.address = readVal(@, Bytes(1, N)), !.data = readVal(@, Bytes(1 + N, N))]
  /\ UNCHANGED <<info, since>> /\ Do(2 * N)

(* XSDR expects what the last XSDRTDO has expected. *)
DoXSDR ==
  /\ Is({XSDR}) /\ Fits
  /\ DoShift(N) /\ UNCHANGED since
  /\ \E bad \in BOOLEAN : MaskedShift(ReadTdi(N), bad) /\ EndShift(Bytes(1, N), bad)

(* The data, and then what is expected of the chain. *)
ReadExpected == [ReadTdi(N) EXCEPT !.expected = readVal(@, Bytes(1 + N, N))]

DoXSDRTDO ==
  /\ Is({XSDRTDO}) /\ Fits
  /\ DoShift(2 * N)
  /\ since' = [since EXCEPT !.expected = pc]
  /\ \E bad \in BOOLEAN : MaskedShift(ReadExpected, bad) /\ EndShift(Bytes(1, 2 * N), bad)

(* XSDRB, XSDRC and XSDRE compare nothing; only the last leaves the shift state. *)
DoXSDRBCE ==
  /\ Is({XSDRB, XSDRC, XSDRE}) /\ Fits
  /\ DoShift(N) /\ UNCHANGED since
  /\ Shift(ReadTdi(N), "none", IF Code = XSDRE THEN info.endDR ELSE SHIFTDR, 0, 0, FALSE)
  /\ EndShift(Bytes(1, N), FALSE)

(* XSDRTDOB, XSDRTDOC and XSDRTDOE compare every bit. *)
DoXSDRTDOBCE ==
  /\ Is({XSDRTDOB, XSDRTDOC, XSDRTDOE}) /\ Fits
  /\ DoShift(2 * N)
  /\ since' = [since EXCEPT !.expected = pc]
  /\ \E bad \in BOOLEAN :
       /\ Shift(ReadExpected, "plain", IF Code = XSDRTDOE THEN info.endDR ELSE SHIFTDR, 0, 0, bad)
       /\ EndShift(Bytes(1, 2 * N), bad)

-----------------------------------------------------------------------------
(* XSDRINC *)

(* The first shift.  Only if it succeeds the number of pieces is read; the loop that counts *)
(* the bits of the data mask must have an end.                                              *)
CountEnds == lv.data.len < IndexModulus

DoXSDRINC ==
  /\ Is({XSDRINC}) /\ Fits
  /\ UNCHANGED since
  /\ \/ /\ MaskedShift(ReadTdi(N), TRUE)
        /\ DoShift(N) /\ EndShift(<<>>, TRUE)
     \/ /\ MaskedShift(ReadTdi(N), FALSE) /\ ~CountEnds
        /\ DoShift(N) /\ pc' = "looping"
        /\ UNCHANGED <<more, taken, executed>>
     \/ /\ MaskedShift(ReadTdi(N), FALSE) /\ CountEnds
        /\ DoShift(N + 1)
        /\ \/ /\ ByteAt(1 + N) = 0
              /\ EndShift(Bytes(1, N + 1), FALSE)
           \/ /\ ByteAt(1 + N) > 0
              /\ more' = ByteAt(1 + N) /\ taken' = Bytes(1, N + 1)
              /\ UNCHANGED <<pc, executed>>

PieceBytes == BytesOf(Cardinality(MaskBits(lv.data)))

(* The data of the next shift. *)
NextPiece ==
  LET next == readVal(lv.next, Bytes(0, PieceBytes)) IN
  [lv EXCEPT !.next = next,
             !.tdi  = xsvfDoSDRMasking(lv.tdi, next, lv.address, lv.data)]

Piece ==
  /\ more > 0
  /\ UNCHANGED <<input, pc, counters, since>>
  /\ Advance(PieceBytes)
  /\ \E bad \in BOOLEAN :
       /\ MaskedShift(NextPiece, bad)
       /\ more' = IF bad THEN 0 ELSE more - 1
       /\ taken' = IF more' = 0 THEN <<>> ELSE taken \o Bytes(0, PieceBytes)
       /\ executed' =
            IF pc = "real" /\ ~bad /\ more = 1
            THEN Append(executed, [cmd |-> XSDRINC, data |-> taken \o Bytes(0, PieceBytes)])
            ELSE executed

-----------------------------------------------------------------------------
(* WHAT DOES NOT END, OR NOT WELL *)

(* A target that is no state; a comment without an end. *)
Loop ==
  /\ Running
  /\ \/ Code = XSTATE /\ ByteAt(1) \notin TapState
     \/ Code = XWAIT /\ {ByteAt(1), ByteAt(2)} \notin SUBSET TapState
     \/ Code = XCOMMENT /\ CommentEnds = {}
  /\ pc' = "looping"
  /\ UNCHANGED <<input, pos, lv, info, more, counters, history>>

(* The data do not fit the buffers. *)
Overrun ==
  /\ Running
  /\ \/ Code \in {XTDOMASK, XSETSDRMASKS} /\ ~BytesFit
     \/ Code \in {XSDR, XSDRTDO} \cup XSDRINC .. XSDRTDOE /\ ~Fits
  /\ pc' = "undefined"
  /\ UNCHANGED <<input, pos, lv, info, more, counters, history>>

-----------------------------------------------------------------------------
(* RUN *)

(* fopen fails, and run() throws. *)
CannotOpen ==
  /\ pc = "start"
  /\ pc' = "refused"
  /\ UNCHANGED <<input, pos, lv, info, more, counters, history>>

BeginDummy ==
  /\ pc = "start"
  /\ pc' = "dummy"
  /\ commandCounter' = 0 /\ totalCommandCounter' = 0
  /\ info' = InfoInit
  /\ UNCHANGED <<input, pos, lv, more, history>>

(* Mutants: the last command is not counted; the dummy pass must have been without errors. *)
CountBefore == commandCounter - 1
CleanPass   == info.complete /\ info.error = "NONE"

(* The dummy pass ends with XCOMPLETE only, whatever has failed in it. *)
Total     == commandCounter
DummyOver == info.complete

BeginReal ==
  /\ pc = "dummy" /\ DummyOver
  /\ pc' = "real"
  /\ totalCommandCounter' = Total /\ commandCounter' = 0
  /\ pos' = 0
  /\ info' = InfoInit
  /\ UNCHANGED <<input, lv, more, history>>

(* The real one also with the first error, which run() then throws. *)
EndRun ==
  /\ pc = "real" /\ more = 0 /\ (info.complete \/ info.error # "NONE")
  /\ pc' = "ended"
  /\ UNCHANGED <<input, pos, lv, info, more, counters, history>>

Ended == pc \in {"ended", "refused", "looping", "undefined"} /\ UNCHANGED vars

Command ==
  \/ IllegalCmd \/ DoXCOMPLETE \/ DoXTDOMASK \/ DoXSIR \/ DoXSDR \/ DoXRUNTEST \/ DoXREPEAT
  \/ DoXSDRSIZE \/ DoXSDRTDO \/ DoXSETSDRMASKS \/ DoXSDRINC \/ DoXSDRBCE \/ DoXSDRTDOBCE
  \/ DoXSTATE \/ DoXENDXR \/ DoXCOMMENT \/ DoXWAIT

Player == CannotOpen \/ BeginDummy \/ Command \/ Piece \/ Loop \/ Overrun \/ BeginReal \/ EndRun

Next == Player \/ Ended

(* run() is a thread that keeps running. *)
Spec == Init /\ [][Next]_vars /\ WF_vars(Player)

-----------------------------------------------------------------------------
(* THE FILES A TRANSLATOR WRITES *)

BytesFor(bits) == (bits + ByteBits - 1) \div ByteBits

(* Size of a shift, data mask and expected data that hold behind command n of a file. *)
UpperHalf(bytes) == SubSeq(bytes, Len(bytes) \div 2 + 1, Len(bytes))
ExpectCodes      == {XSDRTDO, XSDRTDOB, XSDRTDOC, XSDRTDOE}

After(set, c) ==
  [bits     |-> IF c.cmd = XSDRSIZE      THEN Number(c.data)    ELSE set.bits,
   mask     |-> IF c.cmd = XSETSDRMASKS  THEN UpperHalf(c.data) ELSE set.mask,
   expected |-> IF c.cmd \in ExpectCodes THEN UpperHalf(c.data) ELSE set.expected]

Setting(s) ==
  LET behind[n \in 0 .. Len(s)] ==
        IF n = 0 THEN [bits |-> 0, mask |-> <<>>, expected |-> <<>>]
        ELSE After(behind[n - 1], s[n])
  IN  behind

(* The number of bits in XSIR and XSIR2, the bytes of a piece of XSDRINC. *)
Width(c)        == IF c.cmd = XSIR THEN 1 ELSE 2
IRBits(c)       == Number(SubSeq(c.data, 1, Width(c)))
PieceSize(mask) == BytesFor(Cardinality(MaskBits(readVal(Zeroed, mask))))

(* A command has the parameters its code and the setting ask for; a short can count the *)
(* bytes of its lengths.                                                                 *)
Fitting(c, set) ==
  LET n    == Len(c.data)
      size == BytesFor(set.bits)
  IN
  /\ c.cmd = XCOMPLETE \/ Illegal(c.cmd)               => n = 0
  /\ c.cmd \in {XREPEAT, XSTATE, XENDIR, XENDDR}       => n = 1
  /\ c.cmd \in {XRUNTEST, XSDRSIZE}                    => n = 4
  /\ c.cmd = XWAIT                                     => n = 6
  /\ c.cmd \in {XTDOMASK, XSDR, XSDRB, XSDRC, XSDRE}   => n = size
  /\ c.cmd \in ExpectCodes \cup {XSETSDRMASKS}         => n = 2 * size
  /\ c.cmd = XSDRSIZE => BytesFor(Number(c.data)) < ShortHalf
  /\ c.cmd \in {XSIR, XSIR2} =>
       n >= Width(c) /\ n = Width(c) + BytesFor(IRBits(c)) /\ BytesFor(IRBits(c)) < ShortHalf
  /\ c.cmd = XCOMMENT => n > 0 /\ \A i \in 1 .. n : c.data[i] = 0 <=> i = n
  /\ c.cmd = XSDRINC =>
       /\ n > size /\ n = size + 1 + c.data[size + 1] * PieceSize(set.mask)
       /\ c.data[size + 1] > 0 => set.mask # <<>>

WellFormed(s) ==
  LET setting == Setting(s) IN
  /\ s # <<>> /\ Len(s) <= MaxCommands
  /\ \A i \in 1 .. Len(s) :
       (s[i].cmd = XCOMPLETE <=> i = Len(s)) /\ Fitting(s[i], setting[i - 1])

(* The dummy pass, which goes on behind an error and reads only 0 from the chain, meets no *)
(* error that leaves parameters unread.                                                    *)
Countable(s) ==
  LET setting == Setting(s) IN
  \A i \in 1 .. Len(s) :
    /\ s[i].cmd \in {XSIR, XSIR2} => BytesFor(IRBits(s[i])) <= MaxLen
    /\ s[i].cmd = XSDRINC =>
         \A k \in DOMAIN setting[i - 1].expected : setting[i - 1].expected[k] = 0

Good == WellFormed(script) /\ Countable(script)

(* The targets are states; what is read or shifted with the size of XSDRSIZE has room in a *)
(* buffer; the data mask is given before XSDRINC counts its bits, and can be counted.       *)
Sizable == {XTDOMASK, XSETSDRMASKS, XSDR, XSDRTDO} \cup XSDRINC .. XSDRTDOE

Playable(s) ==
  LET setting == Setting(s) IN
  \A i \in 1 .. Len(s) :
    /\ s[i].cmd = XSTATE => s[i].data[1] \in TapState
    /\ s[i].cmd = XWAIT => s[i].data[1] \in TapState /\ s[i].data[2] \in TapState
    /\ s[i].cmd \in Sizable => BytesFor(setting[i - 1].bits) <= MaxLen + 1
    /\ s[i].cmd = XSDRINC =>
         setting[i - 1].mask # <<>> /\ Len(setting[i - 1].mask) < IndexModulus

-----------------------------------------------------------------------------
(* PROPERTIES *)

(* The commands in the order of the file, each once and with its own data, first error or *)
(* XCOMPLETE ends the pass: what the dummy pass has met, or left behind, does not show.    *)
(* A file that cannot be opened is refused.                                                *)
Play == INSTANCE XsvfScript WITH
  played  <- executed,
  outcome <- IF pc = "refused" THEN "refused"
             ELSE IF pc \notin {"real", "ended"} THEN "playing"
             ELSE IF info.error # "NONE" THEN "failed"
             ELSE IF info.complete THEN "complete" ELSE "playing"

ImplementsScript == Play!Spec

(* Between two commands both passes stand where a command of the file begins, after errors *)
(* of the dummy pass too, which goes on behind them: on the files that are well-formed and  *)
(* that this pass can count.                                                                *)
FramingIsKept ==
  pc \in {"dummy", "real"} /\ more = 0 /\ (pc = "dummy" \/ info.error = "NONE") =>
    pos = Len(Encoded(script)[commandCounter])

GoodFramingIsKept == Good => FramingIsKept

(* The dummy pass has counted the commands of the file (XSVFPlayer.cpp:68), ... *)
TotalIsRight == pc = "real" => totalCommandCounter = Len(script)

(* ... if none of its errors has made it lose its place. *)
GoodTotalIsRight == Good => TotalIsRight

(* What the chain answers is compared with what this pass has read (XSVFPlayer.cpp:841), *)
(* not with what the dummy pass has left in the byte strings, where the file gives it     *)
(* before it is used.                                                                     *)
GivenBefore(i, codes) == \E j \in 1 .. i : script[j].cmd \in codes

Prepared ==
  \A i \in DOMAIN script :
    /\ script[i].cmd \in {XSDR, XSDRINC} =>
         GivenBefore(i, ExpectCodes)
    /\ script[i].cmd \in {XSDR, XSDRTDO, XSDRINC} => GivenBefore(i, {XTDOMASK})

ComparesThisPass == Prepared => ~stale

(* On such files neither pass gets stuck in a loop (XSVFPlayer.cpp:296, 986, 1148) or leaves *)
(* a buffer, whatever the chain answers: "MAX_LEN" bytes and one are room enough, and what    *)
(* the dummy pass has gone on behind does not mislead it.                                     *)
NeverStuck == Good /\ Playable(script) => pc \notin {"looping", "undefined"}

(* And run() comes to its end on them (XSVFPlayer.cpp:77, 94). *)
GoodRunEnds == Good /\ Playable(script) /\ pc = "start" ~> pc \in {"ended", "refused"}
=============================================================================
