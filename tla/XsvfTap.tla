------------------------------- MODULE XsvfTap -------------------------------
(***************************************************************************)
(* XSVFPlayer at the JTAG port: the commands that move the TAP controller, *)
(* xsvfGotoTapState, xsvfShift with its retries, and the waits, in the     *)
(* pass over the file that drives the pins.                                *)
(*                                                                         *)
(* A step is at most one rising edge of TCK (six in the reset sequence).   *)
(* The parameters of a command are any the file may hold, and what the     *)
(* chain answers on TDO is seen only as the outcome of the comparison.     *)
(* "goal" is the target of the xsvfGotoTapState in progress: it is the     *)
(* player's state between two of them.                                     *)
(***************************************************************************)
EXTENDS JtagTap, FiniteSets

CONSTANTS
  RunTimes,       (* Parameters of XRUNTEST and wait times of XWAIT (microseconds).  *)
  ShiftSizes,     (* Parameters of XSDRSIZE and of XSIR (bits).                      *)
  MaxBits,        (* Bits a lenVal can hold (8 * MAX_LEN).                           *)
  Repeats,        (* Parameters of XREPEAT (a byte).                                 *)
  RepeatModulus,  (* Values of the retry counter, an unsigned char (256).            *)
  Increments,     (* Numbers of data pieces of XSDRINC.                              *)
  StateBytes,     (* Parameters of XSTATE and states of XWAIT (a byte).              *)
  LongWait,       (* Waits above this (100000000) are cut short ...                  *)
  ShortWait       (* ... to this (30000001).                                         *)

ASSUME XsvfAssumption ==
  /\ RunTimes \subseteq Nat /\ ShiftSizes \subseteq Nat
  /\ Repeats \subseteq 0 .. RepeatModulus - 1 /\ RepeatModulus \in Nat \ {0}
  /\ Increments \subseteq Nat
  /\ StateBytes \subseteq Nat
  /\ MaxBits \in Nat /\ LongWait \in Nat /\ ShortWait \in Nat

VARIABLES
  tap,          (* The state of the TAP controller.                                *)
  tms,          (* The TMS pin.                                                    *)
  tapState,     (* ucTapState: the player's idea of tap.                           *)
  goal,         (* ucTargetState of the xsvfGotoTapState in progress, or tapState. *)
  endIR,        (* ucEndIR                                                         *)
  endDR,        (* ucEndDR                                                         *)
  maxRepeat,    (* ucMaxRepeat                                                     *)
  runTestTime,  (* lRunTestTime                                                    *)
  shiftBits,    (* lShiftLengthBits                                                *)
  errorCode,    (* iErrorCode                                                      *)
  pc,           (* Where the command is; "command" between two, "off" out of run(). *)
  shift,        (* Arguments of xsvfShift: start state, bits, whether TDO is        *)
                (* expected, end state and ucMaxRepeat.                            *)
  left,         (* Bits still to shift (lNumBits of xsvfShiftOnly).                *)
  wait,         (* The wait time of the command (lRunTestTime of xsvfShift).       *)
  repeat,       (* ucRepeat                                                        *)
  mismatch,     (* iMismatch                                                       *)
  more,         (* XSDRINC: data pieces still to shift.                            *)
  xwait,        (* The parameters of XWAIT.                                        *)
  waited        (* History: time asked of the last waitTime, and time it took. *)

pins  == <<tap, tms, tapState, goal>>
info  == <<endIR, endDR, maxRepeat, runTestTime, shiftBits>>
local == <<shift, left, wait, repeat, mismatch, more>>
vars  == <<pins, info, errorCode, pc, local, xwait, waited>>

Errors == {"NONE", "TDOMISMATCH", "MAXRETRIES", "ILLEGALCMD", "ILLEGALSTATE", "DATAOVERFLOW"}

Labels == {"off", "command", "shift", "compare", "retry", "afterShift", "wait", "loop", "xwait"}

ShiftCall == [start : Shifting, bits : Nat, expect : BOOLEAN, end : TapState, limit : Nat]

TypeOK ==
  /\ tap \in TapState
  /\ tms \in {0, 1}
  /\ tapState \in TapState
  /\ goal \in Nat
  /\ endIR \in {RUNTEST, PAUSEIR}
  /\ endDR \in {RUNTEST, PAUSEDR}
  /\ maxRepeat \in 0 .. RepeatModulus - 1
  /\ runTestTime \in Nat
  /\ shiftBits \in Nat
  /\ errorCode \in Errors
  /\ pc \in Labels
  /\ shift \in ShiftCall
  /\ left \in Nat
  /\ wait \in Nat
  /\ repeat \in 0 .. RepeatModulus - 1
  /\ mismatch \in BOOLEAN
  /\ more \in Nat
  /\ xwait \in [state : Nat, end : Nat, time : Nat]
  /\ waited \in [asked : Nat, slept : Nat]

NoShift == [start |-> SHIFTDR, bits |-> 0, expect |-> FALSE, end |-> RUNTEST, limit |-> 0]
NoWait  == [state |-> RESET, end |-> RESET, time |-> 0]

(* The player has not run; the TAP can be in any state. *)
Init ==
  /\ tap \in TapState /\ tms \in {0, 1}
  /\ tapState = RESET /\ goal = RESET
  /\ endIR = RUNTEST /\ endDR = RUNTEST /\ maxRepeat = 0 /\ runTestTime = 0 /\ shiftBits = 0
  /\ errorCode = "NONE" /\ pc = "off"
  /\ shift = NoShift /\ left = 0 /\ wait = 0 /\ repeat = 0 /\ mismatch = FALSE /\ more = 0
  /\ xwait = NoWait
  /\ waited = [asked |-> 0, slept |-> 0]

-----------------------------------------------------------------------------
(* PINS *)

(* xsvfTmsTransition; the reset sequence pulses TCK five times more. *)
TmsTransition(value) ==
  /\ tms' = value
  /\ tap' = TapNext(tap, value)

TmsReset ==
  /\ tms' = 1
  /\ tap' = TapOn1[TapOn1[TapOn1[TapOn1[TapOn1[TapOn1[tap]]]]]]

(* waitTime; TCK is not pulsed meanwhile. *)
WaitTime(microsec) ==
  waited' = [asked |-> microsec,
             slept |-> IF microsec > LongWait THEN ShortWait ELSE microsec]

-----------------------------------------------------------------------------
(* xsvfGotoTapState *)

Moving == tapState # goal

IllegalPath(from, target) ==
  /\ target # from
  /\ \/ target = EXIT2DR /\ from # PAUSEDR
     \/ target = EXIT2IR /\ from # PAUSEIR

(* The player enters xsvfGotoTapState believing the TAP to be in "from".  An illegal path *)
(* leaves everything as it is, a pause state is left to be entered again.                 *)
Goto(from, target) ==
  \/ /\ target = RESET
     /\ TmsReset /\ tapState' = RESET /\ goal' = RESET
  \/ /\ target # RESET /\ IllegalPath(from, target)
     /\ tapState' = from /\ goal' = from
     /\ UNCHANGED <<tap, tms>>
  \/ /\ target = from /\ target \in {PAUSEDR, PAUSEIR}
     /\ TmsTransition(1)
     /\ tapState' = from + 1
     /\ goal' = target
  \/ /\ target # RESET /\ ~IllegalPath(from, target)
     /\ ~(target = from /\ target \in {PAUSEDR, PAUSEIR})
     /\ tapState' = from /\ goal' = target
     /\ UNCHANGED <<tap, tms>>

(* The TMS value of the transition towards target ... *)
TmsFor(state, target) ==
  CASE state \in {RESET, SELECTIR}                                -> 0
    [] state \in {RUNTEST, SHIFTDR, PAUSEDR, SHIFTIR, PAUSEIR}    -> 1
    [] state = SELECTDR              -> IF target >= IRSTATES THEN 1 ELSE 0
    [] state \in {CAPTUREDR, EXIT2DR} -> IF target = SHIFTDR THEN 0 ELSE 1
    [] state = EXIT1DR               -> IF target = PAUSEDR THEN 0 ELSE 1
    [] state \in {UPDATEDR, UPDATEIR} -> IF target = RUNTEST THEN 0 ELSE 1
    [] state \in {CAPTUREIR, EXIT2IR} -> IF target = SHIFTIR THEN 0 ELSE 1
    [] state = EXIT1IR               -> IF target = PAUSEIR THEN 0 ELSE 1

(* ... and the state the player then believes the TAP to be in. *)
StateAfter(state, target) ==
  CASE state = RESET     -> RUNTEST
    [] state = RUNTEST   -> SELECTDR
    [] state = SELECTDR  -> IF target >= IRSTATES THEN SELECTIR ELSE CAPTUREDR
    [] state = CAPTUREDR -> IF target = SHIFTDR THEN SHIFTDR ELSE EXIT1DR
    [] state = SHIFTDR   -> EXIT1DR
    [] state = EXIT1DR   -> IF target = PAUSEDR THEN PAUSEDR ELSE UPDATEDR
    [] state = PAUSEDR   -> EXIT2DR
    [] state = EXIT2DR   -> IF target = SHIFTDR THEN SHIFTDR ELSE UPDATEDR
    [] state = UPDATEDR  -> IF target = RUNTEST THEN RUNTEST ELSE SELECTDR
    [] state = SELECTIR  -> CAPTUREIR
    [] state = CAPTUREIR -> IF target = SHIFTIR THEN SHIFTIR ELSE EXIT1IR
    [] state = SHIFTIR   -> EXIT1IR
    [] state = EXIT1IR   -> IF target = PAUSEIR THEN PAUSEIR ELSE UPDATEIR
    [] state = PAUSEIR   -> EXIT2IR
    [] state = EXIT2IR   -> IF target = SHIFTIR THEN SHIFTIR ELSE UPDATEIR
    [] state = UPDATEIR  -> IF target = RUNTEST THEN RUNTEST ELSE SELECTDR

Move ==
  /\ Moving
  /\ TmsTransition(TmsFor(tapState, goal))
  /\ tapState' = StateAfter(tapState, goal)
  /\ UNCHANGED <<goal, info, errorCode, pc, local, xwait, waited>>

-----------------------------------------------------------------------------
(* COMMANDS *)

At(label)     == pc = label /\ ~Moving
Step(label)   == pc' = label /\ UNCHANGED <<info, errorCode, waited>>
Ready         == At("command") /\ errorCode = "NONE"
Fail(code)    == errorCode' = code

(* xsvfInitialize, at the start of run(). *)
Initialize ==
  /\ pc = "off"
  /\ pc' = "command"
  /\ endIR' = RUNTEST /\ endDR' = RUNTEST
  /\ maxRepeat' = 0 /\ runTestTime' = 0 /\ shiftBits' = 0
  /\ errorCode' = "NONE"
  /\ TmsReset /\ tapState' = RESET /\ goal' = RESET
  /\ UNCHANGED <<local, xwait, waited>>

(* run() ends with XCOMPLETE, or after the command that fails. *)
Stop ==
  /\ At("command")
  /\ pc' = "off"
  /\ UNCHANGED <<pins, info, errorCode, local, xwait, waited>>

IllegalCmd ==
  /\ Ready
  /\ Fail("ILLEGALCMD")
  /\ UNCHANGED <<pins, info, pc, local, xwait, waited>>

XRUNTEST ==
  /\ Ready
  /\ runTestTime' \in RunTimes
  /\ UNCHANGED <<pins, endIR, endDR, maxRepeat, shiftBits, errorCode, pc, local, xwait, waited>>

XREPEAT ==
  /\ Ready
  /\ maxRepeat' \in Repeats
  /\ UNCHANGED <<pins, endIR, endDR, runTestTime, shiftBits, errorCode, pc, local, xwait, waited>>

XSDRSIZE ==
  /\ Ready
  /\ shiftBits' \in ShiftSizes
  /\ errorCode' = IF shiftBits' > MaxBits THEN "DATAOVERFLOW" ELSE errorCode
  /\ UNCHANGED <<pins, endIR, endDR, maxRepeat, runTestTime, pc, local, xwait, waited>>

(* XENDIR and XENDDR; a parameter that is neither is an error. *)
XENDXR ==
  /\ Ready
  /\ \/ endIR' \in {RUNTEST, PAUSEIR} /\ UNCHANGED <<endDR, errorCode>>
     \/ endDR' \in {RUNTEST, PAUSEDR} /\ UNCHANGED <<endIR, errorCode>>
     \/ Fail("ILLEGALSTATE") /\ UNCHANGED <<endIR, endDR>>
  /\ UNCHANGED <<pins, maxRepeat, runTestTime, shiftBits, pc, local, xwait, waited>>

XSTATE ==
  /\ Ready
  /\ \E state \in StateBytes :
       /\ Goto(tapState, state)
       /\ errorCode' = IF IllegalPath(tapState, state) THEN "ILLEGALSTATE" ELSE errorCode
  /\ UNCHANGED <<info, pc, local, waited>>

-----------------------------------------------------------------------------
(* xsvfShift *)

(* The command ends, and its local variables with it. *)
EndLocals ==
  /\ shift' = NoShift /\ left' = 0 /\ wait' = 0 /\ repeat' = 0 /\ mismatch' = FALSE /\ more' = 0

(* Mutant: the wait stays in the end state. *)
StayForWait == shift.end

(* Where the XRUNTEST time is waited. *)
WaitState == RUNTEST

(* Its beginning: a shift of no bits only waits. *)
BeginShift(args, time) ==
  /\ shift' = args
  /\ wait' = time
  /\ mismatch' = FALSE
  /\ repeat' = 0
  /\ left' = args.bits
  /\ \/ args.bits > 0 /\ Goto(tapState, args.start) /\ Step("shift")
     \/ args.bits = 0 /\ time > 0 /\ Goto(tapState, WaitState) /\ Step("wait")
     \/ args.bits = 0 /\ time = 0 /\ Step("loop") /\ UNCHANGED pins

(* XSIR and XSIR2: the length is in the command, TDO is ignored. *)
XSIR ==
  /\ Ready
  /\ more' = 0
  /\ \E n \in ShiftSizes :
       \/ /\ n > MaxBits
          /\ Fail("DATAOVERFLOW")
          /\ UNCHANGED <<pins, info, pc, shift, left, wait, repeat, mismatch, waited>>
       \/ /\ n <= MaxBits
          /\ BeginShift([start |-> SHIFTIR, bits |-> n, expect |-> FALSE, end |-> endIR,
                         limit |-> 0], runTestTime)

(* The arguments of the commands that shift data and then leave the shift state. *)
DataShift == [start |-> SHIFTDR, bits |-> shiftBits, expect |-> TRUE, end |-> endDR,
              limit |-> maxRepeat]

(* XSDR and XSDRTDO *)
XSDR ==
  /\ Ready
  /\ more' = 0
  /\ BeginShift(DataShift, runTestTime)

(* The first shift of XSDRINC; NextIncrement is one of those that follow. *)
XSDRINC ==
  /\ Ready
  /\ more' \in Increments
  /\ BeginShift(DataShift, runTestTime)

(* XSDRB/C/E and XSDRTDOB/C/E: the last of each leaves the shift state, none waits. *)
XSDRBCE ==
  /\ Ready
  /\ more' = 0
  /\ \E expect \in BOOLEAN, end \in {SHIFTDR, endDR} :
       BeginShift([DataShift EXCEPT !.expect = expect, !.end = end, !.limit = 0], 0)

Exiting == shift.start # shift.end

(* Mutants: the loop ends one bit late; TMS is raised with the first bit; the state code is *)
(* not incremented behind the last bit; the retries are not counted; the counter  *)
(* is tested before its last increment.                                                     *)
BehindLastBit == left = 0
TmsHigh       == IF Exiting THEN 1 ELSE tms
SameState     == tapState
SameCount     == repeat
WasExhausted  == repeat > shift.limit

LastBit   == left = 1
ShiftTms  == IF Exiting /\ LastBit THEN 1 ELSE tms
ExitState == tapState + 1

(* xsvfShiftOnly: one bit; the last one leaves the shift state if the shift is to. *)
ShiftBit ==
  /\ At("shift")
  /\ left' = left - 1
  /\ TmsTransition(ShiftTms)
  /\ Step(IF LastBit THEN "compare" ELSE "shift")
  /\ UNCHANGED <<tapState, goal, shift, wait, repeat, mismatch, more>>

(* The comparison, and the way out of the shift state: to the end state, or, for a retry, *)
(* to the pause state.                                                                    *)
Compare ==
  /\ At("compare")
  /\ mismatch' \in (IF shift.expect THEN BOOLEAN ELSE {FALSE})
  /\ \/ /\ ~Exiting
        /\ Step("loop")
        /\ UNCHANGED pins
     \/ /\ Exiting /\ mismatch' /\ wait > 0 /\ repeat < shift.limit
        /\ Goto(ExitState, PAUSEDR)
        /\ Step("retry")
     \/ /\ Exiting /\ ~(mismatch' /\ wait > 0 /\ repeat < shift.limit)
        /\ Goto(ExitState, shift.end)
        /\ Step("afterShift")
  /\ UNCHANGED <<shift, left, wait, repeat, more>>

(* The retry shifts one extra bit and waits 25% longer than the last time. *)
Retry ==
  /\ At("retry")
  /\ Goto(tapState, SHIFTDR)
  /\ wait' = wait + wait \div 4
  /\ Step("afterShift")
  /\ UNCHANGED <<shift, left, repeat, mismatch, more>>

AfterShift ==
  /\ At("afterShift")
  /\ \/ wait > 0 /\ Goto(tapState, WaitState) /\ Step("wait")
     \/ wait = 0 /\ Step("loop") /\ UNCHANGED pins
  /\ UNCHANGED local

RunTestWait ==
  /\ At("wait")
  /\ WaitTime(wait)
  /\ pc' = "loop"
  /\ UNCHANGED <<pins, info, errorCode, local>>

(* The condition of the loop: after a mismatch the retry counter, a byte, is incremented *)
(* whether or not there is another round.                                                *)
Counted   == (repeat + 1) % RepeatModulus
Exhausted == Counted > shift.limit

ShiftAgain ==
  /\ At("loop") /\ mismatch /\ repeat < shift.limit
  /\ repeat' = Counted
  /\ left' = shift.bits
  /\ Goto(tapState, shift.start)
  /\ Step("shift")
  /\ UNCHANGED <<shift, wait, mismatch, more>>

GiveUp ==
  /\ At("loop") /\ mismatch /\ ~(repeat < shift.limit)
  /\ Fail(IF shift.limit > 0 /\ Exhausted THEN "MAXRETRIES" ELSE "TDOMISMATCH")
  /\ pc' = "command" /\ EndLocals
  /\ UNCHANGED <<pins, info, waited>>

NextIncrement ==
  /\ At("loop") /\ ~mismatch /\ more > 0
  /\ more' = more - 1
  /\ BeginShift(DataShift, runTestTime)

EndShift ==
  /\ At("loop") /\ ~mismatch /\ more = 0
  /\ Step("command") /\ EndLocals
  /\ UNCHANGED pins

-----------------------------------------------------------------------------
(* Mutant: the test is the wrong way round. *)
GotoIfThere(state) ==
  \/ tapState = state /\ Goto(tapState, state)
  \/ tapState # state /\ UNCHANGED pins

(* XWAIT; the error code of xsvfGotoTapState is ignored, both times. *)
GotoUnlessThere(state) ==
  \/ tapState # state /\ Goto(tapState, state)
  \/ tapState = state /\ UNCHANGED pins

XWAIT ==
  /\ Ready
  /\ \E state \in StateBytes, end \in StateBytes, time \in RunTimes :
       /\ xwait' = [state |-> state, end |-> end, time |-> time]
       /\ GotoUnlessThere(state)
  /\ Step("xwait")
  /\ UNCHANGED local

EndXWAIT ==
  /\ At("xwait")
  /\ WaitTime(xwait.time)
  /\ GotoUnlessThere(xwait.end)
  /\ pc' = "command"
  /\ xwait' = NoWait
  /\ UNCHANGED <<info, errorCode, local>>

-----------------------------------------------------------------------------
Command ==
  \/ IllegalCmd \/ XRUNTEST \/ XREPEAT \/ XSDRSIZE \/ XENDXR
  \/ (XSTATE \/ XSIR \/ XSDR \/ XSDRINC \/ XSDRBCE) /\ UNCHANGED xwait
  \/ XWAIT

(* What the player does to end the command it has started. *)
Play ==
  \/ Move
  \/ /\ \/ ShiftBit \/ Compare \/ Retry \/ AfterShift \/ RunTestWait
        \/ ShiftAgain \/ GiveUp \/ NextIncrement \/ EndShift
     /\ UNCHANGED xwait
  \/ EndXWAIT

Next == Initialize \/ Command \/ Play \/ Stop

(* The player is a thread that keeps running; the end of the file is not promised. *)
Spec == Init /\ [][Next]_vars /\ WF_vars(Play)

-----------------------------------------------------------------------------
(* PROPERTIES *)

(* Between two TCK edges the player knows the state of the TAP controller, through every *)
(* path of xsvfGotoTapState, the increment of the state code behind the last bit of a     *)
(* shift, and the retries.                                                                *)
TrackedStateIsReal ==
  pc # "off" => tap = IF pc = "compare" /\ Exiting THEN tapState + 1 ELSE tapState

(* Every bit of a shift, of all its rounds, is clocked in the shift state it is meant for: *)
(* TMS, which xsvfShiftOnly does not set before the last bit, is low until then.           *)
BitsAreShiftedInShiftState == At("shift") => tap = shift.start /\ left \in 1 .. shift.bits

(* The XRUNTEST wait after a shift, the one of a retry and the one of a shift of no bits *)
(* included, is spent in Run-Test/Idle.                                                  *)
RunTestIsWaitedInIdle == At("wait") => tap = RUNTEST

(* After any number of retries, a shift leaves the TAP in the end state it was given, or *)
(* in Run-Test/Idle when there was a wait; XSDRB and XSDRC leave it in Shift-DR.          *)
ShiftEndsInEndState ==
  At("loop") /\ shift.bits > 0 => tap = IF wait > 0 THEN RUNTEST ELSE shift.end

(* A shift that gives up reports exhausted retries (XSVFPlayerConstants.h:179) exactly when *)
(* it was allowed retries and the counter, a byte, has room for the increment behind the    *)
(* last one: with no retry, and with 255 of them, it reports a plain mismatch.              *)
ExhaustedRetriesAreReported ==
  [][errorCode' # errorCode /\ errorCode' \in {"TDOMISMATCH", "MAXRETRIES"} =>
       (errorCode' = "MAXRETRIES" <=> shift.limit \in 1 .. RepeatModulus - 2)]_vars

(* XWAIT waits in the state it names (XSVFPlayer.cpp:1166), unless the way there is one that *)
(* xsvfGotoTapState refuses: the error is ignored (line 1192), and it waits where it is.     *)
(* Only the two Exit2 states are refused, and not from the pause state in front of them.     *)
XWaitWaitsInReachableState ==
  At("xwait") => tap = xwait.state \/ IllegalPath(tap, xwait.state)

(* waitTime takes at least the time asked for (MtcaProgrammerJTAG.cpp:133). *)
WaitsLongEnough == waited.slept >= waited.asked

(* Every command comes to its end: xsvfGotoTapState reaches every state from every state, *)
(* and the retries are bounded.                                                            *)
EveryCommandEnds == Moving \/ pc \notin {"off", "command"} ~> At("command")
=============================================================================
