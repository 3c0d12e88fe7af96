----------------------------- MODULE XsvfTapProofs -----------------------------
(***************************************************************************)
(* Proofs about XsvfTap, for every size, wait, repeat count and state byte *)
(* of the file: the player always knows the state of the TAP controller,   *)
(* and what it does in a state it does in that state.                      *)
(***************************************************************************)
EXTENDS XsvfTap, TLAPS

-----------------------------------------------------------------------------
(* THE INDUCTIVE INVARIANT *)

(* A shift state is entered, and stayed in, with TMS low. *)
TmsIsLowInShift == pc # "off" /\ tap \in Shifting => tms = 0

(* Where a shift is: its bits are shifted in its start state, the rounds of one that has no *)
(* end state of its own do not wait, and only a shift of some bits is compared.             *)
InShift ==
  /\ shift.end \in {RUNTEST, PAUSEDR, PAUSEIR, SHIFTDR}
  /\ pc = "shift" => goal = shift.start /\ left \in 1 .. shift.bits
  /\ pc = "compare" => tapState = shift.start /\ goal = shift.start
  /\ pc \in {"shift", "compare", "retry", "afterShift"} \/ mismatch => shift.bits > 0
  /\ pc \in {"retry", "wait"} => wait > 0
  /\ /\ pc \in {"shift", "compare", "retry", "afterShift", "wait", "loop"}
     /\ shift.start = shift.end
     => wait = 0

(* Where xsvfGotoTapState is going. *)
Destination ==
  /\ pc = "off" => goal = tapState
  /\ pc = "wait" => goal = RUNTEST
  /\ pc = "afterShift" /\ wait = 0 => goal = shift.end
  /\ pc = "loop" /\ shift.bits > 0 =>
       goal = tapState /\ goal = IF wait > 0 THEN RUNTEST ELSE shift.end
  /\ pc = "xwait" => \/ goal = xwait.state
                     \/ goal = tapState /\ IllegalPath(goal, xwait.state)

(* The inductive invariant. *)
IInv ==
  /\ TypeOK
  /\ TrackedStateIsReal
  /\ TmsIsLowInShift
  /\ InShift
  /\ Destination

-----------------------------------------------------------------------------
(* THE TAP CONTROLLER *)

(* Where each state goes with TMS low ... *)
LEMMA OnZero ==
  /\ TapOn0[RESET] = RUNTEST /\ TapOn0[RUNTEST] = RUNTEST
  /\ TapOn0[SELECTDR] = CAPTUREDR /\ TapOn0[CAPTUREDR] = SHIFTDR /\ TapOn0[SHIFTDR] = SHIFTDR
  /\ TapOn0[EXIT1DR] = PAUSEDR /\ TapOn0[PAUSEDR] = PAUSEDR /\ TapOn0[EXIT2DR] = SHIFTDR
  /\ TapOn0[UPDATEDR] = RUNTEST
  /\ TapOn0[SELECTIR] = CAPTUREIR /\ TapOn0[CAPTUREIR] = SHIFTIR /\ TapOn0[SHIFTIR] = SHIFTIR
  /\ TapOn0[EXIT1IR] = PAUSEIR /\ TapOn0[PAUSEIR] = PAUSEIR /\ TapOn0[EXIT2IR] = SHIFTIR
  /\ TapOn0[UPDATEIR] = RUNTEST
BY DEF TapOn0, TapState, RESET, RUNTEST, SELECTDR, CAPTUREDR, SHIFTDR, EXIT1DR, PAUSEDR, EXIT2DR,
       UPDATEDR, SELECTIR, CAPTUREIR, SHIFTIR, EXIT1IR, PAUSEIR, EXIT2IR, UPDATEIR

(* ... and with TMS high. *)
LEMMA OnOne ==
  /\ TapOn1[RESET] = RESET /\ TapOn1[RUNTEST] = SELECTDR
  /\ TapOn1[SELECTDR] = SELECTIR /\ TapOn1[CAPTUREDR] = EXIT1DR /\ TapOn1[SHIFTDR] = EXIT1DR
  /\ TapOn1[EXIT1DR] = UPDATEDR /\ TapOn1[PAUSEDR] = EXIT2DR /\ TapOn1[EXIT2DR] = UPDATEDR
  /\ TapOn1[UPDATEDR] = SELECTDR
  /\ TapOn1[SELECTIR] = RESET /\ TapOn1[CAPTUREIR] = EXIT1IR /\ TapOn1[SHIFTIR] = EXIT1IR
  /\ TapOn1[EXIT1IR] = UPDATEIR /\ TapOn1[PAUSEIR] = EXIT2IR /\ TapOn1[EXIT2IR] = UPDATEIR
  /\ TapOn1[UPDATEIR] = SELECTDR
BY DEF TapOn1, TapState, RESET, RUNTEST, SELECTDR, CAPTUREDR, SHIFTDR, EXIT1DR, PAUSEDR, EXIT2DR,
       UPDATEDR, SELECTIR, CAPTUREIR, SHIFTIR, EXIT1IR, PAUSEIR, EXIT2IR, UPDATEIR

(* The sixteen states. *)
LEMMA States ==
  TapState = {RESET, RUNTEST, SELECTDR, CAPTUREDR, SHIFTDR, EXIT1DR, PAUSEDR, EXIT2DR, UPDATEDR,
              SELECTIR, CAPTUREIR, SHIFTIR, EXIT1IR, PAUSEIR, EXIT2IR, UPDATEIR}
BY DEF TapState, RESET, RUNTEST, SELECTDR, CAPTUREDR, SHIFTDR, EXIT1DR, PAUSEDR, EXIT2DR, UPDATEDR,
       SELECTIR, CAPTUREIR, SHIFTIR, EXIT1IR, PAUSEIR, EXIT2IR, UPDATEIR

(* A shift state is entered with TMS low, and left with TMS high to the state of the next code. *)
LEMMA ShiftStates ==
  \A s \in TapState, value \in {0, 1} :
    /\ TapNext(s, value) \in TapState
    /\ TapNext(s, value) \in Shifting => value = 0
    /\ s \in Shifting => TapNext(s, 0) = s /\ TapNext(s, 1) = s + 1
BY OnZero, OnOne, States
   DEF TapNext, Shifting, RESET, RUNTEST, SELECTDR, CAPTUREDR, SHIFTDR, EXIT1DR, PAUSEDR, EXIT2DR,
       UPDATEDR, SELECTIR, CAPTUREIR, SHIFTIR, EXIT1IR, PAUSEIR, EXIT2IR, UPDATEIR

(* Behind a pause state comes the state of the next code, too. *)
LEMMA PauseStates ==
  \A s \in {PAUSEDR, PAUSEIR} : TapNext(s, 1) = s + 1 /\ s + 1 \in TapState \ Shifting
BY OnOne, States DEF TapNext, Shifting, SHIFTDR, SHIFTIR, PAUSEDR, PAUSEIR, EXIT2DR, EXIT2IR

(* Six clocks with TMS high reset the TAP controller from wherever it is. *)
LEMMA SixOnesReset ==
  \A s \in TapState : TapOn1[TapOn1[TapOn1[TapOn1[TapOn1[TapOn1[s]]]]]] = RESET
<1>1. \A s \in {RESET, SELECTIR} : TapOn1[s] = RESET
  BY OnOne
<1>2. TapOn1[SELECTDR] = SELECTIR
  BY OnOne
<1>3. \A s \in {RUNTEST, UPDATEDR, UPDATEIR} : TapOn1[s] = SELECTDR
  BY OnOne
<1>4. \A s \in {EXIT1DR, EXIT2DR, EXIT1IR, EXIT2IR} : TapOn1[s] \in {UPDATEDR, UPDATEIR}
  BY OnOne
<1>5. \A s \in {CAPTUREDR, SHIFTDR, PAUSEDR, CAPTUREIR, SHIFTIR, PAUSEIR} :
        TapOn1[s] \in {EXIT1DR, EXIT2DR, EXIT1IR, EXIT2IR}
  BY OnOne
<1> QED
  BY <1>1, <1>2, <1>3, <1>4, <1>5, States

(* The TMS value xsvfGotoTapState chooses in each state ... *)
LEMMA TmsTable ==
  ASSUME NEW target
  PROVE  /\ TmsFor(RESET, target) = 0 /\ TmsFor(RUNTEST, target) = 1
         /\ TmsFor(SELECTDR, target) = IF target >= IRSTATES THEN 1 ELSE 0
         /\ TmsFor(CAPTUREDR, target) = IF target = SHIFTDR THEN 0 ELSE 1
         /\ TmsFor(SHIFTDR, target) = 1
         /\ TmsFor(EXIT1DR, target) = IF target = PAUSEDR THEN 0 ELSE 1
         /\ TmsFor(PAUSEDR, target) = 1
         /\ TmsFor(EXIT2DR, target) = IF target = SHIFTDR THEN 0 ELSE 1
         /\ TmsFor(UPDATEDR, target) = IF target = RUNTEST THEN 0 ELSE 1
         /\ TmsFor(SELECTIR, target) = 0
         /\ TmsFor(CAPTUREIR, target) = IF target = SHIFTIR THEN 0 ELSE 1
         /\ TmsFor(SHIFTIR, target) = 1
         /\ TmsFor(EXIT1IR, target) = IF target = PAUSEIR THEN 0 ELSE 1
         /\ TmsFor(PAUSEIR, target) = 1
         /\ TmsFor(EXIT2IR, target) = IF target = SHIFTIR THEN 0 ELSE 1
         /\ TmsFor(UPDATEIR, target) = IF target = RUNTEST THEN 0 ELSE 1
BY DEF TmsFor, RESET, RUNTEST, SELECTDR, CAPTUREDR, SHIFTDR, EXIT1DR, PAUSEDR, EXIT2DR,
       UPDATEDR, SELECTIR, CAPTUREIR, SHIFTIR, EXIT1IR, PAUSEIR, EXIT2IR, UPDATEIR

(* ... and the state it then notes. *)
LEMMA StateTable ==
  ASSUME NEW target
  PROVE  /\ StateAfter(RESET, target) = RUNTEST /\ StateAfter(RUNTEST, target) = SELECTDR
         /\ StateAfter(SELECTDR, target) = IF target >= IRSTATES THEN SELECTIR ELSE CAPTUREDR
         /\ StateAfter(CAPTUREDR, target) = IF target = SHIFTDR THEN SHIFTDR ELSE EXIT1DR
         /\ StateAfter(SHIFTDR, target) = EXIT1DR
         /\ StateAfter(EXIT1DR, target) = IF target = PAUSEDR THEN PAUSEDR ELSE UPDATEDR
         /\ StateAfter(PAUSEDR, target) = EXIT2DR
         /\ StateAfter(EXIT2DR, target) = IF target = SHIFTDR THEN SHIFTDR ELSE UPDATEDR
         /\ StateAfter(UPDATEDR, target) = IF target = RUNTEST THEN RUNTEST ELSE SELECTDR
         /\ StateAfter(SELECTIR, target) = CAPTUREIR
         /\ StateAfter(CAPTUREIR, target) = IF target = SHIFTIR THEN SHIFTIR ELSE EXIT1IR
         /\ StateAfter(SHIFTIR, target) = EXIT1IR
         /\ StateAfter(EXIT1IR, target) = IF target = PAUSEIR THEN PAUSEIR ELSE UPDATEIR
         /\ StateAfter(PAUSEIR, target) = EXIT2IR
         /\ StateAfter(EXIT2IR, target) = IF target = SHIFTIR THEN SHIFTIR ELSE UPDATEIR
         /\ StateAfter(UPDATEIR, target) = IF target = RUNTEST THEN RUNTEST ELSE SELECTDR
BY DEF StateAfter, RESET, RUNTEST, SELECTDR, CAPTUREDR, SHIFTDR, EXIT1DR, PAUSEDR, EXIT2DR,
       UPDATEDR, SELECTIR, CAPTUREIR, SHIFTIR, EXIT1IR, PAUSEIR, EXIT2IR, UPDATEIR

(* xsvfGotoTapState notes the state the TAP controller goes to, whatever the target. *)
LEMMA MoveIsTracked ==
  ASSUME NEW s \in TapState, NEW target
  PROVE  /\ TmsFor(s, target) \in {0, 1}
         /\ StateAfter(s, target) \in TapState
         /\ TapNext(s, TmsFor(s, target)) = StateAfter(s, target)
BY States, OnZero, OnOne, TmsTable, StateTable DEF TapNext

(* The beginning of xsvfGotoTapState: it is in the state it believes to be in, and it is on *)
(* its way to the target, unless that is a state it refuses to go to.                        *)
LEMMA GotoFacts ==
  ASSUME tms \in {0, 1},
         tap \in Shifting => tms = 0,
         NEW from \in TapState,
         NEW target \in Nat,
         tap = from,
         Goto(from, target)
  PROVE  /\ tms' \in {0, 1} /\ tapState' \in TapState /\ goal' \in Nat
         /\ tap' = tapState'
         /\ tap' \in Shifting => tms' = 0
         /\ goal' = target \/ (goal' = tapState' /\ IllegalPath(goal', target))
         /\ target \notin {EXIT2DR, EXIT2IR} => goal' = target
<1> USE DEF TapState, RESET, UPDATEIR
<1>1. CASE target = RESET /\ TmsReset /\ tapState' = RESET /\ goal' = RESET
  <2>1. tap' = RESET /\ tms' = 1
    BY <1>1, SixOnesReset DEF TmsReset
  <2>2. RESET \in TapState \ Shifting
    BY DEF Shifting, SHIFTDR, SHIFTIR
  <2> QED
    BY <1>1, <2>1, <2>2
<1>2. CASE target \in {PAUSEDR, PAUSEIR} /\ TmsTransition(1)
           /\ tapState' = from + 1 /\ goal' = target
           /\ target = from
  BY <1>2, PauseStates DEF TmsTransition
<1>3. CASE IllegalPath(from, target) /\ tapState' = from /\ goal' = from /\ UNCHANGED <<tap, tms>>
  BY <1>3 DEF IllegalPath
<1>4. CASE tapState' = from /\ goal' = target /\ UNCHANGED <<tap, tms>>
  BY <1>4
<1> QED
  BY <1>1, <1>2, <1>3, <1>4 DEF Goto

-----------------------------------------------------------------------------
(* THE STEPS *)

(* A command, or an end of run(), that only stores a parameter. *)
LEMMA ParameterStep ==
  ASSUME IInv,
         pc = "command", ~Moving, pc' \in {"command", "off"},
         UNCHANGED <<pins, shift, left, wait, repeat, mismatch, xwait, waited>>,
         more' \in Nat,
         /\ endIR' \in {RUNTEST, PAUSEIR} /\ endDR' \in {RUNTEST, PAUSEDR}
         /\ maxRepeat' \in 0 .. RepeatModulus - 1 /\ runTestTime' \in Nat /\ shiftBits' \in Nat
         /\ errorCode' \in Errors
  PROVE  IInv'
<1> USE DEF IInv, Moving, pins
<1>1. TypeOK'
  BY DEF TypeOK, Labels
<1>2. TrackedStateIsReal' /\ TmsIsLowInShift'
  BY DEF TrackedStateIsReal, TmsIsLowInShift
<1>3. InShift' /\ Destination'
  BY DEF InShift, Destination
<1> QED
  BY <1>1, <1>2, <1>3

(* The commands that do, the ones that fail included. *)
LEMMA ParametersStep ==
  ASSUME IInv,
         IllegalCmd \/ XRUNTEST \/ XREPEAT \/ XSDRSIZE \/ XENDXR \/ Stop
  PROVE  IInv'
<1> USE ParameterStep DEF IInv, Ready, At, Fail, info, local
<1>1. CASE IllegalCmd
  BY <1>1 DEF IllegalCmd, TypeOK, Errors
<1>2. CASE XRUNTEST
  BY <1>2, XsvfAssumption DEF XRUNTEST, TypeOK
<1>3. CASE XREPEAT
  BY <1>3, XsvfAssumption DEF XREPEAT, TypeOK
<1>4. CASE XSDRSIZE
  BY <1>4, XsvfAssumption DEF XSDRSIZE, TypeOK, Errors
<1>5. CASE XENDXR
  BY <1>5 DEF XENDXR, TypeOK, Errors
<1>6. CASE Stop
  BY <1>6 DEF Stop, TypeOK
<1> QED
  BY <1>1, <1>2, <1>3, <1>4, <1>5, <1>6

(* The reset at the start of run() finds the TAP anywhere. *)
LEMMA InitializeStep == IInv /\ Initialize => IInv'
<1> SUFFICES ASSUME IInv, Initialize
             PROVE  IInv'
  OBVIOUS
<1> USE DEF IInv, Initialize, local
<1>1. tap' = RESET /\ tms' = 1 /\ tapState' = RESET /\ goal' = RESET
  BY SixOnesReset DEF TmsReset, TypeOK
<1>2. RESET \in TapState \ Shifting /\ RESET \in Nat
  BY DEF TapState, Shifting, RESET, UPDATEIR, SHIFTDR, SHIFTIR
<1>3. TypeOK'
  BY <1>1, <1>2, XsvfAssumption DEF TypeOK, Labels, Errors
<1>4. TrackedStateIsReal' /\ TmsIsLowInShift'
  BY <1>1, <1>2 DEF TrackedStateIsReal, TmsIsLowInShift
<1>5. InShift' /\ Destination'
  BY DEF InShift, Destination
<1> QED
  BY <1>3, <1>4, <1>5

(* A transition of xsvfGotoTapState. *)
LEMMA MoveStep == IInv /\ Move => IInv'
<1> SUFFICES ASSUME IInv, Move
             PROVE  IInv'
  OBVIOUS
<1> USE DEF IInv, Move, TmsTransition, local, info
<1>1. pc \notin {"off", "compare"} /\ tap = tapState
  BY DEF TrackedStateIsReal, InShift, Destination, Moving
<1>2. tms' \in {0, 1} /\ tapState' \in TapState /\ tap' = tapState'
      /\ (tap' \in Shifting => tms' = 0)
  BY <1>1, MoveIsTracked, ShiftStates DEF TypeOK
<1>3. TypeOK'
  BY <1>2 DEF TypeOK
<1>4. TrackedStateIsReal' /\ TmsIsLowInShift'
  BY <1>1, <1>2 DEF TrackedStateIsReal, TmsIsLowInShift
<1>5. InShift' /\ Destination'
  BY <1>1 DEF InShift, Destination, Moving
<1> QED
  BY <1>3, <1>4, <1>5

(* What the beginning of xsvfGotoTapState leaves of the pins. *)
LEMMA EntersFacts ==
  ASSUME IInv, pc # "off",
         NEW from \in TapState, NEW target \in Nat, tap = from, Goto(from, target)
  PROVE  /\ tap' \in TapState /\ tms' \in {0, 1} /\ tapState' \in TapState /\ goal' \in Nat
         /\ tap' = tapState'
         /\ tap' \in Shifting => tms' = 0
         /\ goal' = target \/ (goal' = tapState' /\ IllegalPath(goal', target))
         /\ target \notin {EXIT2DR, EXIT2IR} => goal' = target
BY GotoFacts DEF IInv, TypeOK, TmsIsLowInShift

(* The targets of a shift are states xsvfGotoTapState goes to. *)
LEMMA Targets ==
  /\ {RUNTEST, PAUSEDR, PAUSEIR, SHIFTDR, SHIFTIR} \subseteq TapState \ {EXIT2DR, EXIT2IR}
  /\ TapState \subseteq Nat
  /\ RUNTEST \notin Shifting /\ PAUSEDR \notin Shifting /\ PAUSEIR \notin Shifting
  /\ Shifting = {SHIFTDR, SHIFTIR} /\ SHIFTDR # SHIFTIR
BY DEF TapState, Shifting, RESET, RUNTEST, SHIFTDR, PAUSEDR, EXIT2DR, SHIFTIR, PAUSEIR, EXIT2IR,
       UPDATEIR

(* Outside the comparison the player is where it believes to be. *)
LEMMA Tracked == IInv /\ pc \notin {"off", "compare"} => tap = tapState /\ tap \in TapState
BY DEF IInv, TrackedStateIsReal, TypeOK

(* The beginning of xsvfShift. *)
LEMMA BeginShiftStep ==
  ASSUME IInv,
         pc \in {"command", "loop"}, ~Moving,
         NEW args \in ShiftCall, args.end \in {RUNTEST, PAUSEDR, PAUSEIR, SHIFTDR},
         NEW time \in Nat,
         args.start = args.end => time = 0,
         BeginShift(args, time),
         more' \in Nat,
         UNCHANGED xwait
  PROVE  IInv'
<1> USE DEF IInv, BeginShift, Step, info
<1>1. tap = tapState /\ tap \in TapState
  BY Tracked
<1>2. ASSUME NEW target \in {args.start, WaitState}, Goto(tapState, target)
      PROVE  /\ tap' \in TapState /\ tms' \in {0, 1} /\ tapState' \in TapState /\ goal' \in Nat
             /\ tap' = tapState'
             /\ tap' \in Shifting => tms' = 0
             /\ goal' = target
  BY <1>1, <1>2, EntersFacts, Targets DEF WaitState, ShiftCall
<1>3. /\ tap' \in TapState /\ tms' \in {0, 1} /\ tapState' \in TapState /\ goal' \in Nat
      /\ tap' = tapState'
      /\ tap' \in Shifting => tms' = 0
  BY <1>1, <1>2 DEF pins, TypeOK, TmsIsLowInShift
<1>4. TypeOK'
  <2>1. repeat' \in 0 .. RepeatModulus - 1 /\ left' \in Nat
    BY XsvfAssumption DEF ShiftCall
  <2>2. mismatch' \in BOOLEAN
    BY Zenon
  <2>3. pc' \in Labels /\ UNCHANGED <<info, errorCode, waited>>
    BY DEF Labels
  <2> QED
    BY <1>3, <2>1, <2>2, <2>3 DEF TypeOK
<1>5. TrackedStateIsReal' /\ TmsIsLowInShift'
  BY <1>3 DEF TrackedStateIsReal, TmsIsLowInShift
<1>6. InShift'
  BY <1>2 DEF InShift, ShiftCall
<1>7. Destination'
  BY <1>2 DEF Destination, WaitState
<1> QED
  BY <1>4, <1>5, <1>6, <1>7

(* The commands that shift. *)
LEMMA ShiftCommandStep ==
  ASSUME IInv, XSIR \/ XSDR \/ XSDRINC \/ XSDRBCE \/ NextIncrement, UNCHANGED xwait
  PROVE  IInv'
<1>1. pc \in {"command", "loop"} /\ ~Moving
  BY DEF XSIR, XSDR, XSDRINC, XSDRBCE, NextIncrement, Ready, At
<1>2. endIR \in {RUNTEST, PAUSEIR} /\ endDR \in {RUNTEST, PAUSEDR} /\ runTestTime \in Nat
  BY DEF IInv, TypeOK
<1>3. DataShift \in ShiftCall /\ DataShift.start = SHIFTDR /\ DataShift.end = endDR
  BY <1>2, Targets, XsvfAssumption DEF IInv, TypeOK, DataShift, ShiftCall
<1>4. CASE XSIR
  <2>1. PICK n \in ShiftSizes :
          \/ /\ n > MaxBits /\ errorCode' = "DATAOVERFLOW"
             /\ UNCHANGED <<pins, info, pc, shift, left, wait, repeat, mismatch, waited>>
          \/ BeginShift([start |-> SHIFTIR, bits |-> n, expect |-> FALSE, end |-> endIR,
                         limit |-> 0], runTestTime)
    BY <1>4 DEF XSIR, Fail
  <2> DEFINE args == [start |-> SHIFTIR, bits |-> n, expect |-> FALSE, end |-> endIR, limit |-> 0]
  <2>2. args \in ShiftCall /\ args.end \in {RUNTEST, PAUSEDR, PAUSEIR, SHIFTDR}
        /\ args.start # args.end
    BY <1>2, Targets, XsvfAssumption DEF ShiftCall
  <2>3. CASE BeginShift(args, runTestTime)
    <3> HIDE DEF args
    <3> QED
      BY <1>1, <1>2, <1>4, <2>2, <2>3, BeginShiftStep DEF XSIR
  <2>4. CASE errorCode' = "DATAOVERFLOW"
             /\ UNCHANGED <<pins, info, pc, shift, left, wait, repeat, mismatch, waited>>
    BY <1>1, <1>4, <2>4, ParameterStep DEF XSIR, Ready, At, info, IInv, TypeOK, Errors
  <2> QED
    BY <2>1, <2>3, <2>4
<1>5. CASE XSDR \/ XSDRINC \/ NextIncrement
  <2>1. BeginShift(DataShift, runTestTime)
    BY <1>5 DEF XSDR, XSDRINC, NextIncrement
  <2>2. more' \in Nat
    <3>1. CASE XSDR
      BY <3>1 DEF XSDR
    <3>2. CASE XSDRINC
      BY <3>2, XsvfAssumption DEF XSDRINC
    <3>3. CASE NextIncrement
      <4>1. more \in Nat /\ more > 0 /\ more' = more - 1
        BY <3>3 DEF NextIncrement, IInv, TypeOK
      <4> QED
        BY <4>1
    <3> QED
      BY <1>5, <3>1, <3>2, <3>3
  <2> QED
    BY <1>1, <1>2, <1>3, <2>1, <2>2, Targets, BeginShiftStep
<1>6. CASE XSDRBCE
  <2>1. PICK expect \in BOOLEAN, end \in {SHIFTDR, endDR} :
          BeginShift([DataShift EXCEPT !.expect = expect, !.end = end, !.limit = 0], 0)
    BY <1>6 DEF XSDRBCE
  <2> DEFINE args == [DataShift EXCEPT !.expect = expect, !.end = end, !.limit = 0]
  <2>2. args \in ShiftCall /\ args.end \in {RUNTEST, PAUSEDR, PAUSEIR, SHIFTDR}
    BY <1>2, <1>3, Targets DEF ShiftCall
  <2> QED
    BY <1>1, <1>6, <2>1, <2>2, BeginShiftStep DEF XSDRBCE
<1> QED
  BY <1>4, <1>5, <1>6

(* A bit is shifted: the last one, if the shift is to leave the shift state, leaves it. *)
LEMMA ShiftBitStep == IInv /\ ShiftBit /\ UNCHANGED xwait => IInv'
<1> SUFFICES ASSUME IInv, ShiftBit, UNCHANGED xwait
             PROVE  IInv'
  OBVIOUS
<1> USE DEF IInv, ShiftBit, At, Moving, Step, info
<1>1. /\ tap = tapState /\ goal = tapState /\ tapState = shift.start
      /\ tapState \in TapState \cap Shifting /\ tms = 0
      /\ left \in 1 .. shift.bits
  BY Tracked DEF InShift, TypeOK, ShiftCall, TmsIsLowInShift
<1>2. ShiftTms \in {0, 1} /\ tms' = ShiftTms /\ tap' = TapNext(tap, ShiftTms)
  BY <1>1 DEF ShiftTms, TmsTransition
<1>3. /\ tap' \in TapState /\ (tap' \in Shifting => tms' = 0)
      /\ tap' = IF Exiting /\ LastBit THEN tapState + 1 ELSE tapState
  BY <1>1, <1>2, ShiftStates DEF ShiftTms
<1>4. TypeOK'
  <2>1. left' \in Nat
    BY <1>1 DEF TypeOK, ShiftCall
  <2>2. mismatch' \in BOOLEAN
    BY Zenon DEF TypeOK
  <2> QED
    BY <1>2, <1>3, <2>1, <2>2 DEF TypeOK, Labels
<1>5. TrackedStateIsReal' /\ TmsIsLowInShift'
  BY <1>3 DEF TrackedStateIsReal, TmsIsLowInShift, Exiting
<1>6. InShift' /\ Destination'
  BY <1>1 DEF InShift, Destination, LastBit, TypeOK, ShiftCall
<1> QED
  BY <1>4, <1>5, <1>6

(* The way out of the shift state. *)
LEMMA CompareStep == IInv /\ Compare /\ UNCHANGED xwait => IInv'
<1> SUFFICES ASSUME IInv, Compare, UNCHANGED xwait
             PROVE  IInv'
  OBVIOUS
<1> USE DEF IInv, Compare, At, Moving, Step, info
<1>1. /\ goal = tapState /\ tapState = shift.start /\ shift.bits > 0 /\ wait \in Nat
      /\ tap \in TapState /\ tap = IF Exiting THEN tapState + 1 ELSE tapState
  BY DEF InShift, TypeOK, TrackedStateIsReal
<1>2. /\ shift.end \in TapState /\ shift.end \in Nat /\ shift.start \in Shifting
      /\ shift.end \notin {EXIT2DR, EXIT2IR}
  BY Targets DEF TypeOK, ShiftCall, InShift
<1>3. mismatch' \in BOOLEAN
  <2>1. mismatch' \in {TRUE, FALSE}
    BY DEF TypeOK
  <2> QED
    BY <2>1
<1>4. CASE ~Exiting
  <2>1. TypeOK'
    BY <1>3, <1>4 DEF TypeOK, pins, Labels
  <2>2. TrackedStateIsReal' /\ TmsIsLowInShift'
    BY <1>1, <1>4 DEF TrackedStateIsReal, TmsIsLowInShift, pins
  <2>3. InShift' /\ Destination'
    BY <1>1, <1>4 DEF InShift, Destination, Exiting, pins
  <2> QED
    BY <2>1, <2>2, <2>3
<1>5. ASSUME Exiting, NEW target \in {PAUSEDR, shift.end}, Goto(ExitState, target),
             pc' \in {"retry", "afterShift"},
             pc' = "retry" => wait > 0,
             pc' = "afterShift" => target = shift.end
      PROVE  IInv'
  <2>1. tap = ExitState /\ target \in Nat
    BY <1>1, <1>2, <1>5, Targets DEF ExitState
  <2>2. /\ tap' \in TapState /\ tms' \in {0, 1} /\ tapState' \in TapState /\ goal' \in Nat
        /\ tap' = tapState'
        /\ tap' \in Shifting => tms' = 0
        /\ target \notin {EXIT2DR, EXIT2IR} => goal' = target
    BY <1>1, <1>5, <2>1, EntersFacts
  <2>3. TypeOK'
    BY <1>3, <1>5, <2>2 DEF TypeOK, Labels
  <2>4. TrackedStateIsReal' /\ TmsIsLowInShift'
    BY <1>5, <2>2 DEF TrackedStateIsReal, TmsIsLowInShift
  <2>5. InShift' /\ Destination'
    BY <1>1, <1>2, <1>5, <2>2, Targets DEF InShift, Destination, Exiting
  <2> QED
    BY <2>3, <2>4, <2>5
<1> QED
  BY <1>4, <1>5

(* A step that goes to Run-Test/Idle or a shift state, from where the player is. *)
LEMMA GoStep ==
  ASSUME IInv, pc \notin {"off", "compare"},
         NEW target \in {RUNTEST, SHIFTDR, SHIFTIR},
         Goto(tapState, target)
  PROVE  /\ tap' \in TapState /\ tms' \in {0, 1} /\ tapState' \in TapState /\ goal' \in Nat
         /\ tap' = tapState'
         /\ tap' \in Shifting => tms' = 0
         /\ goal' = target
BY Tracked, Targets, EntersFacts DEF IInv, TypeOK

(* A retry waits longer. *)
LEMMA RetryStep == IInv /\ Retry /\ UNCHANGED xwait => IInv'
<1> SUFFICES ASSUME IInv, Retry, UNCHANGED xwait
             PROVE  IInv'
  OBVIOUS
<1> USE DEF IInv, Retry, At, Step, info
<1>1. wait' \in Nat /\ wait' > 0
  BY DEF TypeOK, InShift
<1>2. /\ tap' \in TapState /\ tms' \in {0, 1} /\ tapState' \in TapState /\ goal' \in Nat
      /\ tap' = tapState'
      /\ tap' \in Shifting => tms' = 0
  BY GoStep
<1>3. TypeOK'
  BY <1>1, <1>2 DEF TypeOK, Labels
<1>4. TrackedStateIsReal' /\ TmsIsLowInShift'
  BY <1>2 DEF TrackedStateIsReal, TmsIsLowInShift
<1>5. InShift' /\ Destination'
  BY <1>1 DEF InShift, Destination, TypeOK
<1> QED
  BY <1>3, <1>4, <1>5

(* The wait behind a shift. *)
LEMMA AfterShiftStep == IInv /\ AfterShift /\ UNCHANGED xwait => IInv'
<1> SUFFICES ASSUME IInv, AfterShift, UNCHANGED xwait
             PROVE  IInv'
  OBVIOUS
<1> USE DEF IInv, AfterShift, At, Moving, Step, info, local, WaitState
<1>1. tap = tapState /\ goal = tapState
  BY Tracked
<1>2. CASE wait > 0 /\ Goto(tapState, RUNTEST) /\ pc' = "wait"
  <2>1. /\ tap' \in TapState /\ tms' \in {0, 1} /\ tapState' \in TapState /\ goal' \in Nat
        /\ tap' = tapState'
        /\ tap' \in Shifting => tms' = 0
        /\ goal' = RUNTEST
    BY <1>2, GoStep
  <2>2. TypeOK'
    BY <1>2, <2>1 DEF TypeOK, Labels
  <2>3. TrackedStateIsReal' /\ TmsIsLowInShift'
    BY <1>2, <2>1 DEF TrackedStateIsReal, TmsIsLowInShift
  <2>4. InShift' /\ Destination'
    BY <1>2, <2>1 DEF InShift, Destination
  <2> QED
    BY <2>2, <2>3, <2>4
<1>3. CASE wait = 0 /\ UNCHANGED pins /\ pc' = "loop"
  <2>1. TypeOK'
    BY <1>3 DEF TypeOK, pins, Labels
  <2>2. TrackedStateIsReal' /\ TmsIsLowInShift'
    BY <1>1, <1>3 DEF TrackedStateIsReal, TmsIsLowInShift, pins
  <2>3. InShift' /\ Destination'
    BY <1>1, <1>3 DEF InShift, Destination, pins
  <2> QED
    BY <2>1, <2>2, <2>3
<1> QED
  BY <1>2, <1>3

(* The wait itself leaves the pins alone. *)
LEMMA RunTestWaitStep == IInv /\ RunTestWait /\ UNCHANGED xwait => IInv'
<1> SUFFICES ASSUME IInv, RunTestWait, UNCHANGED xwait
             PROVE  IInv'
  OBVIOUS
<1> USE DEF IInv, RunTestWait, At, Moving, pins, info, local
<1>1. waited' \in [asked : Nat, slept : Nat]
  BY XsvfAssumption DEF WaitTime, TypeOK
<1>2. TypeOK'
  BY <1>1 DEF TypeOK, Labels
<1>3. TrackedStateIsReal' /\ TmsIsLowInShift'
  BY DEF TrackedStateIsReal, TmsIsLowInShift
<1>4. InShift' /\ Destination'
  BY Tracked DEF InShift, Destination
<1> QED
  BY <1>2, <1>3, <1>4

(* The next round of a shift. *)
LEMMA ShiftAgainStep == IInv /\ ShiftAgain /\ UNCHANGED xwait => IInv'
<1> SUFFICES ASSUME IInv, ShiftAgain, UNCHANGED xwait
             PROVE  IInv'
  OBVIOUS
<1> USE DEF IInv, ShiftAgain, At, Moving, Step, info
<1>1. repeat' \in 0 .. RepeatModulus - 1 /\ left' \in Nat
  BY XsvfAssumption DEF TypeOK, ShiftCall, Counted
<1>2. shift.start \in {SHIFTDR, SHIFTIR} /\ shift.bits \in Nat \ {0}
  BY Targets DEF TypeOK, ShiftCall, InShift
<1>3. /\ tap' \in TapState /\ tms' \in {0, 1} /\ tapState' \in TapState /\ goal' \in Nat
      /\ tap' = tapState'
      /\ tap' \in Shifting => tms' = 0
      /\ goal' = shift.start
  BY <1>2, GoStep
<1>4. TypeOK'
  BY <1>1, <1>3 DEF TypeOK, Labels
<1>5. TrackedStateIsReal' /\ TmsIsLowInShift'
  BY <1>3 DEF TrackedStateIsReal, TmsIsLowInShift
<1>6. InShift' /\ Destination'
  BY <1>2, <1>3 DEF InShift, Destination
<1> QED
  BY <1>4, <1>5, <1>6

(* The end of a shift, with an error or without. *)
LEMMA EndShiftStep == IInv /\ (GiveUp \/ EndShift) /\ UNCHANGED xwait => IInv'
<1> SUFFICES ASSUME IInv, GiveUp \/ EndShift, UNCHANGED xwait
             PROVE  IInv'
  OBVIOUS
<1>1. /\ pc = "loop" /\ pc' = "command" /\ EndLocals /\ UNCHANGED <<pins, info, waited>>
      /\ errorCode' \in Errors
  BY DEF IInv, TypeOK, GiveUp, EndShift, At, Step, Fail, info, Errors
<1> USE <1>1 DEF IInv, EndLocals, pins, info
<1>2. TypeOK'
  <2>1. shift' \in ShiftCall
    BY Targets DEF NoShift, ShiftCall
  <2>2. left' \in Nat /\ wait' \in Nat /\ repeat' \in 0 .. RepeatModulus - 1 /\ more' \in Nat
    BY XsvfAssumption
  <2>3. mismatch' \in BOOLEAN
    BY Zenon
  <2> QED
    BY <2>1, <2>2, <2>3 DEF TypeOK, Labels
<1>3. TrackedStateIsReal' /\ TmsIsLowInShift'
  BY DEF TrackedStateIsReal, TmsIsLowInShift
<1>4. InShift' /\ Destination'
  BY DEF InShift, Destination, NoShift
<1> QED
  BY <1>2, <1>3, <1>4

(* XSTATE goes to any state, or stays where it is. *)
LEMMA StateStep == IInv /\ XSTATE /\ UNCHANGED xwait => IInv'
<1> SUFFICES ASSUME IInv, XSTATE, UNCHANGED xwait
             PROVE  IInv'
  OBVIOUS
<1> USE DEF IInv, XSTATE, Ready, At, Moving, info, local
<1>1. PICK state \in StateBytes : Goto(tapState, state)
  OBVIOUS
<1>2. /\ tap' \in TapState /\ tms' \in {0, 1} /\ tapState' \in TapState /\ goal' \in Nat
      /\ tap' = tapState'
      /\ tap' \in Shifting => tms' = 0
  BY <1>1, Tracked, EntersFacts, XsvfAssumption DEF TypeOK
<1>3. errorCode' \in Errors
  BY DEF TypeOK, Errors
<1>4. TypeOK'
  BY <1>2, <1>3 DEF TypeOK
<1>5. TrackedStateIsReal' /\ TmsIsLowInShift'
  BY <1>2 DEF TrackedStateIsReal, TmsIsLowInShift
<1>6. InShift' /\ Destination'
  BY DEF InShift, Destination
<1> QED
  BY <1>4, <1>5, <1>6

(* XWAIT and its end go to a state unless they are there. *)
LEMMA UnlessThereFacts ==
  ASSUME IInv, pc \notin {"off", "compare"}, ~Moving,
         NEW target \in Nat,
         GotoUnlessThere(target)
  PROVE  /\ tap' \in TapState /\ tms' \in {0, 1} /\ tapState' \in TapState /\ goal' \in Nat
         /\ tap' = tapState'
         /\ tap' \in Shifting => tms' = 0
         /\ goal' = target \/ (goal' = tapState' /\ IllegalPath(goal', target))
<1>1. tap = tapState /\ tap \in TapState /\ goal = tapState
  BY Tracked DEF Moving
<1>2. CASE Goto(tapState, target)
  BY <1>1, <1>2, EntersFacts DEF IInv, TypeOK
<1>3. CASE tapState = target /\ UNCHANGED pins
  BY <1>1, <1>3, Targets DEF pins, IInv, TypeOK, TmsIsLowInShift
<1> QED
  BY <1>2, <1>3 DEF GotoUnlessThere

(* The two halves of XWAIT. *)
LEMMA WaitStep == IInv /\ (XWAIT \/ EndXWAIT) => IInv'
<1> SUFFICES ASSUME IInv, XWAIT \/ EndXWAIT
             PROVE  IInv'
  OBVIOUS
<1> USE DEF IInv
<1>1. CASE XWAIT
  <2>1. PICK state \in StateBytes, end \in StateBytes, time \in RunTimes :
          /\ xwait' = [state |-> state, end |-> end, time |-> time]
          /\ GotoUnlessThere(state)
    BY <1>1 DEF XWAIT
  <2>2. pc = "command" /\ ~Moving /\ pc' = "xwait" /\ UNCHANGED <<info, errorCode, waited, local>>
    BY <1>1 DEF XWAIT, Ready, At, Step
  <2>3. /\ tap' \in TapState /\ tms' \in {0, 1} /\ tapState' \in TapState /\ goal' \in Nat
        /\ tap' = tapState'
        /\ tap' \in Shifting => tms' = 0
        /\ goal' = state \/ (goal' = tapState' /\ IllegalPath(goal', state))
    BY <2>1, <2>2, XsvfAssumption, UnlessThereFacts
  <2>4. xwait' \in [state : Nat, end : Nat, time : Nat] /\ xwait'.state = state
    BY <2>1, XsvfAssumption
  <2>5. TypeOK'
    BY <2>2, <2>3, <2>4 DEF TypeOK, Labels, info, local
  <2>6. TrackedStateIsReal' /\ TmsIsLowInShift'
    BY <2>2, <2>3 DEF TrackedStateIsReal, TmsIsLowInShift
  <2>7. InShift' /\ Destination'
    BY <2>2, <2>3, <2>4 DEF InShift, Destination, local
  <2> QED
    BY <2>5, <2>6, <2>7
<1>2. CASE EndXWAIT
  <2>1. pc = "xwait" /\ ~Moving /\ pc' = "command" /\ UNCHANGED <<info, errorCode, local>>
    BY <1>2 DEF EndXWAIT, At
  <2>2. xwait.end \in Nat /\ xwait.time \in Nat
    BY DEF TypeOK
  <2>3. /\ tap' \in TapState /\ tms' \in {0, 1} /\ tapState' \in TapState /\ goal' \in Nat
        /\ tap' = tapState'
        /\ tap' \in Shifting => tms' = 0
    BY <1>2, <2>1, <2>2, UnlessThereFacts DEF EndXWAIT
  <2>4. waited' \in [asked : Nat, slept : Nat]
    BY <1>2, <2>2, XsvfAssumption DEF EndXWAIT, WaitTime
  <2>5. xwait' \in [state : Nat, end : Nat, time : Nat]
    BY <1>2 DEF EndXWAIT, NoWait, RESET
  <2>6. TypeOK'
    BY <2>1, <2>3, <2>4, <2>5 DEF TypeOK, Labels, info, local
  <2>7. TrackedStateIsReal' /\ TmsIsLowInShift'
    BY <2>1, <2>3 DEF TrackedStateIsReal, TmsIsLowInShift
  <2>8. InShift' /\ Destination'
    BY <2>1 DEF InShift, Destination, local
  <2> QED
    BY <2>6, <2>7, <2>8
<1> QED
  BY <1>1, <1>2

-----------------------------------------------------------------------------
(* THE INVARIANT HOLDS *)

(* Before its first run the player can be at any state of the TAP controller. *)
LEMMA InitGivesInvariant == Init => IInv
<1> SUFFICES ASSUME Init
             PROVE  IInv
  OBVIOUS
<1> USE DEF Init
<1>1. RESET \in TapState /\ RESET \in Nat
  BY DEF TapState, RESET, UPDATEIR
<1>2. NoShift \in ShiftCall
  BY Targets DEF NoShift, ShiftCall
<1>3. TypeOK
  <2>1. mismatch \in BOOLEAN
    BY Zenon
  <2> QED
    BY <1>1, <1>2, <2>1, XsvfAssumption DEF TypeOK, Labels, Errors, NoWait
<1>4. TrackedStateIsReal /\ TmsIsLowInShift
  BY DEF TrackedStateIsReal, TmsIsLowInShift
<1>5. InShift /\ Destination
  BY DEF InShift, Destination, NoShift
<1> QED
  BY <1>3, <1>4, <1>5 DEF IInv

(* A step of no variable keeps it, too. *)
LEMMA StutteringKeeps == IInv /\ UNCHANGED vars => IInv'
<1> SUFFICES ASSUME IInv, UNCHANGED vars
             PROVE  IInv'
  OBVIOUS
<1> USE DEF IInv, vars, pins, info, local
<1>1. TypeOK'
  <2>1. mismatch' \in BOOLEAN
    BY Zenon DEF TypeOK
  <2> QED
    BY <2>1 DEF TypeOK
<1>2. TrackedStateIsReal' /\ TmsIsLowInShift'
  BY DEF TrackedStateIsReal, TmsIsLowInShift, Exiting
<1>3. InShift' /\ Destination'
  BY DEF InShift, Destination
<1> QED
  BY <1>1, <1>2, <1>3

(* Every action keeps the invariant. *)
LEMMA StepKeeps == IInv /\ [Next]_vars => IInv'
<1> SUFFICES ASSUME IInv, [Next]_vars
             PROVE  IInv'
  OBVIOUS
<1>1. CASE Initialize
  BY <1>1, InitializeStep
<1>2. CASE IllegalCmd \/ XRUNTEST \/ XREPEAT \/ XSDRSIZE \/ XENDXR \/ Stop
  BY <1>2, ParametersStep
<1>3. CASE XSTATE /\ UNCHANGED xwait
  BY <1>3, StateStep
<1>4. CASE (XSIR \/ XSDR \/ XSDRINC \/ XSDRBCE \/ NextIncrement) /\ UNCHANGED xwait
  BY <1>4, ShiftCommandStep
<1>5. CASE XWAIT \/ EndXWAIT
  BY <1>5, WaitStep
<1>6. CASE Move
  BY <1>6, MoveStep
<1>7. CASE (ShiftBit \/ Compare \/ Retry \/ AfterShift \/ RunTestWait \/ ShiftAgain)
           /\ UNCHANGED xwait
  BY <1>7, ShiftBitStep, CompareStep, RetryStep, AfterShiftStep, RunTestWaitStep, ShiftAgainStep
<1>8. CASE (GiveUp \/ EndShift) /\ UNCHANGED xwait
  BY <1>8, EndShiftStep
<1>9. CASE UNCHANGED vars
  BY <1>9, StutteringKeeps
<1> QED
  BY <1>1, <1>2, <1>3, <1>4, <1>5, <1>6, <1>7, <1>8, <1>9 DEF Next, Command, Play

(* The player and the TAP controller agree in every state of every run. *)
THEOREM Invariance == Spec => []IInv
BY InitGivesInvariant, StepKeeps, PTL DEF Spec

-----------------------------------------------------------------------------
(* WHAT FOLLOWS *)

(* Every variable keeps its type, the error code and the retry counter included, whatever *)
(* the parameters in the file are.                                                        *)
THEOREM TypeCorrect == Spec => []TypeOK
<1>1. IInv => TypeOK
  BY DEF IInv
<1> QED
  BY <1>1, Invariance, PTL

(* The player never loses track of the TAP controller. *)
THEOREM StateIsTracked == Spec => []TrackedStateIsReal
<1>1. IInv => TrackedStateIsReal
  BY DEF IInv
<1> QED
  BY <1>1, Invariance, PTL

(* Every bit is clocked in the shift state it is meant for, whatever the length of the shift. *)
THEOREM BitsAreShifted == Spec => []BitsAreShiftedInShiftState
<1>1. IInv => BitsAreShiftedInShiftState
  <2> SUFFICES ASSUME IInv, At("shift")
               PROVE  tap = shift.start /\ left \in 1 .. shift.bits
    BY DEF BitsAreShiftedInShiftState
  <2> QED
    BY Tracked DEF IInv, InShift, At, Moving
<1> QED
  BY <1>1, Invariance, PTL

(* The XRUNTEST time is waited in Run-Test/Idle, in every round of every shift. *)
THEOREM RunTestInIdle == Spec => []RunTestIsWaitedInIdle
<1>1. IInv => RunTestIsWaitedInIdle
  BY Tracked DEF IInv, Destination, At, Moving, RunTestIsWaitedInIdle
<1> QED
  BY <1>1, Invariance, PTL

(* A shift ends where it was told to, after any number of retries. *)
THEOREM ShiftsEnd == Spec => []ShiftEndsInEndState
<1>1. IInv => ShiftEndsInEndState
  BY Tracked DEF IInv, Destination, At, Moving, ShiftEndsInEndState
<1> QED
  BY <1>1, Invariance, PTL

(* XWAIT waits in the state it names, or in one from which xsvfGotoTapState refuses to go there. *)
THEOREM XWaitIsThere == Spec => []XWaitWaitsInReachableState
<1>1. IInv => XWaitWaitsInReachableState
  BY Tracked DEF IInv, Destination, At, Moving, XWaitWaitsInReachableState
<1> QED
  BY <1>1, Invariance, PTL

-----------------------------------------------------------------------------
(* THE RETRIES *)

(* A shift has as many retries as the last XREPEAT has given, or none, and is not repeated more *)
(* often: before the last increment the counter does not wrap.                                  *)
Retries ==
  /\ maxRepeat \in Repeats \cup {0}
  /\ shift.limit \in Repeats \cup {0}
  /\ repeat <= shift.limit

(* The beginning of a shift starts the counter anew. *)
LEMMA BeginRetries ==
  ASSUME NEW args, NEW time, Retries, args.limit \in Repeats \cup {0}, BeginShift(args, time)
  PROVE  Retries' /\ errorCode' = errorCode
<1>1. shift'.limit = args.limit /\ repeat' = 0 /\ maxRepeat' = maxRepeat /\ errorCode' = errorCode
  BY DEF BeginShift, Step, info
<1>2. \A r \in Repeats \cup {0} : 0 <= r
  BY XsvfAssumption
<1> QED
  BY <1>1, <1>2 DEF Retries

(* Every step keeps the bound, and only a shift that gives up reports a mismatch: with its retries *)
(* exhausted, or as a plain one when there were none or the counter wraps behind the last.         *)
LEMMA RetryBound ==
  ASSUME TypeOK, Retries, [Next]_vars
  PROVE  /\ Retries'
         /\ errorCode' # errorCode /\ errorCode' \in {"TDOMISMATCH", "MAXRETRIES"} =>
              (errorCode' = "MAXRETRIES" <=> shift.limit \in 1 .. RepeatModulus - 2)
<1> DEFINE Silent == errorCode' \notin {"TDOMISMATCH", "MAXRETRIES"} \/ errorCode' = errorCode
<1>0. shift.limit \in 0 .. RepeatModulus - 1 /\ repeat \in 0 .. RepeatModulus - 1
  <2>1. repeat \in 0 .. RepeatModulus - 1
    BY DEF TypeOK
  <2>2. \A r \in Repeats \cup {0} : r \in 0 .. RepeatModulus - 1
    BY XsvfAssumption
  <2> QED
    BY <2>1, <2>2 DEF Retries
<1>1. CASE Initialize \/ XREPEAT
  BY <1>1 DEF Initialize, XREPEAT, Retries, local
<1>2. CASE \/ IllegalCmd \/ XRUNTEST \/ XSDRSIZE \/ XENDXR \/ XSTATE \/ XWAIT \/ Stop \/ Move
           \/ EndXWAIT \/ UNCHANGED vars
  <2>1. UNCHANGED <<maxRepeat, shift, repeat>>
    BY <1>2 DEF IllegalCmd, XRUNTEST, XSDRSIZE, XENDXR, XSTATE, XWAIT, Stop, Move, EndXWAIT, Step,
                info, local, vars
  <2>2. Silent
    BY <1>2 DEF IllegalCmd, Fail, XRUNTEST, XSDRSIZE, XENDXR, XSTATE, XWAIT, Stop, Move, EndXWAIT,
                Step, vars
  <2> QED
    BY <2>1, <2>2 DEF Retries
<1>3. CASE XSIR
  <2>1. CASE Fail("DATAOVERFLOW") /\ UNCHANGED <<info, shift, repeat>>
    BY <2>1 DEF Fail, Retries, info
  <2>2. CASE ~(Fail("DATAOVERFLOW") /\ UNCHANGED <<info, shift, repeat>>)
    <3>1. PICK n \in ShiftSizes :
            BeginShift([start |-> SHIFTIR, bits |-> n, expect |-> FALSE, end |-> endIR,
                        limit |-> 0], runTestTime)
      BY <1>3, <2>2 DEF XSIR
    <3> DEFINE args == [start |-> SHIFTIR, bits |-> n, expect |-> FALSE, end |-> endIR,
                        limit |-> 0]
    <3>2. args.limit \in Repeats \cup {0}
      OBVIOUS
    <3> HIDE DEF args
    <3>3. BeginShift(args, runTestTime)
      BY <3>1 DEF args
    <3> QED
      BY <3>2, <3>3, BeginRetries
  <2> QED
    BY <2>1, <2>2
<1>4. CASE XSDR \/ XSDRINC \/ NextIncrement
  <2>1. BeginShift(DataShift, runTestTime)
    BY <1>4 DEF XSDR, XSDRINC, NextIncrement
  <2>2. DataShift.limit \in Repeats \cup {0}
    BY DEF DataShift, Retries
  <2> QED
    BY <2>1, <2>2, BeginRetries
<1>5. CASE XSDRBCE
  <2>1. PICK expect \in BOOLEAN, end \in {SHIFTDR, endDR} :
          BeginShift([DataShift EXCEPT !.expect = expect, !.end = end, !.limit = 0], 0)
    BY <1>5 DEF XSDRBCE
  <2> DEFINE args == [DataShift EXCEPT !.expect = expect, !.end = end, !.limit = 0]
  <2>2. DataShift \in ShiftCall
    BY Targets, XsvfAssumption DEF TypeOK, DataShift, ShiftCall
  <2>3. args.limit \in Repeats \cup {0}
    BY <2>2 DEF ShiftCall
  <2> HIDE DEF args
  <2>4. BeginShift(args, 0)
    BY <2>1 DEF args
  <2> QED
    BY <2>3, <2>4, BeginRetries
<1>6. CASE ShiftBit \/ Compare \/ Retry \/ AfterShift \/ RunTestWait
  BY <1>6 DEF ShiftBit, Compare, Retry, AfterShift, RunTestWait, Step, info, local, Retries
<1>7. CASE ShiftAgain
  <2>1. /\ repeat < shift.limit /\ repeat' = (repeat + 1) % RepeatModulus
        /\ UNCHANGED <<shift, maxRepeat, errorCode>>
    BY <1>7 DEF ShiftAgain, Counted, Step, info
  <2>2. shift.limit \in 0 .. RepeatModulus - 1 /\ repeat \in 0 .. RepeatModulus - 1
    BY <1>0
  <2>3. repeat' = repeat + 1 /\ repeat' <= shift.limit
    BY <2>1, <2>2, XsvfAssumption
  <2> QED
    BY <2>1, <2>3 DEF Retries
<1>8. CASE GiveUp \/ EndShift
  <2>1. Retries'
    BY <1>8 DEF GiveUp, EndShift, EndLocals, NoShift, Step, info, Retries
  <2>2. ASSUME GiveUp
        PROVE  errorCode' = "MAXRETRIES" <=> shift.limit \in 1 .. RepeatModulus - 2
    <3>1. shift.limit \in 0 .. RepeatModulus - 1 /\ repeat = shift.limit
      BY <1>0, <2>2 DEF GiveUp, Retries
    <3>2. errorCode' = "MAXRETRIES" <=> shift.limit > 0 /\ (repeat + 1) % RepeatModulus > shift.limit
      BY <2>2 DEF GiveUp, Fail, Exhausted, Counted
    <3>3. CASE shift.limit = RepeatModulus - 1
      <4>1. (repeat + 1) % RepeatModulus = 0
        BY <3>1, <3>3, XsvfAssumption
      <4> QED
        BY <3>1, <3>2, <3>3, <4>1, XsvfAssumption
    <3>4. CASE shift.limit < RepeatModulus - 1
      <4>1. (repeat + 1) % RepeatModulus = repeat + 1
        BY <3>1, <3>4, XsvfAssumption
      <4> QED
        BY <3>1, <3>2, <3>4, <4>1, XsvfAssumption
    <3> QED
      BY <3>1, <3>3, <3>4, XsvfAssumption
  <2>3. EndShift => errorCode' = errorCode
    BY DEF EndShift, Step
  <2> QED
    BY <1>8, <2>1, <2>2, <2>3
<1> QED
  BY <1>1, <1>2, <1>3, <1>4, <1>5, <1>6, <1>7, <1>8 DEF Next, Command, Play

(* A mismatch that outlasts the retries is reported as that for the retry counts that leave the *)
(* counter room for its last increment, and as a plain one for no retry and for the last count. *)
THEOREM ExhaustionIsReported == Spec => ExhaustedRetriesAreReported
<1>1. Init => Retries
  BY DEF Init, NoShift, Retries
<1>2. TypeOK /\ Retries /\ [Next]_vars => Retries'
  BY RetryBound
<1>3. TypeOK /\ Retries /\ [Next]_vars
      => [errorCode' # errorCode /\ errorCode' \in {"TDOMISMATCH", "MAXRETRIES"} =>
            (errorCode' = "MAXRETRIES" <=> shift.limit \in 1 .. RepeatModulus - 2)]_vars
  BY RetryBound
<1> QED
  BY <1>1, <1>2, <1>3, TypeCorrect, PTL DEF Spec, ExhaustedRetriesAreReported
=============================================================================
