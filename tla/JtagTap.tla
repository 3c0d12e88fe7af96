------------------------------- MODULE JtagTap -------------------------------
(***************************************************************************)
(* The TAP controller of the JTAG chain (IEEE 1149.1), which is not in the *)
(* repository, and the codes XSVFPlayerConstants.h gives to its states.    *)
(* On a rising edge of TCK it moves according to TMS.                      *)
(***************************************************************************)
EXTENDS Integers

(* XTAPSTATE_* *)
RESET     == 0
RUNTEST   == 1
SELECTDR  == 2
CAPTUREDR == 3
SHIFTDR   == 4
EXIT1DR   == 5
PAUSEDR   == 6
EXIT2DR   == 7
UPDATEDR  == 8
SELECTIR  == 9
CAPTUREIR == 10
SHIFTIR   == 11
EXIT1IR   == 12
PAUSEIR   == 13
EXIT2IR   == 14
UPDATEIR  == 15

(* All IR states begin here. *)
IRSTATES  == SELECTIR

TapState  == RESET .. UPDATEIR
Shifting  == {SHIFTDR, SHIFTIR}

TapOn0[s \in TapState] ==
  CASE s \in {RESET, RUNTEST, UPDATEDR, UPDATEIR} -> RUNTEST
    [] s = SELECTDR                               -> CAPTUREDR
    [] s \in {CAPTUREDR, SHIFTDR, EXIT2DR}        -> SHIFTDR
    [] s \in {EXIT1DR, PAUSEDR}                   -> PAUSEDR
    [] s = SELECTIR                               -> CAPTUREIR
    [] s \in {CAPTUREIR, SHIFTIR, EXIT2IR}        -> SHIFTIR
    [] s \in {EXIT1IR, PAUSEIR}                   -> PAUSEIR

TapOn1[s \in TapState] ==
  CASE s \in {RESET, SELECTIR}                    -> RESET
    [] s \in {RUNTEST, UPDATEDR, UPDATEIR}        -> SELECTDR
    [] s = SELECTDR                               -> SELECTIR
    [] s \in {CAPTUREDR, SHIFTDR}                 -> EXIT1DR
    [] s \in {EXIT1DR, EXIT2DR}                   -> UPDATEDR
    [] s = PAUSEDR                                -> EXIT2DR
    [] s \in {CAPTUREIR, SHIFTIR}                 -> EXIT1IR
    [] s \in {EXIT1IR, EXIT2IR}                   -> UPDATEIR
    [] s = PAUSEIR                                -> EXIT2IR

TapNext(s, tms) == IF tms = 0 THEN TapOn0[s] ELSE TapOn1[s]
=============================================================================
