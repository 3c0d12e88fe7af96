------------------------------ MODULE MCXsvfTap ------------------------------
(* Small instances of XsvfTap: shifts of up to two bits, and up to two retries, the largest *)
(* number the counter of three values holds.                                                *)
EXTENDS XsvfTap

MCRunTimes   == {0, 4}
MCLongTimes  == {0, 200000000}
MCShiftSizes == {0, 2, 3}
MCTwoBits    == {2}
MCRepeats    == {1, 2}
MCIncrements == {0, 1}
MCOnce       == {0}

(* The states XSTATE and XWAIT may name. *)
MCStates     == TapState
MCStable     == {RESET, RUNTEST, PAUSEDR, PAUSEIR}
=============================================================================
