----------------------------- MODULE DataExchange -----------------------------
(***************************************************************************)
(* What a shift of XSVF data promises: in one step the register of the     *)
(* chain takes the data, and its old contents are judged against what is   *)
(* expected, in the bits one cares about.  All are functions from the      *)
(* number of a bit to the bit; the bits behind the end of the register     *)
(* read as 0.  A shift may be tried again after the register has captured  *)
(* something new.                                                          *)
(***************************************************************************)
EXTENDS Integers

VARIABLES
  length,     (* Bits of the register.                           *)
  data,       (* What it is to take.                             *)
  expected,   (* What it should have held ...                    *)
  care,       (* ... and where that matters.                     *)
  register,   (* What it holds.                                  *)
  outcome     (* "pending", or whether it held what is expected. *)

vars == <<length, data, expected, care, register, outcome>>

Contents == [0 .. length - 1 -> {0, 1}]

Init == register \in Contents /\ outcome = "pending"

Held(i) == IF i < length THEN register[i] ELSE 0

Exchange ==
  /\ outcome = "pending"
  /\ register' = [i \in 0 .. length - 1 |-> data[i]]
  /\ outcome' = IF \A i \in DOMAIN care : care[i] = 1 => expected[i] = Held(i)
                THEN "equal" ELSE "different"
  /\ UNCHANGED <<length, data, expected, care>>

Again ==
  /\ outcome = "different"
  /\ outcome' = "pending"
  /\ register' \in Contents
  /\ UNCHANGED <<length, data, expected, care>>

Next == Exchange \/ Again

Spec == Init /\ [][Next]_vars
=============================================================================
