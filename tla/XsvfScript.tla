------------------------------ MODULE XsvfScript ------------------------------
(***************************************************************************)
(* What playing an XSVF file promises: its commands are carried out one    *)
(* after the other, each with its own data, until XCOMPLETE or until one   *)
(* of them fails; or the file is refused before any of them.               *)
(***************************************************************************)
EXTENDS XsvfCommands, Sequences

VARIABLES
  script,    (* The commands of the file: sequences of [cmd, data].   *)
  played,    (* Those carried out.                                    *)
  outcome    (* "playing", "complete", "failed" or "refused".         *)

vars == <<script, played, outcome>>

Init == played = <<>> /\ outcome = "playing"

Command == script[Len(played) + 1]
Playing == outcome = "playing" /\ Len(played) < Len(script)

Play ==
  /\ Playing /\ Command.cmd # XCOMPLETE
  /\ played' = Append(played, Command)
  /\ UNCHANGED <<script, outcome>>

Complete ==
  /\ Playing /\ Command.cmd = XCOMPLETE
  /\ played' = Append(played, Command)
  /\ outcome' = "complete"
  /\ UNCHANGED script

Fail ==
  /\ Playing /\ CanFail(Command.cmd)
  /\ outcome' = "failed"
  /\ UNCHANGED <<script, played>>

Refuse ==
  /\ outcome = "playing" /\ played = <<>>
  /\ outcome' = "refused"
  /\ UNCHANGED <<script, played>>

Next == Play \/ Complete \/ Fail \/ Refuse

Spec == Init /\ [][Next]_vars
=============================================================================
