----------------------------- MODULE MCXsvfPlayer -----------------------------
(* Small instances of XsvfPlayer: bytes of five bits, the least that hold the codes, shifts *)
(* of a full byte and a bit, and files of two commands from a palette between a prologue     *)
(* and XCOMPLETE.                                                                           *)
EXTENDS XsvfPlayer

MCAnswers == {0, 1, 33}

C(cmd, data) == [cmd |-> cmd, data |-> data]
Complete == C(XCOMPLETE, <<>>)

(* Sizes, masks and expected data are set before they are used, nothing is compared yet. *)
Prologue == << C(XREPEAT, <<0>>), C(XENDIR, <<0>>), C(XENDDR, <<0>>), C(XSTATE, <<RESET>>),
               C(XSTATE, <<RUNTEST>>), C(XSDRSIZE, <<0, 0, 0, 6>>), C(XTDOMASK, <<0, 0>>),
               C(XSDRTDO, <<0, 1, 0, 0>>), C(XSETSDRMASKS, <<0, 4, 0, 3>>) >>

Settings == { C(XTDOMASK, <<1, 1>>), C(XRUNTEST, <<0, 0, 1, 9>>), C(XREPEAT, <<2>>),
              C(XENDIR, <<1>>), C(XENDDR, <<1>>), C(XCOMMENT, <<9, 9, 0>>),
              C(XCOMMENT, <<0>>) }
Moves    == { C(XSTATE, <<PAUSEDR>>), C(XSTATE, <<EXIT2DR>>),
              C(XWAIT, <<PAUSEDR, RUNTEST, 0, 0, 0, 5>>), C(XWAIT, <<EXIT2IR, RESET, 0, 0, 0, 5>>) }
Shifts   == { C(XSIR, <<3, 5>>), C(XSIR2, <<0, 6, 1, 2>>), C(XSIR, <<0>>), C(XSDR, <<1, 2>>),
              C(XSDRB, <<0, 7>>), C(XSDRE, <<1, 7>>), C(XSDRTDOC, <<1, 1, 1, 1>>),
              C(XSDRTDOE, <<1, 1, 0, 0>>), C(XSDRTDO, <<1, 2, 1, 1>>) }
Pieces   == { C(XSDRINC, <<0, 4, 2, 1, 0>>), C(XSDRINC, <<0, 4, 0>>) }
Wrong    == { C(24, <<>>), C(5, <<>>), C(XENDDR, <<2>>) }
Empty    == { C(XSDRSIZE, <<0, 0, 0, 0>>) }

Palette == Settings \cup Moves \cup Shifts \cup Pieces \cup Wrong

File(commands) == Prologue \o commands \o <<Complete>>

(* XSDRINC is used where its first shift cannot mismatch in the dummy pass, which reads only *)
(* 0 from the chain.                                                                        *)
Tame(a, b) == b \in Pieces => ~(a \in Shifts /\ a.cmd \in XSDRTDO .. XSDRTDOE)

MCGood == {File(<<a, b>>) : <<a, b>> \in {p \in Palette \X Palette : Tame(p[1], p[2])}}
            \cup {File(<<s, C(XSDR, <<>>)>>) : s \in Empty}

(* Files on which the dummy pass errs: XSDRINC behind expected data that are not 0, and data *)
(* too long for the buffers.                                                                *)
Expecting  == << C(XTDOMASK, <<0, 1>>), C(XSDRTDO, <<1, 2, 0, 1>>) >>
MCCounting == { File(Expecting \o << C(XSDRINC, <<0, 4, 2, 1, 0>>) >>) }
MCSwallowed == { File(Expecting \o << C(XSDRINC, <<0, 4, 1, XCOMMENT>>) >>) }
MCMisled   == MCCounting \cup MCSwallowed
                \cup {File(<<c>>) : c \in {C(XSIR, <<21, 1, 2, 3, 0, 0>>), C(XSIR2, <<1, 0, 1, 0>>)}}
                \cup {File(<<C(XSDRSIZE, <<0, 0, 0, 21>>)>> \o mask \o <<C(XSDRSIZE, <<0, 0, 0, 6>>)>>) :
                         mask \in {<<>>, <<C(XTDOMASK, <<0, 0, 0, 0, 1>>)>>}}

(* Files of one kind each, for what is not as it should be. *)
MCNoEnd     == { Prologue }
MCLongMask  == { File(<< C(XSDRSIZE, <<0, 0, 0, 16>>), C(XSETSDRMASKS, <<0, 0, 0, 4, 0, 0, 0, 3>>),
                       C(XSDRINC, <<0, 0, 0, 4, 1, 1>>) >>) }
MCNoState   == { File(<< C(XSTATE, <<16>>) >>) }
MCUnset     == { << C(XSDRSIZE, <<0, 0, 0, 6>>), C(XTDOMASK, <<0, 1>>), C(XSDR, <<0, 1>>),
                    C(XSDRTDO, <<0, 1, 0, 1>>), Complete >> }
MCOversized == { << C(XSDRSIZE, <<0, 0, 0, 26>>), C(XTDOMASK, <<0, 0, 0, 0, 0, 1>>), Complete >> }


(* Sizes of 256, 512 and 513 bytes, which the short of these instances holds as -256, 0 and 1: *)
(* no error, and a mask of that many bytes is read before the size is set again or used.       *)
MCWrapped ==
  { <<C(XSDRSIZE, p[1]), C(XTDOMASK, p[2])>> \o rest \o <<Complete>> :
      p \in { << <<0, 1, 8, 0>>, <<>> >>, << <<0, 2, 16, 0>>, <<>> >>, << <<0, 2, 16, 1>>, <<1>> >> },
      rest \in { <<C(XSDR, <<>>)>>, <<C(XSDRSIZE, <<0, 0, 0, 6>>), C(XSDRB, <<0, 1>>)>> } }

MCFiles == MCGood \cup MCMisled \cup MCNoEnd \cup MCLongMask \cup MCNoState \cup MCUnset
             \cup MCOversized \cup MCWrapped

(* The files of the palette are among those a translator writes. *)
ASSUME PaletteAssumption == \A s \in MCGood : WellFormed(s) /\ Countable(s) /\ Playable(s)
=============================================================================
