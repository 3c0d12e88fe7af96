---------------------------- MODULE XsvfCommands ----------------------------
(* The codes of the XSVF commands, and which of them can fail. *)
EXTENDS Integers

XCOMPLETE    == 0
XTDOMASK     == 1
XSIR         == 2
XSDR         == 3
XRUNTEST     == 4
XREPEAT      == 7
XSDRSIZE     == 8
XSDRTDO      == 9
XSETSDRMASKS == 10
XSDRINC      == 11
XSDRB        == 12
XSDRC        == 13
XSDRE        == 14
XSDRTDOB     == 15
XSDRTDOC     == 16
XSDRTDOE     == 17
XSTATE       == 18
XENDIR       == 19
XENDDR       == 20
XSIR2        == 21
XCOMMENT     == 22
XWAIT        == 23
XLASTCMD     == 24

Illegal(code) == code \in {5, 6} \/ code >= XLASTCMD

(* Data too long, a mismatch, or a state or code that is none. *)
CanFail(code) ==
  \/ code \in {XSIR, XSIR2, XSDRSIZE}
  \/ code \in {XSDR, XSDRTDO, XSDRINC, XSDRTDOB, XSDRTDOC, XSDRTDOE}
  \/ code \in {XSTATE, XENDIR, XENDDR}
  \/ Illegal(code)
=============================================================================
