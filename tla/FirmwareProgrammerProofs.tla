----------------------- MODULE FirmwareProgrammerProofs -----------------------
(***************************************************************************)
(* Proofs about FirmwareProgrammer, for every chip, file, command line and *)
(* sequence of invocations: success means that the chip holds the image,   *)
(* and the FPGA is only rebooted from it.                                  *)
(***************************************************************************)
EXTENDS FirmwareProgrammer, TLAPS

-----------------------------------------------------------------------------
(* THE INDUCTIVE INVARIANT *)

(* The calls of a programmer. *)
Operations == {"erase", "program", "dump", "verify"}

(* Whom the programmer works for. *)
Calls ==
  /\ working => called
  /\ called => options.interface = "spi" /\ pc \in Operations /\ operation = pc
  /\ called /\ pc \in {"program", "verify"} => firmware = Image

(* Why main is where it is. *)
Asked ==
  /\ pc \in {"construct", "check", "reload"} \cup Operations => ~(NeedsFile /\ options.dump)
  /\ pc = "check" => NeedsFile
  /\ pc \in {"erase", "program"} => options.program /\ Image.suited
  /\ pc = "dump" => options.dump
  /\ pc = "verify" => options.verify

(* What the chip is then; a cell that is being programmed is blank or has its byte. *)
Blank    == cells = Chip!Empty /\ target = cells
Right    == Holds(cells) /\ target = cells
Partial(content) ==
  \A a \in 0 .. Size - 1 : content[a] = Bits \/ (a < Image.len /\ content[a] = Image.byte[a])

(* At each call the cells are what the calls before it have left. *)
Progress ==
  options.interface = "spi" /\ Fits =>
    /\ pc = "erase" /\ called /\ ~working /\ Succeeded => Blank
    /\ pc = "program" /\ ~called => Blank
    /\ pc = "program" /\ working /\ ~misread => Partial(cells) /\ Partial(target)
    /\ pc = "program" /\ called /\ ~working /\ Succeeded => Right
    /\ pc = "verify" /\ options.program => Right
    /\ pc = "verify" /\ called /\ ~working /\ Succeeded => Right
    /\ pc = "reload" /\ NeedsFile => Right
    /\ pc = "exited" /\ exitCode = 0 /\ NeedsFile => Right
    /\ loaded # NotRebooted /\ NeedsFile => Holds(loaded)

(* The inductive invariant. *)
IInv == TypeOK /\ Calls /\ Asked /\ Progress

-----------------------------------------------------------------------------
(* TYPES *)

(* Main goes to a step that is one, or ends with one of its exit codes. *)
LEMMA Steady ==
  ASSUME TypeOK,
         NEW step \in Steps,
         GoOn(step) \/ Return(1)
  PROVE  pc' \in Steps /\ called' = FALSE /\ exitCode' \in {0, 1} /\ loaded' = loaded
BY DEF TypeOK, GoOn, Return, Steps

(* Where main can go on to are its steps. *)
LEMMA FollowingSteps ==
  /\ {AfterReload, AfterVerify, AfterDump, AfterProgram, AfterErase, AfterCheck, AfterConstruct}
       \subseteq Steps
  /\ pc \in Operations => Following \in Steps
BY DEF AfterReload, AfterVerify, AfterDump, AfterProgram, AfterErase, AfterCheck, AfterConstruct,
       Following, Operations, Steps

(* What a number is cut to fits the argument. *)
LEMMA Widths ==
  /\ 0 \in 0 .. BarLimit - 1 /\ 0 \in 0 .. Word - 1
  /\ \A n \in Int : n % BarLimit \in 0 .. BarLimit - 1 /\ n % Word \in 0 .. Word - 1
<1>1. BarLimit \in Nat \ {0} /\ Word \in Nat \ {0}
  BY MainAssumption
<1>2. ASSUME NEW m \in Nat \ {0}, NEW n \in Int PROVE n % m \in 0 .. m - 1
  OBVIOUS
<1> QED
  BY <1>1, <1>2

(* The type invariant holds at the start ... *)
LEMMA InitType == Init => TypeOK
<1> SUFFICES ASSUME Init PROVE TypeOK
  OBVIOUS
<1>1. 0 \in 0 .. BarLimit - 1 /\ 0 \in 0 .. Word - 1
  BY Widths
<1> QED
  BY <1>1 DEF Init, Chip!Init, Chip!Settled, TypeOK, Steps

(* ... and is kept. *)
LEMMA TypeStep ==
  ASSUME TypeOK, Calls, [Next]_vars
  PROVE  TypeOK'
<1> DEFINE Chipped ==
      /\ cells' \in Chip!Cells /\ target' \in Chip!Cells /\ reach' \in Reaches
      /\ working' \in BOOLEAN /\ misread' \in BOOLEAN
      /\ operation' \in {"erase", "program", "verify", "dump"}
      /\ firmware' \in Files /\ answer' \in Failures \cup {"none", "done", "true", "false"}
           Told == options' \in Options /\ bar' \in 0 .. BarLimit - 1 /\ flashSize' \in 0 .. Word - 1
           Flow == /\ pc' \in Steps /\ called' \in BOOLEAN /\ exitCode' \in {0, 1}
                   /\ loaded' \in Chip!Cells \cup {NotRebooted}
<1>1. ASSUME UNCHANGED chip PROVE Chipped
  BY <1>1 DEF TypeOK, chip
<1>2. ASSUME UNCHANGED args PROVE Told
  BY <1>2 DEF TypeOK, args
<1>3. ASSUME NEW step \in Steps, GoOn(step) \/ Return(1) PROVE Flow
  BY <1>3, Steady DEF TypeOK
<1>4. ASSUME Chip!Finish PROVE Chipped
  BY <1>4 DEF TypeOK, Chip!Finish, Chip!request
<1>5. CASE Start
  BY <1>5, <1>1 DEF Start, TypeOK, Steps
<1>6. CASE ParseArguments
  <2>1. Told
    <3>1. options \in Options /\ options.bar \in Int /\ options.flash_size \in Int
      BY MainAssumption DEF TypeOK
    <3> QED
      BY <1>6, <3>1, Widths DEF ParseArguments, CutBar, TypeOK
  <2>2. Flow
    <3>1. GoOn("verifyArguments") \/ Return(1)
      BY <1>6 DEF ParseArguments
    <3>2. "verifyArguments" \in Steps
      BY DEF Steps
    <3> QED
      BY <3>1, <3>2, <1>3
  <2> QED
    BY <1>1, <1>6, <2>1, <2>2 DEF ParseArguments, TypeOK
<1>7. CASE VerifyArguments
  <2>1. GoOn("construct") \/ Return(1)
    BY <1>7 DEF VerifyArguments
  <2>2. "construct" \in Steps
    BY DEF Steps
  <2>3. Flow
    BY <2>1, <2>2, <1>3
  <2> QED
    BY <1>1, <1>2, <1>7, <2>3 DEF VerifyArguments, TypeOK
<1>8. CASE Construct \/ CheckFirmwareFile \/ JtagErase \/ JtagReturns \/ JtagDump \/ JtagVerify
  <2>1. \E step \in Steps : GoOn(step) \/ Return(1)
    BY <1>8, FollowingSteps
       DEF Construct, CheckFirmwareFile, JtagErase, JtagReturns, JtagDump, JtagVerify
  <2>2. Flow
    BY <2>1, <1>3
  <2>3. UNCHANGED chip /\ UNCHANGED args
    BY <1>8 DEF Construct, CheckFirmwareFile, JtagErase, JtagReturns, JtagDump, JtagVerify
  <2> QED
    BY <1>1, <1>2, <2>2, <2>3 DEF TypeOK
<1>9. CASE CallSpi
  BY <1>9 DEF CallSpi, Chip!Begin, TypeOK, args
<1>10. CASE SpiReturns
  <2>1. Following \in Steps
    BY <1>10, FollowingSteps DEF SpiReturns, Calls
  <2>2. Flow
    BY <1>10, <2>1, <1>3 DEF SpiReturns
  <2> QED
    BY <1>1, <1>2, <1>10, <2>2 DEF SpiReturns, TypeOK
<1>11. CASE JtagPlay
  <2>1. Chipped /\ Flow
    BY <1>11 DEF JtagPlay, TypeOK
  <2> QED
    BY <1>2, <1>11, <2>1 DEF JtagPlay, TypeOK
<1>12. CASE Reload
  BY <1>12 DEF Reload, Return, AfterReload, chip, args, TypeOK, Steps
<1>13. CASE Kill
  <2>1. Chipped
    BY <1>13, <1>1, <1>4 DEF Kill
  <2> QED
    BY <1>2, <1>13, <2>1 DEF Kill, Return, TypeOK, Steps
<1>14. CASE ChipWorks
  <2>1. Chip!Empty \in Chip!Cells
    BY DEF Chip!Empty, Chip!Cells
  <2> QED
    BY <1>14, <2>1
       DEF ChipWorks, Chip!Misread, Chip!SendErase, Chip!SendBytes, Chip!TakeEffect,
       Chip!CallOff, Chip!request,
           args, TypeOK
<1>15. CASE ChipAnswers
  BY <1>15, <1>2, <1>4 DEF ChipAnswers, TypeOK
<1>16. CASE UNCHANGED vars
  BY <1>16, <1>1, <1>2 DEF vars, TypeOK
<1> QED
  BY <1>5, <1>6, <1>7, <1>8, <1>9, <1>10, <1>11, <1>12, <1>13, <1>14, <1>15, <1>16 DEF Next, Main

-----------------------------------------------------------------------------
(* MAIN *)

(* The order of the calls is kept. *)
LEMMA ControlStep ==
  ASSUME TypeOK, Calls, Asked, [Next]_vars
  PROVE  Calls' /\ Asked'
<1>1. ASSUME ~called \/ ~working, called' = FALSE, working' = working PROVE Calls'
  BY <1>1 DEF Calls
<1>2. CASE Start
  <2>1. ~called
    BY <1>2 DEF Start, Calls, Operations
  <2> QED
    BY <1>2, <2>1 DEF Start, Calls, Asked, Operations, chip
<1>3. CASE ParseArguments
  <2>1. ~called
    BY <1>3 DEF ParseArguments, Calls, Operations
  <2> QED
    BY <1>3, <2>1 DEF ParseArguments, GoOn, Return, Calls, Asked, Operations, chip, args
<1>4. CASE VerifyArguments
  <2>1. ~called
    BY <1>4 DEF VerifyArguments, Calls, Operations
  <2>2. CASE Return(1)
    BY <1>4, <2>1, <2>2 DEF VerifyArguments, Return, Calls, Asked, Operations, chip, args
  <2>3. CASE ArgumentsFit /\ GoOn("construct")
    <3>1. ~(NeedsFile /\ options.dump)
      BY <2>3 DEF ArgumentsFit
    <3>2. pc' = "construct" /\ called' = FALSE /\ working' = working /\ options' = options
      BY <1>4, <2>3 DEF VerifyArguments, GoOn, chip, args
    <3> QED
      BY <2>1, <3>1, <3>2 DEF Calls, Asked, NeedsFile, Operations
  <2> QED
    BY <1>4, <2>2, <2>3 DEF VerifyArguments
<1>5. CASE Construct
  <2>1. ~called
    BY <1>5 DEF Construct, Calls, Operations
  <2> QED
    BY <1>5, <2>1 DEF Construct, AfterConstruct, AfterCheck, AfterProgram, AfterDump, AfterVerify,
       AfterReload, GoOn, Return, NeedsFile, Calls, Asked, Operations, chip, args
<1>6. CASE CheckFirmwareFile
  <2>1. ~called
    BY <1>6 DEF CheckFirmwareFile, Calls, Operations
  <2> QED
    BY <1>6, <2>1 DEF CheckFirmwareFile, FileAccepted, AfterCheck, AfterProgram, AfterDump,
       AfterVerify, AfterReload, GoOn, Return, NeedsFile, Image, Calls, Asked, Operations, chip, args
<1>7. CASE CallSpi
  BY <1>7 DEF CallSpi, Chip!Begin, Image, NeedsFile, Calls, Asked, Operations, args
<1>8. CASE SpiReturns
  <2>1. pc \in Operations
    BY <1>8 DEF SpiReturns, Calls
  <2> QED
    BY <1>8, <2>1 DEF SpiReturns, Following, AfterErase, AfterProgram, AfterDump, AfterVerify,
       AfterReload, GoOn, Return, NeedsFile, Image, Calls, Asked, Operations, chip, args
<1>9. CASE JtagErase \/ JtagPlay \/ JtagReturns \/ JtagDump \/ JtagVerify
  <2>1. ~called
    BY <1>9 DEF JtagErase, JtagPlay, JtagReturns, JtagDump, JtagVerify, Calls
  <2>2. working' = working /\ options' = options /\ called' = FALSE
    BY <1>9, <2>1 DEF JtagErase, JtagPlay, JtagReturns, JtagDump, JtagVerify, GoOn, Return,
       AfterErase, chip, args, TypeOK
  <2>3. Calls'
    BY <2>1, <2>2 DEF Calls
  <2>4. Asked'
    BY <1>9, <2>2 DEF JtagErase, JtagPlay, JtagReturns, JtagDump, JtagVerify, AfterErase,
       AfterProgram, AfterDump, AfterVerify, AfterReload, GoOn, Return, NeedsFile, Image, Asked, Operations
  <2> QED
    BY <2>3, <2>4
<1>10. CASE Reload
  <2>1. ~called
    BY <1>10 DEF Reload, Calls, Operations
  <2> QED
    BY <1>10, <2>1 DEF Reload, Return, AfterReload, Calls, Asked, Operations, chip, args
<1>11. CASE Kill
  <2>1. working' = FALSE /\ called' = FALSE /\ pc' = "exited"
    BY <1>11 DEF Kill, Return, Chip!Finish, chip, TypeOK
  <2> QED
    BY <2>1 DEF Calls, Asked, Operations
<1>12. CASE ChipWorks
  <2>1. UNCHANGED <<working, operation, firmware, called, pc, options>>
    BY <1>12 DEF ChipWorks, Chip!Misread, Chip!SendErase, Chip!SendBytes, Chip!TakeEffect,
       Chip!CallOff, Chip!request, args
  <2> QED
    BY <2>1 DEF Calls, Asked, NeedsFile, Image
<1>13. CASE ChipAnswers
  <2>1. UNCHANGED <<operation, firmware, called, pc, options>> /\ working' = FALSE
    BY <1>13 DEF ChipAnswers, Chip!Finish, Chip!request, args
  <2> QED
    BY <2>1 DEF Calls, Asked, NeedsFile, Image
<1>14. CASE UNCHANGED vars
  BY <1>14 DEF vars, chip, args, Calls, Asked, NeedsFile, Image
<1> QED
  BY <1>2, <1>3, <1>4, <1>5, <1>6, <1>7, <1>8, <1>9, <1>10, <1>11, <1>12, <1>13, <1>14
     DEF Next, Main

-----------------------------------------------------------------------------
(* THE CHIP *)

(* An image that fits has its bytes at their own addresses. *)
LEMMA Places ==
  ASSUME TypeOK, firmware = Image, Fits, NEW k \in 0 .. Image.len - 1
  PROVE  Chip!Place(k) = k /\ k \in 0 .. Size - 1
<1>1. reach \in Nat \ {0} /\ Size \in Nat \ {0} /\ Image.len \in Nat
  BY MainAssumption DEF TypeOK, Image
<1>2. k < reach /\ k < Size
  BY <1>1 DEF Fits
<1>3. ASSUME NEW m \in Nat \ {0}, k < m PROVE k % m = k
  BY <1>1, <1>3
<1> QED
  BY <1>1, <1>2, <1>3 DEF Chip!Place

(* A partial image that has every bit clear that the image has clear is the image. *)
LEMMA Completed ==
  ASSUME TypeOK, firmware = Image, Fits, Partial(cells),
         \A k \in Chip!InFile : cells[Chip!Place(k)] \subseteq Chip!Image(k)
  PROVE  Holds(cells)
<1> SUFFICES ASSUME NEW k \in 0 .. Image.len - 1 PROVE cells[k] = Image.byte[k]
  BY DEF Holds
<1>1. Chip!Place(k) = k /\ k \in 0 .. Size - 1
  BY Places
<1>2. cells[k] \subseteq Image.byte[k]
  BY <1>1 DEF Chip!InFile, Chip!Image
<1>3. Image.byte[k] \subseteq Bits
  BY MainAssumption DEF TypeOK, Image
<1> QED
  BY <1>1, <1>2, <1>3 DEF Partial

(* A verify that returns true has seen the image. *)
LEMMA Verified ==
  ASSUME TypeOK, firmware = Image, Fits,
         \A k \in Chip!InFile : cells[Chip!Place(k)] = Chip!Image(k)
  PROVE  Holds(cells)
BY Places DEF Holds, Chip!InFile, Chip!Image

(* Sending bytes of the image leaves every cell blank or with its byte. *)
LEMMA SentBytes ==
  ASSUME TypeOK, firmware = Image, Fits, Partial(cells), ~misread, Chip!SendBytes
  PROVE  Partial(target')
<1> SUFFICES ASSUME NEW a \in 0 .. Size - 1
             PROVE  target'[a] = Bits \/ (a < Image.len /\ target'[a] = Image.byte[a])
  BY DEF Partial
<1>1. DOMAIN cells = 0 .. Size - 1
  BY DEF TypeOK, Chip!Cells
<1>2. CASE target'[a] = cells[a]
  BY <1>2 DEF Partial
<1>3. CASE \E k \in Chip!InFile : Chip!Place(k) = a /\ target'[a] = cells[a] \cap Chip!Image(k)
  <2>1. PICK k \in Chip!InFile :
           Chip!Place(k) = a /\ target'[a] = cells[a] \cap Chip!Image(k)
    BY <1>3
  <2>2. k \in 0 .. Image.len - 1 /\ a = k
    BY <2>1, Places DEF Chip!InFile
  <2>3. Image.len \in Nat /\ Image.byte[a] \subseteq Bits
    BY <2>2, MainAssumption DEF TypeOK, Image
  <2>4. target'[a] = cells[a] \cap Image.byte[a]
    BY <2>1, <2>2 DEF Chip!Image
  <2>5. a < Image.len
    BY <2>2, <2>3
  <2>6. cells[a] = Bits \/ cells[a] = Image.byte[a]
    BY DEF Partial
  <2>7. target'[a] = Image.byte[a]
    BY <2>3, <2>4, <2>6
  <2> QED
    BY <2>5, <2>7
<1> QED
  BY <1>1, <1>2, <1>3 DEF Chip!SendBytes

(* A blank chip is one that is being programmed. *)
LEMMA BlankIsPartial ==
  ASSUME Blank
  PROVE  Partial(cells) /\ Partial(target)
BY DEF Blank, Partial, Chip!Empty

(* The answers of the programmer say that the chip is as the operation should leave it. *)
LEMMA Answered ==
  ASSUME TypeOK, Calls, Progress, working, Chip!Finish, Succeeded', Fits
  PROVE  /\ pc = "erase" => Blank
         /\ pc \in {"program", "verify"} => Right
<1>1. answer' \in {"done", "true"} /\ Chip!Promise(answer') /\ operation = pc
      /\ pc \in Operations /\ called /\ options.interface = "spi"
  BY DEF Succeeded, Chip!Finish, Calls
<1>2. answer' \notin Failures
  BY <1>1, MainAssumption
<1>3. CASE pc = "erase"
  BY <1>1, <1>2, <1>3 DEF Chip!Promise, Chip!Succeeds, Chip!Differs, Chip!Settled, Blank
<1>4. CASE pc = "program"
  <2>1. Chip!Settled /\ ~misread /\ \A k \in Chip!InFile : cells[Chip!Place(k)] \subseteq Chip!Image(k)
    BY <1>1, <1>2, <1>4 DEF Chip!Promise, Chip!Succeeds, Chip!Differs
  <2>2. firmware = Image /\ Partial(cells)
    BY <1>1, <1>4, <2>1 DEF Calls, Progress
  <2> QED
    BY <1>4, <2>1, <2>2, Completed DEF Right, Chip!Settled
<1>5. CASE pc = "verify"
  <2>1. firmware = Image
    BY <1>1, <1>5 DEF Calls
  <2>2. Chip!Settled /\ \A k \in Chip!InFile : cells[Chip!Place(k)] = Chip!Image(k)
    BY <1>1, <1>2, <1>5 DEF Chip!Promise, Chip!Succeeds, Chip!Differs
  <2> QED
    BY <1>5, <2>1, <2>2, Verified DEF Right, Chip!Settled
<1> QED
  BY <1>3, <1>4, <1>5

(* What each call leaves is what the next one assumes. *)
LEMMA ProgressStep ==
  ASSUME TypeOK, Calls, Asked, Progress, [Next]_vars
  PROVE  Progress'
<1> USE DEF NeedsFile, Image
<1>1. CASE Start
  BY <1>1 DEF Start, Calls, Operations, Progress
<1>2. CASE ParseArguments \/ VerifyArguments \/ Construct \/ CheckFirmwareFile
  <2>1. UNCHANGED chip /\ options' = options /\ loaded' = loaded
    BY <1>2 DEF ParseArguments, VerifyArguments, Construct, CheckFirmwareFile, GoOn, Return, args
  <2>2. ~called /\ called' = FALSE
    BY <1>2 DEF ParseArguments, VerifyArguments, Construct, CheckFirmwareFile, GoOn, Return, Calls,
       Operations
  <2>3. \/ pc' \in {"verifyArguments", "construct", "check", "erase", "dump"}
        \/ pc' = "exited" /\ exitCode' = 1
        \/ pc' = "verify" /\ ~options.program
        \/ pc' \in {"reload", "exited"} /\ ~NeedsFile
    BY <1>2 DEF ParseArguments, VerifyArguments, Construct, CheckFirmwareFile, GoOn, Return,
       AfterConstruct, AfterCheck, AfterProgram, AfterDump, AfterVerify, AfterReload, Asked
  <2> QED
    BY <2>1, <2>2, <2>3 DEF Progress, Fits, Right, Blank, Holds, chip
<1>3. CASE CallSpi
  <2>1. UNCHANGED <<cells, target, reach, options, loaded, pc, exitCode>>
        /\ working' = TRUE /\ called' = TRUE /\ ~called
    BY <1>3 DEF CallSpi, Chip!Begin, args
  <2>2. pc = "program" /\ options.interface = "spi" /\ Fits => Partial(cells) /\ Partial(target)
    BY <2>1, BlankIsPartial DEF Progress
  <2>3. pc \in Operations
    BY <1>3 DEF CallSpi, Operations
  <2> QED
    BY <2>1, <2>2, <2>3 DEF Progress, Fits, Right, Blank, Holds, Partial, Operations
<1>4. CASE SpiReturns
  <2>1. UNCHANGED chip /\ options' = options /\ loaded' = loaded /\ called' = FALSE
    BY <1>4 DEF SpiReturns, GoOn, Return, args
  <2>2. called /\ ~working /\ pc \in Operations
    BY <1>4 DEF SpiReturns, Calls
  <2>3. CASE Return(1)
    BY <2>1, <2>2, <2>3 DEF Return, Progress, Fits, Right, Blank, Holds, chip
  <2>4. CASE Succeeded /\ GoOn(Following)
    <3>1. CASE pc = "erase"
      BY <2>1, <2>2, <2>4, <3>1 DEF GoOn, Following, AfterErase, Progress, Fits, Right, Blank, Holds,
         chip
    <3>2. CASE pc \in {"program", "verify"}
      <4>1. \/ pc' \in {"dump", "verify", "reload"}
            \/ pc' = "exited"
        BY <2>4, <3>2 DEF GoOn, Return, Following, AfterProgram, AfterDump, AfterVerify, AfterReload
      <4>2. options.interface = "spi" /\ Fits => Right
        BY <2>2, <2>4, <3>2 DEF Progress
      <4> QED
        BY <2>1, <4>1, <4>2 DEF Progress, Fits, Right, Blank, Holds, chip
    <3>3. CASE pc = "dump"
      <4>1. ~NeedsFile
        BY <3>3 DEF Asked, Operations
      <4>2. pc' \in {"verify", "reload", "exited"}
        BY <2>4, <3>3 DEF GoOn, Return, Following, AfterDump, AfterVerify, AfterReload
      <4> QED
        BY <2>1, <4>1, <4>2 DEF Progress, Fits, Right, Blank, Holds, chip
    <3> QED
      BY <2>2, <3>1, <3>2, <3>3 DEF Operations
  <2> QED
    BY <1>4, <2>3, <2>4 DEF SpiReturns
<1>5. CASE JtagErase \/ JtagPlay \/ JtagReturns \/ JtagDump \/ JtagVerify
  BY <1>5 DEF JtagErase, JtagPlay, JtagReturns, JtagDump, JtagVerify, args, Progress
<1>6. CASE Reload
  <2>1. UNCHANGED chip /\ options' = options /\ called' = FALSE /\ pc = "reload"
        /\ pc' = "exited"
    BY <1>6 DEF Reload, Return, AfterReload, args
  <2>2. (exitCode' = 1 /\ loaded' = loaded) \/ (exitCode' = 0 /\ loaded' = cells)
    BY <1>6 DEF Reload, Return
  <2> QED
    BY <2>1, <2>2 DEF Progress, Fits, Right, Blank, Holds, chip
<1>7. CASE Kill
  <2>1. UNCHANGED <<cells, target, reach, options, loaded>> /\ pc' = "exited" /\ exitCode' = 1
    BY <1>7 DEF Kill, Return, Chip!Finish, Chip!request, chip, args
  <2> QED
    BY <2>1 DEF Progress, Fits, Holds
<1>8. CASE ChipWorks
  <2>1. UNCHANGED <<reach, working, operation, firmware, answer, called, pc, options, exitCode, loaded>>
    BY <1>8 DEF ChipWorks, Chip!Misread, Chip!SendErase, Chip!SendBytes, Chip!TakeEffect,
       Chip!CallOff, Chip!request, args
  <2>2. CASE Chip!SendErase
    <3>1. pc = "erase" /\ called /\ cells' = cells /\ working
      BY <2>2 DEF Chip!SendErase, Calls
    <3> QED
      BY <2>1, <3>1 DEF Progress, Fits, Holds
  <2>3. CASE Chip!SendBytes
    <3>1. pc = "program" /\ called /\ cells' = cells /\ working /\ firmware = Image
      BY <2>3 DEF Chip!SendBytes, Calls
    <3>2. options.interface = "spi" /\ Fits /\ ~misread => Partial(cells) /\ Partial(target')
      BY <2>3, <3>1, SentBytes DEF Progress
    <3>3. misread' = misread
      BY <2>3 DEF Chip!SendBytes
    <3> QED
      BY <2>1, <3>1, <3>2, <3>3 DEF Progress, Fits, Holds, Partial
  <2>4. CASE Chip!TakeEffect
    BY <2>1, <2>4 DEF Chip!TakeEffect, Chip!Settled, Progress, Fits, Right, Blank, Holds, Partial,
       Succeeded
  <2>5. CASE Chip!CallOff
    BY <2>1, <2>5 DEF Chip!CallOff, Chip!Settled, Progress, Fits, Right, Blank, Holds, Partial,
       Succeeded
  <2>6. CASE Chip!Misread
    BY <2>1, <2>6 DEF Chip!Misread, Progress, Fits, Right, Blank, Holds, Partial, Succeeded
  <2> QED
    BY <1>8, <2>2, <2>3, <2>4, <2>5, <2>6 DEF ChipWorks
<1>9. CASE ChipAnswers
  <2>1. UNCHANGED <<cells, target, reach, called, pc, options, exitCode, loaded>>
        /\ working /\ ~working'
    BY <1>9 DEF ChipAnswers, Chip!Finish, Chip!request, args
  <2>2. pc \in Operations /\ called
    BY <2>1 DEF Calls
  <2>3. Fits /\ Succeeded' => (pc = "erase" => Blank) /\ (pc \in {"program", "verify"} => Right)
    BY <1>9, <2>1, Answered DEF ChipAnswers
  <2> QED
    BY <2>1, <2>2, <2>3 DEF Progress, Fits, Right, Blank, Holds, Partial, Operations
<1>10. CASE UNCHANGED vars
  BY <1>10 DEF vars, chip, args, Progress, Fits, Right, Blank, Holds, Partial, Succeeded
<1> QED
  BY <1>1, <1>2, <1>3, <1>4, <1>5, <1>6, <1>7, <1>8, <1>9, <1>10 DEF Next, Main

(* The invariant holds at the start ... *)
LEMMA InitInv == Init => IInv
<1> SUFFICES ASSUME Init PROVE IInv
  OBVIOUS
<1>1. TypeOK
  BY InitType
<1>2. ~working /\ ~called /\ pc = "exited" /\ exitCode = 1 /\ loaded = NotRebooted
  BY DEF Init, Chip!Init
<1> QED
  BY <1>1, <1>2 DEF IInv, Calls, Asked, Progress, Operations

(* ... and always: what main has called, and what the chip holds for it. *)
THEOREM InvHolds == Spec => []IInv
<1>1. IInv /\ [Next]_vars => IInv'
  BY TypeStep, ControlStep, ProgressStep DEF IInv
<1> QED
  BY InitInv, <1>1, PTL DEF Spec

-----------------------------------------------------------------------------
(* THE THEOREMS *)

(* Every variable keeps its type, the bar and the size the width of their arguments, for *)
(* every command line.                                                                  *)
THEOREM TypeCorrect == Spec => []TypeOK
BY InvHolds, PTL DEF IInv

(* Exit code 0 of an invocation that was to program or verify means that the image is in *)
(* the chip, whatever earlier invocations were killed at.                               *)
THEOREM SuccessIsReal == Spec => []SuccessMeansImage
<1>1. IInv => SuccessMeansImage
  BY DEF IInv, Progress, Right, SuccessMeansImage
<1> QED
  BY InvHolds, <1>1, PTL

(* The FPGA is only rebooted from the image. *)
THEOREM RebootIsSafe == Spec => []RebootsIntoImage
<1>1. IInv => RebootsIntoImage
  BY DEF IInv, Progress, RebootsIntoImage
<1> QED
  BY InvHolds, <1>1, PTL

(* No step changes what the chip will hold unless the invocation is to program an accepted *)
(* file; a command left behind can only be called off.                                     *)
THEOREM ChangesAreAsked == Spec => ChangesOnlyWhenAsked
<1> DEFINE Change == (options.program /\ ~options.dump /\ Image.suited) \/ target' \in {target, cells}
<1>1. ASSUME IInv, Next PROVE Change
  <2>1. CASE JtagPlay
    BY <1>1, <2>1 DEF JtagPlay, IInv, Asked, NeedsFile, Operations
  <2>2. CASE ChipWorks
    <3>1. CASE Chip!SendErase \/ Chip!SendBytes
      BY <1>1, <3>1 DEF Chip!SendErase, Chip!SendBytes, IInv, Calls, Asked, NeedsFile, Operations
    <3>2. CASE Chip!Misread \/ Chip!TakeEffect \/ Chip!CallOff
      BY <3>2 DEF Chip!Misread, Chip!TakeEffect, Chip!CallOff
    <3> QED
      BY <2>2, <3>1, <3>2 DEF ChipWorks
  <2>3. CASE CallSpi
    BY <2>3 DEF CallSpi, Chip!Begin
  <2>4. CASE Kill \/ ChipAnswers
    BY <2>4 DEF Kill, ChipAnswers, Chip!Finish, chip
  <2>5. CASE \/ Start \/ ParseArguments \/ VerifyArguments \/ Construct \/ CheckFirmwareFile
             \/ SpiReturns \/ JtagErase \/ JtagReturns \/ JtagDump \/ JtagVerify \/ Reload
    BY <2>5 DEF Start, ParseArguments, VerifyArguments, Construct, CheckFirmwareFile, SpiReturns,
       JtagErase, JtagReturns, JtagDump, JtagVerify, Reload, chip
  <2> QED
    BY <1>1, <2>1, <2>2, <2>3, <2>4, <2>5 DEF Next, Main
<1>2. IInv /\ [Next]_vars => [Change]_vars
  BY <1>1
<1> QED
  BY InvHolds, <1>2, PTL DEF Spec, ChangesOnlyWhenAsked
=============================================================================
