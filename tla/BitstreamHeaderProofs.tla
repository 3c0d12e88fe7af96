------------------------ MODULE BitstreamHeaderProofs ------------------------
(***************************************************************************)
(* Proofs about BitstreamHeader, for every size of the buffer and every    *)
(* set of files: where findDataOffset finds the sync word, which is at one *)
(* place of the file or nowhere, whatever is read behind the buffer, and   *)
(* to which offset it goes from there.                                     *)
(***************************************************************************)
EXTENDS BitstreamHeader, TLAPS

-----------------------------------------------------------------------------
(* THE SYNC WORD *)

(* The first byte of the sync word is nowhere else in the file. *)
LEMMA FirstSyncByte ==
  ASSUME file \in Files, NEW k \in Nat, FileByte(k) = 170
  PROVE  k = SyncPlace /\ file.sync
<1>1. 1 + (k % 64) # 170
  OBVIOUS
<1>2. {file.header, file.pad, file.width, file.gap} \subseteq Nat
  BY HeaderAssumption
<1>3. \A n \in 2 .. 4 : SyncWord[n] # 170
  BY DEF SyncWord
<1>4. k \in SyncPlace .. SyncPlace + 3 /\ file.sync /\ SyncWord[k - SyncPlace + 1] = 170
  <2> DEFINE head  == k < file.header
             pad   == k \in file.header .. file.header + file.pad - 1
             width == k \in SyncPlace - file.gap - file.width .. SyncPlace - file.gap - 1
             gap   == k \in SyncPlace - file.gap .. SyncPlace - 1
             sync  == k \in SyncPlace .. SyncPlace + 3 /\ file.sync
             byte  == CASE head -> 0 [] pad -> 255 [] width -> 187 [] gap -> 255
                        [] sync -> SyncWord[k - SyncPlace + 1] [] OTHER -> 1 + (k % 64)
  <2>1. byte = 170
    BY DEF FileByte, c0
  <2>2. byte \in {0, 255, 187, 1 + (k % 64)} \/ (sync /\ byte = SyncWord[k - SyncPlace + 1])
    <3> HIDE DEF head, pad, width, gap, sync
    <3> QED OBVIOUS
  <2>3. sync /\ byte = SyncWord[k - SyncPlace + 1]
    <3> HIDE DEF sync, byte
    <3> QED BY <1>1, <2>1, <2>2
  <2> QED
    BY <2>1, <2>3
<1>5. SyncPlace \in Nat
  BY <1>2 DEF SyncPlace
<1> QED
  BY <1>3, <1>4, <1>5

(* The places of the buffer where the sync word is found. *)
Found(lucky) == {i \in Index : SyncAt(i, lucky)}

(* The sync word is found at its own place or nowhere. *)
LEMMA FoundAtSyncPlace ==
  ASSUME file \in Files, NEW lucky \in BOOLEAN
  PROVE  Found(lucky) = {} \/ (Found(lucky) = {SyncPlace} /\ file.sync)
<1>1. ASSUME NEW i \in Found(lucky) PROVE i = SyncPlace /\ file.sync
  <2>1. i \in Nat /\ i \in Index
    BY HeaderAssumption DEF Found, Index
  <2>2. FileByte(i + 0) = SyncWord[0 + 1]
    BY <2>1 DEF Found, SyncAt
  <2>3. i + 0 = i /\ SyncWord[0 + 1] = 170
    BY <2>1 DEF SyncWord
  <2> QED
    BY <2>1, <2>2, <2>3, FirstSyncByte
<1> QED
  BY <1>1

(* The first of one place is that place. *)
LEMMA MinOfOne == ASSUME NEW x \in Int PROVE Min({x}) = x
BY DEF Min

(* Where the two steps of the search lead from the sync word: back over the bytes 0xff, and *)
(* over the padding of a bit file in front of the bus width pattern.                       *)
Back == StepBack(SyncPlace)
Offset == IF Back <= 0 THEN Back ELSE IF file.bit THEN TakePadding(Back - 16) ELSE 0

(* findDataOffset gives that place if it finds the sync word at all. *)
LEMMA OffsetFound ==
  ASSUME file \in Files, NEW lucky \in BOOLEAN
  PROVE  findDataOffset(lucky) = IF Found(lucky) = {} THEN -1 ELSE Offset
<1>1. SyncPlace \in Int
  BY HeaderAssumption DEF SyncPlace
<1> QED
  BY <1>1, FoundAtSyncPlace, MinOfOne DEF findDataOffset, Found, Back, Offset

-----------------------------------------------------------------------------
(* THE BYTES BEFORE THE SYNC WORD *)

(* The parts of the file are where they are said to be. *)
LEMMA Bytes ==
  ASSUME file \in Files, NEW k \in Int
  PROVE  /\ k < file.header => FileByte(k) = 0
         /\ k \in file.header .. file.header + file.pad - 1 => FileByte(k) = c0
         /\ k \in SyncPlace - file.gap - file.width .. SyncPlace - file.gap - 1 => FileByte(k) = 187
         /\ k \in SyncPlace - file.gap .. SyncPlace - 1 => FileByte(k) = c0
<1>1. {file.header, file.pad, file.width, file.gap} \subseteq Nat
  BY HeaderAssumption
<1> DEFINE head  == k < file.header
           pad   == k \in file.header .. file.header + file.pad - 1
           width == k \in SyncPlace - file.gap - file.width .. SyncPlace - file.gap - 1
           gap   == k \in SyncPlace - file.gap .. SyncPlace - 1
           sync  == k \in SyncPlace .. SyncPlace + 3 /\ file.sync
           byte  == CASE head -> 0 [] pad -> c0 [] width -> 187 [] gap -> c0
                      [] sync -> SyncWord[k - SyncPlace + 1] [] OTHER -> 1 + (k % 64)
<1>2. FileByte(k) = byte
  BY DEF FileByte
<1>3. /\ head => ~pad /\ ~width /\ ~gap /\ ~sync
      /\ pad => ~width /\ ~gap /\ ~sync
      /\ width => ~gap /\ ~sync
      /\ gap => ~sync
  BY <1>1 DEF SyncPlace
<1>4. /\ head => byte = 0
      /\ pad => byte = c0
      /\ width => byte = 187
      /\ gap => byte = c0
  <2> HIDE DEF head, pad, width, gap, sync
  <2> QED BY <1>3
<1> QED
  BY <1>2, <1>4

(* The bytes 0xff in front of the sync word. *)
Run == IF file.width > 0 THEN file.gap ELSE file.gap + file.pad

(* The search backwards ends at the byte in front of them, or at the start of the file. *)
Steps == IF file.width = 0 /\ file.header = 0 THEN Run ELSE Run + 1

(* The first step goes back over the run of bytes 0xff in whole steps of 16. *)
LEMMA StepBackOverRun ==
  ASSUME file \in Files
  PROVE  Back = SyncPlace - (Steps - (Steps % 16))
<1> DEFINE others == {j \in 1 .. SyncPlace : FileByte(SyncPlace - j) # c0}
<1>1. {file.header, file.pad, file.width, file.gap} \subseteq Nat
  BY HeaderAssumption
<1>2. Run \in Nat /\ Steps \in Nat /\ SyncPlace \in Nat
  BY <1>1 DEF Run, Steps, SyncPlace
<1>3. ASSUME NEW j \in 1 .. Run PROVE FileByte(SyncPlace - j) = c0
  <2>1. SyncPlace - j \in Int
    BY <1>2, <1>3
  <2>2. \/ SyncPlace - j \in file.header .. file.header + file.pad - 1
        \/ SyncPlace - j \in SyncPlace - file.gap .. SyncPlace - 1
    BY <1>1, <1>3 DEF Run, SyncPlace
  <2> QED
    BY <2>1, <2>2, Bytes
<1>4. CASE file.width = 0 /\ file.header = 0
  <2>1. Run = SyncPlace /\ Steps = SyncPlace
    BY <1>1, <1>4 DEF Run, SyncPlace, Steps
  <2>2. others = {}
    BY <1>3, <2>1
  <2> QED
    BY <2>1, <2>2 DEF Back, StepBack
<1>5. CASE ~(file.width = 0 /\ file.header = 0)
  <2>1. Steps = Run + 1 /\ Steps \in 1 .. SyncPlace
    BY <1>1, <1>5 DEF Run, SyncPlace, Steps
  <2>2. FileByte(SyncPlace - Steps) # c0
    <3>1. SyncPlace - Steps \in Int
      BY <1>2
    <3>2. \/ SyncPlace - Steps < file.header
          \/ SyncPlace - Steps \in SyncPlace - file.gap - file.width .. SyncPlace - file.gap - 1
      BY <1>1, <2>1 DEF Run, SyncPlace
    <3> QED
      BY <3>1, <3>2, Bytes DEF c0
  <2>3. Steps \in others /\ \A j \in others : Steps <= j
    <3>1. Steps \in others
      BY <2>1, <2>2
    <3>2. ASSUME NEW j \in others PROVE Steps <= j
      <4>1. j \in 1 .. SyncPlace /\ j \notin 1 .. Run
        BY <1>3
      <4> QED
        BY <1>2, <2>1, <4>1
    <3> QED
      BY <3>1, <3>2
  <2>4. Min(others) = Steps
    <3>1. Min(others) \in others /\ \A j \in others : Min(others) <= j
      BY <2>3 DEF Min
    <3>2. others \subseteq Int
      OBVIOUS
    <3> DEFINE min == Min(others)
    <3>3. min \in Int /\ Steps \in Int /\ min <= Steps /\ Steps <= min
      <4> HIDE DEF others
      <4> QED
        BY <1>2, <2>3, <3>1, <3>2
    <3> HIDE DEF min
    <3>4. min = Steps
      BY <3>3
    <3> QED
      BY <3>4 DEF min
  <2>5. others # {}
    BY <2>3
  <2> QED
    BY <2>4, <2>5 DEF Back, StepBack
<1> QED
  BY <1>4, <1>5

(* Words of padding in front of an offset behind a header belong to the data. *)
LEMMA PaddingTaken ==
  ASSUME file \in Files, file.bit, file.pad % 4 = 0, file.pad <= BufferSize
  PROVE  TakePadding(file.header + file.pad) = file.header
<1> DEFINE words == file.pad \div 4
           offset == file.header + file.pad
           WordEndsAt(e) == e > 4 /\ \A b \in 0 .. 3 : FileByte(e - b) = c0
           counts == {n \in 0 .. BufferSize \div 4 :
                        \A m \in 0 .. n - 1 : WordEndsAt(offset - 1 - 4 * m)}
<1>1. file.header \in Nat /\ file.pad \in Nat /\ file.header >= 2 /\ BufferSize \in Nat
  BY HeaderAssumption
<1>2. words \in Nat /\ 4 * words = file.pad /\ words <= BufferSize \div 4
  BY <1>1
<1>3. ASSUME NEW m \in 0 .. words - 1 PROVE WordEndsAt(offset - 1 - 4 * m)
  <2>1. \A b \in 0 .. 3 : (offset - 1 - 4 * m) - b \in file.header .. file.header + file.pad - 1
    BY <1>1, <1>2
  <2>2. offset - 1 - 4 * m > 4
    BY <1>1, <1>2
  <2> QED
    BY <1>1, <2>1, <2>2, Bytes
<1>4. ~WordEndsAt(offset - 1 - 4 * words)
  <2>1. (offset - 1 - 4 * words) - 0 = file.header - 1 /\ file.header - 1 < file.header
    BY <1>1, <1>2
  <2>2. FileByte((offset - 1 - 4 * words) - 0) # c0
    BY <1>1, <2>1, Bytes DEF c0
  <2> QED
    BY <2>2
<1> HIDE DEF WordEndsAt, offset
<1>5. words \in counts
  <2>1. words \in 0 .. BufferSize \div 4
    BY <1>1, <1>2
  <2> HIDE DEF words
  <2> QED
    BY <1>3, <2>1
<1>6. \A n \in counts : n \in Nat /\ n <= words
  <2> SUFFICES ASSUME NEW n \in counts, n > words PROVE FALSE
    BY <1>1, <1>2
  <2>1. words \in 0 .. n - 1
    BY <1>2
  <2> QED
    BY <1>4, <2>1
<1>7. Max(counts) = words
  <2> DEFINE max == Max(counts)
  <2>1. max \in counts /\ \A n \in counts : max >= n
    BY <1>2, <1>5, <1>6 DEF Max
  <2>2. max \in Nat /\ max <= words /\ words <= max
    BY <1>2, <1>5, <1>6, <2>1
  <2> HIDE DEF max
  <2>3. max = words
    BY <1>2, <2>2
  <2> QED
    BY <2>3 DEF max
<1>8. TakePadding(offset) = offset - 4 * Max(counts)
  BY DEF TakePadding, WordEndsAt
<1> QED
  BY <1>1, <1>2, <1>7, <1>8 DEF offset

(* There is no padding in front of a header. *)
LEMMA NoPaddingTaken ==
  ASSUME file \in Files, NEW offset \in Int, offset < file.header
  PROVE  TakePadding(offset) = offset
<1> DEFINE WordEndsAt(e) == e > 4 /\ \A b \in 0 .. 3 : FileByte(e - b) = c0
           counts == {n \in 0 .. BufferSize \div 4 :
                        \A m \in 0 .. n - 1 : WordEndsAt(offset - 1 - 4 * m)}
<1>1. file.header \in Nat /\ BufferSize \in Nat
  BY HeaderAssumption
<1>2. ~WordEndsAt(offset - 1 - 4 * 0)
  <2>1. (offset - 1 - 4 * 0) - 0 = offset - 1 /\ offset - 1 < file.header
    BY <1>1
  <2>2. FileByte((offset - 1 - 4 * 0) - 0) # c0
    BY <1>1, <2>1, Bytes DEF c0
  <2> QED
    BY <2>2
<1> HIDE DEF WordEndsAt
<1>3. counts = {0}
  <2>1. 0 \in counts
    BY <1>1
  <2>2. ASSUME NEW n \in counts, n # 0 PROVE FALSE
    <3>1. 0 \in 0 .. n - 1
      BY <1>1, <2>2
    <3> QED
      BY <1>2, <3>1
  <2> QED
    BY <2>1, <2>2
<1>4. Max({0}) = 0
  BY DEF Max
<1>5. TakePadding(offset) = offset - 4 * Max(counts)
  BY DEF TakePadding, WordEndsAt
<1> HIDE DEF counts
<1> QED
  BY <1>3, <1>4, <1>5

-----------------------------------------------------------------------------
(* THE OFFSET *)

(* The search backwards stays in the file. *)
LEMMA BackInFile == ASSUME file \in Files PROVE Back \in 0 .. SyncPlace
<1>1. {file.header, file.pad, file.width, file.gap} \subseteq Nat
  BY HeaderAssumption
<1>2. SyncPlace \in Nat /\ Steps \in Nat /\ Steps <= SyncPlace
  BY <1>1 DEF SyncPlace, Steps, Run
<1>3. Steps - (Steps % 16) \in 0 .. Steps
  BY <1>2
<1> QED
  BY <1>2, <1>3, StepBackOverRun

(* A bin file is taken as it is. *)
LEMMA BinOffset == ASSUME file \in Files, ~file.bit PROVE Offset = 0
BY BackInFile DEF Offset

(* Where the data begin in a file with a sync word. *)
LEMMA DataOffset ==
  ASSUME file \in Files, NEW lucky \in BOOLEAN, Found(lucky) # {}, LongEnough
  PROVE  Offset = IF file.bit /\ file.width = 0 THEN file.header - 16 ELSE file.header
<1>1. {file.header, file.pad, file.width, file.gap} \subseteq Nat /\ file.bit \in BOOLEAN
      /\ BufferSize \in Nat /\ (file.bit => file.header >= 2)
  BY HeaderAssumption
<1>2. file.sync /\ SyncPlace \in Index
  BY FoundAtSyncPlace DEF Found
<1>3. CASE ~file.bit
  BY <1>2, <1>3, BinOffset, LayoutAssumption DEF LongEnough
<1>4. CASE file.bit /\ file.width > 0
  <2>1. file.pad % 4 = 0 /\ file.width + file.gap = 16 /\ file.gap < 15
    BY <1>2, <1>4, LayoutAssumption DEF LongEnough
  <2>2. Steps = file.gap + 1 /\ Steps % 16 = Steps
    BY <1>1, <1>4, <2>1 DEF Steps, Run
  <2>3. Back = SyncPlace
    BY <1>1, <2>2, StepBackOverRun DEF SyncPlace
  <2>4. Back - 16 = file.header + file.pad /\ Back > 0
    BY <1>1, <2>1, <2>3 DEF SyncPlace
  <2>5. file.pad <= BufferSize
    BY <1>1, <1>2 DEF SyncPlace, Index
  <2>6. Offset = TakePadding(Back - 16)
    BY <1>1, <1>4, <2>4, BackInFile DEF Offset
  <2>7. TakePadding(file.header + file.pad) = file.header
    BY <1>4, <2>1, <2>5, PaddingTaken
  <2> QED
    BY <1>1, <1>4, <2>4, <2>6, <2>7
<1>5. CASE file.bit /\ file.width = 0
  <2>1. (file.pad + file.gap) % 16 = 0
    BY <1>2, <1>5, LayoutAssumption DEF LongEnough
  <2>2. Steps = file.gap + file.pad + 1
    BY <1>1, <1>5 DEF Steps, Run
  <2>3. Steps % 16 = 1
    BY <1>1, <2>1, <2>2
  <2>4. Back = file.header
    BY <1>1, <1>5, <2>2, <2>3, StepBackOverRun DEF SyncPlace
  <2>5. TakePadding(Back - 16) = Back - 16
    BY <1>1, <2>4, NoPaddingTaken
  <2>6. Back > 0
    BY <1>1, <1>5, <2>4
  <2> QED
    BY <1>1, <1>5, <2>4, <2>5, <2>6 DEF Offset
<1> QED
  BY <1>1, <1>3, <1>4, <1>5

-----------------------------------------------------------------------------
(* THE INVARIANT *)

(* A sync word was found, if need be with the help of what is behind the buffer. *)
HasSync == LongEnough /\ Found(TRUE) # {}

(* The chip is erased only for a bit file or for a file in which a sync word was found; what *)
(* has been written to it comes from the file as of that offset (VerifyAgrees, HeaderIsOmitted *)
(* are proved on top of this).                                                             *)
Inv ==
  /\ file \in Files
  /\ pc \in {"check", "erase", "program", "verify", "ended"}
  /\ pc = "check" => ~erased
  /\ pc # "ended" => result = "none"
  /\ pc \in {"erase", "program", "verify"} \/ erased => file.bit \/ HasSync
  /\ start # None => HasSync /\ start = Seek(Offset)
  /\ pc = "verify" => start # None
  /\ VerifyAgrees
  /\ RefusedBeforeErase

(* What is found without luck is found with it. *)
LEMMA FoundIfLucky ==
  ASSUME NEW lucky \in BOOLEAN, Found(lucky) # {}
  PROVE  Found(TRUE) # {}
BY DEF Found, SyncAt

(* A sync word that is found with luck only crosses the end of the buffer. *)
LEMMA FoundByLuck ==
  ASSUME file \in Files, NEW lucky \in BOOLEAN, Found(TRUE) # {}, Found(lucky) = {}
  PROVE  CrossesEnd
<1>1. SyncPlace \in Nat /\ BufferSize \in Nat
  BY HeaderAssumption DEF SyncPlace
<1>2. Found(TRUE) = {SyncPlace} /\ file.sync
  BY FoundAtSyncPlace
<1>3. SyncPlace \in Index /\ SyncAt(SyncPlace, TRUE)
  BY <1>2 DEF Found
<1>4. ~SyncAt(SyncPlace, lucky)
  BY <1>3 DEF Found
<1>5. PICK k \in 0 .. 3 : SyncPlace + k \notin Index
  BY <1>3, <1>4 DEF SyncAt
<1> QED
  BY <1>1, <1>2, <1>3, <1>5 DEF CrossesEnd, Index

(* An operation that reads the file reads it from the one offset. *)
LEMMA ReadFromOffset ==
  ASSUME file \in Files, NEW lucky \in BOOLEAN, Readable(lucky)
  PROVE  HasSync /\ From(lucky) = Seek(Offset) /\ Seek(Offset) \in Nat
<1>1. LongEnough /\ Found(lucky) # {}
  BY OffsetFound DEF Readable
<1>2. HasSync
  BY <1>1, FoundIfLucky DEF HasSync
<1>3. From(lucky) = Seek(Offset)
  BY <1>1, OffsetFound DEF From
<1>4. file.header \in Nat /\ file.len \in Nat
  BY HeaderAssumption
<1>5. Offset \in Int
  BY <1>1, <1>4, DataOffset
<1> QED
  BY <1>2, <1>3, <1>4, <1>5 DEF Seek

(* An operation behind the check that cannot read a bin file has missed the sync word. *)
LEMMA UnreadableCrossesEnd ==
  ASSUME file \in Files, NEW lucky \in BOOLEAN, ~Readable(lucky), file.bit \/ HasSync
  PROVE  file.bit \/ CrossesEnd
<1>1. CASE ~file.bit
  <2>1. findDataOffset(lucky) = -1
    BY <1>1 DEF Readable, HasSync
  <2>2. Found(lucky) = {}
    BY <1>1, <2>1, OffsetFound, BinOffset
  <2> QED
    BY <1>1, <2>2, FoundByLuck DEF HasSync
<1> QED
  BY <1>1

(* The search depends on nothing but the file. *)
LEMMA SearchDependsOnFile ==
  ASSUME UNCHANGED file
  PROVE  UNCHANGED <<HasSync, Seek(Offset), CrossesEnd>>
<1>1. UNCHANGED SyncPlace
  BY DEF SyncPlace
<1>2. \A k : FileByte(k)' = FileByte(k)
  BY <1>1 DEF FileByte
<1>3. UNCHANGED HasSync
  BY <1>2 DEF HasSync, LongEnough, Found, SyncAt
<1>4. UNCHANGED Back
  BY <1>1, <1>2 DEF Back, StepBack
<1>5. UNCHANGED TakePadding(Back - 16)
  BY <1>2, <1>4 DEF TakePadding
<1>6. UNCHANGED Seek(Offset)
  BY <1>4, <1>5 DEF Seek, Offset
<1>7. UNCHANGED CrossesEnd
  BY <1>1 DEF CrossesEnd
<1> QED
  BY <1>3, <1>6, <1>7

(* Nothing is searched for at the start. *)
LEMMA InitInv == Init => Inv
BY DEF Init, Inv, VerifyAgrees, RefusedBeforeErase

(* The check lets a bin file pass only with a sync word. *)
LEMMA CheckStep == Inv /\ CheckFirmwareFile => Inv'
<1> SUFFICES ASSUME Inv, pc = "check", NEW lucky \in BOOLEAN,
                    IF Accepts(lucky)
                    THEN pc' = "erase" /\ UNCHANGED <<file, erased, start, result>>
                    ELSE Refuse
             PROVE  Inv'
  BY DEF CheckFirmwareFile
<1> USE DEF Inv, VerifyAgrees, RefusedBeforeErase
<1>1. UNCHANGED <<file, erased, start>>
  BY DEF Refuse
<1>2. UNCHANGED <<HasSync, Seek(Offset), CrossesEnd>>
  BY <1>1, SearchDependsOnFile
<1>3. CASE Accepts(lucky)
  <2>1. file.bit \/ HasSync
    <3>1. CASE ~file.bit
      <4>1. LongEnough /\ findDataOffset(lucky) # -1
        BY <1>3, <3>1 DEF Accepts
      <4> QED
        BY <4>1, ReadFromOffset DEF Readable
    <3> QED
      BY <3>1
  <2> QED
    BY <1>1, <1>2, <1>3, <2>1
<1>4. CASE ~Accepts(lucky)
  BY <1>1, <1>2, <1>4 DEF Refuse
<1> QED
  BY <1>3, <1>4

(* The erase changes nothing of what is known of the file. *)
LEMMA EraseStep == Inv /\ Erase => Inv'
<1> SUFFICES ASSUME Inv, Erase PROVE Inv'
  OBVIOUS
<1> USE DEF Inv, VerifyAgrees, RefusedBeforeErase, Erase
<1>1. UNCHANGED <<HasSync, Seek(Offset), CrossesEnd>>
  BY SearchDependsOnFile
<1> QED
  BY <1>1

(* Programming starts at the offset. *)
LEMMA ProgramStep == Inv /\ Program => Inv'
<1> SUFFICES ASSUME Inv, pc = "program", NEW lucky \in BOOLEAN,
                    \/ ~Readable(lucky) /\ Refuse
                    \/ /\ Readable(lucky)
                       /\ start' = From(lucky) /\ pc' = "verify"
                       /\ UNCHANGED <<file, erased, result>>
             PROVE  Inv'
  BY DEF Program
<1> USE DEF Inv, VerifyAgrees, RefusedBeforeErase
<1>1. UNCHANGED <<file, erased>>
  BY DEF Refuse
<1>2. UNCHANGED <<HasSync, Seek(Offset), CrossesEnd>>
  BY <1>1, SearchDependsOnFile
<1>3. CASE ~Readable(lucky)
  <2>1. file.bit \/ CrossesEnd
    BY <1>3, UnreadableCrossesEnd
  <2> QED
    BY <1>1, <1>2, <1>3, <2>1 DEF Refuse
<1>4. CASE Readable(lucky)
  <2>1. HasSync /\ From(lucky) = Seek(Offset) /\ Seek(Offset) \in Nat
    BY <1>4, ReadFromOffset
  <2>2. start' # None
    BY <1>4, <2>1 DEF None
  <2> QED
    BY <1>1, <1>2, <1>4, <2>1, <2>2
<1> QED
  BY <1>3, <1>4

(* Verifying compares from the offset that was programmed. *)
LEMMA VerifyStep == Inv /\ Verify => Inv'
<1> SUFFICES ASSUME Inv, pc = "verify", NEW lucky \in BOOLEAN,
                    \/ ~Readable(lucky) /\ Refuse
                    \/ /\ Readable(lucky)
                       /\ \E from \in {From(lucky)} :
                            result' = IF \A k \in from .. file.len - 1 :
                                            FileByte(k) = Cell(k - from)
                                      THEN "done" ELSE "false"
                       /\ pc' = "ended" /\ UNCHANGED <<file, erased, start>>
             PROVE  Inv'
  BY DEF Verify
<1> USE DEF Inv, VerifyAgrees, RefusedBeforeErase
<1>1. UNCHANGED <<file, erased, start>>
  BY DEF Refuse
<1>2. UNCHANGED <<HasSync, Seek(Offset), CrossesEnd>>
  BY <1>1, SearchDependsOnFile
<1>3. CASE ~Readable(lucky)
  <2>1. file.bit \/ CrossesEnd
    BY <1>3, UnreadableCrossesEnd
  <2> QED
    BY <1>1, <1>2, <1>3, <2>1 DEF Refuse
<1>4. CASE Readable(lucky)
  <2>1. From(lucky) = start /\ start \in Nat
    BY <1>4, ReadFromOffset
  <2>2. \A k \in start .. file.len - 1 : FileByte(k) = Cell(k - start)
    <3> SUFFICES ASSUME NEW k \in start .. file.len - 1 PROVE FileByte(k) = Cell(k - start)
      OBVIOUS
    <3>1. file.len \in Nat
      BY HeaderAssumption
    <3>2. start + (k - start) = k /\ k < file.len
      BY <2>1, <3>1
    <3> QED
      BY <3>2 DEF Cell
  <2>3. result' = "done"
    BY <1>4, <2>1, <2>2
  <2> QED
    BY <1>1, <1>2, <1>4, <2>3
<1> QED
  BY <1>3, <1>4

(* Every step keeps the invariant. *)
LEMMA StepInv == Inv /\ [Next]_vars => Inv'
<1>1. ASSUME Inv, UNCHANGED vars PROVE Inv'
  <2>1. UNCHANGED <<HasSync, Seek(Offset), CrossesEnd>>
    BY <1>1, SearchDependsOnFile DEF vars
  <2> QED
    BY <1>1, <2>1 DEF vars, Inv, VerifyAgrees, RefusedBeforeErase
<1> QED
  BY <1>1, CheckStep, EraseStep, ProgramStep, VerifyStep DEF Next, Ended

(* The invariant holds in every state. *)
LEMMA Invariance == Spec => []Inv
BY InitInv, StepInv, PTL DEF Spec

-----------------------------------------------------------------------------
(* THE THEOREMS *)

(* findDataOffset, called once by programMemory and once by verifyMemory with whatever is *)
(* on the stack behind its buffer, makes them agree: a firmware file that was programmed   *)
(* is never reported as different for the place it was read from.                          *)
THEOREM VerifiesAgree == Spec => []VerifyAgrees
BY Invariance, PTL DEF Inv

(* checkFirmwareFile refuses a file before the erase, but for a bit file, of which it looks *)
(* at the pattern only, and a sync word across the end of the buffer.                       *)
THEOREM RefusalsComeFirst == Spec => []RefusedBeforeErase
BY Invariance, PTL DEF Inv

(* What is programmed to address 0 is the first byte behind the header, for every length of *)
(* the header and the padding and every place of the sync word in the buffer; of a bit file *)
(* without a bus width pattern the last sixteen bytes of the header are kept.  The files    *)
(* are laid out as LayoutAssumption says.                                                   *)
THEOREM HeadersAreOmitted == Spec => []HeaderIsOmitted
<1>1. Inv => HeaderIsOmitted
  <2> SUFFICES ASSUME Inv, start # None PROVE HeaderIsOmitted
    BY DEF HeaderIsOmitted
  <2>1. file \in Files /\ LongEnough /\ Found(TRUE) # {} /\ start = Seek(Offset)
    BY DEF Inv, HasSync
  <2>2. Offset = IF file.bit /\ file.width = 0 THEN file.header - 16 ELSE file.header
    BY <2>1, DataOffset
  <2>3. file.header \in Nat
    BY <2>1, HeaderAssumption
  <2> QED
    BY <2>1, <2>2, <2>3 DEF HeaderIsOmitted, Seek
<1> QED
  BY <1>1, Invariance, PTL
=============================================================================
