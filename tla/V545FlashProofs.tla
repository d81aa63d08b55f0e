---------------------------- MODULE V545FlashProofs ----------------------------
(***************************************************************************)
(* Proofs about V545Flash, for pages and flash memories of any size and    *)
(* any images that fit.                                                    *)
(***************************************************************************)
EXTENDS V545Flash, SequenceTheorems, TLAPS

-----------------------------------------------------------------------------
(* Images and percentages.                                                   *)

LEMMA ImageFits ==
  ASSUME NEW f \in File
  PROVE  /\ f.pages \in Seq(Page) /\ f.bytes \in Nat
         /\ Len(f.pages) \in 0..NumPages
         /\ Pages(f) \subseteq PageNo
         /\ \A p \in Pages(f) : PageOf(f, p) \in Page
<1>1. f.pages \in Seq(Page) /\ f.bytes \in Nat /\ Len(f.pages) <= NumPages
  BY FlashAssumption
<1>2. Len(f.pages) \in Nat
  BY <1>1
<1>3. NumPages \in Nat \ {0}
  BY FlashAssumption
<1>4. Pages(f) \subseteq PageNo
  BY <1>1, <1>2, <1>3 DEF Pages, PageNo
<1>5. ASSUME NEW p \in Pages(f) PROVE PageOf(f, p) \in Page
  <2>1. p + 1 \in 1..Len(f.pages)
    BY <1>2 DEF Pages
  <2> QED
    BY <1>1, <2>1 DEF PageOf
<1> QED
  BY <1>1, <1>2, <1>3, <1>4, <1>5

\* A percentage that is computed at the start of a page is below 100.
LEMMA PercentBelow ==
  ASSUME NEW f \in File, NEW p \in Pages(f)
  PROVE  Percent(f, p) \in 0..99
<1> DEFINE q == Len(f.pages)
           b == f.bytes
           w == PageBytes
<1>1. q = (b + w - 1) \div w
  BY FlashAssumption
<1>2. w \in Nat \ {0} /\ b \in Nat /\ q \in Nat /\ p \in Nat /\ p <= q - 1
  BY FlashAssumption, ImageFits DEF PageBytes, Pages
<1> HIDE DEF q, b, w
<1>3. w * q <= b + w - 1
  BY <1>1, <1>2
<1>4. w * p <= w * (q - 1)
  BY <1>2
<1>5. w * (q - 1) = w * q - w
  BY <1>2
<1>6. p * w = w * p /\ p * w \in Nat
  BY <1>2
<1>7. p * w < b
  BY <1>2, <1>3, <1>4, <1>5, <1>6
<1> DEFINE x == p * w * 100
<1>8. x \in Nat /\ x < b * 100 /\ b > 0
  BY <1>2, <1>6, <1>7
<1> HIDE DEF x
<1>9. x \div b \in 0..99
  BY <1>2, <1>8
<1> QED
  BY <1>9 DEF x, b, w, Percent

-----------------------------------------------------------------------------
(* Types.                                                                    *)

HostType == [pc: Pc, op: {"none", "reflash", "call"}, file: File, page: 0..NumPages,
             word: 1..NumWords, loaded: BOOLEAN, info: BOOLEAN, verify: BOOLEAN]

\* Where the position in the file may be.
Position ==
  /\ host.pc \in {"store", "write", "writewait", "read", "readwait", "compare"} =>
       host.page \in Pages(host.file)
  /\ host.pc = "load" => host.page \in 0..Len(host.file.pages)
  /\ host.pc = "idle" => host = NoHost
  /\ host.pc \in {"idle", "clear", "create", "activate", "unlock", "unlockwait", "load", "store", "write",
                 "writewait"} => ~ host.loaded
  /\ ~ host.loaded /\ host.pc \in {"reset", "sleep", "sum", "sumwait", "clear", "create", "activate",
                                   "unlock", "unlockwait"} => host.page = 0

\* The board executes the command in MACRO, with the page it was given.
Executes == fw.busy => Busy /\ fw.page = param0

LEMMA Constants ==
  /\ NumWords \in Nat \ {0} /\ NumPages \in Nat \ {0}
  /\ Zero \in Word /\ Blank \in Page
  /\ 0 \in PageNo
BY FlashAssumption DEF Blank, Page, PageNo

LEMMA Commands ==
  /\ Command = {Reset, Unlock, Write, Read, Checksum}
  /\ Ok \notin Command /\ Failed \notin Command /\ Ok # Failed
  /\ Write \notin {Reset, Unlock, Read, Checksum}
  /\ Reset \notin {Unlock, Read, Checksum}
  /\ Unlock \notin {Read, Checksum}
  /\ Read # Checksum
BY DEF Command, Reset, Unlock, Write, Read, Checksum, Ok, Failed

\* The forms in which the steps write the program's variables.
LEMMA Hosts ==
  ASSUME NEW h \in HostType
  PROVE  /\ \A pc \in Pc : [h EXCEPT !.pc = pc, !.word = 1] \in HostType
         /\ \A pc \in Pc : [h EXCEPT !.pc = pc, !.loaded = TRUE] \in HostType
         /\ \A pc \in Pc : [h EXCEPT !.pc = pc, !.page = 0] \in HostType
         /\ \A word \in 1..NumWords : [h EXCEPT !.word = word] \in HostType
         /\ \A pc \in Pc, page \in 0..NumPages :
              [h EXCEPT !.pc = pc, !.page = page, !.word = 1] \in HostType
<1>1. 1 \in 1..NumWords /\ 0 \in 0..NumPages
  BY Constants
<1>2. \A pc \in Pc : [h EXCEPT !.pc = pc, !.word = 1] \in HostType
  BY <1>1 DEF HostType
<1>3. \A pc \in Pc : [h EXCEPT !.pc = pc, !.loaded = TRUE] \in HostType
  BY DEF HostType
<1>4. \A pc \in Pc : [h EXCEPT !.pc = pc, !.page = 0] \in HostType
  BY <1>1 DEF HostType
<1>5. \A word \in 1..NumWords : [h EXCEPT !.word = word] \in HostType
  BY DEF HostType
<1>6. \A pc \in Pc, page \in 0..NumPages : [h EXCEPT !.pc = pc, !.page = page, !.word = 1] \in HostType
  BY <1>1 DEF HostType
<1> QED
  BY <1>2, <1>3, <1>4, <1>5, <1>6

LEMMA NewHosts ==
  /\ NoHost \in HostType
  /\ \A pc \in Pc, file \in File, info, verify \in BOOLEAN :
       [NoHost EXCEPT !.pc = pc, !.op = "reflash", !.file = file, !.info = info, !.verify = verify] \in HostType
  /\ \A pc \in Pc, file \in File : [NoHost EXCEPT !.pc = pc, !.op = "call", !.file = file] \in HostType
<1>1. AnyFile \in File
  BY FlashAssumption DEF AnyFile
<1>2. 1 \in 1..NumWords /\ 0 \in 0..NumPages /\ "idle" \in Pc
  BY Constants DEF Pc
<1>3. NoHost \in HostType
  BY <1>1, <1>2 DEF HostType, NoHost
<1>4. ASSUME NEW pc \in Pc, NEW file \in File, NEW info \in BOOLEAN, NEW verify \in BOOLEAN
      PROVE  [NoHost EXCEPT !.pc = pc, !.op = "reflash", !.file = file, !.info = info, !.verify = verify]
               \in HostType
  BY <1>2 DEF HostType, NoHost
<1>5. ASSUME NEW pc \in Pc, NEW file \in File
      PROVE  [NoHost EXCEPT !.pc = pc, !.op = "call", !.file = file] \in HostType
  BY <1>2 DEF HostType, NoHost
<1> QED
  BY <1>3, <1>4, <1>5

LEMMA TypedHost ==
  ASSUME TypeOK, Position, [Next]_vars
  PROVE  host' \in HostType
<1>0. host \in HostType /\ NoHost \in HostType
  BY NewHosts DEF TypeOK, HostType
<1>1. ASSUME NEW pc \in Pc, Go(pc) PROVE host' \in HostType
  BY <1>0, <1>1, Hosts, Constants DEF Go
<1>2. Pc = {"idle", "reset", "sleep", "sum", "sumwait", "clear", "create", "activate", "unlock",
            "unlockwait", "load", "store", "write", "writewait", "verify", "read", "readwait",
            "compare", "stop", "cancel", "join"}
  BY DEF Pc
<1>3. ASSUME NEW pc \in Pc, NEW code, Issue(code, pc) \/ IssuePage(code, pc) PROVE host' \in HostType
  BY <1>0, <1>1, <1>3 DEF Issue, IssuePage, Exit
<1>5. ASSUME NEW file \in File, NEW reset \in BOOLEAN, NEW info \in BOOLEAN, NEW verify \in BOOLEAN,
             Start(file, reset, info, verify)
      PROVE  host' \in HostType
  <2> DEFINE pc == IF reset THEN "reset" ELSE "sum"
  <2>1. pc \in Pc
    BY <1>2
  <2>2. host' = [NoHost EXCEPT !.pc = pc, !.op = "reflash", !.file = file, !.info = info,
                               !.verify = verify]
    BY <1>5 DEF Start
  <2> HIDE DEF pc
  <2> QED
    BY <2>1, <2>2, NewHosts
<1>6. ASSUME NEW file \in File, CallLoad(file) \/ CallVerify(file) PROVE host' \in HostType
  <2>1. "unlock" \in Pc /\ "verify" \in Pc
    BY <1>2
  <2>2. \/ host' = [NoHost EXCEPT !.pc = "unlock", !.op = "call", !.file = file]
        \/ host' = [NoHost EXCEPT !.pc = "verify", !.op = "call", !.file = file]
    BY <1>6 DEF CallLoad, CallVerify
  <2> QED
    BY <2>1, <2>2, NewHosts
<1>7. CASE ResetBoard \/ SumFlash \/ WritePage \/ ReadPage
  <2>1. "sleep" \in Pc /\ "sumwait" \in Pc /\ "writewait" \in Pc /\ "readwait" \in Pc
    BY <1>2
  <2>2. \/ Issue(Reset, "sleep") \/ Issue(Checksum, "sumwait")
        \/ IssuePage(Write, "writewait") \/ IssuePage(Read, "readwait")
    BY <1>7 DEF ResetBoard, SumFlash, WritePage, ReadPage
  <2> QED
    BY <1>3, <2>1, <2>2
<1>8. CASE UnlockFlash
  BY <1>0, <1>2, <1>3, <1>8 DEF UnlockFlash, Exit
<1>9. CASE Wake \/ ClearOverrideBlocks \/ CreateThread \/ Activate \/ StopThread \/ CancelThread
  BY <1>0, <1>1, <1>2, <1>9 DEF Wake, ClearOverrideBlocks, CreateThread, Activate, StopThread, CancelThread
<1>10. CASE FlashSummed
  <2> DEFINE pc == IF host.verify THEN "verify" ELSE "stop"
  <2>1. pc \in Pc /\ "clear" \in Pc
    BY <1>2
  <2>2. host' = NoHost \/ host' = [host EXCEPT !.pc = pc, !.page = 0] \/ Go("clear")
    BY <1>10 DEF FlashSummed, Polled, Exit
  <2> HIDE DEF pc
  <2> QED
    BY <1>0, <1>1, <2>1, <2>2, Hosts
<1>11. CASE FlashUnlocked \/ PageRead
  BY <1>0, <1>1, <1>2, <1>11 DEF FlashUnlocked, PageRead, Polled, Exit
<1>12. CASE LoadPage
  <2>1. [host EXCEPT !.pc = "reset", !.loaded = TRUE] \in HostType
    BY <1>0, <1>2, Hosts, Constants
  <2> QED
    BY <1>1, <1>2, <1>12, <2>1 DEF LoadPage
<1>13. ASSUME host.word < NumWords PROVE [host EXCEPT !.word = host.word + 1] \in HostType
  <2>1. host.word + 1 \in 1..NumWords
    BY <1>0, <1>13, Constants DEF HostType
  <2> QED
    BY <1>0, <1>2, <2>1, Hosts, Constants
<1>14. CASE StoreWord
  BY <1>1, <1>2, <1>13, <1>14 DEF StoreWord
<1>15. ASSUME NEW pc \in {"load", "verify"}, host.pc \in {"writewait", "compare"}
       PROVE  [host EXCEPT !.pc = pc, !.page = host.page + 1, !.word = 1] \in HostType
  <2>1. host.file \in File /\ host.page \in Pages(host.file)
    BY <1>0, <1>15 DEF Position, HostType
  <2>2. host.page + 1 \in 0..NumPages
    BY <2>1, ImageFits, Constants DEF Pages
  <2> QED
    BY <1>0, <1>2, <2>2, Hosts, Constants
<1>16. CASE PageWritten
  BY <1>0, <1>15, <1>16 DEF PageWritten, Polled, Exit, At
<1>17. CASE VerifyPage
  BY <1>0, <1>1, <1>2, <1>17 DEF VerifyPage, Exit
<1>18. CASE CompareWord
  <2>1. host.word \in 1..NumWords
    BY <1>0 DEF HostType
  <2> QED
    BY <1>0, <1>13, <1>15, <1>18, <2>1, Constants DEF CompareWord, NextPage, Exit, At
<1>19. CASE JoinThread \/ Kill
  BY <1>0, <1>19 DEF JoinThread, Kill, Exit
<1>20. CASE Update \/ (\E w \in 1..NumWords : UseOverride(w)) \/ Firmware \/ UNCHANGED vars
  BY <1>0, <1>20 DEF Update, UseOverride, Firmware, FirmwareStart, FirmwareFetch, FirmwareFinish, process, vars
<1> QED
  BY <1>5, <1>6, <1>7, <1>8, <1>9, <1>10, <1>11, <1>12, <1>14, <1>16, <1>17, <1>18, <1>19, <1>20
     DEF Next, Begin, Main

LEMMA PositionKept ==
  ASSUME TypeOK, Position, [Next]_vars
  PROVE  Position'
<1>0. host \in HostType /\ NoHost.pc = "idle" /\ ~ NoHost.loaded /\ NoHost.page = 0 /\ NoHost.op = "none"
  BY DEF TypeOK, HostType, NoHost
<1>1. ASSUME NEW file \in File, NEW reset \in BOOLEAN, NEW info \in BOOLEAN, NEW verify \in BOOLEAN,
             Start(file, reset, info, verify)
      PROVE  Position'
  BY <1>0, <1>1, ImageFits DEF Start, board, HostType, Position, Running, At
<1>2. ASSUME NEW file \in File, CallLoad(file) \/ CallVerify(file) PROVE Position'
  BY <1>0, <1>2, ImageFits DEF CallLoad, CallVerify, board, HostType, Position, Running, At
<1>3. ASSUME NEW w \in 1..NumWords, UseOverride(w) PROVE Position'
  BY <1>0, <1>3, ImageFits DEF UseOverride, process, HostType, Position, Running, At
<1>4. CASE ResetBoard \/ SumFlash
  BY <1>0, <1>4, ImageFits DEF ResetBoard, SumFlash, Issue, Exit, Go, Quiet, HostType, Position, Running, At
<1>5. CASE Wake
  BY <1>0, <1>5, ImageFits DEF Wake, Go, board, HostType, Position, Running, At
<1>6. CASE FlashSummed
  BY <1>0, <1>6, ImageFits DEF FlashSummed, Polled, Exit, Go, Quiet, board, HostType, Position, Running, At
<1>7. CASE ClearOverrideBlocks
  BY <1>0, <1>7, ImageFits DEF ClearOverrideBlocks, Go, HostType, Position, Running, At
<1>8. CASE CreateThread \/ Activate
  BY <1>0, <1>8, ImageFits DEF CreateThread, Activate, Go, board, HostType, Position, Running, At
<1>9. CASE UnlockFlash
  BY <1>0, <1>9, ImageFits DEF UnlockFlash, Issue, Exit, Go, Quiet, HostType, Position, Running, At
<1>10. CASE FlashUnlocked
  <2>1. 0 \in 0..Len(host.file.pages)
    BY <1>0, ImageFits DEF HostType
  <2> QED
    BY <1>0, <1>10, <2>1 DEF FlashUnlocked, Polled, Exit, Go, Quiet, HostType, Position, At
<1>11. CASE LoadPage
  BY <1>0, <1>11, ImageFits DEF LoadPage, Go, Quiet, board, HostType, Position, Running, At
<1>12. CASE StoreWord
  BY <1>0, <1>12, ImageFits DEF StoreWord, Go, HostType, Position, Running, At
<1>13. CASE WritePage
  BY <1>0, <1>13, ImageFits DEF WritePage, IssuePage, Exit, Go, Quiet, HostType, Position, Running, At
<1>14. CASE PageWritten
  <2>1. host.page \in Pages(host.file) => host.page + 1 \in 0..Len(host.file.pages)
    BY <1>0, ImageFits DEF HostType, Pages
  <2> QED
    BY <1>0, <1>14, <2>1 DEF PageWritten, Polled, Exit, HostType, Position, At
<1>15. CASE VerifyPage
  <2>1. \/ host' = NoHost
        \/ host.page \in Pages(host.file) /\ host' = [host EXCEPT !.pc = "read", !.word = 1]
        \/ host' = [host EXCEPT !.pc = "stop", !.word = 1]
    BY <1>15 DEF VerifyPage, Exit, Go
  <2> QED
    BY <1>0, <2>1 DEF HostType, Position
<1>16. CASE ReadPage
  BY <1>0, <1>16, ImageFits DEF ReadPage, IssuePage, Exit, Go, Quiet, HostType, Position, Running, At
<1>17. CASE PageRead
  BY <1>0, <1>17, ImageFits DEF PageRead, Polled, Exit, Go, Quiet, board, HostType, Position, Running, At
<1>18. CASE CompareWord
  BY <1>0, <1>18, ImageFits DEF CompareWord, NextPage, Exit, Quiet, board, HostType, Position, Running, At
<1>19. CASE StopThread \/ CancelThread
  BY <1>0, <1>19, ImageFits DEF StopThread, CancelThread, Go, board, HostType, Position, Running, At
<1>20. CASE JoinThread \/ Kill
  BY <1>0, <1>20, ImageFits DEF JoinThread, Kill, Exit, board, HostType, Position, Running, At
<1>21. CASE Update
  BY <1>0, <1>21, ImageFits DEF Update, board, HostType, Position, Running, At
<1>22. CASE FirmwareStart
  BY <1>0, <1>22, ImageFits DEF FirmwareStart, process, HostType, Position, Running, At
<1>23. CASE FirmwareFetch
  BY <1>0, <1>23, ImageFits DEF FirmwareFetch, Fetching, process, HostType, Position, Running, At
<1>24. CASE FirmwareFinish
  BY <1>0, <1>24, ImageFits DEF FirmwareFinish, Fetching, process, HostType, Position, Running, At
<1>25. CASE UNCHANGED vars
  BY <1>0, <1>25, ImageFits DEF vars, board, process, HostType, Position, Running, At
<1> QED
  BY <1>1, <1>2, <1>3, <1>4, <1>5, <1>6, <1>7, <1>8, <1>9, <1>10, <1>11, <1>12, <1>13, <1>14,
     <1>15, <1>16, <1>17, <1>18, <1>19, <1>20, <1>21, <1>22, <1>23, <1>24, <1>25
     DEF Next, Begin, Main, Firmware

-----------------------------------------------------------------------------
\* One more word of a page.
LEMMA OneMore ==
  ASSUME NEW s \in Taken, Len(s) < NumWords, NEW v \in Word
  PROVE  /\ Append(s, v) \in Taken
         /\ Len(Append(s, v)) = Len(s) + 1
         /\ \A i \in 1..(Len(s) + 1) : Append(s, v)[i] = IF i <= Len(s) THEN s[i] ELSE v
<1>1. PICK n \in 0..NumWords : s \in [1..n -> Word]
  BY DEF Taken
<1>2. n \in Nat /\ Len(s) = n /\ s \in Seq(Word)
  BY <1>1, Constants
<1>3. n + 1 \in 0..NumWords
  BY <1>2, Constants
<1>4. /\ Append(s, v) \in Seq(Word)
      /\ Len(Append(s, v)) = n + 1
      /\ \A i \in 1..n : Append(s, v)[i] = s[i]
      /\ Append(s, v)[n + 1] = v
  BY <1>2, AppendProperties
<1>5. Append(s, v) \in [1..(n + 1) -> Word]
  BY <1>4, LenProperties
<1>6. \A i \in 1..(n + 1) : i \in 1..n \/ i = n + 1
  BY <1>2
<1>7. Append(s, v) \in Taken
  BY <1>3, <1>5 DEF Taken
<1> QED
  BY <1>2, <1>4, <1>6, <1>7

LEMMA SamePage ==
  ASSUME NEW a \in Page, NEW b \in Page, \A w \in 1..NumWords : a[w] = b[w]
  PROVE  a = b
<1>1. a = [w \in 1..NumWords |-> a[w]] /\ b = [w \in 1..NumWords |-> b[w]]
  BY DEF Page
<1>2. [w \in 1..NumWords |-> a[w]] = [w \in 1..NumWords |-> b[w]]
  OBVIOUS
<1> QED
  BY <1>1, <1>2

LEMMA AllWords ==
  ASSUME NEW s \in Taken, ~ (Len(s) < NumWords)
  PROVE  s \in Page /\ Len(s) = NumWords
<1>1. PICK n \in 0..NumWords : s \in [1..n -> Word]
  BY DEF Taken
<1>2. Len(s) = n /\ n \in Nat
  BY <1>1, Constants
<1> QED
  BY <1>1, <1>2, Constants DEF Page

\* What the end of a command does to the board, by command.
LEMMA Outcome ==
  ASSUME TypeOK, Executes, FirmwareFinish
  PROVE  /\ Busy /\ fw.page = param0
         /\ macro' \in {Ok, Failed} /\ fw' = NoTask
         /\ UNCHANGED <<param0, process, job>>
         /\ macro # Write => flash' = flash
         /\ macro = Write => /\ fw.words \in Page /\ Len(fw.words) = NumWords
                             /\ flash' \in {flash, [flash EXCEPT ![fw.page] = fw.words]}
                             /\ macro' = Ok => flash' = [flash EXCEPT ![fw.page] = fw.words]
         /\ macro = Reset => macro' = Ok /\ ~ unlocked'
         /\ unlocked' => unlocked \/ macro = Unlock
         /\ macro = Read /\ macro' = Ok => regfile' = flash[fw.page]
         /\ regfile' \in Page /\ linked' \subseteq 1..NumWords /\ armed' \in BOOLEAN
         /\ unlocked' \in BOOLEAN
<1>1. fw.busy /\ Busy /\ fw.page = param0 /\ param0 \in PageNo
  BY DEF FirmwareFinish, Executes, TypeOK
<1>2. /\ fw' = NoTask /\ UNCHANGED <<param0, process, job>> /\ ~ Fetching
      /\ Succeed \/ Fail
  BY DEF FirmwareFinish
<1>3. macro = Write => fw.words \in Page /\ Len(fw.words) = NumWords
  <2>1. fw.words \in Taken
    BY DEF TypeOK
  <2> QED
    BY <1>1, <1>2, <2>1, AllWords DEF Fetching
<1>4. CASE Fail
  BY <1>1, <1>2, <1>3, <1>4, Commands DEF Fail, TypeOK
<1>5. CASE Succeed
  <2>1. /\ macro' = Ok
        /\ macro = Write => flash' = [flash EXCEPT ![fw.page] = fw.words]
        /\ macro # Write => flash' = flash
        /\ unlocked' = (macro = Unlock \/ (unlocked /\ macro # Reset))
        /\ linked' \in {linked, {}}
        /\ armed' = (armed /\ macro # Reset)
    BY <1>5 DEF Succeed
  <2>2. /\ macro = Read => regfile' = flash[fw.page]
        /\ macro = Reset => regfile' = Blank
        /\ macro \notin {Read, Reset} => regfile' = regfile
    BY <1>5, Commands DEF Succeed
  <2>3. regfile' \in Page
    BY <1>1, <2>2, Constants DEF TypeOK
  <2> QED
    BY <1>1, <1>2, <1>3, <2>1, <2>2, <2>3, Commands DEF TypeOK
<1> QED
  BY <1>2, <1>4, <1>5

-----------------------------------------------------------------------------
BoardOK ==
  /\ macro \in Command \cup {Ok, Failed} /\ param0 \in PageNo
  /\ regfile \in Page /\ linked \subseteq 1..NumWords /\ armed \in BOOLEAN
  /\ flash \in [PageNo -> Page] /\ unlocked \in BOOLEAN

FwOK == fw.busy \in BOOLEAN /\ fw.page \in PageNo /\ fw.words \in Taken

ProcessOK == thread \in {"none", "runs", "ended"} /\ active \in BOOLEAN /\ percent \in 0..100

JobOK == job \in [file: File, base: [PageNo -> Page], done: 0..NumPages, cut: BOOLEAN,
                  torn: BOOLEAN]

LEMMA Parts == TypeOK <=> BoardOK /\ FwOK /\ host \in HostType /\ ProcessOK /\ JobOK
BY DEF TypeOK, BoardOK, FwOK, HostType, ProcessOK, JobOK

\* Steps that only move the program on.
Moves ==
  \/ \E file \in File, reset, info, verify \in BOOLEAN : Start(file, reset, info, verify)
  \/ \E file \in File : CallLoad(file) \/ CallVerify(file)
  \/ FlashSummed \/ Wake \/ CreateThread \/ Activate \/ FlashUnlocked \/ VerifyPage \/ PageRead
  \/ CompareWord \/ StopThread \/ CancelThread \/ JoinThread \/ Update \/ Kill

\* A load goes on, or what it has read is taken for the whole file.
LEMMA LoadMoves ==
  ASSUME JobOK, LoadPage
  PROVE  /\ UNCHANGED board /\ JobOK'
         /\ job'.file = job.file /\ job'.base = job.base /\ job'.done = job.done
         /\ job'.torn = job.torn
<1>1. \/ (host.page \in Pages(host.file)) = TRUE
      \/ (host.page \in Pages(host.file)) = FALSE
  OBVIOUS
<1>2. /\ UNCHANGED board
      /\ job' = job \/ job' = [job EXCEPT !.cut = TRUE] \/ job' = [job EXCEPT !.cut = FALSE]
  BY <1>1 DEF LoadPage
<1> QED
  BY <1>2 DEF JobOK

LEMMA MovesOnly == Moves => UNCHANGED <<board, job>>
BY DEF Moves, Start, CallLoad, CallVerify, FlashSummed, Wake, CreateThread, Activate, FlashUnlocked,
       VerifyPage, PageRead, CompareWord, StopThread, CancelThread, JoinThread, Update, Kill,
       Polled

\* What a step of the program is, by what it does to the board.
LEMMA Kinds ==
  ASSUME Next
  PROVE  \/ Moves \/ LoadPage \/ (\E w \in 1..NumWords : UseOverride(w)) \/ ResetBoard \/ SumFlash
         \/ ClearOverrideBlocks \/ UnlockFlash \/ StoreWord \/ WritePage \/ PageWritten \/ ReadPage
         \/ FirmwareStart \/ FirmwareFetch \/ FirmwareFinish
BY DEF Next, Begin, Main, Firmware, Moves

LEMMA BoardKept ==
  ASSUME TypeOK, Position, Executes, [Next]_vars
  PROVE  BoardOK'
<1>0. BoardOK /\ host \in HostType
  BY Parts
<1>1. CASE Moves \/ PageWritten \/ LoadPage
  BY <1>0, <1>1, MovesOnly DEF LoadPage, board, BoardOK, PageWritten, Polled
<1>2. ASSUME NEW w \in 1..NumWords, UseOverride(w) PROVE BoardOK'
  BY <1>0, <1>2 DEF UseOverride, BoardOK, Page
<1>3. CASE ResetBoard \/ SumFlash \/ UnlockFlash
  <2>1. macro' \in {macro, Reset, Checksum, Unlock} /\ UNCHANGED <<param0, regfile, linked, armed, flash, unlocked>>
    BY <1>3 DEF ResetBoard, SumFlash, UnlockFlash, Issue
  <2> QED
    BY <1>0, <2>1, Commands DEF BoardOK
<1>4. CASE ClearOverrideBlocks
  <2>1. regfile' \in Page
    BY <1>0, <1>4, Constants DEF ClearOverrideBlocks, BoardOK, Page
  <2> QED
    BY <1>0, <1>4, <2>1 DEF ClearOverrideBlocks, BoardOK
<1>5. CASE StoreWord
  <2>1. host.file \in File /\ host.page \in Pages(host.file) /\ host.word \in 1..NumWords
    BY <1>0, <1>5 DEF StoreWord, HostType, Position, At
  <2>2. PageOf(host.file, host.page) \in Page
    BY <2>1, ImageFits
  <2>3. regfile' \in Page
    BY <1>0, <1>5, <2>1, <2>2 DEF StoreWord, BoardOK, Page
  <2> QED
    BY <1>0, <1>5, <2>3 DEF StoreWord, BoardOK
<1>6. CASE WritePage \/ ReadPage
  <2>1. host.page \in PageNo
    <3>1. host.page \in Pages(host.file) /\ host.file \in File
      BY <1>0, <1>6 DEF WritePage, ReadPage, HostType, Position, At
    <3> QED
      BY <3>1, ImageFits
  <2>2. /\ macro' \in {macro, Write, Read} /\ param0' \in {param0, host.page}
        /\ UNCHANGED <<regfile, linked, armed, flash, unlocked>>
    BY <1>6 DEF WritePage, ReadPage, IssuePage
  <2> QED
    BY <1>0, <2>1, <2>2, Commands DEF BoardOK
<1>7. CASE FirmwareStart \/ FirmwareFetch
  BY <1>0, <1>7 DEF FirmwareStart, FirmwareFetch, BoardOK
<1>8. CASE FirmwareFinish
  <2>1. flash' \in [PageNo -> Page]
    BY <1>0, <1>8, Outcome DEF BoardOK
  <2> QED
    BY <1>0, <1>8, <2>1, Outcome DEF BoardOK
<1>9. CASE UNCHANGED vars
  BY <1>0, <1>9 DEF vars, board, BoardOK
<1> QED
  BY <1>1, <1>2, <1>3, <1>4, <1>5, <1>6, <1>7, <1>8, <1>9, Kinds

LEMMA FwKept ==
  ASSUME TypeOK, Position, Executes, [Next]_vars
  PROVE  FwOK' /\ Executes'
<1>0. BoardOK /\ FwOK
  BY Parts
<1>1. CASE Moves \/ PageWritten \/ LoadPage \/ UNCHANGED vars
  BY <1>0, <1>1, MovesOnly DEF LoadPage, vars, board, FwOK, Executes, Busy, PageWritten, Polled
<1>2. CASE (\E w \in 1..NumWords : UseOverride(w)) \/ ClearOverrideBlocks \/ StoreWord
  BY <1>0, <1>2 DEF UseOverride, ClearOverrideBlocks, StoreWord, FwOK, Executes, Busy
<1>3. CASE ResetBoard \/ SumFlash \/ UnlockFlash \/ WritePage \/ ReadPage
  <2>1. fw' = fw /\ ((macro' = macro /\ param0' = param0) \/ ~ Busy)
    BY <1>3 DEF ResetBoard, SumFlash, UnlockFlash, WritePage, ReadPage, Issue, IssuePage
  <2> QED
    BY <1>0, <2>1 DEF FwOK, Executes, Busy
<1>4. CASE FirmwareStart
  <2>1. << >> \in Taken
    BY Constants DEF Taken
  <2> QED
    BY <1>0, <1>4, <2>1 DEF FirmwareStart, FwOK, BoardOK, Executes, Busy
<1>5. CASE FirmwareFetch
  <2>1. fw.words \in Taken /\ Len(fw.words) < NumWords
    BY <1>0, <1>5 DEF FirmwareFetch, Fetching, FwOK
  <2>2. regfile[Len(fw.words) + 1] \in Word
    <3>1. PICK n \in 0..NumWords : fw.words \in [1..n -> Word]
      BY <2>1 DEF Taken
    <3>2. Len(fw.words) + 1 \in 1..NumWords
      BY <2>1, <3>1, Constants
    <3> QED
      BY <1>0, <3>2 DEF BoardOK, Page
  <2>3. Append(fw.words, regfile[Len(fw.words) + 1]) \in Taken
    BY <2>1, <2>2, OneMore
  <2>4. fw' = [fw EXCEPT !.words = Append(fw.words, regfile[Len(fw.words) + 1])] /\ UNCHANGED <<macro, param0>>
    BY <1>5 DEF FirmwareFetch
  <2> QED
    BY <1>0, <2>3, <2>4 DEF FwOK, Executes, Busy
<1>6. CASE FirmwareFinish
  <2>1. ~ NoTask.busy /\ NoTask.busy \in BOOLEAN /\ NoTask.page \in PageNo /\ NoTask.words \in Taken
    BY Constants DEF NoTask, Taken
  <2> QED
    BY <1>6, <2>1, Outcome DEF FwOK, Executes
<1> QED
  BY <1>1, <1>2, <1>3, <1>4, <1>5, <1>6, Kinds

LEMMA ProcessKept ==
  ASSUME TypeOK, Position, [Next]_vars
  PROVE  ProcessOK'
<1>0. ProcessOK /\ host \in HostType
  BY Parts
<1>a. ASSUME Exit PROVE ProcessOK'
  <2>1. thread' \in {"none", "runs", "ended"} /\ percent' \in 0..100
    BY <1>a DEF Exit
  <2> QED
    BY <1>a, <2>1 DEF Exit, ProcessOK
<1>b. ASSUME Quiet PROVE ProcessOK'
  BY <1>0, <1>b DEF Quiet, ProcessOK
<1>1. ASSUME Exit \/ Quiet PROVE ProcessOK'
  BY <1>1, <1>a, <1>b
<1>2. ASSUME host.pc \in {"store", "compare"}
      PROVE  Percent(host.file, host.page) \in 0..100
  <2>1. host.file \in File /\ host.page \in Pages(host.file)
    BY <1>0, <1>2 DEF HostType, Position
  <2> QED
    BY <2>1, PercentBelow
<1>3. CASE ResetBoard \/ SumFlash \/ UnlockFlash \/ WritePage \/ ReadPage
  BY <1>1, <1>3 DEF ResetBoard, SumFlash, UnlockFlash, WritePage, ReadPage, Issue, IssuePage
<1>4. CASE FlashSummed \/ FlashUnlocked \/ PageWritten \/ PageRead \/ LoadPage \/ JoinThread \/ Kill
  BY <1>1, <1>4 DEF FlashSummed, FlashUnlocked, PageWritten, PageRead, LoadPage, JoinThread, Kill, Polled
<1>5. CASE Wake \/ CreateThread \/ Activate \/ StopThread \/ CancelThread \/ Update \/ ClearOverrideBlocks
  <2>1. thread' \in {thread, "runs", "ended"} /\ percent' \in {percent, 100}
    BY <1>5 DEF Wake, CreateThread, Activate, StopThread, CancelThread, Update, ClearOverrideBlocks
  <2>2. active' = active \/ active' = TRUE \/ active' = FALSE
    BY <1>5, Zenon DEF Wake, CreateThread, Activate, StopThread, CancelThread, Update, ClearOverrideBlocks
  <2>3. thread' \in {"none", "runs", "ended"} /\ percent' \in 0..100
    BY <1>0, <2>1 DEF ProcessOK
  <2>4. active' \in BOOLEAN
    BY <1>0, <2>2, Zenon DEF ProcessOK
  <2> QED
    BY <2>3, <2>4 DEF ProcessOK
<1>6. CASE VerifyPage
  BY <1>0, <1>1, <1>6 DEF VerifyPage, ProcessOK
<1>7. CASE StoreWord
  BY <1>0, <1>2, <1>7 DEF StoreWord, At, ProcessOK
<1>8. CASE CompareWord
  BY <1>0, <1>1, <1>2, <1>8 DEF CompareWord, NextPage, At, ProcessOK
<1>9. CASE Begin \/ Firmware \/ UNCHANGED vars
  BY <1>0, <1>9 DEF Begin, Start, CallLoad, CallVerify, UseOverride, Firmware, FirmwareStart, FirmwareFetch,
                    FirmwareFinish, process, vars, ProcessOK
<1> QED
  BY <1>3, <1>4, <1>5, <1>6, <1>7, <1>8, <1>9 DEF Next, Main

LEMMA JobKept ==
  ASSUME TypeOK, Position, [Next]_vars
  PROVE  JobOK'
<1>0. JobOK /\ BoardOK /\ host \in HostType
  BY Parts
<1>1. CASE UnlockFlash
  <2>1. job' = job \/ job' = [file |-> host.file, base |-> flash, done |-> 0, cut |-> FALSE, torn |-> FALSE]
    BY <1>1 DEF UnlockFlash
  <2>2. 0 \in 0..NumPages /\ host.file \in File /\ flash \in [PageNo -> Page]
    BY <1>0, Constants DEF HostType, BoardOK
  <2>3. [file |-> host.file, base |-> flash, done |-> 0, cut |-> FALSE, torn |-> FALSE]
          \in [file: File, base: [PageNo -> Page], done: 0..NumPages, cut: BOOLEAN,
               torn: BOOLEAN]
    BY <2>2
  <2> QED
    BY <1>0, <2>1, <2>3 DEF JobOK
<1>2. CASE PageWritten
  <2>1. host.file \in File /\ host.page \in Pages(host.file)
    BY <1>0, <1>2 DEF PageWritten, Polled, HostType, Position, At
  <2>2. host.page + 1 \in 0..NumPages
    BY <2>1, ImageFits, Constants DEF PageNo
  <2>3. job' = job \/ job' = [job EXCEPT !.done = host.page + 1]
    BY <1>2 DEF PageWritten
  <2> QED
    BY <1>0, <2>2, <2>3 DEF JobOK
<1>3. ASSUME NEW w \in 1..NumWords, UseOverride(w) PROVE JobOK'
  <2>1. job' = [job EXCEPT !.torn = job.torn \/ macro = Write]
    BY <1>3 DEF UseOverride
  <2> QED
    BY <1>0, <2>1 DEF JobOK
<1>4. CASE Moves \/ UNCHANGED vars
  BY <1>0, <1>4, MovesOnly DEF vars, JobOK
<1>5. CASE \/ ResetBoard \/ SumFlash \/ ClearOverrideBlocks \/ StoreWord \/ WritePage \/ ReadPage
           \/ FirmwareStart \/ FirmwareFetch \/ FirmwareFinish
  BY <1>0, <1>5 DEF ResetBoard, SumFlash, ClearOverrideBlocks, StoreWord, WritePage, ReadPage,
                    FirmwareStart, FirmwareFetch, FirmwareFinish, JobOK
<1>6. CASE LoadPage
  BY <1>0, <1>6, LoadMoves
<1> QED
  BY <1>1, <1>2, <1>3, <1>4, <1>5, <1>6, Kinds

LEMMA TypesKept == TypeOK /\ Position /\ Executes /\ [Next]_vars => TypeOK' /\ Position' /\ Executes'
BY Parts, TypedHost, BoardKept, FwKept, ProcessKept, JobKept, PositionKept
   DEF TypeOK, BoardOK, FwOK, HostType, ProcessOK, JobOK

LEMMA InitTypes == Init => TypeOK /\ Position /\ Executes
<1> SUFFICES ASSUME Init PROVE TypeOK /\ Position /\ Executes
  OBVIOUS
<1>1. AnyFile \in File /\ NoHost \in HostType
  BY FlashAssumption, NewHosts DEF AnyFile
<1>2. NoJob \in [file: File, base: [PageNo -> Page], done: 0..NumPages, cut: BOOLEAN,
                 torn: BOOLEAN]
  BY <1>1, Constants DEF NoJob
<1>3. NoTask.busy = FALSE /\ NoTask.page \in PageNo /\ NoTask.words \in Taken
  BY Constants DEF NoTask, Taken
<1>4. BoardOK /\ FwOK
  BY <1>3, Constants, Commands DEF Init, BoardOK, FwOK
<1>5. ProcessOK
  <2>1. thread \in {"none", "runs", "ended"} /\ percent \in 0..100 /\ active = FALSE
    BY DEF Init, NoProcess
  <2> QED
    BY <2>1 DEF ProcessOK
<1>6. JobOK
  BY <1>2 DEF Init, JobOK
<1>7. Position /\ Executes
  BY <1>3 DEF Init, NoProcess, NoHost, Position, Executes
<1> QED
  BY <1>1, <1>4, <1>5, <1>6, <1>7, Parts DEF Init, NoProcess

\* The registers, the flash memory, the program and its thread keep their types,
\* whatever fails, is refused or is killed, and the position stays in the file.
THEOREM TypeCorrect == Spec => []TypeOK
<1>1. TypeOK /\ Position /\ Executes /\ [Next]_vars => (TypeOK /\ Position /\ Executes)'
  BY TypesKept
<1> QED
  BY <1>1, InitTypes, PTL DEF Spec

-----------------------------------------------------------------------------
(* Whose command is in MACRO in each phase of the program.                   *)

Owned ==
  /\ host.pc \in {"clear", "create", "activate", "load", "store", "write", "compare"} => ~ Busy
  /\ host.pc = "unlockwait" => macro \in {Unlock, Ok, Failed}
  /\ host.pc = "writewait" => macro \in {Write, Ok, Failed}
  /\ host.pc = "readwait" => macro \in {Read, Ok, Failed}
  /\ host.pc = "sumwait" => macro \in {Checksum, Ok, Failed}
  /\ host.pc = "sleep" => macro \in {Reset, Ok}
  /\ host.loaded => macro \notin {Write, Unlock}
  /\ host.pc \in {"verify", "read"} /\ host.page > 0 => macro # Write

LEMMA OwnedKept ==
  ASSUME TypeOK, Position, Executes, Owned, [Next]_vars
  PROVE  Owned'
<1>0. host \in HostType /\ NoHost.pc = "idle" /\ ~ NoHost.loaded /\ NoHost.page = 0 /\ NoHost.op = "none"
  BY DEF TypeOK, HostType, NoHost
<1>1. ASSUME NEW file \in File, NEW reset \in BOOLEAN, NEW info \in BOOLEAN, NEW verify \in BOOLEAN,
             Start(file, reset, info, verify)
      PROVE  Owned'
  BY <1>0, <1>1, Commands DEF Start, board, HostType, Position, Owned, Busy, At
<1>2. ASSUME NEW file \in File, CallLoad(file) \/ CallVerify(file) PROVE Owned'
  <2>1. host'.pc \in {"unlock", "verify"} /\ host'.page = 0 /\ ~ host'.loaded /\ macro' = macro
    BY <1>2 DEF CallLoad, CallVerify, NoHost, board
  <2> QED
    BY <2>1 DEF Owned
<1>3. ASSUME NEW w \in 1..NumWords, UseOverride(w) PROVE Owned'
  BY <1>0, <1>3, Commands DEF UseOverride, process, HostType, Position, Owned, Busy, At
<1>4. CASE ResetBoard \/ SumFlash
  BY <1>0, <1>4, Commands DEF ResetBoard, SumFlash, Issue, Exit, Go, Quiet, HostType, Position, Owned, Busy, At
<1>5. CASE Wake
  BY <1>0, <1>5, Commands DEF Wake, Go, board, HostType, Position, Owned, Busy, At
<1>6. CASE FlashSummed
  BY <1>0, <1>6, Commands DEF FlashSummed, Polled, Exit, Go, Quiet, board, HostType, Position, Owned, Busy, At
<1>7. CASE ClearOverrideBlocks
  BY <1>0, <1>7, Commands DEF ClearOverrideBlocks, Go, HostType, Position, Owned, Busy, At
<1>8. CASE CreateThread \/ Activate
  BY <1>0, <1>8, Commands DEF CreateThread, Activate, Go, board, HostType, Position, Owned, Busy, At
<1>9. CASE UnlockFlash
  BY <1>0, <1>9, Commands DEF UnlockFlash, Issue, Exit, Go, Quiet, HostType, Position, Owned, Busy, At
<1>10. CASE FlashUnlocked
  BY <1>0, <1>10, Commands DEF FlashUnlocked, Polled, Exit, Go, Quiet, board, HostType, Position, Owned, Busy, At
<1>11. CASE LoadPage
  BY <1>0, <1>11, Commands DEF LoadPage, Go, Quiet, board, HostType, Position, Owned, Busy, At
<1>12. CASE StoreWord
  BY <1>0, <1>12, Commands DEF StoreWord, Go, HostType, Position, Owned, Busy, At
<1>13. CASE WritePage
  BY <1>0, <1>13, Commands DEF WritePage, IssuePage, Exit, Go, Quiet, HostType, Position, Owned, Busy, At
<1>14. CASE PageWritten
  BY <1>0, <1>14, Commands DEF PageWritten, Polled, Exit, Quiet, board, HostType, Position, Owned, Busy, At
<1>15. CASE VerifyPage
  <2>1. \/ host' = NoHost
        \/ host' = [host EXCEPT !.pc = "read", !.word = 1]
        \/ host' = [host EXCEPT !.pc = "stop", !.word = 1]
    BY <1>15 DEF VerifyPage, Exit, Go
  <2>2. macro' = macro /\ host.pc = "verify"
    BY <1>15 DEF VerifyPage, board, At
  <2> QED
    BY <1>0, <2>1, <2>2 DEF HostType, Owned
<1>16. CASE ReadPage
  BY <1>0, <1>16, Commands DEF ReadPage, IssuePage, Exit, Go, Quiet, HostType, Position, Owned, Busy, At
<1>17. CASE PageRead
  BY <1>0, <1>17, Commands DEF PageRead, Polled, Exit, Go, Quiet, board, HostType, Position, Owned, Busy, At
<1>18. CASE CompareWord
  BY <1>0, <1>18, Commands DEF CompareWord, NextPage, Exit, Quiet, board, HostType, Position, Owned, Busy, At
<1>19. CASE StopThread \/ CancelThread
  <2>1. host'.pc \in {"cancel", "join"} /\ host'.loaded = host.loaded /\ macro' = macro
    BY <1>0, <1>19 DEF StopThread, CancelThread, Go, board, HostType
  <2> QED
    BY <2>1 DEF Owned
<1>20. CASE JoinThread \/ Kill
  BY <1>0, <1>20, Commands DEF JoinThread, Kill, Exit, board, HostType, Position, Owned, Busy, At
<1>21. CASE Update
  BY <1>0, <1>21, Commands DEF Update, board, HostType, Position, Owned, Busy, At
<1>22. CASE FirmwareStart
  BY <1>0, <1>22, Commands DEF FirmwareStart, process, HostType, Position, Owned, Busy, At
<1>23. CASE FirmwareFetch
  BY <1>0, <1>23, Commands DEF FirmwareFetch, Fetching, process, HostType, Position, Owned, Busy, At
<1>24. CASE FirmwareFinish
  <2>1. Busy /\ macro' \in {Ok, Failed} /\ (macro = Reset => macro' = Ok) /\ host' = host
    BY <1>24, Outcome DEF process
  <2> QED
    BY <2>1, Commands DEF Owned, Busy
<1>25. CASE UNCHANGED vars
  BY <1>0, <1>25, Commands DEF vars, board, process, HostType, Position, Owned, Busy, At
<1> QED
  BY <1>1, <1>2, <1>3, <1>4, <1>5, <1>6, <1>7, <1>8, <1>9, <1>10, <1>11, <1>12, <1>13, <1>14,
     <1>15, <1>16, <1>17, <1>18, <1>19, <1>20, <1>21, <1>22, <1>23, <1>24, <1>25
     DEF Next, Begin, Main, Firmware

-----------------------------------------------------------------------------
(* What is in the registers and the flash memory in each phase.              *)

\* A load that runs is the last one.
JobMatches ==
  host.pc \in {"unlockwait", "load", "store", "write", "writewait"} =>
    job.file = host.file /\ job.done = host.page /\ ~ job.torn

\* A page is written where it belongs, from what was stored.
Writing ==
  macro = Write =>
    /\ param0 = job.done /\ job.done \in Pages(job.file)
    /\ ~ job.torn => /\ regfile = PageOf(job.file, job.done)
                     /\ fw.busy => \A i \in 1..Len(fw.words) : fw.words[i] = regfile[i]

Stored ==
  /\ host.pc = "store" =>
       \A w \in 1..NumWords : w < host.word => regfile[w] = PageOf(host.file, host.page)[w]
  /\ host.pc = "write" => regfile = PageOf(host.file, host.page)

Written == host.pc = "writewait" /\ macro = Ok => flash[host.page] = PageOf(host.file, host.page)

\* A page is compared with what was read of the same page.
Compared ==
  /\ host.pc = "readwait" => /\ macro = Read => param0 = host.page
                             /\ macro = Ok => regfile = flash[host.page]
  /\ host.pc = "compare" =>
       /\ regfile = flash[host.page]
       /\ \A w \in 1..NumWords : w < host.word => regfile[w] = PageOf(host.file, host.page)[w]
  /\ host.pc \in {"verify", "read", "readwait", "compare"} => Verified(host.file, host.page)

LEMMA JobMatchesKept ==
  ASSUME TypeOK, Position, Owned, JobMatches, [Next]_vars
  PROVE  JobMatches'
<1>0. host \in HostType /\ NoHost.pc = "idle" /\ ~ NoHost.loaded /\ NoHost.page = 0 /\ NoHost.op = "none"
  BY DEF TypeOK, HostType, NoHost
<1>j. job \in [file: File, base: [PageNo -> Page], done: 0..NumPages, cut: BOOLEAN,
               torn: BOOLEAN]
  BY DEF TypeOK
<1>1. ASSUME NEW file \in File, NEW reset \in BOOLEAN, NEW info \in BOOLEAN, NEW verify \in BOOLEAN,
             Start(file, reset, info, verify)
      PROVE  JobMatches'
  BY <1>0, <1>1, <1>j DEF Start, board, HostType, Position, JobMatches, At
<1>2. ASSUME NEW file \in File, CallLoad(file) \/ CallVerify(file) PROVE JobMatches'
  BY <1>0, <1>2, <1>j DEF CallLoad, CallVerify, board, HostType, Position, JobMatches, At
<1>3. ASSUME NEW w \in 1..NumWords, UseOverride(w) PROVE JobMatches'
  BY <1>0, <1>3, <1>j DEF UseOverride, process, HostType, Position, JobMatches, At
<1>4. CASE ResetBoard \/ SumFlash
  BY <1>0, <1>4, <1>j DEF ResetBoard, SumFlash, Issue, Exit, Go, Quiet, HostType, Position, JobMatches, At
<1>5. CASE Wake
  BY <1>0, <1>5, <1>j DEF Wake, Go, board, HostType, Position, JobMatches, At
<1>6. CASE FlashSummed
  BY <1>0, <1>6, <1>j DEF FlashSummed, Polled, Exit, Go, Quiet, board, HostType, Position, JobMatches, At
<1>7. CASE ClearOverrideBlocks
  BY <1>0, <1>7, <1>j DEF ClearOverrideBlocks, Go, HostType, Position, JobMatches, At
<1>8. CASE CreateThread \/ Activate
  BY <1>0, <1>8, <1>j DEF CreateThread, Activate, Go, board, HostType, Position, JobMatches, At
<1>9. CASE UnlockFlash
  <2>1. \/ host' = NoHost
        \/ /\ host' = [host EXCEPT !.pc = "unlockwait", !.word = 1]
           /\ job' = [file |-> host.file, base |-> flash, done |-> 0, cut |-> FALSE, torn |-> FALSE]
    BY <1>9 DEF UnlockFlash, Issue, Exit, Go
  <2>2. host.page = 0
    BY <1>9 DEF UnlockFlash, Position, At
  <2>3. CASE host' = NoHost
    BY <1>0, <2>3 DEF JobMatches
  <2>4. ASSUME host' = [host EXCEPT !.pc = "unlockwait", !.word = 1],
               job' = [file |-> host.file, base |-> flash, done |-> 0, cut |-> FALSE, torn |-> FALSE]
        PROVE  JobMatches'
    <3>1. host'.file = host.file /\ host'.page = host.page
      BY <1>0, <2>4 DEF HostType
    <3>2. job'.file = host.file /\ job'.done = 0 /\ job'.torn = FALSE
      BY <2>4
    <3> QED
      BY <2>2, <3>1, <3>2 DEF JobMatches
  <2> QED
    BY <2>1, <2>3, <2>4
<1>10. CASE FlashUnlocked
  BY <1>0, <1>10, <1>j DEF FlashUnlocked, Polled, Exit, Go, Quiet, board, HostType, Position, JobMatches, At
<1>11. CASE LoadPage
  <2>1. job'.file = job.file /\ job'.done = job.done /\ job'.torn = job.torn
    BY <1>11, <1>j, LoadMoves DEF JobOK
  <2>2. \/ host' = [host EXCEPT !.pc = "store", !.word = 1]
        \/ host' = [host EXCEPT !.pc = "reset", !.loaded = TRUE]
    BY <1>11 DEF LoadPage, Go
  <2> QED
    BY <1>0, <1>11, <2>1, <2>2 DEF LoadPage, At, HostType, JobMatches
<1>12. CASE StoreWord
  BY <1>0, <1>12, <1>j DEF StoreWord, Go, HostType, Position, JobMatches, At
<1>13. CASE WritePage
  BY <1>0, <1>13, <1>j DEF WritePage, IssuePage, Exit, Go, Quiet, HostType, Position, JobMatches, At
<1>14. CASE PageWritten
  <2>1. \/ host' = NoHost
        \/ /\ macro = Ok
           /\ host' = [host EXCEPT !.pc = "load", !.page = host.page + 1, !.word = 1]
           /\ job' = [job EXCEPT !.done = host.page + 1]
    <3>1. macro \in {Ok, Failed}
      BY <1>14, Commands DEF PageWritten, Polled, Owned, At, Busy
    <3> QED
      BY <1>14, <3>1 DEF PageWritten, Polled, Exit
  <2>2. host.pc = "writewait"
    BY <1>14 DEF PageWritten, Polled, At
  <2> QED
    BY <1>0, <1>j, <2>1, <2>2 DEF HostType, JobMatches
<1>15. CASE VerifyPage
  <2>1. host'.pc \in {"idle", "read", "stop"}
    BY <1>0, <1>15 DEF VerifyPage, Exit, Go, HostType
  <2> QED
    BY <2>1 DEF JobMatches
<1>16. CASE ReadPage
  BY <1>0, <1>16, <1>j DEF ReadPage, IssuePage, Exit, Go, Quiet, HostType, Position, JobMatches, At
<1>17. CASE PageRead
  BY <1>0, <1>17, <1>j DEF PageRead, Polled, Exit, Go, Quiet, board, HostType, Position, JobMatches, At
<1>18. CASE CompareWord
  BY <1>0, <1>18, <1>j DEF CompareWord, NextPage, Exit, Quiet, board, HostType, Position, JobMatches, At
<1>19. CASE StopThread \/ CancelThread
  BY <1>0, <1>19, <1>j DEF StopThread, CancelThread, Go, board, HostType, Position, JobMatches, At
<1>20. CASE JoinThread \/ Kill
  BY <1>0, <1>20, <1>j DEF JoinThread, Kill, Exit, board, HostType, Position, JobMatches, At
<1>21. CASE Update
  BY <1>0, <1>21, <1>j DEF Update, board, HostType, Position, JobMatches, At
<1>22. CASE FirmwareStart
  BY <1>0, <1>22, <1>j DEF FirmwareStart, process, HostType, Position, JobMatches, At
<1>23. CASE FirmwareFetch
  BY <1>0, <1>23, <1>j DEF FirmwareFetch, Fetching, process, HostType, Position, JobMatches, At
<1>24. CASE FirmwareFinish
  BY <1>0, <1>24, <1>j DEF FirmwareFinish, Fetching, process, HostType, Position, JobMatches, At
<1>25. CASE UNCHANGED vars
  BY <1>0, <1>25, <1>j DEF vars, board, process, HostType, Position, JobMatches, At
<1> QED
  BY <1>1, <1>2, <1>3, <1>4, <1>5, <1>6, <1>7, <1>8, <1>9, <1>10, <1>11, <1>12, <1>13, <1>14,
     <1>15, <1>16, <1>17, <1>18, <1>19, <1>20, <1>21, <1>22, <1>23, <1>24, <1>25
     DEF Next, Begin, Main, Firmware

LEMMA WritingKept ==
  ASSUME TypeOK, Position, Executes, Owned, JobMatches, Stored, Writing, [Next]_vars
  PROVE  Writing'
<1>0. BoardOK /\ FwOK /\ JobOK /\ host \in HostType
  BY Parts
<1>1. CASE Moves \/ UNCHANGED vars
  BY <1>1, MovesOnly DEF vars, board, Writing
<1>9. CASE LoadPage
  <2>1. job'.file = job.file /\ job'.done = job.done /\ job'.torn = job.torn /\ UNCHANGED board
    BY <1>0, <1>9, LoadMoves
  <2> QED
    BY <2>1 DEF board, Writing
<1>2. ASSUME NEW w \in 1..NumWords, UseOverride(w) PROVE Writing'
  BY <1>0, <1>2 DEF UseOverride, Writing, JobOK
<1>3. CASE ResetBoard \/ SumFlash \/ UnlockFlash \/ ReadPage
  <2>1. \/ macro' \in {Reset, Checksum, Unlock, Read}
        \/ UNCHANGED <<macro, param0, regfile, fw, job>>
    BY <1>3 DEF ResetBoard, SumFlash, UnlockFlash, ReadPage, Issue, IssuePage
  <2> QED
    BY <2>1, Commands DEF Writing
<1>4. CASE ClearOverrideBlocks \/ StoreWord \/ PageWritten
  <2>1. macro' = macro /\ ~ Busy
    BY <1>4 DEF ClearOverrideBlocks, StoreWord, PageWritten, Polled, Owned, At, board
  <2> QED
    BY <2>1, Commands DEF Writing, Busy
<1>5. CASE WritePage
  <2>1. \/ UNCHANGED <<macro, param0, regfile, fw, job>>
        \/ /\ macro' = Write /\ param0' = host.page /\ ~ Busy
           /\ UNCHANGED <<regfile, fw, job>>
    BY <1>5 DEF WritePage, IssuePage
  <2>2. /\ job.file = host.file /\ job.done = host.page /\ host.page \in Pages(host.file)
        /\ regfile = PageOf(host.file, host.page)
    BY <1>5 DEF WritePage, At, JobMatches, Position, Stored
  <2> QED
    BY <2>1, <2>2 DEF Writing, Executes
<1>6. CASE FirmwareStart
  <2>1. fw'.words = << >> /\ UNCHANGED <<macro, param0, regfile, job>>
    BY <1>6 DEF FirmwareStart
  <2>2. \A i \in 1..Len(fw'.words) : FALSE
    BY <2>1
  <2> QED
    BY <2>1, <2>2 DEF Writing
<1>7. CASE FirmwareFetch
  <2>1. /\ fw.busy /\ Len(fw.words) < NumWords /\ fw.words \in Taken
        /\ fw'.words = Append(fw.words, regfile[Len(fw.words) + 1])
        /\ UNCHANGED <<macro, param0, regfile, job>>
    BY <1>0, <1>7 DEF FirmwareFetch, Fetching, FwOK
  <2>2. Len(fw.words) \in Nat
    <3>1. PICK n \in 0..NumWords : fw.words \in [1..n -> Word]
      BY <2>1 DEF Taken
    <3> QED
      BY <3>1
  <2>3. regfile[Len(fw.words) + 1] \in Word
    BY <1>0, <2>1, <2>2, Constants DEF BoardOK, Page
  <2>4. /\ Len(fw'.words) = Len(fw.words) + 1
        /\ \A i \in 1..(Len(fw.words) + 1) :
             fw'.words[i] = IF i <= Len(fw.words) THEN fw.words[i] ELSE regfile[Len(fw.words) + 1]
    BY <2>1, <2>3, OneMore
  <2>5. ASSUME \A i \in 1..Len(fw.words) : fw.words[i] = regfile[i]
        PROVE  \A i \in 1..Len(fw'.words) : fw'.words[i] = regfile[i]
    BY <2>2, <2>4, <2>5
  <2> QED
    BY <2>1, <2>5 DEF Writing
<1>8. CASE FirmwareFinish
  BY <1>8, Outcome, Commands DEF Writing
<1> QED
  BY <1>1, <1>2, <1>3, <1>4, <1>5, <1>6, <1>7, <1>8, <1>9, Kinds

LEMMA StoredKept ==
  ASSUME TypeOK, Position, Executes, Owned, Stored, [Next]_vars
  PROVE  Stored'
<1>0. host \in HostType /\ NoHost.pc = "idle" /\ ~ NoHost.loaded /\ NoHost.page = 0 /\ NoHost.op = "none"
  BY DEF TypeOK, HostType, NoHost
<1>1. ASSUME NEW file \in File, NEW reset \in BOOLEAN, NEW info \in BOOLEAN, NEW verify \in BOOLEAN,
             Start(file, reset, info, verify)
      PROVE  Stored'
  BY <1>0, <1>1 DEF Start, board, HostType, Stored, At
<1>2. ASSUME NEW file \in File, CallLoad(file) \/ CallVerify(file) PROVE Stored'
  <2>1. host'.pc \in {"unlock", "verify"}
    BY <1>2 DEF CallLoad, CallVerify, NoHost
  <2> QED
    BY <2>1 DEF Stored
<1>3. ASSUME NEW w \in 1..NumWords, UseOverride(w) PROVE Stored'
  BY <1>3 DEF UseOverride, process, Stored, At
<1>4. CASE ResetBoard \/ SumFlash
  BY <1>0, <1>4 DEF ResetBoard, SumFlash, Issue, Exit, Go, Quiet, HostType, Stored, At
<1>5. CASE Wake
  BY <1>0, <1>5 DEF Wake, Go, board, HostType, Stored, At
<1>6. CASE FlashSummed
  BY <1>0, <1>6 DEF FlashSummed, Polled, Exit, Go, Quiet, board, HostType, Stored, At
<1>7. CASE ClearOverrideBlocks
  BY <1>0, <1>7 DEF ClearOverrideBlocks, Go, HostType, Stored, At
<1>8. CASE CreateThread \/ Activate
  BY <1>0, <1>8 DEF CreateThread, Activate, Go, board, HostType, Stored, At
<1>9. CASE UnlockFlash
  BY <1>0, <1>9 DEF UnlockFlash, Issue, Exit, Go, Quiet, HostType, Stored, At
<1>10. CASE FlashUnlocked
  BY <1>0, <1>10 DEF FlashUnlocked, Polled, Exit, Go, Quiet, board, HostType, Stored, At
<1>11. CASE LoadPage
  <2>1. \/ host' = [host EXCEPT !.pc = "store", !.word = 1]
        \/ host' = [host EXCEPT !.pc = "reset", !.loaded = TRUE]
    BY <1>11 DEF LoadPage, Go
  <2>2. ~ \E w \in 1..NumWords : w < 1
    OBVIOUS
  <2> QED
    BY <1>0, <2>1, <2>2 DEF HostType, Stored
<1>12. CASE StoreWord
  <2>1. /\ host.pc = "store" /\ host.file \in File /\ host.page \in Pages(host.file)
        /\ host.word \in 1..NumWords /\ regfile \in Page
    BY <1>0, <1>12 DEF StoreWord, HostType, Position, At, TypeOK
  <2>2. PageOf(host.file, host.page) \in Page
    BY <2>1, ImageFits
  <2> DEFINE page == PageOf(host.file, host.page)
  <2>3. regfile' = [regfile EXCEPT ![host.word] = page[host.word]]
    BY <1>12 DEF StoreWord
  <2>4. \A w \in 1..NumWords : w < host.word => regfile[w] = page[w]
    BY <2>1 DEF Stored
  <2> HIDE DEF page
  <2>5. \A w \in 1..NumWords : w < host.word + 1 => regfile'[w] = page[w]
    BY <2>1, <2>3, <2>4 DEF Page
  <2>6. ASSUME host.word = NumWords PROVE regfile' = page
    <3>1. \A w \in 1..NumWords : w < host.word + 1
      BY <2>1, <2>6
    <3>2. regfile' \in Page /\ page \in Page
      BY <2>1, <2>2, <2>3 DEF Page, page
    <3> QED
      BY <2>5, <3>1, <3>2, SamePage
  <2>7. \/ host.word < NumWords /\ host' = [host EXCEPT !.word = host.word + 1]
        \/ ~ (host.word < NumWords) /\ host' = [host EXCEPT !.pc = "write", !.word = 1]
    BY <1>12 DEF StoreWord, Go
  <2>8. ~ (host.word < NumWords) => host.word = NumWords
    BY <2>1, Constants
  <2>9. CASE host.word < NumWords
    <3>1. /\ host'.pc = "store" /\ host'.file = host.file /\ host'.page = host.page
          /\ host'.word = host.word + 1
      BY <1>0, <2>1, <2>7, <2>9 DEF HostType
    <3> QED
      BY <2>5, <3>1 DEF Stored, page
  <2>10. CASE ~ (host.word < NumWords)
    <3>1. host'.pc = "write" /\ host'.file = host.file /\ host'.page = host.page
      BY <1>0, <2>7, <2>10 DEF HostType
    <3> QED
      BY <2>6, <2>8, <2>10, <3>1 DEF Stored, page
  <2> QED
    BY <2>9, <2>10
<1>13. CASE WritePage
  BY <1>0, <1>13 DEF WritePage, IssuePage, Exit, Go, Quiet, HostType, Stored, At
<1>14. CASE PageWritten
  BY <1>0, <1>14 DEF PageWritten, Polled, Exit, Quiet, board, HostType, Stored, At
<1>15. CASE VerifyPage
  <2>1. host'.pc \in {"idle", "read", "stop"}
    BY <1>0, <1>15 DEF VerifyPage, Exit, Go, HostType
  <2> QED
    BY <2>1 DEF Stored
<1>16. CASE ReadPage
  BY <1>0, <1>16 DEF ReadPage, IssuePage, Exit, Go, Quiet, HostType, Stored, At
<1>17. CASE PageRead
  BY <1>0, <1>17 DEF PageRead, Polled, Exit, Go, Quiet, board, HostType, Stored, At
<1>18. CASE CompareWord
  BY <1>0, <1>18 DEF CompareWord, NextPage, Exit, Quiet, board, HostType, Stored, At
<1>19. CASE StopThread \/ CancelThread
  BY <1>0, <1>19 DEF StopThread, CancelThread, Go, board, HostType, Stored, At
<1>20. CASE JoinThread \/ Kill
  BY <1>0, <1>20 DEF JoinThread, Kill, Exit, board, HostType, Stored, At
<1>21. CASE Update
  BY <1>0, <1>21 DEF Update, board, HostType, Stored, At
<1>22. CASE FirmwareStart
  <2>1. Busy /\ host' = host
    BY <1>22 DEF FirmwareStart, FirmwareFetch, FirmwareFinish, Fetching, Executes, process
  <2> QED
    BY <2>1 DEF Stored, Owned
<1>23. CASE FirmwareFetch
  <2>1. Busy /\ host' = host
    BY <1>23 DEF FirmwareStart, FirmwareFetch, FirmwareFinish, Fetching, Executes, process
  <2> QED
    BY <2>1 DEF Stored, Owned
<1>24. CASE FirmwareFinish
  <2>1. Busy /\ host' = host
    BY <1>24 DEF FirmwareStart, FirmwareFetch, FirmwareFinish, Fetching, Executes, process
  <2> QED
    BY <2>1 DEF Stored, Owned
<1>25. CASE UNCHANGED vars
  BY <1>0, <1>25 DEF vars, board, process, HostType, Stored, At
<1> QED
  BY <1>1, <1>2, <1>3, <1>4, <1>5, <1>6, <1>7, <1>8, <1>9, <1>10, <1>11, <1>12, <1>13, <1>14,
     <1>15, <1>16, <1>17, <1>18, <1>19, <1>20, <1>21, <1>22, <1>23, <1>24, <1>25
     DEF Next, Begin, Main, Firmware

LEMMA WrittenKept ==
  ASSUME TypeOK, Position, Executes, Owned, JobMatches, Writing, Written, [Next]_vars
  PROVE  Written'
<1>0. host \in HostType /\ NoHost.pc = "idle" /\ ~ NoHost.loaded /\ NoHost.page = 0 /\ NoHost.op = "none"
  BY DEF TypeOK, HostType, NoHost
<1>1. ASSUME NEW file \in File, NEW reset \in BOOLEAN, NEW info \in BOOLEAN, NEW verify \in BOOLEAN,
             Start(file, reset, info, verify)
      PROVE  Written'
  BY <1>0, <1>1 DEF Start, board, HostType, Written, At
<1>2. ASSUME NEW file \in File, CallLoad(file) \/ CallVerify(file) PROVE Written'
  <2>1. host'.pc \in {"unlock", "verify"}
    BY <1>2 DEF CallLoad, CallVerify, NoHost
  <2> QED
    BY <2>1 DEF Written
<1>3. ASSUME NEW w \in 1..NumWords, UseOverride(w) PROVE Written'
  BY <1>3 DEF UseOverride, process, Written, At
<1>4. CASE ResetBoard \/ SumFlash
  BY <1>0, <1>4 DEF ResetBoard, SumFlash, Issue, Exit, Go, Quiet, HostType, Written, At
<1>5. CASE Wake
  BY <1>0, <1>5 DEF Wake, Go, board, HostType, Written, At
<1>6. CASE FlashSummed
  BY <1>0, <1>6 DEF FlashSummed, Polled, Exit, Go, Quiet, board, HostType, Written, At
<1>7. CASE ClearOverrideBlocks
  BY <1>0, <1>7 DEF ClearOverrideBlocks, Go, HostType, Written, At
<1>8. CASE CreateThread \/ Activate
  BY <1>0, <1>8 DEF CreateThread, Activate, Go, board, HostType, Written, At
<1>9. CASE UnlockFlash
  BY <1>0, <1>9 DEF UnlockFlash, Issue, Exit, Go, Quiet, HostType, Written, At
<1>10. CASE FlashUnlocked
  BY <1>0, <1>10 DEF FlashUnlocked, Polled, Exit, Go, Quiet, board, HostType, Written, At
<1>11. CASE LoadPage
  BY <1>0, <1>11 DEF LoadPage, Go, Quiet, board, HostType, Written, At
<1>12. CASE StoreWord
  BY <1>0, <1>12 DEF StoreWord, Go, HostType, Written, At
<1>13. CASE WritePage
  <2>1. host'.pc = "idle" \/ macro' = Write
    BY <1>0, <1>13 DEF WritePage, IssuePage, Exit
  <2> QED
    BY <2>1, Commands DEF Written
<1>14. CASE PageWritten
  BY <1>0, <1>14 DEF PageWritten, Polled, Exit, Quiet, board, HostType, Written, At
<1>15. CASE VerifyPage
  <2>1. host'.pc \in {"idle", "read", "stop"}
    BY <1>0, <1>15 DEF VerifyPage, Exit, Go, HostType
  <2> QED
    BY <2>1 DEF Written
<1>16. CASE ReadPage
  BY <1>0, <1>16 DEF ReadPage, IssuePage, Exit, Go, Quiet, HostType, Written, At
<1>17. CASE PageRead
  BY <1>0, <1>17 DEF PageRead, Polled, Exit, Go, Quiet, board, HostType, Written, At
<1>18. CASE CompareWord
  BY <1>0, <1>18 DEF CompareWord, NextPage, Exit, Quiet, board, HostType, Written, At
<1>19. CASE StopThread \/ CancelThread
  BY <1>0, <1>19 DEF StopThread, CancelThread, Go, board, HostType, Written, At
<1>20. CASE JoinThread \/ Kill
  BY <1>0, <1>20 DEF JoinThread, Kill, Exit, board, HostType, Written, At
<1>21. CASE Update
  BY <1>0, <1>21 DEF Update, board, HostType, Written, At
<1>22. CASE FirmwareStart
  BY <1>0, <1>22 DEF FirmwareStart, process, HostType, Written, At
<1>23. CASE FirmwareFetch
  BY <1>0, <1>23 DEF FirmwareFetch, Fetching, process, HostType, Written, At
<1>24. CASE FirmwareFinish
  <2> SUFFICES ASSUME host.pc = "writewait", macro' = Ok PROVE flash'[host.page] = PageOf(host.file, host.page)
    BY <1>24, Outcome DEF process, Written
  <2>1. Busy /\ fw.page = param0 /\ fw.busy
    BY <1>24, Outcome DEF FirmwareFinish
  <2>2. macro = Write
    BY <2>1, Commands DEF Owned, Busy
  <2>3. /\ job.file = host.file /\ job.done = host.page /\ ~ job.torn
        /\ host.page \in Pages(host.file) /\ host.file \in File
    BY <1>0 DEF JobMatches, Position, HostType
  <2>4. /\ flash' = [flash EXCEPT ![fw.page] = fw.words]
        /\ fw.words \in Page /\ Len(fw.words) = NumWords
    BY <1>24, <2>2, Outcome
  <2>5. /\ fw.page = host.page /\ regfile = PageOf(host.file, host.page)
        /\ \A i \in 1..NumWords : fw.words[i] = regfile[i]
    BY <2>1, <2>2, <2>3, <2>4 DEF Writing
  <2>6. fw.words = PageOf(host.file, host.page)
    <3>1. PageOf(host.file, host.page) \in Page
      BY <2>3, ImageFits
    <3>2. \A i \in 1..NumWords : fw.words[i] = PageOf(host.file, host.page)[i]
      BY <2>5
    <3>3. fw.words \in Page
      BY <2>4
    <3> QED
      BY <3>1, <3>2, <3>3, SamePage
  <2>7. host.page \in PageNo /\ flash \in [PageNo -> Page]
    BY <2>3, ImageFits DEF TypeOK
  <2> QED
    BY <2>4, <2>5, <2>6, <2>7
<1>25. CASE UNCHANGED vars
  BY <1>0, <1>25 DEF vars, board, process, HostType, Written, At
<1> QED
  BY <1>1, <1>2, <1>3, <1>4, <1>5, <1>6, <1>7, <1>8, <1>9, <1>10, <1>11, <1>12, <1>13, <1>14,
     <1>15, <1>16, <1>17, <1>18, <1>19, <1>20, <1>21, <1>22, <1>23, <1>24, <1>25
     DEF Next, Begin, Main, Firmware

-----------------------------------------------------------------------------
(* The pages of the last load.                                               *)

LEMMA PagesKept ==
  ASSUME TypeOK, Position, Executes, Owned, JobMatches, Writing, Written, PagesInOrder, [Next]_vars
  PROVE  PagesInOrder'
<1>0. BoardOK /\ FwOK /\ JobOK /\ host \in HostType
  BY Parts
<1>1. CASE Moves \/ UNCHANGED vars
  BY <1>1, MovesOnly DEF vars, board, PagesInOrder
<1>7. CASE LoadPage
  <2>1. /\ flash' = flash /\ job'.file = job.file /\ job'.base = job.base /\ job'.done = job.done
        /\ job'.torn = job.torn
    BY <1>0, <1>7, LoadMoves DEF board
  <2> QED
    BY <2>1 DEF PagesInOrder
<1>2. ASSUME NEW w \in 1..NumWords, UseOverride(w) PROVE PagesInOrder'
  <2>1. /\ flash' = flash /\ job'.file = job.file /\ job'.base = job.base /\ job'.done = job.done
        /\ job.torn => job'.torn
    BY <1>0, <1>2 DEF UseOverride, JobOK
  <2> QED
    BY <2>1 DEF PagesInOrder
<1>3. CASE ResetBoard \/ SumFlash \/ ClearOverrideBlocks \/ StoreWord \/ WritePage \/ ReadPage
           \/ FirmwareStart \/ FirmwareFetch
  <2>1. flash' = flash /\ job' = job
    BY <1>3 DEF ResetBoard, SumFlash, ClearOverrideBlocks, StoreWord, WritePage, ReadPage, FirmwareStart,
                FirmwareFetch
  <2> QED
    BY <2>1 DEF PagesInOrder
<1>4. CASE UnlockFlash
  <2>1. flash' = flash
    BY <1>4 DEF UnlockFlash
  <2>2. CASE job' = job
    BY <2>1, <2>2 DEF PagesInOrder
  <2>3. CASE job' = [file |-> host.file, base |-> flash, done |-> 0, cut |-> FALSE, torn |-> FALSE]
    <3>1. job'.done = 0 /\ job'.base = flash
      BY <2>3
    <3>2. \A p \in PageNo : ~ (p < 0)
      BY DEF PageNo
    <3>3. \A p \in PageNo : flash'[p] = job'.base[p]
      BY <2>1, <3>1
    <3> QED
      BY <3>1, <3>2, <3>3 DEF PagesInOrder
  <2> QED
    BY <1>4, <2>2, <2>3 DEF UnlockFlash, Issue
<1>5. CASE PageWritten
  <2>1. flash' = flash
    BY <1>5 DEF PageWritten, Polled, board
  <2>2. CASE job' = job
    BY <2>1, <2>2 DEF PagesInOrder
  <2>3. ASSUME macro = Ok, job' = [job EXCEPT !.done = host.page + 1]
        PROVE  PagesInOrder'
    <3>1. /\ job.file = host.file /\ job.done = host.page /\ ~ job.torn
          /\ host.page \in Pages(host.file)
          /\ flash[host.page] = PageOf(host.file, host.page)
      BY <1>5, <2>3 DEF PageWritten, Polled, At, JobMatches, Position, Written
    <3>2. /\ job'.file = job.file /\ job'.base = job.base /\ job'.torn = job.torn
          /\ job'.done = job.done + 1
      BY <1>0, <2>3, <3>1 DEF JobOK
    <3>3. job.done \in Nat /\ \A p \in PageNo : p \in Nat
      BY <1>0, Constants DEF JobOK, PageNo
    <3>4. ASSUME NEW p \in PageNo
          PROVE  IF p \in Pages(job.file) /\ p < job.done + 1 THEN flash[p] = PageOf(job.file, p)
                 ELSE IF p > job.done + 1 \/ p \notin Pages(job.file) THEN flash[p] = job.base[p]
                 ELSE flash[p] \in {job.base[p], PageOf(job.file, p)} \/ job.torn
      <4>1. p < job.done \/ p = job.done \/ p > job.done
        BY <3>3
      <4>2. CASE p < job.done
        BY <3>3, <4>2 DEF PagesInOrder
      <4>3. CASE p = job.done
        BY <3>1, <3>3, <4>3
      <4>4. CASE p > job.done
        <5>1. flash[p] = job.base[p] /\ ~ (p < job.done + 1)
          BY <3>3, <4>4 DEF PagesInOrder
        <5> QED
          BY <5>1
      <4> QED
        BY <4>1, <4>2, <4>3, <4>4
    <3> QED
      BY <2>1, <3>2, <3>4 DEF PagesInOrder
  <2> QED
    BY <1>5, <2>2, <2>3 DEF PageWritten
<1>6. CASE FirmwareFinish
  <2>1. job' = job
    BY <1>6, Outcome
  <2>2. CASE flash' = flash
    BY <2>1, <2>2 DEF PagesInOrder
  <2>3. ASSUME macro = Write, flash' = [flash EXCEPT ![fw.page] = fw.words]
        PROVE  PagesInOrder'
    <3>1. /\ fw.page = job.done /\ job.done \in Pages(job.file) /\ fw.busy
          /\ fw.words \in Page /\ Len(fw.words) = NumWords
      BY <1>6, <2>3, Outcome DEF Writing, FirmwareFinish
    <3>2. ~ job.torn => fw.words = PageOf(job.file, job.done)
      <4> SUFFICES ASSUME ~ job.torn PROVE fw.words = PageOf(job.file, job.done)
        OBVIOUS
      <4> DEFINE page == PageOf(job.file, job.done)
      <4>1. page \in Page /\ job.file \in File
        BY <1>0, <3>1, ImageFits DEF JobOK
      <4>2. \A i \in 1..NumWords : fw.words[i] = page[i]
        BY <2>3, <3>1 DEF Writing
      <4> HIDE DEF page
      <4>3. fw.words = page
        BY <3>1, <4>1, <4>2, SamePage
      <4> QED
        BY <4>3 DEF page
    <3>3. \A p \in PageNo : p # job.done => flash'[p] = flash[p]
      BY <1>0, <2>3, <3>1 DEF BoardOK
    <3>4. job.done \in PageNo => flash'[job.done] = fw.words
      BY <1>0, <2>3, <3>1 DEF BoardOK
    <3>5. ~ (job.done < job.done) /\ ~ (job.done > job.done)
      BY <1>0, Constants DEF JobOK
    <3>6. ASSUME NEW p \in PageNo
          PROVE  IF p \in Pages(job.file) /\ p < job.done THEN flash'[p] = PageOf(job.file, p)
                 ELSE IF p > job.done \/ p \notin Pages(job.file) THEN flash'[p] = job.base[p]
                 ELSE flash'[p] \in {job.base[p], PageOf(job.file, p)} \/ job.torn
      <4>1. CASE p = job.done
        BY <3>1, <3>2, <3>4, <3>5, <4>1
      <4>2. CASE p # job.done
        BY <3>3, <4>2 DEF PagesInOrder
      <4> QED
        BY <4>1, <4>2
    <3> QED
      BY <2>1, <3>6 DEF PagesInOrder
  <2> QED
    BY <1>6, <2>2, <2>3, Outcome
<1> QED
  BY <1>1, <1>2, <1>3, <1>4, <1>5, <1>6, <1>7, Kinds

-----------------------------------------------------------------------------
(* The comparison.                                                           *)

LEMMA ComparedKept ==
  ASSUME TypeOK, Position, Executes, Owned, Compared, [Next]_vars
  PROVE  Compared'
<1>0. host \in HostType /\ NoHost.pc = "idle" /\ ~ NoHost.loaded /\ NoHost.page = 0 /\ NoHost.op = "none"
  BY DEF TypeOK, HostType, NoHost
<1>1. ASSUME NEW file \in File, NEW reset \in BOOLEAN, NEW info \in BOOLEAN, NEW verify \in BOOLEAN,
             Start(file, reset, info, verify)
      PROVE  Compared'
  <2>1. host'.pc \notin {"verify", "read", "readwait", "compare"}
    BY <1>0, <1>1 DEF Start, HostType, NoHost
  <2> QED
    BY <2>1 DEF Compared
<1>2. ASSUME NEW file \in File, CallLoad(file) \/ CallVerify(file) PROVE Compared'
  <2>1. \/ host'.pc = "unlock"
        \/ host'.pc = "verify" /\ host'.page = 0
    BY <1>2 DEF CallLoad, CallVerify, NoHost
  <2>2. \A p \in Pages(host'.file) : ~ (p < 0)
    BY DEF Pages
  <2> QED
    BY <2>1, <2>2 DEF Compared, Verified
<1>3. ASSUME NEW w \in 1..NumWords, UseOverride(w) PROVE Compared'
  <2>1. host'.pc \notin {"verify", "read", "readwait", "compare"}
    BY <1>0, <1>3 DEF UseOverride, process, At
  <2> QED
    BY <2>1 DEF Compared
<1>4. CASE ResetBoard \/ SumFlash
  <2>1. host'.pc \notin {"verify", "read", "readwait", "compare"}
    BY <1>0, <1>4 DEF ResetBoard, SumFlash, Issue, Exit, Go, HostType
  <2> QED
    BY <2>1 DEF Compared
<1>5. CASE Wake
  <2>1. host'.pc \notin {"verify", "read", "readwait", "compare"}
    BY <1>0, <1>5 DEF Wake, Go, HostType
  <2> QED
    BY <2>1 DEF Compared
<1>6. CASE FlashSummed
  <2>1. \/ host'.pc \in {"idle", "stop", "clear"}
        \/ host'.pc = "verify" /\ host'.page = 0
    BY <1>0, <1>6 DEF FlashSummed, Polled, Exit, Go, HostType
  <2>2. \A p \in Pages(host'.file) : ~ (p < 0)
    BY DEF Pages
  <2> QED
    BY <2>1, <2>2 DEF Compared, Verified
<1>7. CASE ClearOverrideBlocks
  <2>1. host'.pc \notin {"verify", "read", "readwait", "compare"}
    BY <1>0, <1>7 DEF ClearOverrideBlocks, Go, HostType
  <2> QED
    BY <2>1 DEF Compared
<1>8. CASE CreateThread \/ Activate
  <2>1. host'.pc \notin {"verify", "read", "readwait", "compare"}
    BY <1>0, <1>8 DEF CreateThread, Activate, Go, HostType
  <2> QED
    BY <2>1 DEF Compared
<1>9. CASE UnlockFlash
  <2>1. host'.pc \notin {"verify", "read", "readwait", "compare"}
    BY <1>0, <1>9 DEF UnlockFlash, Issue, Exit, Go, HostType
  <2> QED
    BY <2>1 DEF Compared
<1>10. CASE FlashUnlocked
  <2>1. host'.pc \notin {"verify", "read", "readwait", "compare"}
    BY <1>0, <1>10 DEF FlashUnlocked, Polled, Exit, Go, HostType
  <2> QED
    BY <2>1 DEF Compared
<1>11. CASE LoadPage
  <2>1. host'.pc \notin {"verify", "read", "readwait", "compare"}
    BY <1>0, <1>11 DEF LoadPage, Go, HostType
  <2> QED
    BY <2>1 DEF Compared
<1>12. CASE StoreWord
  <2>1. host'.pc \notin {"verify", "read", "readwait", "compare"}
    BY <1>0, <1>12 DEF StoreWord, Go, HostType, At
  <2> QED
    BY <2>1 DEF Compared
<1>13. CASE WritePage
  <2>1. host'.pc \notin {"verify", "read", "readwait", "compare"}
    BY <1>0, <1>13 DEF WritePage, IssuePage, Exit, Go, HostType
  <2> QED
    BY <2>1 DEF Compared
<1>14. CASE PageWritten
  <2>1. host'.pc \notin {"verify", "read", "readwait", "compare"}
    BY <1>0, <1>14 DEF PageWritten, Polled, Exit, HostType
  <2> QED
    BY <2>1 DEF Compared
<1>15. CASE VerifyPage
  <2>1. \/ host'.pc \in {"idle", "stop"}
        \/ host'.pc = "read" /\ host'.file = host.file /\ host'.page = host.page
    BY <1>0, <1>15 DEF VerifyPage, Exit, Go, HostType
  <2>2. flash' = flash /\ host.pc = "verify"
    BY <1>15 DEF VerifyPage, board, At
  <2> QED
    BY <2>1, <2>2 DEF Compared, Verified
<1>16. CASE ReadPage
  <2>1. \/ host'.pc = "idle"
        \/ /\ host'.pc = "readwait" /\ host'.file = host.file /\ host'.page = host.page
           /\ macro' = Read /\ param0' = host.page
    BY <1>0, <1>16 DEF ReadPage, IssuePage, Exit, Go, HostType
  <2>2. flash' = flash /\ host.pc = "read"
    BY <1>16 DEF ReadPage, At
  <2> QED
    BY <2>1, <2>2, Commands DEF Compared, Verified
<1>17. CASE PageRead
  <2>1. \/ host'.pc = "idle"
        \/ /\ host'.pc = "compare" /\ host'.file = host.file /\ host'.page = host.page
           /\ host'.word = 1 /\ macro = Ok
    <3>1. macro \in {Ok, Failed}
      BY <1>17, Commands DEF PageRead, Polled, Owned, At, Busy
    <3> QED
      BY <1>0, <1>17, <3>1 DEF PageRead, Polled, Exit, Go, HostType
  <2>2. regfile' = regfile /\ flash' = flash /\ host.pc = "readwait"
    BY <1>17 DEF PageRead, Polled, board, At
  <2>3. \A w \in 1..NumWords : ~ (w < 1)
    OBVIOUS
  <2> QED
    BY <2>1, <2>2, <2>3 DEF Compared, Verified
<1>18. CASE CompareWord
  <2>1. /\ regfile' = regfile /\ flash' = flash /\ macro' = macro /\ host.pc = "compare"
        /\ host.file \in File /\ host.page \in Pages(host.file) /\ host.word \in 1..NumWords
        /\ regfile \in Page
    BY <1>0, <1>18 DEF CompareWord, board, At, Position, HostType, TypeOK
  <2> DEFINE page == PageOf(host.file, host.page)
  <2>2. /\ regfile = flash[host.page] /\ Verified(host.file, host.page)
        /\ \A w \in 1..NumWords : w < host.word => regfile[w] = page[w]
    BY <2>1 DEF Compared
  <2>3. CASE host' = NoHost
    BY <1>0, <2>3 DEF Compared
  <2>4. ASSUME regfile[host.word] = page[host.word]
        PROVE  \A w \in 1..NumWords : w < host.word + 1 => regfile[w] = page[w]
    <3>1. \A w \in 1..NumWords : w < host.word + 1 => w < host.word \/ w = host.word
      BY <2>1
    <3> QED
      BY <2>2, <2>4, <3>1
  <2>5. ASSUME regfile[host.word] = page[host.word], host' = [host EXCEPT !.word = host.word + 1]
        PROVE  Compared'
    <3>1. /\ host'.pc = "compare" /\ host'.file = host.file /\ host'.page = host.page
          /\ host'.word = host.word + 1
      BY <1>0, <2>1, <2>5 DEF HostType
    <3> QED
      BY <2>1, <2>2, <2>4, <2>5, <3>1 DEF Compared, Verified
  <2>6. ASSUME regfile[host.word] = page[host.word], host.word = NumWords,
               host' = [host EXCEPT !.pc = "verify", !.page = host.page + 1, !.word = 1]
        PROVE  Compared'
    <3>1. host'.pc = "verify" /\ host'.file = host.file /\ host'.page = host.page + 1
      BY <1>0, <2>6 DEF HostType
    <3>2. page \in Page
      BY <2>1, ImageFits
    <3>3. \A w \in 1..NumWords : w < host.word + 1
      BY <2>1, <2>6
    <3>4. flash[host.page] = page
      BY <2>1, <2>2, <2>4, <2>6, <3>2, <3>3, SamePage
    <3>5. \A p \in Pages(host.file) : p < host.page + 1 => p < host.page \/ p = host.page
      BY <2>1 DEF Pages
    <3>6. Verified(host.file, host.page + 1)
      BY <2>2, <3>4, <3>5 DEF Verified
    <3> QED
      BY <2>1, <3>1, <3>6 DEF Compared, Verified
  <2> QED
    BY <1>18, <2>3, <2>5, <2>6 DEF CompareWord, NextPage, Exit
<1>19. CASE StopThread \/ CancelThread
  <2>1. host'.pc \notin {"verify", "read", "readwait", "compare"}
    BY <1>0, <1>19 DEF StopThread, CancelThread, Go, HostType
  <2> QED
    BY <2>1 DEF Compared
<1>20. CASE JoinThread \/ Kill
  <2>1. host'.pc \notin {"verify", "read", "readwait", "compare"}
    BY <1>0, <1>20 DEF JoinThread, Kill, Exit, HostType
  <2> QED
    BY <2>1 DEF Compared
<1>21. CASE Update
  BY <1>21 DEF Update, board, Compared, Verified
<1>22. CASE FirmwareStart
  <2>1. /\ host' = host /\ UNCHANGED <<macro, param0, regfile, flash>>
    BY <1>22 DEF FirmwareStart, process
  <2> QED
    BY <2>1 DEF Compared, Verified
<1>23. CASE FirmwareFetch
  <2>1. /\ host' = host /\ UNCHANGED <<macro, param0, regfile, flash>>
    BY <1>23 DEF FirmwareFetch, process
  <2> QED
    BY <2>1 DEF Compared, Verified
<1>24. CASE FirmwareFinish
  <2>1. Busy /\ fw.page = param0 /\ host' = host /\ param0' = param0
    BY <1>24, Outcome DEF process
  <2>2. host.pc # "compare"
    BY <2>1 DEF Owned
  <2>3. ASSUME host.pc \in {"verify", "read", "readwait", "compare"}
        PROVE  Verified(host.file, host.page)'
    <3>1. CASE macro # Write
      <4>1. flash' = flash
        BY <1>24, <3>1, Outcome
      <4> QED
        BY <2>1, <2>3, <4>1 DEF Compared, Verified
    <3>2. CASE macro = Write
      <4>1. ~ (host.page > 0) /\ host.page \in Nat
        BY <1>0, <2>2, <2>3, <3>2, Constants, Commands DEF Owned, HostType
      <4>2. \A p \in Pages(host.file) : ~ (p < host.page)
        BY <4>1 DEF Pages
      <4> QED
        BY <2>1, <4>2 DEF Verified
    <3> QED
      BY <3>1, <3>2
  <2>4. ASSUME host.pc = "readwait"
        PROVE  macro' # Read /\ (macro' = Ok => regfile' = flash'[host.page])
    <3>1. macro = Read /\ param0 = host.page
      BY <2>1, <2>4, Commands DEF Owned, Busy, Compared
    <3> QED
      BY <1>24, <2>1, <3>1, Outcome, Commands
  <2> QED
    BY <2>1, <2>2, <2>3, <2>4 DEF Compared
<1>25. CASE UNCHANGED vars
  <2>1. /\ host' = host /\ UNCHANGED <<macro, param0, regfile, flash>>
    BY <1>25 DEF vars, board, process
  <2> QED
    BY <2>1 DEF Compared, Verified
<1> QED
  BY <1>1, <1>2, <1>3, <1>4, <1>5, <1>6, <1>7, <1>8, <1>9, <1>10, <1>11, <1>12, <1>13, <1>14,
     <1>15, <1>16, <1>17, <1>18, <1>19, <1>20, <1>21, <1>22, <1>23, <1>24, <1>25
     DEF Next, Begin, Main, Firmware

-----------------------------------------------------------------------------
(* What a load that has succeeded leaves.                                    *)

Verifying == {"verify", "read", "readwait", "compare"}

Loaded ==
  /\ host.loaded =>
       \A p \in Pages(host.file) : p < job.done \/ ~ job.cut => flash[p] = PageOf(host.file, p)
  /\ host.loaded /\ host.pc = "sleep" /\ macro = Ok => ~ unlocked
  /\ host.loaded /\ host.pc \notin {"reset", "sleep"} => ~ unlocked
  /\ host.pc \in Verifying /\ host.op = "reflash" => host.loaded
  /\ percent = 100 => host.loaded /\ host.pc \notin {"reset", "sleep"}

\* A program that ends, and one that goes on with what it knows.
LEMMA Ended ==
  ASSUME host' = NoHost, percent' # 100
  PROVE  Loaded'
<1>1. NoHost.pc = "idle" /\ NoHost.loaded = FALSE
  BY DEF NoHost
<1> QED
  BY <1>1 DEF Loaded, Verifying

LEMMA Continued ==
  ASSUME Loaded,
         host.loaded => job'.done = job.done /\ job'.cut = job.cut,
         host'.loaded = host.loaded, host'.file = host.file, host'.op = host.op,
         flash' = flash, unlocked' = unlocked,
         percent' # 100 \/ percent' = percent \/ host.loaded,
         host.loaded => host.pc \notin {"reset", "sleep"} /\ host'.pc \notin {"reset", "sleep"},
         host'.pc \in Verifying /\ host.op = "reflash" => host.loaded
  PROVE  Loaded'
BY DEF Loaded

\* Nothing more happens to a load that has succeeded.
LEMMA JobStays ==
  ASSUME TypeOK, Position, host.loaded, [Next]_vars
  PROVE  job'.done = job.done /\ job'.cut = job.cut
<1>0. JobOK
  BY Parts
<1>1. CASE LoadPage \/ UnlockFlash \/ PageWritten
  BY <1>1 DEF LoadPage, UnlockFlash, PageWritten, Polled, At, Position
<1>2. ASSUME NEW w \in 1..NumWords, UseOverride(w) PROVE job'.done = job.done /\ job'.cut = job.cut
  <2>1. PICK torn \in BOOLEAN : job' = [job EXCEPT !.torn = torn]
    BY <1>0, <1>2 DEF UseOverride, JobOK
  <2> QED
    BY <1>0, <2>1 DEF JobOK
<1>3. CASE Moves \/ UNCHANGED vars
  BY <1>3, MovesOnly DEF vars
<1>4. CASE \/ ResetBoard \/ SumFlash \/ ClearOverrideBlocks \/ StoreWord \/ WritePage \/ ReadPage
           \/ FirmwareStart \/ FirmwareFetch \/ FirmwareFinish
  BY <1>4 DEF ResetBoard, SumFlash, ClearOverrideBlocks, StoreWord, WritePage, ReadPage,
              FirmwareStart, FirmwareFetch, FirmwareFinish
<1> QED
  BY <1>1, <1>2, <1>3, <1>4, Kinds

LEMMA LoadedKept ==
  ASSUME TypeOK, Position, Executes, Owned, JobMatches, PagesInOrder, Loaded, [Next]_vars
  PROVE  Loaded'
<1>0. host \in HostType /\ NoHost.pc = "idle" /\ ~ NoHost.loaded /\ NoHost.page = 0 /\ NoHost.op = "none"
  BY DEF TypeOK, HostType, NoHost
<1>j. host.loaded => job'.done = job.done /\ job'.cut = job.cut
  BY JobStays
<1>1. ASSUME NEW file \in File, NEW reset \in BOOLEAN, NEW info \in BOOLEAN, NEW verify \in BOOLEAN,
             Start(file, reset, info, verify)
      PROVE  Loaded'
  <2>1. host'.loaded = FALSE /\ host'.pc \in {"reset", "sum"} /\ percent' = percent
    BY <1>1 DEF Start, NoHost
  <2>2. percent # 100
    BY <1>0, <1>1 DEF Start, At, Position, Loaded
  <2> QED
    BY <1>j, <2>1, <2>2 DEF Loaded, Verifying
<1>2. ASSUME NEW file \in File, CallLoad(file) \/ CallVerify(file) PROVE Loaded'
  <2>1. host'.loaded = FALSE /\ host'.op = "call" /\ percent' = percent
    BY <1>2 DEF CallLoad, CallVerify, NoHost
  <2>2. percent # 100
    BY <1>0, <1>2 DEF CallLoad, CallVerify, At, Position, Loaded
  <2> QED
    BY <1>j, <2>1, <2>2 DEF Loaded
<1>3. ASSUME NEW w \in 1..NumWords, UseOverride(w) PROVE Loaded'
  <2>1. UNCHANGED <<host, macro, flash, unlocked, percent>>
    BY <1>3 DEF UseOverride, process
  <2> QED
    BY <1>j, <2>1 DEF Loaded
<1>4. CASE ResetBoard \/ SumFlash
  <2>1. CASE ResetBoard
    <3>1. \/ host' = NoHost /\ percent' = 0
          \/ /\ host'.loaded = host.loaded /\ host'.file = host.file
             /\ host'.pc = "sleep" /\ percent' = percent /\ macro' = Reset
      BY <1>0, <2>1 DEF ResetBoard, Issue, Exit, Go, Quiet, HostType
    <3>2. host.pc = "reset" /\ flash' = flash
      BY <2>1 DEF ResetBoard, At
    <3> QED
      BY <1>j, <3>1, <3>2, Ended, Commands DEF Loaded, Verifying
  <2>2. CASE SumFlash
    <3>1. \/ host' = NoHost /\ percent' = 0
          \/ /\ host'.loaded = host.loaded /\ host'.file = host.file /\ host'.op = host.op
             /\ host'.pc = "sumwait" /\ percent' = percent
      BY <1>0, <2>2 DEF SumFlash, Issue, Exit, Go, Quiet, HostType
    <3>2. host.pc = "sum" /\ flash' = flash /\ unlocked' = unlocked
      BY <2>2 DEF SumFlash, At
    <3> QED
      BY <1>j, <3>1, <3>2, Ended, Continued DEF Verifying
  <2> QED
    BY <1>4, <2>1, <2>2
<1>5. CASE Wake
  <2>1. /\ host.pc = "sleep" /\ macro = Ok /\ macro' = macro /\ flash' = flash /\ unlocked' = unlocked
    BY <1>5, Commands DEF Wake, board, At, Owned, Busy
  <2>2. \/ host' = NoHost /\ percent' = percent
        \/ /\ host'.loaded = host.loaded /\ host'.file = host.file
           /\ host'.pc = "sum" /\ (percent' = percent \/ host.loaded)
    BY <1>0, <1>5 DEF Wake, Go, HostType, Running
  <2>3. percent # 100
    BY <1>j, <2>1 DEF Loaded
  <2> QED
    BY <1>j, <2>1, <2>2, <2>3, Ended DEF Loaded, Verifying
<1>6. CASE FlashSummed
  <2>1. \/ host' = NoHost /\ percent' = 0
        \/ /\ host'.loaded = host.loaded /\ host'.file = host.file /\ host'.op = host.op
           /\ percent' = percent
           /\ \/ host.loaded /\ host'.pc \in {"verify", "stop"}
              \/ ~ host.loaded /\ host'.pc = "clear"
    <3>1. \/ Exit
          \/ /\ host.loaded /\ Quiet
             /\ host' = [host EXCEPT !.pc = IF host.verify THEN "verify" ELSE "stop", !.page = 0]
          \/ ~ host.loaded /\ Quiet /\ Go("clear")
      BY <1>6 DEF FlashSummed, Polled
    <3>2. CASE Exit
      BY <3>2 DEF Exit
    <3>3. CASE host.loaded /\ Quiet
               /\ host' = [host EXCEPT !.pc = IF host.verify THEN "verify" ELSE "stop", !.page = 0]
      <4>1. host'.loaded = host.loaded /\ host'.file = host.file /\ host'.op = host.op
        BY <1>0, <3>3 DEF HostType
      <4>2. host'.pc \in {"verify", "stop"}
        BY <1>0, <3>3 DEF HostType
      <4> QED
        BY <3>3, <4>1, <4>2 DEF Quiet
    <3>4. CASE ~ host.loaded /\ Quiet /\ Go("clear")
      BY <1>0, <3>4 DEF Quiet, Go, HostType
    <3> QED
      BY <3>1, <3>2, <3>3, <3>4
  <2>2. host.pc = "sumwait" /\ flash' = flash /\ unlocked' = unlocked
    BY <1>6 DEF FlashSummed, Polled, At, board
  <2> QED
    BY <1>j, <2>1, <2>2, Ended, Continued DEF Verifying
<1>7. CASE ClearOverrideBlocks
  <2>1. \/ host' = NoHost /\ percent' = 0
        \/ /\ host'.loaded = host.loaded /\ host'.file = host.file /\ host'.op = host.op
           /\ host'.pc \in {"create"} /\ percent' = percent
    BY <1>0, <1>7 DEF ClearOverrideBlocks, Go, HostType
  <2>2. host.pc \in {"clear"} /\ flash' = flash /\ unlocked' = unlocked
    BY <1>7 DEF ClearOverrideBlocks, At
  <2>3. host.pc \in Verifying \/ ~ (host'.pc \in Verifying) \/ host' = NoHost
    BY <2>1, <2>2 DEF Verifying
  <2> QED
    BY <1>j, <2>1, <2>2, <2>3, Ended, Continued DEF Loaded
<1>8. CASE CreateThread \/ Activate
  <2>1. \/ host' = NoHost /\ percent' = 0
        \/ /\ host'.loaded = host.loaded /\ host'.file = host.file /\ host'.op = host.op
           /\ host'.pc \in {"activate", "unlock"} /\ percent' = percent
    BY <1>0, <1>8 DEF CreateThread, Activate, Go, HostType
  <2>2. host.pc \in {"create", "activate"} /\ flash' = flash /\ unlocked' = unlocked
    BY <1>8 DEF CreateThread, Activate, At, board
  <2>3. host.pc \in Verifying \/ ~ (host'.pc \in Verifying) \/ host' = NoHost
    BY <2>1, <2>2 DEF Verifying
  <2> QED
    BY <1>j, <2>1, <2>2, <2>3, Ended, Continued DEF Loaded
<1>9. CASE UnlockFlash
  <2>1. \/ host' = NoHost /\ percent' = 0
        \/ /\ host'.loaded = host.loaded /\ host'.file = host.file /\ host'.op = host.op
           /\ host'.pc \in {"unlockwait"} /\ percent' = percent
    BY <1>0, <1>9 DEF UnlockFlash, Issue, Exit, Go, Quiet, HostType
  <2>2. host.pc \in {"unlock"} /\ flash' = flash /\ unlocked' = unlocked
    BY <1>9 DEF UnlockFlash, At
  <2>3. host.pc \in Verifying \/ ~ (host'.pc \in Verifying) \/ host' = NoHost
    BY <2>1, <2>2 DEF Verifying
  <2> QED
    BY <1>j, <2>1, <2>2, <2>3, Ended, Continued DEF Loaded
<1>10. CASE FlashUnlocked
  <2>1. \/ host' = NoHost /\ percent' = 0
        \/ /\ host'.loaded = host.loaded /\ host'.file = host.file /\ host'.op = host.op
           /\ host'.pc \in {"load"} /\ percent' = percent
    BY <1>0, <1>10 DEF FlashUnlocked, Polled, Exit, Go, Quiet, HostType
  <2>2. host.pc \in {"unlockwait"} /\ flash' = flash /\ unlocked' = unlocked
    BY <1>10 DEF FlashUnlocked, Polled, At, board
  <2>3. host.pc \in Verifying \/ ~ (host'.pc \in Verifying) \/ host' = NoHost
    BY <2>1, <2>2 DEF Verifying
  <2> QED
    BY <1>j, <2>1, <2>2, <2>3, Ended, Continued DEF Loaded
<1>11. CASE LoadPage
  <2>1. /\ host.pc = "load" /\ ~ host.loaded /\ flash' = flash /\ unlocked' = unlocked /\ percent' = percent
    BY <1>11 DEF LoadPage, At, board, Quiet, Position
  <2>2. CASE host' = [host EXCEPT !.pc = "store", !.word = 1]
    <3>1. host'.loaded = host.loaded /\ host'.file = host.file /\ host'.op = host.op /\ host'.pc = "store"
      BY <1>0, <2>2 DEF HostType
    <3> QED
      BY <1>j, <2>1, <3>1, Continued DEF Verifying
  <2>3. ASSUME host' = [host EXCEPT !.pc = "reset", !.loaded = TRUE],
               job' = [job EXCEPT !.cut = host.page \in Pages(host.file)]
        PROVE  Loaded'
    <3>1. host'.file = host.file /\ host'.pc = "reset"
      BY <1>0, <2>3 DEF HostType
    <3>2. /\ job.file = host.file /\ job.done = host.page /\ host.file \in File
          /\ host.page \in 0..Len(host.file.pages)
      BY <1>0, <2>1 DEF JobMatches, Position, HostType
    <3>3. Len(host.file.pages) \in Nat /\ Pages(host.file) \subseteq PageNo
      BY <3>2, ImageFits
    <3>4. job'.done = job.done /\ job'.cut = (host.page \in Pages(host.file))
      BY <2>3 DEF TypeOK
    <3>5. ASSUME NEW p \in Pages(host.file), p < job'.done \/ ~ job'.cut
          PROVE  flash[p] = PageOf(host.file, p)
      <4>1. p < job.done
        <5>1. CASE host.page \in Pages(host.file)
          BY <3>4, <3>5, <5>1
        <5>2. CASE host.page \notin Pages(host.file)
          BY <3>2, <3>3, <5>2 DEF Pages
        <5> QED
          BY <5>1, <5>2
      <4> QED
        BY <3>2, <3>3, <4>1 DEF PagesInOrder
    <3>6. percent # 100
      BY <2>1 DEF Loaded
    <3> QED
      BY <2>1, <3>1, <3>5, <3>6 DEF Loaded, Verifying
  <2> QED
    BY <1>11, <2>2, <2>3 DEF LoadPage, Go
<1>12. CASE StoreWord
  <2>1. /\ host.pc = "store" /\ ~ host.loaded /\ flash' = flash /\ unlocked' = unlocked
        /\ host.file \in File /\ host.page \in Pages(host.file)
    BY <1>0, <1>12 DEF StoreWord, At, Position, HostType
  <2>2. /\ host'.loaded = host.loaded /\ host'.file = host.file /\ host'.op = host.op
        /\ host'.pc \in {"store", "write"}
    BY <1>0, <1>12 DEF StoreWord, Go, HostType, At
  <2>3. percent' = percent \/ percent' = Percent(host.file, host.page)
    BY <1>12 DEF StoreWord
  <2>4. Percent(host.file, host.page) # 100
    BY <2>1, PercentBelow
  <2> QED
    BY <1>j, <2>1, <2>2, <2>3, <2>4, Continued DEF Verifying
<1>13. CASE WritePage
  <2>1. \/ host' = NoHost /\ percent' = 0
        \/ /\ host'.loaded = host.loaded /\ host'.file = host.file /\ host'.op = host.op
           /\ host'.pc \in {"writewait"} /\ percent' = percent
    BY <1>0, <1>13 DEF WritePage, IssuePage, Exit, Go, Quiet, HostType
  <2>2. host.pc \in {"write"} /\ flash' = flash /\ unlocked' = unlocked
    BY <1>13 DEF WritePage, At
  <2>3. host.pc \in Verifying \/ ~ (host'.pc \in Verifying) \/ host' = NoHost
    BY <2>1, <2>2 DEF Verifying
  <2> QED
    BY <1>j, <2>1, <2>2, <2>3, Ended, Continued DEF Loaded
<1>14. CASE PageWritten
  <2>1. \/ host' = NoHost /\ percent' = 0
        \/ /\ host'.loaded = host.loaded /\ host'.file = host.file /\ host'.op = host.op
           /\ host'.pc \in {"load"} /\ percent' = percent
    BY <1>0, <1>14 DEF PageWritten, Polled, Exit, Quiet, HostType
  <2>2. host.pc \in {"writewait"} /\ flash' = flash /\ unlocked' = unlocked
    BY <1>14 DEF PageWritten, Polled, At, board
  <2>3. host.pc \in Verifying \/ ~ (host'.pc \in Verifying) \/ host' = NoHost
    BY <2>1, <2>2 DEF Verifying
  <2> QED
    BY <1>j, <2>1, <2>2, <2>3, Ended, Continued DEF Loaded
<1>15. CASE VerifyPage
  <2>1. \/ host' = NoHost /\ percent' = 0
        \/ /\ host'.loaded = host.loaded /\ host'.file = host.file /\ host'.op = host.op
           /\ \/ host'.pc = "read" /\ percent' = percent
              \/ host'.pc = "stop" /\ host.op = "reflash"
    BY <1>0, <1>15 DEF VerifyPage, Exit, Go, Quiet, HostType, Running
  <2>2. host.pc = "verify" /\ flash' = flash /\ unlocked' = unlocked
    BY <1>15 DEF VerifyPage, At, board
  <2>3. host.op = "reflash" => host.loaded
    BY <1>j, <2>2 DEF Loaded, Verifying
  <2> QED
    BY <1>j, <2>1, <2>2, <2>3, Ended, Continued DEF Verifying
<1>16. CASE ReadPage
  <2>1. \/ host' = NoHost /\ percent' = 0
        \/ /\ host'.loaded = host.loaded /\ host'.file = host.file /\ host'.op = host.op
           /\ host'.pc \in {"readwait"} /\ percent' = percent
    BY <1>0, <1>16 DEF ReadPage, IssuePage, Exit, Go, Quiet, HostType
  <2>2. host.pc \in {"read"} /\ flash' = flash /\ unlocked' = unlocked
    BY <1>16 DEF ReadPage, At
  <2>3. host.pc \in Verifying \/ ~ (host'.pc \in Verifying) \/ host' = NoHost
    BY <2>1, <2>2 DEF Verifying
  <2> QED
    BY <1>j, <2>1, <2>2, <2>3, Ended, Continued DEF Loaded
<1>17. CASE PageRead
  <2>1. \/ host' = NoHost /\ percent' = 0
        \/ /\ host'.loaded = host.loaded /\ host'.file = host.file /\ host'.op = host.op
           /\ host'.pc \in {"compare"} /\ percent' = percent
    BY <1>0, <1>17 DEF PageRead, Polled, Exit, Go, Quiet, HostType
  <2>2. host.pc \in {"readwait"} /\ flash' = flash /\ unlocked' = unlocked
    BY <1>17 DEF PageRead, Polled, At, board
  <2>3. host.pc \in Verifying \/ ~ (host'.pc \in Verifying) \/ host' = NoHost
    BY <2>1, <2>2 DEF Verifying
  <2> QED
    BY <1>j, <2>1, <2>2, <2>3, Ended, Continued DEF Loaded
<1>18. CASE CompareWord
  <2>1. /\ host.pc = "compare" /\ flash' = flash /\ unlocked' = unlocked
        /\ host.file \in File /\ host.page \in Pages(host.file)
    BY <1>0, <1>18 DEF CompareWord, At, Position, HostType, board
  <2>2. \/ host' = NoHost /\ percent' = 0
        \/ /\ host'.loaded = host.loaded /\ host'.file = host.file /\ host'.op = host.op
           /\ host'.pc \in {"compare", "verify"}
           /\ (percent' = percent \/ percent' = Percent(host.file, host.page))
    BY <1>0, <1>18 DEF CompareWord, NextPage, Exit, Quiet, HostType, At
  <2>3. Percent(host.file, host.page) # 100
    BY <2>1, PercentBelow
  <2>4. host.op = "reflash" => host.loaded
    BY <1>j, <2>1 DEF Loaded, Verifying
  <2> QED
    BY <1>j, <2>1, <2>2, <2>3, <2>4, Ended, Continued DEF Verifying
<1>19. CASE StopThread \/ CancelThread
  <2>1. \/ host' = NoHost /\ percent' = 0
        \/ /\ host'.loaded = host.loaded /\ host'.file = host.file /\ host'.op = host.op
           /\ host'.pc \in {"cancel", "join"} /\ percent' = percent
    BY <1>0, <1>19 DEF StopThread, CancelThread, Go, HostType
  <2>2. host.pc \in {"stop", "cancel"} /\ flash' = flash /\ unlocked' = unlocked
    BY <1>19 DEF StopThread, CancelThread, At, board
  <2>3. host.pc \in Verifying \/ ~ (host'.pc \in Verifying) \/ host' = NoHost
    BY <2>1, <2>2 DEF Verifying
  <2> QED
    BY <1>j, <2>1, <2>2, <2>3, Ended, Continued DEF Loaded
<1>20. CASE JoinThread \/ Kill
  <2>1. host' = NoHost /\ percent' = 0
    BY <1>20 DEF JoinThread, Kill, Exit
  <2> QED
    BY <2>1, Ended
<1>21. CASE Update
  <2>1. UNCHANGED <<host, macro, flash, unlocked, percent>>
    BY <1>21 DEF Update, board
  <2> QED
    BY <1>j, <2>1 DEF Loaded
<1>22. CASE FirmwareStart
  <2>1. UNCHANGED <<host, macro, flash, unlocked, percent>>
    BY <1>22 DEF FirmwareStart, process
  <2> QED
    BY <1>j, <2>1 DEF Loaded
<1>23. CASE FirmwareFetch
  <2>1. UNCHANGED <<host, macro, flash, unlocked, percent>>
    BY <1>23 DEF FirmwareFetch, process
  <2> QED
    BY <1>j, <2>1 DEF Loaded
<1>24. CASE FirmwareFinish
  <2>1. /\ host' = host /\ percent' = percent /\ Busy /\ macro' \in {Ok, Failed}
        /\ unlocked' => unlocked \/ macro = Unlock
        /\ macro = Reset => ~ unlocked'
        /\ macro # Write => flash' = flash
    BY <1>24, Outcome DEF process
  <2>2. host.loaded => macro # Write /\ macro # Unlock
    BY DEF Owned
  <2>3. host.pc = "sleep" => macro = Reset
    BY <2>1, Commands DEF Owned, Busy
  <2>4. (host.loaded =>
           \A p \in Pages(host.file) : p < job.done \/ ~ job.cut => flash[p] = PageOf(host.file, p))'
    BY <1>j, <2>1, <2>2 DEF Loaded
  <2>5. (host.loaded /\ host.pc = "sleep" /\ macro = Ok => ~ unlocked)'
    BY <2>1, <2>3
  <2>6. (host.loaded /\ host.pc \notin {"reset", "sleep"} => ~ unlocked)'
    BY <1>j, <2>1, <2>2 DEF Loaded
  <2> QED
    BY <1>j, <2>1, <2>4, <2>5, <2>6 DEF Loaded
<1>25. CASE UNCHANGED vars
  <2>1. UNCHANGED <<host, macro, flash, unlocked, percent>>
    BY <1>25 DEF vars, board, process
  <2> QED
    BY <1>j, <2>1 DEF Loaded
<1> QED
  BY <1>1, <1>2, <1>3, <1>4, <1>5, <1>6, <1>7, <1>8, <1>9, <1>10, <1>11, <1>12, <1>13, <1>14,
     <1>15, <1>16, <1>17, <1>18, <1>19, <1>20, <1>21, <1>22, <1>23, <1>24, <1>25
     DEF Next, Begin, Main, Firmware

-----------------------------------------------------------------------------
(* The theorems.                                                             *)

Inv == /\ TypeOK /\ Position /\ Executes /\ Owned
       /\ JobMatches /\ Stored /\ Writing /\ Written /\ PagesInOrder
       /\ Compared /\ Loaded

LEMMA InitInv == Init => Inv
<1> SUFFICES ASSUME Init PROVE Inv
  OBVIOUS
<1>1. /\ host = NoHost /\ host.pc = "idle" /\ ~ host.loaded /\ percent = 0 /\ macro = Ok
      /\ job = NoJob /\ flash = NoJob.base
  BY DEF Init, NoProcess, NoHost, NoJob
<1>2. Owned
  BY <1>1, Commands DEF Owned
<1>3. JobMatches /\ Stored /\ Writing /\ Written /\ Compared
  BY <1>1, Commands DEF JobMatches, Stored, Writing, Written, Compared
<1>4. PagesInOrder
  <2>1. job.done = 0 /\ \A p \in PageNo : ~ (p < 0)
    BY <1>1 DEF NoJob, PageNo
  <2>2. \A p \in PageNo : flash[p] = job.base[p]
    BY <1>1
  <2> QED
    BY <2>1, <2>2 DEF PagesInOrder
<1>5. Loaded
  BY <1>1 DEF Loaded, Verifying
<1> QED
  BY <1>2, <1>3, <1>4, <1>5, InitTypes DEF Inv

LEMMA InvKept == Inv /\ [Next]_vars => Inv'
BY TypesKept, OwnedKept, JobMatchesKept, StoredKept, WritingKept, WrittenKept, PagesKept, ComparedKept,
   LoadedKept DEF Inv

LEMMA Invariant == Spec => []Inv
BY InitInv, InvKept, PTL DEF Spec

\* Whatever failed, was refused or was killed, and wherever, the flash memory
\* holds whole pages of the last image in order, then what was there before.
THEOREM OrderKept == Spec => []PagesInOrder
<1>1. Inv => PagesInOrder
  BY DEF Inv
<1> QED
  BY <1>1, Invariant, PTL

\* v545_load_flash() succeeds, and v545_reflash reports 100 percent, only when
\* every page that was read is in the flash memory and the memory is locked
\* again; these are the whole image unless a read of the file failed.
THEOREM TrueLoad == Spec => []LoadIsTrue
<1>1. Inv => LoadIsTrue
  BY DEF Inv, Loaded, LoadIsTrue, At
<1> QED
  BY <1>1, Invariant, PTL

\* v545_verify_flash() has passed over a page only if the flash memory holds it.
THEOREM TrueVerify == Spec => []VerifyIsTrue
<1>1. Inv => VerifyIsTrue
  BY DEF Inv, Compared, VerifyIsTrue, At
<1> QED
  BY <1>1, Invariant, PTL

=============================================================================
