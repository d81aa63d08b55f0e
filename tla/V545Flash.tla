------------------------------- MODULE V545Flash -------------------------------
(***************************************************************************)
(* The flash update of a V545 board: v545_load_flash(),                    *)
(* v545_verify_flash() and their macros (lib/v545_utils/v545_utils.c), and *)
(* the program that uses them (user/v545/v545_reflash.c).                  *)
(*                                                                         *)
(* An image travels page by page through the register file that also holds *)
(* the targets of the override blocks.  One action is one register access  *)
(* of the program, one step of its progress thread or one step of the      *)
(* firmware.  The program may be killed at any point and started again, or *)
(* another one started, while the board finishes what it was told; two     *)
(* programs never run at once.  exit() ends the thread too.                *)
(*                                                                         *)
(* The firmware is external; MACRO is used as MacroMailbox describes.      *)
(***************************************************************************)
EXTENDS Integers, Sequences

CONSTANTS
  NumWords,   \* words of a page and of the register file (64)
  NumPages,   \* pages of the flash memory
  Word,       \* contents of a word
  Zero,       \* the word 0, with which the last page of an image is filled up
  File        \* images: the pages, and the size in bytes

PageBytes == 2 * NumWords
Page      == [1..NumWords -> Word]
Blank     == [w \in 1..NumWords |-> Zero]
Taken     == UNION {[1..n -> Word] : n \in 0..NumWords}  \* part of a page

ASSUME FlashAssumption ==
  /\ NumWords \in Nat \ {0}
  /\ NumPages \in Nat \ {0}
  /\ Zero \in Word
  /\ File # {}
  /\ \A f \in File : /\ f.pages \in Seq(Page)
                     /\ Len(f.pages) <= NumPages
                     /\ f.bytes \in Nat
                     /\ Len(f.pages) = (f.bytes + PageBytes - 1) \div PageBytes

VARIABLES
  macro,     \* MACRO: a command, or the outcome of the last one
  param0,    \* PARAM0: a page number
  regfile,   \* the register file
  linked,    \* its words that override blocks point to
  armed,     \* some override block's FUN register is not 0
  flash,     \* the pages of the image in flash memory
  unlocked,  \* the flash memory may be written
  fw,        \* the page of the command that is executed, and the words read of it
  host,      \* the program: where it is, its options and the position in the file
  thread,    \* its progress thread
  active,    \* thread_active
  percent,   \* percent_complete
  job        \* history: the last load, whether its file was cut short by a read
             \* error, and the flash memory before it

board   == <<macro, param0, regfile, linked, armed, flash, unlocked, fw>>
process == <<host, thread, active, percent>>
vars    == <<board, process, job>>

Ok       == "ok"
Failed   == "failed"
Reset    == "RESET"
Unlock   == "FLASH_UNLOCK"
Write    == "FLASH_WRITE"
Read     == "READ_FLASH"
Checksum == "FLASH_CHECKSUM"
Command  == {Reset, Unlock, Write, Read, Checksum}
PageNo   == 0..(NumPages - 1)
AnyFile  == CHOOSE f \in File : TRUE
NoTask   == [busy |-> FALSE, page |-> 0, words |-> << >>]
NoHost   == [pc |-> "idle", op |-> "none", file |-> AnyFile, page |-> 0, word |-> 1,
             loaded |-> FALSE, info |-> FALSE, verify |-> FALSE]
NoJob    == [file |-> AnyFile, base |-> [p \in PageNo |-> Blank], done |-> 0, cut |-> FALSE,
             torn |-> FALSE]

\* The pages of a file are numbered from 0, as num_page is.
PageOf(f, p) == f.pages[p + 1]
Pages(f)     == 0..(Len(f.pages) - 1)

Pc == {"idle", "reset", "sleep", "sum", "sumwait", "clear", "create", "activate", "unlock",
       "unlockwait", "load", "store", "write", "writewait", "verify", "read", "readwait",
       "compare", "stop", "cancel", "join"}

TypeOK ==
  /\ macro \in Command \cup {Ok, Failed}
  /\ param0 \in PageNo
  /\ regfile \in Page
  /\ linked \subseteq 1..NumWords
  /\ armed \in BOOLEAN
  /\ flash \in [PageNo -> Page]
  /\ unlocked \in BOOLEAN
  /\ fw.busy \in BOOLEAN /\ fw.page \in PageNo
  /\ fw.words \in Taken
  /\ host \in [pc: Pc, op: {"none", "reflash", "call"}, file: File, page: 0..NumPages,
               word: 1..NumWords, loaded: BOOLEAN, info: BOOLEAN, verify: BOOLEAN]
  /\ thread \in {"none", "runs", "ended"}
  /\ active \in BOOLEAN
  /\ percent \in 0..100
  /\ job \in [file: File, base: [PageNo -> Page], done: 0..NumPages, cut: BOOLEAN,
              torn: BOOLEAN]

NoProcess ==
  /\ host = NoHost
  /\ thread = "none"
  /\ active = FALSE
  /\ percent = 0

Init ==
  /\ macro = Ok
  /\ param0 = 0
  /\ regfile = Blank
  /\ linked = {}
  /\ armed = FALSE
  /\ flash = [p \in PageNo |-> Blank]
  /\ unlocked = FALSE
  /\ fw = NoTask
  /\ job = NoJob
  /\ NoProcess

Busy    == macro \in Command
At(pc)  == host.pc = pc
Go(pc)  == host' = [host EXCEPT !.pc = pc, !.word = 1]
Exit    == host' = NoHost /\ thread' = "none" /\ active' = FALSE /\ percent' = 0
Quiet   == UNCHANGED <<thread, active, percent>>
Running == host.op = "reflash"

-----------------------------------------------------------------------------
(* ht_write_macro() and v545_execute_macro().                                *)

\* A busy board refuses.  Any failure ends the program: main() and the callers
\* exit, or print the address -1 that v545_sprintf_checksum_flash() returns.
Issue(code, wait) ==
  IF Busy
  THEN Exit /\ UNCHANGED macro
  ELSE Go(wait) /\ Quiet /\ macro' = code

\* FLASH_WRITE and READ_FLASH are refused as long as a block is armed, and
\* take the page number in PARAM0.
IssuePage(code, wait) ==
  IF Busy \/ armed
  THEN Exit /\ UNCHANGED <<macro, param0>>
  ELSE Go(wait) /\ Quiet /\ macro' = code /\ param0' = host.page

\* Mutant: only the word 0 ends the loop.
PolledZero(wait, next) ==
  /\ At(wait) /\ macro = Ok
  /\ next
  /\ UNCHANGED board

Polled(wait, next) ==
  /\ At(wait) /\ ~ Busy
  /\ IF macro = Failed THEN Exit ELSE next
  /\ UNCHANGED board

-----------------------------------------------------------------------------
(* v545_reflash: main() up to the load.                                      *)

\* get_vaddr_for_device() succeeds; after a failure the program exits, or
\* faults at its first access.
Start(file, reset, info, verify) ==
  /\ At("idle")
  /\ host' = [NoHost EXCEPT !.pc = IF reset THEN "reset" ELSE "sum", !.op = "reflash",
                            !.file = file, !.info = info, !.verify = verify]
  /\ UNCHANGED <<board, thread, active, percent, job>>

\* V545_MACRO_RESET is not waited for: the call sleeps 6 sec, longer than the
\* board needs.
ResetBoard ==
  /\ At("reset")
  /\ Issue(Reset, "sleep")
  /\ UNCHANGED <<param0, regfile, linked, armed, flash, unlocked, fw, job>>

\* After a load the percentage is completed, and a call of the load alone ends.
Wake ==
  /\ At("sleep") /\ ~ Busy
  /\ IF Running THEN Go("sum") ELSE host' = NoHost
  /\ percent' = IF host.loaded /\ Running THEN 100 ELSE percent
  /\ UNCHANGED <<board, thread, active, job>>

\* v545_sprintf_checksum_flash(), before and after the load: the debug flag is
\* set from the start.
SumFlash ==
  /\ At("sum")
  /\ Issue(Checksum, "sumwait")
  /\ UNCHANGED <<param0, regfile, linked, armed, flash, unlocked, fw, job>>

FlashSummed ==
  /\ Polled("sumwait",
       IF host.loaded
       THEN /\ host' = [host EXCEPT !.pc = IF host.verify THEN "verify" ELSE "stop", !.page = 0]
            /\ Quiet
       ELSE IF host.info THEN Exit ELSE Go("clear") /\ Quiet)
  /\ UNCHANGED job

\* v545_clear_override_blocks() (V545Override has its steps).  The function
\* blocks play no part.
ClearOverrideBlocks ==
  /\ At("clear")
  /\ armed' = FALSE
  /\ linked' = {}
  /\ regfile' = [w \in 1..NumWords |-> IF w \in linked THEN Zero ELSE regfile[w]]
  /\ Go("create")
  /\ UNCHANGED <<macro, param0, flash, unlocked, fw, thread, active, percent, job>>

CreateThread ==
  /\ At("create")
  /\ thread' = "runs"
  /\ Go("activate")
  /\ UNCHANGED <<board, active, percent, job>>

\* The flag the thread tests is set once the thread runs.
Activate ==
  /\ At("activate")
  /\ active' = TRUE
  /\ Go("unlock")
  /\ UNCHANGED <<board, thread, percent, job>>

-----------------------------------------------------------------------------
(* v545_load_flash().                                                        *)

\* The call from another program, which passes no pointer for the percentage.
CallLoad(file) ==
  /\ At("idle")
  /\ host' = [NoHost EXCEPT !.pc = "unlock", !.op = "call", !.file = file]
  /\ UNCHANGED <<board, thread, active, percent, job>>

\* The file is open, or the call has failed.
UnlockFlash ==
  /\ At("unlock")
  /\ \/ Exit /\ UNCHANGED <<macro, job>>
     \/ /\ Issue(Unlock, "unlockwait")
        /\ job' = IF Busy THEN job
                  ELSE [file |-> host.file, base |-> flash, done |-> 0, cut |-> FALSE,
                        torn |-> FALSE]
  /\ UNCHANGED <<param0, regfile, linked, armed, flash, unlocked, fw>>

FlashUnlocked == Polled("unlockwait", Go("load") /\ Quiet) /\ UNCHANGED job

Percent(f, page) == (page * PageBytes * 100) \div f.bytes

\* Mutant: the loop ends one page early.
LoadPageEarly ==
  /\ At("load")
  /\ IF host.page + 1 \in Pages(host.file)
     THEN Go("store")
     ELSE host' = [host EXCEPT !.pc = "reset", !.loaded = TRUE]
  /\ Quiet
  /\ UNCHANGED <<board, job>>

\* The next page, if there is one.  fread() returns 0 at the end of the file and
\* when the file cannot be read any further, and the load goes on alike.  stdio
\* reads blocks of many pages, so that an error is met between two pages.
LoadPage ==
  /\ At("load")
  /\ \/ /\ host.page \in Pages(host.file)
        /\ Go("store")
        /\ UNCHANGED job
     \/ /\ host' = [host EXCEPT !.pc = "reset", !.loaded = TRUE]
        /\ job' = [job EXCEPT !.cut = host.page \in Pages(host.file)]
  /\ Quiet
  /\ UNCHANGED board

\* The page is stored before anything is known about armed blocks.
StoreWord ==
  /\ At("store")
  /\ regfile' = [regfile EXCEPT ![host.word] = PageOf(host.file, host.page)[host.word]]
  /\ IF host.word < NumWords
     THEN host' = [host EXCEPT !.word = @ + 1] /\ UNCHANGED percent
     ELSE /\ Go("write")
          /\ percent' = IF Running THEN Percent(host.file, host.page) ELSE percent
  /\ UNCHANGED <<macro, param0, linked, armed, flash, unlocked, fw, thread, active, job>>

WritePage ==
  /\ At("write")
  /\ IssuePage(Write, "writewait")
  /\ UNCHANGED <<regfile, linked, armed, flash, unlocked, fw, job>>

\* Mutant: a page that fails does not end the load.
PageWrittenAnyway ==
  /\ At("writewait") /\ ~ Busy
  /\ host' = [host EXCEPT !.pc = "load", !.page = @ + 1, !.word = 1] /\ Quiet
  /\ job' = IF macro = Ok THEN [job EXCEPT !.done = host.page + 1] ELSE job
  /\ UNCHANGED board

\* A page that fails ends the load: the flash memory stays unlocked, and the
\* pages before it stay written.
PageWritten ==
  /\ Polled("writewait",
       host' = [host EXCEPT !.pc = "load", !.page = @ + 1, !.word = 1] /\ Quiet)
  /\ job' = IF macro = Ok THEN [job EXCEPT !.done = host.page + 1] ELSE job

-----------------------------------------------------------------------------
(* v545_verify_flash().                                                      *)

CallVerify(file) ==
  /\ At("idle")
  /\ host' = [NoHost EXCEPT !.pc = "verify", !.op = "call", !.file = file]
  /\ UNCHANGED <<board, thread, active, percent, job>>

\* The file is missing; or there is a page to compare; or fread() returns 0, at the
\* end of the file or at any page when it cannot be read: the pages have been found
\* equal.
VerifyPage ==
  /\ At("verify")
  /\ \/ Exit
     \/ /\ host.page \in Pages(host.file)
        /\ Go("read") /\ Quiet
     \/ IF Running THEN Go("stop") /\ percent' = 100 /\ UNCHANGED <<thread, active>>
        ELSE Exit
  /\ UNCHANGED <<board, job>>

ReadPage ==
  /\ At("read")
  /\ IssuePage(Read, "readwait")
  /\ UNCHANGED <<regfile, linked, armed, flash, unlocked, fw, job>>

PageRead == Polled("readwait", Go("compare") /\ Quiet) /\ UNCHANGED job

NextPage ==
  /\ host' = [host EXCEPT !.pc = "verify", !.page = @ + 1, !.word = 1]
  /\ percent' = IF Running THEN Percent(host.file, host.page) ELSE percent
  /\ UNCHANGED <<thread, active>>

\* Mutant: the last word is not compared.
CompareWordShort ==
  /\ At("compare")
  /\ IF host.word = NumWords THEN NextPage
     ELSE IF regfile[host.word] # PageOf(host.file, host.page)[host.word] THEN Exit
     ELSE host' = [host EXCEPT !.word = @ + 1] /\ Quiet
  /\ UNCHANGED <<board, job>>

CompareWord ==
  /\ At("compare")
  /\ IF regfile[host.word] # PageOf(host.file, host.page)[host.word] THEN Exit
     ELSE IF host.word = NumWords THEN NextPage
     ELSE host' = [host EXCEPT !.word = @ + 1] /\ Quiet
  /\ UNCHANGED <<board, job>>

-----------------------------------------------------------------------------
(* v545_reflash: the end of main(), and the progress thread.                 *)

StopThread ==
  /\ At("stop")
  /\ active' = FALSE
  /\ Go("cancel")
  /\ UNCHANGED <<board, thread, percent, job>>

\* pthread_cancel(): the thread ends in printf() or sleep(), if it still runs.
CancelThread ==
  /\ At("cancel")
  /\ thread' = "ended"
  /\ Go("join")
  /\ UNCHANGED <<board, active, percent, job>>

JoinThread ==
  /\ At("join")
  /\ thread = "ended"
  /\ Exit
  /\ UNCHANGED <<board, job>>

\* update(): it prints percent_complete and sleeps as long as the flag is set;
\* a thread that runs before Activate finds it clear and ends at once.
Update ==
  /\ thread = "runs"
  /\ ~ active
  /\ thread' = "ended"
  /\ UNCHANGED <<board, host, active, percent, job>>

-----------------------------------------------------------------------------
(* Other programs, and the end of one.                                       *)

\* A program that uses override blocks stores a target and arms a block,
\* whether the board is busy or not.
UseOverride(w) ==
  /\ At("idle")
  /\ \E v \in Word \ {Zero} : regfile' = [regfile EXCEPT ![w] = v]
  /\ linked' = linked \cup {w}
  /\ armed' = TRUE
  /\ job' = [job EXCEPT !.torn = @ \/ macro = Write]
  /\ UNCHANGED <<macro, param0, flash, unlocked, fw, process>>

Kill ==
  /\ ~ At("idle")
  /\ Exit
  /\ UNCHANGED <<board, job>>

-----------------------------------------------------------------------------
(* The firmware (external).                                                  *)

FirmwareStart ==
  /\ Busy /\ ~ fw.busy
  /\ fw' = [busy |-> TRUE, page |-> param0, words |-> << >>]
  /\ UNCHANGED <<macro, param0, regfile, linked, armed, flash, unlocked, process, job>>

Fetching == fw.busy /\ macro = Write /\ Len(fw.words) < NumWords

\* A page is taken from the register file word by word.
FirmwareFetch ==
  /\ Fetching
  /\ fw' = [fw EXCEPT !.words = Append(@, regfile[Len(@) + 1])]
  /\ UNCHANGED <<macro, param0, regfile, linked, armed, flash, unlocked, process, job>>

\* A page is written if the memory is unlocked.  A reset locks it and clears
\* the registers.
Succeed ==
  /\ macro' = Ok
  /\ flash' = IF macro = Write THEN [flash EXCEPT ![fw.page] = fw.words] ELSE flash
  /\ unlocked' = (macro = Unlock \/ (unlocked /\ macro # Reset))
  /\ regfile' = CASE macro = Read -> flash[fw.page] [] macro = Reset -> Blank [] OTHER -> regfile
  /\ linked' = IF macro = Reset THEN {} ELSE linked
  /\ armed' = (armed /\ macro # Reset)

Fail ==
  /\ macro # Reset
  /\ macro' = Failed
  /\ UNCHANGED <<flash, unlocked, regfile, linked, armed>>

FirmwareFinish ==
  /\ fw.busy /\ ~ Fetching
  /\ \/ (macro = Write => unlocked) /\ Succeed
     \/ Fail
  /\ fw' = NoTask
  /\ UNCHANGED <<param0, process, job>>

-----------------------------------------------------------------------------
Main ==
  \/ ResetBoard \/ Wake \/ SumFlash \/ FlashSummed \/ ClearOverrideBlocks
  \/ CreateThread \/ Activate
  \/ UnlockFlash \/ FlashUnlocked \/ LoadPage \/ StoreWord \/ WritePage \/ PageWritten
  \/ VerifyPage \/ ReadPage \/ PageRead \/ CompareWord
  \/ StopThread \/ CancelThread \/ JoinThread

Firmware == FirmwareStart \/ FirmwareFetch \/ FirmwareFinish

Begin ==
  \/ \E file \in File, reset, info, verify \in BOOLEAN : Start(file, reset, info, verify)
  \/ \E file \in File : CallLoad(file) \/ CallVerify(file)
  \/ \E w \in 1..NumWords : UseOverride(w)

Next == Begin \/ Main \/ Update \/ Kill \/ Firmware

Spec == Init /\ [][Next]_vars

\* A program that is not killed runs, and the firmware completes what it is
\* given: no call has a timeout.
FairSpec == Spec /\ WF_vars(Main) /\ WF_vars(Firmware)

-----------------------------------------------------------------------------
(* Properties.                                                               *)

\* Whatever failed, was refused or was killed, and wherever: the flash memory
\* holds the pages the last load had written, then at most one page that is
\* either old or new as a whole, then what was there before; unless another
\* program wrote the register file while the board was taking a page from it.
PagesInOrder ==
  \A p \in PageNo :
    IF p \in Pages(job.file) /\ p < job.done THEN flash[p] = PageOf(job.file, p)
    ELSE IF p > job.done \/ p \notin Pages(job.file) THEN flash[p] = job.base[p]
    ELSE flash[p] \in {job.base[p], PageOf(job.file, p)} \/ job.torn

\* v545_load_flash() returns success, and the program reports 100 percent, only
\* when every page it has read is in the flash memory and the board has restarted
\* with it, locked again; and those are all pages of the image unless a read of the
\* file failed, which the code takes for its end.
LoadIsTrue ==
  (host.loaded /\ ~ At("reset") /\ ~ At("sleep")) \/ percent = 100 =>
    /\ \A p \in Pages(host.file) : p < job.done \/ ~ job.cut => flash[p] = PageOf(host.file, p)
    /\ ~ unlocked

\* v545_verify_flash() passes over a page only when it is there.
Verified(f, n) == \A p \in Pages(f) : p < n => flash[p] = PageOf(f, p)
VerifyIsTrue   == At("verify") => Verified(host.file, host.page)

\* Whether the progress thread sees the flag set or is too early for it, and
\* whatever the board refuses, a program that is not killed ends.
ProgramEnds == host.pc # "idle" ~> host.pc = "idle"

=============================================================================
