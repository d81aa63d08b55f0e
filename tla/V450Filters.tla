------------------------------ MODULE V450Filters ------------------------------
(***************************************************************************)
(* The digital filters and the loop resistance of a V450 analog input      *)
(* board (lib/v450_utils/v450_utils.c): v450_config_tc_chnl() and          *)
(* v450_execute_macro().                                                   *)
(*                                                                         *)
(* The filter of one channel is changed by reading the codes of all        *)
(* channels with one macro, replacing one, and setting all with another    *)
(* macro; the codes travel in registers that the self test and other       *)
(* macros use too, and that the library writes before it knows whether the *)
(* board is busy.  One action is one register access of the host or one    *)
(* step of the firmware.  A process may be killed at any point: it loses   *)
(* its static variables, and the board finishes what it was told.          *)
(*                                                                         *)
(* The firmware is external; MACRO is used as MacroMailbox describes.      *)
(***************************************************************************)
EXTENDS Integers, FiniteSets

CONSTANTS
  NumChnls,  \* V450_CHNLS_PER_BOARD (16)
  Filter,    \* codes of filters, V450_DF_1_HZ_BW and so on
  NoFilter,  \* V450_DF_NONE
  Other      \* a word that is no filter code

ASSUME FilterAssumption ==
  /\ NumChnls \in Nat \ {0}
  /\ NoFilter \notin Filter
  /\ Other \notin Filter \cup {NoFilter}

VARIABLES
  rom,       \* romrev >= 'E': the board has digital filters
  macro,     \* MACRO: a command, or the outcome of the last one
  param0,    \* PARAM0, a mask of channels
  ext,       \* ext.filt.reg[], shared by filter codes and test results
  fw,        \* what the firmware took for the command it executes
  filt,      \* the filters that are in effect
  res,       \* channels whose RES register holds a measurement
  host,      \* the call in progress
  performed, \* static read_loop_resistance_macro_performed
  goal       \* history: the filters the SET_DFILT under way is to set; Unknown
             \* when the registers were written while the board was busy

vars == <<rom, macro, param0, ext, fw, filt, res, host, performed, goal>>
board == <<rom, macro, param0, ext, fw, filt, res>>

Chnl      == 0..(NumChnls - 1)
Code      == Filter \cup {NoFilter}
Word      == Code \cup {Other}
All(w)    == [c \in Chnl |-> w]
Ok        == "ok"
Failed    == "failed"
SetFilt   == "SET_DFILT"
GetFilt   == "GET_DFILT"
GetAnalog == "GET_AFILT"
Measure   == "MEA_TC_LOOP_RES"
Test      == "FULL_TEST"
TestSome  == "MULT_CHNL_TEST"      \* or SINGLE_CHNL_TEST
Sync      == "SYNC"
Reboot    == "REBOOT"
Command   == {SetFilt, GetFilt, GetAnalog, Measure, Test, TestSome, Sync, Reboot}
Idle      == [pc |-> "idle", op |-> "none", chnl |-> 0, code |-> NoFilter,
              loop |-> FALSE, i |-> 0, clean |-> TRUE, arg |-> All(NoFilter)]
NoTask    == [busy |-> FALSE, mask |-> {}, words |-> All(NoFilter)]
Unknown   == All(Other)

Op == {"none", "config", "direct", "other"}
Pc == {"idle", "get", "getwait", "store", "set", "setwait", "measure", "measurewait", "wait", "sleep"}

TypeOK ==
  /\ rom \in BOOLEAN
  /\ macro \in Command \cup {Ok, Failed}
  /\ param0 \subseteq Chnl
  /\ ext \in [Chnl -> Word]
  /\ fw \in [busy: BOOLEAN, mask: SUBSET Chnl, words: [Chnl -> Word]]
  /\ filt \in [Chnl -> Code]
  /\ res \subseteq Chnl
  /\ host \in [pc: Pc, op: Op, chnl: Chnl, code: Code, loop: BOOLEAN, i: Chnl, clean: BOOLEAN,
              arg: [Chnl -> Word]]
  /\ performed \in BOOLEAN
  /\ goal \in [Chnl -> Word]

Process ==
  /\ host = Idle
  /\ performed = FALSE

Init ==
  /\ rom \in BOOLEAN
  /\ macro = Ok
  /\ param0 = {}
  /\ ext = All(NoFilter)
  /\ fw = NoTask
  /\ filt = All(NoFilter)
  /\ res = {}
  /\ goal = Unknown
  /\ Process

Busy   == macro \in Command
At(pc) == host.pc = pc
Return == host' = Idle
Go(pc) == host' = [host EXCEPT !.pc = pc, !.i = 0]

-----------------------------------------------------------------------------
(* v450_config_tc_chnl().                                                    *)

AfterFilter == IF host.loop THEN Go("measure") ELSE Return

\* The control register is written first and stays as it was written whatever
\* follows.  A board without digital filters refuses one; V450_DF_NONE is not
\* passed on at all.
ConfigTcChnl(chnl, code, loop) ==
  /\ At("idle")
  /\ host' = IF (code # NoFilter /\ ~ rom) \/ (code = NoFilter /\ ~ loop) THEN Idle
             ELSE [Idle EXCEPT !.pc = IF code # NoFilter THEN "get" ELSE "measure",
                               !.op = "config", !.chnl = chnl, !.code = code, !.loop = loop]
  /\ UNCHANGED <<board, performed, goal>>

GetFilters ==
  /\ At("get")
  /\ IF Busy THEN Return /\ UNCHANGED macro
             ELSE Go("getwait") /\ macro' = GetFilt
  /\ UNCHANGED <<rom, param0, ext, fw, filt, res, performed, goal>>

\* Mutant: the codes of the other channels are not copied.
ReplaceAll ==
  /\ At("getwait") /\ ~ Busy
  /\ IF macro = Failed THEN Return
     ELSE host' = [host EXCEPT !.pc = "store", !.arg[host.chnl] = host.code]
  /\ UNCHANGED <<board, performed, goal>>

\* The codes of all channels are copied to the static array digital_filter[],
\* which no later call reads, and this channel's is replaced.
ReplaceOne ==
  /\ At("getwait") /\ ~ Busy
  /\ IF macro = Failed THEN Return
     ELSE host' = [host EXCEPT !.pc = "store", !.arg = [ext EXCEPT ![host.chnl] = host.code]]
  /\ UNCHANGED <<board, performed, goal>>

-----------------------------------------------------------------------------
(* v450_execute_macro().                                                     *)

\* SET_DFILT with an array of the application's.
SetDirect(arg) ==
  /\ At("idle")
  /\ rom
  /\ host' = [Idle EXCEPT !.pc = "store", !.op = "direct", !.arg = arg]
  /\ UNCHANGED <<board, performed, goal>>

\* One code after the other is checked and written, whether the board is busy
\* or not; the first that is none ends the call.
StoreFilter ==
  /\ At("store")
  /\ IF host.arg[host.i] = Other
     THEN Return /\ UNCHANGED <<ext, goal>>
     ELSE /\ ext' = [ext EXCEPT ![host.i] = host.arg[host.i]]
          /\ host' = [host EXCEPT !.clean = @ /\ ~ Busy,
                                  !.i = IF @ = NumChnls - 1 THEN 0 ELSE @ + 1,
                                  !.pc = IF host.i = NumChnls - 1 THEN "set" ELSE "store"]
          /\ goal' = IF macro = SetFilt THEN Unknown ELSE goal
  /\ UNCHANGED <<rom, macro, param0, fw, filt, res, performed>>

SetFilters ==
  /\ At("set")
  /\ IF Busy THEN Return /\ UNCHANGED <<macro, goal>>
     ELSE /\ macro' = SetFilt
          /\ host' = [host EXCEPT !.pc = "setwait", !.i = 0, !.arg = All(NoFilter), !.clean = TRUE]
          /\ goal' = IF ~ host.clean THEN Unknown
                     ELSE IF host.op = "config" THEN [filt EXCEPT ![host.chnl] = host.code]
                     ELSE host.arg
  /\ UNCHANGED <<rom, param0, ext, fw, filt, res, performed>>

\* Mutant: the outcome of the macro is not looked at.
IgnoreOutcome ==
  /\ At("setwait") /\ ~ Busy
  /\ host' = [host EXCEPT !.pc = IF host.loop THEN "measure" ELSE "idle", !.i = 0]
  /\ goal' = Unknown
  /\ UNCHANGED <<board, performed>>

\* A success ends the call or goes on to the measurement; a failure ends it.
FiltersSet ==
  /\ At("setwait") /\ ~ Busy
  /\ IF macro = Failed THEN Return ELSE AfterFilter
  /\ goal' = Unknown
  /\ UNCHANGED <<board, performed>>

\* Mutant: PARAM0 is the channel below.
MeasureWrong ==
  /\ At("measure")
  /\ performed' = TRUE
  /\ IF Busy THEN Return /\ UNCHANGED <<macro, param0>>
     ELSE /\ param0' = {c \in Chnl : c = host.chnl - 1}
          /\ macro' = Measure
          /\ Go("measurewait")
  /\ UNCHANGED <<rom, ext, fw, filt, res, goal>>

\* The flag is set before anything can fail, for all channels.
MeasureLoop ==
  /\ At("measure")
  /\ performed' = TRUE
  /\ IF Busy THEN Return /\ UNCHANGED <<macro, param0>>
     ELSE /\ param0' = {host.chnl}
          /\ macro' = Measure
          /\ Go("measurewait")
  /\ UNCHANGED <<rom, ext, fw, filt, res, goal>>

LoopMeasured ==
  /\ At("measurewait") /\ ~ Busy
  /\ Return
  /\ UNCHANGED <<board, performed, goal>>

\* GET_AFILT writes PARAM0 itself, before the busy test.
GetAnalogFilters(mask) ==
  /\ At("idle")
  /\ mask # {}                      \* refused by the call
  /\ param0' = mask
  /\ IF Busy THEN UNCHANGED <<macro, host>>
     ELSE macro' = GetAnalog /\ Go("wait")
  /\ UNCHANGED <<rom, ext, fw, filt, res, performed, goal>>

\* SYNC, the tests, and GET_DFILT of the application itself.  Some of them pass
\* channels, which are written once the board is found idle.
RunMacro(code, mask) ==
  /\ At("idle")
  /\ ~ Busy
  /\ code = GetFilt => rom
  /\ param0' = IF code \in {Sync, TestSome} THEN mask ELSE param0
  /\ macro' = code
  /\ Go("wait")
  /\ UNCHANGED <<rom, ext, fw, filt, res, performed, goal>>

MacroDone ==
  /\ At("wait") /\ ~ Busy
  /\ Return
  /\ UNCHANGED <<board, performed, goal>>

\* A reboot is not waited for: the call sleeps, longer than the board needs.
RebootBoard ==
  /\ At("idle")
  /\ ~ Busy
  /\ macro' = Reboot
  /\ Go("sleep")
  /\ UNCHANGED <<rom, param0, ext, fw, filt, res, performed, goal>>

Wake ==
  /\ At("sleep") /\ ~ Busy
  /\ Return
  /\ UNCHANGED <<board, performed, goal>>

Kill ==
  /\ host' = Idle
  /\ performed' = FALSE
  /\ UNCHANGED <<board, goal>>

-----------------------------------------------------------------------------
(* The firmware (external).                                                  *)

FirmwareStart ==
  /\ Busy /\ ~ fw.busy
  /\ fw' = [busy |-> TRUE,
            mask |-> IF macro = Measure THEN param0 ELSE {},
            words |-> IF macro = SetFilt THEN ext ELSE All(NoFilter)]
  /\ UNCHANGED <<rom, macro, param0, ext, filt, res, host, performed, goal>>

Succeed ==
  /\ macro' = Ok
  /\ CASE macro = SetFilt   -> /\ fw.words \in [Chnl -> Code]
                               /\ filt' = fw.words
                               /\ UNCHANGED <<ext, res>>
       [] macro = GetFilt   -> ext' = filt /\ UNCHANGED <<filt, res>>
       [] macro = Measure   -> res' = res \cup fw.mask /\ UNCHANGED <<filt, ext>>
       [] macro = Reboot    -> /\ filt' = All(NoFilter)
                               /\ ext' = All(NoFilter)
                               /\ res' = {}
       [] macro \in {GetAnalog, Test, TestSome} -> ext' = All(Other) /\ UNCHANGED <<filt, res>>
       [] macro = Sync      -> UNCHANGED <<filt, ext, res>>

\* A command that fails may have left results in the shared registers.
Fail ==
  /\ macro # Reboot
  /\ macro' = Failed
  /\ ext' \in {ext, All(Other)}
  /\ UNCHANGED <<filt, res>>

FirmwareFinish ==
  /\ fw.busy
  /\ Succeed \/ Fail
  /\ fw' = NoTask
  /\ goal' = IF At("setwait") THEN goal ELSE Unknown
  /\ UNCHANGED <<rom, param0, host, performed>>

-----------------------------------------------------------------------------
Config == \E chnl \in Chnl, code \in Code, loop \in BOOLEAN : ConfigTcChnl(chnl, code, loop)

Next ==
  \/ Config \/ GetFilters \/ ReplaceOne
  \/ \E arg \in [Chnl -> Word] : SetDirect(arg)
  \/ StoreFilter \/ SetFilters \/ FiltersSet
  \/ MeasureLoop \/ LoopMeasured
  \/ \E mask \in SUBSET Chnl : GetAnalogFilters(mask)
  \/ \E code \in {GetFilt, Test, TestSome, Sync}, mask \in SUBSET Chnl : RunMacro(code, mask)
  \/ MacroDone \/ RebootBoard \/ Wake \/ Kill
  \/ FirmwareStart \/ FirmwareFinish

Spec == Init /\ [][Next]_vars

-----------------------------------------------------------------------------
(* Properties.                                                               *)

\* Configuring one channel changes the filter of no other, and setting all sets
\* what was asked, whichever program was killed at whichever point before; but
\* not when the filter registers were written while the board was busy, which
\* v450_execute_macro() does not prevent.
FiltersAsAsked ==
  [][filt' # filt => macro = Reboot \/ goal = Unknown \/ filt' = goal]_vars

\* A call that set filters, and reports no error or goes on to the measurement,
\* has set them.
SuccessIsTrue ==
  [][/\ host.pc = "setwait" /\ goal # Unknown
     /\ host'.pc = "measure" \/ (host'.pc = "idle" /\ macro = Ok)
     => filt = goal /\ (host.op = "config" => filt[host.chnl] = host.code)]_vars

\* When the measurement of a call has ended without an error, it is the one of
\* its channel, and the reading of it will not be refused.
MeasuredIsReadable ==
  At("measurewait") /\ macro = Ok => performed /\ host.chnl \in res

=============================================================================
