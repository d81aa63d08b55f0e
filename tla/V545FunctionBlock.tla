--------------------------- MODULE V545FunctionBlock ---------------------------
(***************************************************************************)
(* Configuring a function block of a V545 board: the v545_config_* calls   *)
(* of lib/v545_utils/v545_utils.c and v545_write_function_code(), which    *)
(* hands the settings to the firmware and waits for its verdict.           *)
(*                                                                         *)
(* Host and firmware share the FUN, OPR and STS registers and the settings *)
(* of the block.  One action is one register access of the host or one     *)
(* step of the firmware; the process may be killed in between.  Blocks do  *)
(* not share registers, so one is modelled.                                *)
(*                                                                         *)
(* The firmware (external) is modelled from what the library relies on: it *)
(* takes the settings when it finds a code in FUN and INIT in OPR, answers *)
(* in STS and OPR, and drops a block whose FUN it finds at 0.              *)
(***************************************************************************)
EXTENDS Integers

CONSTANTS
  Code,        \* function codes the application configures
  Value,       \* values of a setting
  Cleared,     \* the value 0
  Left,        \* no value: the call does not write the setting
  NumSettings, \* settings a configuration has to do with
  Status,      \* words the firmware leaves in STS, each the set of its bits
  MaxPolls     \* polls of OPR until the call gives up (50, one each 0.1 s)

AllCodes == {"lvdt_rvdt_input", "lvdt_rvdt_output",
             "synchro_resolver_input", "synchro_resolver_output"}
LVDT     == {"lvdt_rvdt_input", "lvdt_rvdt_output"}
Waits    == {"synchro_resolver_output"}                      \* 2 ms after FUN = 0
Moves    == {"lvdt_rvdt_output", "synchro_resolver_output"}  \* start at a position
Bits     == {"init_complete", "override_active", "config_error", "excitation_error",
             "signal_error"}

ASSUME FunctionBlockAssumption ==
  /\ Code \subseteq AllCodes /\ Code # {}
  /\ Cleared \in Value /\ Left \notin Value
  /\ NumSettings \in Nat \ {0}
  /\ Status \subseteq SUBSET Bits
  /\ MaxPolls \in Nat \ {0}

VARIABLES
  fun,       \* FUN register
  opr,       \* OPR register
  sts,       \* STS register
  settings,  \* settings (FLG, the fields of CPnn, HSn, ...)
  fw,        \* the initialisation the firmware is performing
  active,    \* what the firmware last initialised the block with
  host,      \* the call in progress
  result,    \* what the last call returned
  submitted  \* history: the last request INIT was written for

vars == <<fun, opr, sts, settings, fw, active, host, result, submitted>>

Setting == 1..NumSettings
CoilB   == NumSettings
Taken   == [code: Code, values: [Setting -> Value]]
Blank   == [code |-> "none", values |-> [s \in Setting |-> Cleared]]

\* With open wiring, the LVDT calls leave coil B as it is.
Request ==
  {r \in [code: Code, values: [Setting -> Value \cup {Left}]] :
     \A s \in Setting : r.values[s] = Left => s = CoilB /\ r.code \in LVDT}

\* The board holds a request, if it holds what the request writes.
Holds(held, request) ==
  /\ held.code = request.code
  /\ \A s \in Setting : request.values[s] \in {held.values[s], Left}

HostPc == {"idle", "stop_fun", "stop_opr", "wait", "settings",
           "clear_fun", "clear_opr", "code", "init", "poll", "status", "move",
           "drop_opr", "drop_settings"}

TypeOK ==
  /\ fun \in Code \cup {"none"}
  /\ opr \in {"idle", "init", "move"}
  /\ sts \in SUBSET Bits
  /\ settings \in [Setting -> Value]
  /\ fw \in [busy: BOOLEAN, request: Taken \cup {Blank}]
  /\ active \in Taken \cup {Blank}
  /\ host \in [pc: HostPc, request: Request \cup {Blank}, next: 1..(NumSettings + 1),
               polls: 0..MaxPolls]
  /\ result \in {"none", "ok", "timeout", "failed"}
  /\ submitted \in Request \cup {Blank}

Idle == [pc |-> "idle", request |-> Blank, next |-> 1, polls |-> 0]

Init ==
  /\ fun = "none"
  /\ opr = "idle"
  /\ sts = {}
  /\ settings = Blank.values
  /\ fw = [busy |-> FALSE, request |-> Blank]
  /\ active = Blank
  /\ host = Idle
  /\ result = "none"
  /\ submitted = Blank

-----------------------------------------------------------------------------
(* The host.                                                                 *)

\* Mutant: the block is not stopped before its settings are changed.
ConfigRunning(request) ==
  /\ host.pc = "idle"
  /\ host' = [Idle EXCEPT !.pc = "settings", !.request = request]
  /\ UNCHANGED <<fun, opr, sts, settings, fw, active, result, submitted>>

\* A v545_config_* call whose arguments are in range.
Config(request) ==
  /\ host.pc = "idle"
  /\ host' = [Idle EXCEPT !.pc = "stop_fun", !.request = request]
  /\ UNCHANGED <<fun, opr, sts, settings, fw, active, result, submitted>>

WriteFun(at, code, then) ==
  /\ host.pc = at
  /\ fun' = code
  /\ host' = [host EXCEPT !.pc = then]
  /\ UNCHANGED <<opr, sts, settings, fw, active, result, submitted>>

WriteOpr(at, operation, then) ==
  /\ host.pc = at
  /\ opr' = operation
  /\ host' = [host EXCEPT !.pc = then]
  /\ UNCHANGED <<fun, sts, settings, fw, active, result>>

Stop ==
  \/ WriteFun("stop_fun", "none", "stop_opr")
  \/ /\ WriteOpr("stop_opr", "idle",
                 IF host.request.code \in Waits THEN "wait" ELSE "settings")
     /\ UNCHANGED submitted

\* Mutant: no pause.
NoWait ==
  /\ host.pc = "wait"
  /\ host' = [host EXCEPT !.pc = "settings"]
  /\ UNCHANGED <<fun, opr, sts, settings, fw, active, result, submitted>>

\* usleep(2000), "from manual: Wait at least one millisecond": the firmware has
\* found FUN at 0 and dropped what it was doing.
Wait ==
  /\ host.pc = "wait"
  /\ ~ fw.busy
  /\ host' = [host EXCEPT !.pc = "settings"]
  /\ UNCHANGED <<fun, opr, sts, settings, fw, active, result, submitted>>

WriteSetting ==
  /\ host.pc = "settings"
  /\ settings' = [settings EXCEPT ![host.next] =
                    IF host.request.values[host.next] = Left THEN @
                    ELSE host.request.values[host.next]]
  /\ host' = [host EXCEPT !.next = @ + 1,
                          !.pc = IF host.next = NumSettings THEN "clear_fun" ELSE "settings"]
  /\ UNCHANGED <<fun, opr, sts, fw, active, result, submitted>>

\* v545_write_function_code(), up to the request to initialise.
WriteFunctionCode ==
  \/ WriteFun("clear_fun", "none", "clear_opr")
  \/ WriteOpr("clear_opr", "idle", "code") /\ UNCHANGED submitted
  \/ WriteFun("code", host.request.code, "init")
  \/ WriteOpr("init", "init", "poll") /\ submitted' = host.request

Return(what) ==
  /\ host' = Idle
  /\ result' = what
  /\ UNCHANGED <<fun, sts, settings, fw, active, submitted>>

\* Mutant: the time spent is not added up.
PollForever ==
  /\ host.pc = "poll"
  /\ opr # "idle"
  /\ host.polls < MaxPolls
  /\ UNCHANGED vars

Poll ==
  /\ host.pc = "poll"
  /\ opr # "idle"
  /\ host.polls < MaxPolls
  /\ host' = [host EXCEPT !.polls = @ + 1]
  /\ UNCHANGED <<fun, opr, sts, settings, fw, active, result, submitted>>

\* The loop ends: OPR is idle or the time is up; then only the time is asked.
PollEnds ==
  /\ host.pc = "poll"
  /\ opr = "idle" \/ host.polls = MaxPolls
  /\ IF host.polls = MaxPolls
     THEN Return("timeout") /\ UNCHANGED opr
     ELSE /\ host' = [host EXCEPT !.pc = "status"]
          /\ UNCHANGED <<fun, opr, sts, settings, fw, active, result, submitted>>

\* Mutant: a status with further bits set is accepted.
ReadStatusLoosely ==
  /\ host.pc = "status"
  /\ IF "init_complete" \notin sts
     THEN Return("failed") /\ UNCHANGED opr
     ELSE IF host.request.code \in Moves
          THEN /\ host' = [host EXCEPT !.pc = "move"]
               /\ UNCHANGED <<fun, opr, sts, settings, fw, active, result, submitted>>
          ELSE Return("ok") /\ UNCHANGED opr

\* The tests of single bits come first, but whatever they say, every word but
\* INIT_COMPLETE alone ends in -1.
ReadStatus ==
  /\ host.pc = "status"
  /\ IF sts # {"init_complete"}
     THEN Return("failed") /\ UNCHANGED opr
     ELSE IF host.request.code \in Moves
          THEN /\ host' = [host EXCEPT !.pc = "move"]
               /\ UNCHANGED <<fun, opr, sts, settings, fw, active, result, submitted>>
          ELSE Return("ok") /\ UNCHANGED opr

\* An output starts at its initial position.
StartMove ==
  /\ host.pc = "move"
  /\ opr' = "move"
  /\ Return("ok")

\* v545_clear_function_block(): FUN first, then OPR and the settings; an
\* unconfigured block is refused.
ClearFunctionBlock ==
  /\ host.pc = "idle"
  /\ fun # "none"
  /\ fun' = "none"
  /\ host' = [Idle EXCEPT !.pc = "drop_opr"]
  /\ UNCHANGED <<opr, sts, settings, fw, active, result, submitted>>

ClearRest ==
  \/ WriteOpr("drop_opr", "idle", "drop_settings") /\ UNCHANGED submitted
  \/ /\ host.pc = "drop_settings"
     /\ settings' = [settings EXCEPT ![host.next] = Cleared]
     /\ IF host.next = NumSettings THEN host' = Idle /\ result' = "ok"
        ELSE host' = [host EXCEPT !.next = @ + 1] /\ UNCHANGED result
     /\ UNCHANGED <<fun, opr, sts, fw, active, submitted>>

Kill ==
  /\ host.pc # "idle"
  /\ host' = Idle
  /\ result' = "none"
  /\ UNCHANGED <<fun, opr, sts, settings, fw, active, submitted>>

-----------------------------------------------------------------------------
(* The firmware (external).                                                  *)

Drop ==
  /\ fun = "none"
  /\ fw.busy \/ active # Blank
  /\ fw' = [busy |-> FALSE, request |-> Blank]
  /\ active' = Blank
  /\ UNCHANGED <<fun, opr, sts, settings, host, result, submitted>>

Take ==
  /\ ~ fw.busy
  /\ fun # "none"
  /\ opr = "init"
  /\ fw' = [busy |-> TRUE, request |-> [code |-> fun, values |-> settings]]
  /\ UNCHANGED <<fun, opr, sts, settings, active, host, result, submitted>>

Finish ==
  /\ fw.busy
  /\ \E status \in Status :
       /\ sts' = status
       /\ active' = IF "init_complete" \in status THEN fw.request ELSE Blank
  /\ opr' = "idle"
  /\ fw' = [busy |-> FALSE, request |-> Blank]
  /\ UNCHANGED <<fun, settings, host, result, submitted>>

-----------------------------------------------------------------------------
Host ==
  \/ Stop \/ Wait \/ WriteSetting \/ WriteFunctionCode
  \/ Poll \/ PollEnds \/ ReadStatus \/ StartMove
  \/ ClearRest

Firmware == Drop \/ Take \/ Finish

Next ==
  \/ \E request \in Request : Config(request)
  \/ ClearFunctionBlock
  \/ Host
  \/ Kill
  \/ Firmware

Spec == Init /\ [][Next]_vars

\* The process keeps running, and the firmware looks at FUN every millisecond.
\* Nothing is assumed about an initialisation ever finishing.
FairSpec == Spec /\ WF_vars(Host) /\ WF_vars(Drop)

-----------------------------------------------------------------------------
(* Properties.                                                               *)

\* A call that waits for the block to stop and then finds INIT_COMPLETE finds
\* the outcome of its own request: the block runs with this call's code and
\* settings, not with those of a call that was killed or timed out before.
SuccessIsOwn ==
  host.pc = "move" /\ host.request.code \in Waits => Holds(active, host.request)

\* The firmware never takes settings while a call is changing them: whatever it
\* takes is what was last submitted, as a whole (but for a coil B that the
\* request leaves to an earlier one).
BoardTakesWhole ==
  [][Take => Holds([code |-> fun, values |-> settings], submitted)]_vars

\* A block that reports an error bit is not set in motion.
NoMoveOnError ==
  [][opr' = "move" => sts = {"init_complete"}]_vars

\* A configuration returns even if the firmware never finishes initialising.
ConfigReturns == host.pc # "idle" ~> host.pc = "idle"

=============================================================================
