----------------------------- MODULE MacroMailbox -----------------------------
(***************************************************************************)
(* The macro mailbox of a VME board: ht_write_macro() in                   *)
(* lib/ht_utils/ht_utils.c, through which the library makes the firmware   *)
(* of a V375, V450, V470 or V545 board execute a command.                  *)
(*                                                                         *)
(* A host process and the firmware share the MACRO register and the PARAM  *)
(* registers behind it.  One action is one bus access of the host, or one  *)
(* step of the firmware; the process may be killed between any two bus     *)
(* accesses and started again, while the board keeps running.              *)
(*                                                                         *)
(* The firmware is not part of the repository; it is modelled from the     *)
(* protocol the host follows (ht_utils.c, lines 80-84).                    *)
(***************************************************************************)
EXTENDS Integers, FiniteSets

CONSTANTS
  Code,       \* macro codes the callers issue; all have bit 15 set (0x84xx)
  ResetCode,  \* those issued with reset_flag = 1
  Error,      \* nonzero words with bit 15 clear: the firmware's error codes
  Ready,      \* the word 0
  Param,      \* values of a parameter
  Registers,  \* number of PARAM registers
  MaxCalls    \* bound: calls of ht_write_macro() in one behaviour

ASSUME MailboxAssumption ==
  /\ ResetCode \subseteq Code
  /\ Code \cap Error = {}
  /\ Ready \notin Code \cup Error
  /\ Registers \in Nat
  /\ MaxCalls \in Nat
  /\ Code # {}
  /\ Param # {}

VARIABLES
  macro,      \* the MACRO register
  param,      \* the PARAM registers
  host,       \* the host's call in progress
  fw,         \* the command the firmware is executing
  calls,      \* number of calls made: the last call's identity
  written,    \* history: identity of the call whose command is in MACRO
  executed,   \* history: the commands the firmware has completed
  returned    \* history: the results the host's calls returned

vars == <<macro, param, host, fw, calls, written, executed, returned>>

Word      == Code \cup Error \cup {Ready}
Params    == [1..Registers -> Param]
Id        == 0..MaxCalls
HostPc    == {"idle", "load", "command", "wait", "settled"}
Call      == [id: Id, code: Code, args: Params, n: 0..Registers]
Execution == [id: Id, code: Code, args: Params, outcome: Word \ Code]
Result    == {"ok", "failed", "refused"}
Return    == [id: Id, code: Code, args: Params, n: 0..Registers, result: Result]

\* The test of bit 15, (*pmacro & 0x8000) != 0.
Busy == macro \in Code

TypeOK ==
  /\ macro \in Word
  /\ param \in Params
  /\ host \in [pc: HostPc, call: Call, i: 1..(Registers + 1)]
  /\ host.pc = "load" => host.i <= host.call.n
  /\ fw \in [busy: BOOLEAN, id: Id, code: Code, args: Params]
  /\ calls \in Id
  /\ written \in Id
  /\ executed \subseteq Execution
  /\ returned \subseteq Return

\* Between calls the host, and between commands the firmware, hold no call.
AnyArgs == CHOOSE a \in Params : TRUE
AnyCode == CHOOSE c \in Code : TRUE
Idle    == [pc |-> "idle", i |-> 1,
            call |-> [id |-> 0, code |-> AnyCode, args |-> AnyArgs, n |-> 0]]
Waiting == [busy |-> FALSE, id |-> 0, code |-> AnyCode, args |-> AnyArgs]

Init ==
  /\ macro = Ready
  /\ param \in Params
  /\ host = Idle
  /\ fw = Waiting
  /\ calls = 0
  /\ written = 0
  /\ executed = {}
  /\ returned = {}

-----------------------------------------------------------------------------
(* The host: ht_write_macro(pmacro, code, args, n, code \in ResetCode).      *)

Outcome(c, result) ==
  [id |-> c.id, code |-> c.code, args |-> c.args, n |-> c.n, result |-> result]

\* The two early returns: the board is busy, or parameters are announced and
\* the pointer to them is null.
Refuse(c, nullParam) ==
  /\ Busy \/ (c.n > 0 /\ nullParam)
  /\ returned' = returned \cup {Outcome(c, "refused")}
  /\ UNCHANGED <<macro, param, host, fw, written, executed>>

\* Mutant: bit 15 of MACRO is not tested.
AcceptBusy(c, nullParam) ==
  /\ ~ (c.n > 0 /\ nullParam)
  /\ host' = [pc |-> IF c.n > 0 THEN "load" ELSE "command", call |-> c, i |-> 1]
  /\ UNCHANGED <<macro, param, fw, written, executed, returned>>

\* The board is ready: go on to the parameters, or directly to the command.
Accept(c, nullParam) ==
  /\ ~ Busy
  /\ ~ (c.n > 0 /\ nullParam)
  /\ host' = [pc |-> IF c.n > 0 THEN "load" ELSE "command", call |-> c, i |-> 1]
  /\ UNCHANGED <<macro, param, fw, written, executed, returned>>

WriteMacro(code, args, n, nullParam) ==
  /\ host.pc = "idle"
  /\ calls < MaxCalls
  /\ calls' = calls + 1
  /\ LET c == [id |-> calls + 1, code |-> code, args |-> args, n |-> n]
     IN  Refuse(c, nullParam) \/ Accept(c, nullParam)

\* Mutant: the loop over the parameters ends one early.
LoadParamShort ==
  /\ host.pc = "load"
  /\ param' = [param EXCEPT ![host.i] = host.call.args[host.i]]
  /\ host' = [host EXCEPT !.i = @ + 1,
                          !.pc = IF host.i >= host.call.n - 1 THEN "command" ELSE "load"]
  /\ UNCHANGED <<macro, fw, calls, written, executed, returned>>

LoadParam ==
  /\ host.pc = "load"
  /\ param' = [param EXCEPT ![host.i] = host.call.args[host.i]]
  /\ host' = [host EXCEPT !.i = @ + 1,
                          !.pc = IF host.i = host.call.n THEN "command" ELSE "load"]
  /\ UNCHANGED <<macro, fw, calls, written, executed, returned>>

\* After a reset command the call returns at once: the board is leaving the bus.
WriteCommand ==
  /\ host.pc = "command"
  /\ macro' = host.call.code
  /\ written' = host.call.id
  /\ IF host.call.code \in ResetCode
     THEN /\ host' = Idle
          /\ returned' = returned \cup {Outcome(host.call, "ok")}
     ELSE /\ host' = [host EXCEPT !.pc = "wait"]
          /\ UNCHANGED returned
  /\ UNCHANGED <<param, fw, calls, executed>>

\* Mutant: the loop waits for the word 0, which a failed command never leaves.
PollZero ==
  /\ host.pc = "wait"
  /\ macro = Ready
  /\ host' = [host EXCEPT !.pc = "settled"]
  /\ UNCHANGED <<macro, param, fw, calls, written, executed, returned>>

\* The polling loop ends: bit 15 is clear.  There is no timeout.
PollReady ==
  /\ host.pc = "wait"
  /\ ~ Busy
  /\ host' = [host EXCEPT !.pc = "settled"]
  /\ UNCHANGED <<macro, param, fw, calls, written, executed, returned>>

\* Mutant: the error code is not looked at.
ReturnOk ==
  /\ host.pc = "settled"
  /\ returned' = returned \cup {Outcome(host.call, "ok")}
  /\ host' = Idle
  /\ UNCHANGED <<macro, param, fw, calls, written, executed>>

\* 50 msec later MACRO is read once more: any word but 0 is an error code.
ReturnResult ==
  /\ host.pc = "settled"
  /\ returned' = returned \cup
       {Outcome(host.call, IF macro # Ready THEN "failed" ELSE "ok")}
  /\ host' = Idle
  /\ UNCHANGED <<macro, param, fw, calls, written, executed>>

\* The process is killed in the middle of a call; the board is not told.
Kill ==
  /\ host.pc # "idle"
  /\ host' = Idle
  /\ UNCHANGED <<macro, param, fw, calls, written, executed, returned>>

-----------------------------------------------------------------------------
(* The firmware (external).                                                  *)

\* It finds a command in MACRO and takes the parameters it finds with it.
FirmwareStart ==
  /\ ~ fw.busy
  /\ Busy
  /\ fw' = [busy |-> TRUE, id |-> written, code |-> macro, args |-> param]
  /\ UNCHANGED <<macro, param, host, calls, written, executed, returned>>

\* It completes the command, leaving 0 or an error code in MACRO.
FirmwareFinish ==
  /\ fw.busy
  /\ \E outcome \in IF fw.code \in ResetCode THEN {Ready} ELSE {Ready} \cup Error :
       /\ macro' = outcome
       /\ executed' = executed \cup
            {[id |-> fw.id, code |-> fw.code, args |-> fw.args, outcome |-> outcome]}
  /\ fw' = Waiting
  /\ UNCHANGED <<param, host, calls, written, returned>>

-----------------------------------------------------------------------------
Host ==
  \/ LoadParam \/ WriteCommand \/ PollReady \/ ReturnResult

Firmware == FirmwareStart \/ FirmwareFinish

Next ==
  \/ \E code \in Code, args \in Params, n \in 0..Registers, nullParam \in BOOLEAN :
       WriteMacro(code, args, n, nullParam)
  \/ Host
  \/ Kill
  \/ Firmware

Spec == Init /\ [][Next]_vars

\* A process that is not killed keeps running (its loop sleeps and polls), and
\* the firmware completes what it is given: the host has no timeout, so it
\* relies on exactly that.
FairSpec == Spec /\ WF_vars(Host) /\ WF_vars(Firmware)

-----------------------------------------------------------------------------
(* Properties.                                                               *)

\* What the board has done for call c: the commands it completed with c's
\* identity, code and first n parameters.
Done(c) ==
  {e \in executed : /\ e.id = c.id
                    /\ e.code = c.code
                    /\ \A k \in 1..c.n : e.args[k] = c.args[k]}

\* Whatever was killed before, the result of ht_write_macro() tells what the
\* board did for this very call: it ran the command once, with the caller's
\* parameters, and "ok" or "failed" is that run's outcome; after a refusal it
\* never runs.  (For a reset, "ok" only promises that the command was written.)
ResultIsOwn ==
  \A r \in returned :
    IF r.result = "refused"
    THEN \A e \in executed : e.id # r.id
    ELSE r.code \in ResetCode \/
         /\ \E e \in Done(r) : (r.result = "ok") <=> (e.outcome = Ready)
         /\ \A e, f \in executed : e.id = r.id /\ f.id = r.id => e = f

\* Steps 1 to 3 of the protocol: from the moment a command is in MACRO until
\* the firmware completes it, no host step changes MACRO or a PARAM register,
\* not even one of a process restarted after a kill.
BoardUndisturbed ==
  [][Busy => param' = param /\ (macro' = macro \/ FirmwareFinish)]_vars

\* A call that is not killed returns: the unbounded polling loop ends because
\* the firmware completes every command, with or without an error.
CallReturns == host.pc # "idle" ~> host.pc = "idle"

\* A reset whose call has already returned is carried out all the same.
ResetHappens ==
  \A id \in 1..MaxCalls :
    (\E r \in returned : r.id = id /\ r.result = "ok") ~>
    (\E e \in executed : e.id = id)

Service ==
  INSTANCE MacroService WITH executed <- executed, returned <- returned

\* The register protocol implements the one-step service of MacroService.
ImplementsService == Service!Spec

=============================================================================
