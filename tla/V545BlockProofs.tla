----------------------- MODULE V545BlockProofs -----------------------
(***************************************************************************)
(* Proofs about V545FunctionBlock, for any codes, settings, status words   *)
(* and number of polls, and about V545Excitation, for any number of DDS    *)
(* channels and coils and whatever channels and frequencies an application *)
(* passes.  The calls that configure an output's function block make its   *)
(* excitation too; the two components share no register and no variable.   *)
(***************************************************************************)
EXTENDS V545FunctionBlock, V545Excitation, TLAPS

\* The next setting of a call that has settings left to write.
Counted ==
  /\ host.pc \in {"stop_fun", "stop_opr", "wait", "drop_opr"} => host.next = 1
  /\ host.pc \in {"settings", "drop_settings"} => host.next \in Setting

Typed == TypeOK /\ Counted

LEMMA TypedHolds == Spec => []Typed
<1> USE FunctionBlockAssumption DEF Setting
<1>1. Blank.values \in [Setting -> Value] /\ Blank.code = "none"
  BY DEF Blank
<1>2. Idle \in [pc: HostPc, request: Request \cup {Blank}, next: 1..(NumSettings + 1),
                polls: 0..MaxPolls]
  BY DEF Idle, HostPc
<1>3. Init => Typed
  BY <1>1, <1>2 DEF Init, Typed, TypeOK, Counted, Idle
<1>4. Typed /\ [Next]_vars => TypeOK'
  <2> SUFFICES ASSUME Typed, [Next]_vars PROVE TypeOK'
    BY DEF Typed
  <2> USE DEF Typed
  <2>1. ASSUME NEW request \in Request, Config(request) PROVE TypeOK'
    BY <1>2, <2>1 DEF Config, TypeOK, HostPc
  <2>2. ASSUME NEW at \in HostPc, NEW code \in Code \cup {"none"}, NEW then \in HostPc,
               WriteFun(at, code, then)
        PROVE  TypeOK'
    BY <2>2 DEF WriteFun, TypeOK
  <2>3. ASSUME NEW at \in HostPc, NEW operation \in {"idle", "init"}, NEW then \in HostPc,
               WriteOpr(at, operation, then), submitted' \in Request \cup {Blank}
        PROVE  TypeOK'
    BY <2>3 DEF WriteOpr, TypeOK
  <2>4. CASE Stop
    BY <2>2, <2>3, <2>4 DEF Stop, HostPc, TypeOK
  <2>5. CASE Wait
    BY <2>5 DEF Wait, TypeOK, HostPc
  <2>6. CASE WriteSetting
    <3>1. host.request.values \in [Setting -> Value \cup {Left}] /\ host.next \in Setting
      BY <1>1, <2>6 DEF WriteSetting, Counted, TypeOK, Request
    <3>2. settings' \in [Setting -> Value]
      BY <2>6, <3>1 DEF WriteSetting, TypeOK
    <3>3. host' \in [pc: HostPc, request: Request \cup {Blank}, next: 1..(NumSettings + 1),
                     polls: 0..MaxPolls]
      <4>1. host.next + 1 \in 1..(NumSettings + 1)
        BY <3>1
      <4>2. (IF host.next = NumSettings THEN "clear_fun" ELSE "settings") \in HostPc
        BY DEF HostPc
      <4> QED
        BY <2>6, <4>1, <4>2 DEF WriteSetting, TypeOK
    <3> QED
      BY <2>6, <3>2, <3>3 DEF WriteSetting, TypeOK
  <2>7. CASE WriteFunctionCode
    <3>1. host.request.code \in Code \cup {"none"}
      BY <1>1 DEF TypeOK, Request
    <3> QED
      BY <2>2, <2>3, <2>7, <3>1 DEF WriteFunctionCode, HostPc, TypeOK
  <2>8. ASSUME NEW what \in {"ok", "timeout", "failed"}, Return(what),
               opr' \in {"idle", "init", "move"}
        PROVE  TypeOK'
    BY <1>2, <2>8 DEF Return, TypeOK
  <2>9. CASE Poll
    BY <2>9 DEF Poll, TypeOK
  <2>10. CASE PollEnds
    BY <2>8, <2>10 DEF PollEnds, TypeOK, HostPc
  <2>11. CASE ReadStatus
    BY <2>8, <2>11 DEF ReadStatus, TypeOK, HostPc
  <2>12. CASE StartMove
    BY <2>8, <2>12 DEF StartMove
  <2>13. CASE ClearFunctionBlock
    BY <1>2, <2>13 DEF ClearFunctionBlock, TypeOK, HostPc
  <2>19. CASE ClearRest
    <3>1. CASE WriteOpr("drop_opr", "idle", "drop_settings") /\ UNCHANGED submitted
      BY <2>3, <3>1 DEF TypeOK, HostPc
    <3>2. CASE host.pc = "drop_settings"
      <4>1. host.next \in Setting /\ host.next \in Int
        BY <3>2 DEF Counted
      <4>2. settings' \in [Setting -> Value]
        BY <2>19, <3>2, <4>1 DEF ClearRest, WriteOpr, TypeOK
      <4>3. host.next # NumSettings => host.next + 1 \in 1..(NumSettings + 1)
        BY <4>1
      <4>4. /\ host' \in [pc: HostPc, request: Request \cup {Blank}, next: 1..(NumSettings + 1),
                          polls: 0..MaxPolls]
            /\ result' \in {"none", "ok", "timeout", "failed"}
        BY <1>2, <2>19, <3>2, <4>3 DEF ClearRest, WriteOpr, TypeOK
      <4> QED
        BY <2>19, <3>2, <4>2, <4>4 DEF ClearRest, WriteOpr, TypeOK
    <3> QED
      BY <2>19, <3>1, <3>2 DEF ClearRest
  <2>14. CASE Kill
    BY <1>2, <2>14 DEF Kill, TypeOK
  <2>15. CASE Drop
    BY <2>15 DEF Drop, TypeOK
  <2>16. CASE Take
    BY <2>16 DEF Take, TypeOK, Taken
  <2>17. CASE Finish
    BY <2>17 DEF Finish, TypeOK
  <2>18. CASE UNCHANGED vars
    BY <2>18 DEF vars, TypeOK
  <2> QED
    BY <2>1, <2>4, <2>5, <2>6, <2>7, <2>9, <2>10, <2>11, <2>12, <2>13, <2>14, <2>15,
       <2>16, <2>17, <2>18, <2>19 DEF Next, Host, Firmware
<1>5. Typed /\ [Next]_vars => Counted'
  <2> SUFFICES ASSUME Typed, [Next]_vars PROVE Counted'
    BY DEF Typed
  <2> USE DEF Typed
  <2>1. ASSUME NEW request \in Request, Config(request) PROVE Counted'
    BY <2>1 DEF Config, Counted, Idle
  <2>2. CASE Stop
    BY <2>2 DEF Stop, WriteFun, WriteOpr, Counted, TypeOK
  <2>3. CASE Wait
    BY <2>3 DEF Wait, Counted, TypeOK
  <2>4. CASE WriteSetting
    BY <2>4 DEF WriteSetting, Counted, TypeOK
  <2>5. CASE WriteFunctionCode
    BY <2>5 DEF WriteFunctionCode, WriteFun, WriteOpr, Counted, TypeOK
  <2>6. CASE Poll \/ PollEnds \/ ReadStatus \/ StartMove
    BY <2>6 DEF Poll, PollEnds, ReadStatus, StartMove, Return, Idle, Counted, TypeOK
  <2>7. CASE Kill
    BY <2>7 DEF Kill, Idle, Counted
  <2>8. CASE UNCHANGED host
    BY <2>8 DEF Counted
  <2>9. CASE ClearFunctionBlock
    BY <2>9 DEF ClearFunctionBlock, Idle, Counted
  <2>10. CASE ClearRest
    BY <2>10 DEF ClearRest, WriteOpr, Idle, Counted, TypeOK
  <2> QED
    BY <2>1, <2>2, <2>3, <2>4, <2>5, <2>6, <2>7, <2>8, <2>9, <2>10
       DEF Next, Host, Firmware, Drop, Take, Finish, vars
<1> QED
  BY <1>3, <1>4, <1>5, PTL DEF Spec, Typed

\* The registers, the firmware's and the call's state keep their types.
THEOREM TypeCorrect == Spec => []TypeOK
BY TypedHolds, PTL DEF Typed

-----------------------------------------------------------------------------
(* The inductive invariant.  Submission: what the registers hold at each     *)
(* step of a call; while FUN is set and OPR asks for an initialisation, they *)
(* hold a request submitted as a whole.  Verdict: once a call has submitted, *)
(* OPR returns to idle only with the firmware's answer.  Ownership: for a    *)
(* call that waited, that answer is to its own request.                      *)

Requested == [code |-> fun, values |-> settings]

Clearing == {"drop_opr", "drop_settings"}
Stopped  == {"stop_opr", "wait", "settings", "clear_fun", "clear_opr"} \cup Clearing

\* The registers hold what a request writes of this setting.
Written(s) == host.request.values[s] \in {settings[s], Left}

Submission ==
  /\ fun # "none" /\ opr = "init" => Holds(Requested, submitted)
  /\ host.pc \notin {"idle"} \cup Clearing => host.request \in Request
  /\ host.pc \in Stopped \cup {"code"} => fun = "none"
  /\ host.pc \in {"code", "init"} => opr = "idle"
  /\ host.pc = "settings" => \A s \in Setting : s < host.next => Written(s)
  /\ host.pc \in {"clear_fun", "clear_opr", "code"} => \A s \in Setting : Written(s)
  /\ host.pc \in {"init", "poll", "status", "move"} => Holds(Requested, host.request)
  /\ host.pc = "poll" => submitted = host.request

Verdict ==
  /\ host.pc = "poll" => opr = "init" \/ (opr = "idle" /\ ~ fw.busy)
  /\ host.pc \in {"status", "move"} => opr = "idle" /\ ~ fw.busy
  /\ host.pc = "move" => sts = {"init_complete"}
  /\ opr = "move" => sts = {"init_complete"}

Ownership ==
  host.request.code \in Waits =>
    /\ host.pc \in {"settings", "clear_fun", "clear_opr", "code", "init"} => ~ fw.busy
    /\ host.pc = "poll" /\ fw.busy => Holds(fw.request, host.request)
    /\ (host.pc = "poll" /\ opr = "idle") \/ host.pc \in {"status", "move"} =>
         ("init_complete" \in sts => Holds(active, host.request))

IInv == Submission /\ Verdict /\ Ownership

LEMMA NoCode == "none" \notin Code /\ Blank \notin Request
BY FunctionBlockAssumption DEF AllCodes, Blank, Request

LEMMA SubmissionInductive ==
  ASSUME Typed, Typed', IInv, [Next]_vars
  PROVE  Submission'
<1> USE NoCode DEF IInv, Typed
<1>1. ASSUME NEW request \in Request, Config(request) PROVE Submission'
  BY <1>1 DEF Config, Submission, Requested, Stopped, Clearing, Holds, Idle
<1>2. CASE Stop
  BY <1>2 DEF Stop, WriteFun, WriteOpr, Submission, Requested, Holds, Stopped, Clearing, Counted,
              TypeOK, Setting
<1>3. CASE Wait
  BY <1>3 DEF Wait, Submission, Requested, Holds, Stopped, Clearing, Counted, TypeOK, Setting
<1>4. CASE WriteSetting
  <2>1. /\ host.request \in Request /\ fun = "none" /\ fun' = fun /\ opr' = opr
        /\ host'.request = host.request /\ host'.next = host.next + 1
        /\ host'.pc = IF host.next = NumSettings THEN "clear_fun" ELSE "settings"
        /\ UNCHANGED submitted
    BY <1>4 DEF WriteSetting, Submission, Stopped, Clearing, TypeOK
  <2>2. \A s \in Setting : s <= host.next => Written(s)'
    BY <1>4, <2>1 DEF WriteSetting, Written, Submission, TypeOK, Counted, Setting
  <2>3. CASE host.next = NumSettings
    <3>1. \A s \in Setting : Written(s)'
      BY <2>2, <2>3, FunctionBlockAssumption DEF Setting
    <3> QED
      BY <2>1, <2>3, <3>1 DEF Submission, Stopped, Clearing
  <2>4. CASE host.next # NumSettings
    <3>1. \A s \in Setting : s < host.next + 1 => Written(s)'
      BY <2>2 DEF Setting, TypeOK
    <3> QED
      BY <2>1, <2>4, <3>1 DEF Submission, Stopped, Clearing
  <2> QED
    BY <2>3, <2>4
<1>5. CASE WriteFunctionCode
  BY <1>5 DEF WriteFunctionCode, WriteFun, WriteOpr, Submission, Requested, Holds, Written,
              Stopped, Clearing, TypeOK, Request
<1>6. CASE Poll
  BY <1>6 DEF Poll, Submission, Requested, Holds, Stopped, Clearing, TypeOK
<1>7. CASE PollEnds \/ ReadStatus \/ StartMove
  BY <1>7 DEF PollEnds, ReadStatus, StartMove, Return, Idle, Submission, Requested, Holds,
              Stopped, Clearing, TypeOK
<1>8. CASE ClearFunctionBlock
  BY <1>8 DEF ClearFunctionBlock, Submission, Stopped, Clearing, Idle
<1>9. CASE Kill
  BY <1>9 DEF Kill, Idle, Submission, Requested, Holds, Stopped, Clearing
<1>10. CASE Drop \/ Take
  BY <1>10 DEF Drop, Take, Submission, Requested, Holds, Written, Stopped, Clearing
<1>11. CASE Finish
  BY <1>11 DEF Finish, Submission, Requested, Holds, Written, Stopped, Clearing
<1>12. CASE UNCHANGED vars
  BY <1>12 DEF vars, Submission, Requested, Holds, Written, Stopped, Clearing
<1>13. CASE ClearRest
  BY <1>13 DEF ClearRest, WriteOpr, Idle, Submission, Stopped, Clearing, TypeOK
<1> QED
  BY <1>1, <1>2, <1>3, <1>4, <1>5, <1>6, <1>7, <1>8, <1>9, <1>10, <1>11, <1>12, <1>13
     DEF Next, Host, Firmware

LEMMA VerdictInductive ==
  ASSUME Typed, Typed', IInv, [Next]_vars
  PROVE  Verdict'
<1> USE DEF IInv, Typed
<1>1. ASSUME NEW request \in Request, Config(request) PROVE Verdict'
  BY <1>1 DEF Config, Verdict, Idle
<1>2. CASE Stop
  BY <1>2 DEF Stop, WriteFun, WriteOpr, Verdict, TypeOK
<1>3. CASE Wait \/ WriteSetting
  BY <1>3 DEF Wait, WriteSetting, Verdict, TypeOK
<1>4. CASE WriteFunctionCode
  BY <1>4 DEF WriteFunctionCode, WriteFun, WriteOpr, Verdict, TypeOK
<1>5. CASE Poll
  BY <1>5 DEF Poll, Verdict, TypeOK
<1>6. CASE PollEnds \/ ReadStatus \/ StartMove
  BY <1>6 DEF PollEnds, ReadStatus, StartMove, Return, Idle, Verdict, TypeOK
<1>7. CASE ClearFunctionBlock
  BY <1>7 DEF ClearFunctionBlock, Idle, Verdict
<1>8. CASE Kill
  BY <1>8 DEF Kill, Idle, Verdict
<1>9. CASE Drop
  BY <1>9 DEF Drop, Verdict
<1>10. CASE Take
  BY <1>10 DEF Take, Verdict
<1>11. CASE Finish
  BY <1>11 DEF Finish, Verdict
<1>12. CASE UNCHANGED vars
  BY <1>12 DEF vars, Verdict
<1>13. CASE ClearRest
  BY <1>13 DEF ClearRest, WriteOpr, Idle, Verdict, TypeOK
<1> QED
  BY <1>1, <1>2, <1>3, <1>4, <1>5, <1>6, <1>7, <1>8, <1>9, <1>10, <1>11, <1>12, <1>13
     DEF Next, Host, Firmware

LEMMA OwnershipInductive ==
  ASSUME Typed, Typed', IInv, [Next]_vars
  PROVE  Ownership'
<1> USE DEF IInv, Typed
<1>1. ASSUME NEW request \in Request, Config(request) PROVE Ownership'
  BY <1>1 DEF Config, Ownership, Idle
<1>2. CASE Stop
  BY <1>2 DEF Stop, WriteFun, WriteOpr, Ownership, TypeOK
<1>3. CASE Wait \/ WriteSetting
  BY <1>3 DEF Wait, WriteSetting, Ownership, TypeOK
<1>4. CASE WriteFunctionCode
  BY <1>4 DEF WriteFunctionCode, WriteFun, WriteOpr, Ownership, TypeOK
<1>5. CASE Poll
  BY <1>5 DEF Poll, Ownership, TypeOK
<1>6. CASE PollEnds \/ ReadStatus \/ StartMove
  BY <1>6 DEF PollEnds, ReadStatus, StartMove, Return, Idle, Ownership, Verdict, TypeOK
<1>7. CASE ClearFunctionBlock
  BY <1>7 DEF ClearFunctionBlock, Idle, Ownership
<1>8. CASE Kill
  BY <1>8 DEF Kill, Idle, Ownership
<1>9. CASE Drop
  BY <1>9, NoCode DEF Drop, Ownership, Submission, Requested, Holds, Request, Clearing
<1>10. CASE Take
  BY <1>10, NoCode DEF Take, Ownership, Submission, Verdict, Requested, Stopped, Clearing
<1>11. CASE Finish
  BY <1>11 DEF Finish, Ownership, Verdict
<1>12. CASE UNCHANGED vars
  BY <1>12 DEF vars, Ownership
<1>13. CASE ClearRest
  BY <1>13 DEF ClearRest, WriteOpr, Idle, Ownership, TypeOK
<1> QED
  BY <1>1, <1>2, <1>3, <1>4, <1>5, <1>6, <1>7, <1>8, <1>9, <1>10, <1>11, <1>12, <1>13
     DEF Next, Host, Firmware

LEMMA Invariant == Spec => []IInv
<1>1. Init => IInv
  BY DEF Init, Idle, IInv, Submission, Verdict, Ownership, Stopped
<1>2. Typed /\ Typed' /\ IInv /\ [Next]_vars => IInv'
  BY SubmissionInductive, VerdictInductive, OwnershipInductive DEF IInv
<1> QED
  BY <1>1, <1>2, TypedHolds, PTL DEF Spec

\* A call that waited and finds INIT_COMPLETE finds the outcome of its own
\* request, whatever calls were killed or timed out before it.
THEOREM OwnSuccess == Spec => []SuccessIsOwn
<1>1. IInv => SuccessIsOwn
  BY DEF IInv, Verdict, Ownership, SuccessIsOwn
<1> QED
  BY <1>1, Invariant, PTL

\* The firmware takes the settings of one submitted request, never a mixture.
THEOREM TakesWhole == Spec => BoardTakesWhole
<1>1. IInv /\ [Next]_vars => [Take => Holds(Requested, submitted)]_vars
  BY DEF IInv, Submission, Take
<1> QED
  BY <1>1, Invariant, PTL DEF Spec, BoardTakesWhole, Requested

\* A block with an error bit in STS is not set in motion by any of the calls,
\* those without the pause included.
THEOREM QuietOnError == Spec => NoMoveOnError
<1>1. IInv /\ IInv' /\ [Next]_vars => [opr' = "move" => sts = {"init_complete"}]_vars
  <2> SUFFICES ASSUME IInv, Next, opr' = "move" PROVE sts = {"init_complete"}
    OBVIOUS
  <2>1. CASE opr = "move"
    BY <2>1 DEF IInv, Verdict
  <2>2. CASE opr # "move"
    <3>1. StartMove
      BY <2>2 DEF Next, Host, Firmware, Config, Stop, Wait, WriteSetting, WriteFunctionCode,
         WriteFun, WriteOpr, Poll, PollEnds, ReadStatus, Return, ClearFunctionBlock, ClearRest,
         Kill,
         Drop, Take, Finish
    <3> QED
      BY <3>1 DEF StartMove, IInv, Verdict
  <2> QED
    BY <2>1, <2>2
<1> QED
  BY <1>1, Invariant, PTL DEF Spec, NoMoveOnError

-----------------------------------------------------------------------------
(* The excitation.                                                           *)

RequestTyped == call \in [pc: CallPc, coil: Coil, dds: Int, freq: Int]

\* What a call knows: until it has written a frequency it has written nothing,
\* and one that asks for a source of its own has it running before it connects
\* the coil, so that v545_config_ccb() cannot refuse it any more.
RequestProgress ==
  /\ At("dds") => call.freq > 0 /\ Registers = before
  /\ At("ssr") \/ At("mbits") =>
       IF call.freq > 0
       THEN call.dds \in DDS \ {Fixed} /\ dfr[call.dds] # 0
       ELSE At("ssr") => Registers = before
  /\ At("mbits") => Target \in Source /\ Target >= NumCoils

\* Any coil with a DDS channel as its source, excited or not.
Connected ==
  \A c \in Coil, d \in DDS : mbits[c] = DDSSource(d) /\ d # Fixed => dfr[d] # 0

ExcitationInv == ExcitationTypeOK /\ RequestTyped /\ RequestProgress /\ RefusalHarmless

USE ExcitationAssumption

LEMMA ExcitationStarts == ExcitationInit => ExcitationInv /\ Connected
<1> SUFFICES ASSUME ExcitationInit PROVE ExcitationInv /\ Connected
  OBVIOUS
<1>1. 0 \in Coil /\ 0 \in Source
  BY DEF Coil, Source
<1>2. ExcitationTypeOK /\ RequestTyped
  BY <1>1 DEF ExcitationInit, IdleRequest, ExcitationTypeOK, RequestTyped, CallPc, Registers
<1>3. RequestProgress /\ RefusalHarmless
  BY DEF ExcitationInit, IdleRequest, At, RequestProgress, RefusalHarmless
<1>4. Connected
  BY DEF ExcitationInit, Connected, DDSSource, DDS
<1> QED
  BY <1>2, <1>3, <1>4 DEF ExcitationInv

LEMMA ExcitationInductive == ExcitationInv /\ [ExcitationNext]_excitationVars => ExcitationInv'
<1> SUFFICES ASSUME ExcitationInv, [ExcitationNext]_excitationVars PROVE ExcitationInv'
  OBVIOUS
<1> USE DEF ExcitationInv, At, Go, RequestTyped, CallPc, Registers
<1>1. ASSUME NEW c \in Coil, NEW d \in Channel, NEW f \in Frequency, ConfigOutput(c, d, f)
      PROVE  ExcitationInv'
  BY <1>1 DEF ConfigOutput, ExcitationTypeOK, RequestProgress, RefusalHarmless
<1>2. CASE ConfigDDS
  <2>1. CASE call.dds \in DDS \ {Fixed} /\ call.freq <= MaxFrequency
    <3>1. call.freq \in 1..MaxFrequency /\ dfr' = [dfr EXCEPT ![call.dds] = call.freq]
      BY <1>2, <2>1 DEF ConfigDDS, RequestProgress
    <3>2. ExcitationTypeOK' /\ RequestTyped'
      BY <1>2, <2>1, <3>1 DEF ConfigDDS, ExcitationTypeOK
    <3> QED
      BY <1>2, <2>1, <3>1, <3>2 DEF ConfigDDS, ExcitationTypeOK, RequestProgress, RefusalHarmless
  <2>2. CASE ~ (call.dds \in DDS \ {Fixed} /\ call.freq <= MaxFrequency)
    BY <1>2, <2>2 DEF ConfigDDS, ExcitationTypeOK, RequestProgress, RefusalHarmless
  <2> QED
    BY <2>1, <2>2
<1>3. CASE SelectDDS
  <2>1. CASE Target < NumCoils \/ Target >= NumCoils + NumDDS
    <3>1. ~ (call.freq > 0)
      BY <1>3, <2>1 DEF SelectDDS, RequestProgress, Target, DDSSource, DDS
    <3> QED
      BY <1>3, <2>1, <3>1 DEF SelectDDS, ExcitationTypeOK, RequestProgress, RefusalHarmless
  <2>2. CASE ~ (Target < NumCoils \/ Target >= NumCoils + NumDDS)
    <3>1. Target \in Source /\ Target >= NumCoils /\ Target' = Target
      BY <1>3, <2>2 DEF SelectDDS, Target, DDSSource, Source
    <3>2. call' = [call EXCEPT !.pc = "mbits"] /\ UNCHANGED <<dfr, mbits, before>>
          /\ ssr' = [ssr EXCEPT ![call.coil] = TRUE] /\ call.pc = "ssr"
      BY <1>3, <2>2 DEF SelectDDS
    <3>3. ExcitationTypeOK' /\ RequestTyped'
      BY <3>2 DEF ExcitationTypeOK
    <3>4. call'.pc = "mbits" /\ call'.freq = call.freq /\ call'.dds = call.dds
      BY <3>2
    <3>5. RequestProgress'
      BY <3>1, <3>2, <3>4 DEF RequestProgress
    <3>6. RefusalHarmless'
      BY <3>4 DEF RefusalHarmless
    <3> QED
      BY <3>3, <3>5, <3>6
  <2> QED
    BY <2>1, <2>2
<1>4. CASE SelectSource
  <2>1. Target \in Source
    BY <1>4 DEF SelectSource, RequestProgress
  <2> QED
    BY <1>4, <2>1 DEF SelectSource, ExcitationTypeOK, RequestProgress, RefusalHarmless
<1>5. CASE KillRequest
  <2>1. 0 \in Coil
    BY DEF Coil
  <2> QED
    BY <1>5, <2>1 DEF KillRequest, IdleRequest, ExcitationTypeOK, RequestProgress, RefusalHarmless
<1>6. CASE UNCHANGED excitationVars
  BY <1>6 DEF excitationVars, ExcitationTypeOK, RequestProgress, RefusalHarmless, Target
<1> QED
  BY <1>1, <1>2, <1>3, <1>4, <1>5, <1>6 DEF ExcitationNext

LEMMA ExcitationInvariant == ExcitationSpec => []ExcitationInv
<1>1. ExcitationInit => ExcitationInv
  BY ExcitationStarts
<1> QED
  BY <1>1, ExcitationInductive, PTL DEF ExcitationSpec

\* The registers stay in range: v545_config_dds() and v545_config_ccb() check
\* all they are given, for any channels and frequencies.
THEOREM ExcitationTyped == ExcitationSpec => []ExcitationTypeOK
<1>1. ExcitationInv => ExcitationTypeOK
  BY DEF ExcitationInv
<1> QED
  BY <1>1, ExcitationInvariant, PTL

\* A request that v545_config_dds() or v545_config_ccb() refuses has written
\* nothing: what the second would refuse, the first has refused before it wrote.
THEOREM RefusalsHarmless == ExcitationSpec => []RefusalHarmless
<1>1. ExcitationInv => RefusalHarmless
  BY DEF ExcitationInv
<1> QED
  BY <1>1, ExcitationInvariant, PTL

LEMMA StaysConnected ==
  ASSUME \A d \in Channel : d < NumCoils,
         ExcitationInv, call.dds \in Channel \/ call = IdleRequest, Connected,
         [ExcitationNext]_excitationVars
  PROVE  Connected'
<1> USE DEF ExcitationInv, At, Go, RequestTyped, CallPc
<1>1. ASSUME NEW c \in Coil, NEW d \in Channel, NEW f \in Frequency, ConfigOutput(c, d, f)
      PROVE  Connected'
  BY <1>1 DEF ConfigOutput, Connected
<1>2. CASE ConfigDDS
  BY <1>2 DEF ConfigDDS, RequestProgress, ExcitationTypeOK, Connected
<1>3. CASE SelectDDS
  BY <1>3 DEF SelectDDS, Connected
<1>4. CASE SelectSource
  <2>1. call.dds \in Channel
    BY <1>4 DEF SelectSource, IdleRequest
  <2>2. call.freq > 0
    BY <1>4, <2>1 DEF SelectSource, RequestProgress, Target
  <2>3. Target = DDSSource(call.dds) /\ call.dds \in DDS /\ dfr[call.dds] # 0
    BY <1>4, <2>2 DEF SelectSource, RequestProgress, Target
  <2>4. \A d \in DDS : Target = DDSSource(d) => d = call.dds
    BY <2>3 DEF DDSSource, DDS
  <2> QED
    BY <1>4, <2>3, <2>4 DEF SelectSource, ExcitationTypeOK, Connected
<1>5. CASE KillRequest
  BY <1>5 DEF KillRequest, Connected
<1>6. CASE UNCHANGED excitationVars
  BY <1>6 DEF excitationVars, Connected
<1> QED
  BY <1>1, <1>2, <1>3, <1>4, <1>5, <1>6 DEF ExcitationNext

LEMMA PassedChannel ==
  ASSUME call.dds \in Channel \/ call = IdleRequest, ExcitationInv, [ExcitationNext]_excitationVars
  PROVE  (call.dds \in Channel \/ call = IdleRequest)'
<1> USE DEF ExcitationInv, Go, RequestTyped, IdleRequest
<1>1. ASSUME NEW c \in Coil, NEW d \in Channel, NEW f \in Frequency, ConfigOutput(c, d, f)
      PROVE  call'.dds \in Channel
  BY <1>1 DEF ConfigOutput
<1>2. ASSUME ConfigDDS \/ SelectDDS \/ SelectSource
      PROVE  call'.dds = call.dds /\ call # IdleRequest
  BY <1>2 DEF ConfigDDS, SelectDDS, SelectSource, At
<1>3. CASE KillRequest \/ UNCHANGED excitationVars
  BY <1>3 DEF KillRequest, excitationVars
<1> QED
  BY <1>1, <1>2, <1>3 DEF ExcitationNext

\* A coil that is excited from a DDS channel is excited from one that runs,
\* whatever was refused or killed, if no application takes the number of a DDS
\* source for that of a coil when it asks for an external one.
THEOREM CoilsRun ==
  ASSUME \A d \in Channel : d < NumCoils
  PROVE  ExcitationSpec => []ExcitedCoilsRun
<1> DEFINE Passed == call.dds \in Channel \/ call = IdleRequest
<1>1. ExcitationInit => Connected /\ Passed
  BY ExcitationStarts DEF ExcitationInit
<1>2. ExcitationInv /\ Connected /\ Passed /\ [ExcitationNext]_excitationVars =>
        Connected' /\ Passed'
  BY StaysConnected, PassedChannel
<1>3. Connected => ExcitedCoilsRun
  BY DEF Connected, ExcitedCoilsRun
<1> HIDE DEF Passed
<1>4. (Connected /\ Passed) /\ ExcitationInv /\ [ExcitationNext]_excitationVars =>
        (Connected /\ Passed)'
  BY <1>2
<1> QED
  BY <1>1, <1>3, <1>4, ExcitationInvariant, PTL DEF ExcitationSpec

=============================================================================
