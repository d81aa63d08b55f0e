-------------------------- MODULE MacroMailboxProofs --------------------------
(***************************************************************************)
(* Proofs about MacroMailbox, for every set of codes and parameters, every *)
(* number of registers and calls, and any sequence of kills: its types,    *)
(* that a result is the call's own, that a command under execution is not  *)
(* disturbed, and that the protocol implements MacroService.               *)
(***************************************************************************)
EXTENDS MacroMailbox, TLAPS

\* The identities of calls grow, and each phase of a call knows what the
\* board has done with it.
Loading ==
  host.pc \in {"load", "command"} =>
    /\ ~ Busy
    /\ ~ fw.busy
    /\ written # host.call.id
    /\ \A k \in 1..host.call.n :
         (host.pc = "load" => k < host.i) => param[k] = host.call.args[k]

Executing ==
  fw.busy => /\ Busy
             /\ fw.code = macro
             /\ fw.id = written
             /\ fw.args = param

Awaiting ==
  host.pc \in {"wait", "settled"} =>
    /\ host.call.id = written
    /\ host.call.code \notin ResetCode
    /\ host.pc = "settled" => ~ Busy
    /\ IF Busy
       THEN /\ macro = host.call.code
            /\ \A k \in 1..host.call.n : param[k] = host.call.args[k]
       ELSE \E e \in Done(host.call) : e.outcome = macro

Identities ==
  /\ written <= calls
  /\ Busy => written > 0
  /\ \A e \in executed : 0 < e.id /\ e.id <= written
  /\ Busy => \A e \in executed : e.id # written
  /\ \A r \in returned : 0 < r.id /\ r.id <= calls
  /\ host.pc # "idle" =>
       /\ host.call.id = calls
       /\ calls > 0
       /\ \A r \in returned : r.id # host.call.id
  /\ \A e, f \in executed : e.id = f.id => e = f

Results ==
  \A r \in returned :
    /\ r.result = "refused" => r.id # written /\ \A e \in executed : e.id # r.id
    /\ r.result # "refused" /\ r.code \in ResetCode => r.result = "ok"
    /\ r.result # "refused" /\ r.code \notin ResetCode =>
         \E e \in Done(r) : (r.result = "ok") <=> (e.outcome = Ready)

IInv == TypeOK /\ Loading /\ Executing /\ Awaiting /\ Identities /\ Results

-----------------------------------------------------------------------------
LEMMA AnyInSets == AnyCode \in Code /\ AnyArgs \in Params
<1>1. \E c \in Code : TRUE
  BY MailboxAssumption
<1>2. \E p \in Param : TRUE
  BY MailboxAssumption
<1>3. PICK p \in Param : TRUE
  BY <1>2
<1>4. [k \in 1..Registers |-> p] \in Params
  BY DEF Params
<1>5. \E a \in Params : TRUE
  BY <1>4
<1> QED
  BY <1>1, <1>5, Zenon DEF AnyCode, AnyArgs

\* Every variable of the mailbox keeps its type (macro and param hold words the
\* host or the firmware can write, indices stay inside the PARAM registers).
THEOREM TypeCorrect == Spec => []TypeOK
<1> USE MailboxAssumption, AnyInSets
<1>1. Init => TypeOK
  BY DEF Init, TypeOK, Word, Params, Id, HostPc, Call, Idle, Waiting
<1>2. TypeOK /\ [Next]_vars => TypeOK'
  <2> SUFFICES ASSUME TypeOK, [Next]_vars PROVE TypeOK'
    OBVIOUS
  <2>1. ASSUME NEW code \in Code, NEW args \in Params, NEW n \in 0..Registers,
               NEW nullParam \in BOOLEAN, WriteMacro(code, args, n, nullParam)
        PROVE  TypeOK'
    <3> DEFINE c == [id |-> calls + 1, code |-> code, args |-> args, n |-> n]
    <3>1. c \in Call
      BY <2>1 DEF WriteMacro, TypeOK, Word, Params, Id, HostPc, Call
    <3>2. CASE Refuse(c, nullParam)
      BY <2>1, <3>1, <3>2 DEF WriteMacro, Refuse, Outcome, Return, Result, TypeOK, Word, Params, Id, HostPc, Call
    <3>3. CASE Accept(c, nullParam)
      BY <2>1, <3>1, <3>3 DEF WriteMacro, Accept, TypeOK, Word, Params, Id, HostPc, Call
    <3> QED
      BY <2>1, <3>2, <3>3 DEF WriteMacro
  <2>2. CASE LoadParam
    <3>1. /\ host.i \in 1..host.call.n
          /\ host.call.n \in 0..Registers
          /\ host.call.args \in [1..Registers -> Param]
          /\ host.call \in Call
      BY <2>2 DEF LoadParam, TypeOK, Word, Params, Id, HostPc, Call
    <3>2. param' \in Params
      BY <2>2, <3>1 DEF LoadParam, TypeOK, Params
    <3>3. host' = [pc |-> IF host.i = host.call.n THEN "command" ELSE "load",
                   call |-> host.call, i |-> host.i + 1]
      BY <2>2 DEF LoadParam, TypeOK
    <3>4. /\ host' \in [pc: HostPc, call: Call, i: 1..(Registers + 1)]
          /\ host'.pc = "load" => host'.i <= host'.call.n
      BY <3>1, <3>3 DEF HostPc
    <3> QED
      BY <2>2, <3>2, <3>4 DEF LoadParam, TypeOK
  <2>3. CASE WriteCommand
    <3>1. CASE host.call.code \in ResetCode
      BY <2>3, <3>1 DEF WriteCommand, Idle, Outcome, Return, Result, TypeOK, Word, Params, Id, HostPc, Call
    <3>2. CASE host.call.code \notin ResetCode
      BY <2>3, <3>2 DEF WriteCommand, TypeOK, Word, Params, Id, HostPc, Call
    <3> QED
      BY <3>1, <3>2
  <2>4. CASE PollReady
    BY <2>4 DEF PollReady, TypeOK, Word, Params, Id, HostPc, Call
  <2>5. CASE ReturnResult
    BY <2>5 DEF ReturnResult, Idle, Outcome, Return, Result, TypeOK, Word, Params, Id, HostPc, Call
  <2>6. CASE Kill
    BY <2>6 DEF Kill, Idle, TypeOK, Word, Params, Id, HostPc, Call
  <2>7. CASE FirmwareStart
    BY <2>7 DEF FirmwareStart, Busy, TypeOK, Word, Params, Id, HostPc, Call
  <2>8. CASE FirmwareFinish
    BY <2>8 DEF FirmwareFinish, Waiting, Execution, TypeOK, Word, Params, Id, HostPc, Call
  <2>9. CASE UNCHANGED vars
    BY <2>9 DEF vars, TypeOK, Word, Params, Id, HostPc, Call
  <2> QED
    BY <2>1, <2>2, <2>3, <2>4, <2>5, <2>6, <2>7, <2>8, <2>9 DEF Next, Host, Firmware
<1> QED
  BY <1>1, <1>2, PTL DEF Spec

-----------------------------------------------------------------------------
\* IInv is inductive: the firmware's view of MACRO and PARAM, the phase of the
\* host's call and the two histories stay in step.
LEMMA Inductive == IInv /\ TypeOK' /\ [Next]_vars => IInv'
<1> SUFFICES ASSUME IInv, TypeOK', [Next]_vars PROVE IInv'
  OBVIOUS
<1> USE MailboxAssumption DEF IInv
<1>1. ASSUME NEW code \in Code, NEW args \in Params, NEW n \in 0..Registers,
             NEW nullParam \in BOOLEAN, WriteMacro(code, args, n, nullParam)
      PROVE  IInv'
  <2> DEFINE c == [id |-> calls + 1, code |-> code, args |-> args, n |-> n]
  <2> calls \in Nat /\ calls' = calls + 1 /\ host.pc = "idle" /\ written \in Nat
    BY <1>1 DEF WriteMacro, TypeOK, Id
  <2>1. CASE Refuse(c, nullParam)
    <3>1. Loading' /\ Executing' /\ Awaiting'
      BY <2>1 DEF Refuse, Loading, Executing, Awaiting, Busy
    <3>2. Identities'
      BY <2>1 DEF Refuse, Outcome, Identities, Busy, TypeOK, Return, Id
    <3>3. Results'
      BY <2>1 DEF Refuse, Outcome, Identities, Results, Done, TypeOK, Execution, Id
    <3> QED
      BY <3>1, <3>2, <3>3
  <2>2. CASE Accept(c, nullParam)
    <3>1. Loading'
      BY <2>2 DEF Accept, Loading, Executing, Identities, Busy, TypeOK
    <3>2. Executing' /\ Awaiting'
      BY <2>2 DEF Accept, Executing, Awaiting, Busy
    <3>3. Identities'
      BY <2>2 DEF Accept, Identities, Busy, TypeOK, Return, Id
    <3>4. Results'
      BY <2>2 DEF Accept, Results, Done
    <3> QED
      BY <3>1, <3>2, <3>3, <3>4
  <2> QED
    BY <1>1, <2>1, <2>2 DEF WriteMacro
<1>2. CASE LoadParam
  <2>1. Loading'
    <3>1. /\ host.i \in 1..host.call.n
          /\ host.call.n \in 0..Registers
          /\ host'.call = host.call
          /\ host'.i = host.i + 1
          /\ host'.pc = "load" \/ (host'.pc = "command" /\ host.i = host.call.n)
          /\ param \in [1..Registers -> Param]
          /\ param' = [param EXCEPT ![host.i] = host.call.args[host.i]]
      BY <1>2 DEF LoadParam, TypeOK, Call, Params
    <3>2. ASSUME NEW k \in 1..host.call.n, host'.pc = "load" => k < host.i + 1
          PROVE  param'[k] = host.call.args[k]
      <4>1. CASE k = host.i
        BY <3>1, <4>1
      <4>2. CASE k # host.i
        <5>1. k < host.i
          BY <3>1, <3>2, <4>2
        <5> QED
          BY <1>2, <3>1, <4>2, <5>1 DEF LoadParam, Loading
      <4> QED
        BY <4>1, <4>2
    <3> QED
      BY <1>2, <3>1, <3>2 DEF LoadParam, Loading, Busy
  <2>2. Executing' /\ Awaiting'
    BY <1>2 DEF LoadParam, Executing, Awaiting, Loading, Busy, TypeOK
  <2>3. Identities'
    BY <1>2 DEF LoadParam, Identities, Busy, TypeOK
  <2>4. Results'
    BY <1>2 DEF LoadParam, Results, Done
  <2> QED
    BY <2>1, <2>2, <2>3, <2>4
<1>3. CASE WriteCommand
  <2>1. /\ Busy' /\ ~ fw.busy /\ ~ fw'.busy
        /\ written' = host.call.id /\ host.call.id = calls /\ calls \in Nat /\ written \in Nat
        /\ written < written'
        /\ executed' = executed /\ calls' = calls
    BY <1>3 DEF WriteCommand, Loading, Identities, Busy, TypeOK, Id, Call
  <2>2. Loading' /\ Executing'
    BY <1>3, <2>1 DEF WriteCommand, Loading, Executing, Idle, TypeOK
  <2>3. Awaiting'
    BY <1>3, <2>1 DEF WriteCommand, Awaiting, Loading, Idle, TypeOK
  <2>4. Identities'
    BY <1>3, <2>1 DEF WriteCommand, Identities, Idle, Outcome, TypeOK, Execution, Return, Id
  <2>5. Results'
    BY <1>3, <2>1 DEF WriteCommand, Results, Identities, Done, Outcome
  <2> QED
    BY <2>2, <2>3, <2>4, <2>5
<1>4. CASE PollReady
  <2>1. Loading' /\ Executing'
    BY <1>4 DEF PollReady, Loading, Executing, Busy, TypeOK
  <2>2. Awaiting'
    BY <1>4 DEF PollReady, Awaiting, Done, Busy, TypeOK
  <2>3. Identities' /\ Results'
    BY <1>4 DEF PollReady, Identities, Results, Done, Busy, TypeOK
  <2> QED
    BY <2>1, <2>2, <2>3
<1>5. CASE ReturnResult
  <2>1. Loading' /\ Executing' /\ Awaiting'
    BY <1>5 DEF ReturnResult, Loading, Executing, Awaiting, Idle, Busy
  <2>2. Identities'
    BY <1>5 DEF ReturnResult, Identities, Idle, Outcome, Busy, TypeOK, Return, Id
  <2>3. Results'
    <3>1. PICK e \in Done(host.call) : e.outcome = macro
      BY <1>5 DEF ReturnResult, Awaiting
    <3>0. PICK r : r = Outcome(host.call, IF macro # Ready THEN "failed" ELSE "ok")
      OBVIOUS
    <3>2. /\ r.id = host.call.id /\ r.code = host.call.code
          /\ r.args = host.call.args /\ r.n = host.call.n
          /\ r.result = IF macro # Ready THEN "failed" ELSE "ok"
      BY <3>0 DEF Outcome
    <3>3. executed' = executed /\ returned' = returned \cup {r} /\ written' = written
      BY <1>5, <3>0 DEF ReturnResult
    <3>4. e \in Done(r) /\ e \in Done(r)'
      BY <3>1, <3>2, <3>3 DEF Done
    <3>5. (r.result = "ok") <=> (e.outcome = Ready)
      BY <3>1, <3>2
    <3>6. r.result # "refused" /\ r.code \notin ResetCode
      BY <1>5, <3>2 DEF ReturnResult, Awaiting
    <3>7. ASSUME NEW q \in returned'
          PROVE  /\ q.result = "refused" => q.id # written' /\ \A f \in executed' : f.id # q.id
                 /\ q.result # "refused" /\ q.code \in ResetCode => q.result = "ok"
                 /\ q.result # "refused" /\ q.code \notin ResetCode =>
                      \E f \in Done(q)' : (q.result = "ok") <=> (f.outcome = Ready)
      <4>1. CASE q = r
        BY <3>1, <3>4, <3>5, <3>6, <4>1
      <4>2. CASE q \in returned
        BY <3>3, <4>2 DEF Results, Done
      <4> QED
        BY <3>3, <4>1, <4>2
    <3> QED
      BY <3>7 DEF Results
  <2> QED
    BY <2>1, <2>2, <2>3
<1>6. CASE Kill
  BY <1>6 DEF Kill, Loading, Executing, Awaiting, Identities, Results, Done, Idle, Busy
<1>7. CASE FirmwareStart
  <2>1. Loading' /\ Executing' /\ Awaiting'
    BY <1>7 DEF FirmwareStart, Loading, Executing, Awaiting, Done, Busy
  <2>2. Identities' /\ Results'
    BY <1>7 DEF FirmwareStart, Identities, Results, Done, Busy
  <2> QED
    BY <2>1, <2>2
<1>8. CASE FirmwareFinish
  <2>1. PICK w \in {Ready} \cup Error :
          /\ macro' = w
          /\ executed' = executed \cup
               {[id |-> fw.id, code |-> fw.code, args |-> fw.args, outcome |-> w]}
    BY <1>8 DEF FirmwareFinish
  <2> DEFINE x == [id |-> fw.id, code |-> fw.code, args |-> fw.args, outcome |-> w]
  <2>2. /\ Busy /\ ~ Busy' /\ written > 0
        /\ x.id = written /\ x.code = macro /\ x.args = param /\ x.outcome = macro'
        /\ \A e \in executed : e.id # written
    BY <1>8, <2>1 DEF FirmwareFinish, Executing, Identities, Busy
  <2>3. Loading' /\ Executing'
    BY <1>8, <2>2 DEF FirmwareFinish, Loading, Executing, Waiting
  <2>4. Awaiting'
    <3> SUFFICES ASSUME host'.pc \in {"wait", "settled"} PROVE Awaiting'
      BY DEF Awaiting
    <3>1. host' = host /\ host.pc = "wait" /\ written' = written
      BY <1>8, <2>2 DEF FirmwareFinish, Awaiting
    <3>2. x \in Done(host.call)'
      BY <1>8, <2>1, <2>2, <3>1 DEF FirmwareFinish, Awaiting, Done
    <3> QED
      BY <2>2, <3>1, <3>2 DEF Awaiting
  <2>5. Identities'
    BY <1>8, <2>1, <2>2 DEF FirmwareFinish, Identities, TypeOK, Execution, Id
  <2>6. Results'
    BY <1>8, <2>1, <2>2 DEF FirmwareFinish, Results, Done
  <2> QED
    BY <2>3, <2>4, <2>5, <2>6
<1>9. CASE UNCHANGED vars
  BY <1>9 DEF vars, Loading, Executing, Awaiting, Identities, Results, Done, Busy
<1> QED
  BY <1>1, <1>2, <1>3, <1>4, <1>5, <1>6, <1>7, <1>8, <1>9 DEF Next, Host, Firmware

\* The inductive invariant: what MACRO and PARAM hold at each step of a call, who
\* put it there, and that an outcome belongs to the command it follows.  It
\* holds along every run of ht_write_macro() against the firmware.
THEOREM Invariant == Spec => []IInv
<1>1. Init => IInv
  <2>1. Init => TypeOK
    BY MailboxAssumption, AnyInSets
       DEF Init, TypeOK, Idle, Waiting, Word, Params, Id, HostPc, Call
  <2> QED
    BY <2>1, MailboxAssumption
       DEF Init, IInv, Loading, Executing, Awaiting, Identities, Results, Idle, Waiting, Busy
<1>2. IInv /\ TypeOK' /\ [Next]_vars => IInv'
  BY Inductive
<1> QED
  BY <1>1, <1>2, TypeCorrect, PTL DEF Spec

\* ht_write_macro() tells each caller what the board did for its own call,
\* whatever calls were killed before it.
THEOREM OwnResult == Spec => []ResultIsOwn
<1>1. IInv => ResultIsOwn
  BY DEF IInv, Identities, Results, ResultIsOwn, Done
<1> QED
  BY <1>1, Invariant, PTL

\* A command that is waiting or executing is never overwritten, nor are its
\* parameters.
THEOREM Undisturbed == Spec => BoardUndisturbed
<1>1. IInv /\ [Next]_vars =>
        [Busy => param' = param /\ (macro' = macro \/ FirmwareFinish)]_vars
  <2> SUFFICES ASSUME IInv, Next, Busy
               PROVE  param' = param /\ (macro' = macro \/ FirmwareFinish)
    BY DEF vars
  <2>1. ~ LoadParam /\ ~ WriteCommand
    BY DEF IInv, Loading, LoadParam, WriteCommand
  <2> QED
    BY <2>1 DEF Next, Host, Firmware, WriteMacro, Refuse, Accept, PollReady, ReturnResult,
                Kill, FirmwareStart, FirmwareFinish
<1> QED
  BY <1>1, Invariant, PTL DEF Spec, BoardUndisturbed

\* Seen through its histories, the mailbox executes and answers each call as
\* MacroService promises: FirmwareFinish is Execute, a return is Answer, and
\* every other step is invisible.
THEOREM Refinement == Spec => ImplementsService
<1> USE DEF Service!vars
<1>1. Init => Service!Init
  BY DEF Init, Service!Init
<1>2. IInv /\ TypeOK' /\ [Next]_vars => [Service!Next]_(Service!vars)
  <2> SUFFICES ASSUME IInv, TypeOK', [Next]_vars, ~ UNCHANGED Service!vars
               PROVE  Service!Next
    OBVIOUS
  <2> USE MailboxAssumption
  <2>1. ASSUME NEW code \in Code, NEW args \in Params, NEW n \in 0..Registers,
               NEW nullParam \in BOOLEAN, WriteMacro(code, args, n, nullParam)
        PROVE  Service!Answer
    <3>1. /\ calls + 1 \in 1..MaxCalls
          /\ \A e \in executed : e.id # calls + 1
          /\ \A r \in returned : r.id # calls + 1
      BY <2>1 DEF WriteMacro, IInv, Identities, TypeOK, Id, Execution, Return
    <3> DEFINE c == [id |-> calls + 1, code |-> code, args |-> args, n |-> n]
    <3>2. c \in Service!Request
      BY <3>1 DEF Service!Request, Params
    <3>3. executed' = executed /\ returned' = returned \cup
            {[id |-> c.id, code |-> c.code, args |-> c.args, n |-> c.n,
              result |-> "refused"]}
      BY <2>1 DEF WriteMacro, Refuse, Accept, Outcome
    <3> QED
      BY <3>1, <3>2, <3>3 DEF Service!Answer, Service!Next
  <2>2. CASE WriteCommand
    <3>1. /\ host.call \in Service!Request
          /\ \A r \in returned : r.id # host.call.id
      BY <2>2 DEF WriteCommand, IInv, Identities, TypeOK, Id, Call, Params, Service!Request
    <3>2. host.call.code \in ResetCode
      BY <2>2 DEF WriteCommand
    <3>3. executed' = executed /\ returned' = returned \cup
            {[id |-> host.call.id, code |-> host.call.code, args |-> host.call.args,
              n |-> host.call.n, result |-> "ok"]}
      BY <2>2, <3>2 DEF WriteCommand, Outcome
    <3> QED
      BY <3>1, <3>2, <3>3 DEF Service!Answer, Service!Next
  <2>3. CASE ReturnResult
    <3>1. /\ host.call \in Service!Request
          /\ \A r \in returned : r.id # host.call.id
      BY <2>3 DEF ReturnResult, IInv, Identities, TypeOK, Id, Call, Params, Service!Request
    <3>2. PICK e \in Done(host.call) : e.outcome = macro
      BY <2>3 DEF ReturnResult, IInv, Awaiting
    <3>3. PICK result : result = IF macro # Ready THEN "failed" ELSE "ok"
      OBVIOUS
    <3>4. executed' = executed /\ returned' = returned \cup
            {[id |-> host.call.id, code |-> host.call.code, args |-> host.call.args,
              n |-> host.call.n, result |-> result]}
      BY <2>3, <3>3 DEF ReturnResult, Outcome
    <3>5. /\ result \in {"ok", "failed"}
          /\ (result = "ok") <=> (e.outcome = Ready)
      BY <3>2, <3>3
    <3> QED
      BY <3>1, <3>2, <3>4, <3>5 DEF Service!Answer, Service!Next, Done
  <2>4. CASE FirmwareFinish
    <3>1. PICK w \in {Ready} \cup Error :
            executed' = executed \cup
              {[id |-> fw.id, code |-> fw.code, args |-> fw.args, outcome |-> w]}
      BY <2>4 DEF FirmwareFinish
    <3>2. /\ fw.id \in 1..MaxCalls
          /\ fw.code \in Code
          /\ fw.args \in [1..Registers -> Param]
          /\ returned' = returned
          /\ fw.id = written
          /\ \A e \in executed : e.id # written
      BY <2>4 DEF FirmwareFinish, IInv, Executing, Identities, TypeOK, Id, Params
    <3>3. \A r \in returned : r.id = fw.id => r.result = "ok" /\ r.code \in ResetCode
      BY <3>2 DEF IInv, Results, Done
    <3> QED
      BY <3>1, <3>2, <3>3 DEF Service!Execute, Service!Next
  <2> QED
    BY <2>1, <2>2, <2>3, <2>4
       DEF Next, Host, Firmware, vars, LoadParam, PollReady, Kill, FirmwareStart,
           Service!Next
<1> QED
  BY <1>1, <1>2, Invariant, TypeCorrect, PTL DEF Spec, Service!Spec, ImplementsService

=============================================================================
