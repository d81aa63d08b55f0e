---------------------------- MODULE V210V450Proofs ----------------------------
(***************************************************************************)
(* Proofs about the boards whose channels the application switches:        *)
(* V210Relay, for any number of registers and relays, and V450Filters, for *)
(* any number of channels and any codes.  The two components share nothing.*)
(***************************************************************************)
EXTENDS V210Relay, V450Filters, TLAPS

-----------------------------------------------------------------------------
(* The relays of a V210.                                                     *)

LEMMA RegisterOfRelay ==
  ASSUME NEW r \in Relay
  PROVE  r \div PerReg \in Reg
<1> DEFINE q == r \div PerReg
<1>1. r \in Nat /\ NumRegs \in Nat \ {0} /\ PerReg \in Nat \ {0} /\ r < NumRegs * PerReg
  BY RelayAssumption DEF Relay
<1>2. q \in Nat /\ q * PerReg <= r
  BY <1>1
<1>3. q < NumRegs
  <2> SUFFICES ASSUME q >= NumRegs PROVE FALSE
    BY <1>1, <1>2
  <2>1. q * PerReg >= NumRegs * PerReg
    BY <1>1, <1>2
  <2> QED
    BY <1>1, <1>2, <2>1
<1> QED
  BY <1>1, <1>2, <1>3 DEF Reg

\* The mask, the registers and the call in progress stay within the board's.
THEOREM RelayTyped == RelaySpec => []RelayTypeOK
<1>1. RelayInit => RelayTypeOK
  <2> SUFFICES ASSUME RelayInit PROVE RelayTypeOK
    OBVIOUS
  <2>1. 0 \in Reg
    BY RelayAssumption DEF Reg
  <2>2. call \in [pc: {"start", "idle", "write", "wait", "read"}, reg: Reg]
    BY <2>1 DEF RelayInit, NewProcess
  <2> QED
    BY <2>2 DEF RelayInit, NewProcess, RelayTypeOK
<1>2. RelayTypeOK /\ [RelayNext]_relayVars => RelayTypeOK'
  <2> SUFFICES ASSUME RelayTypeOK, [RelayNext]_relayVars PROVE RelayTypeOK'
    OBVIOUS
  <2> USE RelayAssumption
  <2>1. 0 \in Reg /\ 0 \in Relay
    BY DEF Reg, Relay
  <2>2. ASSUME NEW chnl \in Channel, NEW close \in BOOLEAN, Edit(chnl, close) PROVE RelayTypeOK'
    BY <2>1, <2>2 DEF Edit, RelayTypeOK, Bit, InRange
  <2>3. CASE WriteRelayRegs
    BY <2>1, <2>3 DEF WriteRelayRegs, Begin, RelayTypeOK
  <2>4. ASSUME NEW m \in SUBSET Relay, SetRelaysFromMask(m) PROVE RelayTypeOK'
    BY <2>1, <2>4 DEF SetRelaysFromMask, Begin, RelayTypeOK
  <2>5. ASSUME CallAt("write") \/ CallAt("read"), Advance(call.pc)
        PROVE  call' \in [pc: {"start", "idle", "write", "wait", "read"}, reg: Reg]
    BY <2>1, <2>5 DEF CallAt, Advance, RelayTypeOK, Reg
  <2>6. CASE WriteReg
    BY <2>5, <2>6 DEF WriteReg, RelayTypeOK, CallAt
  <2>7. ASSUME NEW waitflag \in BOOLEAN, ReadRelayRegs(waitflag) PROVE RelayTypeOK'
    BY <2>1, <2>7 DEF ReadRelayRegs, Begin, RelayTypeOK
  <2>8. CASE Wait
    BY <2>1, <2>8 DEF Wait, Begin, RelayTypeOK
  <2>9. CASE ReadReg
    BY <2>5, <2>9 DEF ReadReg, RelayTypeOK, CallAt
  <2>10. CASE ConnectRelays \/ DisconnectRelays
    BY <2>10 DEF ConnectRelays, DisconnectRelays, RelayTypeOK
  <2>11. CASE KillRelayProcess
    BY <2>1, <2>11 DEF KillRelayProcess, Begin, RelayTypeOK
  <2>12. CASE Settle
    BY <2>12 DEF Settle, RelayTypeOK
  <2>13. CASE UNCHANGED relayVars
    BY <2>13 DEF relayVars, RelayTypeOK
  <2> QED
    BY <2>2, <2>3, <2>4, <2>6, <2>7, <2>8, <2>9, <2>10, <2>11, <2>12, <2>13
       DEF RelayNext, SetBitInMask, ClrBitInMask
<1> QED
  BY <1>1, <1>2, PTL DEF RelaySpec

-----------------------------------------------------------------------------
(* RelaysAsAsked.  The mask is what the application asked for from the first *)
(* clear on; the registers follow it one by one, and a read can only put     *)
(* back what is in it because the relays have settled.                       *)

Running == ~ CallAt("start")

MaskAsked == Running => mask = asked

Written ==
  /\ CallAt("write") => \A r \in Relay : r \div PerReg < call.reg => (r \in ctl <=> r \in mask)
  /\ Running /\ ~ CallAt("write") /\ ~ dirty => ctl = asked
  /\ CallAt("wait") \/ CallAt("read") => ~ dirty
  /\ CallAt("read") => Settled

RelayInv == MaskAsked /\ Written

\* What a write or a read does to one relay.
LEMMA RegisterStep ==
  ASSUME NEW from \in SUBSET Relay, NEW to \in SUBSET Relay, NEW g \in Reg, NEW r \in Relay
  PROVE  r \in (to \ In(g)) \cup (from \cap In(g)) <=>
           IF r \div PerReg = g THEN r \in from ELSE r \in to
BY DEF In

LEMMA RelayInductive ==
  ASSUME Chnls \notin Channel, RelayTypeOK, RelayTypeOK', RelayInv, [RelayNext]_relayVars
  PROVE  RelayInv'
<1> USE DEF RelayInv, Running, CallAt
<1>1. ASSUME NEW chnl \in Channel, NEW close \in BOOLEAN, Edit(chnl, close) PROVE RelayInv'
  <2>1. InRange(chnl) => chnl \in Relay
    BY RelayAssumption DEF InRange, Relay, Chnls
  <2> QED
    BY <1>1, <2>1 DEF Edit, Bit, MaskAsked, Written
<1>2. CASE WriteRelayRegs
  <2>1. \A r \in Relay : ~ (r \div PerReg < 0)
    BY RegisterOfRelay DEF Reg
  <2> QED
    BY <1>2, <2>1 DEF WriteRelayRegs, Begin, MaskAsked, Written
<1>3. ASSUME NEW m \in SUBSET Relay, SetRelaysFromMask(m) PROVE RelayInv'
  <2>1. \A r \in Relay : ~ (r \div PerReg < 0)
    BY RegisterOfRelay DEF Reg
  <2> QED
    BY <1>3, <2>1 DEF SetRelaysFromMask, Begin, MaskAsked, Written
<1>4. CASE WriteReg
  <2>1. /\ call.reg \in Reg /\ NumRegs \in Nat
        /\ UNCHANGED <<mask, asked>> /\ mask = asked
        /\ call.pc = "write"
    BY <1>4, RelayAssumption DEF WriteReg, MaskAsked, RelayTypeOK
  <2>2. \A r \in Relay : r \div PerReg <= call.reg => (r \in ctl' <=> r \in mask)
    <3> SUFFICES ASSUME NEW r \in Relay, r \div PerReg <= call.reg
                 PROVE  r \in ctl' <=> r \in mask
      OBVIOUS
    <3>1. r \in ctl' <=> IF r \div PerReg = call.reg THEN r \in mask ELSE r \in ctl
      BY <1>4, <2>1, RegisterStep DEF WriteReg, RelayTypeOK
    <3>2. r \div PerReg # call.reg => r \div PerReg < call.reg
      BY <2>1, RegisterOfRelay DEF Reg
    <3> QED
      BY <2>1, <3>1, <3>2 DEF Written
  <2>3. CASE call.reg = NumRegs - 1
    <3>1. call' = [pc |-> "idle", reg |-> 0]
      BY <1>4, <2>3 DEF WriteReg, Advance
    <3>2. \A r \in Relay : r \in ctl' <=> r \in mask
      BY <2>1, <2>2, <2>3, RegisterOfRelay DEF Reg
    <3>3. ctl' = mask
      BY <3>2 DEF RelayTypeOK
    <3> QED
      BY <2>1, <3>1, <3>3 DEF MaskAsked, Written
  <2>4. CASE call.reg # NumRegs - 1
    <3>1. call'.pc = "write" /\ call'.reg = call.reg + 1
      BY <1>4, <2>1, <2>4 DEF WriteReg, Advance, RelayTypeOK
    <3>2. \A r \in Relay : r \div PerReg < call.reg + 1 => r \div PerReg <= call.reg
      BY <2>1, RegisterOfRelay DEF Reg
    <3> QED
      BY <2>1, <2>2, <3>1, <3>2 DEF MaskAsked, Written
  <2> QED
    BY <2>3, <2>4
<1>5. ASSUME NEW waitflag \in BOOLEAN, ReadRelayRegs(waitflag) PROVE RelayInv'
  BY <1>5 DEF ReadRelayRegs, Begin, MaskAsked, Written, Settled
<1>6. CASE Wait
  BY <1>6 DEF Wait, Begin, MaskAsked, Written, Settled
<1>7. CASE ReadReg
  <2>1. /\ call.reg \in Reg /\ call.pc = "read" /\ ~ dirty
        /\ mask = asked /\ ctl = asked /\ contact = asked
        /\ UNCHANGED <<ctl, contact, asked, dirty>>
    BY <1>7 DEF ReadReg, MaskAsked, Written, Settled, RelayTypeOK
  <2>2. mask' = asked
    BY <1>7, <2>1 DEF ReadReg
  <2>3. call'.pc \in {"idle", "read"}
    BY <1>7, <2>1 DEF ReadReg, Advance, RelayTypeOK
  <2> QED
    BY <2>1, <2>2, <2>3 DEF MaskAsked, Written, Settled
<1>8. CASE ConnectRelays \/ DisconnectRelays
  BY <1>8 DEF ConnectRelays, DisconnectRelays, MaskAsked, Written, Settled
<1>9. CASE KillRelayProcess
  BY <1>9 DEF KillRelayProcess, Begin, MaskAsked, Written
<1>10. CASE Settle
  BY <1>10 DEF Settle, MaskAsked, Written, Settled
<1>11. CASE UNCHANGED relayVars
  BY <1>11 DEF relayVars, MaskAsked, Written, Settled
<1> QED
  BY <1>1, <1>2, <1>3, <1>4, <1>5, <1>6, <1>7, <1>8, <1>9, <1>10, <1>11
     DEF RelayNext, SetBitInMask, ClrBitInMask

\* No request is lost, as long as the application never passes the channel
\* number 64 that the range check lets through.
THEOREM EveryRelayAsAsked ==
  ASSUME Chnls \notin Channel
  PROVE  RelaySpec => []RelaysAsAsked
<1>1. RelayInit => RelayInv
  BY DEF RelayInit, NewProcess, RelayInv, MaskAsked, Written, Running, CallAt
<1>2. RelayTypeOK /\ RelayTypeOK' /\ RelayInv /\ [RelayNext]_relayVars => RelayInv'
  BY RelayInductive
<1>3. RelayInv => RelaysAsAsked
  BY DEF RelayInv, MaskAsked, Written, Running, CallAt, RelaysAsAsked
<1> QED
  BY <1>1, <1>2, <1>3, RelayTyped, PTL DEF RelaySpec

-----------------------------------------------------------------------------
(* The filters of a V450.                                                    *)

USE FilterAssumption

LEMMA Arrays ==
  /\ 0 \in Chnl
  /\ All(NoFilter) \in [Chnl -> Code] /\ All(NoFilter) \in [Chnl -> Word]
  /\ All(Other) \in [Chnl -> Word]
  /\ [Chnl -> Code] \subseteq [Chnl -> Word]
BY DEF Chnl, All, Code, Word

\* What the end of a command does to the board, by command.
LEMMA Outcome ==
  ASSUME TypeOK, Busy, FirmwareFinish
  PROVE  /\ macro' \in {Ok, Failed} /\ fw' = NoTask
         /\ UNCHANGED <<rom, param0, host, performed>>
         /\ goal' = IF At("setwait") THEN goal ELSE Unknown
         /\ ext' \in {ext, filt, All(NoFilter), All(Other)}
         /\ filt' # filt => \/ macro = SetFilt /\ macro' = Ok
                            \/ macro = Reboot
         /\ filt' \in [Chnl -> Code]
         /\ macro = SetFilt /\ macro' = Ok => filt' = fw.words
         /\ macro = GetFilt => filt' = filt /\ (macro' = Ok => ext' = filt)
         /\ macro = Measure /\ macro' = Ok => res' = res \cup fw.mask
         /\ res' \in {res, res \cup fw.mask, {}}
<1> USE Arrays DEF TypeOK, Ok, Failed, SetFilt, GetFilt, GetAnalog, Measure, Test, TestSome, Sync, Reboot
<1>1. /\ fw' = NoTask
      /\ UNCHANGED <<rom, param0, host, performed>>
      /\ goal' = IF At("setwait") THEN goal ELSE Unknown
      /\ Succeed \/ Fail
  BY DEF FirmwareFinish
<1>2. CASE Fail
  BY <1>1, <1>2 DEF Fail
<1>3. CASE Succeed
  <2>1. macro' = Ok
    BY <1>3 DEF Succeed
  <2>2. CASE macro = SetFilt
    BY <1>1, <1>3, <2>1, <2>2 DEF Succeed
  <2>3. CASE macro = GetFilt
    BY <1>1, <1>3, <2>1, <2>3 DEF Succeed
  <2>4. CASE macro = Measure
    BY <1>1, <1>3, <2>1, <2>4 DEF Succeed
  <2>5. CASE macro = Reboot
    BY <1>1, <1>3, <2>1, <2>5 DEF Succeed
  <2>6. CASE macro \in {GetAnalog, Test, TestSome}
    BY <1>1, <1>3, <2>1, <2>6 DEF Succeed
  <2>7. CASE macro = Sync
    BY <1>1, <1>3, <2>1, <2>7 DEF Succeed
  <2> QED
    BY <2>2, <2>3, <2>4, <2>5, <2>6, <2>7 DEF Busy, Command
<1> QED
  BY <1>1, <1>2, <1>3

-----------------------------------------------------------------------------
(* Types.                                                                    *)

\* Only a command in MACRO is executed.
Executes == fw.busy => Busy

LEMMA InitTyped == Init => TypeOK /\ Executes
<1> SUFFICES ASSUME Init PROVE TypeOK /\ Executes
  OBVIOUS
<1> USE Arrays DEF Init, Process
<1>1. host \in [pc: Pc, op: Op, chnl: Chnl, code: Code, loop: BOOLEAN, i: Chnl, clean: BOOLEAN,
                arg: [Chnl -> Word]]
  BY DEF Idle, Pc, Op, Code
<1>2. fw \in [busy: BOOLEAN, mask: SUBSET Chnl, words: [Chnl -> Word]]
  BY DEF NoTask
<1>3. goal \in [Chnl -> Word]
  BY DEF Unknown
<1> QED
  BY <1>1, <1>2, <1>3 DEF TypeOK, Executes, NoTask, Ok

HostType == [pc: Pc, op: Op, chnl: Chnl, code: Code, loop: BOOLEAN, i: Chnl, clean: BOOLEAN,
             arg: [Chnl -> Word]]

\* The forms in which the steps write the call in progress.
LEMMA Hosts ==
  ASSUME NEW h \in HostType, NEW pc \in Pc, NEW i \in Chnl, NEW arg \in [Chnl -> Word],
         NEW clean \in BOOLEAN
  PROVE  /\ [h EXCEPT !.pc = pc] \in HostType
         /\ [h EXCEPT !.pc = pc, !.i = i] \in HostType
         /\ [h EXCEPT !.pc = pc, !.arg = arg] \in HostType
         /\ [h EXCEPT !.clean = clean, !.i = i, !.pc = pc] \in HostType
         /\ [h EXCEPT !.pc = pc, !.i = i, !.arg = arg, !.clean = clean] \in HostType
BY DEF HostType

LEMMA IdleHost ==
  /\ Idle \in HostType
  /\ \A op \in Op, pc \in Pc, arg \in [Chnl -> Word] :
       [Idle EXCEPT !.pc = pc, !.op = op, !.arg = arg] \in HostType
  /\ \A op \in Op, pc \in Pc, chnl \in Chnl, code \in Code, loop \in BOOLEAN :
       [Idle EXCEPT !.pc = pc, !.op = op, !.chnl = chnl, !.code = code, !.loop = loop] \in HostType
BY Arrays DEF HostType, Idle, Pc, Op, Code

LEMMA TypedHost ==
  ASSUME TypeOK, [Next]_vars
  PROVE  host' \in HostType
<1>0. host \in HostType
  BY DEF TypeOK, HostType
<1>1. Idle \in HostType
  BY IdleHost
<1>2. ASSUME NEW pc \in Pc, Go(pc) PROVE host' \in HostType
  BY <1>0, <1>2, Hosts, Arrays DEF Go
<1>3. {"get", "getwait", "store", "set", "setwait", "measure", "measurewait", "wait", "sleep"} \subseteq Pc
  BY DEF Pc
<1>4. CASE Config
  <2> PICK chnl \in Chnl, code \in Code, loop \in BOOLEAN : ConfigTcChnl(chnl, code, loop)
    BY <1>4 DEF Config
  <2>1. "config" \in Op
    BY DEF Op
  <2> QED
    BY <1>3, <2>1, IdleHost DEF ConfigTcChnl
<1>5. CASE ReplaceOne
  <2> DEFINE arg == [ext EXCEPT ![host.chnl] = host.code]
  <2>1. arg \in [Chnl -> Word]
    BY DEF TypeOK, Code, Word
  <2>2. host' = Idle \/ host' = [host EXCEPT !.pc = "store", !.arg = arg]
    BY <1>5 DEF ReplaceOne, Return
  <2> HIDE DEF arg
  <2>3. [host EXCEPT !.pc = "store", !.arg = arg] \in HostType
    BY <1>0, <1>3, <2>1, Hosts, Arrays
  <2> QED
    BY <1>1, <2>2, <2>3
<1>6. ASSUME NEW arg \in [Chnl -> Word], SetDirect(arg) PROVE host' \in HostType
  <2>1. "direct" \in Op
    BY DEF Op
  <2> QED
    BY <1>3, <1>6, <2>1, IdleHost DEF SetDirect
<1>7. CASE StoreFilter
  <2> DEFINE i == IF host.i = NumChnls - 1 THEN 0 ELSE host.i + 1
             pc == IF host.i = NumChnls - 1 THEN "set" ELSE "store"
             clean == host.clean /\ ~ Busy
  <2>1. i \in Chnl
    BY <1>0, Arrays DEF HostType, Chnl
  <2>2. pc \in Pc /\ clean \in BOOLEAN
    BY <1>3
  <2>3. host' = Idle \/ host' = [host EXCEPT !.clean = clean, !.i = i, !.pc = pc]
    BY <1>7, <1>0 DEF StoreFilter, Return, HostType
  <2> HIDE DEF i, pc, clean
  <2>4. [host EXCEPT !.clean = clean, !.i = i, !.pc = pc] \in HostType
    BY <1>0, <2>1, <2>2, Hosts, Arrays
  <2> QED
    BY <1>1, <2>3, <2>4
<1>8. CASE SetFilters
  <2>1. [host EXCEPT !.pc = "setwait", !.i = 0, !.arg = All(NoFilter), !.clean = TRUE] \in HostType
    BY <1>0, <1>3, Hosts, Arrays
  <2> QED
    BY <1>1, <1>8, <2>1 DEF SetFilters, Return
<1>9. CASE GetFilters \/ FiltersSet \/ MeasureLoop \/ LoopMeasured \/ MacroDone \/ RebootBoard \/ Wake
  BY <1>1, <1>2, <1>3, <1>9
     DEF GetFilters, FiltersSet, AfterFilter, MeasureLoop, LoopMeasured, MacroDone, RebootBoard, Wake, Return
<1>10. ASSUME NEW m \in SUBSET Chnl, GetAnalogFilters(m) PROVE host' \in HostType
  BY <1>0, <1>2, <1>3, <1>10 DEF GetAnalogFilters
<1>11. ASSUME NEW code \in {GetFilt, Test, TestSome, Sync}, NEW m \in SUBSET Chnl,
              RunMacro(code, m)
       PROVE  host' \in HostType
  BY <1>2, <1>3, <1>11 DEF RunMacro
<1>12. CASE Kill \/ FirmwareStart \/ FirmwareFinish \/ UNCHANGED vars
  BY <1>0, <1>1, <1>12 DEF Kill, FirmwareStart, FirmwareFinish, vars
<1> QED
  BY <1>4, <1>5, <1>6, <1>7, <1>8, <1>9, <1>10, <1>11, <1>12 DEF Next

LEMMA Typed == TypeOK /\ Executes /\ [Next]_vars => TypeOK' /\ Executes'
<1> SUFFICES ASSUME TypeOK, Executes, [Next]_vars PROVE TypeOK' /\ Executes'
  OBVIOUS
<1>1. host' \in [pc: Pc, op: Op, chnl: Chnl, code: Code, loop: BOOLEAN, i: Chnl, clean: BOOLEAN,
                 arg: [Chnl -> Word]]
  BY TypedHost DEF HostType
<1>2. {SetFilt, GetFilt, GetAnalog, Measure, Test, TestSome, Sync, Reboot} \subseteq Command
  BY DEF Command
<1> USE <1>1 DEF Executes, Busy, board, TypeOK
<1>3. CASE Config
  BY <1>3 DEF Config, ConfigTcChnl
<1>4. CASE GetFilters \/ ReplaceOne
  BY <1>2, <1>4 DEF GetFilters, ReplaceOne
<1>5. ASSUME NEW arg \in [Chnl -> Word], SetDirect(arg) PROVE TypeOK' /\ Executes'
  BY <1>5 DEF SetDirect
<1>6. CASE StoreFilter
  <2>1. ext' \in [Chnl -> Word]
    BY <1>6 DEF StoreFilter
  <2>2. goal' \in [Chnl -> Word]
    BY <1>6, Arrays DEF StoreFilter, Unknown
  <2> QED
    BY <1>6, <2>1, <2>2 DEF StoreFilter
<1>7. CASE SetFilters
  <2>1. [filt EXCEPT ![host.chnl] = host.code] \in [Chnl -> Word]
    BY Arrays
  <2>2. goal' \in [Chnl -> Word]
    BY <1>7, <2>1, Arrays DEF SetFilters, Unknown
  <2> QED
    BY <1>2, <1>7, <2>2 DEF SetFilters
<1>8. CASE FiltersSet
  BY <1>8, Arrays DEF FiltersSet, Unknown
<1>9. CASE MeasureLoop
  BY <1>2, <1>9 DEF MeasureLoop
<1>10. CASE LoopMeasured \/ MacroDone \/ Wake \/ Kill
  BY <1>10 DEF LoopMeasured, MacroDone, Wake, Kill
<1>11. ASSUME NEW m \in SUBSET Chnl, GetAnalogFilters(m) PROVE TypeOK' /\ Executes'
  BY <1>2, <1>11 DEF GetAnalogFilters
<1>12. ASSUME NEW code \in {GetFilt, Test, TestSome, Sync}, NEW m \in SUBSET Chnl,
              RunMacro(code, m)
       PROVE  TypeOK' /\ Executes'
  BY <1>2, <1>12 DEF RunMacro
<1>13. CASE RebootBoard
  BY <1>2, <1>13 DEF RebootBoard
<1>14. CASE FirmwareStart
  BY <1>14, Arrays DEF FirmwareStart
<1>15. CASE FirmwareFinish
  <2>1. Busy
    BY <1>15 DEF FirmwareFinish
  <2>2. NoTask \in [busy: BOOLEAN, mask: SUBSET Chnl, words: [Chnl -> Word]] /\ ~ NoTask.busy
    BY Arrays DEF NoTask
  <2>3. ext' \in [Chnl -> Word] /\ goal' \in [Chnl -> Word] /\ res' \subseteq Chnl
    BY <1>15, <2>1, Outcome, Arrays DEF Unknown
  <2> QED
    BY <1>15, <2>1, <2>2, <2>3, Outcome
<1>16. CASE UNCHANGED vars
  BY <1>16 DEF vars
<1> QED
  BY <1>3, <1>4, <1>5, <1>6, <1>7, <1>8, <1>9, <1>10, <1>11, <1>12, <1>13, <1>14, <1>15, <1>16
     DEF Next

\* The registers, the static variables and the call keep their types, whatever
\* is killed, and the board executes nothing it was not told.
THEOREM TypeCorrect == Spec => []TypeOK
<1>1. TypeOK /\ Executes /\ [Next]_vars => (TypeOK /\ Executes)'
  BY Typed
<1> QED
  BY <1>1, InitTyped, PTL DEF Spec

-----------------------------------------------------------------------------
(* What is known in each phase of a call.                                    *)

\* While codes are stored: a call that has found the board not busy has it to
\* itself, since no other command is given before it returns.
Storing ==
  /\ At("store") /\ host.clean =>
       /\ \A c \in Chnl : c < host.i => ext[c] = host.arg[c]
       /\ host.i > 0 => ~ Busy
  /\ At("set") /\ host.clean => ~ Busy /\ ext = host.arg

\* v450_config_tc_chnl() replaces one of the codes the board reports.
Replacing ==
  /\ At("getwait") => /\ host.i = 0
                      /\ macro \in {GetFilt, Ok, Failed}
                      /\ macro = Ok => ext = filt
  /\ (At("store") \/ At("set")) /\ host.op = "config" =>
       ~ Busy /\ host.arg = [filt EXCEPT ![host.chnl] = host.code]

\* A SET_DFILT whose codes can be relied on takes them, and no others.
Setting ==
  macro = SetFilt /\ goal # Unknown => IF fw.busy THEN fw.words = goal ELSE ext = goal

\* The call that waits for it learns its outcome.
SetDone ==
  At("setwait") =>
    /\ macro \in {SetFilt, Ok, Failed}
    /\ goal # Unknown => /\ macro = Ok => filt = goal
                         /\ host.op = "config" => goal[host.chnl] = host.code

Measuring ==
  At("measurewait") =>
    /\ performed
    /\ macro \in {Measure, Ok, Failed}
    /\ macro = Measure => IF fw.busy THEN host.chnl \in fw.mask ELSE host.chnl \in param0
    /\ macro = Ok => host.chnl \in res

Phases == Storing /\ Replacing /\ Setting /\ SetDone /\ Measuring
IInv   == TypeOK /\ Executes /\ Phases

\* MACRO holds a command or an outcome.
LEMMA Commands ==
  /\ {SetFilt, GetFilt, GetAnalog, Measure, Test, TestSome, Sync, Reboot} \subseteq Command
  /\ Ok \notin Command /\ Failed \notin Command /\ Ok # Failed
  /\ SetFilt \notin {GetFilt, GetAnalog, Measure, Test, TestSome, Sync, Reboot}
BY DEF Command, SetFilt, GetFilt, GetAnalog, Measure, Test, TestSome, Sync, Reboot, Ok, Failed

\* A step that leaves a call in no phase but "wait" and "sleep", changes no
\* register and gives no command disturbs nothing.
LEMMA Away ==
  ASSUME IInv, UNCHANGED <<macro, ext, fw, filt, goal>>,
         host'.pc \in {"idle", "get", "measure", "wait", "sleep"}
  PROVE  Phases'
BY DEF IInv, Phases, Storing, Replacing, Setting, SetDone, Measuring, At

LEMMA PhasesKept == IInv /\ [Next]_vars => Phases'
<1> SUFFICES ASSUME IInv, [Next]_vars PROVE Phases'
  OBVIOUS
<1>0. TypeOK /\ Executes /\ Storing /\ Replacing /\ Setting /\ SetDone /\ Measuring
  BY DEF IInv, Phases
<1>1. host \in [pc: Pc, op: Op, chnl: Chnl, code: Code, loop: BOOLEAN, i: Chnl, clean: BOOLEAN,
                arg: [Chnl -> Word]]
  BY <1>0 DEF TypeOK
<1>2. CASE Config
  <2> PICK chnl \in Chnl, code \in Code, loop \in BOOLEAN : ConfigTcChnl(chnl, code, loop)
    BY <1>2 DEF Config
  <2>1. host'.pc \in {"idle", "get", "measure"}
    BY DEF ConfigTcChnl, Idle
  <2> QED
    BY <2>1, Away DEF ConfigTcChnl, board
<1>3. CASE GetFilters
  <2>1. CASE Busy
    BY <1>3, <2>1, Away DEF GetFilters, Return, Idle
  <2>2. CASE ~ Busy
    <3>1. host'.pc = "getwait" /\ host'.i = 0 /\ macro' = GetFilt /\ UNCHANGED <<ext, fw, filt, goal>>
      BY <1>1, <1>3, <2>2 DEF GetFilters, Go
    <3> QED
      BY <3>1, Commands DEF Phases, Storing, Replacing, Setting, SetDone, Measuring, At
  <2> QED
    BY <2>1, <2>2
<1>4. CASE ReplaceOne
  <2>1. CASE macro = Failed
    BY <1>4, <2>1, Away DEF ReplaceOne, Return, Idle, board
  <2>2. CASE macro # Failed
    <3>1. ~ Busy /\ macro = Ok /\ ext = filt
      BY <1>0, <1>4, <2>2, Commands DEF ReplaceOne, Replacing, Busy, At
    <3>2. /\ host'.pc = "store" /\ host'.arg = [ext EXCEPT ![host.chnl] = host.code]
          /\ host'.chnl = host.chnl /\ host'.code = host.code /\ host'.i = host.i
          /\ UNCHANGED <<macro, ext, fw, filt, goal>>
      BY <1>1, <1>4, <2>2 DEF ReplaceOne, board
    <3>3. host.i = 0
      BY <1>0, <1>4 DEF ReplaceOne, Replacing
    <3> QED
      BY <1>0, <3>1, <3>2, <3>3, Commands
         DEF Phases, Storing, Replacing, Setting, SetDone, Measuring, At, Busy, Chnl
  <2> QED
    BY <2>1, <2>2
<1>5. ASSUME NEW arg \in [Chnl -> Word], SetDirect(arg) PROVE Phases'
  <2>1. host'.pc = "store" /\ host'.i = 0 /\ host'.op = "direct"
        /\ UNCHANGED <<macro, ext, fw, filt, goal>>
    BY <1>5 DEF SetDirect, Idle, board
  <2> QED
    BY <1>0, <2>1 DEF Phases, Storing, Replacing, Setting, SetDone, Measuring, At, Busy, Chnl
<1>6. CASE StoreFilter
  <2>1. CASE host.arg[host.i] = Other
    BY <1>6, <2>1, Away DEF StoreFilter, Return, Idle
  <2>2. CASE host.arg[host.i] # Other
    <3>1. /\ At("store")
          /\ ext' = [ext EXCEPT ![host.i] = host.arg[host.i]]
          /\ host'.arg = host.arg /\ host'.op = host.op
          /\ host'.chnl = host.chnl /\ host'.code = host.code
          /\ host'.clean = (host.clean /\ ~ Busy)
          /\ IF host.i = NumChnls - 1 THEN host'.pc = "set" ELSE host'.pc = "store" /\ host'.i = host.i + 1
          /\ goal' = IF macro = SetFilt THEN Unknown ELSE goal
          /\ UNCHANGED <<macro, fw, filt>>
      BY <1>1, <1>6, <2>2 DEF StoreFilter
    <3>2. ext \in [Chnl -> Word] /\ host.arg \in [Chnl -> Word] /\ host.i \in Chnl
      BY <1>0, <1>1 DEF TypeOK
    <3>3. Storing'
      <4>1. ASSUME host.clean, NEW c \in Chnl, c <= host.i PROVE ext'[c] = host.arg[c]
        BY <1>0, <3>1, <3>2, <4>1 DEF Storing, Chnl
      <4>2. ASSUME host.clean, host.i = NumChnls - 1 PROVE ext' = host.arg
        <5>1. \A c \in Chnl : ext'[c] = host.arg[c]
          BY <4>1, <4>2 DEF Chnl
        <5>2. ext' \in [Chnl -> Word]
          BY <3>1, <3>2
        <5> QED
          BY <3>2, <5>1, <5>2
      <4>3. host'.clean => host.clean /\ ~ Busy'
        BY <3>1 DEF Busy
      <4>4. ASSUME host'.pc = "store", host.clean, NEW c \in Chnl, c < host'.i
            PROVE  ext'[c] = host'.arg[c]
        <5>1. c <= host.i
          BY <3>1, <3>2, <4>4 DEF Chnl
        <5> QED
          BY <3>1, <4>1, <4>4, <5>1
      <4> QED
        BY <3>1, <4>2, <4>3, <4>4 DEF Storing, At
    <3>4. Replacing'
      BY <1>0, <3>1 DEF Replacing, At, Busy
    <3>5. Setting' /\ SetDone' /\ Measuring'
      BY <3>1 DEF Setting, SetDone, Measuring, At
    <3> QED
      BY <3>3, <3>4, <3>5 DEF Phases
  <2> QED
    BY <2>1, <2>2
<1>7. CASE SetFilters
  <2>1. CASE Busy
    BY <1>7, <2>1, Away DEF SetFilters, Return, Idle
  <2>2. CASE ~ Busy
    <3>1. /\ At("set")
          /\ host'.pc = "setwait" /\ macro' = SetFilt
          /\ host'.op = host.op /\ host'.chnl = host.chnl /\ host'.code = host.code
          /\ UNCHANGED <<ext, fw, filt>>
      BY <1>1, <1>7, <2>2 DEF SetFilters
    <3>2. goal' # Unknown => ext = goal' /\ (host.op = "config" => goal'[host.chnl] = host.code)
      <4> SUFFICES ASSUME goal' # Unknown
                   PROVE  ext = goal' /\ (host.op = "config" => goal'[host.chnl] = host.code)
        OBVIOUS
      <4>1. host.clean /\ goal' = IF host.op = "config" THEN [filt EXCEPT ![host.chnl] = host.code]
                                  ELSE host.arg
        BY <1>7, <2>2 DEF SetFilters
      <4>2. ext = host.arg
        BY <1>0, <3>1, <4>1 DEF Storing
      <4>3. host.op = "config" => host.arg = [filt EXCEPT ![host.chnl] = host.code]
        BY <1>0, <3>1 DEF Replacing
      <4>4. [filt EXCEPT ![host.chnl] = host.code][host.chnl] = host.code
        BY <1>0, <1>1 DEF TypeOK
      <4> QED
        BY <4>1, <4>2, <4>3, <4>4
    <3>3. ~ fw.busy
      BY <1>0, <2>2 DEF Executes
    <3> QED
      BY <3>1, <3>2, <3>3, Commands
         DEF Phases, Storing, Replacing, Setting, SetDone, Measuring, At
  <2> QED
    BY <2>1, <2>2
<1>8. CASE FiltersSet
  <2>1. macro # SetFilt /\ UNCHANGED <<macro, ext, fw, filt>>
    BY <1>8, Commands DEF FiltersSet, Busy, board
  <2>2. host' = Idle \/ host' = [host EXCEPT !.pc = "measure", !.i = 0]
    BY <1>8 DEF FiltersSet, AfterFilter, Return, Go
  <2>3. host'.pc \in {"idle", "measure"}
    <3>1. Idle.pc = "idle"
      BY DEF Idle
    <3>2. [host EXCEPT !.pc = "measure", !.i = 0].pc = "measure"
      BY <1>1
    <3> QED
      BY <2>2, <3>1, <3>2
  <2> QED
    BY <2>1, <2>3 DEF Phases, Storing, Replacing, Setting, SetDone, Measuring, At
<1>9. CASE MeasureLoop
  <2>1. CASE Busy
    BY <1>9, <2>1, Away DEF MeasureLoop, Return, Idle
  <2>2. CASE ~ Busy
    <3>1. /\ host'.pc = "measurewait" /\ macro' = Measure /\ host'.chnl = host.chnl
          /\ host.chnl \in param0' /\ performed' /\ ~ fw.busy
          /\ UNCHANGED <<ext, fw, filt, goal>>
      BY <1>0, <1>1, <1>9, <2>2 DEF MeasureLoop, Go, Executes
    <3> QED
      BY <3>1, Commands DEF Phases, Storing, Replacing, Setting, SetDone, Measuring, At
  <2> QED
    BY <2>1, <2>2
<1>10. CASE LoopMeasured \/ MacroDone \/ Wake
  BY <1>10, Away DEF LoopMeasured, MacroDone, Wake, Return, Idle, board
<1>11. ASSUME NEW m \in SUBSET Chnl, GetAnalogFilters(m) PROVE Phases'
  <2>1. host'.pc \in {"idle", "wait"} /\ macro' \in {macro, GetAnalog} /\ UNCHANGED <<ext, fw, filt, goal>>
    BY <1>1, <1>11 DEF GetAnalogFilters, Go, At
  <2> QED
    BY <1>0, <2>1, Commands DEF Phases, Storing, Replacing, Setting, SetDone, Measuring, At
<1>12. ASSUME NEW code \in {GetFilt, Test, TestSome, Sync}, NEW m \in SUBSET Chnl,
              RunMacro(code, m)
       PROVE  Phases'
  <2>1. host'.pc = "wait" /\ macro' \in {GetFilt, Test, TestSome, Sync} /\ UNCHANGED <<ext, fw, filt, goal>>
    BY <1>1, <1>12 DEF RunMacro, Go
  <2> QED
    BY <1>0, <2>1, Commands DEF Phases, Storing, Replacing, Setting, SetDone, Measuring, At
<1>13. CASE RebootBoard
  <2>1. host'.pc = "sleep" /\ macro' = Reboot /\ UNCHANGED <<ext, fw, filt, goal>>
    BY <1>1, <1>13 DEF RebootBoard, Go
  <2> QED
    BY <1>0, <2>1, Commands DEF Phases, Storing, Replacing, Setting, SetDone, Measuring, At
<1>14. CASE Kill
  BY <1>14, Away DEF Kill, Idle, board
<1>15. CASE FirmwareStart
  <2>1. Busy /\ fw'.busy /\ ~ fw.busy /\ UNCHANGED <<macro, param0, ext, filt, res, host, performed, goal>>
        /\ (macro = SetFilt => fw'.words = ext) /\ (macro = Measure => fw'.mask = param0)
    BY <1>15 DEF FirmwareStart
  <2>2. Storing' /\ Replacing' /\ SetDone'
    BY <1>0, <2>1 DEF Storing, Replacing, SetDone, At, Busy
  <2>3. Setting' /\ Measuring'
    BY <1>0, <2>1 DEF Setting, Measuring, At
  <2> QED
    BY <2>2, <2>3 DEF Phases
<1>16. CASE FirmwareFinish
  <2>1. Busy /\ fw.busy
    BY <1>0, <1>16 DEF FirmwareFinish, Executes
  <2>2. macro' \in {Ok, Failed} /\ UNCHANGED <<host, performed>>
    BY <1>0, <1>16, <2>1, Outcome
  <2>3. Storing'
    <3>1. ASSUME At("store"), host.clean PROVE host.i = 0
      BY <1>0, <1>1, <2>1, <3>1 DEF Storing, Chnl
    <3>2. ~ (At("set") /\ host.clean)
      BY <1>0, <2>1 DEF Storing
    <3> QED
      BY <2>2, <3>1, <3>2 DEF Storing, At, Chnl
  <2>4. Replacing'
    <3>1. macro = GetFilt => filt' = filt /\ (macro' = Ok => ext' = filt)
      BY <1>0, <1>16, <2>1, Outcome
    <3> QED
      BY <1>0, <2>1, <2>2, <3>1, Commands DEF Replacing, At, Busy
  <2>5. Setting'
    BY <2>2, Commands DEF Setting
  <2>6. SetDone'
    <3>1. macro = SetFilt /\ macro' = Ok => filt' = fw.words
      BY <1>0, <1>16, <2>1, Outcome
    <3>2. goal' = IF At("setwait") THEN goal ELSE Unknown
      BY <1>16 DEF FirmwareFinish
    <3> QED
      BY <1>0, <2>1, <2>2, <3>1, <3>2, Commands DEF SetDone, Setting, At, Busy
  <2>7. Measuring'
    <3>1. macro = Measure /\ macro' = Ok => res' = res \cup fw.mask
      BY <1>0, <1>16, <2>1, Outcome
    <3> QED
      BY <1>0, <2>1, <2>2, <3>1, Commands DEF Measuring, At, Busy
  <2> QED
    BY <2>3, <2>4, <2>5, <2>6, <2>7 DEF Phases
<1>17. CASE UNCHANGED vars
  BY <1>0, <1>17 DEF vars, Phases, Storing, Replacing, Setting, SetDone, Measuring, At, Busy
<1> QED
  BY <1>2, <1>3, <1>4, <1>5, <1>6, <1>7, <1>8, <1>9, <1>10, <1>11, <1>12, <1>13, <1>14, <1>15,
     <1>16, <1>17 DEF Next

LEMMA Invariance == Spec => []IInv
<1>1. Init => IInv
  BY InitTyped, Commands DEF Init, Process, Idle, IInv, Phases, Storing, Replacing, Setting, SetDone,
                             Measuring, At
<1>2. IInv /\ [Next]_vars => IInv'
  BY Typed, PhasesKept DEF IInv
<1> QED
  BY <1>1, <1>2, PTL DEF Spec

\* Configuring one channel changes the filter of no other, and setting all sets
\* what was asked, for any number of channels and whatever was killed before.
THEOREM EveryFilterAsAsked == Spec => FiltersAsAsked
<1>1. IInv /\ [Next]_vars => [filt' # filt => macro = Reboot \/ goal = Unknown \/ filt' = goal]_vars
  <2> SUFFICES ASSUME IInv, Next, filt' # filt
               PROVE  macro = Reboot \/ goal = Unknown \/ filt' = goal
    OBVIOUS
  <2>1. CASE FirmwareFinish
    <3>1. fw.busy /\ Busy /\ TypeOK
      BY <2>1 DEF FirmwareFinish, IInv, Executes
    <3>2. (macro = SetFilt /\ filt' = fw.words) \/ macro = Reboot
      BY <2>1, <3>1, Outcome
    <3> QED
      BY <3>1, <3>2 DEF IInv, Phases, Setting
  <2>2. CASE ~ FirmwareFinish
    BY <2>2 DEF Next, Config, ConfigTcChnl, GetFilters, ReplaceOne, SetDirect, StoreFilter, SetFilters,
                FiltersSet, MeasureLoop, LoopMeasured, GetAnalogFilters, RunMacro, MacroDone,
                RebootBoard, Wake, Kill, FirmwareStart, board
  <2> QED
    BY <2>1, <2>2
<1> QED
  BY <1>1, Invariance, PTL DEF Spec, FiltersAsAsked

\* A call that set filters, and reports no error or goes on to the measurement,
\* has set them, for any number of channels.
THEOREM TrueSuccess == Spec => SuccessIsTrue
<1> DEFINE Success == /\ host.pc = "setwait" /\ goal # Unknown
                      /\ host'.pc = "measure" \/ (host'.pc = "idle" /\ macro = Ok)
                      => filt = goal /\ (host.op = "config" => filt[host.chnl] = host.code)
<1>1. IInv /\ [Next]_vars => [Success]_vars
  <2> SUFFICES ASSUME IInv, Next, host.pc = "setwait", goal # Unknown,
                      host'.pc = "measure" \/ (host'.pc = "idle" /\ macro = Ok)
               PROVE  filt = goal /\ (host.op = "config" => filt[host.chnl] = host.code)
    OBVIOUS
  <2>1. /\ macro \in {SetFilt, Ok, Failed}
        /\ macro = Ok => filt = goal
        /\ host.op = "config" => goal[host.chnl] = host.code
    <3>1. SetDone
      BY DEF IInv, Phases
    <3> QED
      BY <3>1 DEF SetDone, At
  <2>2. macro = Ok
    <3>1. CASE FiltersSet
      BY <2>1, <3>1, Commands DEF FiltersSet, Return, Idle, Busy
    <3>2. CASE ~ FiltersSet
      BY <3>2 DEF Next, Config, ConfigTcChnl, GetFilters, ReplaceOne, SetDirect, StoreFilter, SetFilters,
                  MeasureLoop, LoopMeasured, GetAnalogFilters, RunMacro, MacroDone, RebootBoard, Wake,
                  Kill, Idle, FirmwareStart, FirmwareFinish, At
    <3> QED
      BY <3>1, <3>2
  <2> QED
    BY <2>1, <2>2
<1> QED
  BY <1>1, Invariance, PTL DEF Spec, SuccessIsTrue

\* A measurement that a call has waited for is the one of its channel, whatever
\* commands and macros came before it.
THEOREM Readable == Spec => []MeasuredIsReadable
<1>1. IInv => MeasuredIsReadable
  BY DEF IInv, Phases, Measuring, MeasuredIsReadable
<1> QED
  BY <1>1, Invariance, PTL

=============================================================================
