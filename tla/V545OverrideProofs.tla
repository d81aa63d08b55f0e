-------------------------- MODULE V545OverrideProofs --------------------------
(***************************************************************************)
(* Proofs about V545Override, for any number of function blocks, override  *)
(* blocks and register pairs.                                              *)
(*                                                                         *)
(* A link keeps its pair until its block is being cleared.  A clear that   *)
(* is killed leaves a link with a half-zeroed pair; it does no harm        *)
(* because its block is disarmed, and the restarted program clears every   *)
(* block before it configures or arms one.  That is what Restarting says.  *)
(***************************************************************************)
EXTENDS V545Override, TLAPS

LEMMA ConstantFacts ==
  /\ FB \subseteq Nat /\ OB \subseteq Nat /\ Index \subseteq Nat
  /\ NumFB \in OB /\ 0 \in FB
  /\ None \notin Index /\ Wild \notin Index /\ Wild # None
  /\ Zero \in Entry
  /\ Idle \in Call
<1>1. /\ FB \subseteq Nat /\ OB \subseteq Nat /\ Index \subseteq Nat
      /\ NumFB \in OB /\ 0 \in FB
      /\ None \notin Index /\ Wild \notin Index /\ Wild # None
  BY OverrideAssumption DEF FB, OB, Index, None, Wild
<1>2. Zero \in Entry
  BY DEF Zero, Entry
<1> QED
  BY <1>1, <1>2 DEF Idle, Call, CallPc

LEMMA EncodeType ==
  ASSUME NEW code \in Function, NEW p \in Position, NEW v \in Velocity
  PROVE  Encode(code, p, v) \in Entry
BY DEF Encode, Entry, Least

LEMMA LinkType ==
  ASSUME TypeOK, NEW o \in OB, NEW f \in FB
  PROVE  ovr[o][f] \in Index \cup {Wild, None}
BY DEF TypeOK

\* Whatever is called, killed or reset, the registers hold what the board's
\* registers can hold and the call in progress is one of the library's.
THEOREM TypeCorrect == Spec => []TypeOK
<1> USE ConstantFacts
<1>1. Init => TypeOK
  BY DEF Init, TypeOK, NoFunction, NoLinks, AllFree, NoTargets
<1>2. TypeOK /\ [Next]_vars => TypeOK'
  <2> SUFFICES ASSUME TypeOK, [Next]_vars PROVE TypeOK'
    OBVIOUS
  <2>1. CASE FunctionStep
    <3>1. ASSUME NEW f \in FB, NEW code \in Function, ConfigFunction(f, code) PROVE TypeOK'
      BY <3>1 DEF ConfigFunction, TypeOK
    <3>2. ASSUME NEW f \in FB, ClearFunctionBlock(f) PROVE TypeOK'
      BY <3>2 DEF ClearFunctionBlock, TypeOK
    <3>3. CASE ClearFunctionBlocks
      BY <3>3 DEF ClearFunctionBlocks, TypeOK
    <3> QED
      BY <2>1, <3>1, <3>2, <3>3 DEF FunctionStep
  <2>2. ASSUME NEW o \in OB, NEW all \in BOOLEAN, StartClear(o, all) PROVE TypeOK'
    BY <2>2 DEF StartClear, TypeOK, Call, CallPc
  <2>3. CASE OverrideCall
    <3>1. ASSUME NEW o \in OB, NEW f \in FB, NEW p \in Position, NEW v \in Velocity,
                 ConfigOverride(o, f, p, v)
          PROVE  TypeOK'
      <4>1. FreeIndex \subseteq Index \cup {Wild}
        BY DEF FreeIndex, First, Free
      <4> QED
        <5>1. PICK i \in FreeIndex :
                call' = [Idle EXCEPT !.pc = "position", !.ob = o, !.fb = f, !.idx = i,
                                     !.entry = Encode(fun[f], p, v)]
          BY <3>1 DEF ConfigOverride
        <5>2. i \in Index \cup {Wild, None} /\ Encode(fun[f], p, v) \in Entry
          <6>1. fun[f] \in Function
            BY <3>1 DEF ConfigOverride, TypeOK, Output
          <6> QED
            BY <4>1, <6>1, EncodeType
        <5>3. call' \in Call
          BY <5>1, <5>2 DEF Call, CallPc
        <5> QED
          BY <3>1, <5>3 DEF ConfigOverride, TypeOK
    <3>2. ASSUME NEW o \in OB, ArmOverride(o) PROVE TypeOK'
      BY <3>2 DEF ArmOverride, TypeOK
    <3> QED
      BY <2>2, <2>3, <3>1, <3>2 DEF OverrideCall, ClearOverrideBlock, ClearOverrideBlocks
  <2>4. CASE Continue
    <3>1. CASE StorePosition
      <4>1. call' \in Call
        BY <3>1 DEF StorePosition, TypeOK, Call, CallPc
      <4>2. regfile' \in [Index -> Entry]
        BY <3>1 DEF StorePosition, TypeOK, Call, Entry
      <4> QED
        BY <3>1, <4>1, <4>2 DEF StorePosition, TypeOK
    <3>2. CASE StoreVelocity
      <4>1. call' \in Call
        BY <3>2 DEF StoreVelocity, TypeOK, Call, CallPc
      <4>2. regfile' \in [Index -> Entry]
        BY <3>2 DEF StoreVelocity, TypeOK, Call, Entry
      <4> QED
        BY <3>2, <4>1, <4>2 DEF StoreVelocity, TypeOK
    <3>3. CASE LinkOverride
      <4>1. ovr' \in [OB -> [FB -> Index \cup {Wild, None}]]
        BY <3>3 DEF LinkOverride, TypeOK, Call
      <4>2. target' \in [OB -> [FB -> Entry]]
        BY <3>3 DEF LinkOverride, TypeOK, Call
      <4> QED
        BY <3>3, <4>1, <4>2 DEF LinkOverride, TypeOK
    <3>4. CASE FindLink
      <4>1. PICK f \in FB, i \in Index \cup {Wild, None} :
              call' = [call EXCEPT !.pc = "zero_velocity", !.fb = f, !.idx = i]
        <5>1. PICK f \in First(ToRelease) :
                \E i \in IF ovr[call.ob][f] = Wild THEN Index \cup {Wild}
                         ELSE {ovr[call.ob][f]} :
                  call' = [call EXCEPT !.pc = "zero_velocity", !.fb = f, !.idx = i]
          BY <3>4 DEF FindLink
        <5>2. f \in FB
          BY DEF First, ToRelease
        <5>3. ovr[call.ob][f] \in Index \cup {Wild, None}
          <6>1. call.ob \in OB
            BY DEF TypeOK, Call
          <6> QED
            BY <5>2, <6>1, LinkType
        <5> QED
          BY <5>1, <5>2, <5>3
      <4>2. call' \in Call
        BY <4>1 DEF TypeOK, Call, CallPc
      <4> QED
        BY <3>4, <4>2 DEF FindLink, TypeOK
    <3>5. CASE ZeroVelocity
      <4>1. call' \in Call
        BY <3>5 DEF ZeroVelocity, TypeOK, Call, CallPc
      <4>2. regfile' \in [Index -> Entry]
        BY <3>5 DEF ZeroVelocity, TypeOK, Call, Entry
      <4> QED
        BY <3>5, <4>1, <4>2 DEF ZeroVelocity, TypeOK
    <3>6. CASE ZeroPosition
      <4>1. call' \in Call
        BY <3>6 DEF ZeroPosition, TypeOK, Call, CallPc
      <4>2. regfile' \in [Index -> Entry]
        BY <3>6 DEF ZeroPosition, TypeOK, Call, Entry
      <4> QED
        BY <3>6, <4>1, <4>2 DEF ZeroPosition, TypeOK
    <3>7. CASE Unlink
      <4>1. call' \in Call
        BY <3>7 DEF Unlink, TypeOK, Call, CallPc
      <4> QED
        BY <3>7, <4>1 DEF Unlink, TypeOK
    <3>8. CASE EndClear
      BY <2>2, <3>8 DEF EndClear, TypeOK, Call
    <3> QED
      BY <2>4, <3>1, <3>2, <3>3, <3>4, <3>5, <3>6, <3>7, <3>8 DEF Continue
  <2>5. CASE Reset
    BY <2>5 DEF Reset, TypeOK, NoFunction, NoLinks, AllFree, NoTargets
  <2>6. CASE RegfileUser
    <3>1. CASE ClearRegfile
      BY <3>1 DEF ClearRegfile, Overwrite, TypeOK, AllFree
    <3>2. CASE ReadPowerSupply
      <4>1. PowerEntries \in Nat
        BY OverrideAssumption
      <4> QED
        BY <3>2, <4>1 DEF ReadPowerSupply, Overwrite, TypeOK, Index
    <3>3. CASE LoadFlash
      BY <2>5, <3>3 DEF LoadFlash, Overwrite, TypeOK
    <3>4. CASE VerifyFlash
      BY <3>4 DEF VerifyFlash, Overwrite, TypeOK
    <3> QED
      BY <2>6, <3>1, <3>2, <3>3, <3>4 DEF RegfileUser
  <2>7. CASE UNCHANGED vars
    BY <2>7 DEF vars, TypeOK
  <2> QED
    BY <2>1, <2>2, <2>3, <2>4, <2>5, <2>6, <2>7 DEF Next, ResetBoard, KillAndRestart
<1> QED
  BY <1>1, <1>2, PTL DEF Spec

-----------------------------------------------------------------------------
(* The links and the pairs they name.                                        *)

ZeroPc  == {"zero_velocity", "zero_position", "unlink"}
ClearPc == {"release"} \cup ZeroPc

\* The link (o, f) is the one being taken apart.
Releasing(o, f) == call.pc \in ZeroPc /\ call.ob = o /\ call.fb = f

\* v545_clear_override_blocks() has yet to empty block o.
Restarting(o) == call.pc \in ClearPc /\ call.all /\ call.ob <= o /\ o \notin armed

Holds(o, f) == regfile[ovr[o][f]] = target[o][f] /\ target[o][f] # Zero

Exclusive ==
  \A o, p \in OB, f, g \in FB :
    Linked(o, f) /\ ovr[o][f] = ovr[p][g] => o = p /\ f = g

LinksHold ==
  \A o \in OB, f \in FB :
    Linked(o, f) =>
      /\ ovr[o][f] \in Index
      /\ Holds(o, f) \/ Releasing(o, f) \/ Restarting(o)

\* The pair being filled is not linked yet.
Storing ==
  call.pc \in {"position", "velocity", "link"} =>
    /\ call.idx \in Index
    /\ \A o \in OB, f \in FB : ovr[o][f] # call.idx
    /\ call.entry # Zero
    /\ call.pc \in {"velocity", "link"} => regfile[call.idx].pos = call.entry.pos
    /\ call.pc = "link" => regfile[call.idx] = call.entry

Clearing ==
  /\ call.pc \in ClearPc => call.ob \notin armed
  /\ call.pc \in ZeroPc => Linked(call.ob, call.fb) /\ call.idx = ovr[call.ob][call.fb]

Consistent == Exclusive /\ LinksHold /\ Storing /\ Clearing

\* What v545_clear_override_blocks() has passed is disarmed and has no links,
\* whatever the register file holds.
Emptied ==
  call.pc \in ClearPc =>
    /\ call.ob \notin armed
    /\ call.all =>
         \A o \in OB : o < call.ob => o \notin armed /\ \A f \in FB : ~ Linked(o, f)

IInv == Emptied /\ (spoiled \/ Consistent)

LEMMA EmptiedKept ==
  ASSUME TypeOK, Emptied, [Next]_vars
  PROVE  Emptied'
<1> USE DEF Emptied
<1>1. ASSUME NEW o \in OB, NEW all \in BOOLEAN, StartClear(o, all),
             all => \A p \in OB : p < o => p \notin armed /\ \A f \in FB : ~ Linked(p, f)
      PROVE  Emptied'
  BY <1>1 DEF StartClear, Idle, Linked
<1>2. \A p \in OB : ~ p < NumFB
  BY OverrideAssumption DEF OB
<1>3. CASE UNCHANGED vars
  BY <1>3 DEF vars, Linked
<1>4. CASE call'.pc \notin ClearPc
  BY <1>4
<1>5. CASE FindLink \/ ZeroVelocity \/ ZeroPosition
  <2>1. /\ UNCHANGED <<ovr, armed>>
        /\ call.pc \in ClearPc
        /\ call'.ob = call.ob /\ call'.all = call.all
    BY <1>5 DEF FindLink, ZeroVelocity, ZeroPosition, ClearPc, ZeroPc, TypeOK, Call
  <2> QED
    BY <2>1 DEF Linked
<1>6. CASE Unlink
  <2>1. /\ armed' = armed
        /\ call.pc \in ClearPc
        /\ call'.ob = call.ob /\ call'.all = call.all
        /\ call.ob \in OB
    BY <1>6 DEF Unlink, ClearPc, ZeroPc, TypeOK, Call
  <2>2. \A o \in OB, f \in FB : ~ Linked(o, f) => ~ Linked(o, f)'
    BY <1>6 DEF Unlink, Linked, TypeOK
  <2> QED
    BY <2>1, <2>2
<1>7. CASE EndClear
  <2>1. /\ call.pc = "release" /\ call.ob \in OB
        /\ \A f \in FB : ~ Linked(call.ob, f)
    BY <1>7 DEF EndClear, ToRelease, TypeOK, Call
  <2>2. CASE call.all /\ call.ob + 1 \in OB
    <3>1. \A p \in OB : p < call.ob + 1 => p < call.ob \/ p = call.ob
      BY <2>1, OverrideAssumption DEF OB
    <3>2. \A p \in OB : p < call.ob + 1 => p \notin armed /\ \A f \in FB : ~ Linked(p, f)
      BY <2>1, <2>2, <3>1 DEF ClearPc
    <3> QED
      BY <1>1, <1>7, <2>2, <3>2 DEF EndClear
  <2>3. CASE ~ (call.all /\ call.ob + 1 \in OB)
    <3>1. call' = Idle
      BY <1>7, <2>3 DEF EndClear
    <3> QED
      BY <3>1 DEF Idle, ClearPc, ZeroPc
  <2> QED
    BY <2>2, <2>3
<1>8. CASE KillAndRestart
  BY <1>1, <1>2, <1>8, ConstantFacts DEF KillAndRestart
<1>9. CASE OverrideCall
  <2>1. ASSUME NEW o \in OB, NEW f \in FB, NEW p \in Position, NEW v \in Velocity,
               ConfigOverride(o, f, p, v)
        PROVE  call'.pc \notin ClearPc
    BY <2>1 DEF ConfigOverride, Idle, ClearPc, ZeroPc
  <2>2. ASSUME NEW o \in OB, ArmOverride(o) PROVE call'.pc \notin ClearPc
    BY <2>2 DEF ArmOverride, ClearPc, ZeroPc
  <2> QED
    BY <1>1, <1>2, <1>4, <1>9, <2>1, <2>2, ConstantFacts
       DEF OverrideCall, ClearOverrideBlock, ClearOverrideBlocks
<1>10. CASE FunctionStep \/ RegfileUser \/ ResetBoard
  BY <1>4, <1>10 DEF FunctionStep, ConfigFunction, ClearFunctionBlock, ClearFunctionBlocks,
       RegfileUser, ClearRegfile, ReadPowerSupply, LoadFlash, VerifyFlash, Reset, ResetBoard,
       ClearPc, ZeroPc
<1>11. CASE StorePosition \/ StoreVelocity \/ LinkOverride
  BY <1>4, <1>11 DEF StorePosition, StoreVelocity, LinkOverride, Idle, TypeOK, Call,
       ClearPc, ZeroPc
<1> QED
  BY <1>3, <1>5, <1>6, <1>7, <1>8, <1>9, <1>10, <1>11 DEF Next, Continue

\* After the last block of a clear of all blocks, nothing is armed or linked.
LEMMA NothingLeft ==
  ASSUME TypeOK, Emptied, EndClear, call.all, call'.pc = "idle"
  PROVE  armed' = {} /\ ovr' = NoLinks
<1>1. /\ call.pc = "release" /\ call.ob \in OB
      /\ \A f \in FB : ~ Linked(call.ob, f)
  BY DEF EndClear, ToRelease, TypeOK, Call
<1>2. call.ob + 1 \notin OB /\ UNCHANGED <<armed, ovr>>
  BY DEF EndClear, StartClear, Idle
<1>3. \A o \in OB : o < call.ob \/ o = call.ob
  BY <1>1, <1>2, OverrideAssumption DEF OB
<1>4. \A o \in OB : o \notin armed /\ \A f \in FB : ovr[o][f] = None
  BY <1>1, <1>3 DEF Emptied, ClearPc, Linked
<1>5. ovr \in [OB -> [FB -> Index \cup {Wild, None}]] /\ armed \subseteq OB
  BY DEF TypeOK
<1>6. \A o \in OB : ovr[o] = [f \in FB |-> None]
  BY <1>4, <1>5
<1>7. ovr = NoLinks
  BY <1>5, <1>6 DEF NoLinks
<1> QED
  BY <1>2, <1>4, <1>5, <1>7

LEMMA Linking ==
  ASSUME TypeOK, Consistent, NEW o \in OB, NEW f \in FB,
         NEW p \in Position, NEW v \in Velocity, ConfigOverride(o, f, p, v), ~ spoiled'
  PROVE  Consistent'
<1>1. PICK i \in FreeIndex :
        call' = [Idle EXCEPT !.pc = "position", !.ob = o, !.fb = f, !.idx = i,
                             !.entry = Encode(fun[f], p, v)]
  BY DEF ConfigOverride
<1>2. i \in Index /\ regfile[i] = Zero
  BY DEF ConfigOverride, FreeIndex, First, Free, TypeOK
<1>3. Encode(fun[f], p, v) # Zero
  BY DEF ConfigOverride
<1>4. call'.pc = "position" /\ call'.idx = i /\ call'.entry = Encode(fun[f], p, v)
  BY <1>1 DEF Idle
<1>5. \A q \in OB, g \in FB : Linked(q, g) => ovr[q][g] \in Index /\ Holds(q, g)
  BY DEF Consistent, LinksHold, Releasing, Restarting, ZeroPc, ClearPc, ConfigOverride
<1>6. \A q \in OB, g \in FB : ovr[q][g] # i
  BY <1>2, <1>5, ConstantFacts DEF Linked, Holds
<1>7. UNCHANGED <<armed, ovr, regfile, target>>
  BY DEF ConfigOverride
<1>8. Exclusive' /\ LinksHold'
  BY <1>5, <1>7 DEF Consistent, Exclusive, LinksHold, Linked, Holds
<1>9. Storing'
  BY <1>2, <1>3, <1>4, <1>6, <1>7 DEF Storing
<1>10. Clearing'
  BY <1>4 DEF Clearing, ClearPc, ZeroPc
<1> QED
  BY <1>8, <1>9, <1>10 DEF Consistent

\* The three stores of v545_config_override_position_velocity().
LEMMA StoringSteps ==
  ASSUME TypeOK, Consistent,
         StorePosition \/ StoreVelocity \/ LinkOverride
  PROVE  Consistent'
<1> USE DEF Consistent
<1>1. /\ call.idx \in Index /\ call.ob \in OB /\ call.fb \in FB /\ call.entry # Zero
      /\ \A o \in OB, f \in FB : ovr[o][f] # call.idx
  BY DEF StorePosition, StoreVelocity, LinkOverride, Storing, TypeOK, Call
<1>2. \A q \in OB, g \in FB : Linked(q, g) => ovr[q][g] \in Index /\ Holds(q, g)
  BY DEF LinksHold, Releasing, Restarting, ZeroPc, ClearPc,
         StorePosition, StoreVelocity, LinkOverride
<1>3. CASE StorePosition \/ StoreVelocity
  <2>1. /\ UNCHANGED <<armed, ovr, target>>
        /\ call'.pc \in {"velocity", "link"}
        /\ call'.idx = call.idx /\ call'.entry = call.entry
        /\ \A i \in Index : i # call.idx => regfile'[i] = regfile[i]
    BY <1>3 DEF StorePosition, StoreVelocity, TypeOK, Call
  <2>2. Exclusive' /\ LinksHold'
    BY <1>1, <1>2, <2>1 DEF Exclusive, LinksHold, Linked, Holds
  <2>3. Storing'
    <3>1. regfile'[call.idx].pos = call.entry.pos
      BY <1>1, <1>3 DEF StorePosition, StoreVelocity, Storing, TypeOK, Entry
    <3>2. call'.pc = "link" => regfile'[call.idx] = call.entry
      <4> SUFFICES ASSUME call'.pc = "link" PROVE regfile'[call.idx] = call.entry
        OBVIOUS
      <4>1. regfile'[call.idx] = [regfile[call.idx] EXCEPT !.vel = call.entry.vel]
        BY <1>1, <1>3 DEF StorePosition, StoreVelocity, TypeOK, Call
      <4>2. regfile[call.idx] \in Entry /\ call.entry \in Entry
        BY <1>1 DEF TypeOK, Call
      <4> QED
        BY <3>1, <4>1, <4>2 DEF Entry
    <3> QED
      BY <1>1, <2>1, <3>1, <3>2 DEF Storing
  <2>4. Clearing'
    BY <2>1 DEF Clearing, ClearPc, ZeroPc
  <2> QED
    BY <2>2, <2>3, <2>4
<1>4. CASE LinkOverride
  <2>1. /\ \A o \in OB, f \in FB : ovr'[o][f] = IF o = call.ob /\ f = call.fb THEN call.idx
                                                                          ELSE ovr[o][f]
        /\ \A o \in OB, f \in FB : target'[o][f] = IF o = call.ob /\ f = call.fb
                                                   THEN call.entry ELSE target[o][f]
        /\ regfile' = regfile /\ call' = Idle
        /\ regfile[call.idx] = call.entry
    BY <1>1, <1>4 DEF LinkOverride, TypeOK, Storing
  <2>2. Exclusive'
    BY <1>1, <2>1 DEF Exclusive, Linked
  <2>3. LinksHold'
    BY <1>1, <1>2, <2>1 DEF LinksHold, Linked, Holds
  <2> QED
    BY <2>1, <2>2, <2>3 DEF Storing, Clearing, Idle, ClearPc, ZeroPc
<1> QED
  BY <1>3, <1>4

\* A clear begins, by a call or because the program was restarted.
LEMMA ClearStarts ==
  ASSUME TypeOK, Consistent, NEW o \in OB, NEW all \in BOOLEAN, StartClear(o, all),
         \A p \in OB, f \in FB :
           Linked(p, f) => Holds(p, f) \/ (all /\ o <= p /\ p \notin armed)
  PROVE  Consistent'
<1>1. /\ call'.pc = "release" /\ call'.ob = o /\ call'.all = all
      /\ armed' = armed \ {o}
      /\ UNCHANGED <<ovr, regfile, target>>
  BY DEF StartClear, Idle
<1>2. Exclusive' /\ LinksHold'
  BY <1>1 DEF Consistent, Exclusive, LinksHold, Linked, Holds, Restarting, ClearPc
<1> QED
  BY <1>1, <1>2 DEF Consistent, Storing, Clearing, ZeroPc

\* The steps that take the links of one block apart.
LEMMA ClearingSteps ==
  ASSUME TypeOK, Consistent, FindLink \/ ZeroVelocity \/ ZeroPosition \/ Unlink
  PROVE  Consistent'
<1> USE DEF Consistent
<1>1. /\ call.ob \in OB /\ call.ob \notin armed /\ armed' = armed
      /\ call'.ob = call.ob /\ call'.all = call.all
      /\ call.pc \in ClearPc /\ call'.pc \in ClearPc
  BY DEF FindLink, ZeroVelocity, ZeroPosition, Unlink, Clearing, ClearPc, ZeroPc, TypeOK, Call
<1>2. CASE FindLink
  <2>1. PICK f \in First(ToRelease) :
          \E i \in IF ovr[call.ob][f] = Wild THEN Index \cup {Wild} ELSE {ovr[call.ob][f]} :
            call' = [call EXCEPT !.pc = "zero_velocity", !.fb = f, !.idx = i]
    BY <1>2 DEF FindLink
  <2>2. f \in FB /\ Linked(call.ob, f)
    BY DEF First, ToRelease
  <2>3. ovr[call.ob][f] # Wild
    BY <1>1, <2>2, ConstantFacts DEF LinksHold
  <2>4. call'.pc = "zero_velocity" /\ call'.fb = f /\ call'.idx = ovr[call.ob][f]
    BY <2>1, <2>3 DEF TypeOK, Call
  <2>5. UNCHANGED <<ovr, regfile, target>>
    BY <1>2 DEF FindLink
  <2>6. Exclusive' /\ Storing' /\ Clearing'
    BY <1>1, <2>2, <2>4, <2>5 DEF Exclusive, Storing, Clearing, Linked
  <2>7. LinksHold'
    BY <1>1, <1>2, <2>5 DEF LinksHold, Linked, Holds, Releasing, Restarting, FindLink, ZeroPc
  <2> QED
    BY <2>6, <2>7
<1>3. CASE ZeroVelocity \/ ZeroPosition
  <2>1. /\ UNCHANGED <<ovr, target>>
        /\ call.pc \in ZeroPc /\ call'.pc \in ZeroPc
        /\ call'.fb = call.fb /\ call'.idx = call.idx
        /\ \A i \in Index : i # call.idx => regfile'[i] = regfile[i]
    BY <1>3 DEF ZeroVelocity, ZeroPosition, ZeroPc, TypeOK, Call
  <2>2. Exclusive' /\ Storing' /\ Clearing'
    BY <1>1, <2>1 DEF Exclusive, Storing, Clearing, Linked, ZeroPc
  <2>3. LinksHold'
    <3> SUFFICES ASSUME NEW o \in OB, NEW f \in FB, Linked(o, f)'
                 PROVE  /\ ovr'[o][f] \in Index
                        /\ Holds(o, f)' \/ Releasing(o, f)' \/ Restarting(o)'
      BY DEF LinksHold
    <3>1. Linked(o, f) /\ ovr[o][f] \in Index
      BY <2>1 DEF Linked, LinksHold
    <3>2. CASE ovr[o][f] = call.idx
      <4>1. o = call.ob /\ f = call.fb
        BY <2>1, <3>1, <3>2, <1>1 DEF Clearing, Exclusive, TypeOK, Call
      <4> QED
        BY <1>1, <2>1, <3>1, <4>1 DEF Releasing
    <3>3. CASE ovr[o][f] # call.idx
      BY <1>1, <2>1, <3>1, <3>3 DEF LinksHold, Holds, Releasing, Restarting
    <3> QED
      BY <3>2, <3>3
  <2> QED
    BY <2>2, <2>3
<1>4. CASE Unlink
  <2>1. /\ call'.pc = "release" /\ regfile' = regfile
        /\ \A o \in OB, f \in FB : ovr'[o][f] = IF o = call.ob /\ f = call.fb THEN None
                                                                          ELSE ovr[o][f]
        /\ \A o \in OB, f \in FB : target'[o][f] = IF o = call.ob /\ f = call.fb
                                                   THEN Zero ELSE target[o][f]
    BY <1>4 DEF Unlink, TypeOK, Call
  <2>2. Exclusive' /\ Storing' /\ Clearing'
    BY <1>1, <2>1 DEF Exclusive, Storing, Clearing, Linked, ClearPc, ZeroPc
  <2>3. LinksHold'
    BY <1>1, <2>1 DEF LinksHold, Linked, Holds, Releasing, Restarting
  <2> QED
    BY <2>2, <2>3
<1> QED
  BY <1>2, <1>3, <1>4


\* Without links there is nothing to hold, outside a call.
LEMMA Unlinked ==
  ASSUME ovr' = NoLinks, call'.pc = "idle"
  PROVE  Consistent'
BY DEF Consistent, Exclusive, LinksHold, Storing, Clearing, Linked, NoLinks, ClearPc, ZeroPc

LEMMA Inductive ==
  ASSUME TypeOK, IInv, [Next]_vars
  PROVE  IInv'
<1>a. Emptied'
  BY EmptiedKept DEF IInv
<1> SUFFICES ASSUME ~ spoiled' PROVE Consistent'
  BY <1>a DEF IInv
<1>b. CASE ovr' = NoLinks /\ call'.pc = "idle"
  BY <1>b, Unlinked
<1> SUFFICES ASSUME ~ (ovr' = NoLinks /\ call'.pc = "idle") PROVE Consistent'
  BY <1>b
<1>1. ~ spoiled /\ Consistent
  <2>1. CASE EndClear
    <3>1. CASE call.all /\ call.ob + 1 \in OB
      BY <2>1, <3>1 DEF EndClear, StartClear, IInv
    <3>2. CASE ~ (call.all /\ call.ob + 1 \in OB)
      <4>1. call'.pc = "idle"
        <5>1. call' = Idle
          BY <2>1, <3>2 DEF EndClear
        <5> QED
          BY <5>1 DEF Idle
      <4>2. ~ call.all
        BY <2>1, <4>1, NothingLeft DEF IInv
      <4>3. spoiled' = (spoiled /\ ~ call.all)
        BY <2>1, <3>2 DEF EndClear
      <4> QED
        BY <4>2, <4>3 DEF IInv
    <3> QED
      BY <3>1, <3>2
  <2>2. CASE Reset /\ call.pc = "idle"
    BY <2>2 DEF Reset
  <2>3. ~ EndClear /\ ~ (Reset /\ call.pc = "idle") => (spoiled => spoiled')
    BY DEF Next, vars, FunctionStep, ConfigFunction, ClearFunctionBlock,
           ClearFunctionBlocks, OverrideCall, ConfigOverride, ArmOverride,
           ClearOverrideBlock, ClearOverrideBlocks, StartClear, Continue, StorePosition,
           StoreVelocity, LinkOverride, FindLink, ZeroVelocity, ZeroPosition, Unlink,
           RegfileUser, ClearRegfile, ReadPowerSupply, LoadFlash, VerifyFlash, Overwrite,
           ResetBoard, KillAndRestart
  <2> QED
    BY <2>1, <2>2, <2>3 DEF IInv
<1> USE <1>1
<1>2. CASE FunctionStep
  BY <1>2 DEF FunctionStep, ConfigFunction, ClearFunctionBlock, ClearFunctionBlocks, Consistent,
              Exclusive, LinksHold, Storing, Clearing, Linked, Holds, Releasing, Restarting
<1>3. CASE OverrideCall
  <2>1. ASSUME NEW o \in OB, NEW f \in FB, NEW p \in Position, NEW v \in Velocity,
               ConfigOverride(o, f, p, v)
        PROVE  Consistent'
    BY <2>1, Linking
  <2>2. ASSUME NEW o \in OB, ArmOverride(o) PROVE Consistent'
    BY <2>2 DEF ArmOverride, Consistent, Exclusive, LinksHold, Storing, Clearing, Linked, Holds,
                Releasing, Restarting, ClearPc, ZeroPc
  <2>3. ASSUME call.pc = "idle", NEW o \in OB, NEW all \in BOOLEAN, StartClear(o, all)
        PROVE  Consistent'
    <3>1. \A p \in OB, f \in FB : Linked(p, f) => Holds(p, f)
      BY <2>3 DEF Consistent, LinksHold, Releasing, Restarting, ClearPc, ZeroPc
    <3> QED
      BY <2>3, <3>1, ClearStarts
  <2> QED
    BY <1>3, <2>1, <2>2, <2>3, ConstantFacts
       DEF OverrideCall, ClearOverrideBlock, ClearOverrideBlocks
<1>4. CASE Continue
  <2>1. CASE EndClear
    <3>1. /\ call.ob \in OB /\ call.all \in BOOLEAN
          /\ \A f \in FB : ~ Linked(call.ob, f)
          /\ call.pc = "release"
      BY <2>1 DEF EndClear, ToRelease, TypeOK, Call
    <3>2. \A p \in OB, f \in FB :
            Linked(p, f) => Holds(p, f) \/ (call.all /\ call.ob + 1 <= p /\ p \notin armed)
      <4>1. \A p \in OB, f \in FB :
              Linked(p, f) => p # call.ob /\ (Holds(p, f) \/ Restarting(p))
        BY <3>1 DEF Consistent, LinksHold, Releasing, ZeroPc
      <4>2. \A p \in OB : p # call.ob /\ call.ob <= p => call.ob + 1 <= p
        BY <3>1, OverrideAssumption DEF OB
      <4> QED
        BY <4>1, <4>2 DEF Restarting
    <3>3. CASE call.all /\ call.ob + 1 \in OB
      BY <2>1, <3>2, <3>3, ClearStarts DEF EndClear
    <3>4. CASE ~ (call.all /\ call.ob + 1 \in OB)
      <4>1. call' = Idle /\ UNCHANGED <<armed, ovr, regfile, target>>
        BY <2>1, <3>4 DEF EndClear
      <4>2. \A p \in OB : ~ (call.all /\ call.ob + 1 <= p)
        BY <3>1, <3>4, OverrideAssumption DEF OB
      <4> QED
        BY <3>2, <4>1, <4>2 DEF Consistent, Exclusive, LinksHold, Storing, Clearing, Linked, Holds,
                                Idle, ClearPc, ZeroPc
    <3> QED
      BY <3>3, <3>4
  <2> QED
    BY <1>4, <2>1, StoringSteps, ClearingSteps DEF Continue
<1>5. CASE RegfileUser
  <2>1. (ovr' = ovr /\ Overwrite /\ call'.pc = "idle") \/ (Reset /\ call.pc = "idle")
    BY <1>5 DEF RegfileUser, ClearRegfile, ReadPowerSupply, LoadFlash, VerifyFlash
  <2> QED
    BY <2>1 DEF Overwrite, Reset
<1>6. CASE ResetBoard
  BY <1>6 DEF ResetBoard, Reset
<1>7. CASE KillAndRestart
  <2>1. \A p \in OB, f \in FB :
          Linked(p, f) => Holds(p, f) \/ (NumFB <= p /\ p \notin armed)
    <3>1. \A p \in OB : NumFB <= p
      BY OverrideAssumption DEF OB
    <3>2. \A p \in OB, f \in FB : Linked(p, f) => Holds(p, f) \/ p \notin armed
      BY DEF Consistent, LinksHold, Releasing, Restarting, Clearing, ClearPc
    <3> QED
      BY <3>1, <3>2
  <2> QED
    BY <1>7, <2>1, ConstantFacts, ClearStarts DEF KillAndRestart
<1>8. CASE UNCHANGED vars
  BY <1>8 DEF vars, Consistent, Exclusive, LinksHold, Storing, Clearing, Linked, Holds,
              Releasing, Restarting
<1> QED
  BY <1>2, <1>3, <1>4, <1>5, <1>6, <1>7, <1>8 DEF Next

\* The inductive invariant: the links, the pairs they name and the steps of a
\* call in progress agree, unless the register file has been spoiled; and a
\* clear of all blocks leaves nothing behind it, spoiled or not.
THEOREM Invariant == Spec => []IInv
<1>1. Init => IInv
  BY DEF Init, IInv, Emptied, Consistent, Exclusive, LinksHold, Storing, Clearing, Linked,
         NoLinks, Idle, ClearPc, ZeroPc
<1>2. TypeOK /\ IInv /\ [Next]_vars => IInv'
  BY Inductive
<1> QED
  BY <1>1, <1>2, TypeCorrect, PTL DEF Spec

\* An armed block drives every linked output to the target it was last
\* configured with, for any sequence of calls, killed anywhere: from the start,
\* a reset or a clear of all blocks on, until a request finds no free pair or
\* converts to (0, 0), or the pairs in use are written by another call.
THEOREM ArmedTargetsHold == Spec => []ArmedTargetsUntilSpoiled
<1>1. TypeOK /\ IInv => ArmedTargetsUntilSpoiled
  <2> SUFFICES ASSUME armed \subseteq OB, Consistent, NEW o \in armed, NEW f \in FB,
                      Linked(o, f)
               PROVE  ovr[o][f] \in Index /\ regfile[ovr[o][f]] = target[o][f]
    BY DEF TypeOK, IInv, ArmedTargetsUntilSpoiled, ArmedTargets
  <2> QED
    BY DEF Consistent, LinksHold, Clearing, Releasing, Restarting, Holds, ClearPc
<1> QED
  BY <1>1, Invariant, TypeCorrect, PTL

\* Over the same stretches, two links never share a pair.
THEOREM PairsExclusive == Spec => []ExclusivePairs
<1>1. IInv => ExclusivePairs
  BY DEF IInv, Consistent, Exclusive, ExclusivePairs
<1> QED
  BY <1>1, Invariant, PTL

\* v545_clear_override_blocks() disarms every block and takes every link apart,
\* also when an earlier clear or configuration was killed half way and whatever
\* the register file and wild links hold.
THEOREM ClearsAll == Spec => ClearLeavesNothing
<1>1. TypeOK /\ IInv =>
        (EndClear /\ call.all /\ call'.pc = "idle" => armed' = {} /\ ovr' = NoLinks)
  BY NothingLeft DEF IInv
<1> QED
  BY <1>1, Invariant, TypeCorrect, PTL DEF ClearLeavesNothing

=============================================================================
