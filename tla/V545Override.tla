----------------------------- MODULE V545Override -----------------------------
(***************************************************************************)
(* The override blocks of a V545 board and the register file they share    *)
(* (lib/v545_utils/v545_utils.c).  When an armed override block trips, the *)
(* board drives each output linked to it to the (position, velocity) pair  *)
(* of the register file the link points to.                                *)
(*                                                                         *)
(* The library keeps no table of its own: which pairs are in use is        *)
(* recovered from the register file, a pair being free when both words are *)
(* zero.  The same file is the buffer of the flash and power-supply        *)
(* macros.  One action is one register access of the host wherever the     *)
(* board could trip a block in between, otherwise one library call.        *)
(*                                                                         *)
(* Positions and velocities are the counts a request converts to.  A call  *)
(* with a channel out of range, or for a function block that is no output, *)
(* changes nothing and is no action.                                       *)
(***************************************************************************)
EXTENDS Integers

CONSTANTS
  NumFB,        \* function blocks (12)
  NumOB,        \* override blocks (4), numbered after the function blocks
  NumEntries,   \* pairs in the register file (32)
  PowerEntries, \* pairs the power-supply macro fills (4)
  Function,     \* function codes the application configures
  Position,     \* counts its target positions convert to
  Velocity,     \* counts its target velocities convert to, before the minimum
  Uses          \* the calls below that the application makes

Optional == {"clear_regfile", "read_power_supply", "load_flash", "verify_flash"}
Input    == {"lvdt_rvdt_input", "synchro_resolver_input"}
Output   == {"lvdt_rvdt_output", "synchro_resolver_output"}

ASSUME OverrideAssumption ==
  /\ NumFB \in Nat \ {0}
  /\ NumOB \in Nat \ {0}
  /\ NumEntries \in Nat \ {0}
  /\ PowerEntries \in 0..NumEntries
  /\ Function \subseteq Input \cup Output
  /\ Position \subseteq Int
  /\ Velocity \subseteq Int
  /\ Uses \subseteq Optional

VARIABLES
  fun,       \* FUN register of each function block
  armed,     \* override blocks whose FUN register is not 0
  ovr,       \* OVR registers: for each override block, a link per function block
  regfile,   \* the register file
  call,      \* the library call in progress
  target,    \* history: what each link was last configured with
  spoiled    \* history: the register file no longer tells which pairs are in use

vars == <<fun, armed, ovr, regfile, call, target, spoiled>>

FB     == 0..(NumFB - 1)
OB     == NumFB..(NumFB + NumOB - 1)
Index  == 0..(NumEntries - 1)
Wild   == NumEntries     \* an index outside the register file
None   == -1             \* OVR register is 0
Zero   == [pos |-> 0, vel |-> 0]
Least  == IF "synchro_resolver_output" \in Function THEN {1} ELSE {}
Entry  == [pos: Position \cup {0}, vel: Velocity \cup Least \cup {0}]
Idle   == [pc |-> "idle", ob |-> NumFB, fb |-> 0, idx |-> None, entry |-> Zero,
           all |-> FALSE]

CallPc == {"idle", "position", "velocity", "link",
           "release", "zero_velocity", "zero_position", "unlink"}

Call   == [pc: CallPc, ob: OB, fb: FB, idx: Index \cup {Wild, None}, entry: Entry,
           all: BOOLEAN]

TypeOK ==
  /\ fun \in [FB -> {"none"} \cup Function]
  /\ armed \subseteq OB
  /\ ovr \in [OB -> [FB -> Index \cup {Wild, None}]]
  /\ regfile \in [Index -> Entry]
  /\ call \in Call
  /\ target \in [OB -> [FB -> Entry]]
  /\ spoiled \in BOOLEAN

NoFunction == [f \in FB |-> "none"]
NoLinks    == [o \in OB |-> [f \in FB |-> None]]
NoTargets  == [o \in OB |-> [f \in FB |-> Zero]]
AllFree    == [i \in Index |-> Zero]

Init ==
  /\ fun = NoFunction
  /\ armed = {}
  /\ ovr = NoLinks
  /\ regfile = AllFree
  /\ call = Idle
  /\ target = NoTargets
  /\ spoiled = FALSE

Linked(o, f) == ovr[o][f] # None
First(S)     == {i \in S : \A j \in S : i <= j}  \* the smallest member, if any

-----------------------------------------------------------------------------
(* Function blocks.                                                          *)

\* The v545_config_* calls leave the code in FUN, whether or not the board
\* accepts it (V545FunctionBlock models them in detail).
ConfigFunction(f, code) ==
  /\ call.pc = "idle"
  /\ fun' = [fun EXCEPT ![f] = code]
  /\ UNCHANGED <<armed, ovr, regfile, call, target, spoiled>>

ClearFunctionBlock(f) ==
  /\ call.pc = "idle"
  /\ fun[f] # "none"
  /\ fun' = [fun EXCEPT ![f] = "none"]
  /\ UNCHANGED <<armed, ovr, regfile, call, target, spoiled>>

\* The loop over all blocks returns at the first one that is not configured.
ClearFunctionBlocks ==
  /\ call.pc = "idle"
  /\ fun' = [f \in FB |-> IF \A g \in 0..f : fun[g] # "none" THEN "none" ELSE fun[f]]
  /\ UNCHANGED <<armed, ovr, regfile, call, target, spoiled>>

-----------------------------------------------------------------------------
(* v545_config_override_position_velocity().                                 *)

\* LVDT/RVDT velocities are truncated to counts, possibly to 0; those of
\* synchros and resolvers are at least 1 count.
Encode(code, p, v) ==
  [pos |-> p, vel |-> IF code = "synchro_resolver_output" /\ v < 1 THEN 1 ELSE v]

\* Mutant: only the velocity is compared with zero.
FreeByVelocity == {i \in Index : regfile[i].vel = 0}

Free == {i \in Index : regfile[i] = Zero}

\* v545_override_get_regfile_index(): the first free pair.  If there is none it
\* reports success and leaves the caller's index uninitialized: any number, and
\* outside the file the stores that follow miss it (or fault, see
\* KillAndRestart).
FreeIndex == IF Free # {} THEN First(Free) ELSE Index \cup {Wild}

ConfigOverride(o, f, p, v) ==
  /\ call.pc = "idle"
  /\ fun[f] \in Output
  /\ \E i \in FreeIndex :
       call' = [Idle EXCEPT !.pc = "position", !.ob = o, !.fb = f, !.idx = i,
                            !.entry = Encode(fun[f], p, v)]
  /\ spoiled' = (spoiled \/ Free = {} \/ Encode(fun[f], p, v) = Zero)
  /\ UNCHANGED <<fun, armed, ovr, regfile, target>>

StorePosition ==
  /\ call.pc = "position"
  /\ regfile' = [i \in Index |-> IF i = call.idx THEN [regfile[i] EXCEPT !.pos = call.entry.pos]
                                                 ELSE regfile[i]]
  /\ call' = [call EXCEPT !.pc = "velocity"]
  /\ UNCHANGED <<fun, armed, ovr, target, spoiled>>

StoreVelocity ==
  /\ call.pc = "velocity"
  /\ regfile' = [i \in Index |-> IF i = call.idx THEN [regfile[i] EXCEPT !.vel = call.entry.vel]
                                                 ELSE regfile[i]]
  /\ call' = [call EXCEPT !.pc = "link"]
  /\ UNCHANGED <<fun, armed, ovr, target, spoiled>>

\* Mutant: the number of the word is taken for the number of the pair.
LinkOverrideUnscaled ==
  /\ call.pc = "link"
  /\ ovr' = [ovr EXCEPT ![call.ob][call.fb] = 2 * call.idx]
  /\ target' = [target EXCEPT ![call.ob][call.fb] = call.entry]
  /\ call' = Idle
  /\ UNCHANGED <<fun, armed, regfile, spoiled>>

\* The link is written last, over an earlier one whose pair stays as it is.
LinkOverride ==
  /\ call.pc = "link"
  /\ ovr' = [ovr EXCEPT ![call.ob][call.fb] = call.idx]
  /\ target' = [target EXCEPT ![call.ob][call.fb] = call.entry]
  /\ call' = Idle
  /\ UNCHANGED <<fun, armed, regfile, spoiled>>

\* v545_config_override_switch(), _swtrigger() and _watchdog() differ in what
\* trips the block; each writes its code to FUN last.
ArmOverride(o) ==
  /\ call.pc = "idle"
  /\ armed' = armed \cup {o}
  /\ UNCHANGED <<fun, ovr, regfile, call, target, spoiled>>

-----------------------------------------------------------------------------
(* v545_clear_override_block() and v545_clear_override_blocks().             *)

\* The block is disarmed first.
StartClear(o, all) ==
  /\ armed' = armed \ {o}
  /\ call' = [Idle EXCEPT !.pc = "release", !.ob = o, !.all = all]
  /\ UNCHANGED <<fun, ovr, regfile, target, spoiled>>

\* Mutant: FUN keeps its code.
ClearOverrideBlockArmed(o) ==
  /\ call.pc = "idle"
  /\ call' = [Idle EXCEPT !.pc = "release", !.ob = o]
  /\ UNCHANGED <<fun, armed, ovr, regfile, target, spoiled>>

ClearOverrideBlock(o) == call.pc = "idle" /\ StartClear(o, FALSE)

ClearOverrideBlocks == call.pc = "idle" /\ StartClear(NumFB, TRUE)

ToRelease == {f \in FB : Linked(call.ob, f)}

\* The next linked function block: its pair is looked up through the link.  Of
\* a wild link 6 bits of the index are left, so it leads to any pair, or past
\* the end of the file.
FindLink ==
  /\ call.pc = "release"
  /\ \E f \in First(ToRelease) :
       \E i \in IF ovr[call.ob][f] = Wild THEN Index \cup {Wild} ELSE {ovr[call.ob][f]} :
         call' = [call EXCEPT !.pc = "zero_velocity", !.fb = f, !.idx = i]
  /\ UNCHANGED <<fun, armed, ovr, regfile, target, spoiled>>

ZeroVelocity ==
  /\ call.pc = "zero_velocity"
  /\ regfile' = [i \in Index |-> IF i = call.idx THEN [regfile[i] EXCEPT !.vel = 0]
                                                 ELSE regfile[i]]
  /\ call' = [call EXCEPT !.pc = "zero_position"]
  /\ UNCHANGED <<fun, armed, ovr, target, spoiled>>

ZeroPosition ==
  /\ call.pc = "zero_position"
  /\ regfile' = [i \in Index |-> IF i = call.idx THEN [regfile[i] EXCEPT !.pos = 0]
                                                 ELSE regfile[i]]
  /\ call' = [call EXCEPT !.pc = "unlink"]
  /\ UNCHANGED <<fun, armed, ovr, target, spoiled>>

Unlink ==
  /\ call.pc = "unlink"
  /\ ovr' = [ovr EXCEPT ![call.ob][call.fb] = None]
  /\ target' = [target EXCEPT ![call.ob][call.fb] = Zero]
  /\ call' = [call EXCEPT !.pc = "release", !.idx = None]
  /\ UNCHANGED <<fun, armed, regfile, spoiled>>

\* Mutant: the loop over the blocks ends one block early.
EndClearEarly ==
  /\ call.pc = "release"
  /\ ToRelease = {}
  /\ IF call.all /\ call.ob + 2 \in OB
     THEN StartClear(call.ob + 1, TRUE)
     ELSE /\ call' = Idle
          /\ UNCHANGED <<fun, armed, ovr, regfile, target, spoiled>>

\* No link is left: the call returns, or goes on to the next block.  With no
\* link on any block every pair in use is known again.
EndClear ==
  /\ call.pc = "release"
  /\ ToRelease = {}
  /\ IF call.all /\ call.ob + 1 \in OB
     THEN StartClear(call.ob + 1, TRUE)
     ELSE /\ call' = Idle
          /\ spoiled' = (spoiled /\ ~ call.all)
          /\ UNCHANGED <<fun, armed, ovr, regfile, target>>

-----------------------------------------------------------------------------
(* The other users of the register file.                                     *)

\* The contents of the pairs are lost, which matters if some are in use.
Overwrite == spoiled' = (spoiled \/ ovr # NoLinks)

ClearRegfile ==
  /\ "clear_regfile" \in Uses
  /\ call.pc = "idle"
  /\ regfile' = AllFree
  /\ Overwrite
  /\ UNCHANGED <<fun, armed, ovr, call, target>>

\* READ_POWER_SUPPLY: the board answers in the first words of the file.
ReadPowerSupply ==
  /\ "read_power_supply" \in Uses
  /\ call.pc = "idle"
  /\ \E answer \in [0..(PowerEntries - 1) -> Entry] :
       regfile' = [i \in Index |-> IF i < PowerEntries THEN answer[i] ELSE regfile[i]]
  /\ Overwrite
  /\ UNCHANGED <<fun, armed, ovr, call, target>>

\* V545_MACRO_RESET: the board powers up again.
Reset ==
  /\ fun' = NoFunction
  /\ armed' = {}
  /\ ovr' = NoLinks
  /\ regfile' = AllFree
  /\ target' = NoTargets
  /\ spoiled' = FALSE
  /\ UNCHANGED call

\* v545_load_flash(): the first page is in the file before FLASH_WRITE looks
\* for an armed block; with one, or when a macro fails, a page stays behind.
\* Otherwise all pages are written and the board is reset.
LoadFlash ==
  /\ "load_flash" \in Uses
  /\ call.pc = "idle"
  /\ \/ /\ regfile' \in [Index -> Entry]
        /\ Overwrite
        /\ UNCHANGED <<fun, armed, ovr, call, target>>
     \/ /\ armed = {}
        /\ Reset

\* v545_verify_flash(): READ_FLASH looks for an armed block first; each page
\* the board reads back lands in the file.
VerifyFlash ==
  /\ "verify_flash" \in Uses
  /\ call.pc = "idle"
  /\ armed = {}
  /\ regfile' \in [Index -> Entry]
  /\ Overwrite
  /\ UNCHANGED <<fun, armed, ovr, call, target>>

ResetBoard == call.pc = "idle" /\ Reset

\* The process is killed in the middle of a call, or faults.  A program that uses override
\* blocks begins by clearing them (v545_lvdt.c and v545_synchro.c, init()).
KillAndRestart ==
  /\ call.pc # "idle"
  /\ StartClear(NumFB, TRUE)

-----------------------------------------------------------------------------
FunctionStep ==
  \/ \E f \in FB, code \in Function : ConfigFunction(f, code)
  \/ \E f \in FB : ClearFunctionBlock(f)
  \/ ClearFunctionBlocks

OverrideCall ==
  \/ \E o \in OB, f \in FB, p \in Position, v \in Velocity : ConfigOverride(o, f, p, v)
  \/ \E o \in OB : ArmOverride(o)
  \/ \E o \in OB : ClearOverrideBlock(o)
  \/ ClearOverrideBlocks

Continue ==
  \/ StorePosition \/ StoreVelocity \/ LinkOverride
  \/ FindLink \/ ZeroVelocity \/ ZeroPosition \/ Unlink \/ EndClear

RegfileUser == ClearRegfile \/ ReadPowerSupply \/ LoadFlash \/ VerifyFlash

Next ==
  \/ FunctionStep \/ OverrideCall \/ Continue
  \/ RegfileUser \/ ResetBoard \/ KillAndRestart

Spec == Init /\ [][Next]_vars

-----------------------------------------------------------------------------
(* Properties.                                                               *)

\* Whenever an armed block trips, each output linked to it is driven to the
\* position and velocity of the last v545_config_override_position_velocity()
\* that returned success for this block and output.
ArmedTargets ==
  \A o \in armed, f \in FB :
    Linked(o, f) =>
      ovr[o][f] \in Index /\ regfile[ovr[o][f]] = target[o][f]

\* The same from the start, a reset, or a clear of all blocks on, until the
\* first request that finds no free pair or converts to (0, 0), and until
\* another user writes the register file while an output is linked.
ArmedTargetsUntilSpoiled == spoiled \/ ArmedTargets

\* No two links point to the same pair: clearing or reconfiguring one cannot
\* change where another drives its output.
ExclusivePairs ==
  spoiled \/
  \A o, p \in OB, f, g \in FB :
    Linked(o, f) /\ ovr[o][f] = ovr[p][g] => o = p /\ f = g

\* v545_clear_override_blocks() leaves no block armed and no output linked,
\* whatever the register file holds and whatever a killed call left behind.
ClearLeavesNothing ==
  [][EndClear /\ call.all /\ call'.pc = "idle" => armed' = {} /\ ovr' = NoLinks]_vars

=============================================================================
