------------------------------- MODULE V210Relay -------------------------------
(***************************************************************************)
(* The relays of a V210 board (lib/v210_utils/v210_utils.c).               *)
(*                                                                         *)
(* The library keeps one mask of all relays, which the application edits   *)
(* bit by bit, writes to the control registers, and overwrites with the    *)
(* state of the contacts when it reads them.  A relay takes milliseconds   *)
(* to follow its control bit.  One action is one register access or one    *)
(* call that touches the mask alone; relays settle in between, and the     *)
(* process may be killed, which loses the mask but not the board's state.  *)
(*                                                                         *)
(* The application is taken to do what the man page asks: it reads with    *)
(* waitflag = 1, or with 0 when its loop leaves the relays time to settle, *)
(* and not between an edit of the mask and the write of it; and, like      *)
(* user/v210/v210.c, it starts by clearing all relays.                     *)
(***************************************************************************)
EXTENDS Integers

CONSTANTS
  NumRegs,  \* control registers (4)
  PerReg,   \* relays per register (16)
  Channel   \* channel numbers the application passes

ASSUME RelayAssumption ==
  /\ NumRegs \in Nat \ {0}
  /\ PerReg \in Nat \ {0}
  /\ Channel \subseteq Int

VARIABLES
  mask,     \* relay.mask: the relays whose bit is 1
  ctl,      \* the control registers: relays to be closed
  contact,  \* the contacts: relays that are closed
  csr,      \* which connectors the relays are connected to
  call,     \* the call in progress: its program counter and next register
  error,    \* the last call returned -1
  asked,    \* history: the relays the application wants closed
  dirty     \* history: asked for, but not yet written

relayVars == <<mask, ctl, contact, csr, call, error, asked, dirty>>

Reg      == 0..(NumRegs - 1)
Relay    == 0..(NumRegs * PerReg - 1)
Chnls    == NumRegs * PerReg                         \* V210_CHNLS_PER_BOARD
In(g)    == {r \in Relay : r \div PerReg = g}
P3TM     == "P3TM"
P4TM     == "P4TM"

RelayTypeOK ==
  /\ mask \subseteq Relay
  /\ ctl \subseteq Relay
  /\ contact \subseteq Relay
  /\ csr \subseteq {P3TM, P4TM}
  /\ call \in [pc: {"start", "idle", "write", "wait", "read"}, reg: Reg]
  /\ error \in BOOLEAN
  /\ asked \subseteq Relay
  /\ dirty \in BOOLEAN

\* relay.mask is initialised to 0; a process finds the board as it was left.
NewProcess == mask = {} /\ call = [pc |-> "start", reg |-> 0]

RelayInit ==
  /\ NewProcess
  /\ ctl = {}
  /\ contact = {}
  /\ csr = {}
  /\ error = FALSE
  /\ asked = {}
  /\ dirty = FALSE

CallAt(pc)  == call.pc = pc
Begin(pc)   == call' = [pc |-> pc, reg |-> 0]
Advance(pc) == call' = IF call.reg = NumRegs - 1 THEN [pc |-> "idle", reg |-> 0]
                                                 ELSE [call EXCEPT !.reg = @ + 1]

-----------------------------------------------------------------------------
(* The mask.                                                                 *)

\* The range check lets the number of channels itself pass.
InRange(chnl) == chnl >= 0 /\ chnl <= Chnls

\* 1L << chnl: for chnl = 64 the shift is undefined; it is taken modulo the
\* width, or yields 0.
Bit(chnl) == IF chnl \in Relay THEN {{chnl}} ELSE {{0}, {}}

Edit(chnl, close) ==
  /\ CallAt("idle")
  /\ error' = ~ InRange(chnl)
  /\ IF InRange(chnl)
     THEN /\ \E bit \in Bit(chnl) :
               mask' = IF close THEN mask \cup bit ELSE mask \ bit
          /\ asked' = IF close THEN asked \cup ({chnl} \cap Relay) ELSE asked \ {chnl}
          /\ dirty' = TRUE
     ELSE UNCHANGED <<mask, asked, dirty>>
  /\ UNCHANGED <<ctl, contact, csr, call>>

SetBitInMask(chnl) == Edit(chnl, TRUE)
ClrBitInMask(chnl) == Edit(chnl, FALSE)

-----------------------------------------------------------------------------
(* The relays.                                                               *)

\* v210_write_relay_regs(), one register after the other.
WriteRelayRegs ==
  /\ CallAt("idle")
  /\ Begin("write")
  /\ UNCHANGED <<mask, ctl, contact, csr, error, asked, dirty>>

\* v210_set_relays_from_mask64(), and v210_clr_all_relays() for the empty mask.
SetRelaysFromMask(m) ==
  /\ CallAt("idle") \/ (CallAt("start") /\ m = {})
  /\ mask' = m
  /\ asked' = m
  /\ dirty' = TRUE
  /\ Begin("write")
  /\ UNCHANGED <<ctl, contact, csr, error>>

\* Mutant: the last register is forgotten.
WriteRegShort ==
  /\ CallAt("write")
  /\ ctl' = IF call.reg = NumRegs - 1 THEN ctl
            ELSE (ctl \ In(call.reg)) \cup (mask \cap In(call.reg))
  /\ Advance("write")
  /\ dirty' = (call.reg # NumRegs - 1)
  /\ UNCHANGED <<mask, contact, csr, error, asked>>

WriteReg ==
  /\ CallAt("write")
  /\ ctl' = (ctl \ In(call.reg)) \cup (mask \cap In(call.reg))
  /\ Advance("write")
  /\ dirty' = (call.reg # NumRegs - 1)
  /\ UNCHANGED <<mask, contact, csr, error, asked>>

\* A relay follows its control bit (external).
Settle ==
  /\ \E r \in Relay :
       /\ (r \in ctl) # (r \in contact)
       /\ contact' = IF r \in ctl THEN contact \cup {r} ELSE contact \ {r}
  /\ UNCHANGED <<mask, ctl, csr, call, error, asked, dirty>>

Settled == contact = ctl

\* v210_read_relay_regs(), also called by v210_read_relays_into_mask64().
ReadRelayRegs(waitflag) ==
  /\ CallAt("idle")
  /\ ~ dirty
  /\ waitflag \/ Settled
  /\ Begin(IF waitflag THEN "wait" ELSE "read")
  /\ UNCHANGED <<mask, ctl, contact, csr, error, asked, dirty>>

\* Mutant: no pause.
NoWait ==
  /\ CallAt("wait")
  /\ Begin("read")
  /\ UNCHANGED <<mask, ctl, contact, csr, error, asked, dirty>>

\* 10 ms pass, more than a relay takes.
Wait ==
  /\ CallAt("wait")
  /\ Settled
  /\ Begin("read")
  /\ UNCHANGED <<mask, ctl, contact, csr, error, asked, dirty>>

ReadReg ==
  /\ CallAt("read")
  /\ mask' = (mask \ In(call.reg)) \cup (contact \cap In(call.reg))
  /\ Advance("read")
  /\ UNCHANGED <<ctl, contact, csr, error, asked, dirty>>

-----------------------------------------------------------------------------
(* The connectors.  In csr &= ~V210_CSR_P4TM | V210_CSR_P3TM the complement  *)
(* takes the first bit only.                                                 *)

ConnectRelays ==
  /\ CallAt("idle")
  /\ csr' = {P3TM, P4TM}
  /\ UNCHANGED <<mask, ctl, contact, call, error, asked, dirty>>

DisconnectRelays ==
  /\ CallAt("idle")
  /\ csr' = csr \ {P4TM}
  /\ UNCHANGED <<mask, ctl, contact, call, error, asked, dirty>>

\* The process ends anywhere and is started again.
KillRelayProcess ==
  /\ ~ CallAt("start")
  /\ mask' = {}
  /\ Begin("start")
  /\ UNCHANGED <<ctl, contact, csr, error, asked, dirty>>

-----------------------------------------------------------------------------
RelayNext ==
  \/ \E chnl \in Channel : SetBitInMask(chnl) \/ ClrBitInMask(chnl)
  \/ WriteRelayRegs \/ WriteReg
  \/ \E m \in SUBSET Relay : SetRelaysFromMask(m)
  \/ \E waitflag \in BOOLEAN : ReadRelayRegs(waitflag)
  \/ Wait \/ ReadReg
  \/ ConnectRelays \/ DisconnectRelays
  \/ KillRelayProcess
  \/ Settle

RelaySpec == RelayInit /\ [][RelayNext]_relayVars

-----------------------------------------------------------------------------
(* Properties.                                                               *)

\* Whenever everything the application asked for has been written, each relay
\* is driven as it was last asked, and the mask agrees, so that the next edit
\* and write change no other relay: no request is lost to a read of relays
\* that had not moved yet, nor to the empty mask of a restarted process.
RelaysAsAsked ==
  CallAt("idle") /\ ~ dirty => ctl = asked /\ mask = asked

=============================================================================
