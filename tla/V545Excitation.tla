---------------------------- MODULE V545Excitation ----------------------------
(***************************************************************************)
(* The excitation of the output channels of a V545 board: the DDS channels *)
(* and the channel control blocks of the coils, which all function blocks  *)
(* share (lib/v545_utils/v545_utils.c: v545_config_dds(),                  *)
(* v545_config_ccb() and the calls the v545_config_*_output() make).       *)
(*                                                                         *)
(* A request names a DDS channel and a frequency, 0 for an external        *)
(* source, and the coil to excite.  One action is one register access; the *)
(* process may be killed in between.                                       *)
(***************************************************************************)
EXTENDS Integers

CONSTANTS
  NumDDS,     \* DDS channels (8); the last is fixed at 400 Hz
  NumCoils,   \* coils (24)
  Channel,    \* values of dds_chnl the application passes
  Frequency,  \* values of dds_freq the application passes
  MaxFrequency \* 20000

ASSUME ExcitationAssumption ==
  /\ NumDDS \in Nat \ {0}
  /\ NumCoils \in Nat \ {0}
  /\ Channel \subseteq Int
  /\ Frequency \subseteq Int
  /\ MaxFrequency \in Nat

VARIABLES
  dfr,    \* DDS frequency registers (half counts of 0.5 Hz left out)
  mbits,  \* MBITS of each coil: where its excitation comes from
  ssr,    \* SSR of each coil: excited from a DDS channel
  call,   \* the call in progress
  before  \* history: the registers when the call began

excitationVars == <<dfr, mbits, ssr, call, before>>

DDS   == 0..(NumDDS - 1)
Fixed == NumDDS - 1
Coil  == 0..(NumCoils - 1)

\* MBITS selects a coil as input or, from NumCoils on, a DDS channel.
Source == 0..(NumCoils + NumDDS - 1)
DDSSource(d) == NumCoils + d

CallPc      == {"idle", "dds", "ssr", "mbits", "refused", "done"}
IdleRequest == [pc |-> "idle", coil |-> 0, dds |-> 0, freq |-> 0]

Registers == [dfr |-> dfr, mbits |-> mbits, ssr |-> ssr]

\* The coil number is range checked before anything is written.
ExcitationTypeOK ==
  /\ dfr \in [DDS -> 0..MaxFrequency]
  /\ mbits \in [Coil -> Source]
  /\ ssr \in [Coil -> BOOLEAN]
  /\ call.pc \in CallPc
  /\ call.coil \in Coil
  /\ before \in [dfr: [DDS -> 0..MaxFrequency], mbits: [Coil -> Source], ssr: [Coil -> BOOLEAN]]

ExcitationInit ==
  /\ dfr = [d \in DDS |-> 0]
  /\ mbits = [c \in Coil |-> 0]
  /\ ssr = [c \in Coil |-> FALSE]
  /\ call = IdleRequest
  /\ before = Registers

-----------------------------------------------------------------------------
At(pc) == call.pc = pc
Go(pc) == call' = [call EXCEPT !.pc = pc]

Running == call.pc \in {"dds", "ssr", "mbits"}

\* Mutant: the coil is connected before its source is set up.
ConfigOutputCoilFirst(coil, dds, freq) ==
  /\ ~ Running
  /\ before' = Registers
  /\ call' = [pc |-> "ssr", coil |-> coil, dds |-> dds, freq |-> freq]
  /\ UNCHANGED <<dfr, mbits, ssr>>

\* The excitation part of v545_config_synchro_output(), _resolver_output() and
\* _lvdt_rvdt_output().
ConfigOutput(coil, dds, freq) ==
  /\ ~ Running
  /\ before' = Registers
  /\ call' = [pc |-> IF freq > 0 THEN "dds" ELSE "ssr",
              coil |-> coil, dds |-> dds, freq |-> freq]
  /\ UNCHANGED <<dfr, mbits, ssr>>

\* Mutant: the frequency is range checked after the register is written.
ConfigDDSUnchecked ==
  /\ At("dds")
  /\ IF call.dds \in DDS \ {Fixed}
     THEN /\ dfr' = [dfr EXCEPT ![call.dds] = call.freq]
          /\ Go(IF call.freq <= MaxFrequency THEN "ssr" ELSE "refused")
     ELSE Go("refused") /\ UNCHANGED dfr
  /\ UNCHANGED <<mbits, ssr, before>>

\* v545_config_dds()
ConfigDDS ==
  /\ At("dds")
  /\ IF call.dds \in DDS \ {Fixed} /\ call.freq <= MaxFrequency
     THEN dfr' = [dfr EXCEPT ![call.dds] = call.freq] /\ Go("ssr")
     ELSE Go("refused") /\ UNCHANGED dfr
  /\ UNCHANGED <<mbits, ssr, before>>

\* The source v545_config_ccb() is called with.
Target == IF call.freq > 0 THEN DDSSource(call.dds) ELSE call.dds

\* v545_config_ccb(): only DDS sources are let through, so SSR is always set.
SelectDDS ==
  /\ At("ssr")
  /\ IF Target < NumCoils \/ Target >= NumCoils + NumDDS
     THEN Go("refused") /\ UNCHANGED ssr
     ELSE ssr' = [ssr EXCEPT ![call.coil] = TRUE] /\ Go("mbits")
  /\ UNCHANGED <<dfr, mbits, before>>

SelectSource ==
  /\ At("mbits")
  /\ mbits' = [mbits EXCEPT ![call.coil] = Target]
  /\ Go("done")
  /\ UNCHANGED <<dfr, ssr, before>>

KillRequest ==
  /\ Running
  /\ call' = IdleRequest
  /\ UNCHANGED <<dfr, mbits, ssr, before>>

ExcitationNext ==
  \/ \E c \in Coil, d \in Channel, f \in Frequency : ConfigOutput(c, d, f)
  \/ ConfigDDS \/ SelectDDS \/ SelectSource
  \/ KillRequest

ExcitationSpec == ExcitationInit /\ [][ExcitationNext]_excitationVars

-----------------------------------------------------------------------------
(* Properties.                                                               *)

\* Whatever was refused or killed before, a coil that is excited from a DDS
\* channel is excited from one that runs.
ExcitedCoilsRun ==
  \A c \in Coil, d \in DDS :
    ssr[c] /\ mbits[c] = DDSSource(d) /\ d # Fixed => dfr[d] # 0

\* A request that is refused has changed nothing, although its parts are
\* checked in two calls that both write.
RefusalHarmless == At("refused") => Registers = before

=============================================================================
