------------------------------- MODULE V120Scan -------------------------------
(***************************************************************************)
(* v120_config -scan (v120_config/v120_config.c): set up the V120 crates    *)
(* of the input file, walk their A16, A24 and A32 regions in search of     *)
(* boards, and list what was found in the output file.                     *)
(*                                                                         *)
(* One action is one crate set up, one address probed, or the end of one   *)
(* region or crate.  Addresses count steps of MIN_ADDR_STEP.  A board      *)
(* answers at every address it occupies and is recognised at its base,     *)
(* where its identification registers are; a type that is not in           *)
(* vme_search_specs is recognised nowhere.                                 *)
(***************************************************************************)
EXTENDS Integers, FiniteSets

CONSTANTS
  NumCrates, \* crates in the input file (up to MAX_DEV)
  Known,     \* board types in vme_search_specs
  Foreign,   \* other boards
  Spacing,   \* addresses a board of each type occupies (device_spacing)
  Base, Length, \* VME address and length of each region of each crate
  Scanned,   \* the argument of -scan: the spaces to walk
  MaxCards,  \* MAX_CARDS_IN_CHASSIS
  Chassis    \* what boards may be plugged in: sets of [crate, space, off, type]

Crate == 0..(NumCrates - 1)
A16   == 1
A24   == 2
A32   == 3
Space == A16..A32
Type  == Known \cup Foreign
Board == [crate: Crate, space: Space, off: Nat, type: Type]

Occupies(board, off) == board.off <= off /\ off < board.off + Spacing[board.type]

ASSUME ScanAssumption ==
  /\ NumCrates \in Nat \ {0}
  /\ Known \cap Foreign = {}
  /\ Spacing \in [Type -> Nat \ {0}]
  /\ Base \in [Crate -> [Space -> Nat]]
  /\ Length \in [Crate -> [Space -> Nat]]
  /\ Scanned \subseteq Space
  /\ MaxCards \in Nat \ {0}
  /\ \A boards \in Chassis :
       /\ boards \subseteq Board /\ IsFiniteSet(boards)
       /\ \A b \in boards : b.off + Spacing[b.type] <= Length[b.crate][b.space]
       /\ \A a, b \in boards : a.crate = b.crate /\ a.space = b.space /\ a # b =>
            \A off \in 0..(Length[a.crate][a.space] - 1) : ~ (Occupies(a, off) /\ Occupies(b, off))

VARIABLES
  boards,  \* the boards plugged in
  online,  \* crates whose V120 was opened
  mapped,  \* regions that were mapped, as <<crate, space>>
  pc,      \* what main() is doing
  at,      \* the crate in hand, and the address the scan has reached in it
  cards,   \* the cards[] entries filled in
  cardNum, \* the next entry
  count,   \* num_cards_of_same_type of each type
  lines    \* the vmedevice lines of the output file

vars == <<boards, online, mapped, pc, at, cards, cardNum, count, lines>>

Card == [crate: Crate, entry: 0..(MaxCards - 1), type: Known, num: Nat, addr: Nat]
Line == [crate: Crate, type: Known, num: Nat, addr: Nat, space: Space]

TypeOK ==
  /\ boards \subseteq Board
  /\ online \subseteq Crate
  /\ mapped \subseteq Crate \X Space
  /\ pc \in {"repeater", "scan", "done", "null_base", "overrun"}
  /\ at \in [crate: Crate, space: Space, off: Nat]
  /\ cards \subseteq Card
  /\ cardNum \in 0..MaxCards
  /\ count \in [Known -> Nat]
  /\ lines \subseteq Line

Start(crate) == [crate |-> crate, space |-> A16, off |-> 0]

Init ==
  /\ boards \in Chassis
  /\ online = {}
  /\ mapped = {}
  /\ pc = "repeater"
  /\ at = Start(0)
  /\ cards = {}
  /\ cardNum = 0
  /\ count = [type \in Known |-> 0]
  /\ lines = {}

-----------------------------------------------------------------------------
(* The repeater lines.                                                       *)

\* v120_setup_memory_regions(): the V120 may be absent, and each step after it
\* was opened may fail, which leaves the crate online with the regions so far.
ConfigRepeater ==
  /\ pc = "repeater"
  /\ \/ UNCHANGED <<online, mapped>>
     \/ /\ online' = online \cup {at.crate}
        /\ \E last \in 0..A32 : mapped' = mapped \cup ({at.crate} \X (A16..last))
  /\ IF at.crate = NumCrates - 1 THEN pc' = "scan" /\ at' = Start(0)
                                 ELSE pc' = pc /\ at' = Start(at.crate + 1)
  /\ UNCHANGED <<boards, cards, cardNum, count, lines>>

-----------------------------------------------------------------------------
(* The scan.                                                                 *)

Here(board) == board.crate = at.crate /\ board.space = at.space /\ Occupies(board, at.off)

InRegion ==
  /\ pc = "scan"
  /\ at.crate \in online
  /\ at.space \in Scanned
  /\ at.off < Length[at.crate][at.space]

\* probe_vme_vaddr(): a bus error, so nothing is there.
ProbeNothing ==
  /\ InRegion
  /\ <<at.crate, at.space>> \in mapped
  /\ \A board \in boards : ~ Here(board)
  /\ at' = [at EXCEPT !.off = @ + 1]
  /\ UNCHANGED <<boards, online, mapped, pc, cards, cardNum, count, lines>>

Recognised(board) == board.type \in Known /\ board.off = at.off

\* Mutant: the address is also advanced by one step.
ProbeBoardStep ==
  /\ InRegion
  /\ <<at.crate, at.space>> \in mapped
  /\ \E board \in boards :
       /\ Here(board) /\ Recognised(board)
       /\ cardNum < MaxCards
       /\ cards' = cards \cup
            {[crate |-> at.crate, entry |-> cardNum, type |-> board.type,
              num |-> count[board.type], addr |-> Base[at.crate][at.space] + at.off]}
       /\ count' = [count EXCEPT ![board.type] = @ + 1]
       /\ at' = [at EXCEPT !.off = @ + Spacing[board.type] + 1]
  /\ cardNum' = cardNum + 1
  /\ UNCHANGED <<boards, online, mapped, pc, lines>>

\* Mutant: the boards of a type are not counted.
ProbeBoardUncounted ==
  /\ InRegion
  /\ <<at.crate, at.space>> \in mapped
  /\ \E board \in boards :
       /\ Here(board) /\ Recognised(board)
       /\ cardNum < MaxCards
       /\ cards' = cards \cup
            {[crate |-> at.crate, entry |-> cardNum, type |-> board.type,
              num |-> count[board.type], addr |-> Base[at.crate][at.space] + at.off]}
       /\ at' = [at EXCEPT !.off = @ + Spacing[board.type]]
  /\ cardNum' = cardNum + 1
  /\ UNCHANGED <<boards, online, mapped, pc, count, lines>>

\* Mutant: the address is not advanced past the board.
ProbeBoardStay ==
  /\ InRegion
  /\ <<at.crate, at.space>> \in mapped
  /\ \E board \in boards : Here(board) /\ Recognised(board)
  /\ UNCHANGED vars

\* Mutant: the address stays at the board, which fills in another entry.
ProbeBoardAgain ==
  /\ InRegion
  /\ <<at.crate, at.space>> \in mapped
  /\ \E board \in boards :
       /\ Here(board) /\ Recognised(board)
       /\ cardNum < MaxCards
       /\ cards' = cards \cup
            {[crate |-> at.crate, entry |-> cardNum, type |-> board.type,
              num |-> count[board.type], addr |-> Base[at.crate][at.space] + at.off]}
       /\ count' = [count EXCEPT ![board.type] = @ + 1]
  /\ cardNum' = cardNum + 1
  /\ UNCHANGED <<boards, online, mapped, pc, at, lines>>

\* A board in the table: its entry is filled in and the scan goes on after it.
ProbeBoard ==
  /\ InRegion
  /\ <<at.crate, at.space>> \in mapped
  /\ \E board \in boards :
       /\ Here(board) /\ Recognised(board)
       /\ cardNum < MaxCards
       /\ cards' = cards \cup
            {[crate |-> at.crate, entry |-> cardNum, type |-> board.type,
              num |-> count[board.type], addr |-> Base[at.crate][at.space] + at.off]}
       /\ count' = [count EXCEPT ![board.type] = @ + 1]
       /\ at' = [at EXCEPT !.off = @ + Spacing[board.type]]
  /\ cardNum' = cardNum + 1
  /\ UNCHANGED <<boards, online, mapped, pc, lines>>

\* Something answers that no entry of the table matches: the address is only
\* advanced on a match or when nothing answers, so it is probed again.
ProbeOther ==
  /\ InRegion
  /\ <<at.crate, at.space>> \in mapped
  /\ \E board \in boards : Here(board) /\ ~ Recognised(board)
  /\ UNCHANGED vars

\* The base of a region that was not mapped, or crate_regs, is 0.
ProbeUnmapped ==
  /\ InRegion
  /\ <<at.crate, at.space>> \notin mapped
  /\ pc' = "null_base"
  /\ UNCHANGED <<boards, online, mapped, at, cards, cardNum, count, lines>>

\* cards[card_num] is past the array and overwrites what follows it in the
\* crate's record, the mapped regions included; nothing more is modelled.
Overrun ==
  /\ InRegion
  /\ <<at.crate, at.space>> \in mapped
  /\ \E board \in boards : Here(board) /\ Recognised(board)
  /\ cardNum = MaxCards
  /\ pc' = "overrun"
  /\ UNCHANGED <<boards, online, mapped, at, cards, cardNum, count, lines>>

EndRegion ==
  /\ pc = "scan"
  /\ at.crate \in online
  /\ ~ InRegion
  /\ at.space # A32
  /\ at' = [at EXCEPT !.space = @ + 1, !.off = 0]
  /\ UNCHANGED <<boards, online, mapped, pc, cards, cardNum, count, lines>>

-----------------------------------------------------------------------------
(* The listing.                                                              *)

\* Mutant: the last address belongs to the region below.
SpacesOfAddrClosed(crate, addr) ==
  IF crate \notin online THEN {}
  ELSE {space \in Space : /\ Base[crate][space] <= addr
                          /\ addr <= Base[crate][space] + Length[crate][A16]}

\* find_vme_addr_space(): every region is taken to have A16's length.
SpacesOfAddr(crate, addr) ==
  IF crate \notin online THEN {}
  ELSE {space \in Space : /\ Base[crate][space] <= addr
                          /\ addr < Base[crate][space] + Length[crate][A16]}

\* The lines are written after each crate, from its own cards, but with the
\* first crate's regions (find_vme_addr_space is given pv120_dev, not pv).
EndCrate ==
  /\ pc = "scan"
  /\ at.crate \in online => ~ InRegion /\ at.space = A32
  /\ lines' = IF at.crate \notin online THEN lines ELSE
       lines \cup
         {line \in [crate: {at.crate}, type: Known, num: {card.num : card \in cards},
                    addr: {card.addr : card \in cards}, space: Space] :
            /\ \E card \in cards : /\ card.crate = at.crate
                                   /\ card.type = line.type
                                   /\ card.num = line.num
                                   /\ card.addr = line.addr
            /\ line.space \in SpacesOfAddr(0, line.addr)
            /\ \A space \in SpacesOfAddr(0, line.addr) : line.space <= space}
  /\ IF at.crate = NumCrates - 1 THEN pc' = "done" /\ at' = at
                                 ELSE pc' = pc /\ at' = Start(at.crate + 1)
  /\ UNCHANGED <<boards, online, mapped, cards, cardNum, count>>

-----------------------------------------------------------------------------
Probe == ProbeNothing \/ ProbeBoard \/ ProbeOther \/ ProbeUnmapped \/ Overrun

Next == ConfigRepeater \/ Probe \/ EndRegion \/ EndCrate

Spec == Init /\ [][Next]_vars

\* The program runs.
FairSpec == Spec /\ WF_vars(Next)

-----------------------------------------------------------------------------
(* Properties.                                                               *)

Searched == {board \in boards : board.crate \in online /\ board.space \in Scanned}
Wanted   == {board \in Searched : board.type \in Known}

AddrOf(board) == Base[board.crate][board.space] + board.off

\* No two regions of a crate have an address in common.
Apart(crate) ==
  \A s, t \in Space : \A i \in 0..(Length[crate][s] - 1), j \in 0..(Length[crate][t] - 1) :
    Base[crate][s] + i = Base[crate][t] + j => s = t

\* No region of the crate reaches into one of another space of the first crate,
\* as find_vme_addr_space() takes that one to be.
Clear(crate) ==
  \A s, t \in Space : \A i \in 0..(Length[crate][s] - 1), j \in 0..(Length[0][A16] - 1) :
    Base[crate][s] + i = Base[0][t] + j => s = t

\* A scan that comes to its end has found each board of the table in the
\* spaces it walked, under its own crate and address, once, and nothing else.
\* (It comes to no end where another board answers; see ScanEnds.)
FindsEveryBoard ==
  pc = "done" =>
    /\ \A board \in Searched : \E card \in cards :
         card.crate = board.crate /\ card.type = board.type /\ card.addr = AddrOf(board)
    /\ \A card \in cards : \E board \in Searched :
         card.crate = board.crate /\ card.type = board.type /\ card.addr = AddrOf(board)
    /\ \A c, d \in cards : c.crate = d.crate /\ c.addr = d.addr /\ Apart(c.crate) => c = d

\* The name of a line, type[crate][num], is that of one board only: this is
\* what get_vaddr_for_device() looks a board up by.
NamesAreUnique ==
  \A k, l \in lines : k.crate = l.crate /\ k.type = l.type /\ k.num = l.num => k = l

\* Does the line name what was found?
Names(card, line) ==
  /\ card.crate = line.crate /\ card.type = line.type
  /\ card.num = line.num /\ card.addr = line.addr

\* A line is that of a board at its address, in its space too, although the space
\* is found again from the address alone, in the first crate's regions, and each
\* of those is taken to be as long as the A16 region: for the space, the crate's
\* regions must be clear of these.  For the same reason not all boards that were
\* found have a line in the end, but those do whose address is in such a region.
LinesAreTrue ==
  /\ \A line \in lines : \E board \in Searched :
       /\ board.crate = line.crate /\ board.type = line.type /\ AddrOf(board) = line.addr
       /\ Clear(line.crate) => board.space = line.space
  /\ pc = "done" =>
       \A card \in cards : SpacesOfAddr(0, card.addr) # {} =>
         \E line \in lines : Names(card, line)

\* The table of a crate only overflows if there are more boards than it has
\* entries, in all crates together: card_num counts on from crate to crate.
OverrunNeedsBoards ==
  pc = "overrun" => Cardinality(Wanted) > MaxCards

\* The scan ends if every board in the spaces walked is in the table.
ScanEnds ==
  (\A board \in boards : board.type \in Known \/ board.space \notin Scanned)
    => <>(pc \in {"done", "null_base", "overrun"})

=============================================================================
