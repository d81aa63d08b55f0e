------------------------------ MODULE V120Proofs ------------------------------
(***************************************************************************)
(* Proofs about v120_config and get_vaddr_for_device(): first about the    *)
(* scan (V120Scan), for any crates, regions, boards and table; then, for   *)
(* any command lines, input files, crates and boards, about the output     *)
(* file (V120Config) and the lookups in it (V120Lookup).                   *)
(***************************************************************************)
EXTENDS V120Scan, V120Lookup, FiniteSetTheorems, WellFoundedInduction, TLAPS

-----------------------------------------------------------------------------
(* The scan.                                                                 *)

LEMMA StartTyped ==
  ASSUME NEW crate \in Crate
  PROVE  Start(crate) \in [crate: Crate, space: Space, off: Nat]
BY DEF Start, Space, A16, A32

LEMMA CrateZero == 0 \in Crate
BY ScanAssumption DEF Crate

\* The table entries, the position of the scan and the lines stay in range.
THEOREM TypeCorrect == Spec => []TypeOK
<1>1. Init => TypeOK
  BY ScanAssumption, CrateZero, StartTyped DEF Init, TypeOK
<1>2. TypeOK /\ [Next]_vars => TypeOK'
  <2> SUFFICES ASSUME TypeOK, [Next]_vars PROVE TypeOK'
    OBVIOUS
  <2>1. ASSUME at.crate # NumCrates - 1
        PROVE  at.crate + 1 \in Crate
    BY <2>1, ScanAssumption DEF TypeOK, Crate
  <2>2. CASE ConfigRepeater
    <3>1. at' \in [crate: Crate, space: Space, off: Nat]
      BY <2>1, <2>2, CrateZero, StartTyped DEF ConfigRepeater
    <3>2. \A last \in 0..A32 : {at.crate} \X (A16..last) \subseteq Crate \X Space
      BY DEF TypeOK, Space, A16, A32
    <3>3. mapped' \subseteq Crate \X Space
      BY <2>2, <3>2 DEF ConfigRepeater, TypeOK
    <3> QED
      BY <2>2, <3>1, <3>3 DEF ConfigRepeater, TypeOK
  <2>3. CASE ProbeNothing
    BY <2>3 DEF ProbeNothing, TypeOK
  <2>4. CASE ProbeBoard
    <3>1. PICK board \in boards :
            /\ Here(board) /\ Recognised(board)
            /\ cardNum < MaxCards
            /\ cards' = cards \cup
                 {[crate |-> at.crate, entry |-> cardNum, type |-> board.type,
                   num |-> count[board.type], addr |-> Base[at.crate][at.space] + at.off]}
            /\ count' = [count EXCEPT ![board.type] = @ + 1]
            /\ at' = [at EXCEPT !.off = @ + Spacing[board.type]]
      BY <2>4 DEF ProbeBoard
    <3>2. board.type \in Known /\ Spacing[board.type] \in Nat
      BY <3>1, ScanAssumption DEF Recognised, Type
    <3>3. Base[at.crate][at.space] + at.off \in Nat
      BY ScanAssumption DEF TypeOK
    <3>4. cardNum \in 0..(MaxCards - 1) /\ cardNum + 1 \in 0..MaxCards
      BY <3>1, ScanAssumption DEF TypeOK
    <3>5. count[board.type] \in Nat /\ count' \in [Known -> Nat]
      BY <3>1, <3>2 DEF TypeOK
    <3>6. cards' \subseteq Card
      BY <3>1, <3>2, <3>3, <3>4, <3>5 DEF TypeOK, Card
    <3>7. at' \in [crate: Crate, space: Space, off: Nat]
      BY <3>1, <3>2 DEF TypeOK
    <3> QED
      BY <2>4, <3>4, <3>5, <3>6, <3>7 DEF ProbeBoard, TypeOK
  <2>5. CASE ProbeOther
    BY <2>5 DEF ProbeOther, TypeOK, vars
  <2>6. CASE ProbeUnmapped \/ Overrun
    BY <2>6 DEF ProbeUnmapped, Overrun, TypeOK
  <2>7. CASE EndRegion
    <3>1. at.space + 1 \in Space
      BY <2>7 DEF EndRegion, TypeOK, Space, A16, A32
    <3> QED
      BY <2>7, <3>1 DEF EndRegion, TypeOK
  <2>8. CASE EndCrate
    <3>1. at' \in [crate: Crate, space: Space, off: Nat]
      BY <2>1, <2>8, StartTyped DEF EndCrate, TypeOK
    <3>2. {card.num : card \in cards} \subseteq Nat /\ {card.addr : card \in cards} \subseteq Nat
      BY DEF TypeOK, Card
    <3>3. lines' \subseteq Line
      BY <2>8, <3>2 DEF EndCrate, TypeOK, Line
    <3> QED
      BY <2>8, <3>1, <3>3 DEF EndCrate, TypeOK
  <2>9. CASE UNCHANGED vars
    BY <2>9 DEF vars, TypeOK
  <2> QED
    BY <2>2, <2>3, <2>4, <2>5, <2>6, <2>7, <2>8, <2>9 DEF Next, Probe
<1> QED
  BY <1>1, <1>2, PTL DEF Spec

-----------------------------------------------------------------------------
(* NamesAreUnique.  Every card's number is below the count of its type, so   *)
(* that a new card's number is new; a line is made from one card, and its    *)
(* space is fixed by the card's address once the crates are set up.          *)

SpaceOf(line) ==
  /\ line.space \in SpacesOfAddr(0, line.addr)
  /\ \A space \in SpacesOfAddr(0, line.addr) : line.space <= space

Counted  == \A card \in cards : card.num < count[card.type]
Numbered == \A c, d \in cards : c.type = d.type /\ c.num = d.num => c = d
Listed   == \A line \in lines : SpaceOf(line) /\ \E card \in cards : Names(card, line)
Early    == pc = "repeater" => lines = {}

IInv == Counted /\ Numbered /\ Listed /\ Early

LEMMA Inductive ==
  ASSUME TypeOK, TypeOK', IInv, [Next]_vars
  PROVE  IInv'
<1>1. CASE ConfigRepeater
  BY <1>1 DEF ConfigRepeater, IInv, Counted, Numbered, Listed, Early
<1>2. CASE ProbeBoard
  <2>1. PICK board \in boards :
          /\ Recognised(board)
          /\ cards' = cards \cup
               {[crate |-> at.crate, entry |-> cardNum, type |-> board.type,
                 num |-> count[board.type], addr |-> Base[at.crate][at.space] + at.off]}
          /\ count' = [count EXCEPT ![board.type] = @ + 1]
    BY <1>2 DEF ProbeBoard
  <2> DEFINE new == [crate |-> at.crate, entry |-> cardNum, type |-> board.type,
                     num |-> count[board.type], addr |-> Base[at.crate][at.space] + at.off]
  <2>2. /\ new.type \in Known /\ new.num = count[new.type] /\ cards' = cards \cup {new}
        /\ count' = [count EXCEPT ![new.type] = @ + 1]
    BY <2>1 DEF Recognised
  <2> HIDE DEF new
  <2>3. \A card \in cards : card.type \in Known /\ card.num \in Nat /\ card.num < count[card.type]
    BY DEF TypeOK, Card, IInv, Counted
  <2>4. Counted'
    BY <2>2, <2>3 DEF Counted, TypeOK
  <2>5. \A card \in cards : card.type = new.type => card.num # new.num
    BY <2>2, <2>3 DEF TypeOK
  <2>6. Numbered'
    BY <2>2, <2>5 DEF Numbered, IInv
  <2>7. UNCHANGED <<online, lines, pc>>
    BY <1>2 DEF ProbeBoard
  <2>8. Listed' /\ Early'
    BY <2>2, <2>7 DEF IInv, Listed, Early, SpaceOf, SpacesOfAddr, Names
  <2> QED
    BY <2>4, <2>6, <2>8 DEF IInv
<1>3. CASE EndCrate
  <2>1. UNCHANGED <<online, cards, count>> /\ pc' # "repeater"
    BY <1>3 DEF EndCrate
  <2>2. \A line \in lines' \ lines : SpaceOf(line) /\ \E card \in cards : Names(card, line)
    BY <1>3 DEF EndCrate, SpaceOf, Names
  <2>3. Listed'
    BY <2>1, <2>2 DEF IInv, Listed, SpaceOf, SpacesOfAddr
  <2> QED
    BY <2>1, <2>3 DEF IInv, Counted, Numbered, Early
<1>4. CASE /\ UNCHANGED <<online, cards, count, lines>>
           /\ pc' = "repeater" => pc = "repeater"
  BY <1>4 DEF IInv, Counted, Numbered, Listed, Early, SpaceOf, SpacesOfAddr
<1> QED
  BY <1>1, <1>2, <1>3, <1>4
     DEF Next, Probe, ProbeNothing, ProbeOther, ProbeUnmapped, Overrun, EndRegion, vars

\* However many crates and boards there are, a name in the output file is that
\* of one board.
THEOREM NamesUnique == Spec => []NamesAreUnique
<1>1. Init => IInv
  BY DEF Init, IInv, Counted, Numbered, Listed, Early
<1>2. TypeOK /\ TypeOK' /\ IInv /\ [Next]_vars => IInv'
  BY Inductive
<1>3. TypeOK /\ IInv => NamesAreUnique
  <2> SUFFICES ASSUME TypeOK, IInv, NEW k \in lines, NEW l \in lines,
                      k.crate = l.crate, k.type = l.type, k.num = l.num
               PROVE  k = l
    BY DEF NamesAreUnique
  <2>1. PICK c \in cards : Names(c, k)
    BY DEF IInv, Listed
  <2>2. PICK d \in cards : Names(d, l)
    BY DEF IInv, Listed
  <2>3. c = d
    BY <2>1, <2>2 DEF IInv, Numbered, Names
  <2>4. k.addr = l.addr
    BY <2>1, <2>2, <2>3 DEF Names
  <2>5. k.space <= l.space /\ l.space <= k.space
    BY <2>4 DEF IInv, Listed, SpaceOf
  <2>6. k \in Line /\ l \in Line
    BY DEF TypeOK
  <2> QED
    BY <2>4, <2>5, <2>6 DEF Line, Space, A16, A32
<1> QED
  BY <1>1, <1>2, <1>3, TypeCorrect, PTL DEF Spec

-----------------------------------------------------------------------------
(* FindsEveryBoard and LinesAreTrue.  The boards behind the scan's position  *)
(* are those that were found: no board reaches over the position from before *)
(* it, so that the scan never lands in the middle of one.                    *)

Behind(b) ==
  \/ b.crate < at.crate
  \/ b.crate = at.crate /\ b.space < at.space
  \/ b.crate = at.crate /\ b.space = at.space /\ b.off < at.off

Shows(card, b) ==
  /\ card.crate = b.crate
  /\ card.type = b.type
  /\ card.addr = AddrOf(b)

Found(b) == \E card \in cards : Shows(card, b)

Fresh   == pc = "repeater" => cards = {}
Reached == pc # "repeater" => \A b \in Searched : pc = "done" \/ Behind(b) => Found(b)
Sound   == \A card \in cards : \E b \in Searched : Shows(card, b) /\ Behind(b)
Between == pc = "scan" => \A b \in boards :
             b.crate = at.crate /\ b.space = at.space /\ b.off < at.off =>
               b.off + Spacing[b.type] <= at.off
Once    == \A c, d \in cards : c.crate = d.crate /\ c.addr = d.addr /\ Apart(c.crate) => c = d

FInv == boards \in Chassis /\ Fresh /\ Reached /\ Sound /\ Between /\ Once

\* A board lies within its region.
LEMMA Fits ==
  ASSUME boards \in Chassis, NEW b \in boards
  PROVE  /\ b.crate \in Crate /\ b.space \in Space /\ b.off \in Nat /\ b.type \in Type
         /\ Spacing[b.type] \in Nat \ {0}
         /\ Length[b.crate][b.space] \in Nat /\ Base[b.crate][b.space] \in Nat
         /\ b.off + Spacing[b.type] <= Length[b.crate][b.space]
         /\ b.off \in 0..(Length[b.crate][b.space] - 1)
<1>1. b \in Board /\ b.off + Spacing[b.type] <= Length[b.crate][b.space]
  BY ScanAssumption
<1>2. b.crate \in Crate /\ b.space \in Space /\ b.off \in Nat /\ b.type \in Type
  BY <1>1 DEF Board
<1>3. /\ Spacing[b.type] \in Nat \ {0} /\ Length[b.crate][b.space] \in Nat
      /\ Base[b.crate][b.space] \in Nat
  BY <1>2, ScanAssumption
<1> QED
  BY <1>1, <1>2, <1>3

\* Two boards do not occupy one address of a region.
LEMMA NoOverlap ==
  ASSUME boards \in Chassis, NEW a \in boards, NEW b \in boards,
         a.crate = b.crate, a.space = b.space,
         a.off <= b.off, b.off < a.off + Spacing[a.type]
  PROVE  a = b
<1>1. Occupies(a, b.off) /\ Occupies(b, b.off)
  BY Fits DEF Occupies
<1>2. b.off \in 0..(Length[a.crate][a.space] - 1)
  BY Fits
<1> QED
  BY <1>1, <1>2, ScanAssumption

\* Nothing answered: the position moves on by one address, past no board.
LEMMA BehindAfterNothing ==
  ASSUME TypeOK, FInv, ProbeNothing
  PROVE  \A b \in boards : Behind(b)' <=> Behind(b)
<1>1. at'.crate = at.crate /\ at'.space = at.space /\ at'.off = at.off + 1 /\ at.off \in Nat
  BY DEF ProbeNothing, TypeOK
<1>2. \A b \in boards : b.crate = at.crate /\ b.space = at.space => b.off # at.off
  BY Fits DEF FInv, ProbeNothing, Here, Occupies
<1>3. \A b \in boards : b.crate \in Nat /\ b.space \in Nat /\ b.off \in Nat
  BY Fits DEF FInv, Crate, Space, A16, A32
<1> QED
  BY <1>1, <1>2, <1>3 DEF Behind

LEMMA AfterNothing ==
  ASSUME TypeOK, FInv, ProbeNothing
  PROVE  FInv'
<1>1. /\ at' = [at EXCEPT !.off = @ + 1] /\ pc = "scan"
      /\ UNCHANGED <<boards, online, pc, cards>>
  BY DEF ProbeNothing, InRegion
<1>2. at'.crate = at.crate /\ at'.space = at.space /\ at'.off = at.off + 1 /\ at.off \in Nat
  BY <1>1 DEF TypeOK
<1>3. \A b \in boards : b.crate = at.crate /\ b.space = at.space => b.off # at.off
  BY Fits DEF FInv, ProbeNothing, Here, Occupies
<1>4. \A b \in boards : b.off \in Nat /\ Spacing[b.type] \in Nat
  BY Fits DEF FInv
<1>5. Searched' = Searched /\ Searched \subseteq boards
  BY <1>1 DEF Searched
<1>6. Reached' /\ Sound'
  BY <1>1, <1>5, BehindAfterNothing DEF FInv, Reached, Sound, Found, Shows, AddrOf
<1>7. Between'
  BY <1>1, <1>2, <1>3, <1>4 DEF FInv, Between
<1> QED
  BY <1>1, <1>6, <1>7 DEF FInv, Fresh, Once, Apart

\* A board was recognised: the position moves on behind it.
LEMMA BehindAfterBoard ==
  ASSUME TypeOK, FInv, NEW board \in boards, Here(board), Recognised(board),
         at' = [at EXCEPT !.off = @ + Spacing[board.type]]
  PROVE  \A b \in boards : Behind(b)' <=> Behind(b) \/ b = board
<1>1. board.crate = at.crate /\ board.space = at.space /\ board.off = at.off
  BY DEF Here, Recognised
<1>2. Spacing[board.type] \in Nat \ {0}
  BY Fits DEF FInv
<1>3. /\ at'.crate = at.crate /\ at'.space = at.space /\ at'.off = at.off + Spacing[board.type]
      /\ at.off \in Nat
  BY <1>2 DEF TypeOK
<1>4. \A b \in boards : b.crate \in Nat /\ b.space \in Nat /\ b.off \in Nat
  BY Fits DEF FInv, Crate, Space, A16, A32
<1>5. \A b \in boards : b.crate = at.crate /\ b.space = at.space
        /\ at.off <= b.off /\ b.off < at.off + Spacing[board.type] => b = board
  BY <1>1, NoOverlap DEF FInv
<1> QED
  BY <1>1, <1>2, <1>3, <1>4, <1>5 DEF Behind

LEMMA AfterBoard ==
  ASSUME TypeOK, FInv, ProbeBoard
  PROVE  FInv'
<1>1. PICK board \in boards :
        /\ Here(board) /\ Recognised(board)
        /\ cards' = cards \cup
             {[crate |-> at.crate, entry |-> cardNum, type |-> board.type,
               num |-> count[board.type], addr |-> Base[at.crate][at.space] + at.off]}
        /\ at' = [at EXCEPT !.off = @ + Spacing[board.type]]
  BY DEF ProbeBoard
<1> DEFINE new == [crate |-> at.crate, entry |-> cardNum, type |-> board.type,
                   num |-> count[board.type], addr |-> Base[at.crate][at.space] + at.off]
<1>2. /\ board.crate = at.crate /\ board.space = at.space /\ board.off = at.off
      /\ new.crate = at.crate /\ new.addr = AddrOf(board) /\ new.type = board.type
      /\ cards' = cards \cup {new}
  BY <1>1 DEF Here, Recognised, AddrOf
<1> HIDE DEF new
<1>3. pc = "scan" /\ UNCHANGED <<boards, online, pc>> /\ board \in Searched
  BY <1>2 DEF ProbeBoard, InRegion, Searched
<1>4. Spacing[board.type] \in Nat \ {0}
  BY Fits DEF FInv
<1>5. /\ at'.crate = at.crate /\ at'.space = at.space /\ at'.off = at.off + Spacing[board.type]
      /\ at.off \in Nat
  BY <1>1, <1>4 DEF TypeOK
<1>6. \A b \in boards : b.crate \in Nat /\ b.space \in Nat /\ b.off \in Nat
  BY Fits DEF FInv, Crate, Space, A16, A32
<1>7. \A b \in boards : b.crate = at.crate /\ b.space = at.space
        /\ at.off <= b.off /\ b.off < at.off + Spacing[board.type] => b = board
  BY <1>2, NoOverlap DEF FInv
<1>8. \A b \in boards : Behind(b)' <=> Behind(b) \/ b = board
  BY <1>1, BehindAfterBoard
<1>9. Searched' = Searched /\ Searched \subseteq boards
  BY <1>3 DEF Searched
<1>10. Shows(new, board)
  BY <1>2 DEF Shows
<1>11. Reached'
  BY <1>2, <1>3, <1>8, <1>9, <1>10 DEF FInv, Reached, Found, Shows, AddrOf
<1>12. Sound'
  BY <1>2, <1>3, <1>8, <1>9, <1>10 DEF FInv, Sound, Shows, AddrOf
<1>13. Between'
  <2>1. \A b \in boards : Spacing[b.type] \in Nat
    BY Fits DEF FInv
  <2> QED
    BY <1>2, <1>3, <1>4, <1>5, <1>6, <1>7, <2>1 DEF FInv, Between
<1>14. ASSUME NEW c \in cards, c.crate = at.crate, c.addr = new.addr, Apart(at.crate)
       PROVE  FALSE
  <2>1. PICK b \in Searched : Shows(c, b) /\ Behind(b)
    BY DEF FInv, Sound
  <2>2. b \in boards /\ b.crate = at.crate /\ AddrOf(b) = AddrOf(board)
    BY <1>2, <1>9, <1>14, <2>1 DEF Shows
  <2>3. /\ b.off \in 0..(Length[at.crate][b.space] - 1) /\ b.space \in Space
        /\ board.off \in 0..(Length[at.crate][at.space] - 1) /\ board.space \in Space
    BY <1>2, <2>2, Fits DEF FInv
  <2>4. Base[at.crate][b.space] + b.off = Base[at.crate][board.space] + board.off
    BY <1>2, <2>2 DEF AddrOf
  <2>5. b.space = at.space
    BY <1>2, <1>14, <2>3, <2>4 DEF Apart
  <2>6. Base[at.crate][at.space] \in Nat
    BY <1>2, Fits DEF FInv
  <2>7. b.off = at.off
    BY <1>2, <2>3, <2>4, <2>5, <2>6
  <2> QED
    BY <1>6, <2>1, <2>2, <2>5, <2>7 DEF Behind
<1>15. Once'
  BY <1>2, <1>14 DEF FInv, Once, Apart
<1> QED
  BY <1>3, <1>11, <1>12, <1>13, <1>15 DEF FInv, Fresh

\* A region was walked to its end, or is not one to walk.
LEMMA BehindAfterRegion ==
  ASSUME TypeOK, FInv, EndRegion
  PROVE  \A b \in Searched : Behind(b)' <=> Behind(b)
<1>1. /\ at' = [at EXCEPT !.space = @ + 1, !.off = 0] /\ ~ InRegion
      /\ pc = "scan" /\ at.crate \in online
  BY DEF EndRegion
<1>2. /\ at'.crate = at.crate /\ at'.space = at.space + 1 /\ at'.off = 0
      /\ at.space \in Nat /\ at.off \in Nat /\ at.crate \in Nat
  BY <1>1 DEF TypeOK, Space, Crate, A16, A32
<1>3. \A b \in boards : b.crate \in Nat /\ b.space \in Nat /\ b.off \in Nat
  BY Fits DEF FInv, Crate, Space, A16, A32
<1>4. \A b \in Searched : b.crate = at.crate /\ b.space = at.space => b.off < at.off
  <2> SUFFICES ASSUME NEW b \in Searched, b.crate = at.crate, b.space = at.space
               PROVE  b.off < at.off
    OBVIOUS
  <2>1. at.space \in Scanned /\ b \in boards
    BY DEF Searched
  <2>2. Length[at.crate][at.space] \in Nat /\ b.off < Length[at.crate][at.space]
    BY <2>1, Fits DEF FInv
  <2> QED
    BY <1>1, <1>2, <1>3, <2>1, <2>2 DEF InRegion
<1> QED
  BY <1>2, <1>3, <1>4 DEF Behind, Searched

LEMMA AfterRegion ==
  ASSUME TypeOK, FInv, EndRegion
  PROVE  FInv'
<1>1. /\ at' = [at EXCEPT !.space = @ + 1, !.off = 0] /\ pc = "scan"
      /\ UNCHANGED <<boards, online, pc, cards>>
  BY DEF EndRegion
<1>2. at'.off = 0 /\ \A b \in boards : b.off \in Nat
  BY <1>1, Fits DEF TypeOK, FInv
<1>3. Searched' = Searched
  BY <1>1 DEF Searched
<1>4. Reached' /\ Sound'
  BY <1>1, <1>3, BehindAfterRegion DEF FInv, Reached, Sound, Found, Shows, AddrOf
<1>5. Between'
  BY <1>1, <1>2 DEF Between
<1> QED
  BY <1>1, <1>4, <1>5 DEF FInv, Fresh, Once, Apart

\* A crate was walked to its end, or is not online.
LEMMA BehindAfterCrate ==
  ASSUME TypeOK, FInv, EndCrate
  PROVE  /\ \A b \in Searched : b.crate = at.crate => Behind(b)
         /\ pc' = "scan" => \A b \in Searched : Behind(b)' <=> Behind(b)
<1>1. /\ pc = "scan"
      /\ at.crate \in online => ~ InRegion /\ at.space = A32
      /\ pc' = "scan" => at' = Start(at.crate + 1)
  BY DEF EndCrate
<1>2. at.crate \in Nat /\ at.space \in 1..3 /\ at.off \in Nat
  BY DEF TypeOK, Crate, Space, A16, A32
<1>3. \A b \in boards : b.crate \in Nat /\ b.space \in 1..3 /\ b.off \in Nat
  BY Fits DEF FInv, Crate, Space, A16, A32
<1>4. ASSUME NEW b \in Searched, b.crate = at.crate
      PROVE  Behind(b)
  <2>1. b \in boards /\ b.space \in Scanned /\ at.crate \in online
    BY <1>4 DEF Searched
  <2>2. Length[at.crate][b.space] \in Nat /\ b.off < Length[at.crate][b.space]
    BY <1>4, <2>1, Fits DEF FInv
  <2>3. at.space = 3
    BY <1>1, <2>1 DEF A32
  <2>4. CASE b.space = at.space
    BY <1>1, <1>2, <1>3, <1>4, <2>1, <2>2, <2>4 DEF InRegion, Behind
  <2>5. CASE b.space # at.space
    BY <1>3, <1>4, <2>1, <2>3, <2>5 DEF Behind
  <2> QED
    BY <2>4, <2>5
<1>5. ASSUME pc' = "scan", NEW b \in Searched
      PROVE  Behind(b)' <=> Behind(b)
  <2>1. at'.crate = at.crate + 1 /\ at'.space = 1 /\ at'.off = 0 /\ b \in boards
    BY <1>1, <1>5 DEF Start, A16, Searched
  <2>2. Behind(b)' <=> b.crate <= at.crate
    BY <1>2, <1>3, <2>1 DEF Behind
  <2> QED
    BY <1>2, <1>3, <1>4, <2>1, <2>2 DEF Behind
<1> QED
  BY <1>4, <1>5

LEMMA AfterCrate ==
  ASSUME TypeOK, FInv, EndCrate
  PROVE  FInv'
<1>1. /\ pc = "scan" /\ UNCHANGED <<boards, online, cards>>
      /\ \/ at.crate = NumCrates - 1 /\ pc' = "done" /\ at' = at
         \/ pc' = "scan" /\ at' = Start(at.crate + 1)
  BY DEF EndCrate
<1>2. at.crate \in 0..(NumCrates - 1) /\ NumCrates \in Nat
  BY ScanAssumption DEF TypeOK, Crate
<1>3. Searched' = Searched /\ Searched \subseteq boards
  BY <1>1 DEF Searched
<1>4. \A b \in boards : b.crate \in 0..(NumCrates - 1) /\ b.off \in Nat
  BY Fits DEF FInv, Crate
<1>5. CASE pc' = "done"
  <2>1. at.crate = NumCrates - 1 /\ at' = at
    BY <1>1, <1>5
  <2>2. \A b \in Searched : Behind(b)
    BY <1>2, <1>3, <1>4, <2>1, BehindAfterCrate DEF Behind
  <2>3. Reached' /\ Sound'
    BY <1>1, <1>3, <2>1, <2>2 DEF FInv, Reached, Sound, Found, Shows, AddrOf, Behind
  <2> QED
    BY <1>1, <1>5, <2>3 DEF FInv, Fresh, Between, Once, Apart
<1>6. CASE pc' = "scan"
  <2>1. at'.off = 0
    BY <1>1, <1>6 DEF Start
  <2>2. Reached' /\ Sound'
    BY <1>1, <1>3, <1>6, BehindAfterCrate DEF FInv, Reached, Sound, Found, Shows, AddrOf
  <2>3. Between'
    BY <1>1, <1>4, <2>1 DEF Between
  <2> QED
    BY <1>1, <1>6, <2>2, <2>3 DEF FInv, Fresh, Once, Apart
<1> QED
  BY <1>1, <1>5, <1>6

LEMMA FInductive ==
  ASSUME TypeOK, FInv, [Next]_vars
  PROVE  FInv'
<1>1. CASE ConfigRepeater
  <2>1. cards = {} /\ UNCHANGED <<boards, cards>>
    BY <1>1 DEF ConfigRepeater, FInv, Fresh
  <2>2. pc' = "repeater" \/ (pc' = "scan" /\ at'.crate = 0 /\ at'.space = 1 /\ at'.off = 0)
    BY <1>1 DEF ConfigRepeater, Start, A16
  <2>3. \A b \in boards : b.crate \in Nat /\ b.space \in 1..3 /\ b.off \in Nat
    BY Fits DEF FInv, Crate, Space, A16, A32
  <2>4. Reached'
    BY <2>1, <2>2, <2>3 DEF Reached, Searched, Behind
  <2>5. Between'
    BY <2>1, <2>2, <2>3 DEF Between
  <2> QED
    BY <2>1, <2>4, <2>5 DEF FInv, Fresh, Sound, Once
<1>2. CASE UNCHANGED <<boards, online, at, cards>> /\ pc = "scan"
           /\ pc' \in {"scan", "null_base", "overrun"}
  BY <1>2 DEF FInv, Fresh, Reached, Sound, Between, Once, Searched, Behind, Found, Shows,
              AddrOf, Apart
<1>3. CASE UNCHANGED vars
  BY <1>3 DEF vars, FInv, Fresh, Reached, Sound, Between, Once, Searched, Behind, Found, Shows,
              AddrOf, Apart
<1> QED
  BY <1>1, <1>2, <1>3, AfterNothing, AfterBoard, AfterRegion, AfterCrate
     DEF Next, Probe, ProbeOther, ProbeUnmapped, Overrun, InRegion

LEMMA FInvHolds == Spec => []FInv
<1>1. Init => FInv
  BY DEF Init, FInv, Fresh, Reached, Sound, Between, Once
<1>2. TypeOK /\ FInv /\ [Next]_vars => FInv'
  BY FInductive
<1> QED
  BY <1>1, <1>2, TypeCorrect, PTL DEF Spec

\* A scan that ends has found every board of the spaces it walked, once, and
\* nothing else, for any crates, regions and boards.
THEOREM EveryBoardFound == Spec => []FindsEveryBoard
<1>1. FInv => FindsEveryBoard
  BY DEF FInv, Reached, Sound, Once, Found, Shows, FindsEveryBoard
<1> QED
  BY <1>1, FInvHolds, PTL

\* The boards found in the crates that are done have their lines.
Shown ==
  \A card \in cards :
    (pc = "done" \/ card.crate < at.crate) /\ SpacesOfAddr(0, card.addr) # {} =>
      \E line \in lines : Names(card, line)

\* The end of a crate writes the lines of its boards.
LEMMA ShownAfterCrate ==
  ASSUME TypeOK, FInv, Shown, EndCrate
  PROVE  Shown'
<1>1. /\ pc = "scan" /\ UNCHANGED <<online, cards>> /\ lines \subseteq lines'
      /\ \/ at.crate = NumCrates - 1 /\ pc' = "done" /\ at' = at
         \/ pc' = "scan" /\ at' = Start(at.crate + 1)
  BY DEF EndCrate
<1> SUFFICES ASSUME NEW card \in cards, pc' = "done" \/ card.crate < at'.crate,
                    SpacesOfAddr(0, card.addr) # {}
             PROVE  \E line \in lines' : Names(card, line)
  BY <1>1 DEF Shown, SpacesOfAddr, Names
<1>2. /\ at.crate \in Nat /\ at.crate < NumCrates /\ NumCrates \in Nat
      /\ card.crate \in Nat /\ card.crate < NumCrates /\ card.type \in Known
  BY ScanAssumption DEF TypeOK, Card, Crate
<1>3. card.crate <= at.crate
  BY <1>1, <1>2 DEF Start
<1>4. CASE card.crate < at.crate
  BY <1>1, <1>4 DEF Shown
<1>5. CASE card.crate = at.crate
  <2>1. at.crate \in online
    BY <1>5 DEF FInv, Sound, Shows, Searched
  <2>2. PICK s \in Space : /\ s \in SpacesOfAddr(0, card.addr)
                           /\ \A t \in SpacesOfAddr(0, card.addr) : s <= t
    <3>1. SpacesOfAddr(0, card.addr) \subseteq 1..3
      BY DEF SpacesOfAddr, Space, A16, A32
    <3>2. CASE 1 \in SpacesOfAddr(0, card.addr)
      BY <3>1, <3>2 DEF Space, A16, A32
    <3>3. CASE 1 \notin SpacesOfAddr(0, card.addr) /\ 2 \in SpacesOfAddr(0, card.addr)
      BY <3>1, <3>3 DEF Space, A16, A32
    <3>4. CASE 1 \notin SpacesOfAddr(0, card.addr) /\ 2 \notin SpacesOfAddr(0, card.addr)
      BY <3>1, <3>4 DEF Space, A16, A32
    <3> QED
      BY <3>2, <3>3, <3>4
  <2> DEFINE line == [crate |-> at.crate, type |-> card.type, num |-> card.num,
                      addr |-> card.addr, space |-> s]
  <2>3. line \in lines'
    BY <1>2, <1>5, <2>1, <2>2 DEF EndCrate
  <2>4. Names(card, line)
    BY <1>5 DEF Names
  <2> QED
    BY <2>3, <2>4
<1> QED
  BY <1>2, <1>3, <1>4, <1>5

LEMMA SInductive ==
  ASSUME TypeOK, FInv, Shown, [Next]_vars
  PROVE  Shown'
<1>1. CASE ConfigRepeater
  BY <1>1 DEF ConfigRepeater, FInv, Fresh, Shown
<1>2. CASE ProbeBoard
  <2>1. /\ UNCHANGED <<online, lines, pc>> /\ pc = "scan" /\ at'.crate = at.crate
        /\ \A card \in cards' \ cards : card.crate = at.crate
    BY <1>2 DEF ProbeBoard, InRegion, TypeOK
  <2>2. at.crate \in Nat
    BY DEF TypeOK, Crate
  <2> QED
    BY <2>1, <2>2 DEF Shown, SpacesOfAddr, Names
<1>3. CASE EndCrate
  BY <1>3, ShownAfterCrate
<1>4. CASE /\ UNCHANGED <<online, cards, lines>> /\ at'.crate = at.crate
           /\ pc' = "done" => pc = "done"
  BY <1>4 DEF Shown, SpacesOfAddr, Names
<1>5. ProbeNothing \/ EndRegion => at'.crate = at.crate
  BY DEF ProbeNothing, EndRegion, TypeOK
<1> QED
  BY <1>1, <1>2, <1>3, <1>4, <1>5
     DEF Next, Probe, ProbeNothing, ProbeOther, ProbeUnmapped, Overrun, EndRegion, vars

\* Whatever the regions of the crates, a line of the output file is that of a
\* board at its address, and of its space unless its crate's regions reach into
\* others of the first crate; and no board that can be given a space has no line.
THEOREM TrueLines == Spec => []LinesAreTrue
<1>1. ASSUME TypeOK, FInv, IInv, NEW line \in lines
      PROVE  \E b \in Searched :
               /\ b.crate = line.crate /\ b.type = line.type /\ AddrOf(b) = line.addr
               /\ Clear(line.crate) => b.space = line.space
  <2>1. SpaceOf(line) /\ \E card \in cards : Names(card, line)
    BY <1>1 DEF IInv, Listed
  <2>2. PICK card \in cards : Names(card, line)
    BY <2>1
  <2>3. PICK b \in Searched : Shows(card, b)
    BY <1>1 DEF FInv, Sound
  <2>4. b.crate = line.crate /\ b.type = line.type /\ AddrOf(b) = line.addr
    BY <2>2, <2>3 DEF Names, Shows
  <2>5. /\ b.crate \in Crate /\ b.space \in Space /\ b.off \in Nat
        /\ b.off \in 0..(Length[b.crate][b.space] - 1)
    BY <1>1, Fits DEF FInv, Searched
  <2>6. /\ line.space \in Space /\ Base[0][line.space] <= line.addr
        /\ line.addr < Base[0][line.space] + Length[0][A16]
    BY <2>1 DEF SpaceOf, SpacesOfAddr
  <2>7. /\ Base[0][line.space] \in Nat /\ Base[b.crate][b.space] \in Nat
        /\ Length[0][A16] \in Nat
    BY <2>5, <2>6, CrateZero, ScanAssumption DEF Space, A16, A32
  <2> DEFINE j == line.addr - Base[0][line.space]
  <2>8. /\ j \in 0..(Length[0][A16] - 1)
        /\ Base[b.crate][b.space] + b.off = Base[0][line.space] + j
    BY <2>4, <2>5, <2>6, <2>7 DEF AddrOf
  <2> HIDE DEF j
  <2>9. Clear(line.crate) => b.space = line.space
    BY <2>4, <2>5, <2>6, <2>8 DEF Clear
  <2> QED
    BY <2>4, <2>9
<1>2. TypeOK /\ FInv /\ IInv /\ Shown => LinesAreTrue
  BY <1>1 DEF LinesAreTrue, Shown
<1>3. Init => IInv /\ Shown
  BY DEF Init, IInv, Counted, Numbered, Listed, Early, Shown
<1>4. TypeOK /\ TypeOK' /\ IInv /\ [Next]_vars => IInv'
  BY Inductive
<1>5. TypeOK /\ FInv /\ Shown /\ [Next]_vars => Shown'
  BY SInductive
<1> QED
  BY <1>2, <1>3, <1>4, <1>5, TypeCorrect, FInvHolds, PTL DEF Spec

-----------------------------------------------------------------------------
(* OverrunNeedsBoards.  As many entries are filled in as there are boards of *)
(* the table behind the scan's position.                                     *)

Passed == {b \in Wanted : Behind(b)}

CInv ==
  /\ pc = "repeater" => cardNum = 0
  /\ pc = "scan" => Cardinality(Passed) = cardNum
  /\ OverrunNeedsBoards

LEMMA BoardsFinite ==
  ASSUME boards \in Chassis
  PROVE  IsFiniteSet(boards) /\ IsFiniteSet(Wanted) /\ IsFiniteSet(Passed)
<1>1. IsFiniteSet(boards) /\ Wanted \subseteq boards /\ Passed \subseteq boards
  BY ScanAssumption DEF Wanted, Searched, Passed
<1> QED
  BY <1>1, FS_Subset

\* A recognised board is one more than those behind the position.
LEMMA OneMore ==
  ASSUME FInv, TypeOK, NEW board \in boards, InRegion, Here(board), Recognised(board)
  PROVE  /\ board \in Wanted /\ board \notin Passed
         /\ Cardinality(Passed \cup {board}) = Cardinality(Passed) + 1
<1>1. board.crate = at.crate /\ board.space = at.space /\ board.off = at.off
  BY DEF Here, Recognised
<1>2. board \in Wanted
  BY <1>1 DEF Wanted, Searched, InRegion, Recognised
<1>3. board.crate \in Nat /\ board.space \in Nat /\ board.off \in Nat
  BY Fits DEF FInv, Crate, Space, A16, A32
<1>4. board \notin Passed
  BY <1>1, <1>3 DEF Passed, Behind
<1> QED
  BY <1>2, <1>4, BoardsFinite, FS_AddElement DEF FInv

LEMMA CInductive ==
  ASSUME TypeOK, FInv, CInv, [Next]_vars
  PROVE  CInv'
<1> USE DEF CInv
<1>1. CASE ConfigRepeater
  <2>1. cardNum' = 0 /\ UNCHANGED boards /\ pc' \in {"repeater", "scan"}
    BY <1>1 DEF ConfigRepeater
  <2>2. ASSUME pc' = "scan" PROVE Passed' = {}
    <3>1. at'.crate = 0 /\ at'.space = 1 /\ at'.off = 0
      BY <1>1, <2>2 DEF ConfigRepeater, Start, A16
    <3>2. \A b \in boards : b.crate \in Nat /\ b.space \in 1..3 /\ b.off \in Nat
      BY Fits DEF FInv, Crate, Space, A16, A32
    <3> QED
      BY <2>1, <3>1, <3>2 DEF Passed, Wanted, Searched, Behind
  <2> QED
    BY <2>1, <2>2, FS_EmptySet DEF OverrunNeedsBoards
<1>2. ASSUME UNCHANGED <<boards, online, cardNum>>, pc = "scan", pc' \in {"scan", "done"},
             pc' = "scan" => \A b \in Searched : Behind(b)' <=> Behind(b)
      PROVE  CInv'
  <2>1. Wanted' = Wanted /\ Wanted \subseteq Searched
    BY <1>2 DEF Wanted, Searched
  <2>2. pc' = "scan" => Passed' = Passed
    BY <1>2, <2>1 DEF Passed
  <2> QED
    BY <1>2, <2>2 DEF OverrunNeedsBoards
<1>3. CASE ProbeNothing
  BY <1>2, <1>3, BehindAfterNothing DEF ProbeNothing, InRegion, Searched
<1>4. CASE ProbeBoard
  <2>1. PICK board \in boards :
          /\ Here(board) /\ Recognised(board)
          /\ at' = [at EXCEPT !.off = @ + Spacing[board.type]]
    BY <1>4 DEF ProbeBoard
  <2>2. InRegion /\ pc' = "scan" /\ cardNum' = cardNum + 1 /\ UNCHANGED <<boards, online>>
    BY <1>4 DEF ProbeBoard, InRegion
  <2>3. Wanted' = Wanted /\ Wanted \subseteq boards
    BY <2>2 DEF Wanted, Searched
  <2>4. Passed' = Passed \cup {board}
    BY <2>1, <2>2, <2>3, OneMore, BehindAfterBoard DEF Passed
  <2> QED
    BY <2>1, <2>2, <2>4, OneMore DEF InRegion, OverrunNeedsBoards
<1>5. CASE Overrun
  <2>1. PICK board \in boards : Here(board) /\ Recognised(board)
    BY <1>5 DEF Overrun
  <2>2. /\ InRegion /\ pc = "scan" /\ pc' = "overrun" /\ cardNum = MaxCards
        /\ UNCHANGED <<boards, online>>
    BY <1>5 DEF Overrun, InRegion
  <2>3. Passed \cup {board} \subseteq Wanted /\ Cardinality(Passed \cup {board}) = MaxCards + 1
    BY <2>1, <2>2, OneMore DEF Passed
  <2>4. /\ IsFiniteSet(Wanted) /\ Cardinality(Passed \cup {board}) <= Cardinality(Wanted)
        /\ Cardinality(Wanted) \in Nat
    BY <2>3, BoardsFinite, FS_Subset, FS_CardinalityType DEF FInv
  <2>5. Wanted' = Wanted
    BY <2>2 DEF Wanted, Searched
  <2> QED
    BY <2>2, <2>3, <2>4, <2>5, ScanAssumption DEF OverrunNeedsBoards
<1>6. CASE EndRegion
  BY <1>2, <1>6, BehindAfterRegion DEF EndRegion
<1>7. CASE EndCrate
  BY <1>2, <1>7, BehindAfterCrate DEF EndCrate
<1>8. CASE ProbeUnmapped
  BY <1>8 DEF ProbeUnmapped, InRegion, OverrunNeedsBoards
<1>9. CASE UNCHANGED vars
  <2>1. Searched' = Searched /\ \A b \in Searched : Behind(b)' <=> Behind(b)
    BY <1>9 DEF vars, Searched, Behind
  <2> QED
    BY <1>9, <2>1 DEF vars, OverrunNeedsBoards, Passed, Wanted
<1> QED
  BY <1>1, <1>3, <1>4, <1>5, <1>6, <1>7, <1>8, <1>9 DEF Next, Probe, ProbeOther

\* The table of cards is only overrun by more boards of its types than it has
\* entries, however they are spread over crates and spaces.
THEOREM OverrunByBoards == Spec => []OverrunNeedsBoards
<1>1. Init => CInv
  BY DEF Init, CInv, OverrunNeedsBoards
<1>2. TypeOK /\ FInv /\ CInv /\ [Next]_vars => CInv'
  BY CInductive
<1>3. CInv => OverrunNeedsBoards
  BY DEF CInv
<1> QED
  BY <1>1, <1>2, <1>3, TypeCorrect, FInvHolds, PTL DEF Spec

-----------------------------------------------------------------------------
(* Induction, on sets of numbers.                                            *)

LEMMA NatLess == IsWellFoundedOn({p \in Nat \X Nat : p[1] < p[2]}, Nat)
BY NatLessThanWellFounded, Zenon DEF OpToRel

LEMMA LeastOf ==
  ASSUME NEW H \in SUBSET Nat, H # {}
  PROVE  \E x \in H : \A y \in H : x <= y
<1>1. PICK x \in H : \A y \in H : ~ (<<y, x>> \in {p \in Nat \X Nat : p[1] < p[2]})
  BY NatLess, WFMin, Zenon
<1>2. ASSUME NEW y \in H, y < x PROVE FALSE
  <2>1. <<y, x>> \in {p \in Nat \X Nat : p[1] < p[2]}
    BY <1>2
  <2> QED
    BY <1>1, <2>1, Zenon
<1>3. \A y \in H : x <= y
  BY <1>2
<1> QED
  BY <1>3

LEMMA MinIs ==
  ASSUME NEW H \in SUBSET Nat, H # {}
  PROVE  Min(H) \in H /\ \A y \in H : Min(H) <= y
BY LeastOf, Zenon DEF Min

LEMMA NatSets ==
  ASSUME NEW I, 0 \in I, \A n \in Nat : n \in I => n + 1 \in I
  PROVE  Nat \subseteq I
<1>1. SUFFICES ASSUME Nat \ I # {} PROVE FALSE
  OBVIOUS
<1>2. PICK x \in Nat \ I : \A y \in Nat \ I : x <= y
  BY <1>1, LeastOf
<1>3. x - 1 \in Nat /\ x = (x - 1) + 1
  BY <1>2
<1> QED
  BY <1>2, <1>3

-----------------------------------------------------------------------------
(* parse_options() is a run of its loop.                                     *)

Begin(vals) == [at |-> 1, vals |-> vals, set |-> {}, result |-> "ok"]

IsRun(f, n, table, args, vals) ==
  f = [m \in 0..n |-> IF m = 0 THEN Begin(vals) ELSE Turn(table, args, f[m - 1])]

LEMMA RunExists ==
  ASSUME NEW table, NEW args, NEW vals
  PROVE  \A n \in Nat : \E f : IsRun(f, n, table, args, vals)
<1> DEFINE I == {n \in Nat : \E f : IsRun(f, n, table, args, vals)}
<1>1. 0 \in I
  <2> DEFINE f == [m \in 0..0 |-> Begin(vals)]
  <2>1. IsRun(f, 0, table, args, vals)
    BY DEF IsRun
  <2> QED
    BY <2>1
<1>2. ASSUME NEW n \in Nat, n \in I PROVE n + 1 \in I
  <2>1. PICK f : IsRun(f, n, table, args, vals)
    BY <1>2
  <2> DEFINE g == [m \in 0..(n + 1) |-> IF m = n + 1 THEN Turn(table, args, f[n]) ELSE f[m]]
  <2>2. \A m \in 0..n : f[m] = IF m = 0 THEN Begin(vals) ELSE Turn(table, args, f[m - 1])
    BY <2>1 DEF IsRun
  <2>3. ASSUME NEW m \in 0..(n + 1)
        PROVE  g[m] = IF m = 0 THEN Begin(vals) ELSE Turn(table, args, g[m - 1])
    <3>1. CASE m = n + 1
      <4>1. m # 0 /\ m - 1 = n /\ m - 1 \in 0..(n + 1) /\ m - 1 # n + 1
        BY <3>1
      <4>2. g[m - 1] = f[n] /\ g[m] = Turn(table, args, f[n])
        BY <3>1, <4>1
      <4> QED
        BY <4>1, <4>2, Zenon
    <3>2. CASE m # n + 1
      <4>1. m \in 0..n /\ g[m] = f[m]
        BY <3>2
      <4>2. m # 0 => g[m - 1] = f[m - 1]
        BY <3>2
      <4> QED
        BY <2>2, <4>1, <4>2, Zenon
    <3> QED
      BY <3>1, <3>2
  <2>4. IsRun(g, n + 1, table, args, vals)
    <3> HIDE DEF g
    <3>1. g = [m \in 0..(n + 1) |-> g[m]]
      BY DEF g
    <3> QED
      BY <2>3, <3>1, Zenon DEF IsRun
  <2> QED
    BY <2>4
<1> HIDE DEF I
<1>3. Nat \subseteq I
  BY <1>1, <1>2, NatSets
<1> QED
  BY <1>3 DEF I

\* The result is the last of a sequence of turns.
LEMMA ParseRun ==
  ASSUME NEW table, NEW args, NEW vals, Len(args) \in Nat
  PROVE  \E f : /\ f[0] = Begin(vals)
                /\ \A n \in 1..Len(args) : f[n] = Turn(table, args, f[n - 1])
                /\ Parse(table, args, vals) = f[Len(args)]
<1> DEFINE turn == CHOOSE f : f = [n \in 0..Len(args) |->
                      IF n = 0 THEN [at |-> 1, vals |-> vals, set |-> {}, result |-> "ok"]
                      ELSE Turn(table, args, f[n - 1])]
<1>1. \E f : f = [n \in 0..Len(args) |->
                IF n = 0 THEN [at |-> 1, vals |-> vals, set |-> {}, result |-> "ok"]
                ELSE Turn(table, args, f[n - 1])]
  <2>1. \E f : IsRun(f, Len(args), table, args, vals)
    BY RunExists
  <2> QED
    BY <2>1, Zenon DEF IsRun, Begin
<1>2. Parse(table, args, vals) = turn[Len(args)]
  BY DEF Parse
<1>3. IsRun(turn, Len(args), table, args, vals)
  BY <1>1, Zenon DEF IsRun, Begin
<1> HIDE DEF turn
<1>4. ASSUME NEW n \in 0..Len(args)
      PROVE  turn[n] = IF n = 0 THEN Begin(vals) ELSE Turn(table, args, turn[n - 1])
  BY <1>3, Zenon DEF IsRun
<1>5. turn[0] = Begin(vals)
  BY <1>4
<1>6. \A n \in 1..Len(args) : n \in 0..Len(args) /\ n # 0
  OBVIOUS
<1>7. \A n \in 1..Len(args) : turn[n] = Turn(table, args, turn[n - 1])
  BY <1>4, <1>6, Zenon
<1> QED
  BY <1>2, <1>5, <1>7, Zenon

\* What every turn keeps, the result has.
LEMMA ParseIn ==
  ASSUME NEW table, NEW args, NEW vals, Len(args) \in Nat,
         NEW State, Begin(vals) \in State, \A s \in State : Turn(table, args, s) \in State
  PROVE  Parse(table, args, vals) \in State
<1>1. PICK f : /\ f[0] = Begin(vals)
               /\ \A n \in 1..Len(args) : f[n] = Turn(table, args, f[n - 1])
               /\ Parse(table, args, vals) = f[Len(args)]
  BY ParseRun
<1> DEFINE I == {n \in Nat : n <= Len(args) => f[n] \in State}
<1>2. 0 \in I
  BY <1>1
<1>3. ASSUME NEW n \in Nat, n \in I PROVE n + 1 \in I
  <2>1. CASE n + 1 <= Len(args)
    <3>1. n + 1 \in 1..Len(args) /\ (n + 1) - 1 = n /\ f[n] \in State
      BY <1>3, <2>1
    <3>2. f[n + 1] = Turn(table, args, f[n])
      BY <1>1, <3>1
    <3> QED
      BY <3>1, <3>2
  <2> QED
    BY <2>1
<1> HIDE DEF I
<1>4. Nat \subseteq I
  BY <1>2, <1>3, NatSets
<1> QED
  BY <1>1, <1>4 DEF I

-----------------------------------------------------------------------------
(* What a turn does.                                                         *)

Entries(table) == {table[k] : k \in DOMAIN table}

Stored(e, args, s) ==
  [s EXCEPT !.vals = Load(e, args[s.at + Takes(e) - 1], @), !.set = @ \cup {e.var},
            !.at = @ + Takes(e)]

Goes(e, args, s) ==
  /\ Matches(e, args, s.at)
  /\ s.at <= Len(args) /\ s.result = "ok"
  /\ s.at + Takes(e) <= Len(args) + 1
  /\ Accepts(e, args[s.at + Takes(e) - 1])

LEMMA TurnCases ==
  ASSUME NEW table, DOMAIN table \subseteq Nat, NEW args, Len(args) \in Nat,
         NEW s, s.at \in Nat
  PROVE  \/ Turn(table, args, s) \in {s, [s EXCEPT !.result = "error"], [s EXCEPT !.result = "past"]}
         \/ \E e \in Entries(table) : Goes(e, args, s) /\ Turn(table, args, s) = Stored(e, args, s)
<1> DEFINE hits == {k \in DOMAIN table : Matches(table[k], args, s.at)}
           e    == table[Min(hits)]
<1>1. CASE s.at > Len(args) \/ s.result # "ok" \/ hits = {}
  BY <1>1, Zenon DEF Turn
<1>2. CASE ~ (s.at > Len(args) \/ s.result # "ok" \/ hits = {})
  <2>1. Min(hits) \in hits
    BY <1>2, MinIs
  <2>2. e \in Entries(table) /\ Matches(e, args, s.at)
    BY <2>1 DEF Entries
  <2>3. Takes(e) \in {1, 2}
    BY DEF Takes
  <2>4. s.at <= Len(args) /\ s.result = "ok"
    BY <1>2
  <2>5. CASE s.at + Takes(e) > Len(args) + 1
    <3>1. Turn(table, args, s) = [s EXCEPT !.result = "past"]
      BY <1>2, <2>5, Zenon DEF Turn
    <3> QED
      BY <3>1
  <2>6. CASE ~ (s.at + Takes(e) > Len(args) + 1)
    <3>1. s.at + Takes(e) <= Len(args) + 1
      BY <2>3, <2>6
    <3>2. CASE ~ Accepts(e, args[s.at + Takes(e) - 1])
      <4>1. Turn(table, args, s) = [s EXCEPT !.result = "error"]
        BY <1>2, <2>6, <3>2, Zenon DEF Turn
      <4> QED
        BY <4>1
    <3>3. CASE Accepts(e, args[s.at + Takes(e) - 1])
      <4>1. Turn(table, args, s) = Stored(e, args, s)
        BY <1>2, <2>6, <3>3, Zenon DEF Turn, Stored
      <4>2. Goes(e, args, s)
        BY <2>2, <2>4, <3>1, <3>3, Zenon DEF Goes
      <4> QED
        BY <2>2, <4>1, <4>2, Zenon
    <3> QED
      BY <3>2, <3>3
  <2> QED
    BY <2>5, <2>6
<1> QED
  BY <1>1, <1>2

-----------------------------------------------------------------------------
(* The options and the tables.                                               *)

LEMMA Concat ==
  ASSUME NEW S, NEW a \in Seq(S), NEW b \in Seq(S)
  PROVE  /\ a \o b \in Seq(S) /\ Len(a \o b) = Len(a) + Len(b)
         /\ DOMAIN (a \o b) = 1..(Len(a) + Len(b))
         /\ \A i \in 1..(Len(a) + Len(b)) :
              (a \o b)[i] = IF i <= Len(a) THEN a[i] ELSE b[i - Len(a)]
OBVIOUS

LEMMA OptIs ==
  /\ Opt("-a", 16) = "-a16" /\ Opt("-s", 16) = "-s16" /\ Opt("-S", 16) = "-S16"
  /\ Opt("-sp", 16) = "-sp16" /\ Opt("-ep", 16) = "-ep16"
  /\ Opt("-a", 24) = "-a24" /\ Opt("-s", 24) = "-s24" /\ Opt("-S", 24) = "-S24"
  /\ Opt("-sp", 24) = "-sp24" /\ Opt("-ep", 24) = "-ep24"
  /\ Opt("-a", 32) = "-a32" /\ Opt("-s", 32) = "-s32" /\ Opt("-S", 32) = "-S32"
  /\ Opt("-sp", 32) = "-sp32" /\ Opt("-ep", 32) = "-ep32"
BY DEF Opt

RepeaterNames == {"-a16", "-s16", "-S16", "-a24", "-s24", "-S24", "-a32", "-s32", "-S32"}

LEMMA RepeaterDomain ==
  /\ DOMAIN RepeaterVars = {"crate"} \cup RepeaterNames
  /\ RepeaterVars["crate"] = -1 /\ \A v \in RepeaterNames : RepeaterVars[v] = 0
  /\ "crate" \notin RepeaterNames
<1>1. {Opt(l, s) : l \in {"-a", "-s", "-S"}, s \in Width} = RepeaterNames
  BY OptIs DEF Width, RepeaterNames
<1>2. "crate" \notin RepeaterNames
  BY DEF RepeaterNames
<1> QED
  BY <1>1, <1>2 DEF RepeaterVars

\* An entry of a repeater line.
IsRepeaterEntry(e) ==
  /\ e.arg # ""
  /\ \/ e.routine = "load_crate_num" /\ e.opt = "repeater" /\ e.var = "crate"
     \/ e.routine = "load_constant" /\ e.var \in RepeaterNames
     \/ e.routine = "load_enum" /\ e.var \in RepeaterNames /\ e.value = 0

LEMMA RepeaterEntries ==
  /\ DOMAIN RepeaterTable \subseteq Nat
  /\ \A e \in Entries(RepeaterTable) : IsRepeaterEntry(e)
<1>1. IsRepeaterEntry(Entry("repeater", "v120", "load_crate_num", "crate", 0))
  BY DEF Entry, IsRepeaterEntry
<1>2. \A v \in RepeaterNames : IsRepeaterEntry(Constant(v))
  BY DEF Entry, IsRepeaterEntry, Constant
<1>3. \A opt : \A v \in RepeaterNames : IsRepeaterEntry(Entry(opt, "speed", "load_enum", v, 0))
  BY DEF Entry, IsRepeaterEntry
<1>4. DOMAIN RepeaterTable = 1..10
  BY DEF RepeaterTable
<1>5. ASSUME NEW k \in 1..10 PROVE IsRepeaterEntry(RepeaterTable[k])
  <2>1. /\ RepeaterTable[1] = Entry("repeater", "v120", "load_crate_num", "crate", 0)
        /\ RepeaterTable[2] = Constant("-a16") /\ RepeaterTable[3] = Constant("-s16")
        /\ RepeaterTable[4] = Entry("-S16", "speed", "load_enum", "-S16", 0)
        /\ RepeaterTable[5] = Constant("-a24") /\ RepeaterTable[6] = Constant("-s24")
        /\ RepeaterTable[7] = Entry("-S24", "speed", "load_enum", "-S24", 0)
        /\ RepeaterTable[8] = Constant("-a32") /\ RepeaterTable[9] = Constant("-s32")
        /\ RepeaterTable[10] = Entry("-S32", "speed", "load_enum", "-S32", 0)
    BY DEF RepeaterTable
  <2>2. k \in {1, 2, 3, 4, 5, 6, 7, 8, 9, 10}
    OBVIOUS
  <2> QED
    BY <1>1, <1>2, <1>3, <2>1, <2>2, Zenon DEF RepeaterNames
<1>6. ASSUME NEW e \in Entries(RepeaterTable) PROVE IsRepeaterEntry(e)
  <2>1. PICK k \in 1..10 : e = RepeaterTable[k]
    BY <1>4, Zenon DEF Entries
  <2> QED
    BY <1>5, <2>1
<1> QED
  BY <1>4, <1>6

LEMMA DevNames == \A k \in 1..Cardinality(DevName) : SetToSeq(DevName)[k] \in DevName
<1>1. PICK n \in Nat : n = Cardinality(DevName) /\ ExistsBijection(1..n, DevName)
  BY ConfigAssumption, FS_NatBijection, FS_CountingElements
<1>2. \E f \in [1..Cardinality(DevName) -> DevName] : IsInjective(f)
  BY <1>1 DEF ExistsBijection, Bijection, Injection, IsInjective
<1>3. SetToSeq(DevName) \in [1..Cardinality(DevName) -> DevName]
  BY <1>2, Zenon DEF SetToSeq
<1> QED
  BY <1>3, Zenon

\* An entry of a vmedevice line.
IsDeviceEntry(e) ==
  /\ e.arg # ""
  /\ \/ e.routine = "load_crate_board_num" /\ e.opt = "vmedevice" /\ e.var = "crate"
     \/ e.routine = "load_constant" /\ e.opt = "-base" /\ e.var = "base"

LEMMA DeviceEntries ==
  /\ DOMAIN DeviceTable \subseteq Nat
  /\ \A e \in Entries(DeviceTable) : IsDeviceEntry(e)
<1>1. PICK n \in Nat : n = Cardinality(DevName)
  BY ConfigAssumption, FS_CardinalityType
<1> DEFINE names == [k \in 1..n |-> Entry("vmedevice", SetToSeq(DevName)[k],
                                          "load_crate_board_num", "crate", 0)]
           base  == <<Entry("-base", "*", "load_constant", "base", 0)>>
<1>2. DeviceTable = names \o base
  BY <1>1 DEF DeviceTable
<1>3. /\ Len(names) = n /\ names \in Seq(Entries(names) \cup Entries(base))
      /\ Len(base) = 1 /\ base \in Seq(Entries(names) \cup Entries(base))
      /\ base[1] = Entry("-base", "*", "load_constant", "base", 0)
      /\ \A k \in 1..n : names[k] = Entry("vmedevice", SetToSeq(DevName)[k],
                                          "load_crate_board_num", "crate", 0)
  BY DEF Entries
<1> HIDE DEF names, base
<1>4. /\ DOMAIN DeviceTable = 1..(n + 1)
      /\ \A k \in 1..(n + 1) : DeviceTable[k] = IF k <= n THEN names[k] ELSE base[1]
  <2>1. /\ DOMAIN (names \o base) = 1..(Len(names) + Len(base))
        /\ \A k \in 1..(Len(names) + Len(base)) :
             (names \o base)[k] = IF k <= Len(names) THEN names[k] ELSE base[k - Len(names)]
    BY <1>3, Concat
  <2>2. \A k \in 1..(n + 1) : ~ (k <= n) => k - n = 1
    OBVIOUS
  <2> QED
    BY <1>2, <1>3, <2>1, <2>2
<1>5. ASSUME NEW k \in 1..n PROVE IsDeviceEntry(names[k])
  <2>1. SetToSeq(DevName)[k] # ""
    BY <1>1, DevNames, ConfigAssumption
  <2>2. \A t : t # "" => IsDeviceEntry(Entry("vmedevice", t, "load_crate_board_num", "crate", 0))
    BY DEF Entry, IsDeviceEntry
  <2> QED
    BY <1>3, <2>1, <2>2
<1>6. IsDeviceEntry(base[1])
  BY <1>3 DEF Entry, IsDeviceEntry
<1>7. ASSUME NEW e \in Entries(DeviceTable) PROVE IsDeviceEntry(e)
  <2>1. PICK k \in 1..(n + 1) : e = DeviceTable[k]
    BY <1>4, Zenon DEF Entries
  <2>2. k <= n => k \in 1..n
    OBVIOUS
  <2> QED
    BY <1>4, <1>5, <1>6, <2>1, <2>2, Zenon
<1> QED
  BY <1>4, <1>7

-----------------------------------------------------------------------------
(* What the lines of the input file are parsed to.                           *)

\* The turns of a loop whose table has these variables.
Turns(table, D) ==
  [at: Nat \ {0}, vals: [D -> Int], set: SUBSET {e.var : e \in Entries(table)},
   result: {"ok", "error", "past"}]

IsTurn(table, D, s) == s \in Turns(table, D)

LEMMA TurnIs ==
  ASSUME NEW table, NEW D, NEW s, IsTurn(table, D, s)
  PROVE  /\ s.at \in Nat /\ s.at >= 1 /\ s.vals \in [D -> Int]
         /\ s.result \in {"ok", "error", "past"}
BY DEF Turns, IsTurn

LEMMA BeginTurn ==
  ASSUME NEW table, NEW D, NEW vals, vals \in [D -> Int]
  PROVE  IsTurn(table, D, Begin(vals)) /\ Begin(vals).vals = vals /\ Begin(vals).at = 1
BY DEF Begin, Turns, IsTurn

End(s, r) == [s EXCEPT !.result = r]

LEMMA EndTurn ==
  ASSUME NEW table, NEW D, NEW s, IsTurn(table, D, s)
  PROVE  /\ IsTurn(table, D, End(s, "error")) /\ IsTurn(table, D, End(s, "past"))
         /\ End(s, "error").vals = s.vals /\ End(s, "error").at = s.at
         /\ End(s, "past").vals = s.vals /\ End(s, "past").at = s.at
BY DEF Turns, IsTurn, End

On(s, vals, e) == [s EXCEPT !.vals = vals, !.set = s.set \cup {e.var}, !.at = s.at + 2]

LEMMA OnTurn ==
  ASSUME NEW table, NEW D, NEW s, IsTurn(table, D, s), NEW vals, vals \in [D -> Int],
         NEW e, e \in Entries(table)
  PROVE  /\ IsTurn(table, D, On(s, vals, e))
         /\ On(s, vals, e).at = s.at + 2
         /\ On(s, vals, e).vals = vals
         /\ On(s, vals, e).result = s.result
<1> DEFINE V   == {f.var : f \in Entries(table)}
           set == s.set \cup {e.var}
           next == s.at + 2
<1>1. s \in [at: Nat \ {0}, vals: [D -> Int], set: SUBSET V, result: {"ok", "error", "past"}]
  BY DEF IsTurn, Turns
<1>2. set \in SUBSET V /\ next \in Nat \ {0}
  <2>1. e.var \in V /\ s.set \in SUBSET V /\ s.at \in Nat \ {0}
    BY <1>1
  <2> QED
    BY <2>1
<1>3. On(s, vals, e) = [s EXCEPT !.vals = vals, !.set = set, !.at = next]
  BY Zenon DEF On
<1> HIDE DEF V, set, next
<1>4. /\ On(s, vals, e) \in
           [at: Nat \ {0}, vals: [D -> Int], set: SUBSET V, result: {"ok", "error", "past"}]
      /\ On(s, vals, e).at = next
      /\ On(s, vals, e).vals = vals
      /\ On(s, vals, e).result = s.result
  BY ONLY <1>1, <1>2, <1>3, vals \in [D -> Int]
<1> QED
  BY <1>4, Zenon DEF IsTurn, Turns, V, next

LEMMA TwoOn ==
  ASSUME NEW n \in Nat, n >= 1, NEW m \in Nat
  PROVE  /\ n + 2 - 1 = n + 1
         /\ n + 2 <= m + 1 => n \in 1..m /\ n + 1 \in 1..m
OBVIOUS

LEMMA TokenIs ==
  ASSUME NEW line, line \in Seq(Token)
  PROVE  /\ Len(line) \in Nat /\ DOMAIN line = 1..Len(line)
         /\ \A i \in 1..Len(line) :
              line[i].num \in Int /\ line[i].crate \in Int
<1>1. Len(line) \in Nat /\ DOMAIN line = 1..Len(line) /\ \A i \in 1..Len(line) : line[i] \in Token
  OBVIOUS
<1>2. \A t \in Token : t.num \in Int /\ t.crate \in Int
  BY DEF Token
<1> QED
  BY <1>1, <1>2, Zenon

LEMMA TakesTwo ==
  ASSUME NEW e, e.arg # ""
  PROVE  Takes(e) = 2
BY Zenon DEF Takes

\* A token that is loaded: its numbers are those of the line.
LEMMA GoesOn ==
  ASSUME NEW args, args \in Seq(Token), NEW s, s.at \in Nat, s.at >= 1,
         NEW e, e.arg # "", Goes(e, args, s)
  PROVE  /\ s.at \in 1..Len(args) /\ s.at + 1 \in 1..Len(args)
         /\ Matches(e, args, s.at) /\ Accepts(e, args[s.at + 1])
         /\ Stored(e, args, s) = On(s, Load(e, args[s.at + 1], s.vals), e)
<1>1. Len(args) \in Nat /\ s.at + 2 - 1 = s.at + 1
  BY TokenIs, TwoOn, Zenon
<1>2. Takes(e) = 2
  BY TakesTwo, Zenon
<1>3. s.at + 2 <= Len(args) + 1
  BY <1>2, Zenon DEF Goes
<1>4. s.at \in 1..Len(args) /\ s.at + 1 \in 1..Len(args)
  BY <1>1, <1>3, TwoOn, Zenon
<1>5. Matches(e, args, s.at) /\ Accepts(e, args[s.at + 1])
  BY <1>1, <1>2, Zenon DEF Goes
<1>6. Stored(e, args, s) = On(s, Load(e, args[s.at + 1], s.vals), e)
  BY <1>1, <1>2, Zenon DEF Stored, On
<1> QED
  BY <1>4, <1>5, <1>6, Zenon

\* What every accepted option keeps of its place and the variables.
LEMMA ParseKeeps ==
  ASSUME NEW table, DOMAIN table \subseteq Nat, NEW D, NEW args, args \in Seq(Token),
         NEW vals0, vals0 \in [D -> Int], NEW Good, <<1, vals0>> \in Good,
         \A e \in Entries(table) : e.arg # "",
         \A e \in Entries(table) : \A i \in 1..Len(args) : \A vals :
           (vals \in [D -> Int] /\ <<i, vals>> \in Good /\ i + 1 \in 1..Len(args)
            /\ Matches(e, args, i) /\ Accepts(e, args[i + 1])) =>
             /\ <<i + 2, Load(e, args[i + 1], vals)>> \in Good
             /\ Load(e, args[i + 1], vals) \in [D -> Int]
  PROVE  /\ \E i \in Nat : <<i, Parse(table, args, vals0).vals>> \in Good
         /\ Parse(table, args, vals0).vals \in [D -> Int]
<1> DEFINE State == {s \in Turns(table, D) : <<s.at, s.vals>> \in Good}
<1>0. Len(args) \in Nat
  BY TokenIs, Zenon
<1>1. \A s : s \in State <=> IsTurn(table, D, s) /\ <<s.at, s.vals>> \in Good
  BY Zenon DEF IsTurn
<1>2. Begin(vals0) \in State
  BY <1>1, BeginTurn, Zenon
<1> HIDE DEF State
<1>3. ASSUME NEW s, s \in State PROVE Turn(table, args, s) \in State
  <2> DEFINE t == Turn(table, args, s)
  <2>1. IsTurn(table, D, s) /\ s.at \in Nat /\ s.at >= 1 /\ <<s.at, s.vals>> \in Good /\ s.vals \in [D -> Int]
    BY <1>1, <1>3, TurnIs, Zenon
  <2>2. \/ t \in {s, [s EXCEPT !.result = "error"], [s EXCEPT !.result = "past"]}
        \/ \E e \in Entries(table) : Goes(e, args, s) /\ t = Stored(e, args, s)
    BY <1>0, <2>1, TurnCases, Zenon
  <2> HIDE DEF t
  <2>3. CASE t \in {s, End(s, "error"), End(s, "past")}
    <3>1. /\ End(s, "error").vals = s.vals /\ End(s, "error").at = s.at
          /\ End(s, "past").vals = s.vals /\ End(s, "past").at = s.at
          /\ IsTurn(table, D, End(s, "error")) /\ IsTurn(table, D, End(s, "past"))
      BY ONLY <2>1, EndTurn
    <3>2. t \in State
      BY <1>1, <1>3, <2>1, <2>3, <3>1, Zenon
    <3> QED
      BY <3>2 DEF t
  <2>4. CASE \E e \in Entries(table) : Goes(e, args, s) /\ t = Stored(e, args, s)
    <3>1. PICK e : e \in Entries(table) /\ Goes(e, args, s) /\ t = Stored(e, args, s)
      BY <2>4, Zenon
    <3> DEFINE loaded == Load(e, args[s.at + 1], s.vals)
    <3>2. e.arg # ""
      BY <3>1, Zenon
    <3>3. /\ s.at \in 1..Len(args) /\ s.at + 1 \in 1..Len(args)
          /\ Matches(e, args, s.at) /\ Accepts(e, args[s.at + 1])
          /\ t = On(s, loaded, e)
      BY <2>1, <3>1, <3>2, GoesOn, Zenon
    <3>4. <<s.at + 2, loaded>> \in Good /\ loaded \in [D -> Int]
      BY <2>1, <3>1, <3>3, Zenon
    <3> HIDE DEF loaded
    <3>5. IsTurn(table, D, t) /\ t.vals = loaded /\ t.at = s.at + 2
      <4> DEFINE o == On(s, loaded, e)
      <4>1. IsTurn(table, D, o) /\ o.vals = loaded /\ o.at = s.at + 2
        BY ONLY <2>1, <3>1, <3>4, OnTurn
      <4>2. t = o
        BY <3>3
      <4> HIDE DEF o
      <4> QED
        BY ONLY <4>1, <4>2, Zenon
    <3>6. t \in State
      BY <1>1, <3>4, <3>5, Zenon
    <3> QED
      BY <3>6 DEF t
  <2> QED
    BY <2>2, <2>3, <2>4, Zenon DEF End
<1>4. Parse(table, args, vals0) \in State
  BY <1>0, <1>2, <1>3, ParseIn, Zenon
<1> QED
  BY <1>1, <1>4, TurnIs, Zenon

NatNumbers(line) == \A i \in DOMAIN line : line[i].word = "number" => line[i].num \in Nat

LEMMA RepeaterParse ==
  ASSUME NEW line, line \in Seq(Token), NatNumbers(line), NEW vals,
         vals = Parse(RepeaterTable, line, RepeaterVars).vals
  PROVE  /\ vals \in [{"crate"} \cup RepeaterNames -> Int]
         /\ \A v \in RepeaterNames : vals[v] \in Nat
         /\ OnlyFirst("repeater", line) =>
              vals["crate"] = -1 \/ (Len(line) >= 2 /\ vals["crate"] = line[2].crate)
<1> DEFINE D == {"crate"} \cup RepeaterNames
           Loaded(v) == /\ \A w \in RepeaterNames : v[w] \in Nat
                        /\ OnlyFirst("repeater", line) =>
                             v["crate"] = -1 \/ (Len(line) >= 2 /\ v["crate"] = line[2].crate)
           Good == {p \in Nat \X [D -> Int] : Loaded(p[2])}
<1>1. /\ Len(line) \in Nat /\ DOMAIN line = 1..Len(line)
      /\ \A i \in 1..Len(line) : line[i].num \in Int /\ line[i].crate \in Int
  BY TokenIs, Zenon
<1>2. RepeaterVars \in [D -> Int] /\ Loaded(RepeaterVars)
  <2>1. RepeaterVars \in [D -> Int]
    BY RepeaterDomain DEF RepeaterVars
  <2>2. \A w \in RepeaterNames : RepeaterVars[w] \in Nat
    BY ONLY RepeaterDomain
  <2>3. RepeaterVars["crate"] = -1
    BY RepeaterDomain
  <2>4. Loaded(RepeaterVars)
    BY <2>2, <2>3, Zenon
  <2> QED
    BY <2>1, <2>4, Zenon
<1>3. <<1, RepeaterVars>> \in Good
  BY <1>2
<1>4. ASSUME NEW e, IsRepeaterEntry(e), NEW i \in 1..Len(line), i + 1 \in 1..Len(line),
             NEW v, v \in [D -> Int], Loaded(v), Matches(e, line, i), Accepts(e, line[i + 1]),
             NEW w, w = Load(e, line[i + 1], v)
      PROVE  w \in [D -> Int] /\ Loaded(w)
  <2> DEFINE n == line[i + 1].num
             c == line[i + 1].crate
  <2>0. n \in Int /\ c \in Int /\ line[i].word = e.opt /\ (e.routine = "load_constant" => n \in Nat)
    BY <1>1, <1>4 DEF Matches, Accepts, NatNumbers
  <2>1. CASE e.routine = "load_crate_num" /\ e.opt = "repeater" /\ e.var = "crate"
    <3>1. w = [v EXCEPT !["crate"] = c]
      BY <1>4, <2>1, Zenon DEF Load
    <3>2. OnlyFirst("repeater", line) => Len(line) >= 2 /\ c = line[2].crate
      <4>1. OnlyFirst("repeater", line) => i = 1
        BY <1>1, <2>0, <2>1, Zenon DEF OnlyFirst
      <4> QED
        BY <4>1, <1>1, <1>4
    <3> HIDE DEF c
    <3> QED
      BY <2>0, <3>1, <3>2, <1>4, RepeaterDomain
  <2>2. CASE e.routine = "load_constant" /\ e.var \in RepeaterNames
    <3>1. w = [v EXCEPT ![e.var] = n]
      BY <1>4, <2>2, Zenon DEF Load
    <3> HIDE DEF n
    <3> QED
      BY <2>0, <2>2, <3>1, <1>4, RepeaterDomain
  <2>3. CASE e.routine = "load_enum" /\ e.var \in RepeaterNames /\ e.value = 0
    <3>1. w = [v EXCEPT ![e.var] = 0]
      BY <1>4, <2>3 DEF Load
    <3> QED
      BY <2>3, <3>1, <1>4, RepeaterDomain
  <2> QED
    BY <1>4, <2>1, <2>2, <2>3, Zenon DEF IsRepeaterEntry
<1>5. \A i, v : <<i, v>> \in Good <=> i \in Nat /\ v \in [D -> Int] /\ Loaded(v)
  OBVIOUS
<1>6. \A i \in 1..Len(line) : i + 2 \in Nat
  BY <1>1
<1> HIDE DEF Good, D, Loaded
<1>7. \A e \in Entries(RepeaterTable) : \A i \in 1..Len(line) : \A v :
           (v \in [D -> Int] /\ <<i, v>> \in Good /\ i + 1 \in 1..Len(line)
            /\ Matches(e, line, i) /\ Accepts(e, line[i + 1])) =>
             /\ <<i + 2, Load(e, line[i + 1], v)>> \in Good
             /\ Load(e, line[i + 1], v) \in [D -> Int]
  BY <1>4, <1>5, <1>6, RepeaterEntries, Zenon
<1>8. \A e \in Entries(RepeaterTable) : e.arg # ""
  BY RepeaterEntries, Zenon DEF IsRepeaterEntry
<1>9. /\ \E i \in Nat : <<i, Parse(RepeaterTable, line, RepeaterVars).vals>> \in Good
      /\ Parse(RepeaterTable, line, RepeaterVars).vals \in [D -> Int]
  BY <1>2, <1>3, <1>7, <1>8, RepeaterEntries, ParseKeeps, Zenon
<1> QED
  BY <1>5, <1>9, Zenon DEF D, Loaded

DeviceVars == [v \in {"crate", "board", "base"} |-> 0]

LEMMA DeviceParse ==
  ASSUME NEW line, line \in Seq(Token), NatNumbers(line), FirstWord(line) = "vmedevice",
         NEW vals, vals = Parse(DeviceTable, line, DeviceVars).vals
  PROVE  /\ vals \in [{"crate", "board", "base"} -> Int]
         /\ vals["base"] \in Nat
         /\ vals["base"] # 0 =>
              Len(line) >= 2 /\ (OnlyFirst("vmedevice", line) => vals["crate"] = line[2].crate)
<1> DEFINE D == {"crate", "board", "base"}
           Loaded(i, v) ==
             /\ v["base"] \in Nat
             /\ i = 1 => v["base"] = 0
             /\ i # 1 => Len(line) >= 2
                         /\ (OnlyFirst("vmedevice", line) => v["crate"] = line[2].crate)
           Good == {p \in Nat \X [D -> Int] : Loaded(p[1], p[2])}
<1>1. /\ Len(line) \in Nat /\ DOMAIN line = 1..Len(line)
      /\ \A i \in 1..Len(line) : line[i].num \in Int /\ line[i].crate \in Int
  BY TokenIs, Zenon
<1>2. DeviceVars \in [D -> Int] /\ Loaded(1, DeviceVars)
  BY DEF DeviceVars
<1>3. <<1, DeviceVars>> \in Good
  BY <1>2
<1>4. ASSUME NEW e, IsDeviceEntry(e), NEW i \in 1..Len(line), i + 1 \in 1..Len(line),
             NEW v, v \in [D -> Int], Loaded(i, v), Matches(e, line, i), Accepts(e, line[i + 1]),
             NEW w, w = Load(e, line[i + 1], v)
      PROVE  w \in [D -> Int] /\ Loaded(i + 2, w)
  <2> DEFINE n == line[i + 1].num
             c == line[i + 1].crate
  <2>0. n \in Int /\ c \in Int /\ line[i].word = e.opt /\ (e.routine = "load_constant" => n \in Nat)
    BY <1>1, <1>4 DEF Matches, Accepts, NatNumbers
  <2>1. Len(line) >= 2 /\ i + 2 # 1
    BY <1>1, <1>4
  <2>2. CASE e.routine = "load_crate_board_num" /\ e.opt = "vmedevice" /\ e.var = "crate"
    <3>1. w = [v EXCEPT !["crate"] = c, !["board"] = n]
      BY <1>4, <2>2, Zenon DEF Load
    <3>2. OnlyFirst("vmedevice", line) => c = line[2].crate
      <4>1. OnlyFirst("vmedevice", line) => i = 1
        BY <1>1, <2>0, <2>2, Zenon DEF OnlyFirst
      <4> QED
        BY <4>1, <1>1, <1>4
    <3>3. v["base"] \in Nat
      BY <1>4
    <3> HIDE DEF c, n
    <3> QED
      BY <2>0, <2>1, <3>1, <3>2, <3>3, v \in [D -> Int]
  <2>3. CASE e.routine = "load_constant" /\ e.opt = "-base" /\ e.var = "base"
    <3>1. w = [v EXCEPT !["base"] = n]
      BY <1>4, <2>3, Zenon DEF Load
    <3>2. line[1].word = "vmedevice"
      BY DEF FirstWord
    <3>3. i # 1
      BY <2>0, <2>3, <3>2
    <3>4. OnlyFirst("vmedevice", line) => v["crate"] = line[2].crate
      BY <1>4, <3>3, Zenon
    <3> HIDE DEF n
    <3> QED
      BY <2>0, <2>1, <2>3, <3>1, <3>4, v \in [D -> Int]
  <2> QED
    BY <1>4, <2>2, <2>3, Zenon DEF IsDeviceEntry
<1>5. \A i, v : <<i, v>> \in Good <=> i \in Nat /\ v \in [D -> Int] /\ Loaded(i, v)
  OBVIOUS
<1>6. \A i \in 1..Len(line) : i + 2 \in Nat
  BY <1>1
<1>7. \A i \in Nat : \A v : Loaded(i, v) =>
         /\ v["base"] \in Nat
         /\ v["base"] # 0 =>
              Len(line) >= 2 /\ (OnlyFirst("vmedevice", line) => v["crate"] = line[2].crate)
  BY Zenon
<1> HIDE DEF Good, D, Loaded
<1>8. \A e \in Entries(DeviceTable) : \A i \in 1..Len(line) : \A v :
           (v \in [D -> Int] /\ <<i, v>> \in Good /\ i + 1 \in 1..Len(line)
            /\ Matches(e, line, i) /\ Accepts(e, line[i + 1])) =>
             /\ <<i + 2, Load(e, line[i + 1], v)>> \in Good
             /\ Load(e, line[i + 1], v) \in [D -> Int]
  BY <1>4, <1>5, <1>6, DeviceEntries, Zenon
<1>9. \A e \in Entries(DeviceTable) : e.arg # ""
  BY DeviceEntries, Zenon DEF IsDeviceEntry
<1>10. /\ \E i \in Nat : <<i, Parse(DeviceTable, line, DeviceVars).vals>> \in Good
       /\ Parse(DeviceTable, line, DeviceVars).vals \in [D -> Int]
  BY <1>2, <1>3, <1>8, <1>9, DeviceEntries, ParseKeeps, Zenon
<1> QED
  BY <1>5, <1>7, <1>10, Zenon DEF D

-----------------------------------------------------------------------------
(* The pages.                                                                *)

Region == [addr: Nat, len: Nat]
RegionMap == [Width -> Region]

LEMMA WidthIs ==
  /\ IsFiniteSet(Width) /\ Width \subseteq Nat
  /\ \A k \in 1..3 : Widths[k] \in Width
  /\ \A s \in Width : \E k \in 1..3 : Widths[k] = s
  /\ Off \notin Width /\ Bad \notin Width
<1>1. IsFiniteSet({16} \cup {24}) /\ IsFiniteSet({32})
  BY FS_Singleton, FS_Union
<1>2. IsFiniteSet(Width)
  <2>1. Width = ({16} \cup {24}) \cup {32}
    BY DEF Width
  <2> QED
    BY <1>1, <2>1, FS_Union
<1>3. Widths[1] = 16 /\ Widths[2] = 24 /\ Widths[3] = 32
  BY DEF Widths
<1>4. \A k \in 1..3 : k = 1 \/ k = 2 \/ k = 3
  OBVIOUS
<1>5. \A k \in 1..3 : Widths[k] \in Width
  BY <1>3, <1>4 DEF Width
<1>6. \A s \in Width : \E k \in 1..3 : Widths[k] = s
  BY <1>3 DEF Width
<1> QED
  BY <1>2, <1>5, <1>6 DEF Width, Off, Bad

LEMMA AddedIs ==
  ASSUME NEW region
  PROVE  /\ Added(region, 0) = {}
         /\ \A k \in 0..3 : /\ Added(region, k) \subseteq Width
                            /\ IsFiniteSet(Added(region, k))
                            /\ Cardinality(Added(region, k)) \in Nat
                            /\ \A s \in Added(region, k) : region[s].addr # 0
         /\ \A s \in Width : region[s].addr # 0 => s \in Added(region, 3)
<1>1. \A k \in 0..3 : Added(region, k) \subseteq Width
  <2>1. \A k \in 0..3 : \A j \in 1..k : j \in 1..3
    OBVIOUS
  <2> QED
    BY <2>1, WidthIs, Zenon DEF Added
<1>2. \A k \in 0..3 : IsFiniteSet(Added(region, k)) /\ Cardinality(Added(region, k)) \in Nat
  BY <1>1, WidthIs, FS_Subset, FS_CardinalityType
<1>3. \A k \in 0..3 : \A s \in Added(region, k) : region[s].addr # 0
  BY Zenon DEF Added
<1>4. \A s \in Width : region[s].addr # 0 => s \in Added(region, 3)
  BY WidthIs, Zenon DEF Added
<1>5. Added(region, 0) = {}
  BY DEF Added
<1> QED
  BY <1>1, <1>2, <1>3, <1>4, <1>5, Zenon

LEMMA FreePages ==
  ASSUME NEW region, NEW first \in Nat
  PROVE  /\ \A k \in 0..3 : FreePage(region, first, k) \in Nat
         /\ \A k \in 1..3 : FreePage(region, first, k) =
                            FreePage(region, first, k - 1) + Cardinality(Added(region, k))
<1> DEFINE Lines(k) == {p \in (1..k) \X Width : p[2] \in Added(region, p[1])}
<1>1. \A k \in 0..3 : IsFiniteSet(Lines(k)) /\ Cardinality(Lines(k)) \in Nat
  <2> SUFFICES ASSUME NEW k \in 0..3
               PROVE  IsFiniteSet(Lines(k)) /\ Cardinality(Lines(k)) \in Nat
    OBVIOUS
  <2>1. IsFiniteSet(1..k)
    BY FS_Interval
  <2>2. IsFiniteSet((1..k) \X Width)
    BY <2>1, WidthIs, FS_Product
  <2>3. IsFiniteSet(Lines(k))
    BY <2>2, FS_Subset
  <2> QED
    BY <2>3, FS_CardinalityType
<1>2. \A k \in 0..3 : FreePage(region, first, k) = first + Cardinality(Lines(k))
  BY Zenon DEF FreePage
<1>3. ASSUME NEW k \in 1..3
      PROVE  Cardinality(Lines(k)) = Cardinality(Lines(k - 1)) + Cardinality(Added(region, k))
  <2> DEFINE A   == Added(region, k)
             New == {k} \X A
  <2>1. k \in 0..3 /\ k - 1 \in 0..3
    OBVIOUS
  <2>2. A \subseteq Width /\ IsFiniteSet(A) /\ Cardinality(A) \in Nat
    BY <2>1, AddedIs
  <2>3. IsFiniteSet(New) /\ Cardinality(New) = Cardinality(A)
    <3>1. IsFiniteSet({k}) /\ Cardinality({k}) = 1
      BY FS_Singleton
    <3>2. IsFiniteSet(New) /\ Cardinality(New) = 1 * Cardinality(A)
      BY <2>2, <3>1, FS_Product
    <3> QED
      BY <2>2, <3>2
  <2>4. Lines(k) = Lines(k - 1) \cup New
    <3>1. ASSUME NEW j, NEW s
          PROVE  <<j, s>> \in Lines(k) <=> <<j, s>> \in Lines(k - 1) \/ <<j, s>> \in New
      <4>1. j \in 1..k <=> j \in 1..(k - 1) \/ j = k
        OBVIOUS
      <4>2. <<j, s>> \in Lines(k) <=> j \in 1..k /\ s \in Width /\ s \in Added(region, j)
        OBVIOUS
      <4>3. <<j, s>> \in Lines(k - 1) <=> j \in 1..(k - 1) /\ s \in Width /\ s \in Added(region, j)
        OBVIOUS
      <4>4. <<j, s>> \in New <=> j = k /\ s \in A
        OBVIOUS
      <4> QED
        BY <2>2, <4>1, <4>2, <4>3, <4>4
    <3>2. \A p \in Lines(k) \cup Lines(k - 1) \cup New : p = <<p[1], p[2]>>
      OBVIOUS
    <3> HIDE DEF Lines, New
    <3> QED
      BY <3>1, <3>2
  <2>5. Lines(k - 1) \cap New = {}
    OBVIOUS
  <2> HIDE DEF Lines, New, A
  <2>6. /\ IsFiniteSet(Lines(k - 1)) /\ Cardinality(Lines(k - 1)) \in Nat
    BY <1>1, <2>1
  <2>7. Cardinality(Lines(k)) = Cardinality(Lines(k - 1)) + Cardinality(New) - Cardinality({})
    BY <2>3, <2>4, <2>5, <2>6, FS_Union
  <2> QED
    BY <2>2, <2>3, <2>6, <2>7, FS_EmptySet DEF A
<1> HIDE DEF Lines
<1>4. \A k \in 1..3 : k \in 0..3 /\ k - 1 \in 0..3 /\ Cardinality(Added(region, k)) \in Nat
  <2>1. \A k \in 1..3 : k \in 0..3 /\ k - 1 \in 0..3
    OBVIOUS
  <2> QED
    BY <2>1, AddedIs
<1> QED
  BY <1>1, <1>2, <1>3, <1>4

LEMMA Ranks ==
  ASSUME NEW A \in SUBSET Width, NEW s \in A
  PROVE  /\ Cardinality({t \in A : t > s}) \in Nat
         /\ Cardinality({t \in A : t > s}) < Cardinality(A)
         /\ \A u \in A : Cardinality({t \in A : t > u}) = Cardinality({t \in A : t > s}) => u = s
<1> DEFINE Above(u) == {t \in A : t > u}
<1>1. IsFiniteSet(A) /\ Cardinality(A) \in Nat
  BY WidthIs, FS_Subset, FS_CardinalityType
<1>2. ASSUME NEW u \in A
      PROVE  IsFiniteSet(Above(u)) /\ Cardinality(Above(u)) \in Nat
  <2>1. Above(u) \subseteq A
    OBVIOUS
  <2> QED
    BY <1>1, <2>1, FS_Subset, FS_CardinalityType
<1>3. ASSUME NEW S, NEW T, IsFiniteSet(S), T \subseteq S, NEW x \in S, x \notin T
      PROVE  Cardinality(T) < Cardinality(S)
  <2>1. T # S
    BY <1>3
  <2>2. Cardinality(T) <= Cardinality(S) /\ Cardinality(T) # Cardinality(S)
    BY <1>3, <2>1, FS_Subset
  <2>3. Cardinality(S) \in Nat /\ Cardinality(T) \in Nat
    BY <1>3, FS_Subset, FS_CardinalityType
  <2> QED
    BY <2>2, <2>3
<1>4. s \notin Above(s)
  BY WidthIs
<1>5. Cardinality(Above(s)) < Cardinality(A)
  <2>1. Above(s) \subseteq A
    OBVIOUS
  <2> QED
    BY <1>1, <1>3, <1>4, <2>1
<1>6. ASSUME NEW u \in A, NEW w \in A, u < w
      PROVE  Cardinality(Above(w)) < Cardinality(Above(u))
  <2>1. Above(w) \subseteq Above(u)
    <3>1. \A t \in A : t \in Nat
      BY WidthIs
    <3> QED
      BY <1>6, <3>1
  <2>2. w \in Above(u) /\ w \notin Above(w)
    BY <1>6, WidthIs
  <2> HIDE DEF Above
  <2> QED
    BY <1>2, <1>3, <2>1, <2>2
<1> HIDE DEF Above
<1>7. \A u \in A : u < s \/ s < u \/ u = s
  BY WidthIs
<1>8. \A u \in A : Cardinality(Above(u)) = Cardinality(Above(s)) => u = s
  BY <1>2, <1>6, <1>7
<1> QED
  BY <1>2, <1>5, <1>8 DEF Above

LEMMA PageBounds ==
  ASSUME NEW region, NEW first \in Nat, NEW k \in 1..3, NEW s \in Added(region, k)
  PROVE  /\ PageOf(region, first, k, s) \in Nat
         /\ FreePage(region, first, k - 1) <= PageOf(region, first, k, s)
         /\ PageOf(region, first, k, s) < FreePage(region, first, k)
         /\ \A t \in Added(region, k) :
              PageOf(region, first, k, t) = PageOf(region, first, k, s) => t = s
<1> DEFINE A == Added(region, k)
           F == FreePage(region, first, k - 1)
           Rank(t) == Cardinality({u \in A : u > t})
<1>1. k \in 0..3 /\ k - 1 \in 0..3
  OBVIOUS
<1>2. A \subseteq Width /\ Cardinality(A) \in Nat
  BY <1>1, AddedIs
<1>3. F \in Nat /\ FreePage(region, first, k) = F + Cardinality(A)
  BY <1>1, FreePages
<1>4. \A t \in A : PageOf(region, first, k, t) = F + Rank(t)
  BY Zenon DEF PageOf
<1>5. \A t \in A : Rank(t) \in Nat /\ Rank(t) < Cardinality(A) /\ \A u \in A : Rank(u) = Rank(t) => u = t
  BY <1>2, Ranks
<1> HIDE DEF A, F, Rank
<1>6. s \in A
  BY DEF A
<1>7. /\ F + Rank(s) \in Nat /\ F <= F + Rank(s) /\ F + Rank(s) < F + Cardinality(A)
      /\ \A t \in A : F + Rank(t) = F + Rank(s) => t = s
  BY <1>2, <1>3, <1>5, <1>6
<1> QED
  BY <1>3, <1>4, <1>6, <1>7, Zenon DEF A, F

\* No page is given to two spaces of a crate.
LEMMA PagesDiffer ==
  ASSUME NEW region, NEW first \in Nat, NEW j \in 1..3, NEW k \in 1..3,
         NEW s \in Added(region, j), NEW t \in Added(region, k),
         PageOf(region, first, j, s) = PageOf(region, first, k, t)
  PROVE  s = t
<1> DEFINE F(i) == FreePage(region, first, i)
<1>1. F(0) \in Nat /\ F(1) \in Nat /\ F(2) \in Nat /\ F(3) \in Nat
  BY FreePages
<1>2. F(0) <= F(1) /\ F(1) <= F(2) /\ F(2) <= F(3)
  <2>1. \A i \in 1..3 : F(i) = F(i - 1) + Cardinality(Added(region, i))
    BY FreePages
  <2>2. \A i \in 1..3 : Cardinality(Added(region, i)) \in Nat
    BY AddedIs
  <2> HIDE DEF F
  <2> QED
    BY <1>1, <2>1, <2>2
<1>3. F(j - 1) <= PageOf(region, first, j, s) /\ PageOf(region, first, j, s) < F(j)
      /\ PageOf(region, first, j, s) \in Nat
  BY PageBounds
<1>4. F(k - 1) <= PageOf(region, first, k, t) /\ PageOf(region, first, k, t) < F(k)
  BY PageBounds
<1> HIDE DEF F
<1>5. j = k
  BY <1>1, <1>2, <1>3, <1>4
<1> QED
  BY <1>5, PageBounds

-----------------------------------------------------------------------------
(* Types of the configuration.                                               *)

LEMMA Tokens ==
  /\ \A w \in Spelling : Word(w) \in Token
  /\ \A n \in Int : "number" \in Spelling => Number(n) \in Token
  /\ \A t \in Spelling : \A c, n \in Int : Dev(t, c, n) \in Token
BY DEF Word, Number, Dev, Token

LEMMA WordsAre ==
  /\ "repeater" \in Spelling /\ "v120" \in Spelling /\ "speed" \in Spelling /\ "-base" \in Spelling
  /\ "-a" \in Spelling /\ "-o" \in Spelling /\ "true" \in Spelling /\ "false" \in Spelling
  /\ "number" \in Spelling
  /\ \A s \in Width : /\ Opt("-a", s) \in Spelling /\ Opt("-s", s) \in Spelling
                      /\ Opt("-S", s) \in Spelling /\ Opt("-sp", s) \in Spelling
                      /\ Opt("-ep", s) \in Spelling
<1>1. \A w : w \in Written => w \in Spelling
  BY SpellingAssumption
<1>2. /\ "repeater" \in Written /\ "v120" \in Written /\ "speed" \in Written /\ "-base" \in Written
      /\ "-a" \in Written /\ "-o" \in Written /\ "true" \in Written /\ "false" \in Written
      /\ "number" \in Written
  BY DEF Written
<1>3. \A s \in Width : \A l \in {"-a", "-s", "-S", "-sp", "-ep"} : Opt(l, s) \in Written
  BY DEF Written
<1> QED
  BY <1>1, <1>2, <1>3

LEMMA NumberIs == \A n \in Nat : n \in Int
OBVIOUS

LEMMA NoPageIs == NoPage \in Int /\ NoPage \notin Nat
BY DEF NoPage

LEMMA DeviceIs ==
  ASSUME NEW d, d \in Device
  PROVE  /\ d.online \in BOOLEAN /\ d.regs \in BOOLEAN /\ d.region \in RegionMap
         /\ d.start \in [Width -> Nat \cup {NoPage}] /\ d.cards \in 0..MaxCardsInChassis
         /\ \A s \in Width : /\ d.region[s].addr \in Int /\ d.region[s].len \in Int
                             /\ d.region[s].addr \in Nat /\ d.region[s].len \in Nat
                             /\ d.start[s] \in Int
<1>1. /\ d.online \in BOOLEAN /\ d.regs \in BOOLEAN /\ d.region \in RegionMap
      /\ d.start \in [Width -> Nat \cup {NoPage}] /\ d.cards \in 0..MaxCardsInChassis
  BY DEF Device, RegionMap, Region
<1>2. \A s \in Width : d.region[s] \in Region /\ d.start[s] \in Nat \cup {NoPage}
  BY <1>1 DEF RegionMap
<1>3. \A r \in Region : r.addr \in Nat /\ r.len \in Nat
  BY DEF Region
<1>4. \A n \in Nat \cup {NoPage} : n \in Int
  BY DEF NoPage
<1> QED
  BY <1>1, <1>2, <1>3, <1>4, NumberIs, Zenon

Options1(s, d) ==
  <<Word(Opt("-a", s)), Number(d.region[s].addr), Word(Opt("-s", s)),
    Number(d.region[s].len), Word(Opt("-S", s)), Word("speed")>>

Options2(s, d) ==
  <<Word(Opt("-sp", s)), Number(d.start[s]), Word(Opt("-ep", s)), Number(d.start[s])>>

LEMMA OptionsTyped ==
  ASSUME NEW d, d \in Device, NEW s, s \in Width
  PROVE  Options1(s, d) \in Seq(Token) /\ Options2(s, d) \in Seq(Token)
<1>2. /\ Word(Opt("-a", s)) \in Token /\ Word(Opt("-s", s)) \in Token /\ Word(Opt("-S", s)) \in Token
      /\ Word(Opt("-sp", s)) \in Token /\ Word(Opt("-ep", s)) \in Token /\ Word("speed") \in Token
      /\ Number(d.region[s].addr) \in Token /\ Number(d.region[s].len) \in Token
      /\ Number(d.start[s]) \in Token
  BY Tokens, WordsAre, DeviceIs, Zenon
<1> QED
  BY <1>2 DEF Options1, Options2

LEMMA RegionWordsAre ==
  ASSUME NEW c, NEW s, NEW setUp, NEW d
  PROVE  RegionWords(c, s, setUp, d) =
           IF d.region[s].addr = 0 THEN << >>
           ELSE Options1(s, d) \o (IF setUp THEN Options2(s, d) ELSE << >>)
BY Zenon DEF RegionWords, Options1, Options2

LEMMA RegionWordsTyped ==
  ASSUME NEW d, d \in Device, NEW s, s \in Width, NEW c, NEW setUp, setUp \in BOOLEAN
  PROVE  RegionWords(c, s, setUp, d) \in Seq(Token)
<1>1. Options1(s, d) \in Seq(Token) /\ Options2(s, d) \in Seq(Token) /\ << >> \in Seq(Token)
  BY OptionsTyped
<1>2. Options1(s, d) \o Options2(s, d) \in Seq(Token) /\ Options1(s, d) \o << >> \in Seq(Token)
  BY <1>1, Concat, Zenon
<1> QED
  BY <1>1, <1>2, RegionWordsAre, Zenon

LEMMA TruthTyped == \A b : Truth(b) \in Token
BY Tokens, WordsAre, Zenon DEF Truth

AllWords(c, setUp, d) ==
  RegionWords(c, 16, setUp, d) \o RegionWords(c, 24, setUp, d) \o RegionWords(c, 32, setUp, d)

LEMMA RepeaterLineTyped ==
  ASSUME NEW d, d \in Device, NEW c, c \in Int, NEW setUp, setUp \in BOOLEAN
  PROVE  /\ RepeaterLine(c, setUp, d) \in Seq(Token)
         /\ AllWords(c, setUp, d) \in Seq(Token)
         /\ RepeaterLine(c, setUp, d) =
              (<<Word("repeater"), Dev("v120", c, -1)>> \o AllWords(c, setUp, d))
              \o <<Word("-o"), Truth(d.online)>>
<1> DEFINE R(s) == RegionWords(c, s, setUp, d)
           First == <<Word("repeater"), Dev("v120", c, -1)>>
           Final == <<Word("-o"), Truth(d.online)>>
<1>1. R(16) \in Seq(Token) /\ R(24) \in Seq(Token) /\ R(32) \in Seq(Token)
  BY RegionWordsTyped DEF Width
<1>2. First \in Seq(Token) /\ Final \in Seq(Token)
  <2>1. -1 \in Int
    OBVIOUS
  <2>2. /\ Word("repeater") \in Token /\ Dev("v120", c, -1) \in Token /\ Word("-o") \in Token
        /\ Truth(d.online) \in Token
    BY <2>1, Tokens, WordsAre, TruthTyped, Zenon
  <2> QED
    BY <2>2
<1>3. RepeaterLine(c, setUp, d) = First \o R(16) \o R(24) \o R(32) \o Final
  BY Zenon DEF RepeaterLine
<1>4. AllWords(c, setUp, d) = R(16) \o R(24) \o R(32)
  BY Zenon DEF AllWords
<1> HIDE DEF R, First, Final
<1>5. /\ First \o R(16) \o R(24) \o R(32) \o Final \in Seq(Token)
      /\ R(16) \o R(24) \o R(32) \in Seq(Token)
      /\ First \o R(16) \o R(24) \o R(32) \o Final = (First \o (R(16) \o R(24) \o R(32))) \o Final
  BY ONLY <1>1, <1>2
<1> QED
  BY <1>3, <1>4, <1>5, Zenon DEF First, Final

-----------------------------------------------------------------------------
(* A repeater line.                                                          *)

FirstPage == IF page = NoPage THEN 0 ELSE page

PageMap(region, k) == [s \in Width |-> PageOf(region, FirstPage, k, s)]

Descriptors(c, region, k) ==
  UNION {{<<c, PageOf(region, FirstPage, j, s), s>> : s \in Added(region, j)} : j \in 1..k}

\* What becomes of a crate of which k spaces got their pages.
Becomes(c, region, d, k, setUp) ==
  /\ k \in 0..3 /\ d \in Device /\ setUp \in BOOLEAN
  /\ d.region = region
  /\ (k = 0 /\ d.start = dev[c].start) \/ d.start = PageMap(region, k)
  /\ setUp => d.start = PageMap(region, 3)
  /\ dev' = [dev EXCEPT ![c] = d]
  /\ page' \in Nat \cup {NoPage}
  /\ pages' = {p \in pages : \A q \in Descriptors(c, region, k) : p[1] # q[1] \/ p[2] # q[2]}
              \cup Descriptors(c, region, k)
  /\ out' = Append(out, RepeaterLine(c, setUp, d))

Unreached(d, region) == [d EXCEPT !.online = FALSE, !.region = region]

OnlineDev(d, regs, region, start) ==
  [d EXCEPT !.online = TRUE, !.regs = regs, !.region = region, !.start = start]

LEMMA DeviceReached ==
  ASSUME NEW d \in Device, NEW regs \in BOOLEAN, NEW region \in RegionMap,
         NEW start \in [Width -> Nat \cup {NoPage}]
  PROVE  /\ Unreached(d, region) \in Device
         /\ Unreached(d, region).region = region
         /\ Unreached(d, region).start = d.start
         /\ OnlineDev(d, regs, region, start) \in Device
         /\ OnlineDev(d, regs, region, start).region = region
         /\ OnlineDev(d, regs, region, start).start = start
BY DEF Device, RegionMap, Region, Unreached, OnlineDev

LEMMA PageMapTyped ==
  ASSUME NEW region, FirstPage \in Nat, NEW k \in 0..3
  PROVE  /\ PageMap(region, k) \in [Width -> Nat \cup {NoPage}]
         /\ \A s \in Width : PageMap(region, k)[s] # NoPage =>
              k \in 1..3 /\ s \in Added(region, k) /\ PageMap(region, k)[s] \in Nat
<1>1. ASSUME NEW s \in Width
      PROVE  \/ PageOf(region, FirstPage, k, s) = NoPage
             \/ /\ k \in 1..3 /\ s \in Added(region, k)
                /\ PageOf(region, FirstPage, k, s) \in Nat
  <2>1. CASE s \notin Added(region, k)
    BY <2>1 DEF PageOf
  <2>2. CASE s \in Added(region, k)
    <3>1. k # 0
      BY <2>2, AddedIs
    <3>2. k \in 1..3
      BY <3>1
    <3> QED
      BY <2>2, <3>2, PageBounds
  <2> QED
    BY <2>1, <2>2
<1> QED
  BY <1>1 DEF PageMap

LEMMA SetUpBecomes ==
  ASSUME ConfigTypeOK, NEW c \in CrateNum, NEW region \in RegionMap, SetUp(c, region)
  PROVE  \E d, k, setUp : Becomes(c, region, d, k, setUp)
<1> DEFINE Ready(k, regs) == OnlineDev(dev[c], regs, region, PageMap(region, k))
           Outcome(d, k, next, setUp) ==
             /\ dev' = [dev EXCEPT ![c] = d]
             /\ page' = next
             /\ pages' = {p \in pages : \A q \in Descriptors(c, region, k) : p[1] # q[1] \/ p[2] # q[2]}
                         \cup Descriptors(c, region, k)
             /\ out' = Append(out, RepeaterLine(c, setUp, d))
           Offline == Unreached(dev[c], region)
<1>1. \/ Outcome(Offline, 0, page, FALSE)
      \/ Outcome(Ready(0, FALSE), 0, page, FALSE)
      \/ \E k \in 0..2 : \/ Outcome(Ready(k, TRUE), k,
                                    IF k = 0 THEN page ELSE FreePage(region, FirstPage, k), FALSE)
                         \/ Outcome(Ready(k, TRUE), k, NoPage, FALSE)
      \/ Outcome(Ready(3, TRUE), 3, FreePage(region, FirstPage, 3), TRUE)
  BY Zenon DEF SetUp, FirstPage, PageMap, Descriptors, OnlineDev, Unreached
<1>2. dev[c] \in Device /\ page \in Nat \cup {NoPage} /\ FirstPage \in Nat
  BY DEF ConfigTypeOK, FirstPage
<1>3. \A k \in 0..3 : /\ PageMap(region, k) \in [Width -> Nat \cup {NoPage}]
                      /\ FreePage(region, FirstPage, k) \in Nat \cup {NoPage}
  BY <1>2, PageMapTyped, FreePages
<1>4. Offline \in Device /\ Offline.region = region /\ Offline.start = dev[c].start
  <2>1. PageMap(region, 0) \in [Width -> Nat \cup {NoPage}] /\ TRUE \in BOOLEAN
    BY <1>3
  <2> QED
    BY ONLY <1>2, <2>1, DeviceReached, region \in RegionMap
<1>5. \A k \in 0..3, regs \in BOOLEAN :
        /\ Ready(k, regs) \in Device /\ Ready(k, regs).region = region
        /\ Ready(k, regs).start = PageMap(region, k)
  BY ONLY <1>2, <1>3, DeviceReached, region \in RegionMap
<1> HIDE DEF Offline, Ready
<1>6. ASSUME NEW d, NEW k \in 0..3, NEW next \in Nat \cup {NoPage}, NEW setUp \in BOOLEAN,
             Outcome(d, k, next, setUp), d \in Device, d.region = region,
             (k = 0 /\ d.start = dev[c].start) \/ d.start = PageMap(region, k),
             setUp => d.start = PageMap(region, 3)
      PROVE  \E e, m, up : Becomes(c, region, e, m, up)
  <2>1. Becomes(c, region, d, k, setUp)
    BY <1>6, Zenon DEF Becomes
  <2> QED
    BY <2>1, Zenon
<1>7. CASE Outcome(Offline, 0, page, FALSE)
  <2> HIDE DEF Outcome
  <2>1. 0 \in 0..3
    OBVIOUS
  <2> QED
    BY <1>2, <1>4, <1>6, <1>7, <2>1, Zenon
<1>8. CASE Outcome(Ready(0, FALSE), 0, page, FALSE)
  <2> HIDE DEF Outcome
  <2>1. 0 \in 0..3
    OBVIOUS
  <2> QED
    BY <1>2, <1>5, <1>6, <1>8, <2>1, Zenon
<1>9. ASSUME NEW k \in 0..2,
             \/ Outcome(Ready(k, TRUE), k,
                        IF k = 0 THEN page ELSE FreePage(region, FirstPage, k), FALSE)
             \/ Outcome(Ready(k, TRUE), k, NoPage, FALSE)
      PROVE  \E e, m, up : Becomes(c, region, e, m, up)
  <2> HIDE DEF Outcome
  <2>1. k \in 0..3
    OBVIOUS
  <2>2. (IF k = 0 THEN page ELSE FreePage(region, FirstPage, k)) \in Nat \cup {NoPage}
    BY <1>2, <1>3, <2>1, Zenon
  <2>3. NoPage \in Nat \cup {NoPage}
    OBVIOUS
  <2> QED
    BY <1>5, <1>6, <1>9, <2>1, <2>2, <2>3, Zenon
<1>10. CASE Outcome(Ready(3, TRUE), 3, FreePage(region, FirstPage, 3), TRUE)
  <2> HIDE DEF Outcome
  <2>1. 3 \in 0..3
    OBVIOUS
  <2> QED
    BY <1>3, <1>5, <1>6, <1>10, <2>1, Zenon
<1> HIDE DEF Outcome
<1> QED
  BY <1>1, <1>7, <1>8, <1>9, <1>10, Zenon

LEMMA DescriptorsAre ==
  ASSUME NEW c, NEW region, FirstPage \in Nat, NEW k \in 0..3
  PROVE  /\ \A p \in Descriptors(c, region, k) :
              /\ p[1] = c /\ p[2] \in Nat /\ p[3] \in Width /\ p = <<c, p[2], p[3]>>
              /\ region[p[3]].addr # 0
         /\ \A p, q \in Descriptors(c, region, k) : p[2] = q[2] => p = q
         /\ \A s \in Added(region, k) :
              k # 0 => <<c, PageOf(region, FirstPage, k, s), s>> \in Descriptors(c, region, k)
<1>1. \A j \in 1..k : j \in 1..3 /\ j \in 0..3
  OBVIOUS
<1>2. ASSUME NEW p \in Descriptors(c, region, k)
      PROVE  \E j \in 1..3 : \E s \in Added(region, j) :
               p = <<c, PageOf(region, FirstPage, j, s), s>>
  BY <1>1, <1>2, Zenon DEF Descriptors
<1>3. \A j \in 1..3 : \A s \in Added(region, j) :
        s \in Width /\ region[s].addr # 0 /\ PageOf(region, FirstPage, j, s) \in Nat
  <2>1. \A j \in 1..3 : \A s \in Added(region, j) : s \in Width /\ region[s].addr # 0
    BY AddedIs
  <2> QED
    BY <2>1, PageBounds
<1>4. ASSUME NEW p \in Descriptors(c, region, k)
      PROVE  /\ p[1] = c /\ p[2] \in Nat /\ p[3] \in Width /\ p = <<c, p[2], p[3]>>
             /\ region[p[3]].addr # 0
  <2>1. PICK j, s : j \in 1..3 /\ s \in Added(region, j) /\ p = <<c, PageOf(region, FirstPage, j, s), s>>
    BY <1>2
  <2> QED
    BY <1>3, <2>1
<1>5. ASSUME NEW p \in Descriptors(c, region, k), NEW q \in Descriptors(c, region, k), p[2] = q[2]
      PROVE  p = q
  <2>1. PICK j, s : j \in 1..3 /\ s \in Added(region, j) /\ p = <<c, PageOf(region, FirstPage, j, s), s>>
    BY <1>2
  <2>2. PICK m, t : m \in 1..3 /\ t \in Added(region, m) /\ q = <<c, PageOf(region, FirstPage, m, t), t>>
    BY <1>2
  <2>3. PageOf(region, FirstPage, j, s) = PageOf(region, FirstPage, m, t)
    BY <1>5, <2>1, <2>2
  <2>4. s = t
    BY ONLY <2>1, <2>2, <2>3, FirstPage \in Nat, PagesDiffer
  <2> QED
    BY <2>1, <2>2, <2>3, <2>4, Zenon
<1>6. ASSUME NEW s \in Added(region, k), k # 0
      PROVE  <<c, PageOf(region, FirstPage, k, s), s>> \in Descriptors(c, region, k)
  <2>1. k \in 1..k
    BY <1>6
  <2> DEFINE P(j) == {<<c, PageOf(region, FirstPage, j, u), u>> : u \in Added(region, j)}
  <2>2. <<c, PageOf(region, FirstPage, k, s), s>> \in P(k)
    OBVIOUS
  <2>3. Descriptors(c, region, k) = UNION {P(j) : j \in 1..k}
    BY Zenon DEF Descriptors
  <2> HIDE DEF P
  <2> QED
    BY <2>1, <2>2, <2>3
<1> QED
  BY <1>4, <1>5, <1>6, Zenon

LEMMA AppendTyped ==
  ASSUME NEW S, NEW q, q \in Seq(S), NEW x, x \in S
  PROVE  Append(q, x) \in Seq(S)
OBVIOUS

\* The parts of the type invariant that a line of the input file is about.
LinesTyped ==
  /\ page \in Nat \cup {NoPage}
  /\ dev \in [CrateNum -> Device]
  /\ pages \subseteq CrateNum \X Nat \X Width
  /\ \A p, q \in pages : p[1] = q[1] /\ p[2] = q[2] => p = q
  /\ \A c \in CrateNum, s \in Width :
       dev[c].start[s] # NoPage => <<c, dev[c].start[s], s>> \in pages
  /\ out \in Seq(Seq(Token))

LEMMA CrateInt == CrateNum \subseteq Int /\ CrateNum \subseteq Nat
<1>1. MaxDev \in Nat \ {0}
  BY ConfigAssumption, Zenon
<1> QED
  BY <1>1 DEF CrateNum

LEMMA BecomesTyped ==
  ASSUME LinesTyped, NEW c \in CrateNum, NEW region \in RegionMap,
         NEW d, NEW k, NEW setUp, Becomes(c, region, d, k, setUp)
  PROVE  LinesTyped'
<1> DEFINE D    == Descriptors(c, region, k)
           Kept == {p \in pages : \A q \in D : p[1] # q[1] \/ p[2] # q[2]}
<1>1. /\ k \in 0..3 /\ d \in Device /\ setUp \in BOOLEAN /\ d.region = region
      /\ (k = 0 /\ d.start = dev[c].start) \/ d.start = PageMap(region, k)
      /\ dev' = [dev EXCEPT ![c] = d]
      /\ page' \in Nat \cup {NoPage}
      /\ pages' = Kept \cup D
      /\ out' = Append(out, RepeaterLine(c, setUp, d))
  BY Zenon DEF Becomes
<1>2. FirstPage \in Nat
  BY DEF LinesTyped, FirstPage
<1>3. /\ \A p \in D : p[1] = c /\ p[2] \in Nat /\ p[3] \in Width /\ p = <<c, p[2], p[3]>>
      /\ \A p, q \in D : p[2] = q[2] => p = q
      /\ \A s \in Added(region, k) : k # 0 => <<c, PageOf(region, FirstPage, k, s), s>> \in D
  BY ONLY <1>1, <1>2, DescriptorsAre
<1> HIDE DEF D
<1>4. dev' \in [CrateNum -> Device]
  BY <1>1 DEF LinesTyped
<1>5. pages' \subseteq CrateNum \X Nat \X Width
  <2>1. D \subseteq CrateNum \X Nat \X Width
    BY <1>3
  <2> QED
    BY <1>1, <2>1 DEF LinesTyped
<1>6. \A p, q \in pages' : p[1] = q[1] /\ p[2] = q[2] => p = q
  <2>1. \A p, q \in Kept : p[1] = q[1] /\ p[2] = q[2] => p = q
    BY Zenon DEF LinesTyped
  <2>2. \A p \in Kept, q \in D : p[1] # q[1] \/ p[2] # q[2]
    OBVIOUS
  <2>3. \A p \in pages' : p \in Kept \/ p \in D
    BY <1>1
  <2> HIDE DEF Kept
  <2> QED
    BY <1>3, <2>1, <2>2, <2>3, Zenon
<1>7. ASSUME NEW b \in CrateNum, NEW s \in Width, dev'[b].start[s] # NoPage
      PROVE  <<b, dev'[b].start[s], s>> \in pages'
  <2>1. CASE b # c
    <3>1. dev'[b] = dev[b]
      BY <1>1, <2>1 DEF LinesTyped
    <3>2. <<b, dev[b].start[s], s>> \in pages
      BY <1>7, <3>1 DEF LinesTyped
    <3>3. \A q \in D : b # q[1]
      BY <1>3, <2>1
    <3> QED
      BY <1>1, <3>1, <3>2, <3>3
  <2>2. CASE b = c /\ k = 0 /\ d.start = dev[c].start
    <3>1. dev'[b] = d
      BY <1>1, <2>2 DEF LinesTyped
    <3>2. <<c, dev[c].start[s], s>> \in pages
      BY <1>7, <2>2, <3>1 DEF LinesTyped
    <3>3. D = {}
      BY <2>2 DEF D, Descriptors
    <3> QED
      BY <1>1, <2>2, <3>1, <3>2, <3>3
  <2>3. CASE b = c /\ d.start = PageMap(region, k)
    <3>1. dev'[b] = d
      BY <1>1, <2>3 DEF LinesTyped
    <3>2. d.start[s] = PageOf(region, FirstPage, k, s)
      BY <2>3 DEF PageMap
    <3>3. k \in 1..3 /\ s \in Added(region, k)
      BY <1>1, <1>2, <1>7, <2>3, <3>1, PageMapTyped
    <3>4. <<c, PageOf(region, FirstPage, k, s), s>> \in D
      BY <1>3, <3>3
    <3>5. <<c, PageOf(region, FirstPage, k, s), s>> \in pages'
      BY <1>1, <3>4
    <3> QED
      BY <2>3, <3>1, <3>2, <3>5, Zenon
  <2> QED
    BY <1>1, <2>1, <2>2, <2>3
<1>8. out' \in Seq(Seq(Token))
  <2>1. RepeaterLine(c, setUp, d) \in Seq(Token)
    BY <1>1, CrateInt, RepeaterLineTyped
  <2> QED
    BY <1>1, <2>1, AppendTyped DEF LinesTyped
<1> QED
  BY <1>1, <1>4, <1>5, <1>6, <1>7, <1>8, Zenon DEF LinesTyped

-----------------------------------------------------------------------------
(* The steps of v120_config.                                                 *)

LEMMA RegionsTyped ==
  ASSUME ConfigTypeOK, NEW c \in CrateNum, NEW vals, \A v \in RepeaterNames : vals[v] \in Nat
  PROVE  Regions(c, vals) \in RegionMap
<1>1. dev[c].region \in RegionMap
  BY DeviceIs, Zenon DEF ConfigTypeOK
<1>2. \A s \in Width : Opt("-a", s) \in RepeaterNames /\ Opt("-s", s) \in RepeaterNames
  BY OptIs DEF Width, RepeaterNames
<1>3. \A s \in Width : /\ vals[Opt("-a", s)] \in Nat /\ vals[Opt("-s", s)] \in Nat
                       /\ dev[c].region[s] \in Region
  BY <1>1, <1>2 DEF RegionMap
<1>4. \A a, l \in Nat : [addr |-> a, len |-> l] \in Region
  BY DEF Region
<1> QED
  BY <1>3, <1>4 DEF Regions, RegionMap

\* What a repeater line leads to.
RepeaterLed(line) ==
  /\ stage' = stage
  /\ \E c \in CrateNum, region \in RegionMap :
       /\ OnlyFirst("repeater", line) => Len(line) >= 2 /\ c = line[2].crate
       /\ \E d, k, setUp : Becomes(c, region, d, k, setUp)

\* A line with what the array held past its end.
LEMMA CompletedTyped ==
  ASSUME NEW line, line \in Seq(Token), NatNumbers(line), NEW p, NEW l \in Completed(line, p)
  PROVE  /\ l \in Seq(Token) /\ NatNumbers(l)
         /\ line # << >> => FirstWord(l) = FirstWord(line)
         /\ p.result # "past" => l = line
<1>1. CASE l = line
  BY <1>1, Zenon
<1>2. CASE p.result = "past" /\ \E t \in Leftover : l = Append(line, t)
  <2>1. PICK t \in Leftover : l = Append(line, t)
    BY <1>2
  <2>2. t \in Token /\ (t.word = "number" => t.num \in Nat)
    BY InputAssumption, Zenon
  <2>3. /\ l \in Seq(Token) /\ DOMAIN line = 1..Len(line) /\ Len(line) \in Nat
        /\ DOMAIN l = 1..(Len(line) + 1) /\ l[Len(line) + 1] = t
        /\ \A i \in 1..Len(line) : l[i] = line[i]
    BY ONLY <2>1, <2>2, line \in Seq(Token)
  <2>4. \A i \in DOMAIN l : i \in 1..Len(line) \/ i = Len(line) + 1
    BY <2>3
  <2>5. NatNumbers(l)
    BY <2>2, <2>3, <2>4, Zenon DEF NatNumbers
  <2>6. ASSUME line # << >> PROVE FirstWord(l) = FirstWord(line)
    <3>1. 1 \in 1..Len(line) /\ l # << >>
      BY ONLY <2>1, <2>6, line \in Seq(Token)
    <3> QED
      BY <2>3, <2>6, <3>1, Zenon DEF FirstWord
  <2> QED
    BY <1>2, <2>3, <2>5, <2>6, Zenon
<1> QED
  BY <1>1, <1>2 DEF Completed

LEMMA RepeaterStep ==
  ASSUME ConfigTypeOK, NEW line, line \in Seq(Token), NatNumbers(line), ConfigRepeaterLine(line)
  PROVE  \/ stage' \in {stage, "fault"} /\ UNCHANGED <<dev, page, pages, out>>
         \/ \E l \in Completed(line, RepeaterOptions(line)) : l \in Seq(Token) /\ RepeaterLed(l)
<1> DEFINE val(l) == RepeaterOptions(l).vals
           c(l)   == val(l)["crate"]
<1>1. \/ stage' = "fault" /\ UNCHANGED <<dev, page, pages, out>>
      \/ stage' = stage /\ UNCHANGED <<dev, page, pages, out>>
      \/ /\ stage' = stage
         /\ \E l \in Completed(line, RepeaterOptions(line)) :
              c(l) \in CrateNum /\ SetUp(c(l), Regions(c(l), val(l)))
  BY Zenon DEF ConfigRepeaterLine
<1>2. CASE /\ stage' = stage
           /\ \E l \in Completed(line, RepeaterOptions(line)) :
                c(l) \in CrateNum /\ SetUp(c(l), Regions(c(l), val(l)))
  <2>1. PICK l \in Completed(line, RepeaterOptions(line)) :
          c(l) \in CrateNum /\ SetUp(c(l), Regions(c(l), val(l)))
    BY <1>2
  <2>2. l \in Seq(Token) /\ NatNumbers(l)
    BY CompletedTyped, Zenon
  <2>3. /\ \A v \in RepeaterNames : val(l)[v] \in Nat
        /\ OnlyFirst("repeater", l) => c(l) = -1 \/ (Len(l) >= 2 /\ c(l) = l[2].crate)
    BY <2>2, RepeaterParse, Zenon DEF RepeaterOptions
  <2> HIDE DEF val
  <2>4. Regions(c(l), val(l)) \in RegionMap
    BY <2>1, <2>3, RegionsTyped, Zenon
  <2>5. \E d, k, setUp : Becomes(c(l), Regions(c(l), val(l)), d, k, setUp)
    BY <2>1, <2>4, SetUpBecomes, Zenon
  <2>6. c(l) # -1
    BY <2>1, CrateInt
  <2>7. RepeaterLed(l)
    BY <1>2, <2>1, <2>3, <2>4, <2>5, <2>6, Zenon DEF RepeaterLed
  <2> QED
    BY <2>2, <2>7, Zenon
<1> QED
  BY <1>1, <1>2

\* What a vmedevice line leads to.
DeviceLed(line) ==
  /\ UNCHANGED <<stage, page, pages>>
  /\ Len(line) >= 2
  /\ \E c \in CrateNum, base \in Nat \ {0} : \E s \in AddrSpace(dev[c], base) :
       \E found \in Probed(c, s, base) \ {"fault"} :
         /\ OnlyFirst("vmedevice", line) => c = line[2].crate
         /\ dev[c].cards # MaxCardsInChassis
         /\ dev' = [dev EXCEPT ![c].cards = @ + 1]
         /\ out' = Append(out, DeviceLine(line, base, s, found = "board"))

LEMMA DeviceStep ==
  ASSUME NEW line, line \in Seq(Token), NatNumbers(line), FirstWord(line) = "vmedevice",
         ConfigVmedevice(line)
  PROVE  \/ stage' \in {stage, "fault", "overrun"} /\ UNCHANGED <<dev, page, pages, out>>
         \/ \E l \in Completed(line, DeviceOptions(line)) : l \in Seq(Token) /\ DeviceLed(l)
<1> DEFINE val(l) == DeviceOptions(l).vals
           c(l)   == val(l)["crate"]
           base(l) == val(l)["base"]
           Entered(l) ==
             \E s \in AddrSpace(dev[c(l)], base(l)) :
               \E found \in Probed(c(l), s, base(l)) \ {"fault"} :
                 /\ dev[c(l)].cards # MaxCardsInChassis
                 /\ dev' = [dev EXCEPT ![c(l)].cards = @ + 1]
                 /\ out' = Append(out, DeviceLine(l, base(l), s, found = "board"))
                 /\ UNCHANGED stage
<1>1. /\ UNCHANGED <<page, pages>>
      /\ \/ stage' = "fault" /\ UNCHANGED <<dev, out>>
         \/ \E l \in Completed(line, DeviceOptions(line)) :
              IF base(l) = 0 \/ c(l) >= MaxDev THEN UNCHANGED <<stage, dev, out>>
              ELSE ConfigBoard(l, c(l), base(l))
  BY Zenon DEF ConfigVmedevice
<1>2. CASE stage' \in {stage, "fault", "overrun"} /\ UNCHANGED <<dev, out>>
  BY <1>1, <1>2, Zenon
<1>3. ASSUME NEW l \in Completed(line, DeviceOptions(line)),
             ~ (base(l) = 0 \/ c(l) >= MaxDev), ConfigBoard(l, c(l), base(l)),
             ~ (stage' \in {stage, "fault", "overrun"} /\ UNCHANGED <<dev, out>>)
      PROVE  l \in Seq(Token) /\ DeviceLed(l)
  <2>1. l \in Seq(Token) /\ NatNumbers(l) /\ FirstWord(l) = "vmedevice"
    <3>1. line # << >>
      BY DEF FirstWord
    <3> QED
      BY <3>1, CompletedTyped, Zenon
  <2>2. /\ base(l) \in Nat /\ c(l) \in Int
        /\ base(l) # 0 => Len(l) >= 2 /\ (OnlyFirst("vmedevice", l) => c(l) = l[2].crate)
    BY <2>1, DeviceParse, Zenon DEF DeviceOptions, DeviceVars
  <2>3. ~ (c(l) < 0) /\ Entered(l)
    <3> HIDE DEF c, base
    <3> QED
      BY <1>3, Zenon DEF ConfigBoard
  <2>4. c(l) \in CrateNum /\ base(l) \in Nat \ {0}
    <3>1. MaxDev \in Nat \ {0}
      BY ConfigAssumption, Zenon
    <3> HIDE DEF c, base
    <3> QED
      BY <1>3, <2>2, <2>3, <3>1 DEF CrateNum
  <2>5. DeviceLed(l)
    <3> HIDE DEF c, base
    <3>1. Len(l) >= 2 /\ (OnlyFirst("vmedevice", l) => c(l) = l[2].crate)
      BY <1>3, <2>2, Zenon
    <3>2. \E s \in AddrSpace(dev[c(l)], base(l)) :
            \E found \in Probed(c(l), s, base(l)) \ {"fault"} :
              /\ OnlyFirst("vmedevice", l) => c(l) = l[2].crate
              /\ dev[c(l)].cards # MaxCardsInChassis
              /\ dev' = [dev EXCEPT ![c(l)].cards = @ + 1]
              /\ out' = Append(out, DeviceLine(l, base(l), s, found = "board"))
      BY <2>3, <3>1, Zenon
    <3>3. UNCHANGED <<stage, page, pages>>
      BY <1>1, <2>3, Zenon
    <3> QED
      BY <2>4, <3>1, <3>2, <3>3, Zenon DEF DeviceLed
  <2> QED
    BY <2>1, <2>5
<1> HIDE DEF c, base
<1>4. ASSUME NEW l \in Completed(line, DeviceOptions(line)),
             IF base(l) = 0 \/ c(l) >= MaxDev THEN UNCHANGED <<stage, dev, out>>
             ELSE ConfigBoard(l, c(l), base(l))
      PROVE  \/ stage' \in {stage, "fault", "overrun"} /\ UNCHANGED <<dev, out>>
             \/ l \in Seq(Token) /\ DeviceLed(l)
  BY <1>3, <1>4, Zenon
<1> QED
  BY <1>1, <1>2, <1>4, Zenon

LEMMA SpaceIs ==
  ASSUME NEW d, NEW addr, NEW s, s \in AddrSpace(d, addr)
  PROVE  s \in Width \cup {Off, Bad} /\ s \in Int
<1>1. s \in Width \cup {Off, Bad}
  <2> DEFINE in == {t \in Width : In(d, t, addr)}
  <2>1. in \subseteq Nat
    BY WidthIs
  <2>2. in # {} => Min(in) \in in
    BY <2>1, MinIs
  <2>3. s \in IF ~ d.online THEN {Off} ELSE IF in # {} THEN {Min(in)} ELSE Width \cup {Off, Bad}
    BY Zenon DEF AddrSpace
  <2> QED
    BY <2>2, <2>3
<1>2. Off \in Int /\ Bad \in Int
  BY DEF Off, Bad
<1>3. s \in Width => s \in Int
  BY WidthIs
<1> QED
  BY <1>1, <1>2, <1>3

LEMMA DeviceLineTyped ==
  ASSUME NEW line, line \in Seq(Token), Len(line) >= 2, NEW base, base \in Int,
         NEW s, s \in Int, NEW b
  PROVE  DeviceLine(line, base, s, b) \in Seq(Token)
<1>1. line[1] \in Token /\ line[2] \in Token
  BY ONLY line \in Seq(Token), Len(line) >= 2
<1>2. /\ Word("-base") \in Token /\ Number(base) \in Token /\ Word("-a") \in Token
      /\ Number(s) \in Token /\ Word("-o") \in Token /\ Truth(b) \in Token
  BY Tokens, WordsAre, TruthTyped, Zenon
<1> QED
  BY ONLY <1>1, <1>2 DEF DeviceLine

LEMMA DeviceLedTyped ==
  ASSUME LinesTyped, NEW line, line \in Seq(Token), DeviceLed(line)
  PROVE  LinesTyped'
<1>1. PICK c \in CrateNum, base \in Nat \ {0} : \E s \in AddrSpace(dev[c], base) :
        \E found \in Probed(c, s, base) \ {"fault"} :
         /\ dev[c].cards # MaxCardsInChassis
         /\ dev' = [dev EXCEPT ![c].cards = @ + 1]
         /\ out' = Append(out, DeviceLine(line, base, s, found = "board"))
  BY Zenon DEF DeviceLed
<1>2. PICK s \in AddrSpace(dev[c], base), b \in BOOLEAN :
         /\ dev[c].cards # MaxCardsInChassis
         /\ dev' = [dev EXCEPT ![c].cards = @ + 1]
         /\ out' = Append(out, DeviceLine(line, base, s, b))
  BY <1>1
<1>3. s \in Int /\ base \in Int
  BY SpaceIs
<1>4. Len(line) >= 2 /\ UNCHANGED <<page, pages>>
  BY DEF DeviceLed
<1>5. DeviceLine(line, base, s, b) \in Seq(Token)
  BY <1>3, <1>4, DeviceLineTyped
<1>6. out' \in Seq(Seq(Token))
  BY <1>2, <1>5, AppendTyped DEF LinesTyped
<1>7. /\ dev' \in [CrateNum -> Device]
      /\ \A a \in CrateNum : dev'[a].start = dev[a].start
  <2>1. dev[c] \in Device /\ dev \in [CrateNum -> Device]
    BY DEF LinesTyped
  <2>2. dev[c].cards + 1 \in 0..MaxCardsInChassis
    <3>1. dev[c].cards \in 0..MaxCardsInChassis /\ MaxCardsInChassis \in Nat
      BY <2>1, DeviceIs, ConfigAssumption, Zenon
    <3> QED
      BY ONLY <3>1, <1>2
  <2> DEFINE n == dev[c].cards + 1
             d == [dev[c] EXCEPT !.cards = n]
  <2>3. n \in 0..MaxCardsInChassis
    BY <2>2
  <2>4. dev' = [dev EXCEPT ![c] = d]
    BY <1>2, Zenon
  <2> HIDE DEF n
  <2>5. d \in Device /\ d.start = dev[c].start
    BY ONLY <2>1, <2>3 DEF Device
  <2> HIDE DEF d
  <2> QED
    BY ONLY <2>1, <2>4, <2>5, c \in CrateNum
<1> QED
  BY <1>4, <1>6, <1>7, Zenon DEF LinesTyped

LEMMA InputLine ==
  ASSUME ConfigTypeOK
  PROVE  /\ Len(input) \in Nat /\ DOMAIN input = 1..Len(input)
         /\ \A k \in DOMAIN input : input[k] \in Seq(Token) /\ NatNumbers(input[k])
<1>1. /\ input \in Seq(Seq(Token))
      /\ \A k \in DOMAIN input : NatNumbers(input[k])
  BY InputAssumption, Zenon DEF ConfigTypeOK, NatNumbers
<1>2. /\ Len(input) \in Nat /\ DOMAIN input = 1..Len(input)
      /\ \A k \in DOMAIN input : input[k] \in Seq(Token)
  BY ONLY <1>1
<1> QED
  BY <1>1, <1>2

LEMMA ReadLineCases ==
  ASSUME ConfigTypeOK, ReadLine
  PROVE  /\ stage = "lines" /\ pos \in DOMAIN input
         /\ pos' = pos + 1 /\ UNCHANGED <<world, input>>
         /\ pos' \in 1..(Len(input) + 1)
         /\ \/ /\ stage' \in {"lines", "fault", "overrun"}
               /\ UNCHANGED <<dev, page, pages, out>>
            \/ /\ FirstWord(input[pos]) = "repeater"
               /\ \E l \in Completed(input[pos], RepeaterOptions(input[pos])) :
                    l \in Seq(Token) /\ RepeaterLed(l)
            \/ /\ FirstWord(input[pos]) = "vmedevice"
               /\ \E l \in Completed(input[pos], DeviceOptions(input[pos])) :
                    l \in Seq(Token) /\ DeviceLed(l)
<1> DEFINE line == input[pos]
<1>1. stage = "lines" /\ pos <= Len(input) /\ pos' = pos + 1 /\ UNCHANGED <<world, input>>
  BY Zenon DEF ReadLine
<1>2. Len(input) \in Nat /\ DOMAIN input = 1..Len(input) /\ pos \in 1..(Len(input) + 1)
  BY InputLine, Zenon DEF ConfigTypeOK
<1>3. pos \in DOMAIN input /\ pos' \in 1..(Len(input) + 1)
  BY ONLY <1>1, <1>2
<1>4. line \in Seq(Token) /\ NatNumbers(line)
  BY <1>3, InputLine, Zenon
<1>5. \/ FirstWord(line) = "repeater" /\ ConfigRepeaterLine(line)
      \/ FirstWord(line) = "vmedevice" /\ ConfigVmedevice(line)
      \/ stage' \in {"lines", "fault"} /\ UNCHANGED <<dev, page, pages, out>>
      \/ stage' = stage /\ UNCHANGED <<dev, page, pages, out>>
  BY DEF ReadLine
<1> HIDE DEF line
<1>6. CASE FirstWord(line) = "repeater" /\ ConfigRepeaterLine(line)
  <2>1. \/ stage' \in {stage, "fault"} /\ UNCHANGED <<dev, page, pages, out>>
        \/ \E l \in Completed(line, RepeaterOptions(line)) : l \in Seq(Token) /\ RepeaterLed(l)
    BY <1>4, <1>6, RepeaterStep, Zenon
  <2> QED
    BY <1>1, <1>3, <1>6, <2>1 DEF line
<1>7. CASE FirstWord(line) = "vmedevice" /\ ConfigVmedevice(line)
  <2>1. \/ stage' \in {stage, "fault", "overrun"} /\ UNCHANGED <<dev, page, pages, out>>
        \/ \E l \in Completed(line, DeviceOptions(line)) : l \in Seq(Token) /\ DeviceLed(l)
    BY <1>4, <1>7, DeviceStep, Zenon
  <2> QED
    BY <1>1, <1>3, <1>7, <2>1 DEF line
<1> QED
  BY <1>1, <1>3, <1>5, <1>6, <1>7

\* The lines of a proper input file lack no argument.
LEMMA ProperCases ==
  ASSUME ConfigTypeOK, ProperInput(input), ReadLine
  PROVE  \/ stage' \in {"lines", "fault", "overrun"} /\ UNCHANGED <<dev, page, pages, out>>
         \/ FirstWord(input[pos]) = "repeater" /\ RepeaterLed(input[pos])
         \/ FirstWord(input[pos]) = "vmedevice" /\ DeviceLed(input[pos])
<1> DEFINE line == input[pos]
<1>1. pos \in DOMAIN input /\ Complete(line)
  BY ReadLineCases, Zenon DEF ProperInput
<1>2. line \in Seq(Token) /\ NatNumbers(line)
  BY <1>1, InputLine, Zenon
<1>3. FirstWord(line) = "repeater" =>
        \A l \in Completed(line, RepeaterOptions(line)) : l = line
  BY <1>1, <1>2, CompletedTyped, Zenon DEF Complete, IsRepeater
<1>4. FirstWord(line) = "vmedevice" =>
        \A l \in Completed(line, DeviceOptions(line)) : l = line
  BY <1>1, <1>2, CompletedTyped, Zenon DEF Complete, IsDevice
<1> QED
  BY <1>3, <1>4, ReadLineCases, Zenon

LEMMA ConfigSteps ==
  ASSUME ConfigTypeOK, ConfigNext
  PROVE  \/ /\ stage \in {"command", "lines"} /\ stage' \in {"exit", "lines", "done"}
            /\ stage = "lines" => pos = Len(input) + 1
            /\ stage = "lines" <=> stage' = "done"
            /\ UNCHANGED <<world, input, pos, dev, page, pages, out>>
         \/ ReadLine
<1>1. ASSUME NEW args \in Command, ReadCommand(args)
      PROVE  /\ stage = "command" /\ stage' \in {"exit", "lines"}
             /\ UNCHANGED <<world, input, pos, dev, page, pages, out>>
  BY <1>1 DEF ReadCommand
<1>2. ASSUME EndOfInput
      PROVE  /\ stage = "lines" /\ pos = Len(input) + 1 /\ stage' = "done"
             /\ UNCHANGED <<world, input, pos, dev, page, pages, out>>
  BY <1>2, Zenon DEF EndOfInput
<1> QED
  BY <1>1, <1>2 DEF ConfigNext

LEMMA ConfigInitTyped == ASSUME ConfigInit PROVE ConfigTypeOK
<1>1. NoRegion \in Region
  BY DEF NoRegion, Region
<1>2. NoDev \in Device
  <2>1. /\ [s \in Width |-> NoRegion] \in RegionMap
        /\ [s \in Width |-> NoPage] \in [Width -> Nat \cup {NoPage}]
    BY <1>1 DEF RegionMap
  <2>2. 0 \in 0..MaxCardsInChassis
    <3>1. MaxCardsInChassis \in Nat
      BY ConfigAssumption, Zenon
    <3> QED
      BY ONLY <3>1
  <2> QED
    BY ONLY <2>1, <2>2 DEF NoDev, Device, RegionMap, Region
<1>3. dev \in [CrateNum -> Device] /\ \A c \in CrateNum, s \in Width : dev[c].start[s] = NoPage
  BY <1>2 DEF ConfigInit, NoDev
<1>4. Len(input) \in Nat
  <2>1. input \in Seq(Seq(Token))
    BY InputAssumption, Zenon DEF ConfigInit
  <2> QED
    BY ONLY <2>1
<1>5. pos \in 1..(Len(input) + 1)
  BY <1>4 DEF ConfigInit
<1>6. /\ world \in World /\ input \in Input /\ stage = "command" /\ page = 0 /\ pages = {}
      /\ out = << >>
  BY Zenon DEF ConfigInit
<1>7. out \in Seq(Seq(Token)) /\ page \in Nat \cup {NoPage}
  BY ONLY <1>6
<1> QED
  BY <1>3, <1>5, <1>6, <1>7 DEF ConfigTypeOK

LEMMA LinesAre == ConfigTypeOK => LinesTyped
BY Zenon DEF ConfigTypeOK, LinesTyped

LEMMA ConfigNextTyped ==
  ASSUME ConfigTypeOK, ConfigNext \/ UNCHANGED configVars
  PROVE  ConfigTypeOK'
<1>0. LinesTyped
  BY LinesAre
<1>1. CASE UNCHANGED configVars
  BY <1>1, Zenon DEF configVars, ConfigTypeOK
<1>2. CASE /\ stage' \in {"exit", "lines", "done"}
           /\ UNCHANGED <<world, input, pos, dev, page, pages, out>>
  BY <1>2 DEF ConfigTypeOK
<1>3. CASE ReadLine
  <2>1. /\ stage = "lines" /\ pos \in DOMAIN input /\ UNCHANGED <<world, input>>
        /\ pos' \in 1..(Len(input) + 1)
        /\ \/ /\ stage' \in {"lines", "fault", "overrun"}
              /\ UNCHANGED <<dev, page, pages, out>>
           \/ \E l : l \in Seq(Token) /\ (RepeaterLed(l) \/ DeviceLed(l))
    BY <1>3, ReadLineCases, Zenon
  <2>3. stage' \in {"command", "lines", "done", "exit", "fault", "overrun"}
    BY <2>1 DEF RepeaterLed, DeviceLed
  <2>4. LinesTyped'
    <3>1. CASE UNCHANGED <<dev, page, pages, out>>
      BY <1>0, <3>1, Zenon DEF LinesTyped
    <3>2. ASSUME NEW l, RepeaterLed(l) PROVE LinesTyped'
      <4>1. PICK c \in CrateNum, region \in RegionMap :
              \E d, k, setUp : Becomes(c, region, d, k, setUp)
        BY <3>2, Zenon DEF RepeaterLed
      <4>2. PICK d, k, setUp : Becomes(c, region, d, k, setUp)
        BY <4>1, Zenon
      <4> QED
        BY <1>0, <4>2, BecomesTyped, Zenon
    <3>3. ASSUME NEW l, l \in Seq(Token), DeviceLed(l) PROVE LinesTyped'
      BY <1>0, <3>3, DeviceLedTyped, Zenon
    <3> QED
      BY <2>1, <3>1, <3>2, <3>3, Zenon
  <2>5. world' \in World /\ input' \in Input /\ pos' \in 1..(Len(input') + 1)
    BY <2>1, Zenon DEF ConfigTypeOK
  <2> QED
    BY <2>3, <2>4, <2>5, Zenon DEF ConfigTypeOK, LinesTyped
<1>4. CASE ConfigNext
  BY <1>2, <1>3, <1>4, ConfigSteps, Zenon
<1> QED
  BY <1>1, <1>4

-----------------------------------------------------------------------------
(* Lines that are parsed to their end.                                       *)

LEMMA MatchTurn ==
  ASSUME NEW table, DOMAIN table \subseteq Nat, NEW args, args \in Seq(Token), NEW s,
         s.at \in Nat, s.at >= 1, s.at + 1 \in 1..Len(args), s.result = "ok",
         \A e \in Entries(table) : e.arg # "",
         \E e \in Entries(table) : Matches(e, args, s.at),
         \A e \in Entries(table) : Matches(e, args, s.at) => Accepts(e, args[s.at + 1])
  PROVE  \E e \in Entries(table) : Goes(e, args, s) /\ Turn(table, args, s) = Stored(e, args, s)
<1> DEFINE hits == {k \in DOMAIN table : Matches(table[k], args, s.at)}
           e    == table[Min(hits)]
<1>1. hits # {}
  BY Zenon DEF Entries
<1>2. Min(hits) \in hits
  BY <1>1, MinIs
<1>3. e \in Entries(table) /\ Matches(e, args, s.at)
  BY <1>2, Zenon DEF Entries
<1>4. e.arg # "" /\ Takes(e) = 2
  BY <1>3, TakesTwo, Zenon
<1>5. Len(args) \in Nat
  BY TokenIs, Zenon
<1>6. /\ s.at <= Len(args) /\ s.at + 2 - 1 = s.at + 1 /\ s.at + 2 <= Len(args) + 1
      /\ ~ (s.at > Len(args)) /\ ~ (s.at + 2 > Len(args) + 1)
  BY ONLY <1>5, s.at \in Nat, s.at >= 1, s.at + 1 \in 1..Len(args)
<1>7. Accepts(e, args[s.at + 1])
  BY <1>3, Zenon
<1> HIDE DEF e
<1>8. Goes(e, args, s)
  BY <1>3, <1>4, <1>6, <1>7, Zenon DEF Goes
<1>9. Turn(table, args, s) = Stored(e, args, s)
  BY <1>1, <1>4, <1>6, <1>7, Zenon DEF Turn, Stored, e
<1> QED
  BY <1>3, <1>8, <1>9, Zenon

LEMMA ParseEnds ==
  ASSUME NEW table, DOMAIN table \subseteq Nat, NEW D, NEW args, args \in Seq(Token),
         NEW vals0, vals0 \in [D -> Int], NEW Good, <<1, vals0>> \in Good,
         \A e \in Entries(table) : e.arg # "",
         \A i \in Nat : \A vals : <<i, vals>> \in Good =>
           \/ i = Len(args) + 1
           \/ /\ i \in 1..Len(args) /\ i + 1 \in 1..Len(args)
              /\ \E e \in Entries(table) : Matches(e, args, i),
         \A e \in Entries(table) : \A i \in 1..Len(args) : \A vals :
           (vals \in [D -> Int] /\ <<i, vals>> \in Good /\ i + 1 \in 1..Len(args)
            /\ Matches(e, args, i)) =>
             /\ Accepts(e, args[i + 1])
             /\ <<i + 2, Load(e, args[i + 1], vals)>> \in Good
             /\ Load(e, args[i + 1], vals) \in [D -> Int]
  PROVE  /\ <<Len(args) + 1, Parse(table, args, vals0).vals>> \in Good
         /\ Parse(table, args, vals0).vals \in [D -> Int]
<1>0. Len(args) \in Nat
  BY TokenIs, Zenon
<1>1. PICK f : /\ f[0] = Begin(vals0)
               /\ \A n \in 1..Len(args) : f[n] = Turn(table, args, f[n - 1])
               /\ Parse(table, args, vals0) = f[Len(args)]
  BY ONLY <1>0, ParseRun
<1> DEFINE Fine(s, n) == /\ IsTurn(table, D, s) /\ <<s.at, s.vals>> \in Good /\ s.result = "ok"
                         /\ s.at > n \/ s.at = Len(args) + 1
<1>2. Fine(f[0], 0)
  <2>1. /\ IsTurn(table, D, Begin(vals0)) /\ Begin(vals0).vals = vals0 /\ Begin(vals0).at = 1
        /\ Begin(vals0).result = "ok"
    BY ONLY BeginTurn, vals0 \in [D -> Int] DEF Begin
  <2>2. 1 > 0
    BY ONLY TRUE
  <2> QED
    BY <1>1, <2>1, <2>2, Zenon
<1>3. ASSUME NEW n \in Nat, n + 1 <= Len(args), Fine(f[n], n) PROVE Fine(f[n + 1], n + 1)
  <2> DEFINE s == f[n]
             t == f[n + 1]
  <2>0. n + 1 \in 1..Len(args) /\ (n + 1) - 1 = n
    BY ONLY <1>0, <1>3, n \in Nat
  <2>1. t = Turn(table, args, s)
    BY <1>1, <2>0
  <2>2. /\ IsTurn(table, D, s) /\ s.at \in Nat /\ s.at >= 1 /\ s.vals \in [D -> Int]
        /\ <<s.at, s.vals>> \in Good /\ s.result = "ok"
        /\ s.at > n \/ s.at = Len(args) + 1
    BY <1>3, TurnIs, Zenon
  <2> HIDE DEF s, t, Fine
  <2>3. CASE s.at = Len(args) + 1
    <3>1. s.at > Len(args)
      BY ONLY <1>0, <2>3
    <3>2. t = s
      BY <2>1, <3>1, Zenon DEF Turn
    <3> QED
      BY <2>2, <2>3, <3>2, Zenon DEF Fine, t
  <2>4. CASE s.at # Len(args) + 1
    <3>1. /\ s.at \in 1..Len(args) /\ s.at + 1 \in 1..Len(args)
          /\ \E e \in Entries(table) : Matches(e, args, s.at)
      BY <2>2, <2>4, Zenon
    <3>2. \A e \in Entries(table) : Matches(e, args, s.at) => Accepts(e, args[s.at + 1])
      BY <2>2, <3>1, Zenon
    <3>3. PICK e : e \in Entries(table) /\ Goes(e, args, s) /\ t = Stored(e, args, s)
      BY <2>1, <2>2, <3>1, <3>2, MatchTurn, Zenon
    <3> DEFINE loaded == Load(e, args[s.at + 1], s.vals)
    <3>4. e.arg # ""
      BY <3>3, Zenon
    <3>5. Matches(e, args, s.at) /\ t = On(s, loaded, e)
      BY <2>2, <3>3, <3>4, GoesOn, Zenon
    <3>6. <<s.at + 2, loaded>> \in Good /\ loaded \in [D -> Int]
      BY <2>2, <3>1, <3>3, <3>5, Zenon
    <3> HIDE DEF loaded
    <3>7. IsTurn(table, D, t) /\ t.vals = loaded /\ t.at = s.at + 2 /\ t.result = "ok"
      <4> DEFINE o == On(s, loaded, e)
      <4>1. IsTurn(table, D, o) /\ o.vals = loaded /\ o.at = s.at + 2 /\ o.result = s.result
        BY ONLY <2>2, <3>3, <3>6, OnTurn
      <4>2. t = o
        BY <3>5
      <4> HIDE DEF o
      <4> QED
        BY <2>2, <4>1, <4>2, Zenon
    <3>8. t.at > n + 1
      <4>1. s.at > n
        BY <2>2, <2>4, Zenon
      <4> QED
        BY ONLY <2>2, <3>7, <4>1, n \in Nat
    <3> QED
      BY <3>6, <3>7, <3>8, Zenon DEF Fine, t
  <2> QED
    BY <2>3, <2>4
<1> DEFINE I == {n \in Nat : n <= Len(args) => Fine(f[n], n)}
<1>4. 0 \in I
  BY <1>2
<1>5. ASSUME NEW n \in Nat, n \in I PROVE n + 1 \in I
  <2>1. n + 1 <= Len(args) => n <= Len(args)
    BY ONLY <1>0, n \in Nat
  <2>2. n + 1 \in Nat
    BY ONLY n \in Nat
  <2> HIDE DEF Fine
  <2> QED
    BY <1>3, <1>5, <2>1, <2>2
<1> HIDE DEF I
<1>6. Nat \subseteq I
  BY <1>4, <1>5, NatSets
<1>7. Fine(f[Len(args)], Len(args))
  <2> HIDE DEF Fine
  <2>1. Len(args) \in I /\ Len(args) <= Len(args)
    BY ONLY <1>0, <1>6
  <2> QED
    BY <2>1 DEF I
<1> DEFINE r == f[Len(args)]
<1>8. /\ IsTurn(table, D, r) /\ <<r.at, r.vals>> \in Good
      /\ r.at > Len(args) \/ r.at = Len(args) + 1
      /\ r.at \in Nat /\ r.vals \in [D -> Int]
  BY <1>7, TurnIs, Zenon
<1> HIDE DEF r
<1>9. r.at = Len(args) + 1
  <2>1. r.at = Len(args) + 1 \/ r.at \in 1..Len(args)
    BY <1>8, Zenon
  <2> QED
    BY ONLY <1>0, <1>8, <2>1
<1> QED
  BY <1>1, <1>8, <1>9, Zenon DEF r

-----------------------------------------------------------------------------
(* The tables of get_vaddr_for_device().                                     *)

PageNames == {"-a16", "-s16", "-sp16", "-ep16", "-a24", "-s24", "-sp24", "-ep24",
              "-a32", "-s32", "-sp32", "-ep32"}

NoopNames == {"-S16", "-S24", "-S32"}

StaticNames == {"base", "space", "vme_online", "online"} \cup PageNames

LEMMA StaticIs ==
  /\ PageVars = PageNames
  /\ DOMAIN Static0 = StaticNames
  /\ Static0 \in [StaticNames -> Int]
<1>1. PageVars = PageNames
  BY OptIs DEF Width, PageNames, PageVars
<1>2. Static0 = [v \in StaticNames |-> 0]
  BY <1>1, Zenon DEF Static0, StaticNames
<1>3. \A D : [v \in D |-> 0] \in [D -> Int] /\ DOMAIN [v \in D |-> 0] = D
  OBVIOUS
<1> QED
  BY <1>1, <1>2, <1>3, Zenon

IsVmeEntry(e) ==
  /\ e.arg # ""
  /\ \/ e.routine = "load_constant" /\ e.opt = "-base" /\ e.arg = "*" /\ e.var = "base"
     \/ e.routine = "load_constant" /\ e.opt = "-a" /\ e.arg = "*" /\ e.var = "space"
     \/ e.routine = "load_enum" /\ e.opt = "-o" /\ e.var = "vme_online" /\ e.value \in {0, 1}

LEMMA VmeEntries ==
  /\ DOMAIN VmeTable \subseteq Nat
  /\ \A e \in Entries(VmeTable) : IsVmeEntry(e)
  /\ \E e \in Entries(VmeTable) : e.routine = "load_constant" /\ e.opt = "-base" /\ e.arg = "*"
  /\ \E e \in Entries(VmeTable) : e.routine = "load_constant" /\ e.opt = "-a" /\ e.arg = "*"
  /\ \E e \in Entries(VmeTable) : e.routine = "load_enum" /\ e.opt = "-o" /\ e.arg = "true"
  /\ \E e \in Entries(VmeTable) : e.routine = "load_enum" /\ e.opt = "-o" /\ e.arg = "false"
<1>1. /\ DOMAIN VmeTable = 1..4
      /\ VmeTable[1] = Entry("-base", "*", "load_constant", "base", 0)
      /\ VmeTable[2] = Entry("-a", "*", "load_constant", "space", 0)
      /\ VmeTable[3] = Entry("-o", "true", "load_enum", "vme_online", 1)
      /\ VmeTable[4] = Entry("-o", "false", "load_enum", "vme_online", 0)
  BY DEF VmeTable
<1>2. /\ IsVmeEntry(Entry("-base", "*", "load_constant", "base", 0))
      /\ IsVmeEntry(Entry("-a", "*", "load_constant", "space", 0))
      /\ IsVmeEntry(Entry("-o", "true", "load_enum", "vme_online", 1))
      /\ IsVmeEntry(Entry("-o", "false", "load_enum", "vme_online", 0))
  BY DEF Entry, IsVmeEntry
<1>3. \A k \in 1..4 : k \in {1, 2, 3, 4}
  OBVIOUS
<1>4. \A k \in 1..4 : IsVmeEntry(VmeTable[k])
  BY <1>1, <1>2, <1>3, Zenon
<1>5. \A e \in Entries(VmeTable) : IsVmeEntry(e)
  BY <1>1, <1>4, Zenon DEF Entries
<1>6. \A k \in 1..4 : VmeTable[k] \in Entries(VmeTable)
  BY <1>1, Zenon DEF Entries
<1>7. /\ VmeTable[1] \in Entries(VmeTable) /\ VmeTable[2] \in Entries(VmeTable)
      /\ VmeTable[3] \in Entries(VmeTable) /\ VmeTable[4] \in Entries(VmeTable)
  BY <1>6
<1>8. /\ VmeTable[1].routine = "load_constant" /\ VmeTable[1].opt = "-base" /\ VmeTable[1].arg = "*"
      /\ VmeTable[2].routine = "load_constant" /\ VmeTable[2].opt = "-a" /\ VmeTable[2].arg = "*"
      /\ VmeTable[3].routine = "load_enum" /\ VmeTable[3].opt = "-o" /\ VmeTable[3].arg = "true"
      /\ VmeTable[4].routine = "load_enum" /\ VmeTable[4].opt = "-o" /\ VmeTable[4].arg = "false"
  BY ONLY <1>1 DEF Entry
<1>9. DOMAIN VmeTable \subseteq Nat
  BY ONLY <1>1
<1> QED
  BY <1>5, <1>7, <1>8, <1>9, Zenon

IsPageEntry(e) ==
  /\ e.arg # ""
  /\ \/ e.routine = "load_constant" /\ e.opt = e.var /\ e.var \in PageNames /\ e.arg = "*"
     \/ e.routine = "noop" /\ e.opt \in NoopNames /\ e.arg = "*"
     \/ e.routine = "load_enum" /\ e.opt = "-o" /\ e.var = "online" /\ e.value = 1

LEMMA PageEntries ==
  /\ DOMAIN PageTable \subseteq Nat
  /\ \A e \in Entries(PageTable) : IsPageEntry(e)
  /\ \A v \in PageNames : Constant(v) \in Entries(PageTable)
  /\ \A v \in NoopNames : Noop(v) \in Entries(PageTable)
  /\ Entry("-o", "true", "load_enum", "online", 1) \in Entries(PageTable)
  /\ Entry("-o", "false", "load_enum", "online", 1) \in Entries(PageTable)
<1> DEFINE T == Entry("-o", "true", "load_enum", "online", 1)
           F == Entry("-o", "false", "load_enum", "online", 1)
<1>1. DOMAIN PageTable = 1..17
  BY DEF PageTable
<1>2. /\ PageTable[1] = Constant("-a16") /\ PageTable[2] = Constant("-s16")
      /\ PageTable[3] = Noop("-S16") /\ PageTable[4] = Constant("-sp16")
      /\ PageTable[5] = Constant("-ep16") /\ PageTable[6] = Constant("-a24")
      /\ PageTable[7] = Constant("-s24") /\ PageTable[8] = Noop("-S24")
      /\ PageTable[9] = Constant("-sp24") /\ PageTable[10] = Constant("-ep24")
      /\ PageTable[11] = Constant("-a32") /\ PageTable[12] = Constant("-s32")
      /\ PageTable[13] = Noop("-S32") /\ PageTable[14] = Constant("-sp32")
      /\ PageTable[15] = Constant("-ep32") /\ PageTable[16] = T /\ PageTable[17] = F
  BY DEF PageTable
<1>3. \A k \in 1..17 : k \in {1, 2, 3, 4, 5, 6, 7, 8, 9, 10, 11, 12, 13, 14, 15, 16, 17}
  OBVIOUS
<1>4. \A v \in PageNames : IsPageEntry(Constant(v))
  BY DEF Entry, IsPageEntry, Constant
<1>5. \A v \in NoopNames : IsPageEntry(Noop(v))
  BY DEF Entry, IsPageEntry, Noop
<1>6. IsPageEntry(T) /\ IsPageEntry(F)
  BY DEF Entry, IsPageEntry
<1> HIDE DEF T, F
<1>7. \A k \in 1..17 : IsPageEntry(PageTable[k])
  BY <1>2, <1>3, <1>4, <1>5, <1>6, Zenon DEF PageNames, NoopNames
<1>8. \A e \in Entries(PageTable) : IsPageEntry(e)
  BY <1>1, <1>7, Zenon DEF Entries
<1>9. \A k \in DOMAIN PageTable : PageTable[k] \in Entries(PageTable)
  BY Zenon DEF Entries
<1>10. /\ 1 \in 1..17 /\ 2 \in 1..17 /\ 3 \in 1..17 /\ 4 \in 1..17 /\ 5 \in 1..17 /\ 6 \in 1..17
       /\ 7 \in 1..17 /\ 8 \in 1..17 /\ 9 \in 1..17 /\ 10 \in 1..17 /\ 11 \in 1..17
       /\ 12 \in 1..17 /\ 13 \in 1..17 /\ 14 \in 1..17 /\ 15 \in 1..17 /\ 16 \in 1..17
       /\ 17 \in 1..17
  BY ONLY TRUE
<1>11. \A v \in PageNames : Constant(v) \in Entries(PageTable)
  BY <1>1, <1>2, <1>9, <1>10, Zenon DEF PageNames
<1>12. \A v \in NoopNames : Noop(v) \in Entries(PageTable)
  BY <1>1, <1>2, <1>9, <1>10, Zenon DEF NoopNames
<1>13. T \in Entries(PageTable) /\ F \in Entries(PageTable)
  BY <1>1, <1>2, <1>9, <1>10, Zenon
<1>14. DOMAIN PageTable \subseteq Nat
  BY ONLY <1>1
<1> QED
  BY <1>8, <1>11, <1>12, <1>13, <1>14, Zenon DEF T, F

LEMMA OptionsAre ==
  ASSUME NEW line, line \in Seq(Token)
  PROVE  Options(line) \in Seq(Token)
BY ONLY line \in Seq(Token) DEF Options

LEMMA VmeParseTyped ==
  ASSUME NEW args, args \in Seq(Token), NEW vals, vals \in [StaticNames -> Int]
  PROVE  Parse(VmeTable, args, vals).vals \in [StaticNames -> Int]
<1> DEFINE Good == Nat \X [StaticNames -> Int]
<1>1. \A i, v : <<i, v>> \in Good <=> i \in Nat /\ v \in [StaticNames -> Int]
  OBVIOUS
<1>2. <<1, vals>> \in Good
  OBVIOUS
<1>3. ASSUME NEW e, IsVmeEntry(e), NEW a, a.num \in Int, NEW v, v \in [StaticNames -> Int]
      PROVE  Load(e, a, v) \in [StaticNames -> Int]
  <2>1. CASE e.routine = "load_constant"
    <3>1. Load(e, a, v) = [v EXCEPT ![e.var] = a.num]
      BY <2>1, Zenon DEF Load
    <3> QED
      BY ONLY <1>3, <3>1
  <2>2. CASE e.routine = "load_enum" /\ e.value \in {0, 1}
    <3>1. Load(e, a, v) = [v EXCEPT ![e.var] = e.value]
      BY <2>2 DEF Load
    <3>2. e.value \in Int
      BY <2>2
    <3> QED
      BY ONLY <1>3, <3>1, <3>2
  <2> QED
    BY <1>3, <2>1, <2>2, Zenon DEF IsVmeEntry
<1>4. \A i \in 1..Len(args) : i + 2 \in Nat
  OBVIOUS
<1>5. \A i \in 1..Len(args) : args[i].num \in Int
  BY TokenIs, Zenon
<1> HIDE DEF Good
<1>6. \A e \in Entries(VmeTable) : e.arg # ""
  BY VmeEntries, Zenon DEF IsVmeEntry
<1>7. \A e \in Entries(VmeTable) : \A i \in 1..Len(args) : \A v :
           (v \in [StaticNames -> Int] /\ <<i, v>> \in Good /\ i + 1 \in 1..Len(args)
            /\ Matches(e, args, i) /\ Accepts(e, args[i + 1])) =>
             /\ <<i + 2, Load(e, args[i + 1], v)>> \in Good
             /\ Load(e, args[i + 1], v) \in [StaticNames -> Int]
  BY <1>1, <1>3, <1>4, <1>5, VmeEntries, Zenon
<1> QED
  BY <1>2, <1>6, <1>7, VmeEntries, ParseKeeps, Zenon

LEMMA PageParseTyped ==
  ASSUME NEW args, args \in Seq(Token), NEW vals, vals \in [StaticNames -> Int]
  PROVE  /\ Parse(PageTable, args, vals).vals \in [StaticNames -> Int]
         /\ Parse(PageTable, args, vals).vals["base"] = vals["base"]
         /\ Parse(PageTable, args, vals).vals["space"] = vals["space"]
<1> DEFINE Kept(v) == v["base"] = vals["base"] /\ v["space"] = vals["space"]
           Good    == {p \in Nat \X [StaticNames -> Int] : Kept(p[2])}
<1>1. \A i, v : <<i, v>> \in Good <=> i \in Nat /\ v \in [StaticNames -> Int] /\ Kept(v)
  OBVIOUS
<1>2. <<1, vals>> \in Good
  OBVIOUS
<1>3. ASSUME NEW e, IsPageEntry(e), NEW a, a.num \in Int, NEW v, v \in [StaticNames -> Int], Kept(v)
      PROVE  Load(e, a, v) \in [StaticNames -> Int] /\ Kept(Load(e, a, v))
  <2>1. CASE e.routine = "load_constant" /\ e.var \in PageNames
    <3>1. Load(e, a, v) = [v EXCEPT ![e.var] = a.num]
      BY <2>1, Zenon DEF Load
    <3>2. e.var \in StaticNames \ {"base", "space"}
      BY ONLY <2>1 DEF PageNames, StaticNames
    <3> QED
      BY ONLY <1>3, <3>1, <3>2 DEF StaticNames
  <2>2. CASE e.routine = "load_enum" /\ e.var = "online" /\ e.value = 1
    <3>1. Load(e, a, v) = [v EXCEPT !["online"] = 1]
      BY <2>2 DEF Load
    <3> QED
      BY ONLY <1>3, <3>1 DEF StaticNames
  <2>3. CASE e.routine = "noop"
    <3>1. Load(e, a, v) = v
      BY <2>3 DEF Load
    <3> QED
      BY ONLY <1>3, <3>1
  <2> QED
    BY <1>3, <2>1, <2>2, <2>3, Zenon DEF IsPageEntry
<1>4. \A i \in 1..Len(args) : i + 2 \in Nat
  OBVIOUS
<1>5. \A i \in 1..Len(args) : args[i].num \in Int
  BY TokenIs, Zenon
<1> HIDE DEF Good, Kept
<1>6. \A e \in Entries(PageTable) : e.arg # ""
  BY PageEntries, Zenon DEF IsPageEntry
<1>7. \A e \in Entries(PageTable) : \A i \in 1..Len(args) : \A v :
           (v \in [StaticNames -> Int] /\ <<i, v>> \in Good /\ i + 1 \in 1..Len(args)
            /\ Matches(e, args, i) /\ Accepts(e, args[i + 1])) =>
             /\ <<i + 2, Load(e, args[i + 1], v)>> \in Good
             /\ Load(e, args[i + 1], v) \in [StaticNames -> Int]
  BY <1>1, <1>3, <1>4, <1>5, PageEntries, Zenon
<1>8. /\ \E i \in Nat : <<i, Parse(PageTable, args, vals).vals>> \in Good
      /\ Parse(PageTable, args, vals).vals \in [StaticNames -> Int]
  BY <1>2, <1>6, <1>7, PageEntries, ParseKeeps, Zenon
<1> QED
  BY <1>1, <1>8, Zenon DEF Kept

-----------------------------------------------------------------------------
(* The lookups.                                                              *)

\* A lookup only goes on when the output file is written.
LookInv ==
  /\ LookTypeOK
  /\ look.pc = "idle" => look = NoLook
  /\ look.pc # "idle" => stage = "done" /\ look.name \in Name

LEMMA MappedTyped ==
  ASSUME ConfigTypeOK, NEW c \in CrateNum, NEW s \in Width, NEW v, v \in [StaticNames -> Int]
  PROVE  Mapped(c, s, v) \subseteq Place \cup {NotListed}
<1>1. Opt("-a", s) \in StaticNames
  BY OptIs DEF Width, StaticNames, PageNames
<1>2. v["base"] \in Int /\ v[Opt("-a", s)] \in Int
  BY <1>1 DEF StaticNames
<1>3. ASSUME NEW q \in pages
      PROVE  [crate |-> c, space |-> q[3],
              addr |-> dev[c].region[q[3]].addr + v["base"] - v[Opt("-a", s)]] \in Place
  <2>1. q[3] \in Width
    BY DEF ConfigTypeOK
  <2>2. dev[c].region[q[3]].addr \in Int
    BY <2>1, DeviceIs, Zenon DEF ConfigTypeOK
  <2>3. dev[c].region[q[3]].addr + v["base"] - v[Opt("-a", s)] \in Int
    BY ONLY <1>2, <2>2
  <2> QED
    BY <2>1, <2>3 DEF Place
<1>4. Wild \in Place
  BY DEF Place
<1> QED
  BY <1>3, <1>4 DEF Mapped

LEMMA LookSteps ==
  ASSUME LookInv
  PROVE  /\ Len(out) \in Nat
         /\ \A k \in 1..Len(out) : out[k] \in Seq(Token)
         /\ static \in [StaticNames -> Int]
<1>1. out \in Seq(Seq(Token)) /\ static \in [StaticNames -> Int]
  BY StaticIs, Zenon DEF LookInv, LookTypeOK, ConfigTypeOK
<1> QED
  BY <1>1

LEMMA SeekDeviceTyped ==
  ASSUME LookInv, SeekDevice
  PROVE  LookInv'
<1> DEFINE line == out[look.pos]
<1>1. look.pc = "device" /\ look.pos <= Len(out) /\ UNCHANGED <<configVars, answer>>
  BY Zenon DEF SeekDevice
<1>2. look \in [pc: {"idle", "device", "repeater"}, name: Name \cup {Nothing}, pos: 1..(Len(out) + 1)]
  BY Zenon DEF LookInv, LookTypeOK
<1>3. Len(out) \in Nat /\ static \in [StaticNames -> Int]
  BY LookSteps, Zenon
<1>4. look.pos \in 1..Len(out) /\ look.pos + 1 \in 1..(Len(out) + 1) /\ 1 \in 1..(Len(out) + 1)
  BY ONLY <1>1, <1>2, <1>3
<1>5. line \in Seq(Token)
  BY <1>4, LookSteps, Zenon
<1>6. \/ /\ static' = Parse(VmeTable, Options(line), static).vals
         /\ look' = [look EXCEPT !.pc = "repeater", !.pos = 1]
      \/ look' = [look EXCEPT !.pos = @ + 1] /\ UNCHANGED static
  BY Zenon DEF SeekDevice
<1> HIDE DEF line
<1>7. static' \in [StaticNames -> Int]
  <2>1. Options(line) \in Seq(Token)
    BY <1>5, OptionsAre
  <2>2. Parse(VmeTable, Options(line), static).vals \in [StaticNames -> Int]
    BY <1>3, <2>1, VmeParseTyped
  <2>3. static' = Parse(VmeTable, Options(line), static).vals \/ static' = static
    BY <1>6
  <2> QED
    BY ONLY <1>3, <2>2, <2>3
<1>8. /\ look' \in [pc: {"idle", "device", "repeater"}, name: Name \cup {Nothing}, pos: 1..(Len(out) + 1)]
      /\ look'.pc # "idle" /\ look'.name = look.name
  BY ONLY <1>1, <1>2, <1>4, <1>6
<1>9. UNCHANGED <<world, input, stage, pos, dev, page, pages, out, answer>>
  BY <1>1, Zenon DEF configVars
<1>10. ConfigTypeOK'
  BY <1>9, Zenon DEF LookInv, LookTypeOK, ConfigTypeOK
<1> QED
  BY <1>1, <1>7, <1>8, <1>9, <1>10, StaticIs, Zenon DEF LookInv, LookTypeOK

LEMMA ReturnTyped ==
  ASSUME LookInv, UNCHANGED configVars, NEW result \in Place \cup {Nothing, NotListed, Trouble},
         Return(result), static' \in [StaticNames -> Int]
  PROVE  LookInv'
<1>1. UNCHANGED <<world, input, stage, pos, dev, page, pages, out>>
  BY Zenon DEF configVars
<1>2. ConfigTypeOK'
  BY <1>1, Zenon DEF LookInv, LookTypeOK, ConfigTypeOK
<1>3. look' = NoLook /\ answer' = result
  BY Zenon DEF Return
<1>4. Len(out) \in Nat
  BY LookSteps, Zenon
<1>5. /\ NoLook \in [pc: {"idle", "device", "repeater"}, name: Name \cup {Nothing}, pos: 1..(Len(out) + 1)]
      /\ NoLook.pc = "idle"
  BY ONLY <1>4 DEF NoLook
<1> QED
  BY <1>1, <1>2, <1>3, <1>5, StaticIs, Zenon DEF LookInv, LookTypeOK

LEMMA SeekRepeaterTyped ==
  ASSUME LookInv, SeekRepeater
  PROVE  LookInv'
<1> DEFINE line == out[look.pos]
           v    == Parse(PageTable, Options(line), static).vals
           s    == v["space"]
           places == IF s \in Width THEN Mapped(line[2].crate, s, v) ELSE {NotListed}
<1>1. look.pc = "repeater" /\ look.pos <= Len(out) /\ UNCHANGED configVars
  BY Zenon DEF SeekRepeater
<1>2. look \in [pc: {"idle", "device", "repeater"}, name: Name \cup {Nothing}, pos: 1..(Len(out) + 1)]
  BY Zenon DEF LookInv, LookTypeOK
<1>3. Len(out) \in Nat /\ static \in [StaticNames -> Int]
  BY LookSteps, Zenon
<1>4. look.pos \in 1..Len(out) /\ look.pos + 1 \in 1..(Len(out) + 1)
  BY ONLY <1>1, <1>2, <1>3
<1>5. line \in Seq(Token)
  BY <1>4, LookSteps, Zenon
<1>6. v \in [StaticNames -> Int]
  BY <1>3, <1>5, OptionsAre, PageParseTyped, Zenon
<1>7. \/ static' = v /\ Return(Trouble)
      \/ /\ static' = v /\ line[2].crate \in world.crates
         /\ \E place \in places :
              \/ Return(place)
              \/ look' = [look EXCEPT !.pos = @ + 1] /\ UNCHANGED answer
      \/ /\ static' \in {v, static}
         /\ look' = [look EXCEPT !.pos = @ + 1] /\ UNCHANGED answer
  BY Zenon DEF SeekRepeater
<1> HIDE DEF line, v
<1>8. line[2].crate \in world.crates => places \subseteq Place \cup {NotListed}
  <2>1. line[2].crate \in world.crates => line[2].crate \in CrateNum
    BY ConfigAssumption, Zenon DEF LookInv, LookTypeOK, ConfigTypeOK
  <2>2. ConfigTypeOK
    BY Zenon DEF LookInv, LookTypeOK
  <2>3. line[2].crate \in world.crates /\ s \in Width =>
          Mapped(line[2].crate, s, v) \subseteq Place \cup {NotListed}
    BY <1>6, <2>1, <2>2, MappedTyped, Zenon
  <2> HIDE DEF s
  <2> QED
    BY <2>3
<1>9. CASE /\ static' \in [StaticNames -> Int] /\ look' = [look EXCEPT !.pos = @ + 1]
           /\ UNCHANGED answer
  <2>1. /\ look' \in [pc: {"idle", "device", "repeater"}, name: Name \cup {Nothing}, pos: 1..(Len(out) + 1)]
        /\ look'.pc # "idle" /\ look'.name = look.name
    BY ONLY <1>1, <1>2, <1>4, <1>9
  <2>2. UNCHANGED <<world, input, stage, pos, dev, page, pages, out>>
    BY <1>1, Zenon DEF configVars
  <2>3. ConfigTypeOK'
    BY <2>2, Zenon DEF LookInv, LookTypeOK, ConfigTypeOK
  <2> QED
    BY <1>1, <1>9, <2>1, <2>2, <2>3, StaticIs, Zenon DEF LookInv, LookTypeOK
<1>10. ASSUME NEW result \in Place \cup {Nothing, NotListed, Trouble}, Return(result),
              static' \in [StaticNames -> Int]
       PROVE  LookInv'
  BY <1>1, <1>10, ReturnTyped
<1> HIDE DEF places
<1>11. CASE static' = v /\ Return(Trouble)
  BY <1>6, <1>10, <1>11
<1>12. CASE /\ static' = v /\ line[2].crate \in world.crates
            /\ \E place \in places :
                 \/ Return(place)
                 \/ look' = [look EXCEPT !.pos = @ + 1] /\ UNCHANGED answer
  BY <1>6, <1>8, <1>9, <1>10, <1>12
<1>13. CASE /\ static' \in {v, static}
            /\ look' = [look EXCEPT !.pos = @ + 1] /\ UNCHANGED answer
  BY <1>3, <1>6, <1>9, <1>13
<1> QED
  BY <1>7, <1>11, <1>12, <1>13

LEMMA LookNextTyped ==
  ASSUME LookInv, LookupNext \/ UNCHANGED allVars
  PROVE  LookInv'
<1>0. LookTypeOK /\ ConfigTypeOK
  BY Zenon DEF LookInv, LookTypeOK
<1>1. CASE (ConfigNext \/ UNCHANGED configVars) /\ UNCHANGED lookVars
  <2>1. ConfigTypeOK'
    BY <1>0, <1>1, ConfigNextTyped, Zenon
  <2>2. UNCHANGED <<look, static, answer>>
    BY <1>1, Zenon DEF lookVars
  <2>3. CASE UNCHANGED <<out, stage>>
    BY <2>1, <2>2, <2>3, Zenon DEF LookInv, LookTypeOK
  <2>4. CASE stage # "done"
    <3>1. look = NoLook /\ look.pc = "idle"
      BY <2>4, Zenon DEF LookInv
    <3>2. out' \in Seq(Seq(Token))
      BY <2>1, Zenon DEF ConfigTypeOK
    <3>3. Len(out') \in Nat
      BY ONLY <3>2
    <3>4. NoLook \in [pc: {"idle", "device", "repeater"}, name: Name \cup {Nothing}, pos: 1..(Len(out') + 1)]
      BY ONLY <3>3 DEF NoLook
    <3> QED
      BY <2>1, <2>2, <3>1, <3>4, Zenon DEF LookInv, LookTypeOK
  <2>5. stage = "done" => UNCHANGED <<out, stage>>
    <3>1. CASE UNCHANGED configVars
      BY <3>1, Zenon DEF configVars
    <3>2. CASE ConfigNext
      <4>1. stage \in {"command", "lines"}
        BY <1>0, <3>2, ConfigSteps, ReadLineCases
      <4> QED
        BY <4>1
    <3> QED
      BY <1>1, <3>1, <3>2
  <2> QED
    BY <2>3, <2>4, <2>5
<1>2. ASSUME NEW name \in Name, Ask(name) PROVE LookInv'
  <2>1. /\ stage = "done" /\ look' = [pc |-> "device", name |-> name, pos |-> 1]
        /\ answer' = Nothing /\ UNCHANGED static
        /\ UNCHANGED <<world, input, stage, pos, dev, page, pages, out>>
    BY <1>2, Zenon DEF Ask, configVars
  <2>2. Len(out) \in Nat
    BY LookSteps, Zenon
  <2>3. /\ look' \in [pc: {"idle", "device", "repeater"}, name: Name \cup {Nothing}, pos: 1..(Len(out) + 1)]
        /\ look'.pc # "idle" /\ look'.name \in Name
    BY ONLY <2>1, <2>2, name \in Name
  <2>4. ConfigTypeOK'
    BY <1>0, <2>1, Zenon DEF ConfigTypeOK
  <2> QED
    BY <2>1, <2>3, <2>4, Zenon DEF LookInv, LookTypeOK
<1>3. CASE FileMissing
  <2>1. Return(Trouble) /\ UNCHANGED <<configVars, static>>
    BY <1>3, Zenon DEF FileMissing
  <2>2. static' \in [StaticNames -> Int] /\ UNCHANGED configVars
    BY <2>1, LookSteps, Zenon
  <2> QED
    BY <2>1, <2>2, ReturnTyped
<1>4. CASE NotFound
  <2>1. Return(NotListed) /\ UNCHANGED <<configVars, static>>
    BY <1>4, Zenon DEF NotFound
  <2>2. static' \in [StaticNames -> Int] /\ UNCHANGED configVars
    BY <2>1, LookSteps, Zenon
  <2> QED
    BY <2>1, <2>2, ReturnTyped
<1>5. CASE Restart
  <2>1. static' = Static0 /\ look' = NoLook /\ answer' = Nothing /\ UNCHANGED configVars
    BY <1>5, Zenon DEF Restart
  <2>2. static' \in [StaticNames -> Int] /\ Return(Nothing)
    BY <2>1, StaticIs, Zenon DEF Return
  <2> QED
    BY <2>1, <2>2, ReturnTyped
<1> QED
  BY <1>1, <1>2, <1>3, <1>4, <1>5, SeekDeviceTyped, SeekRepeaterTyped, Zenon
     DEF LookupNext, Lookup, allVars

LEMMA LookInitTyped == ASSUME LookupInit PROVE LookInv
<1>1. ConfigTypeOK /\ out = << >> /\ look = NoLook /\ static = Static0 /\ answer = Nothing
  BY ConfigInitTyped, Zenon DEF LookupInit, LookInit, ConfigInit
<1>2. /\ NoLook \in [pc: {"idle", "device", "repeater"}, name: Name \cup {Nothing}, pos: 1..(Len(out) + 1)]
      /\ NoLook.pc = "idle"
  BY ONLY <1>1 DEF NoLook
<1> QED
  BY <1>1, <1>2, StaticIs, Zenon DEF LookInv, LookTypeOK

\* The boards, pages and lines of v120_config and the position and variables of
\* get_vaddr_for_device() stay in range, whatever lines the input file has and
\* whichever calls fail; so no two regions of a crate share a page.
THEOREM LookTyped == LookupSpec => []LookTypeOK
<1>1. LookupInit => LookInv
  BY LookInitTyped
<1>2. LookInv /\ [LookupNext]_allVars => LookInv'
  BY LookNextTyped, Zenon
<1>3. LookInv => LookTypeOK
  BY Zenon DEF LookInv
<1> QED
  BY <1>1, <1>2, <1>3, PTL DEF LookupSpec

-----------------------------------------------------------------------------
(* The lines of the output file.                                             *)

\* A repeater line of the input file has been read for the crate.
Seen(c) ==
  \E k \in DOMAIN input :
    k < pos /\ IsRepeater(input[k]) /\ Len(input[k]) >= 2 /\ input[k][2].crate = c

Allotted(c) == \A s \in Width : dev[c].region[s].addr # 0 => dev[c].start[s] # NoPage

\* A repeater line tells how the crate is set up, and nothing changes that.
RepeaterOut(l) ==
  \E c \in CrateNum, setUp \in BOOLEAN :
    l = RepeaterLine(c, setUp, dev[c]) /\ Seen(c) /\ (setUp => Allotted(c))

\* What was found at an address was found in the crate as it is.
Checked(c, base, s, b) ==
  /\ dev[c].online /\ s \in AddrSpace(dev[c], base)
  /\ \E found \in Probed(c, s, base) \ {"fault"} : b <=> found = "board"

DeviceOut(l) ==
  \E base \in Nat \ {0}, s \in Width \cup {Off, Bad}, b \in BOOLEAN :
    /\ l = DeviceLine(l, base, s, b) /\ IsDevice(l) /\ l[2].crate \in CrateNum
    /\ s # Off => Checked(l[2].crate, base, s, b)

OutInv ==
  /\ ProperInput(input)
  /\ \A c \in CrateNum : dev[c].online => Seen(c)
  /\ \A k \in 1..Len(out) : RepeaterOut(out[k]) \/ DeviceOut(out[k])
  /\ \A j, k \in 1..Len(out) :
       IsRepeater(out[j]) /\ IsRepeater(out[k]) /\ out[j][2] = out[k][2] => j = k

LEMMA RepeaterLineIs ==
  ASSUME NEW d, d \in Device, NEW c, c \in Int, NEW setUp, setUp \in BOOLEAN
  PROVE  /\ Len(RepeaterLine(c, setUp, d)) \in Nat /\ Len(RepeaterLine(c, setUp, d)) >= 4
         /\ RepeaterLine(c, setUp, d)[1] = Word("repeater")
         /\ RepeaterLine(c, setUp, d)[2] = Dev("v120", c, -1)
         /\ Options(RepeaterLine(c, setUp, d)) = AllWords(c, setUp, d) \o <<Word("-o"), Truth(d.online)>>
         /\ IsRepeater(RepeaterLine(c, setUp, d)) /\ ~ IsDevice(RepeaterLine(c, setUp, d))
<1> DEFINE A     == AllWords(c, setUp, d)
           First == <<Word("repeater"), Dev("v120", c, -1)>>
           Final == <<Word("-o"), Truth(d.online)>>
           L     == RepeaterLine(c, setUp, d)
<1>1. A \in Seq(Token) /\ L = (First \o A) \o Final
  BY RepeaterLineTyped
<1>2. /\ Len(First) = 2 /\ First[1] = Word("repeater") /\ First[2] = Dev("v120", c, -1)
      /\ Len(Final) = 2
  OBVIOUS
<1>3. First \in Seq(Token) /\ Final \in Seq(Token)
  <2>1. /\ Word("repeater") \in Token /\ Dev("v120", c, -1) \in Token /\ Word("-o") \in Token
        /\ Truth(d.online) \in Token
    <3>1. -1 \in Int
      OBVIOUS
    <3> QED
      BY <3>1, Tokens, WordsAre, TruthTyped, Zenon
  <2> QED
    BY <2>1
<1> HIDE DEF A, First, Final, L
<1>4. /\ Len(L) = 4 + Len(A) /\ Len(A) \in Nat /\ L[1] = First[1] /\ L[2] = First[2]
      /\ SubSeq(L, 3, Len(L)) = A \o Final
  <2> DEFINE FA == First \o A
             S  == SubSeq(L, 3, Len(L))
             AF == A \o Final
  <2>1. /\ FA \in Seq(Token) /\ Len(FA) = 2 + Len(A) /\ Len(A) \in Nat
        /\ \A i \in 1..Len(FA) : FA[i] = IF i <= 2 THEN First[i] ELSE A[i - 2]
    <3>1. /\ First \o A \in Seq(Token) /\ Len(First \o A) = Len(First) + Len(A)
          /\ \A i \in 1..(Len(First) + Len(A)) :
               (First \o A)[i] = IF i <= Len(First) THEN First[i] ELSE A[i - Len(First)]
      BY <1>1, <1>3, Concat, Zenon
    <3>2. Len(A) \in Nat
      BY ONLY <1>1
    <3> QED
      BY <1>2, <3>1, <3>2, Zenon DEF FA
  <2>2. /\ AF \in Seq(Token) /\ Len(AF) = Len(A) + 2
        /\ \A i \in 1..Len(AF) : AF[i] = IF i <= Len(A) THEN A[i] ELSE Final[i - Len(A)]
    <3>1. /\ A \o Final \in Seq(Token) /\ Len(A \o Final) = Len(A) + Len(Final)
          /\ \A i \in 1..(Len(A) + Len(Final)) :
               (A \o Final)[i] = IF i <= Len(A) THEN A[i] ELSE Final[i - Len(A)]
      BY <1>1, <1>3, Concat, Zenon
    <3> QED
      BY <1>2, <3>1, Zenon DEF AF
  <2>3. L = FA \o Final
    BY <1>1
  <2> HIDE DEF FA, AF
  <2>4. /\ L \in Seq(Token) /\ Len(L) = 4 + Len(A)
        /\ \A i \in 1..Len(L) : L[i] = IF i <= Len(FA) THEN FA[i] ELSE Final[i - Len(FA)]
    <3>1. /\ FA \o Final \in Seq(Token) /\ Len(FA \o Final) = Len(FA) + Len(Final)
          /\ \A i \in 1..(Len(FA) + Len(Final)) :
               (FA \o Final)[i] = IF i <= Len(FA) THEN FA[i] ELSE Final[i - Len(FA)]
      BY <1>3, <2>1, Concat, Zenon
    <3>2. Len(FA) + Len(Final) = 4 + Len(A)
      BY ONLY <1>2, <2>1
    <3> QED
      BY <2>3, <3>1, <3>2, Zenon
  <2>5. L[1] = First[1] /\ L[2] = First[2]
    BY ONLY <2>1, <2>4
  <2>6. /\ S \in Seq(Token) /\ Len(S) = Len(L) - 2
        /\ \A i \in 1..Len(S) : S[i] = L[i + 2]
    BY ONLY <2>1, <2>4
  <2> HIDE DEF S
  <2>7. ASSUME NEW i \in 1..Len(S) PROVE S[i] = AF[i]
    <3>1. i \in Nat /\ i >= 1 /\ i <= Len(A) + 2
      BY ONLY <2>1, <2>4, <2>6, i \in 1..Len(S)
    <3>2. S[i] = IF i + 2 <= 2 + Len(A) THEN FA[i + 2] ELSE Final[i - Len(A)]
      <4>1. i + 2 \in 1..Len(L) /\ i + 2 - (2 + Len(A)) = i - Len(A)
        BY ONLY <2>1, <2>4, <3>1
      <4> QED
        BY <2>1, <2>4, <2>6, <4>1
    <3>3. CASE i <= Len(A)
      <4>1. i + 2 <= 2 + Len(A) /\ i + 2 \in 1..Len(FA) /\ ~ (i + 2 <= 2) /\ (i + 2) - 2 = i
        BY ONLY <2>1, <3>1, <3>3
      <4>2. i \in 1..Len(AF)
        BY ONLY <2>1, <2>2, <3>1
      <4> QED
        BY ONLY <2>1, <2>2, <3>2, <3>3, <4>1, <4>2
    <3>4. CASE ~ (i <= Len(A))
      <4>1. ~ (i + 2 <= 2 + Len(A)) /\ i \in 1..Len(AF)
        BY ONLY <2>1, <2>2, <3>1, <3>4
      <4> QED
        BY ONLY <2>2, <3>2, <3>4, <4>1
    <3> QED
      BY <3>3, <3>4
  <2>8. Len(S) = Len(AF)
    BY ONLY <2>1, <2>2, <2>4, <2>6
  <2>9. S = AF
    BY ONLY <2>2, <2>6, <2>7, <2>8
  <2> QED
    BY <2>1, <2>4, <2>5, <2>9 DEF S, AF
<1>5. Len(L) \in Nat /\ Len(L) >= 4
  BY ONLY <1>4
<1>6. L # << >> /\ L[1].word = "repeater"
  <2>1. L # << >>
    BY ONLY <1>5
  <2>2. L[1].word = "repeater"
    BY ONLY <1>2, <1>4 DEF Word
  <2> QED
    BY <2>1, <2>2
<1>7. IsRepeater(L) /\ ~ IsDevice(L)
  BY <1>6 DEF IsRepeater, IsDevice, FirstWord
<1> QED
  BY <1>2, <1>4, <1>5, <1>7, Zenon DEF A, Final, L, Options

LEMMA RepeaterLineSame ==
  ASSUME NEW d, NEW e, e.online = d.online, e.region = d.region, e.start = d.start, NEW c, NEW setUp
  PROVE  RepeaterLine(c, setUp, e) = RepeaterLine(c, setUp, d)
<1>1. \A s : RegionWords(c, s, setUp, e) = RegionWords(c, s, setUp, d)
  BY Zenon DEF RegionWords
<1> QED
  BY <1>1, Zenon DEF RepeaterLine

LEMMA DeviceLineIs ==
  ASSUME NEW line, NEW base, NEW s, NEW b
  PROVE  /\ Len(DeviceLine(line, base, s, b)) = 8
         /\ DeviceLine(line, base, s, b)[1] = line[1] /\ DeviceLine(line, base, s, b)[2] = line[2]
         /\ DeviceLine(line, base, s, b)[3] = Word("-base")
         /\ DeviceLine(line, base, s, b)[4] = Number(base)
         /\ DeviceLine(line, base, s, b)[5] = Word("-a")
         /\ DeviceLine(line, base, s, b)[6] = Number(s)
         /\ DeviceLine(line, base, s, b)[7] = Word("-o")
         /\ DeviceLine(line, base, s, b)[8] = Truth(b)
BY DEF DeviceLine

\* A vmedevice line says what it was written to say.
LEMMA DeviceSays ==
  ASSUME NEW l, NEW base, NEW s, NEW b, l = DeviceLine(l, base, s, b)
  PROVE  /\ Says(l, "-base") = Number(base) /\ Says(l, "-a") = Number(s) /\ Says(l, "-o") = Truth(b)
<1>1. /\ Len(l) = 8 /\ l[3] = Word("-base") /\ l[4] = Number(base) /\ l[5] = Word("-a")
      /\ l[6] = Number(s) /\ l[7] = Word("-o") /\ l[8] = Truth(b)
  <2> DEFINE m == DeviceLine(l, base, s, b)
  <2>1. /\ Len(m) = 8 /\ m[3] = Word("-base") /\ m[4] = Number(base) /\ m[5] = Word("-a")
        /\ m[6] = Number(s) /\ m[7] = Word("-o") /\ m[8] = Truth(b)
    BY ONLY DeviceLineIs DEF m
  <2>2. l = m
    OBVIOUS
  <2> HIDE DEF m
  <2> QED
    BY ONLY <2>1, <2>2
<1>2. /\ l[3].word = "-base" /\ l[4].word = "number" /\ l[5].word = "-a" /\ l[6].word = "number"
      /\ l[7].word = "-o"
  BY ONLY <1>1 DEF Word, Number
<1>3. \A k : k \in 3..(Len(l) - 1) <=> k = 3 \/ k = 4 \/ k = 5 \/ k = 6 \/ k = 7
  BY ONLY <1>1
<1>4. /\ (CHOOSE k \in 3..(Len(l) - 1) : l[k].word = "-base") = 3
      /\ (CHOOSE k \in 3..(Len(l) - 1) : l[k].word = "-a") = 5
      /\ (CHOOSE k \in 3..(Len(l) - 1) : l[k].word = "-o") = 7
  BY ONLY <1>2, <1>3
<1>5. 1 + 3 = 4 /\ 1 + 5 = 6 /\ 1 + 7 = 8
  OBVIOUS
<1> QED
  BY <1>1, <1>4, <1>5, Zenon DEF Says

\* What is found depends on the crate, and not on its number of boards.
LEMMA CheckedSame ==
  ASSUME NEW c, UNCHANGED world, dev'[c].online = dev[c].online, dev'[c].regs = dev[c].regs,
         dev'[c].region = dev[c].region, dev'[c].start = dev[c].start,
         NEW base, NEW s, NEW b, Checked(c, base, s, b)
  PROVE  Checked(c, base, s, b)'
<1>1. AddrSpace(dev'[c], base) = AddrSpace(dev[c], base)
  BY Zenon DEF AddrSpace, In
<1>2. Probed(c, s, base)' = Probed(c, s, base)
  BY Zenon DEF Probed, Inside, At
<1> QED
  BY <1>1, <1>2, Zenon DEF Checked

LEMMA SeenStays ==
  ASSUME ConfigTypeOK, NEW c, pos' = pos + 1, UNCHANGED input, Seen(c)
  PROVE  Seen(c)'
<1>1. PICK k \in DOMAIN input :
        k < pos /\ IsRepeater(input[k]) /\ Len(input[k]) >= 2 /\ input[k][2].crate = c
  BY Zenon DEF Seen
<1>2. k \in Int /\ pos \in Int
  <2>1. pos \in 1..(Len(input) + 1) /\ k \in 1..Len(input)
    BY InputLine, Zenon DEF ConfigTypeOK
  <2> QED
    BY ONLY <2>1
<1>3. k < pos'
  BY ONLY <1>1, <1>2, pos' = pos + 1
<1> QED
  BY <1>1, <1>3, Zenon DEF Seen

\* The lines written so far hold for every crate that is as it was, and for a
\* crate that was offline.
LEMMA OutSame ==
  ASSUME ConfigTypeOK, OutInv, UNCHANGED <<world, input>>, pos' = pos + 1,
         NEW c \in CrateNum,
         \A a \in CrateNum : a # c => dev'[a] = dev[a],
         \/ ~ Seen(c)
         \/ /\ dev'[c].online = dev[c].online /\ dev'[c].regs = dev[c].regs
            /\ dev'[c].region = dev[c].region /\ dev'[c].start = dev[c].start,
         NEW l, RepeaterOut(l) \/ DeviceOut(l)
  PROVE  (RepeaterOut(l) \/ DeviceOut(l))'
<1>2. ASSUME NEW a \in CrateNum, a # c \/ Seen(c)
      PROVE  /\ dev'[a].online = dev[a].online /\ dev'[a].regs = dev[a].regs
             /\ dev'[a].region = dev[a].region /\ dev'[a].start = dev[a].start
  <2>1. CASE a # c
    <3>1. dev'[a] = dev[a]
      BY <2>1
    <3> QED
      BY <3>1, Zenon
  <2>2. CASE a = c
    BY <1>2, <2>2, Zenon
  <2> QED
    BY <2>1, <2>2
<1>3. CASE RepeaterOut(l)
  <2>1. PICK a \in CrateNum, setUp \in BOOLEAN :
          l = RepeaterLine(a, setUp, dev[a]) /\ Seen(a) /\ (setUp => Allotted(a))
    BY <1>3, Zenon DEF RepeaterOut
  <2>2. /\ dev'[a].online = dev[a].online /\ dev'[a].regs = dev[a].regs
        /\ dev'[a].region = dev[a].region /\ dev'[a].start = dev[a].start
    <3>1. a # c \/ Seen(c)
      BY <2>1, Zenon
    <3> QED
      BY <1>2, <3>1, Zenon
  <2>3. RepeaterLine(a, setUp, dev'[a]) = RepeaterLine(a, setUp, dev[a])
    BY ONLY <2>2, RepeaterLineSame
  <2>4. Seen(a)' /\ (setUp => Allotted(a)')
    BY <2>1, <2>2, SeenStays, Zenon DEF Allotted
  <2> QED
    BY <2>1, <2>3, <2>4, Zenon DEF RepeaterOut
<1>4. CASE DeviceOut(l)
  <2>1. PICK base \in Nat \ {0}, s \in Width \cup {Off, Bad}, b \in BOOLEAN :
          /\ l = DeviceLine(l, base, s, b) /\ IsDevice(l) /\ l[2].crate \in CrateNum
          /\ s # Off => Checked(l[2].crate, base, s, b)
    BY <1>4, Zenon DEF DeviceOut
  <2> DEFINE a == l[2].crate
  <2>2. ASSUME s # Off PROVE Checked(a, base, s, b)'
    <3>1. Checked(a, base, s, b)
      BY <2>1, <2>2
    <3>2. dev[a].online /\ Seen(a)
      BY <2>1, <3>1, Zenon DEF Checked, OutInv
    <3> HIDE DEF a
    <3>3. a # c \/ Seen(c)
      BY <3>2, Zenon
    <3>4. a \in CrateNum
      BY <2>1 DEF a
    <3>5. /\ dev'[a].online = dev[a].online /\ dev'[a].regs = dev[a].regs
          /\ dev'[a].region = dev[a].region /\ dev'[a].start = dev[a].start
      BY <1>2, <3>3, <3>4, Zenon
    <3> QED
      BY ONLY <3>1, <3>5, CheckedSame, UNCHANGED <<world, input>>
  <2> QED
    BY <2>1, <2>2, Zenon DEF DeviceOut
<1> QED
  BY <1>3, <1>4

LEMMA AppendIs ==
  ASSUME NEW S, NEW q, q \in Seq(S), NEW x, x \in S
  PROVE  /\ Len(Append(q, x)) = Len(q) + 1
         /\ \A k \in 1..Len(q) : Append(q, x)[k] = q[k]
         /\ Append(q, x)[Len(q) + 1] = x
         /\ \A k \in 1..(Len(q) + 1) : k \in 1..Len(q) \/ k = Len(q) + 1
         /\ Len(q) \in Nat
OBVIOUS

LEMMA RepeaterLedKeeps ==
  ASSUME ConfigTypeOK, OutInv, ReadLine, IsRepeater(input[pos]), RepeaterLed(input[pos])
  PROVE  OutInv'
<1>0. PICK line : line = input[pos]
  OBVIOUS
<1>1. /\ pos \in DOMAIN input /\ pos' = pos + 1 /\ UNCHANGED <<world, input>>
      /\ pos < pos'
  <2>1. pos \in DOMAIN input /\ pos' = pos + 1 /\ UNCHANGED <<world, input>>
    BY ReadLineCases, Zenon
  <2>2. pos \in 1..Len(input)
    BY <2>1, InputLine, Zenon
  <2> QED
    BY ONLY <2>1, <2>2
<1>2. PICK c \in CrateNum, region \in RegionMap :
        /\ OnlyFirst("repeater", line) => Len(line) >= 2 /\ c = line[2].crate
        /\ \E d, k, setUp : Becomes(c, region, d, k, setUp)
  BY <1>0, Zenon DEF RepeaterLed
<1>3. Len(line) >= 2 /\ c = line[2].crate
  BY <1>0, <1>1, <1>2, Zenon DEF OutInv, ProperInput
<1>4. ~ Seen(c)
  <2>1. ASSUME NEW k \in DOMAIN input, k < pos, IsRepeater(input[k]), Len(input[k]) >= 2,
               input[k][2].crate = c
        PROVE  FALSE
    <3>1. k = pos
      BY <1>0, <1>1, <1>3, <2>1, Zenon DEF OutInv, ProperInput
    <3>2. pos \in Int
      BY DEF ConfigTypeOK
    <3> QED
      BY ONLY <2>1, <3>1, <3>2
  <2> QED
    BY <2>1, Zenon DEF Seen
<1>5. Seen(c)'
  <2>1. IsRepeater(line) /\ Len(line) >= 2 /\ line[2].crate = c /\ input'[pos] = line /\ pos \in DOMAIN input'
    BY <1>0, <1>1, <1>3, Zenon
  <2> QED
    BY <1>1, <2>1, Zenon DEF Seen
<1>6. PICK d, k, setUp : Becomes(c, region, d, k, setUp)
  BY <1>2, Zenon
<1>7. /\ d \in Device /\ setUp \in BOOLEAN /\ d.region = region
      /\ setUp => d.start = PageMap(region, 3)
      /\ dev' = [dev EXCEPT ![c] = d]
      /\ out' = Append(out, RepeaterLine(c, setUp, d))
  BY <1>6, Zenon DEF Becomes
<1>8. /\ dev'[c] = d /\ \A a \in CrateNum : a # c => dev'[a] = dev[a]
  BY <1>7 DEF ConfigTypeOK
<1>9. setUp => Allotted(c)'
  <2>1. FirstPage \in Nat
    BY DEF ConfigTypeOK, FirstPage
  <2>2. ASSUME setUp, NEW s \in Width, d.region[s].addr # 0 PROVE d.start[s] # NoPage
    <3>1. s \in Added(region, 3)
      BY <1>7, <2>2, AddedIs, Zenon
    <3>2. 3 \in 1..3
      OBVIOUS
    <3>3. PageOf(region, FirstPage, 3, s) \in Nat
      BY <2>1, <3>1, <3>2, PageBounds
    <3>4. d.start[s] = PageOf(region, FirstPage, 3, s)
      BY <1>7, <2>2 DEF PageMap
    <3> QED
      BY <3>3, <3>4, NoPageIs
  <2> QED
    BY <1>8, <2>2, Zenon DEF Allotted
<1>9a. PICK new : new = RepeaterLine(c, setUp, d)
  OBVIOUS
<1>10. RepeaterOut(new)'
  BY <1>5, <1>7, <1>8, <1>9, <1>9a, Zenon DEF RepeaterOut
<1>11. new \in Seq(Token) /\ new[2] = Dev("v120", c, -1)
  BY <1>7, <1>9a, CrateInt, RepeaterLineIs, RepeaterLineTyped
<1>12. /\ Len(out') = Len(out) + 1 /\ out'[Len(out) + 1] = new
       /\ \A i \in 1..Len(out) : out'[i] = out[i]
       /\ \A i \in 1..Len(out') : i \in 1..Len(out) \/ i = Len(out) + 1
  <2>1. out \in Seq(Seq(Token)) /\ out' = Append(out, new)
    BY <1>7, <1>9a DEF ConfigTypeOK
  <2>2. /\ Len(Append(out, new)) = Len(out) + 1
        /\ \A i \in 1..Len(out) : Append(out, new)[i] = out[i]
        /\ Append(out, new)[Len(out) + 1] = new
        /\ \A i \in 1..(Len(out) + 1) : i \in 1..Len(out) \/ i = Len(out) + 1
    BY ONLY <1>11, <2>1, AppendIs
  <2> QED
    BY <2>1, <2>2, Zenon
<1>13. \A i \in 1..Len(out') : (RepeaterOut(out[i]) \/ DeviceOut(out[i]))'
  <2>1. ASSUME NEW i \in 1..Len(out) PROVE (RepeaterOut(out[i]) \/ DeviceOut(out[i]))'
    <3>0. PICK l : l = out[i]
      OBVIOUS
    <3>1. RepeaterOut(l) \/ DeviceOut(l)
      BY <3>0, Zenon DEF OutInv
    <3>2. (RepeaterOut(l) \/ DeviceOut(l))'
      BY <1>1, <1>4, <1>8, <3>1, OutSame, Zenon
    <3> QED
      BY <1>12, <3>0, <3>2, Zenon
  <2> QED
    BY <1>10, <1>12, <2>1, Zenon
<1>14. \A a \in CrateNum : dev'[a].online => Seen(a)'
  BY <1>1, <1>5, <1>8, SeenStays, Zenon DEF OutInv
<1>15. ASSUME NEW i \in 1..Len(out), IsRepeater(out[i]) PROVE out[i][2] # new[2]
  <2>1. ~ DeviceOut(out[i])
    BY <1>15 DEF DeviceOut, IsDevice, IsRepeater
  <2>2. PICK a \in CrateNum, up \in BOOLEAN : out[i] = RepeaterLine(a, up, dev[a]) /\ Seen(a)
    BY <2>1, Zenon DEF OutInv, RepeaterOut
  <2>3. out[i][2] = Dev("v120", a, -1)
    <3>1. dev[a] \in Device /\ a \in Int
      BY CrateInt DEF ConfigTypeOK
    <3> QED
      <4>1. RepeaterLine(a, up, dev[a])[2] = Dev("v120", a, -1)
        BY <3>1, RepeaterLineIs, Zenon
      <4> QED
        BY ONLY <2>2, <4>1
  <2>4. a # c
    BY <1>4, <2>2, Zenon
  <2> QED
    BY ONLY <1>11, <2>3, <2>4 DEF Dev
<1>16. \A i, j \in 1..Len(out') :
         IsRepeater(out'[i]) /\ IsRepeater(out'[j]) /\ out'[i][2] = out'[j][2] => i = j
  BY <1>12, <1>15, Zenon DEF OutInv
<1> QED
  BY <1>1, <1>13, <1>14, <1>16, Zenon DEF OutInv

LEMMA DeviceLedKeeps ==
  ASSUME ConfigTypeOK, OutInv, ReadLine, IsDevice(input[pos]), DeviceLed(input[pos])
  PROVE  OutInv'
<1>0. PICK line : line = input[pos]
  OBVIOUS
<1>1. /\ pos \in DOMAIN input /\ pos' = pos + 1 /\ UNCHANGED <<world, input>>
      /\ pos < pos'
  <2>1. pos \in DOMAIN input /\ pos' = pos + 1 /\ UNCHANGED <<world, input>>
    BY ReadLineCases, Zenon
  <2>2. pos \in 1..Len(input)
    BY <2>1, InputLine, Zenon
  <2> QED
    BY ONLY <2>1, <2>2
<1>2. line \in Seq(Token)
  BY <1>0, <1>1, InputLine, Zenon
<1>3. Len(line) >= 2 /\ UNCHANGED <<stage, page, pages>>
  BY <1>0, Zenon DEF DeviceLed
<1>4. PICK c \in CrateNum, base \in Nat \ {0} : \E s \in AddrSpace(dev[c], base) :
        \E found \in Probed(c, s, base) \ {"fault"} :
         /\ OnlyFirst("vmedevice", line) => c = line[2].crate
         /\ dev[c].cards # MaxCardsInChassis
         /\ dev' = [dev EXCEPT ![c].cards = @ + 1]
         /\ out' = Append(out, DeviceLine(line, base, s, found = "board"))
  <2>1. DeviceLed(line)
    BY <1>0, Zenon
  <2> QED
    BY <2>1, Zenon DEF DeviceLed
<1>5a. PICK s \in AddrSpace(dev[c], base) : \E found \in Probed(c, s, base) \ {"fault"} :
         /\ OnlyFirst("vmedevice", line) => c = line[2].crate
         /\ dev[c].cards # MaxCardsInChassis
         /\ dev' = [dev EXCEPT ![c].cards = @ + 1]
         /\ out' = Append(out, DeviceLine(line, base, s, found = "board"))
  BY <1>4, Zenon
<1>5. PICK found \in Probed(c, s, base) \ {"fault"} :
         /\ OnlyFirst("vmedevice", line) => c = line[2].crate
         /\ dev[c].cards # MaxCardsInChassis
         /\ dev' = [dev EXCEPT ![c].cards = @ + 1]
         /\ out' = Append(out, DeviceLine(line, base, s, found = "board"))
  BY <1>5a, Zenon
<1>5b. PICK b \in BOOLEAN : b <=> found = "board"
  OBVIOUS
<1>5c. PICK new : new = DeviceLine(line, base, s, b)
  OBVIOUS
<1>6. c = line[2].crate
  BY <1>0, <1>1, <1>5, Zenon DEF OutInv, ProperInput
<1>7. s \in Width \cup {Off, Bad} /\ s \in Int /\ base \in Int
  BY SpaceIs
<1>8. \A a \in CrateNum :
        /\ dev'[a].online = dev[a].online /\ dev'[a].regs = dev[a].regs
        /\ dev'[a].region = dev[a].region /\ dev'[a].start = dev[a].start
        /\ a # c => dev'[a] = dev[a]
  <2> DEFINE n == dev[c].cards + 1
             d == [dev[c] EXCEPT !.cards = n]
  <2>1. dev[c] \in Device /\ dev \in [CrateNum -> Device]
    BY DEF ConfigTypeOK
  <2>2. dev' = [dev EXCEPT ![c] = d]
    BY <1>5, Zenon
  <2> HIDE DEF n
  <2>3. d.online = dev[c].online /\ d.regs = dev[c].regs /\ d.region = dev[c].region /\ d.start = dev[c].start
    BY ONLY <2>1 DEF Device
  <2> HIDE DEF d
  <2>4. dev'[c] = d /\ \A a \in CrateNum : a # c => dev'[a] = dev[a]
    BY ONLY <2>1, <2>2, c \in CrateNum
  <2> QED
    BY <2>3, <2>4, Zenon
<1>9. new \in Seq(Token)
  BY <1>2, <1>3, <1>5c, <1>7, DeviceLineTyped
<1>10. new[1] = line[1] /\ new[2] = line[2] /\ new = DeviceLine(new, base, s, b) /\ Len(new) = 8
  <2>1. new[1] = line[1] /\ new[2] = line[2] /\ Len(new) = 8
    BY <1>5c, DeviceLineIs
  <2>2. \A x, y : x[1] = y[1] /\ x[2] = y[2] => DeviceLine(x, base, s, b) = DeviceLine(y, base, s, b)
    BY Zenon DEF DeviceLine
  <2>3. DeviceLine(new, base, s, b) = DeviceLine(line, base, s, b)
    BY <2>1, <2>2, Zenon
  <2> QED
    BY ONLY <1>5c, <2>1, <2>3
<1>11. IsDevice(new) /\ ~ IsRepeater(new)
  <2>1. line # << >> /\ line[1].word = "vmedevice"
    BY <1>0, <1>2, <1>3 DEF IsDevice, FirstWord
  <2>2. new # << >> /\ new[1].word = "vmedevice"
    <3>1. new # << >>
      <4>1. Len(<< >>) = 0
        OBVIOUS
      <4>2. Len(new) = 8
        BY <1>10
      <4>3. Len(new) # Len(<< >>)
        BY ONLY <4>1, <4>2
      <4> QED
        BY ONLY <4>3, Zenon
    <3> QED
      BY <1>10, <2>1, <3>1, Zenon
  <2> QED
    BY <2>2 DEF IsDevice, IsRepeater, FirstWord
<1>12. s # Off => Checked(c, base, s, b)
  <2>1. s # Off => dev[c].online
    BY <1>5 DEF AddrSpace
  <2> QED
    BY <1>5, <1>5b, <2>1, Zenon DEF Checked
<1>13. s # Off => Checked(c, base, s, b)'
  <2>1. /\ dev'[c].online = dev[c].online /\ dev'[c].regs = dev[c].regs
        /\ dev'[c].region = dev[c].region /\ dev'[c].start = dev[c].start
    BY <1>8
  <2> QED
    BY ONLY <1>1, <1>12, <2>1, CheckedSame
<1>14. DeviceOut(new)'
  <2>1. s \in Width \cup {Off, Bad} /\ b \in BOOLEAN
    BY <1>7
  <2>2. new[2].crate = c
    BY <1>6, <1>10, Zenon
  <2> QED
    BY <1>10, <1>11, <1>13, <2>1, <2>2, Zenon DEF DeviceOut
<1>15. out \in Seq(Seq(Token)) /\ out' = Append(out, new)
  <2>1. b = (found = "board")
    BY <1>5b
  <2> QED
    BY <1>5, <1>5c, <2>1, Zenon DEF ConfigTypeOK
<1>16. /\ Len(out') = Len(out) + 1 /\ out'[Len(out) + 1] = new
       /\ \A i \in 1..Len(out) : out'[i] = out[i]
       /\ \A i \in 1..Len(out') : i \in 1..Len(out) \/ i = Len(out) + 1
  <2>1. /\ Len(Append(out, new)) = Len(out) + 1
        /\ \A i \in 1..Len(out) : Append(out, new)[i] = out[i]
        /\ Append(out, new)[Len(out) + 1] = new
        /\ \A i \in 1..(Len(out) + 1) : i \in 1..Len(out) \/ i = Len(out) + 1
    BY ONLY <1>9, <1>15, AppendIs
  <2> QED
    BY <1>15, <2>1, Zenon
<1>17. \A i \in 1..Len(out') : (RepeaterOut(out[i]) \/ DeviceOut(out[i]))'
  <2>1. ASSUME NEW i \in 1..Len(out) PROVE (RepeaterOut(out[i]) \/ DeviceOut(out[i]))'
    <3>0. PICK l : l = out[i]
      OBVIOUS
    <3>1. RepeaterOut(l) \/ DeviceOut(l)
      BY <3>0, Zenon DEF OutInv
    <3>2. (RepeaterOut(l) \/ DeviceOut(l))'
      BY <1>1, <1>8, <3>1, OutSame, Zenon
    <3> QED
      BY <1>16, <3>0, <3>2, Zenon
  <2> QED
    BY <1>14, <1>16, <2>1, Zenon
<1>18. \A a \in CrateNum : dev'[a].online => Seen(a)'
  BY <1>1, <1>8, SeenStays, Zenon DEF OutInv
<1>19. \A i, j \in 1..Len(out') :
         IsRepeater(out'[i]) /\ IsRepeater(out'[j]) /\ out'[i][2] = out'[j][2] => i = j
  BY <1>11, <1>16, Zenon DEF OutInv
<1> QED
  BY <1>1, <1>17, <1>18, <1>19, Zenon DEF OutInv

LEMMA OutUnchanged ==
  ASSUME ConfigTypeOK, OutInv, UNCHANGED <<world, input, dev, page, pages, out>>, pos' \in {pos, pos + 1}
  PROVE  OutInv'
<1>2. ASSUME NEW c, Seen(c) PROVE Seen(c)'
  <2>1. CASE pos' = pos
    BY <1>2, <2>1, Zenon DEF Seen
  <2>2. CASE pos' = pos + 1
    BY <1>2, <2>2, SeenStays
  <2> QED
    BY <2>1, <2>2
<1>3. ASSUME NEW l, RepeaterOut(l) PROVE RepeaterOut(l)'
  BY <1>2, <1>3, Zenon DEF RepeaterOut, Allotted
<1>4. ASSUME NEW l, DeviceOut(l) PROVE DeviceOut(l)'
  <2>1. \A c, base, s, b : Checked(c, base, s, b) => Checked(c, base, s, b)'
    BY ONLY CheckedSame, UNCHANGED <<world, input, dev, page, pages, out>>
  <2> QED
    BY <1>4, <2>1, Zenon DEF DeviceOut
<1>5. \A k \in 1..Len(out) : (RepeaterOut(out[k]) \/ DeviceOut(out[k]))'
  <2>1. ASSUME NEW k \in 1..Len(out) PROVE (RepeaterOut(out[k]) \/ DeviceOut(out[k]))'
    <3>0. PICK l : l = out[k]
      OBVIOUS
    <3>1. RepeaterOut(l) \/ DeviceOut(l)
      BY <3>0, Zenon DEF OutInv
    <3>3. (RepeaterOut(l) \/ DeviceOut(l))'
      BY <1>3, <1>4, <3>1
    <3> QED
      BY <3>0, <3>3, UNCHANGED out, Zenon
  <2> QED
    BY <2>1
<1> QED
  BY <1>2, <1>5, Zenon DEF OutInv

LEMMA OutKept ==
  ASSUME ConfigTypeOK, OutInv, ConfigNext \/ UNCHANGED configVars
  PROVE  OutInv'
<1>1. CASE UNCHANGED configVars
  <2>1. UNCHANGED <<world, input, dev, page, pages, out>> /\ pos' \in {pos, pos + 1}
    BY <1>1 DEF configVars
  <2> QED
    BY <2>1, OutUnchanged
<1>2. CASE UNCHANGED <<world, input, pos, dev, page, pages, out>>
  BY <1>2, OutUnchanged
<1>3. CASE ReadLine
  <2>0. ProperInput(input)
    BY Zenon DEF OutInv
  <2>1. CASE UNCHANGED <<dev, page, pages, out>>
    <3>1. UNCHANGED <<world, input>> /\ pos' = pos + 1
      BY <1>3, ReadLineCases, Zenon
    <3> QED
      BY <2>1, <3>1, OutUnchanged
  <2>2. CASE FirstWord(input[pos]) = "repeater" /\ RepeaterLed(input[pos])
    BY <1>3, <2>2, RepeaterLedKeeps, Zenon DEF IsRepeater
  <2>3. CASE FirstWord(input[pos]) = "vmedevice" /\ DeviceLed(input[pos])
    BY <1>3, <2>3, DeviceLedKeeps, Zenon DEF IsDevice
  <2> QED
    BY <1>3, <2>0, <2>1, <2>2, <2>3, ProperCases, Zenon
<1> QED
  BY <1>1, <1>2, <1>3, ConfigSteps, Zenon

LEMMA OutInit ==
  ASSUME ConfigInit, ProperInput(input)
  PROVE  OutInv
<1>1. out = << >> /\ Len(out) = 0 /\ \A c \in CrateNum : dev[c] = NoDev
  BY DEF ConfigInit
<1>2. NoDev.online = FALSE
  BY DEF NoDev
<1>3. \A k : k \notin 1..Len(out)
  BY ONLY <1>1
<1> QED
  BY <1>1, <1>2, <1>3, Zenon DEF OutInv

LEMMA OutTrue ==
  ASSUME ConfigTypeOK, OutInv
  PROVE  ListingIsTrue
<1>1. SUFFICES ASSUME NEW k \in DOMAIN out, IsDevice(out[k]),
                      NEW c, c = out[k][2].crate, NEW base, base = Says(out[k], "-base").num,
                      NEW s, s = Says(out[k], "-a").num,
                      Orderly(c), Findable(c, base), s # Off
               PROVE  /\ s \in Width /\ Inside(dev[c], s, base)
                      /\ Says(out[k], "-o").word = "true" <=> At(c, s, base) # {}
  BY Zenon DEF ListingIsTrue
<1> DEFINE l == out[k]
<1>2. k \in 1..Len(out)
  BY DEF ConfigTypeOK
<1>3. DeviceOut(l)
  <2>1. ~ RepeaterOut(l)
    <3>1. ASSUME NEW a \in CrateNum, NEW setUp \in BOOLEAN, l = RepeaterLine(a, setUp, dev[a])
          PROVE  FALSE
      <4>1. dev[a] \in Device /\ a \in Int
        BY CrateInt DEF ConfigTypeOK
      <4>2. ~ IsDevice(RepeaterLine(a, setUp, dev[a]))
        BY <4>1, RepeaterLineIs, Zenon
      <4> QED
        BY <1>1, <3>1, <4>2, Zenon
    <3> QED
      BY <3>1, Zenon DEF RepeaterOut
  <2> QED
    BY <1>2, <2>1, Zenon DEF OutInv
<1>4. PICK n \in Nat \ {0}, t \in Width \cup {Off, Bad}, b \in BOOLEAN :
        /\ l = DeviceLine(l, n, t, b) /\ IsDevice(l) /\ l[2].crate \in CrateNum
        /\ t # Off => Checked(l[2].crate, n, t, b)
  BY <1>3, Zenon DEF DeviceOut
<1>5. /\ Says(l, "-base") = Number(n) /\ Says(l, "-a") = Number(t) /\ Says(l, "-o") = Truth(b)
  <2>1. l = DeviceLine(l, n, t, b)
    BY <1>4
  <2> HIDE DEF l
  <2> QED
    BY <2>1, DeviceSays
<1>6. base = n /\ s = t /\ (Says(l, "-o").word = "true" <=> b)
  <2>1. Number(n).num = n /\ Number(t).num = t
    BY ONLY TRUE DEF Number
  <2>2. Truth(b).word = "true" <=> b
    BY ONLY b \in BOOLEAN DEF Truth, Word
  <2> QED
    BY <1>1, <1>5, <2>1, <2>2, Zenon
<1>7. Checked(c, base, s, b) /\ c \in CrateNum /\ base \in Nat \ {0}
  BY <1>1, <1>4, <1>6, Zenon
<1> HIDE DEF l
<1> DEFINE in == {u \in Width : In(dev[c], u, base)}
<1>8. PICK u \in Width : Inside(dev[c], u, base) /\ In(dev[c], u, base)
  BY <1>1, Zenon DEF Findable
<1>9. s \in Width /\ In(dev[c], s, base)
  <2>1. in # {} /\ in \subseteq Nat
    BY <1>8, WidthIs
  <2>2. Min(in) \in in
    BY <2>1, MinIs
  <2>3. s = Min(in)
    <3>1. dev[c].online /\ s \in AddrSpace(dev[c], base)
      BY <1>7, Zenon DEF Checked
    <3>2. AddrSpace(dev[c], base) = {Min(in)}
      BY <2>1, <3>1, Zenon DEF AddrSpace
    <3> HIDE DEF in
    <3> QED
      BY <3>1, <3>2
  <2> QED
    BY <2>2, <2>3
<1>10. s = u
  <2>1. base \in 1..(dev[c].region[u].addr + dev[c].region[u].len)
    <3>1. dev[c].region[u].addr \in Nat /\ dev[c].region[u].len \in Nat
      BY <1>7, DeviceIs, Zenon DEF ConfigTypeOK
    <3>2. base < dev[c].region[u].addr + dev[c].region[u].len
      BY <1>8, Zenon DEF Inside
    <3> QED
      BY ONLY <1>7, <3>1, <3>2
  <2> QED
    BY <1>1, <1>8, <1>9, <2>1, Zenon DEF Orderly
<1>11. b <=> At(c, s, base) # {}
  <2>1. PICK found \in Probed(c, s, base) : found # "fault" /\ (b <=> found = "board")
    BY <1>7 DEF Checked
  <2>2. \/ Probed(c, s, base) = {"fault"}
        \/ At(c, s, base) = {} /\ Probed(c, s, base) = {"none"}
        \/ At(c, s, base) # {} /\ (Probed(c, s, base) = {"board"} \/ Probed(c, s, base) = {"fault"})
    BY <1>8, <1>9, <1>10, Zenon DEF Probed
  <2> QED
    BY ONLY <2>1, <2>2
<1> QED
  BY <1>6, <1>8, <1>9, <1>10, <1>11, Zenon DEF l

\* For an input file with one line per crate, the output file says truly which
\* boards are at their addresses, at every moment of any run of v120_config, for
\* crates that are in order.
THEOREM ListingTrue == LookupSpec /\ ProperInput(input) => []ListingIsTrue
<1>1. LookupInit /\ ProperInput(input) => LookInv /\ OutInv
  <2>1. LookupInit => ConfigInit
    BY Zenon DEF LookupInit
  <2> QED
    BY <2>1, LookInitTyped, OutInit, Zenon
<1>2. LookInv /\ OutInv /\ [LookupNext]_allVars => LookInv' /\ OutInv'
  <2>1. LookupNext \/ UNCHANGED allVars => ConfigNext \/ UNCHANGED configVars
    BY Zenon DEF LookupNext, Lookup, Ask, FileMissing, SeekDevice, SeekRepeater, NotFound, Restart,
                 allVars
  <2>2. LookInv => ConfigTypeOK
    BY Zenon DEF LookInv, LookTypeOK
  <2> QED
    BY <2>1, <2>2, LookNextTyped, OutKept, Zenon
<1>3. LookInv /\ OutInv => ListingIsTrue
  BY OutTrue, Zenon DEF LookInv, LookTypeOK
<1> QED
  BY <1>1, <1>2, <1>3, PTL DEF LookupSpec

-----------------------------------------------------------------------------
(* A repeater line is made of options and their arguments.                   *)

Means(d, o, x) ==
  \E s \in Width : \/ o = Opt("-a", s) /\ x = d.region[s].addr
                   \/ o = Opt("-s", s) /\ x = d.region[s].len
                   \/ o \in {Opt("-sp", s), Opt("-ep", s)} /\ x = d.start[s]

IsPair(d, o, a) ==
  \/ o.word \in PageNames /\ a.word = "number" /\ Means(d, o.word, a.num)
  \/ o.word \in NoopNames
  \/ o.word = "-o" /\ a.word \in {"true", "false"}

PairsUpTo(d, args, n) == \A j \in 1..n : IsPair(d, args[2 * j - 1], args[2 * j])

Pairs(d, args) == \E n \in Nat : Len(args) = 2 * n /\ PairsUpTo(d, args, n)

Has(args, o) == \E j \in Nat : j >= 1 /\ 2 * j <= Len(args) /\ args[2 * j - 1].word = o

LEMMA PairsJoin ==
  ASSUME NEW d, NEW a, a \in Seq(Token), Pairs(d, a), NEW b, b \in Seq(Token), Pairs(d, b)
  PROVE  /\ a \o b \in Seq(Token) /\ Pairs(d, a \o b)
         /\ \A o : Has(a, o) \/ Has(b, o) => Has(a \o b, o)
<1>1. PICK n \in Nat : Len(a) = 2 * n /\ PairsUpTo(d, a, n)
  BY Zenon DEF Pairs
<1>2. PICK m \in Nat : Len(b) = 2 * m /\ PairsUpTo(d, b, m)
  BY Zenon DEF Pairs
<1> DEFINE c == a \o b
<1>3. /\ c \in Seq(Token) /\ Len(c) = Len(a) + Len(b)
      /\ \A i \in 1..(Len(a) + Len(b)) : c[i] = IF i <= Len(a) THEN a[i] ELSE b[i - Len(a)]
  BY Concat, Zenon
<1> HIDE DEF c
<1>4. ASSUME NEW j \in Nat, j >= 1, j <= n
      PROVE  c[2 * j - 1] = a[2 * j - 1] /\ c[2 * j] = a[2 * j]
  BY ONLY <1>1, <1>2, <1>3, <1>4
<1>5. ASSUME NEW j \in Nat, j >= 1, j <= m
      PROVE  c[2 * (n + j) - 1] = b[2 * j - 1] /\ c[2 * (n + j)] = b[2 * j]
  <2>1. /\ 2 * (n + j) - 1 \in 1..(Len(a) + Len(b)) /\ ~ (2 * (n + j) - 1 <= Len(a))
        /\ 2 * (n + j) - 1 - Len(a) = 2 * j - 1
        /\ 2 * (n + j) \in 1..(Len(a) + Len(b)) /\ ~ (2 * (n + j) <= Len(a))
        /\ 2 * (n + j) - Len(a) = 2 * j
    BY ONLY <1>1, <1>2, <1>5
  <2> QED
    BY <1>3, <2>1
<1>6. Len(c) = 2 * (n + m) /\ n + m \in Nat
  BY ONLY <1>1, <1>2, <1>3
<1>7. ASSUME NEW j \in 1..(n + m) PROVE IsPair(d, c[2 * j - 1], c[2 * j])
  <2>1. CASE j <= n
    <3>1. j \in Nat /\ j >= 1 /\ j \in 1..n
      BY <2>1
    <3>2. IsPair(d, a[2 * j - 1], a[2 * j])
      BY <1>1, <3>1, Zenon DEF PairsUpTo
    <3> QED
      BY <1>4, <2>1, <3>1, <3>2
  <2>2. CASE ~ (j <= n)
    <3>1. j - n \in Nat /\ j - n >= 1 /\ j - n <= m /\ j - n \in 1..m /\ n + (j - n) = j
      BY <2>2
    <3>2. IsPair(d, b[2 * (j - n) - 1], b[2 * (j - n)])
      BY <1>2, <3>1, Zenon DEF PairsUpTo
    <3>3. c[2 * j - 1] = b[2 * (j - n) - 1] /\ c[2 * j] = b[2 * (j - n)]
      BY <1>5, <3>1
    <3> QED
      BY <3>2, <3>3
  <2> QED
    BY <2>1, <2>2
<1>8. Pairs(d, c)
  BY <1>6, <1>7, Zenon DEF Pairs, PairsUpTo
<1>9. ASSUME NEW o, Has(a, o) PROVE Has(c, o)
  <2>1. PICK j \in Nat : j >= 1 /\ 2 * j <= Len(a) /\ a[2 * j - 1].word = o
    BY <1>9, Zenon DEF Has
  <2>2. j <= n /\ 2 * j <= Len(c)
    BY ONLY <1>1, <1>2, <1>3, <2>1
  <2>3. c[2 * j - 1].word = o
    BY <1>4, <2>1, <2>2
  <2> QED
    BY <2>1, <2>2, <2>3, Zenon DEF Has
<1>10. ASSUME NEW o, Has(b, o) PROVE Has(c, o)
  <2>1. PICK j \in Nat : j >= 1 /\ 2 * j <= Len(b) /\ b[2 * j - 1].word = o
    BY <1>10, Zenon DEF Has
  <2>2. j <= m /\ n + j \in Nat /\ n + j >= 1 /\ 2 * (n + j) <= Len(c)
    BY ONLY <1>1, <1>2, <1>3, <2>1
  <2>3. c[2 * (n + j) - 1].word = o
    BY <1>5, <2>1, <2>2
  <2> QED
    BY <2>2, <2>3, Zenon DEF Has
<1> QED
  BY <1>3, <1>8, <1>9, <1>10 DEF c

LEMMA NoPairs == \A d : Pairs(d, << >>)
<1>1. 0 \in Nat /\ Len(<< >>) = 2 * 0 /\ 1..0 = {}
  OBVIOUS
<1> QED
  BY <1>1, Zenon DEF Pairs, PairsUpTo

LEMMA Pairs1 ==
  ASSUME NEW d, NEW s, s \in Width
  PROVE  Pairs(d, Options1(s, d)) /\ Has(Options1(s, d), Opt("-a", s))
<1> DEFINE q == Options1(s, d)
<1>1. /\ Len(q) = 6
      /\ q[1] = Word(Opt("-a", s)) /\ q[2] = Number(d.region[s].addr) /\ q[3] = Word(Opt("-s", s))
      /\ q[4] = Number(d.region[s].len) /\ q[5] = Word(Opt("-S", s))
  BY DEF Options1
<1> HIDE DEF q
<1>2. /\ q[1].word = Opt("-a", s) /\ q[2].word = "number" /\ q[2].num = d.region[s].addr
      /\ q[3].word = Opt("-s", s) /\ q[4].word = "number" /\ q[4].num = d.region[s].len
      /\ q[5].word = Opt("-S", s)
  BY ONLY <1>1 DEF Word, Number
<1>3. Opt("-a", s) \in PageNames /\ Opt("-s", s) \in PageNames /\ Opt("-S", s) \in NoopNames
  BY OptIs DEF Width, PageNames, NoopNames
<1>4. /\ IsPair(d, q[1], q[2]) /\ IsPair(d, q[3], q[4]) /\ IsPair(d, q[5], q[6])
  BY <1>2, <1>3, Zenon DEF IsPair, Means
<1>5. Len(q) = 2 * 3 /\ \A j \in 1..3 : \/ 2 * j - 1 = 1 /\ 2 * j = 2
                                        \/ 2 * j - 1 = 3 /\ 2 * j = 4
                                        \/ 2 * j - 1 = 5 /\ 2 * j = 6
  BY ONLY <1>1
<1>6. \A j \in 1..3 : IsPair(d, q[2 * j - 1], q[2 * j])
  BY <1>4, <1>5, Zenon
<1>7. 3 \in Nat /\ 1 \in Nat /\ 1 >= 1 /\ 2 * 1 <= 6 /\ 2 * 1 - 1 = 1
  OBVIOUS
<1>8. Pairs(d, q)
  BY <1>5, <1>6, <1>7, Zenon DEF Pairs, PairsUpTo
<1>9. Has(q, Opt("-a", s))
  <2>1. 1 >= 1 /\ 2 * 1 <= Len(q) /\ q[2 * 1 - 1].word = Opt("-a", s)
    BY ONLY <1>1, <1>2, <1>7
  <2> QED
    BY <1>7, <2>1, Zenon DEF Has
<1> QED
  BY <1>8, <1>9 DEF q

LEMMA Pairs2 ==
  ASSUME NEW d, NEW s, s \in Width
  PROVE  Pairs(d, Options2(s, d)) /\ Has(Options2(s, d), Opt("-sp", s))
<1> DEFINE q == Options2(s, d)
<1>1. /\ Len(q) = 4
      /\ q[1] = Word(Opt("-sp", s)) /\ q[2] = Number(d.start[s]) /\ q[3] = Word(Opt("-ep", s))
      /\ q[4] = Number(d.start[s])
  BY DEF Options2
<1> HIDE DEF q
<1>2. /\ q[1].word = Opt("-sp", s) /\ q[2].word = "number" /\ q[2].num = d.start[s]
      /\ q[3].word = Opt("-ep", s) /\ q[4].word = "number" /\ q[4].num = d.start[s]
  BY ONLY <1>1 DEF Word, Number
<1>3. Opt("-sp", s) \in PageNames /\ Opt("-ep", s) \in PageNames
  BY OptIs DEF Width, PageNames
<1>4. /\ IsPair(d, q[1], q[2]) /\ IsPair(d, q[3], q[4])
  BY <1>2, <1>3, Zenon DEF IsPair, Means
<1>5. Len(q) = 2 * 2 /\ \A j \in 1..2 : \/ 2 * j - 1 = 1 /\ 2 * j = 2
                                        \/ 2 * j - 1 = 3 /\ 2 * j = 4
  BY ONLY <1>1
<1>6. \A j \in 1..2 : IsPair(d, q[2 * j - 1], q[2 * j])
  BY <1>4, <1>5, Zenon
<1>7. 2 \in Nat /\ 1 \in Nat /\ 1 >= 1 /\ 2 * 1 <= 4 /\ 2 * 1 - 1 = 1
  OBVIOUS
<1>8. Pairs(d, q)
  BY <1>5, <1>6, <1>7, Zenon DEF Pairs, PairsUpTo
<1>9. Has(q, Opt("-sp", s))
  <2>1. 1 >= 1 /\ 2 * 1 <= Len(q) /\ q[2 * 1 - 1].word = Opt("-sp", s)
    BY ONLY <1>1, <1>2, <1>7
  <2> QED
    BY <1>7, <2>1, Zenon DEF Has
<1> QED
  BY <1>8, <1>9 DEF q

LEMMA PairsEnd == \A d, b : Pairs(d, <<Word("-o"), Truth(b)>>)
<1> SUFFICES ASSUME NEW d, NEW b PROVE Pairs(d, <<Word("-o"), Truth(b)>>)
  OBVIOUS
<1> DEFINE q == <<Word("-o"), Truth(b)>>
<1>1. Len(q) = 2 * 1 /\ q[1].word = "-o" /\ q[2].word \in {"true", "false"}
  BY DEF Word, Truth
<1> HIDE DEF q
<1>2. IsPair(d, q[1], q[2])
  BY <1>1, Zenon DEF IsPair
<1>3. 1 \in Nat /\ \A j \in 1..1 : 2 * j - 1 = 1 /\ 2 * j = 2
  OBVIOUS
<1>4. Pairs(d, q)
  BY <1>1, <1>2, <1>3, Zenon DEF Pairs, PairsUpTo
<1> QED
  BY <1>4 DEF q

LEMMA RegionPairs ==
  ASSUME NEW d, d \in Device, NEW c, NEW setUp, setUp \in BOOLEAN, NEW s, s \in Width
  PROVE  /\ Pairs(d, RegionWords(c, s, setUp, d))
         /\ d.region[s].addr # 0 => Has(RegionWords(c, s, setUp, d), Opt("-a", s))
         /\ d.region[s].addr # 0 /\ setUp => Has(RegionWords(c, s, setUp, d), Opt("-sp", s))
<1>1. Options1(s, d) \in Seq(Token) /\ Options2(s, d) \in Seq(Token) /\ << >> \in Seq(Token)
  BY OptionsTyped
<1>2. /\ Pairs(d, Options1(s, d)) /\ Pairs(d, Options2(s, d)) /\ Pairs(d, << >>)
      /\ Has(Options1(s, d), Opt("-a", s)) /\ Has(Options2(s, d), Opt("-sp", s))
  BY Pairs1, Pairs2, NoPairs, Zenon
<1>3. /\ Pairs(d, Options1(s, d) \o Options2(s, d)) /\ Pairs(d, Options1(s, d) \o << >>)
      /\ Has(Options1(s, d) \o Options2(s, d), Opt("-a", s))
      /\ Has(Options1(s, d) \o Options2(s, d), Opt("-sp", s))
      /\ Has(Options1(s, d) \o << >>, Opt("-a", s))
  BY <1>1, <1>2, PairsJoin, Zenon
<1> QED
  BY <1>2, <1>3, RegionWordsAre, Zenon

\* The options of a repeater line are those of the regions.
LEMMA LinePairs ==
  ASSUME NEW d, d \in Device, NEW c, c \in Int, NEW setUp, setUp \in BOOLEAN,
         NEW args, args = AllWords(c, setUp, d) \o <<Word("-o"), Truth(d.online)>>
  PROVE  /\ args \in Seq(Token) /\ Pairs(d, args)
         /\ \A s \in Width : /\ d.region[s].addr # 0 => Has(args, Opt("-a", s))
                             /\ d.region[s].addr # 0 /\ setUp => Has(args, Opt("-sp", s))
<1> DEFINE R(s)  == RegionWords(c, s, setUp, d)
           Final == <<Word("-o"), Truth(d.online)>>
           R2    == R(16) \o R(24)
           R3    == R2 \o R(32)
<1>1. \A s \in Width : R(s) \in Seq(Token) /\ Pairs(d, R(s))
  BY RegionWordsTyped, RegionPairs, Zenon
<1>2. 16 \in Width /\ 24 \in Width /\ 32 \in Width
  BY DEF Width
<1>3. R2 \in Seq(Token) /\ Pairs(d, R2) /\ \A o : Has(R(16), o) \/ Has(R(24), o) => Has(R2, o)
  <2>1. R(16) \in Seq(Token) /\ Pairs(d, R(16)) /\ R(24) \in Seq(Token) /\ Pairs(d, R(24))
    BY <1>1, <1>2
  <2> HIDE DEF R
  <2> QED
    BY ONLY <2>1, PairsJoin
<1>4. R3 \in Seq(Token) /\ Pairs(d, R3) /\ \A o : Has(R2, o) \/ Has(R(32), o) => Has(R3, o)
  <2>1. R(32) \in Seq(Token) /\ Pairs(d, R(32))
    BY <1>1, <1>2
  <2> HIDE DEF R, R2
  <2> QED
    BY ONLY <1>3, <2>1, PairsJoin
<1>5. Final \in Seq(Token) /\ Pairs(d, Final)
  <2>1. Word("-o") \in Token /\ Truth(d.online) \in Token
    BY Tokens, WordsAre, TruthTyped, Zenon
  <2>2. Final \in Seq(Token)
    BY <2>1
  <2> QED
    BY <2>2, PairsEnd, Zenon
<1>6. args = R3 \o Final
  BY Zenon DEF AllWords
<1> HIDE DEF R3, Final
<1>7. args \in Seq(Token) /\ Pairs(d, args) /\ \A o : Has(R3, o) => Has(args, o)
  <2>1. R3 \o Final \in Seq(Token) /\ Pairs(d, R3 \o Final) /\ \A o : Has(R3, o) => Has(R3 \o Final, o)
    BY ONLY <1>4, <1>5, PairsJoin
  <2> QED
    BY <1>6, <2>1, Zenon
<1>8. \A s \in Width : \A o : Has(R(s), o) => Has(args, o)
  <2> HIDE DEF R
  <2>1. \A o : Has(R(16), o) \/ Has(R(24), o) \/ Has(R(32), o) => Has(args, o)
    BY <1>3, <1>4, <1>7, Zenon
  <2> QED
    BY <2>1 DEF Width
<1>9. \A s \in Width : /\ d.region[s].addr # 0 => Has(R(s), Opt("-a", s))
                       /\ d.region[s].addr # 0 /\ setUp => Has(R(s), Opt("-sp", s))
  BY RegionPairs, Zenon
<1> HIDE DEF R
<1> QED
  BY <1>7, <1>8, <1>9, Zenon

\* An option makes w of the variables v.
Loads(d, o, v, w) ==
  /\ w \in [StaticNames -> Int]
  /\ \A p \in PageNames : w[p] = v[p] \/ (p = o /\ Means(d, p, w[p]))
  /\ o \in PageNames => Means(d, o, w[o])

\* An option and its argument are accepted, and store what they mean.
LEMMA PairLoads ==
  ASSUME NEW d, NEW args, args \in Seq(Token), NEW i, i \in 1..Len(args), i + 1 \in 1..Len(args),
         IsPair(d, args[i], args[i + 1])
  PROVE  /\ \E e \in Entries(PageTable) : Matches(e, args, i)
         /\ \A e \in Entries(PageTable) : Matches(e, args, i) =>
              /\ Accepts(e, args[i + 1])
              /\ \A v \in [StaticNames -> Int] : Loads(d, args[i].word, v, Load(e, args[i + 1], v))
<1> DEFINE o == args[i]
           a == args[i + 1]
<1>1. a.num \in Int /\ i < Len(args) /\ Len(args) \in Nat
  <2>1. a.num \in Int /\ Len(args) \in Nat
    BY TokenIs, Zenon
  <2>2. i < Len(args)
    BY ONLY <2>1, i \in 1..Len(args), i + 1 \in 1..Len(args)
  <2> QED
    BY <2>1, <2>2
<1>2. /\ PageNames \subseteq StaticNames /\ "online" \in StaticNames /\ "online" \notin PageNames
      /\ "-o" \notin PageNames /\ "-o" \notin NoopNames /\ PageNames \cap NoopNames = {}
  BY DEF PageNames, StaticNames, NoopNames
<1>3. CASE o.word \in PageNames /\ a.word = "number" /\ Means(d, o.word, a.num)
  <2>1. \E e \in Entries(PageTable) : Matches(e, args, i)
    <3>1. Constant(o.word) \in Entries(PageTable)
      BY <1>3, PageEntries, Zenon
    <3>2. Constant(o.word).opt = o.word /\ Constant(o.word).routine = "load_constant" /\ Constant(o.word).arg = "*"
      BY ONLY TRUE DEF Constant, Entry
    <3>3. Matches(Constant(o.word), args, i)
      BY <3>2, Zenon DEF Matches
    <3> QED
      BY <3>1, <3>3, Zenon
  <2>2. ASSUME NEW e \in Entries(PageTable), Matches(e, args, i)
        PROVE  /\ Accepts(e, a)
               /\ \A v \in [StaticNames -> Int] : Loads(d, o.word, v, Load(e, a, v))
    <3>1. e.opt = o.word /\ IsPageEntry(e)
      BY <2>2, PageEntries, Zenon DEF Matches
    <3>2. e.routine = "load_constant" /\ e.var = o.word
      BY <1>2, <1>3, <3>1, Zenon DEF IsPageEntry
    <3>3. Accepts(e, a)
      BY <1>3, Zenon DEF Accepts
    <3>4. ASSUME NEW v \in [StaticNames -> Int], NEW w, w = Load(e, a, v)
          PROVE  Loads(d, o.word, v, w)
      <4>1. w = [v EXCEPT ![o.word] = a.num]
        BY <3>2, <3>4, Zenon DEF Load
      <4> HIDE DEF o, a
      <4>2. /\ w \in [StaticNames -> Int] /\ w[o.word] = a.num
            /\ \A p \in PageNames : p # o.word => w[p] = v[p]
        BY ONLY <1>1, <1>2, <1>3, <4>1, v \in [StaticNames -> Int]
      <4> QED
        BY <1>3, <4>2, Zenon DEF Loads
    <3> HIDE DEF o, a
    <3> QED
      BY <3>3, <3>4, Zenon
  <2> QED
    BY <2>1, <2>2, Zenon
<1>4. CASE o.word \in NoopNames
  <2>1. \E e \in Entries(PageTable) : Matches(e, args, i)
    <3>1. Noop(o.word) \in Entries(PageTable)
      BY <1>4, PageEntries, Zenon
    <3>2. Noop(o.word).opt = o.word /\ Noop(o.word).routine = "noop" /\ Noop(o.word).arg = "*"
      BY ONLY TRUE DEF Noop, Entry
    <3>3. Matches(Noop(o.word), args, i)
      BY <3>2, Zenon DEF Matches
    <3> QED
      BY <3>1, <3>3, Zenon
  <2>2. ASSUME NEW e \in Entries(PageTable), Matches(e, args, i)
        PROVE  Accepts(e, a) /\ \A v : Load(e, a, v) = v
    <3>1. e.opt = o.word /\ IsPageEntry(e)
      BY <2>2, PageEntries, Zenon DEF Matches
    <3>2. e.routine = "noop"
      <4>1. o.word \notin PageNames /\ o.word # "-o"
        BY <1>2, <1>4
      <4> QED
        BY <3>1, <4>1, Zenon DEF IsPageEntry
    <3> QED
      BY <3>2 DEF Accepts, Load
  <2>3. o.word \notin PageNames
    BY <1>2, <1>4
  <2> QED
    BY <2>1, <2>2, <2>3, Zenon DEF Loads
<1>5. CASE o.word = "-o" /\ a.word \in {"true", "false"}
  <2>1. \E e \in Entries(PageTable) : Matches(e, args, i)
    <3> DEFINE e(x) == Entry("-o", x, "load_enum", "online", 1)
    <3>1. e(a.word) \in Entries(PageTable)
      BY <1>5, PageEntries
    <3>2. e(a.word).opt = "-o" /\ e(a.word).routine = "load_enum" /\ e(a.word).arg = a.word
      BY ONLY TRUE DEF Entry
    <3>3. Matches(e(a.word), args, i)
      BY <1>1, <1>5, <3>2 DEF Matches
    <3> QED
      BY <3>1, <3>3, Zenon
  <2>2. ASSUME NEW e \in Entries(PageTable), Matches(e, args, i)
        PROVE  /\ Accepts(e, a)
               /\ \A v \in [StaticNames -> Int] : /\ Load(e, a, v) \in [StaticNames -> Int]
                                                  /\ \A p \in PageNames : Load(e, a, v)[p] = v[p]
    <3>1. e.opt = o.word /\ IsPageEntry(e)
      BY <2>2, PageEntries, Zenon DEF Matches
    <3>2. e.routine = "load_enum" /\ e.var = "online" /\ e.value = 1
      BY <1>2, <1>5, <3>1, Zenon DEF IsPageEntry
    <3>3. Accepts(e, a)
      BY <3>2 DEF Accepts
    <3>4. ASSUME NEW v \in [StaticNames -> Int], NEW w, w = Load(e, a, v)
          PROVE  w \in [StaticNames -> Int] /\ \A p \in PageNames : w[p] = v[p]
      <4>1. w = [v EXCEPT !["online"] = 1]
        BY <3>2, <3>4 DEF Load
      <4> QED
        BY ONLY <1>2, <4>1, v \in [StaticNames -> Int]
    <3> QED
      BY <3>3, <3>4, Zenon
  <2>3. o.word \notin PageNames
    BY <1>2, <1>5, Zenon
  <2> QED
    BY <2>1, <2>2, <2>3, Zenon DEF Loads
<1> QED
  BY <1>3, <1>4, <1>5, Zenon DEF IsPair

\* The variables of every option that is there mean the crate.
LEMMA PagesParsed ==
  ASSUME NEW d, NEW args, args \in Seq(Token), Pairs(d, args),
         NEW vals, vals \in [StaticNames -> Int], NEW o, o \in PageNames, Has(args, o)
  PROVE  Means(d, o, Parse(PageTable, args, vals).vals[o])
<1>1. PICK n \in Nat : Len(args) = 2 * n /\ PairsUpTo(d, args, n)
  BY Zenon DEF Pairs
<1> DEFINE Told(m, v) == \A j \in 1..m : \A q \in PageNames :
                           args[2 * j - 1].word = q => Means(d, q, v[q])
           Good == {p \in Nat \X [StaticNames -> Int] :
                      \E m \in 0..n : p[1] = 2 * m + 1 /\ Told(m, p[2])}
<1>2. \A i, v : <<i, v>> \in Good <=>
        i \in Nat /\ v \in [StaticNames -> Int] /\ \E m \in 0..n : i = 2 * m + 1 /\ Told(m, v)
  OBVIOUS
<1>3. <<1, vals>> \in Good
  <2>1. 1 \in Nat /\ 0 \in 0..n /\ 1 = 2 * 0 + 1 /\ \A j : j \notin 1..0
    OBVIOUS
  <2> HIDE DEF Good
  <2> QED
    BY <1>2, <2>1, Zenon
<1> HIDE DEF Good
<1>4. ASSUME NEW m \in 0..n, m # n
      PROVE  /\ 2 * m + 1 \in 1..Len(args) /\ (2 * m + 1) + 1 \in 1..Len(args)
             /\ IsPair(d, args[2 * m + 1], args[(2 * m + 1) + 1])
             /\ m + 1 \in 0..n /\ 2 * (m + 1) + 1 = (2 * m + 1) + 2
             /\ 2 * (m + 1) - 1 = 2 * m + 1
             /\ \A j \in 1..(m + 1) : j \in 1..m \/ j = m + 1
             /\ (2 * m + 1) + 2 \in Nat
  <2>1. m + 1 \in 1..n /\ 2 * (m + 1) - 1 = 2 * m + 1 /\ 2 * (m + 1) = (2 * m + 1) + 1
    BY ONLY <1>4, m \in 0..n, n \in Nat
  <2>2. IsPair(d, args[2 * m + 1], args[(2 * m + 1) + 1])
    <3>1. IsPair(d, args[2 * (m + 1) - 1], args[2 * (m + 1)])
      BY <1>1, <2>1, Zenon DEF PairsUpTo
    <3> QED
      BY <2>1, <3>1, Zenon
  <2>3. /\ 2 * m + 1 \in 1..Len(args) /\ (2 * m + 1) + 1 \in 1..Len(args)
        /\ m + 1 \in 0..n /\ 2 * (m + 1) + 1 = (2 * m + 1) + 2
        /\ \A j \in 1..(m + 1) : j \in 1..m \/ j = m + 1
        /\ (2 * m + 1) + 2 \in Nat
    BY ONLY <1>1, <1>4, m \in 0..n, n \in Nat
  <2> QED
    BY <2>1, <2>2, <2>3, Zenon DEF Loads
<1>5. ASSUME NEW i \in Nat, NEW v, <<i, v>> \in Good
      PROVE  \/ i = Len(args) + 1
             \/ /\ i \in 1..Len(args) /\ i + 1 \in 1..Len(args)
                /\ \E e \in Entries(PageTable) : Matches(e, args, i)
  <2>1. PICK m \in 0..n : i = 2 * m + 1 /\ Told(m, v)
    BY <1>2, <1>5, Zenon
  <2>2. CASE m = n
    BY ONLY <1>1, <2>1, <2>2
  <2>3. CASE m # n
    <3>1. i \in 1..Len(args) /\ i + 1 \in 1..Len(args) /\ IsPair(d, args[i], args[i + 1])
      BY <1>4, <2>1, <2>3, Zenon
    <3> QED
      BY <3>1, PairLoads, Zenon
  <2> QED
    BY <2>2, <2>3
<1>6. ASSUME NEW e \in Entries(PageTable), NEW i \in 1..Len(args), NEW v, v \in [StaticNames -> Int],
             <<i, v>> \in Good, i + 1 \in 1..Len(args), Matches(e, args, i)
      PROVE  /\ Accepts(e, args[i + 1])
             /\ <<i + 2, Load(e, args[i + 1], v)>> \in Good
             /\ Load(e, args[i + 1], v) \in [StaticNames -> Int]
  <2>1. PICK m \in 0..n : i = 2 * m + 1 /\ Told(m, v)
    BY <1>2, <1>6, Zenon
  <2>2. m # n
    BY ONLY <1>1, <1>6, <2>1
  <2>3. PICK w : w = Load(e, args[i + 1], v)
    OBVIOUS
  <2>4. IsPair(d, args[i], args[i + 1]) /\ 2 * (m + 1) - 1 = i /\ i + 2 = 2 * (m + 1) + 1
        /\ m + 1 \in 0..n /\ (\A j \in 1..(m + 1) : j \in 1..m \/ j = m + 1) /\ i + 2 \in Nat
    BY <1>4, <2>1, <2>2, Zenon
  <2>5. /\ Accepts(e, args[i + 1]) /\ w \in [StaticNames -> Int]
        /\ \A q \in PageNames : w[q] = v[q] \/ (q = args[i].word /\ Means(d, q, w[q]))
        /\ args[i].word \in PageNames => Means(d, args[i].word, w[args[i].word])
    <3> HIDE DEF Told
    <3>1. \A f \in Entries(PageTable) : Matches(f, args, i) =>
            /\ Accepts(f, args[i + 1])
            /\ \A x \in [StaticNames -> Int] : Loads(d, args[i].word, x, Load(f, args[i + 1], x))
      BY <1>6, <2>4, PairLoads, Zenon
    <3>2. Accepts(e, args[i + 1]) /\ Loads(d, args[i].word, v, w)
      BY <1>6, <2>3, <3>1, Zenon
    <3> QED
      BY <3>2, Zenon DEF Loads
  <2>6. Told(m + 1, w)
    <3>1. ASSUME NEW j \in 1..m, NEW q \in PageNames, args[2 * j - 1].word = q
          PROVE  Means(d, q, w[q])
      BY <2>1, <2>5, <3>1, Zenon
    <3>2. ASSUME NEW q \in PageNames, args[i].word = q
          PROVE  Means(d, q, w[q])
      BY <2>5, <3>2, Zenon
    <3>3. args[2 * (m + 1) - 1] = args[i]
      BY <2>4
    <3> QED
      BY <2>4, <3>1, <3>2, <3>3, Zenon
  <2>7. <<i + 2, w>> \in Good
    <3> HIDE DEF Told
    <3> QED
      BY <1>2, <2>4, <2>5, <2>6, Zenon
  <2> QED
    BY <2>3, <2>5, <2>7, Zenon
<1>7. \A e \in Entries(PageTable) : e.arg # ""
  BY PageEntries, Zenon DEF IsPageEntry
<1>8. PICK v : v = Parse(PageTable, args, vals).vals
  OBVIOUS
<1>9. <<Len(args) + 1, v>> \in Good
  <2> HIDE DEF Told
  <2>1. <<Len(args) + 1, Parse(PageTable, args, vals).vals>> \in Good
    BY <1>3, <1>5, <1>6, <1>7, PageEntries, ParseEnds, Zenon
  <2> QED
    BY <1>8, <2>1
<1>10. PICK m \in 0..n : Len(args) + 1 = 2 * m + 1 /\ Told(m, v)
  BY <1>2, <1>9, Zenon
<1>11. PICK j \in Nat : j >= 1 /\ 2 * j <= Len(args) /\ args[2 * j - 1].word = o
  BY Zenon DEF Has
<1>12. j \in 1..m
  BY ONLY <1>1, <1>10, <1>11
<1>13. Means(d, o, v[o])
  BY <1>10, <1>11, <1>12, Zenon
<1> QED
  BY <1>8, <1>13, Zenon

LEMMA MeansOne ==
  ASSUME NEW d, NEW s, s \in Width, NEW x
  PROVE  /\ Means(d, Opt("-a", s), x) => x = d.region[s].addr
         /\ Means(d, Opt("-sp", s), x) => x = d.start[s]
<1>1. \A t \in Width : /\ Opt("-a", t) = Opt("-a", s) => t = s
                       /\ Opt("-sp", t) = Opt("-sp", s) => t = s
                       /\ Opt("-s", t) # Opt("-a", s) /\ Opt("-sp", t) # Opt("-a", s)
                       /\ Opt("-ep", t) # Opt("-a", s) /\ Opt("-a", t) # Opt("-sp", s)
                       /\ Opt("-s", t) # Opt("-sp", s) /\ Opt("-ep", t) # Opt("-sp", s)
  BY OptIs DEF Width
<1> QED
  BY <1>1 DEF Means

\* A vmedevice line stores its base and its space.
LEMMA VmeParsed ==
  ASSUME NEW base, base \in Int, NEW s, s \in Int, NEW b,
         NEW args, args = <<Word("-base"), Number(base), Word("-a"), Number(s), Word("-o"), Truth(b)>>,
         NEW vals, vals \in [StaticNames -> Int]
  PROVE  /\ Parse(VmeTable, args, vals).vals["base"] = base
         /\ Parse(VmeTable, args, vals).vals["space"] = s
<1>1. args \in Seq(Token)
  <2>1. /\ Word("-base") \in Token /\ Number(base) \in Token /\ Word("-a") \in Token
        /\ Number(s) \in Token /\ Word("-o") \in Token /\ Truth(b) \in Token
    BY Tokens, WordsAre, TruthTyped, Zenon
  <2> QED
    BY <2>1
<1>2. /\ Len(args) = 6
      /\ args[1].word = "-base" /\ args[2].word = "number" /\ args[2].num = base
      /\ args[3].word = "-a" /\ args[4].word = "number" /\ args[4].num = s
      /\ args[5].word = "-o" /\ args[6].word \in {"true", "false"}
  BY ONLY args = <<Word("-base"), Number(base), Word("-a"), Number(s), Word("-o"), Truth(b)>>
     DEF Word, Number, Truth
<1> DEFINE Told(i, v) == \/ i = 1
                         \/ i = 3 /\ v["base"] = base
                         \/ (i = 5 \/ i = 7) /\ v["base"] = base /\ v["space"] = s
           Good == {p \in Nat \X [StaticNames -> Int] : Told(p[1], p[2])}
<1>3. \A i, v : <<i, v>> \in Good <=> i \in Nat /\ v \in [StaticNames -> Int] /\ Told(i, v)
  OBVIOUS
<1>4. <<1, vals>> \in Good
  OBVIOUS
<1> HIDE DEF Good
<1>5. \A e \in Entries(VmeTable) : e.arg # "" /\ IsVmeEntry(e)
  BY VmeEntries, Zenon DEF IsVmeEntry
<1>6. ASSUME NEW i \in Nat, NEW v, <<i, v>> \in Good
      PROVE  \/ i = Len(args) + 1
             \/ /\ i \in 1..Len(args) /\ i + 1 \in 1..Len(args)
                /\ \E e \in Entries(VmeTable) : Matches(e, args, i)
  <2>1. i = 1 \/ i = 3 \/ i = 5 \/ i = 7
    BY <1>3, <1>6, Zenon
  <2>2. i = 7 => i = Len(args) + 1
    BY ONLY <1>2
  <2>3. i # 7 => i \in 1..Len(args) /\ i + 1 \in 1..Len(args) /\ i < Len(args)
    BY ONLY <1>2, <2>1
  <2>4. CASE i = 1
    <3>1. PICK e \in Entries(VmeTable) : e.routine = "load_constant" /\ e.opt = "-base" /\ e.arg = "*"
      BY VmeEntries
    <3>2. Matches(e, args, i)
      BY <1>2, <2>4, <3>1, Zenon DEF Matches
    <3> QED
      BY <2>3, <2>4, <3>1, <3>2
  <2>5. CASE i = 3
    <3>1. PICK e \in Entries(VmeTable) : e.routine = "load_constant" /\ e.opt = "-a" /\ e.arg = "*"
      BY VmeEntries
    <3>2. Matches(e, args, i)
      BY <1>2, <2>5, <3>1, Zenon DEF Matches
    <3> QED
      BY <2>3, <2>5, <3>1, <3>2
  <2>6. CASE i = 5
    <3>1. PICK e \in Entries(VmeTable) : e.routine = "load_enum" /\ e.opt = "-o" /\ e.arg = args[6].word
      BY <1>2, VmeEntries
    <3>2. args[i + 1] = args[6] /\ args[i] = args[5]
      BY <2>6
    <3>3. i < Len(args)
      BY <2>3, <2>6
    <3>4. Matches(e, args, i)
      BY <1>2, <3>1, <3>2, <3>3, Zenon DEF Matches
    <3> QED
      BY <2>3, <2>6, <3>1, <3>4
  <2> QED
    BY <2>1, <2>2, <2>4, <2>5, <2>6
<1>7. ASSUME NEW e \in Entries(VmeTable), NEW i \in 1..Len(args), NEW v, v \in [StaticNames -> Int],
             <<i, v>> \in Good, i + 1 \in 1..Len(args), Matches(e, args, i)
      PROVE  /\ Accepts(e, args[i + 1])
             /\ <<i + 2, Load(e, args[i + 1], v)>> \in Good
             /\ Load(e, args[i + 1], v) \in [StaticNames -> Int]
  <2>1. /\ i = 1 \/ (i = 3 /\ v["base"] = base) \/ (i = 5 /\ v["base"] = base /\ v["space"] = s)
        /\ i + 2 \in Nat
    <3>1. i # 7 /\ i + 2 \in Nat
      BY ONLY <1>2, <1>7
    <3> QED
      BY <1>3, <1>7, <3>1, Zenon
  <2>2. e.opt = args[i].word /\ IsVmeEntry(e)
    BY <1>5, <1>7, Zenon DEF Matches
  <2>3. PICK w : w = Load(e, args[i + 1], v)
    OBVIOUS
  <2>4. {"base", "space", "vme_online"} \subseteq StaticNames
    BY DEF StaticNames
  <2>5. Accepts(e, args[i + 1]) /\ w \in [StaticNames -> Int] /\ Told(i + 2, w)
    <3>1. CASE i = 1
      <4>1. e.routine = "load_constant" /\ e.var = "base"
        BY <1>2, <2>2, <3>1 DEF IsVmeEntry
      <4>2. args[i + 1] = args[2] /\ i + 2 = 3
        BY <3>1
      <4>3. w = [v EXCEPT !["base"] = base]
        BY <1>2, <2>3, <4>1, <4>2, Zenon DEF Load
      <4>4. w \in [StaticNames -> Int] /\ w["base"] = base
        BY ONLY <1>7, <2>4, <4>3, base \in Int
      <4>5. Accepts(e, args[i + 1])
        BY <1>2, <4>2, Zenon DEF Accepts
      <4> QED
        BY <4>2, <4>4, <4>5, Zenon
    <3>2. CASE i = 3 /\ v["base"] = base
      <4>1. e.routine = "load_constant" /\ e.var = "space"
        BY <1>2, <2>2, <3>2 DEF IsVmeEntry
      <4>2. args[i + 1] = args[4] /\ i + 2 = 5
        BY <3>2
      <4>3. w = [v EXCEPT !["space"] = s]
        BY <1>2, <2>3, <4>1, <4>2, Zenon DEF Load
      <4>4. w \in [StaticNames -> Int] /\ w["base"] = base /\ w["space"] = s
        BY ONLY <1>7, <2>4, <3>2, <4>3, s \in Int
      <4>5. Accepts(e, args[i + 1])
        BY <1>2, <4>2, Zenon DEF Accepts
      <4> QED
        BY <4>2, <4>4, <4>5, Zenon
    <3>3. CASE i = 5 /\ v["base"] = base /\ v["space"] = s
      <4>1. e.routine = "load_enum" /\ e.var = "vme_online" /\ e.value \in {0, 1}
        BY <1>2, <2>2, <3>3 DEF IsVmeEntry
      <4>2. i + 2 = 7
        BY <3>3
      <4>3. w = [v EXCEPT !["vme_online"] = e.value] /\ Accepts(e, args[i + 1])
        BY <2>3, <4>1 DEF Load, Accepts
      <4>4. w \in [StaticNames -> Int] /\ w["base"] = base /\ w["space"] = s
        BY ONLY <1>7, <2>4, <3>3, <4>1, <4>3
      <4> QED
        BY <4>2, <4>3, <4>4, Zenon
    <3> QED
      BY <2>1, <3>1, <3>2, <3>3
  <2> HIDE DEF Told
  <2> QED
    BY <1>3, <2>1, <2>3, <2>5, Zenon
<1>8. PICK v : v = Parse(VmeTable, args, vals).vals
  OBVIOUS
<1>9. <<Len(args) + 1, v>> \in Good
  <2> HIDE DEF Told
  <2>1. <<Len(args) + 1, Parse(VmeTable, args, vals).vals>> \in Good
    <3>1. DOMAIN VmeTable \subseteq Nat
      BY VmeEntries
    <3>2. \A e \in Entries(VmeTable) : e.arg # ""
      BY <1>5
    <3> QED
      BY <1>1, <1>4, <1>6, <1>7, <3>1, <3>2, ParseEnds, Zenon
  <2> QED
    BY <1>8, <2>1
<1>10. v["base"] = base /\ v["space"] = s
  <2>1. Told(Len(args) + 1, v)
    BY <1>3, <1>9, Zenon
  <2>2. Len(args) + 1 = 7 /\ 7 # 1 /\ 7 # 3
    BY ONLY <1>2
  <2> QED
    BY <2>1, <2>2
<1> QED
  BY <1>8, <1>10, Zenon

-----------------------------------------------------------------------------
(* The pages that a repeater line gives.                                     *)

Spoken(line) == {line[i].word : i \in 1..Len(line)}

LEMMA SpokenJoin ==
  ASSUME NEW a, a \in Seq(Token), NEW b, b \in Seq(Token), NEW w, w \in Spoken(a \o b)
  PROVE  w \in Spoken(a) \/ w \in Spoken(b)
<1>1. /\ Len(a \o b) = Len(a) + Len(b)
      /\ \A i \in 1..(Len(a) + Len(b)) : (a \o b)[i] = IF i <= Len(a) THEN a[i] ELSE b[i - Len(a)]
      /\ Len(a) \in Nat /\ Len(b) \in Nat
  BY Concat, TokenIs, Zenon
<1>2. PICK i \in 1..(Len(a) + Len(b)) : (a \o b)[i].word = w
  BY <1>1 DEF Spoken
<1>3. CASE i <= Len(a)
  <2>1. i \in 1..Len(a) /\ (a \o b)[i] = a[i]
    BY <1>1, <1>3
  <2> QED
    BY <1>2, <2>1, Zenon DEF Spoken
<1>4. CASE ~ (i <= Len(a))
  <2>1. i - Len(a) \in 1..Len(b) /\ (a \o b)[i] = b[i - Len(a)]
    BY <1>1, <1>4
  <2> QED
    BY <1>2, <2>1, Zenon DEF Spoken
<1> QED
  BY <1>3, <1>4

LEMMA RegionSpoken ==
  ASSUME NEW d, d \in Device, NEW c, NEW setUp, setUp \in BOOLEAN, NEW s, s \in Width,
         NEW t, t \in Width, Opt("-sp", s) \in Spoken(RegionWords(c, t, setUp, d))
  PROVE  t = s /\ setUp /\ d.region[t].addr # 0
<1> DEFINE w == Opt("-sp", s)
           A == Options1(t, d)
           B == Options2(t, d)
<1>1. A \in Seq(Token) /\ B \in Seq(Token) /\ << >> \in Seq(Token)
  BY OptionsTyped
<1>2. w \notin Spoken(<< >>)
  BY DEF Spoken
<1>3. /\ w # Opt("-a", t) /\ w # Opt("-s", t) /\ w # Opt("-S", t) /\ w # "number" /\ w # "speed"
      /\ w # Opt("-ep", t) /\ (w = Opt("-sp", t) => s = t)
  BY OptIs DEF Width
<1> HIDE DEF w
<1>4. w \notin Spoken(A)
  <2>1. /\ Len(A) = 6 /\ A[1].word = Opt("-a", t) /\ A[2].word = "number" /\ A[3].word = Opt("-s", t)
        /\ A[4].word = "number" /\ A[5].word = Opt("-S", t) /\ A[6].word = "speed"
    BY DEF Options1, Word, Number
  <2> HIDE DEF A
  <2>2. \A i \in 1..Len(A) : i = 1 \/ i = 2 \/ i = 3 \/ i = 4 \/ i = 5 \/ i = 6
    BY ONLY <2>1
  <2> QED
    BY <1>3, <2>1, <2>2, Zenon DEF Spoken
<1>5. w \in Spoken(B) => s = t
  <2>1. /\ Len(B) = 4 /\ B[1].word = Opt("-sp", t) /\ B[2].word = "number" /\ B[3].word = Opt("-ep", t)
        /\ B[4].word = "number"
    BY DEF Options2, Word, Number
  <2> HIDE DEF B
  <2>2. \A i \in 1..Len(B) : i = 1 \/ i = 2 \/ i = 3 \/ i = 4
    BY ONLY <2>1
  <2> QED
    BY <1>3, <2>1, <2>2, Zenon DEF Spoken
<1> HIDE DEF A, B
<1>6. RegionWords(c, t, setUp, d) =
        IF d.region[t].addr = 0 THEN << >> ELSE A \o (IF setUp THEN B ELSE << >>)
  BY RegionWordsAre, Zenon DEF A, B
<1>7. w \in Spoken(RegionWords(c, t, setUp, d))
  BY DEF w
<1>8. d.region[t].addr # 0
  BY <1>2, <1>6, <1>7, Zenon
<1>9. setUp
  <2>1. ASSUME ~ setUp PROVE FALSE
    <3>1. w \in Spoken(A \o << >>)
      BY <1>6, <1>7, <1>8, <2>1, Zenon
    <3> QED
      BY <1>1, <1>2, <1>4, <3>1, SpokenJoin, Zenon
  <2> QED
    BY <2>1
<1>10. w \in Spoken(A \o B)
  BY <1>6, <1>7, <1>8, <1>9, Zenon
<1> QED
  BY <1>1, <1>4, <1>5, <1>8, <1>9, <1>10, SpokenJoin, Zenon

LEMMA LineSpoken ==
  ASSUME NEW d, d \in Device, NEW c, c \in Int, NEW setUp, setUp \in BOOLEAN, NEW s, s \in Width,
         Opt("-sp", s) \in Spoken(RepeaterLine(c, setUp, d))
  PROVE  setUp /\ d.region[s].addr # 0
<1> DEFINE w     == Opt("-sp", s)
           R(t)  == RegionWords(c, t, setUp, d)
           First == <<Word("repeater"), Dev("v120", c, -1)>>
           Final == <<Word("-o"), Truth(d.online)>>
           R2    == R(16) \o R(24)
           R3    == R2 \o R(32)
           FR    == First \o R3
<1>1. RepeaterLine(c, setUp, d) = FR \o Final
  BY RepeaterLineTyped, Zenon DEF AllWords
<1>2. w \notin Spoken(First) /\ w \notin Spoken(Final)
  <2>1. /\ Len(First) = 2 /\ First[1].word = "repeater" /\ First[2].word = "v120"
        /\ Len(Final) = 2 /\ Final[1].word = "-o" /\ Final[2].word \in {"true", "false"}
    BY DEF Word, Dev, Truth
  <2>2. w # "repeater" /\ w # "v120" /\ w # "-o" /\ w # "true" /\ w # "false"
    BY OptIs DEF Width
  <2> HIDE DEF First, Final, w
  <2>3. \A i \in 1..2 : i = 1 \/ i = 2
    OBVIOUS
  <2> QED
    BY <2>1, <2>2, <2>3 DEF Spoken
<1>3. First \in Seq(Token) /\ Final \in Seq(Token)
  <2>1. -1 \in Int
    OBVIOUS
  <2>2. /\ Word("repeater") \in Token /\ Dev("v120", c, -1) \in Token /\ Word("-o") \in Token
        /\ Truth(d.online) \in Token
    BY <2>1, Tokens, WordsAre, TruthTyped, Zenon
  <2> QED
    BY <2>2
<1>4. R(16) \in Seq(Token) /\ R(24) \in Seq(Token) /\ R(32) \in Seq(Token)
  BY RegionWordsTyped DEF Width
<1> HIDE DEF R, First, Final, w
<1>5. R2 \in Seq(Token) /\ R3 \in Seq(Token) /\ FR \in Seq(Token)
  <2>1. R2 \in Seq(Token)
    BY <1>4, Concat, Zenon
  <2> HIDE DEF R2
  <2>2. R3 \in Seq(Token)
    BY <1>4, <2>1, Concat, Zenon
  <2> HIDE DEF R3
  <2>3. FR \in Seq(Token)
    BY <1>3, <2>2, Concat, Zenon
  <2> QED
    BY <2>1, <2>2, <2>3
<1>6. w \in Spoken(R(16)) \/ w \in Spoken(R(24)) \/ w \in Spoken(R(32))
  <2>1. w \in Spoken(FR \o Final)
    BY <1>1, Zenon DEF w
  <2> HIDE DEF R2, R3, FR
  <2>2. w \in Spoken(FR)
    BY <1>2, <1>3, <1>5, <2>1, SpokenJoin, Zenon
  <2>3. w \in Spoken(R3)
    BY <1>2, <1>3, <1>5, <2>2, SpokenJoin, Zenon DEF FR
  <2>4. w \in Spoken(R2) \/ w \in Spoken(R(32))
    BY <1>4, <1>5, <2>3, SpokenJoin, Zenon DEF R3
  <2> QED
    BY <1>4, <1>5, <2>4, SpokenJoin, Zenon DEF R2
<1>7. PICK t \in Width : w \in Spoken(R(t))
  BY <1>6 DEF Width
<1>8. t = s /\ setUp /\ d.region[t].addr # 0
  BY <1>7, RegionSpoken, Zenon DEF w, R
<1> QED
  BY <1>8

\* A board is in the one region of its crate that has the pages of its space.
LEMMA GivenPlace ==
  ASSUME ConfigTypeOK, OutInv, NEW k \in 1..Len(out), IsRepeater(out[k]),
         NEW s \in Width, Opt("-sp", s) \in Spoken(out[k]),
         NEW vals, vals \in [StaticNames -> Int],
         NEW v, v = Parse(PageTable, Options(out[k]), vals).vals,
         NEW c, c = out[k][2].crate
  PROVE  /\ c \in CrateNum
         /\ Mapped(c, s, v) = {[crate |-> c, space |-> s, addr |-> vals["base"]]}
<1>1. ~ DeviceOut(out[k])
  BY DEF DeviceOut, IsDevice, IsRepeater
<1>2. PICK a \in CrateNum, setUp \in BOOLEAN :
        out[k] = RepeaterLine(a, setUp, dev[a]) /\ Seen(a) /\ (setUp => Allotted(a))
  BY <1>1, Zenon DEF OutInv, RepeaterOut
<1>3. PICK d : d = dev[a]
  OBVIOUS
<1>4. d \in Device /\ a \in Int
  BY <1>3, CrateInt DEF ConfigTypeOK
<1>5. PICK line : line = RepeaterLine(a, setUp, d)
  OBVIOUS
<1>6. out[k] = line
  BY <1>2, <1>3, <1>5
<1>7. line[2] = Dev("v120", a, -1) /\ Options(line) = AllWords(a, setUp, d) \o <<Word("-o"), Truth(d.online)>>
  BY <1>4, <1>5, RepeaterLineIs, Zenon
<1>8. c = a
  <2>1. c = line[2].crate
    BY <1>6
  <2> QED
    BY ONLY <1>7, <2>1 DEF Dev
<1>9. setUp /\ d.region[s].addr # 0
  <2>1. Opt("-sp", s) \in Spoken(line)
    BY <1>6
  <2> QED
    BY <1>4, <1>5, <2>1, LineSpoken, Zenon
<1>10. d.start[s] # NoPage
  BY <1>2, <1>3, <1>9, Zenon DEF Allotted
<1>11. <<c, d.start[s], s>> \in pages
  BY <1>3, <1>8, <1>10 DEF ConfigTypeOK
<1>12. PICK args : args = Options(line)
  OBVIOUS
<1>13. /\ args \in Seq(Token) /\ Pairs(d, args) /\ Has(args, Opt("-a", s)) /\ Has(args, Opt("-sp", s))
  BY <1>4, <1>7, <1>9, <1>12, LinePairs, Zenon
<1>14. Opt("-a", s) \in PageNames /\ Opt("-sp", s) \in PageNames
  BY OptIs DEF Width, PageNames
<1>15. v = Parse(PageTable, args, vals).vals
  BY <1>6, <1>12
<1>16. v[Opt("-a", s)] = d.region[s].addr /\ v[Opt("-sp", s)] = d.start[s]
  <2>1. Means(d, Opt("-a", s), v[Opt("-a", s)]) /\ Means(d, Opt("-sp", s), v[Opt("-sp", s)])
    BY <1>13, <1>14, <1>15, PagesParsed, Zenon
  <2> QED
    BY <2>1, MeansOne, Zenon
<1>17. v["base"] = vals["base"] /\ vals["base"] \in Int
  <2>1. v["base"] = vals["base"]
    <3>1. Parse(PageTable, args, vals).vals["base"] = vals["base"]
      BY <1>13, PageParseTyped, Zenon
    <3> QED
      BY ONLY <1>15, <3>1
  <2> QED
    BY <2>1 DEF StaticNames
<1> DEFINE there == {q \in pages : q[1] = c /\ q[2] = v[Opt("-sp", s)]}
           mine  == <<c, d.start[s], s>>
<1>18. there = {mine}
  <2>1. mine \in there
    BY <1>11, <1>16
  <2>2. \A q \in there : q[1] = mine[1] /\ q[2] = mine[2] /\ q \in pages
    BY <1>16
  <2>3. \A q \in there : q = mine
    BY <1>11, <2>2, Zenon DEF ConfigTypeOK
  <2> HIDE DEF there, mine
  <2> QED
    BY <2>1, <2>3
<1>19. Mapped(c, s, v) =
         {[crate |-> c, space |-> q[3],
           addr |-> dev[c].region[q[3]].addr + v["base"] - v[Opt("-a", s)]] : q \in there}
  <2>1. there # {}
    BY <1>18
  <2> QED
    BY <2>1, Zenon DEF Mapped
<1>20. mine[3] = s
  OBVIOUS
<1>21. dev[c].region[s].addr + v["base"] - v[Opt("-a", s)] = vals["base"]
  <2>1. d.region[s].addr \in Int /\ dev[c] = d
    BY <1>3, <1>4, <1>8, DeviceIs, Zenon
  <2>2. \A x, y \in Int : x + y - x = y
    OBVIOUS
  <2> QED
    BY <1>16, <1>17, <2>1, <2>2, Zenon
<1> HIDE DEF there, mine
<1>22. {[crate |-> c, space |-> q[3],
         addr |-> dev[c].region[q[3]].addr + v["base"] - v[Opt("-a", s)]] : q \in there}
       = {[crate |-> c, space |-> s, addr |-> vals["base"]]}
  BY <1>18, <1>20, <1>21
<1> QED
  BY <1>8, <1>19, <1>22

-----------------------------------------------------------------------------
(* The lookups, as a directory.                                              *)

LEMMA FromThird ==
  ASSUME NEW a, NEW b, NEW c, NEW d, NEW e, NEW f, NEW g, NEW h,
         NEW q, q = <<a, b, c, d, e, f, g, h>>
  PROVE  Options(q) = <<c, d, e, f, g, h>>
<1> DEFINE r == SubSeq(q, 3, 8)
<1>1. Len(q) = 8 /\ q[3] = c /\ q[4] = d /\ q[5] = e /\ q[6] = f /\ q[7] = g /\ q[8] = h
  OBVIOUS
<1>2. /\ Len(r) = 6 /\ DOMAIN r = 1..6 /\ \A i \in 1..6 : r[i] = q[i + 2]
      /\ r = [i \in 1..6 |-> q[i + 2]]
  OBVIOUS
<1>3. r[1] = c /\ r[2] = d /\ r[3] = e /\ r[4] = f /\ r[5] = g /\ r[6] = h
  BY <1>1, <1>2
<1> HIDE DEF r
<1>4. r = <<c, d, e, f, g, h>>
  BY ONLY <1>2, <1>3
<1> QED
  BY <1>1, <1>4 DEF r, Options

\* A vmedevice line of the output file, and what looking it up stores.
LEMMA DeviceLineWas ==
  ASSUME ConfigTypeOK, OutInv, NEW k \in 1..Len(out), NEW l, l = out[k], IsDevice(l),
         NEW vals, vals \in [StaticNames -> Int]
  PROVE  /\ l[2].crate \in CrateNum
         /\ Says(l, "-base").num \in Int /\ Says(l, "-a").num \in Int
         /\ Parse(VmeTable, Options(l), vals).vals["base"] = Says(l, "-base").num
         /\ Parse(VmeTable, Options(l), vals).vals["space"] = Says(l, "-a").num
<1>1. DeviceOut(l)
  <2>1. ~ RepeaterOut(l)
    <3>1. ASSUME NEW a \in CrateNum, NEW setUp \in BOOLEAN, l = RepeaterLine(a, setUp, dev[a])
          PROVE  FALSE
      <4>1. dev[a] \in Device /\ a \in Int
        BY CrateInt DEF ConfigTypeOK
      <4>2. ~ IsDevice(RepeaterLine(a, setUp, dev[a]))
        BY <4>1, RepeaterLineIs, Zenon
      <4> QED
        BY <3>1, <4>2, Zenon
    <3> QED
      BY <3>1, Zenon DEF RepeaterOut
  <2> QED
    BY <2>1, Zenon DEF OutInv
<1>2. PICK base \in Nat \ {0}, s \in Width \cup {Off, Bad}, b \in BOOLEAN :
        l = DeviceLine(l, base, s, b) /\ l[2].crate \in CrateNum
  BY <1>1, Zenon DEF DeviceOut
<1>3. base \in Int /\ s \in Int
  BY DEF Width, Off, Bad
<1>4. Says(l, "-base") = Number(base) /\ Says(l, "-a") = Number(s)
  BY <1>2, DeviceSays
<1>5. Says(l, "-base").num = base /\ Says(l, "-a").num = s
  <2>1. Number(base).num = base /\ Number(s).num = s
    BY ONLY TRUE DEF Number
  <2> QED
    BY <1>4, <2>1, Zenon
<1>6. Options(l) = <<Word("-base"), Number(base), Word("-a"), Number(s), Word("-o"), Truth(b)>>
  <2>1. PICK m : m = DeviceLine(l, base, s, b)
    OBVIOUS
  <2>2. PICK v, w, x, y, z, t :
          /\ v = Word("-base") /\ w = Number(base) /\ x = Word("-a") /\ y = Number(s)
          /\ z = Word("-o") /\ t = Truth(b)
    OBVIOUS
  <2>3. Options(m) = <<v, w, x, y, z, t>>
    <3>1. m = <<l[1], l[2], v, w, x, y, z, t>>
      BY ONLY <2>1, <2>2 DEF DeviceLine
    <3>2. PICK f, g : f = l[1] /\ g = l[2]
      OBVIOUS
    <3>3. m = <<f, g, v, w, x, y, z, t>>
      BY ONLY <3>1, <3>2
    <3> QED
      BY ONLY <3>3, FromThird
  <2>4. l = m
    BY <1>2, <2>1
  <2> QED
    BY ONLY <2>2, <2>3, <2>4
<1>7. PICK args : args = Options(l)
  OBVIOUS
<1>8. /\ Parse(VmeTable, args, vals).vals["base"] = base
      /\ Parse(VmeTable, args, vals).vals["space"] = s
  BY <1>3, <1>6, <1>7, VmeParsed
<1> QED
  BY <1>2, <1>3, <1>5, <1>7, <1>8

LEMMA DeviceLinesAre ==
  ASSUME ConfigTypeOK, NEW n
  PROVE  /\ \A k : k \in DeviceLines(n) <=> k \in 1..Len(out) /\ IsDevice(out[k]) /\ out[k][2] = n
         /\ DeviceLines(n) # {} =>
              \E k \in DeviceLines(n) : LineOf(n) = out[k] /\ \A j \in DeviceLines(n) : k <= j
<1>1. DOMAIN out = 1..Len(out) /\ Len(out) \in Nat
  BY DEF ConfigTypeOK
<1>2. \A k : k \in DeviceLines(n) <=> k \in 1..Len(out) /\ IsDevice(out[k]) /\ out[k][2] = n
  BY <1>1, Zenon DEF DeviceLines
<1>3. DeviceLines(n) \subseteq Nat
  BY <1>1, <1>2
<1> QED
  BY <1>2, <1>3, MinIs, Zenon DEF LineOf

\* A listed board: its place has the types of its line.
LEMMA ListedIs ==
  ASSUME ConfigTypeOK, OutInv, NEW n, DeviceLines(n) # {}
  PROVE  /\ n.crate \in CrateNum
         /\ Says(LineOf(n), "-base").num \in Int /\ Says(LineOf(n), "-a").num \in Int
<1>1. PICK k \in DeviceLines(n) : LineOf(n) = out[k]
  BY DeviceLinesAre, Zenon
<1>2. k \in 1..Len(out) /\ IsDevice(out[k]) /\ out[k][2] = n
  BY DeviceLinesAre, Zenon
<1>3. PICK l : l = out[k]
  OBVIOUS
<1>4. PICK vals : vals \in [StaticNames -> Int]
  <2>1. [v \in StaticNames |-> 0] \in [StaticNames -> Int]
    OBVIOUS
  <2> QED
    BY <2>1
<1>5. l[2].crate \in CrateNum /\ Says(l, "-base").num \in Int /\ Says(l, "-a").num \in Int
  BY <1>2, <1>3, <1>4, DeviceLineWas, Zenon
<1> QED
  BY <1>1, <1>2, <1>3, <1>5, Zenon

LEMMA ListingTyped ==
  ASSUME ConfigTypeOK, OutInv
  PROVE  /\ DOMAIN Listing = ListedNames /\ ListedNames \subseteq Name
         /\ \A n \in DOMAIN Listing : Listing[n] \subseteq Place
<1>1. DOMAIN Listing = ListedNames /\ ListedNames \subseteq Name
  BY Zenon DEF Listing, ListedNames
<1>2. ASSUME NEW n \in ListedNames PROVE Listing[n] \subseteq Place
  <2>1. DeviceLines(n) # {} /\ Says(LineOf(n), "-a").num \in Width
    BY Zenon DEF ListedNames
  <2>2. n.crate \in CrateNum /\ Says(LineOf(n), "-base").num \in Int
    BY <2>1, ListedIs, Zenon
  <2>3. [crate |-> n.crate, space |-> Says(LineOf(n), "-a").num,
         addr |-> Says(LineOf(n), "-base").num] \in Place
    BY <2>1, <2>2 DEF Place
  <2>4. \/ Listing[n] = {}
        \/ Listing[n] = {[crate |-> n.crate, space |-> Says(LineOf(n), "-a").num,
                          addr |-> Says(LineOf(n), "-base").num]}
    BY Zenon DEF Listing
  <2> QED
    BY <2>3, <2>4
<1> QED
  BY <1>1, <1>2, Zenon

\* A repeater line of the output file is about the crate that it names.
LEMMA RepeaterSecond ==
  ASSUME ConfigTypeOK, OutInv, NEW k \in 1..Len(out), NEW l, l = out[k], IsRepeater(l)
  PROVE  l[2] = Dev("v120", l[2].crate, -1)
<1>1. ~ DeviceOut(l)
  BY DEF DeviceOut, IsDevice, IsRepeater
<1>2. PICK a \in CrateNum, setUp \in BOOLEAN : l = RepeaterLine(a, setUp, dev[a])
  BY <1>1, Zenon DEF OutInv, RepeaterOut
<1>3. dev[a] \in Device /\ a \in Int
  BY CrateInt DEF ConfigTypeOK
<1>4. l[2] = Dev("v120", a, -1)
  <2>1. PICK m : m = RepeaterLine(a, setUp, dev[a])
    OBVIOUS
  <2>2. m[2] = Dev("v120", a, -1)
    BY <1>3, <2>1, RepeaterLineIs, Zenon
  <2>3. l = m
    BY <1>2, <2>1
  <2> QED
    BY ONLY <2>2, <2>3
<1>5. l[2].crate = a
  BY ONLY <1>4 DEF Dev
<1> QED
  BY <1>4, <1>5

\* The place that the directory gives a listed board.
PlaceOf(n) ==
  [crate |-> n.crate, space |-> Says(LineOf(n), "-a").num, addr |-> Says(LineOf(n), "-base").num]

Remembers(n, v) ==
  /\ v["base"] = Says(LineOf(n), "-base").num
  /\ v["space"] = Says(LineOf(n), "-a").num

\* In the line of its crate, a board whose pages are given is found.
LEMMA GivenStep ==
  ASSUME ConfigTypeOK, OutInv, NEW n, PagesGiven(n),
         NEW k \in 1..Len(out), NEW l, l = out[k], IsRepeater(l), l[2].crate = n.crate,
         NEW vals, vals \in [StaticNames -> Int], Remembers(n, vals), vals["space"] \in Width,
         NEW v, v = Parse(PageTable, Options(l), vals).vals
  PROVE  Mapped(l[2].crate, v["space"], v) = {PlaceOf(n)}
<1>1. PICK s : s = Says(LineOf(n), "-a").num
  OBVIOUS
<1>2. s \in Width /\ vals["space"] = s /\ vals["base"] = Says(LineOf(n), "-base").num
  BY <1>1, Zenon DEF Remembers
<1>3. PICK m \in DOMAIN out :
        /\ IsRepeater(out[m]) /\ out[m][2].crate = n.crate
        /\ \E j \in DOMAIN out[m] : out[m][j].word = Opt("-sp", s)
  BY <1>1, Zenon DEF PagesGiven
<1>4. m \in 1..Len(out)
  BY DEF ConfigTypeOK
<1>5. PICK q : q = out[m]
  OBVIOUS
<1>6. q[2] = Dev("v120", q[2].crate, -1) /\ l[2] = Dev("v120", l[2].crate, -1)
  BY <1>3, <1>4, <1>5, RepeaterSecond
<1>7. q[2] = l[2]
  <2>1. q[2].crate = l[2].crate
    BY <1>3, <1>5
  <2> QED
    BY ONLY <1>6, <2>1
<1>8. m = k
  BY <1>3, <1>4, <1>5, <1>7, Zenon DEF OutInv
<1>9. l \in Seq(Token)
  <2>1. out \in Seq(Seq(Token))
    BY Zenon DEF ConfigTypeOK
  <2> QED
    BY ONLY <2>1, k \in 1..Len(out), l = out[k]
<1>10. Opt("-sp", s) \in Spoken(l)
  <2>1. DOMAIN l = 1..Len(l)
    BY ONLY <1>9
  <2>2. PICK j \in DOMAIN l : l[j].word = Opt("-sp", s)
    BY <1>3, <1>8
  <2> QED
    BY <2>1, <2>2, Zenon DEF Spoken
<1>11. v["space"] = s
  <2>1. Options(l) \in Seq(Token)
    BY <1>9, OptionsAre
  <2>2. Parse(PageTable, Options(l), vals).vals["space"] = vals["space"]
    BY <2>1, PageParseTyped, Zenon
  <2>3. Parse(PageTable, Options(l), vals).vals["space"] = v["space"]
    OBVIOUS
  <2> QED
    BY ONLY <1>2, <2>2, <2>3
<1>12. PICK c : c = l[2].crate
  OBVIOUS
<1>13. Mapped(c, s, v) = {[crate |-> c, space |-> s, addr |-> vals["base"]]}
  BY <1>2, <1>10, <1>12, GivenPlace
<1>14. PlaceOf(n) = [crate |-> c, space |-> s, addr |-> vals["base"]]
  BY <1>1, <1>2, <1>12, Zenon DEF PlaceOf
<1> QED
  BY <1>11, <1>12, <1>13, <1>14, Zenon

\* What the loops have passed over.
NoDeviceYet(n, p)   == \A k \in 1..(p - 1) : k \notin DeviceLines(n)
NoRepeaterYet(n, p) == \A k \in 1..(p - 1) : ~ (IsRepeater(out[k]) /\ out[k][2].crate = n.crate)

DirInv ==
  /\ look.pc = "device" => NoDeviceYet(look.name, look.pos)
  /\ look.pc = "repeater" =>
       /\ DeviceLines(look.name) # {} /\ Remembers(look.name, static)
       /\ static["space"] \in Width /\ PagesGiven(look.name) => NoRepeaterYet(look.name, look.pos)

LEMMA ListingStays ==
  ASSUME UNCHANGED out
  PROVE  /\ Listing' = Listing
         /\ \A n : /\ DeviceLines(n)' = DeviceLines(n) /\ PagesGiven(n)' = PagesGiven(n)
                   /\ \A v : Remembers(n, v) => Remembers(n, v)'
                   /\ \A p : NoDeviceYet(n, p) => NoDeviceYet(n, p)'
                   /\ \A p : NoRepeaterYet(n, p) => NoRepeaterYet(n, p)'
<1>1. \A n : DeviceLines(n)' = DeviceLines(n)
  BY Zenon DEF DeviceLines
<1>2. \A n : LineOf(n)' = LineOf(n)
  BY <1>1, Zenon DEF LineOf
<1>3. \A n : PagesGiven(n)' = PagesGiven(n)
  BY <1>2, Zenon DEF PagesGiven
<1>4. ListedNames' = ListedNames
  BY <1>1, <1>2, Zenon DEF ListedNames
<1>5. Listing' = Listing
  BY <1>2, <1>3, <1>4, Zenon DEF Listing
<1>6. ASSUME NEW n
      PROVE  /\ \A v : Remembers(n, v) => Remembers(n, v)'
             /\ \A p : NoDeviceYet(n, p) => NoDeviceYet(n, p)'
             /\ \A p : NoRepeaterYet(n, p) => NoRepeaterYet(n, p)'
  BY <1>1, <1>2, Zenon DEF Remembers, NoDeviceYet, NoRepeaterYet
<1> QED
  BY <1>1, <1>3, <1>5, <1>6, Zenon

LEMMA Onward ==
  ASSUME NEW p \in Nat, p >= 1
  PROVE  \A k \in 1..((p + 1) - 1) : k \in 1..(p - 1) \/ k = p
OBVIOUS

\* The facts of a step inside of a lookup.
LEMMA InLook ==
  ASSUME LookInv, look.pc # "idle"
  PROVE  /\ ConfigTypeOK /\ look.name \in Name /\ look.name # Nothing /\ stage = "done"
         /\ look.pos \in Nat /\ look.pos >= 1
         /\ look.pos <= Len(out) => look.pos \in 1..Len(out)
         /\ static \in [StaticNames -> Int]
<1>1. /\ ConfigTypeOK /\ look.name \in Name /\ stage = "done"
      /\ look \in [pc: {"idle", "device", "repeater"}, name: Name \cup {Nothing}, pos: 1..(Len(out) + 1)]
  BY Zenon DEF LookInv, LookTypeOK
<1>2. Len(out) \in Nat /\ static \in [StaticNames -> Int]
  BY LookSteps, Zenon
<1>3. look.pos \in Nat /\ look.pos >= 1 /\ (look.pos <= Len(out) => look.pos \in 1..Len(out))
  BY ONLY <1>1, <1>2
<1>4. look.name # Nothing
  BY <1>1, LookupAssumption
<1> QED
  BY <1>1, <1>2, <1>3, <1>4, Zenon

LEMMA SeekDeviceDir ==
  ASSUME LookInv, OutInv, DirInv, SeekDevice
  PROVE  DirInv' /\ look'.name = look.name /\ UNCHANGED <<configVars, answer>>
<1>1. look.pc = "device" /\ look.pos <= Len(out) /\ UNCHANGED <<configVars, answer>>
  BY Zenon DEF SeekDevice
<1>2. PICK n, p, old : n = look.name /\ p = look.pos /\ old = static
  OBVIOUS
<1>3. /\ ConfigTypeOK /\ p \in Nat /\ p >= 1 /\ p \in 1..Len(out)
      /\ old \in [StaticNames -> Int]
  BY <1>1, <1>2, InLook, Zenon
<1>4. PICK l : l = out[p]
  OBVIOUS
<1>5. UNCHANGED out
  BY <1>1, Zenon DEF configVars
<1>6. NoDeviceYet(n, p)
  BY <1>1, <1>2, Zenon DEF DirInv
<1>7. \/ /\ IsDevice(l) /\ l[2] = n
         /\ static' = Parse(VmeTable, Options(l), old).vals
         /\ look' = [look EXCEPT !.pc = "repeater", !.pos = 1]
      \/ /\ ~ (IsDevice(l) /\ l[2] = n)
         /\ look' = [look EXCEPT !.pos = @ + 1] /\ UNCHANGED static
  BY <1>2, <1>4, Zenon DEF SeekDevice
<1>8. look \in [pc: {"idle", "device", "repeater"}, name: Name \cup {Nothing}, pos: 1..(Len(out) + 1)]
  BY Zenon DEF LookInv, LookTypeOK
<1>9. CASE /\ IsDevice(l) /\ l[2] = n
           /\ static' = Parse(VmeTable, Options(l), old).vals
           /\ look' = [look EXCEPT !.pc = "repeater", !.pos = 1]
  <2>1. look'.pc = "repeater" /\ look'.pos = 1 /\ look'.name = n
    BY ONLY <1>2, <1>8, <1>9
  <2>2. p \in DeviceLines(n)
    BY <1>3, <1>4, <1>9, DeviceLinesAre, Zenon
  <2>3. LineOf(n) = l
    <3>1. PICK k \in DeviceLines(n) : LineOf(n) = out[k] /\ \A j \in DeviceLines(n) : k <= j
      BY <1>3, <2>2, DeviceLinesAre, Zenon
    <3>2. k \in 1..Len(out) /\ k <= p
      BY <1>3, <2>2, <3>1, DeviceLinesAre, Zenon
    <3>3. k \in 1..(p - 1) \/ k = p
      BY ONLY <1>3, <3>2
    <3>4. k = p
      BY <1>6, <3>1, <3>3, Zenon DEF NoDeviceYet
    <3> QED
      BY <1>4, <3>1, <3>4, Zenon
  <2>4. PICK new : new = Parse(VmeTable, Options(l), old).vals
    OBVIOUS
  <2>5. Remembers(n, new)
    <3>1. /\ new["base"] = Says(l, "-base").num
          /\ new["space"] = Says(l, "-a").num
      BY <1>3, <1>4, <1>9, <2>4, DeviceLineWas
    <3> QED
      BY <2>3, <3>1, Zenon DEF Remembers
  <2>6. DeviceLines(n)' # {} /\ Remembers(n, new)' /\ static' = new
    BY <1>5, <1>9, <2>2, <2>4, <2>5, ListingStays
  <2>7. NoRepeaterYet(n, 1)'
    BY DEF NoRepeaterYet
  <2> QED
    BY <1>1, <1>2, <2>1, <2>6, <2>7 DEF DirInv
<1>10. CASE /\ ~ (IsDevice(l) /\ l[2] = n)
            /\ look' = [look EXCEPT !.pos = @ + 1] /\ UNCHANGED static
  <2>1. look'.pc = "device" /\ look'.pos = p + 1 /\ look'.name = n
    BY ONLY <1>1, <1>2, <1>8, <1>10
  <2>2. NoDeviceYet(n, p + 1)
    BY <1>3, <1>4, <1>6, <1>10, Onward, DeviceLinesAre, Zenon DEF NoDeviceYet
  <2>3. NoDeviceYet(n, p + 1)'
    BY <1>5, <2>2, ListingStays, Zenon
  <2>4. look'.pc # "repeater"
    BY <2>1
  <2> QED
    BY <1>1, <1>2, <2>1, <2>3, <2>4, Zenon DEF DirInv
<1> QED
  BY <1>7, <1>9, <1>10

\* What the directory may answer.
Answers(n) ==
  {Trouble} \cup (IF n \notin DOMAIN Listing THEN {NotListed}
                  ELSE IF Listing[n] = {} THEN Place \cup {NotListed}
                  ELSE Listing[n])

\* A listed board is in the place that its lines give, if they do.
LEMMA ListingIs ==
  ASSUME NEW n \in Name, DeviceLines(n) # {}, Says(LineOf(n), "-a").num \in Width
  PROVE  /\ n \in DOMAIN Listing
         /\ Listing[n] = IF PagesGiven(n) THEN {PlaceOf(n)} ELSE {}
<1>1. n \in ListedNames /\ DOMAIN Listing = ListedNames
  BY Zenon DEF ListedNames, Listing
<1> QED
  BY <1>1, Zenon DEF Listing, PlaceOf

LEMMA NotFoundDir ==
  ASSUME LookInv, DirInv, NotFound
  PROVE  NotListed \in Answers(look.name)
<1>1. look.pc \in {"device", "repeater"} /\ look.pos = Len(out) + 1
  BY DEF NotFound, LookInv, LookTypeOK
<1>2. PICK n : n = look.name
  OBVIOUS
<1>3. ConfigTypeOK /\ n \in Name /\ look.pc # "idle"
  BY <1>1, <1>2, InLook
<1>4. DOMAIN out = 1..Len(out) /\ (Len(out) + 1) - 1 = Len(out)
  BY <1>3 DEF ConfigTypeOK
<1>5. CASE look.pc = "device"
  <2>1. NoDeviceYet(n, Len(out) + 1)
    BY <1>1, <1>2, <1>5, Zenon DEF DirInv
  <2>2. DeviceLines(n) = {}
    BY <1>3, <1>4, <2>1, DeviceLinesAre, Zenon DEF NoDeviceYet
  <2>3. n \notin DOMAIN Listing
    BY <2>2, Zenon DEF Listing, ListedNames
  <2> QED
    BY <1>2, <2>3, Zenon DEF Answers
<1>6. CASE look.pc = "repeater"
  <2>1. /\ DeviceLines(n) # {} /\ Remembers(n, static)
        /\ static["space"] \in Width /\ PagesGiven(n) => NoRepeaterYet(n, Len(out) + 1)
    BY <1>1, <1>2, <1>6, Zenon DEF DirInv
  <2>2. CASE static["space"] \in Width
    <3>1. Says(LineOf(n), "-a").num \in Width
      BY <2>1, <2>2, Zenon DEF Remembers
    <3>2. ~ PagesGiven(n)
      <4>1. ASSUME PagesGiven(n) PROVE FALSE
        <5>1. NoRepeaterYet(n, Len(out) + 1)
          BY <2>1, <2>2, <4>1
        <5> QED
          BY <1>4, <4>1, <5>1, Zenon DEF NoRepeaterYet, PagesGiven
      <4> QED
        BY <4>1
    <3>3. n \in DOMAIN Listing /\ Listing[n] = {}
      BY <1>3, <2>1, <3>1, <3>2, ListingIs, Zenon
    <3> QED
      BY <1>2, <3>3, Zenon DEF Answers
  <2>3. CASE static["space"] \notin Width
    <3>1. n \notin DOMAIN Listing
      BY <2>1, <2>3, Zenon DEF Listing, ListedNames, Remembers
    <3> QED
      BY <1>2, <3>1, Zenon DEF Answers
  <2> QED
    BY <2>2, <2>3
<1> QED
  BY <1>1, <1>5, <1>6

LEMMA SeekRepeaterDir ==
  ASSUME LookInv, OutInv, DirInv, SeekRepeater
  PROVE  /\ UNCHANGED configVars
         /\ \/ DirInv' /\ look'.name = look.name /\ UNCHANGED answer
            \/ look' = NoLook /\ answer' \in Answers(look.name)
<1>1. look.pc = "repeater" /\ look.pos <= Len(out) /\ UNCHANGED configVars
  BY Zenon DEF SeekRepeater
<1>2. PICK n, p, old : n = look.name /\ p = look.pos /\ old = static
  OBVIOUS
<1>3. /\ ConfigTypeOK /\ p \in Nat /\ p >= 1 /\ p \in 1..Len(out)
      /\ old \in [StaticNames -> Int] /\ n \in Name
  BY <1>1, <1>2, InLook, Zenon
<1>4. PICK l, v : l = out[p] /\ v = Parse(PageTable, Options(l), old).vals
  OBVIOUS
<1>5. PICK s : s = v["space"]
  OBVIOUS
<1> DEFINE here   == IsRepeater(l) /\ l[2].crate = n.crate
           places == IF s \in Width THEN Mapped(l[2].crate, s, v) ELSE {NotListed}
           Goes1  == look' = [look EXCEPT !.pos = @ + 1] /\ UNCHANGED answer
<1>6. \/ here /\ static' = v /\ Return(Trouble)
      \/ /\ here /\ static' = v /\ l[2].crate \in world.crates
         /\ \E place \in places : IF place # NotListed THEN Return(place) ELSE Goes1
      \/ here /\ s \notin Width /\ static' = v /\ Goes1
      \/ ~ here /\ Goes1 /\ UNCHANGED static
  BY <1>2, <1>4, <1>5, Zenon DEF SeekRepeater
<1>7. /\ DeviceLines(n) # {} /\ Remembers(n, old)
      /\ old["space"] \in Width /\ PagesGiven(n) => NoRepeaterYet(n, p)
  BY <1>1, <1>2, Zenon DEF DirInv
<1>8. look \in [pc: {"idle", "device", "repeater"}, name: Name \cup {Nothing}, pos: 1..(Len(out) + 1)]
  BY Zenon DEF LookInv, LookTypeOK
<1>9. UNCHANGED out
  BY <1>1, Zenon DEF configVars
<1>10. v \in [StaticNames -> Int] /\ v["base"] = old["base"] /\ s = old["space"]
  <2>1. l \in Seq(Token)
    <3>1. out \in Seq(Seq(Token))
      BY <1>3, Zenon DEF ConfigTypeOK
    <3> QED
      BY ONLY <1>3, <1>4, <3>1
  <2>2. PICK args : args = Options(l)
    OBVIOUS
  <2>3. args \in Seq(Token)
    BY <2>1, <2>2, OptionsAre
  <2>4. /\ Parse(PageTable, args, old).vals \in [StaticNames -> Int]
        /\ Parse(PageTable, args, old).vals["base"] = old["base"]
        /\ Parse(PageTable, args, old).vals["space"] = old["space"]
    BY <1>3, <2>3, PageParseTyped, Zenon
  <2>5. v = Parse(PageTable, args, old).vals
    BY <1>4, <2>2
  <2> QED
    BY ONLY <1>5, <2>4, <2>5
<1>11. Remembers(n, v)
  BY <1>5, <1>7, <1>10, Zenon DEF Remembers
<1>12. old["space"] = Says(LineOf(n), "-a").num
  BY <1>7, Zenon DEF Remembers
<1>13. s \in Width => /\ n \in DOMAIN Listing
                      /\ Listing[n] = IF PagesGiven(n) THEN {PlaceOf(n)} ELSE {}
  BY <1>3, <1>7, <1>10, <1>12, ListingIs, Zenon
<1>14. s \in Width /\ here /\ PagesGiven(n) => places = {PlaceOf(n)}
  <2>1. ASSUME s \in Width, here, PagesGiven(n) PROVE places = {PlaceOf(n)}
    <3>1. IsRepeater(l) /\ l[2].crate = n.crate /\ old["space"] \in Width
      BY <1>10, <2>1
    <3>2. Mapped(l[2].crate, v["space"], v) = {PlaceOf(n)}
      BY <1>3, <1>4, <1>7, <2>1, <3>1, GivenStep
    <3> QED
      BY <1>5, <2>1, <3>2, Zenon
  <2> QED
    BY <2>1
<1>15. PlaceOf(n) \in Place \/ s \notin Width
  <2>1. n.crate \in CrateNum /\ Says(LineOf(n), "-base").num \in Int
    BY <1>3, <1>7, ListedIs, Zenon
  <2> QED
    BY <1>10, <1>12, <2>1 DEF PlaceOf, Place
<1>16. s \in Width /\ l[2].crate \in world.crates => places \subseteq Place \cup {NotListed}
  <2>1. l[2].crate \in world.crates => l[2].crate \in CrateNum
    BY <1>3, ConfigAssumption, Zenon DEF ConfigTypeOK
  <2> QED
    BY <1>3, <1>10, <2>1, MappedTyped, Zenon
<1> HIDE DEF places, here
<1>17. NotListed \notin Place
  BY LookupAssumption
<1>18. ASSUME Goes1, here => ~ (s \in Width /\ PagesGiven(n)),
              static' = v \/ static' = old
       PROVE  DirInv' /\ look'.name = look.name /\ UNCHANGED answer
  <2>1. look'.pc = "repeater" /\ look'.pos = p + 1 /\ look'.name = n
    BY ONLY <1>1, <1>2, <1>8, <1>18
  <2>2. PICK new : new = static' /\ Remembers(n, new) /\ new["space"] = s
    BY <1>5, <1>7, <1>10, <1>11, <1>18
  <2>3. s \in Width /\ PagesGiven(n) => NoRepeaterYet(n, p + 1)
    <3>1. s \in Width /\ PagesGiven(n) => NoRepeaterYet(n, p) /\ ~ here
      BY <1>7, <1>10, <1>18
    <3> QED
      BY <1>3, <1>4, <3>1, Onward, Zenon DEF NoRepeaterYet, here
  <2>4. /\ DeviceLines(n)' # {} /\ Remembers(n, new)'
        /\ s \in Width /\ PagesGiven(n)' => NoRepeaterYet(n, p + 1)'
    BY <1>7, <1>9, <2>2, <2>3, ListingStays, Zenon
  <2>5. look'.pc # "device"
    BY <2>1
  <2> QED
    BY <1>2, <1>18, <2>1, <2>2, <2>4, <2>5, Zenon DEF DirInv
<1> HIDE DEF Goes1
<1>19. CASE here /\ static' = v /\ Return(Trouble)
  BY <1>1, <1>19, Zenon DEF Return, Answers
<1>20. CASE /\ here /\ static' = v /\ l[2].crate \in world.crates
            /\ \E place \in places : IF place # NotListed THEN Return(place) ELSE Goes1
  <2>1. PICK place \in places : IF place # NotListed THEN Return(place) ELSE Goes1
    BY <1>20
  <2>2. CASE place # NotListed
    <3>1. s \in Width
      BY <2>2 DEF places
    <3>2. place \in Answers(n)
      BY <1>13, <1>14, <1>15, <1>16, <1>20, <3>1 DEF Answers
    <3> QED
      BY <1>1, <1>2, <2>1, <2>2, <3>2, Zenon DEF Return
  <2>3. CASE place = NotListed
    <3>1. ~ (s \in Width /\ PagesGiven(n))
      BY <1>14, <1>15, <1>17, <1>20, <2>3
    <3> QED
      BY <1>1, <1>18, <1>20, <2>1, <2>3, <3>1, Zenon
  <2> QED
    BY <2>2, <2>3
<1>21. CASE ~ here /\ Goes1 /\ UNCHANGED static
  BY <1>1, <1>2, <1>18, <1>21
<1>22. CASE here /\ s \notin Width /\ static' = v /\ Goes1
  BY <1>1, <1>18, <1>22
<1> QED
  BY <1>6, <1>19, <1>20, <1>21, <1>22

Published == IF stage = "done" THEN Listing ELSE << >>

DirectoryStep ==
  Directory!DirectoryNext \/ UNCHANGED <<Published, look.name, answer>>

LEMMA DirectoryBegins ==
  ASSUME LookupInit
  PROVE  DirInv /\ Directory!DirectoryInit
<1>1. look = NoLook /\ answer = Nothing /\ stage = "command"
  BY Zenon DEF LookupInit, LookInit, ConfigInit
<1>2. look.pc = "idle" /\ look.name = Nothing
  BY <1>1 DEF NoLook
<1>3. DirInv
  BY <1>2 DEF DirInv
<1>4. Directory!DirectoryInit
  BY <1>1, <1>2 DEF Directory!DirectoryInit
<1> QED
  BY <1>3, <1>4

\* While the output file is written, nothing is looked up.
LEMMA ConfigDir ==
  ASSUME LookInv, OutInv, DirInv, ConfigNext \/ UNCHANGED configVars, UNCHANGED lookVars
  PROVE  DirInv' /\ DirectoryStep
<1>1. UNCHANGED <<look, static, answer>> /\ ConfigTypeOK
  BY Zenon DEF lookVars, LookInv, LookTypeOK
<1>2. CASE UNCHANGED configVars
  <2>1. UNCHANGED <<out, stage>>
    BY <1>2, Zenon DEF configVars
  <2>2. Listing' = Listing
    BY <2>1, ListingStays
  <2>3. DirInv'
    <3>1. PICK n, p, v : n = look.name /\ p = look.pos /\ v = static
      OBVIOUS
    <3>2. /\ look.pc = "device" => NoDeviceYet(n, p)
          /\ look.pc = "repeater" =>
               /\ DeviceLines(n) # {} /\ Remembers(n, v)
               /\ v["space"] \in Width /\ PagesGiven(n) => NoRepeaterYet(n, p)
      BY <3>1, Zenon DEF DirInv
    <3>3. /\ look.pc = "device" => NoDeviceYet(n, p)'
          /\ look.pc = "repeater" =>
               /\ DeviceLines(n)' # {} /\ Remembers(n, v)'
               /\ v["space"] \in Width /\ PagesGiven(n)' => NoRepeaterYet(n, p)'
      BY <2>1, <3>2, ListingStays, Zenon
    <3> QED
      BY <1>1, <3>1, <3>3, Zenon DEF DirInv
  <2> QED
    BY <1>1, <2>1, <2>2, <2>3, Zenon DEF DirectoryStep, Published
<1>3. CASE ConfigNext
  <2>1. /\ stage \in {"command", "lines"} /\ stage' \in {"exit", "lines", "done", "fault", "overrun"}
        /\ stage' = "done" => UNCHANGED out
    BY <1>1, <1>3, ConfigSteps, ReadLineCases DEF RepeaterLed, DeviceLed
  <2>2. look = NoLook /\ look.name = Nothing /\ look.pc = "idle"
    BY <2>1 DEF LookInv, NoLook
  <2>3. DirInv'
    BY <1>1, <2>2 DEF DirInv
  <2>4. CASE stage' # "done"
    BY <1>1, <2>1, <2>3, <2>4 DEF DirectoryStep, Published
  <2>5. CASE stage' = "done"
    <3>1. Listing' = Listing
      BY <2>1, <2>5, ListingStays
    <3>2. Published = << >> /\ Published' = Listing
      BY <2>1, <2>5, <3>1 DEF Published
    <3>3. DOMAIN Published' \subseteq Name /\ \A n \in DOMAIN Published' : Published'[n] \subseteq Place
      BY <1>1, <3>2, ListingTyped, Zenon
    <3>4. Directory!Publish
      BY <1>1, <3>2, <3>3, Zenon DEF Directory!Publish, Published
    <3> QED
      BY <2>3, <3>4, Zenon DEF DirectoryStep, Directory!DirectoryNext
  <2> QED
    BY <2>3, <2>4, <2>5
<1> QED
  BY <1>2, <1>3

LEMMA AnswerDir ==
  ASSUME LookInv, UNCHANGED configVars, look.pc # "idle", look' = NoLook,
         answer' \in Answers(look.name)
  PROVE  DirInv' /\ DirectoryStep
<1>1. look.name # Nothing /\ stage = "done"
  BY InLook
<1>2. UNCHANGED <<out, stage>>
  BY Zenon DEF configVars
<1>3. Published = Listing /\ Published' = Published
  BY <1>1, <1>2, ListingStays DEF Published
<1>4. look'.name = Nothing /\ look'.pc = "idle"
  BY DEF NoLook
<1>5. DirInv'
  BY <1>4 DEF DirInv
<1>6. Directory!Answer
  BY <1>1, <1>3, <1>4 DEF Directory!Answer, Answers, Published
<1> QED
  BY <1>5, <1>6, Zenon DEF DirectoryStep, Directory!DirectoryNext

\* Each step of the program is one of the directory, or none.
LEMMA DirectorySteps ==
  ASSUME LookInv, OutInv, DirInv, LookupNext \/ UNCHANGED allVars
  PROVE  DirInv' /\ DirectoryStep
<1>1. CASE (ConfigNext \/ UNCHANGED configVars) /\ UNCHANGED lookVars
  BY <1>1, ConfigDir
<1>2. ASSUME UNCHANGED configVars, DirInv', look'.name = look.name, UNCHANGED answer
      PROVE  DirInv' /\ DirectoryStep
  <2>1. UNCHANGED <<out, stage>>
    BY <1>2, Zenon DEF configVars
  <2>2. Published' = Published
    BY <2>1, ListingStays, Zenon DEF Published
  <2> QED
    BY <1>2, <2>2, Zenon DEF DirectoryStep
<1>3. ASSUME NEW name \in Name, Ask(name) PROVE DirInv' /\ DirectoryStep
  <2>1. /\ stage = "done" /\ look.pc = "idle" /\ UNCHANGED <<out, stage>>
        /\ look' = [pc |-> "device", name |-> name, pos |-> 1] /\ answer' = Nothing
    BY <1>3, Zenon DEF Ask, configVars
  <2>2. look = NoLook /\ look.name = Nothing
    BY <2>1 DEF LookInv, NoLook
  <2>3. look'.pc = "device" /\ look'.name = name /\ look'.pos = 1
    BY <2>1
  <2>4. Published' = Published
    BY <2>1, ListingStays, Zenon DEF Published
  <2>5. NoDeviceYet(name, 1)'
    BY DEF NoDeviceYet
  <2>6. DirInv'
    BY <2>3, <2>5 DEF DirInv
  <2>7. Directory!Ask(name)
    BY <2>1, <2>2, <2>3, <2>4, Zenon DEF Directory!Ask, Published
  <2> QED
    BY <2>6, <2>7, Zenon DEF DirectoryStep, Directory!DirectoryNext
<1>4. CASE FileMissing
  <2>1. look.pc # "idle" /\ look' = NoLook /\ answer' = Trouble /\ UNCHANGED configVars
    BY <1>4 DEF FileMissing, Return
  <2>2. answer' \in Answers(look.name)
    BY <2>1, Zenon DEF Answers
  <2> QED
    BY <2>1, <2>2, AnswerDir
<1>5. CASE SeekDevice
  BY <1>2, <1>5, SeekDeviceDir, Zenon
<1>6. CASE SeekRepeater
  <2>1. look.pc # "idle"
    BY <1>6 DEF SeekRepeater
  <2> QED
    BY <1>2, <1>6, <2>1, SeekRepeaterDir, AnswerDir, Zenon
<1>7. CASE NotFound
  <2>1. look.pc # "idle" /\ look' = NoLook /\ answer' = NotListed /\ UNCHANGED configVars
    BY <1>7 DEF NotFound, Return
  <2>2. answer' \in Answers(look.name)
    BY <1>7, <2>1, NotFoundDir, Zenon
  <2> QED
    BY <2>1, <2>2, AnswerDir
<1>8. CASE Restart
  <2>1. look' = NoLook /\ answer' = Nothing /\ UNCHANGED <<out, stage>>
    BY <1>8, Zenon DEF Restart, configVars
  <2>2. look'.name = Nothing /\ look'.pc = "idle"
    BY <2>1 DEF NoLook
  <2>3. Published' = Published
    BY <2>1, ListingStays, Zenon DEF Published
  <2>4. DirInv'
    BY <2>2 DEF DirInv
  <2>5. Directory!Forget
    BY <2>1, <2>2, <2>3, Zenon DEF Directory!Forget, Published
  <2> QED
    BY <2>4, <2>5, Zenon DEF DirectoryStep, Directory!DirectoryNext
<1> QED
  BY <1>1, <1>3, <1>4, <1>5, <1>6, <1>7, <1>8, Zenon DEF LookupNext, Lookup, allVars

\* For an input file with one line per crate, the two loops of
\* get_vaddr_for_device() answer as a directory of the output file does, whatever
\* the variables of earlier calls hold.
THEOREM DirectoryImplemented == LookupSpec /\ ProperInput(input) => ImplementsDirectory
<1>1. LookupInit /\ ProperInput(input) =>
        LookInv /\ OutInv /\ DirInv /\ Directory!DirectoryInit
  <2>1. LookupInit => ConfigInit
    BY Zenon DEF LookupInit
  <2> QED
    BY <2>1, LookInitTyped, OutInit, DirectoryBegins, Zenon
<1>2. LookInv /\ OutInv /\ DirInv /\ [LookupNext]_allVars =>
        /\ LookInv' /\ OutInv' /\ DirInv'
        /\ [Directory!DirectoryNext]_<<Published, look.name, answer>>
  <2>1. LookupNext \/ UNCHANGED allVars => ConfigNext \/ UNCHANGED configVars
    BY Zenon DEF LookupNext, Lookup, Ask, FileMissing, SeekDevice, SeekRepeater, NotFound, Restart,
                 allVars
  <2>2. LookInv => ConfigTypeOK
    BY Zenon DEF LookInv, LookTypeOK
  <2> QED
    BY <2>1, <2>2, LookNextTyped, OutKept, DirectorySteps, Zenon DEF DirectoryStep
<1>3. ImplementsDirectory <=>
        Directory!DirectoryInit /\ [][Directory!DirectoryNext]_<<Published, look.name, answer>>
  BY DEF ImplementsDirectory, Directory!DirectorySpec, Published
<1> QED
  BY <1>1, <1>2, <1>3, PTL DEF LookupSpec

=============================================================================
