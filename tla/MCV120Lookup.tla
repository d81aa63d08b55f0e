------------------------------ MODULE MCV120Lookup ------------------------------
(* Instance of V120Lookup for TLC: two crates with regions side by side, whose *)
(* A16 length is shorter than that of A24; boards that are listed and not      *)
(* there, there and not listed, of an unknown type, and out of the A16 length; *)
(* lines with speeds, with negative crate numbers and without an argument.     *)
EXTENDS V120Lookup

MCSpelling == STRING

MCDevName == {"v210", "v545"}

MCCrate(c) == <<Word("repeater"), Dev("v120", c, -1),
                Word("-a16"), Number(2 + c), Word("-s16"), Number(2),
                Word("-a24"), Number(8), Word("-s24"), Number(3), Word("-S24"), Word("speed")>>

MCShort == <<Word("repeater"), Dev("v120", 1, -1), Word("-a24"), Number(8), Word("-s24"),
             Number(3), Word("-s16"), Number(2), Word("-x16"), Number(5)>>

MCBoard(t, c, n, base) ==
  <<Word("vmedevice"), Dev(t, c, n), Word("-base"), Number(base)>>

MCProper == {
  <<MCCrate(0), MCCrate(1), MCBoard("v545", 0, 0, 2), MCBoard("v210", 0, 0, 8),
    MCBoard("v545", 1, 0, 4)>>,
  <<MCCrate(0), MCBoard("v545", 0, 0, 8), MCShort, MCBoard("v545", 1, 0, 8),
    MCBoard("v210", 1, 0, 8)>>,
  << << >>, MCBoard("v545", 0, 0, 2), MCCrate(0), MCBoard("v999", 0, 0, 2),
     MCBoard("v545", 0, 0, 3), MCBoard("v210", 0, 0, 10)>>,
  <<MCCrate(0), MCBoard("v545", 0, 1, 2), MCBoard("v210", -1, 0, 8)>>,
  <<MCCrate(0)>> }

\* The hypothesis of the proofs.
ASSUME InputsAreProper == \A file \in MCProper : ProperInput(file)

\* Lines that lack their last argument.
MCImproper == {
  <<MCCrate(0), <<Word("vmedevice"), Dev("v545", 0, 0), Word("-base")>>,
    <<Word("vmedevice")>>, <<Word("repeater")>> >> }

MCInput == MCProper \cup MCImproper

MCLeftover == {Number(2), Word("-base"), Dev("v210", 0, 0), Dev("v120", 0, -1)}

MCCommand == {
  <<Word("-i"), Word("input.conf"), Word("-o"), Word("output.conf")>>,
  <<Word("-i"), Word("input.conf"), Word("-o"), Word("output.conf"), Word("-scan"), Word("all")>>,
  <<Word("-i"), Word("input.conf"), Word("-o"), Word("output.conf"), Word("-scan")>>,
  <<Word("-help")>>, <<Word("-help"), Word("repeater")>>, <<Word("-i")>>, <<Word("-q")>> }

MCBoards == {
  [crate |-> 0, space |-> 16, addr |-> 2, type |-> "v545"],
  [crate |-> 0, space |-> 16, addr |-> 3, type |-> "other"],
  [crate |-> 0, space |-> 24, addr |-> 8, type |-> "v210"],
  [crate |-> 1, space |-> 16, addr |-> 4, type |-> "v545"],
  [crate |-> 1, space |-> 24, addr |-> 8, type |-> "v210"] }

MCWorld == {[crates |-> {0, 1}, boards |-> MCBoards],
            [crates |-> {0}, boards |-> {b \in MCBoards : b.type = "v545"}],
            [crates |-> {0, 1}, boards |-> {b \in MCBoards : b.space = 24}]}

MCName == {Dev("v545", 0, 0), Dev("v210", 0, 0), Dev("v545", 1, 0), Dev("v545", 0, 1)}

=============================================================================
