------------------------------ MODULE MCV120Scan ------------------------------
(* Instances of V120Scan for TLC: two crates, whose A24 regions are longer     *)
(* than the A16 ones, and the second of which has its regions elsewhere, in    *)
(* part where the first has them; up to two boards in the first crate and one  *)
(* in the second.                                                              *)
EXTENDS V120Scan, FiniteSetsExt

MCSpacing == [type \in Type |-> IF type = "v545" THEN 2 ELSE 1]

MCBase == [crate \in Crate |-> IF crate = 0 THEN <<2, 4, 8>> ELSE <<1, 5, 10>>]
MCLen  == [crate \in Crate |-> <<2, 3, 2>>]

MCBoard(crate) ==
  {board \in [crate: {crate}, space: Space, off: 0..2, type: Type] :
     board.off + MCSpacing[board.type] <= MCLen[board.crate][board.space]}

MCApart(boards_) ==
  \A a, b \in boards_ : a.space = b.space /\ a # b =>
    \A off \in 0..2 : ~ (Occupies(a, off) /\ Occupies(b, off))

MCSlots(crate, k) == {s \in UNION {kSubset(i, MCBoard(crate)) : i \in 0..k} : MCApart(s)}

MCChassis == {s \cup t : s \in MCSlots(0, 2),
                        t \in IF NumCrates > 1 THEN MCSlots(1, 1) ELSE {{}}}

=============================================================================
