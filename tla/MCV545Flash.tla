------------------------------ MODULE MCV545Flash ------------------------------
(* Instance of V545Flash for TLC: pages of two words, of which two pages fit *)
(* the flash memory; an image of two pages, the second in part, and another  *)
(* of one page.                                                              *)
EXTENDS V545Flash

CONSTANT A

MCWord == {Zero, A}
MCFile == {[pages |-> << <<A, A>>, <<A, Zero>> >>, bytes |-> 5],
           [pages |-> << <<Zero, A>> >>, bytes |-> 4]}

=============================================================================
