---------------------------- MODULE MCV545Override ----------------------------
(* Instances of V545Override for TLC.  Blocks, outputs and pairs are reduced   *)
(* to the fewest that let two links meet, on one block and on two blocks.      *)
EXTENDS V545Override

=============================================================================
