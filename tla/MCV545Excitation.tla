--------------------------- MODULE MCV545Excitation ---------------------------
(* Instances of V545Excitation for TLC: two DDS channels that can be set and  *)
(* the fixed one, three coils, legal frequencies and one that is too high.      *)
EXTENDS V545Excitation

=============================================================================
