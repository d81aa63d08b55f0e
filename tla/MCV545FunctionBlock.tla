------------------------- MODULE MCV545FunctionBlock -------------------------
(* Instances of V545FunctionBlock for TLC: an output function that pauses and *)
(* one that does not and may leave coil B, two settings of two values, and    *)
(* the words of STS that the library tells apart.                             *)
EXTENDS V545FunctionBlock

MCStatus == {{"init_complete"}, {"config_error"}, {"init_complete", "signal_error"}}

=============================================================================
