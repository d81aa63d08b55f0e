----------------------------- MODULE MCV450Filters -----------------------------
(* Instance of V450Filters for TLC: two channels, and one filter besides      *)
(* none, which is enough to tell one channel's code from another's.           *)
EXTENDS V450Filters

CONSTANT F1

MCFilter == {F1}

=============================================================================
