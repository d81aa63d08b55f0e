------------------------------ MODULE MCV210Relay ------------------------------
(* Instances of V210Relay for TLC: two registers of two relays each, and a    *)
(* channel number below the range.                                            *)
EXTENDS V210Relay

MCChannel == -1..3

=============================================================================
