--------------------------- MODULE MCAnalogChannels ---------------------------
(* Instance of AnalogChannels for TLC: two channels, two ranges of volts of   *)
(* which the larger has two units to a count, a thermocouple whose range is   *)
(* not symmetric, and values within, at the ends of and beyond the ranges.    *)
EXTENDS AnalogChannels

MCVolt  == {"OFF", "4V", "8V"}
MCTc    == {"TYPE_J"}
MCLow   == [c \in MCVolt \cup MCTc |-> CASE c = "OFF" -> 0 [] c = "4V" -> -4 [] c = "8V" -> -8 [] OTHER -> -2]
MCHigh  == [c \in MCVolt \cup MCTc |-> CASE c = "OFF" -> 0 [] c = "4V" -> 4 [] c = "8V" -> 8 [] OTHER -> 3]
MCValue == {-9, 3, 8}

\* -20, -0.05 and 1200 degrees Celsius.
MCCelsius == {-200000, -500, 12000000}

=============================================================================
