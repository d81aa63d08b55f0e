---------------------------- MODULE MCV375Waveform ----------------------------
(* Instances of V375Waveform for TLC: a memory of two points, which is two     *)
(* blocks of one or one block of two, and files that exercise every kind of    *)
(* wave and of line.                                                           *)
EXTENDS V375Waveform

Given(opts)  == [kind |-> "wavespec", opts |-> opts]
Spec3(type, size, block) == Given([type |-> type, size |-> size, block |-> block])
Sine(size, block, amp, phase) ==
  Given([type |-> "sine", size |-> size, block |-> block, amp |-> amp, phase |-> phase])
Data(from, nums)      == [kind |-> "data", from |-> from, to |-> None, nums |-> nums]
DataRange(from, to, v) == [kind |-> "data", from |-> from, to |-> to, nums |-> <<"low", v>>]
Other(kind) == [kind |-> kind]

\* Waves with data: ranges, the later line of two for the same point, and a
\* Fourier series up to the end of the file.
TwoBlocks ==
  <<Spec3("raw", 1, 1), DataRange(0, 0, "low"), DataRange(0, 0, "high"), Other("blank"),
    Spec3("fourier", 1, 0), Data(0, <<"low", "high">>)>>

\* Waves without and with data: a title, a sine, and points for the same block.
Mixed ==
  <<Other("text"), Sine(2, 0, "high", "low"), Other("blank"),
    Spec3("raw", 2, 0), Data(1, <<"high">>), Data(0, <<"low">>)>>

\* Options left out, to be found in the static variables; a line with too few
\* numbers; data that ends at the next wavespec; and a range read as a harmonic.
Careless ==
  <<Given([block |-> 1, base |-> "high"]), DataRange(0, 0, "high"), Data(1, <<"low">>),
    Spec3("gear", 1, 1), Data(0, <<"high", "low">>), Given([type |-> "sine", size |-> 1]),
    Spec3("pulse_train", 1, 0), Data(0, <<"high">>)>>

\* A pulse train, a gear and a sine that give all that matters for them.
Whole ==
  <<Given([type |-> "pulse_train", size |-> 1, block |-> 0, base |-> "high"]),
    Data(0, <<"high", "low", "low">>), Other("blank"),
    Given([type |-> "gear", size |-> 1, block |-> 0, teeth |-> "low", base |-> "low",
           height |-> "high"]),
    Other("blank"), Sine(1, 1, "low", "low")>>

MCFiles == [c \in Chnl |-> IF c = 0 THEN {TwoBlocks, Mixed, Careless, Whole} ELSE {TwoBlocks}]

=============================================================================
