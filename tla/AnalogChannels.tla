---------------------------- MODULE AnalogChannels ----------------------------
(***************************************************************************)
(* The channels of the V450 (analog inputs) and V470 (analog outputs)      *)
(* boards: configuration, readings and writings with their conversion      *)
(* between counts and volts or degrees (lib/v450_utils/v450_utils.c and    *)
(* lib/v470_utils/v470_utils.c, which are near copies of each other).      *)
(*                                                                         *)
(* The library does not remember a channel's range: each reading and each  *)
(* writing asks the control register for it, while a V450 converts at its  *)
(* own pace and a SETALL macro, perhaps of a program that was killed, may  *)
(* be changing all control registers.  One action is one register access,  *)
(* or one step of the board.                                               *)
(*                                                                         *)
(* Quantities are integers in a unit small enough for every count of every *)
(* range; the sample rate and the reference junction are left out.         *)
(***************************************************************************)
EXTENDS Integers

CONSTANTS
  NumChnls,    \* channels of a board (16)
  Volt, Tc,    \* range codes of voltages and of thermocouples; Off is one of Volt
  Off,
  Low, High,   \* limits of the ranges
  FullScale,   \* counts of a full-scale voltage: 32768, 8388608 for inputs
  Value,       \* voltages and temperatures that occur
  Celsius,     \* temperatures of the simulated sensors, in ten-thousandths of a degree
  Unknown      \* no value

ASSUME ChannelAssumption ==
  /\ NumChnls \in Nat \ {0}
  /\ Off \in Volt
  /\ Volt \cap Tc = {}
  /\ Low \in [Volt \cup Tc -> Int] /\ High \in [Volt \cup Tc -> Int]
  /\ Low[Off] = 0 /\ High[Off] = 0
  /\ \A c \in (Volt \cup Tc) \ {Off} : Low[c] < High[c]
  /\ FullScale \in Nat \ {0}
  /\ \A c \in Tc : Low[c] >= - FullScale /\ High[c] < FullScale
  /\ \A c \in Volt : (High[c] - Low[c]) % (2 * FullScale) = 0   \* counts are whole
  /\ Value \subseteq Int /\ Value # {}
  /\ Unknown \notin Value

\* From absolute zero to the end of a register of 16 bits of sixteenths; in
\* steps of five, so that the Fahrenheit temperature is a whole number too.
ASSUME CelsiusAssumption ==
  /\ Celsius \subseteq Int
  /\ \A t \in Celsius : t % 5 = 0 /\ -2731500 <= t /\ t < 65536 * 625 - 5

VARIABLES
  board,   \* "V450" or "V470"
  ctl,     \* range codes in the control registers
  conv,    \* V450: value and range of the latest conversion, of which
           \* counts[] holds the count
  val,     \* V470: the count in val
  macro,   \* the SETALL command in MACRO, or "none"
  host,    \* the call in progress
  asked    \* history: what an output was last set to, Unknown after its range
           \* changed or while that cannot be relied on

vars == <<board, ctl, conv, val, macro, host, asked>>

Chnl == 0..(NumChnls - 1)
Code == Volt \cup Tc
Word == (- FullScale)..(FullScale - 1)
Conversion == [value: Value, range: Code]
None == "none"
Degrees == {"C", "F", "K", "R"}
AnyValue == CHOOSE v \in Value : TRUE
First == [value |-> AnyValue, range |-> Off]
Idle == [pc |-> "idle", chnl |-> 0, unit |-> Volt, calm |-> FALSE, hi |-> First,
         whole |-> TRUE, range |-> Off, value |-> 0, temp |-> Unknown]

-----------------------------------------------------------------------------
(* Conversions.                                                              *)

Limit(x, low, high) == IF x > high THEN high ELSE IF x < low THEN low ELSE x

\* ratio() of misc_math_utils.c: the place of x in one interval, in another.
Ratio(x, xmin, xmax, ymin, ymax) ==
  IF xmax = xmin THEN 0
  ELSE ((Limit(x, xmin, xmax) - xmin) * (ymax - ymin)) \div (xmax - xmin) + ymin

\* A word is as wide as the counts.
Wrap(x) == ((x + FullScale) % (2 * FullScale)) - FullScale

\* Mutant: the count is not limited to what the word holds.
CountWide(code, x, unit) ==
  IF unit = Volt THEN Ratio(x, Low[code], High[code], - FullScale, FullScale)
  ELSE Wrap(Limit(x, Low[code], High[code]))

\* v470_write_analog_chnl() and v470_write_tc_chnl().  (A temperature's count
\* is the temperature itself, in sixteenths of a degree.)
Count(code, x, unit) ==
  IF unit = Volt
  THEN Wrap(Limit(Ratio(x, Low[code], High[code], - FullScale, FullScale), - FullScale, FullScale - 1))
  ELSE Wrap(Limit(x, Low[code], High[code]))

\* v450_read_analog_chnl() and v450_read_tc_chnl(), which never sees the count
\* of an open thermocouple: it compares a signed word with 0x8000.
Reading(code, count, unit) ==
  IF unit = Volt THEN Ratio(count, - FullScale, FullScale, Low[code], High[code])
  ELSE Limit(count, Low[code], High[code])

UnitOf(code) == IF code \in Tc THEN Tc ELSE Volt

\* The value of one count in a range.
Step(code) == IF code \in Tc THEN 0 ELSE (High[code] - Low[code]) \div (2 * FullScale)

\* What the electronics make of a value, and of a count (external).
Converted(c)      == Count(c.range, c.value, UnitOf(c.range))
Output(code, cnt) == Reading(code, cnt, UnitOf(code))

\* Mutant: Rankine is taken for Kelvin in one of the directions.
ToCelsiusMixed(spec, t) ==
  CASE spec = "C" -> t
    [] spec = "F" -> ((t - 320000) * 5) \div 9
    [] spec \in {"K", "R"} -> t - 2731500

\* deg_conv.c, in ten-thousandths of a degree: to Celsius and from it.
ToCelsius(spec, t) ==
  CASE spec = "C" -> t
    [] spec = "F" -> ((t - 320000) * 5) \div 9
    [] spec = "K" -> t - 2731500
    [] spec = "R" -> ((t - 320000 - 4596700) * 5) \div 9

FromCelsius(spec, c) ==
  CASE spec = "C" -> c
    [] spec = "F" -> (c * 9) \div 5 + 320000
    [] spec = "K" -> c + 2731500
    [] spec = "R" -> (c * 9) \div 5 + 320000 + 4596700

\* What a conversion and its argument, of single precision, may be away from
\* the exact temperature: an ulp of what is below 8192 degrees.
Rounding == -5..5

Sixteenth == 625
Span == 65536 * Sixteenth   \* of the register

\* A conversion to an integer drops the fraction, on either side of zero.
Truncated(x) == IF x < 0 THEN - ((- x) \div Sixteenth) ELSE x \div Sixteenth

\* write_fake_rtd_temp() and read_rtd_temp(): the register holds sixteenths of
\* a degree Celsius, which are read back without a sign.  (C leaves open what
\* a negative number becomes; the build takes its low 16 bits.)
FakeWord(celsius)   == Truncated(celsius) % 65536
RtdTemp(spec, word) == FromCelsius(spec, word * Sixteenth)

-----------------------------------------------------------------------------
TypeOK ==
  /\ board \in {"V450", "V470"}
  /\ ctl \in [Chnl -> Code]
  /\ conv \in [Chnl -> Conversion]
  /\ val \in [Chnl -> Word]
  /\ macro \in Code \cup {None}
  /\ host \in [pc: {"idle", "hi", "lo", "range", "scale", "wait", "done",
               "fake"}, chnl: Chnl,
               unit: {Volt, Tc}, calm: BOOLEAN, hi: Conversion, whole: BOOLEAN,
               range: Code, value: Int, temp: Celsius \cup {Unknown}]
  /\ asked \in [Chnl -> Value \cup {Unknown}]

Init ==
  /\ board \in {"V450", "V470"}
  /\ ctl = [c \in Chnl |-> Off]
  /\ conv = [c \in Chnl |-> First]
  /\ val = [c \in Chnl |-> 0]
  /\ macro = None
  /\ host = Idle
  /\ asked = [c \in Chnl |-> Unknown]

Ready == host.pc \in {"idle", "done", "fake"}

\* config_analog_chnl() and config_tc_chnl(): the range may be any code, the
\* count that is in val stays.
ConfigChnl(chnl, code) ==
  /\ Ready
  /\ ctl' = [ctl EXCEPT ![chnl] = code]
  /\ asked' = [asked EXCEPT ![chnl] = Unknown]
  /\ host' = Idle
  /\ UNCHANGED <<board, conv, val, macro>>

-----------------------------------------------------------------------------
(* Reading a V450 channel.  "calm": as the call begins, no command is under  *)
(* way and the latest conversion was made in the range that is configured.   *)

StartRead(chnl, unit) ==
  /\ Ready /\ board = "V450"
  /\ host' = [Idle EXCEPT !.pc = "hi", !.chnl = chnl, !.unit = unit,
                !.calm = (macro = None /\ conv[chnl].range = ctl[chnl] /\ UnitOf(ctl[chnl]) = unit)]
  /\ UNCHANGED <<board, ctl, conv, val, macro, asked>>

\* ht_read_interlocked(): the high word, which makes the board keep the low one.
ReadHigh ==
  /\ host.pc = "hi"
  /\ host' = [host EXCEPT !.pc = "lo", !.hi = conv[host.chnl]]
  /\ UNCHANGED <<board, ctl, conv, val, macro, asked>>

\* Mutant: the low word is the one of the present conversion.
ReadLowNow ==
  /\ host.pc = "lo"
  /\ host' = [host EXCEPT !.pc = "range", !.whole = (conv[host.chnl] = host.hi)]
  /\ UNCHANGED <<board, ctl, conv, val, macro, asked>>

\* The low word is the one that was kept.
ReadLow ==
  /\ host.pc = "lo"
  /\ host' = [host EXCEPT !.pc = "range"]
  /\ UNCHANGED <<board, ctl, conv, val, macro, asked>>

\* chnl_to_rn_code(), rn_code_to_range() and the conversion.
ReadRange ==
  /\ host.pc = "range" /\ board = "V450"
  /\ host' = [host EXCEPT !.pc = "done", !.range = ctl[host.chnl],
                          !.value = Reading(ctl[host.chnl], Converted(host.hi), host.unit)]
  /\ UNCHANGED <<board, ctl, conv, val, macro, asked>>

\* The board converts a channel (external).
Convert(chnl, value) ==
  /\ board = "V450"
  /\ conv' = [conv EXCEPT ![chnl] = [value |-> value, range |-> ctl[chnl]]]
  /\ UNCHANGED <<board, ctl, val, macro, host, asked>>

-----------------------------------------------------------------------------
(* Writing a V470 channel: the range first, then the count.  "calm": no      *)
(* command is under way.                                                     *)

StartWrite(chnl, value, unit) ==
  /\ Ready /\ board = "V470"
  /\ host' = [Idle EXCEPT !.pc = "range", !.chnl = chnl, !.unit = unit, !.value = value,
                          !.calm = (macro = None /\ UnitOf(ctl[chnl]) = unit)]
  /\ UNCHANGED <<board, ctl, conv, val, macro, asked>>

\* Mutant: the range is always that of channel 0.
FetchFirst ==
  /\ host.pc = "range" /\ board = "V470"
  /\ host' = [host EXCEPT !.pc = "scale", !.range = ctl[0]]
  /\ UNCHANGED <<board, ctl, conv, val, macro, asked>>

FetchRange ==
  /\ host.pc = "range" /\ board = "V470"
  /\ host' = [host EXCEPT !.pc = "scale", !.range = ctl[host.chnl]]
  /\ UNCHANGED <<board, ctl, conv, val, macro, asked>>

WriteCount ==
  /\ host.pc = "scale"
  /\ val' = [val EXCEPT ![host.chnl] = Count(host.range, host.value, host.unit)]
  /\ asked' = [asked EXCEPT ![host.chnl] = IF host.calm THEN host.value ELSE Unknown]
  /\ host' = Idle
  /\ UNCHANGED <<board, ctl, conv, macro>>

\* write_fake_rtd_temp(): no other call touches these registers, so the word is
\* followed, in host.value, until the next call only.
WriteFake(spec, c) ==
  /\ Ready
  /\ \E word \in {FakeWord(ToCelsius(spec, FromCelsius(spec, c)) + e) : e \in Rounding} :
       host' = [Idle EXCEPT !.pc = "fake", !.value = word, !.temp = c]
  /\ UNCHANGED <<board, ctl, conv, val, macro, asked>>

-----------------------------------------------------------------------------
(* The SETALL macros.                                                        *)

SetAll(code) ==
  /\ Ready
  /\ macro = None                      \* else the call is refused
  /\ macro' = code
  /\ host' = [Idle EXCEPT !.pc = "wait"]
  /\ UNCHANGED <<board, ctl, conv, val, asked>>

\* The firmware changes all channels (external).
FirmwareSetsAll ==
  /\ macro # None
  /\ ctl' = [c \in Chnl |-> macro]
  /\ asked' = [c \in Chnl |-> Unknown]
  /\ macro' = None
  /\ UNCHANGED <<board, conv, val, host>>

MacroDone ==
  /\ host.pc = "wait"
  /\ macro = None
  /\ host' = Idle
  /\ UNCHANGED <<board, ctl, conv, val, macro, asked>>

Kill ==
  /\ ~ Ready
  /\ host' = Idle
  /\ UNCHANGED <<board, ctl, conv, val, macro, asked>>

-----------------------------------------------------------------------------
Next ==
  \/ \E chnl \in Chnl, code \in Code : ConfigChnl(chnl, code)
  \/ \E chnl \in Chnl, unit \in {Volt, Tc} : StartRead(chnl, unit)
  \/ ReadHigh \/ ReadLow \/ ReadRange
  \/ \E chnl \in Chnl, value \in Value : Convert(chnl, value)
  \/ \E chnl \in Chnl, value \in Value, unit \in {Volt, Tc} : StartWrite(chnl, value, unit)
  \/ FetchRange \/ WriteCount
  \/ \E spec \in Degrees, c \in Celsius : WriteFake(spec, c)
  \/ \E code \in Code : SetAll(code)
  \/ FirmwareSetsAll \/ MacroDone \/ Kill

Spec == Init /\ [][Next]_vars

-----------------------------------------------------------------------------
(* Properties.                                                               *)

Abs(x) == IF x < 0 THEN - x ELSE x
Within(x, y, d) == Abs(x - y) <= d

\* A reading that began calmly is, to one count, the value of one conversion,
\* limited to the channel's range: its two words belong together, and no late
\* conversion or command has come between them and the range they are scaled with.
ReadingTrue ==
  host.pc = "done" /\ host.calm =>
    /\ host.whole
    /\ Within(host.value, Limit(host.hi.value, Low[host.range], High[host.range]), Step(host.range))

\* An output, as long as its range stays, is to one count what it was last set
\* to, limited to its range: at either end of the range too.
OutputTrue ==
  \A c \in Chnl :
    asked[c] # Unknown =>
      Within(Output(ctl[c], val[c]), Limit(asked[c], Low[ctl[c]], High[ctl[c]]), Step(ctl[c]))

\* What may be lost on the way to the register and back: a sixteenth of a degree
\* Celsius, and three roundings.
Loss(spec) == (IF spec \in {"C", "K"} THEN Sixteenth ELSE (Sixteenth * 9) \div 5) + 15

\* What is written to a simulated temperature sensor in one unit is read from it
\* in any other as the same temperature, but for one sixteenth of a degree Celsius
\* and the rounding of the conversions; a temperature of a sixteenth and more
\* below zero is read 4096 degrees too high.
FakeReadsBack ==
  host.pc = "fake" =>
    \A spec \in Degrees, e \in Rounding :
      LET ReadAs(c) == Within(RtdTemp(spec, host.value) + e, FromCelsius(spec, c), Loss(spec))
      IN  /\ host.temp > 5 - Sixteenth => ReadAs(host.temp)
          /\ host.temp < - 5 - Sixteenth => ReadAs(host.temp + Span)

=============================================================================
