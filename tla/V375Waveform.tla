----------------------------- MODULE V375Waveform -----------------------------
(***************************************************************************)
(* The channels of a V375 waveform generator, configured from wave files   *)
(* by v375_config_chnl_wavefile() (lib/v375_utils/v375_utils.c).           *)
(*                                                                         *)
(* A wave file is read line by line.  A wavespec line gives options, which *)
(* are kept in static variables and so carry over from line to line and    *)
(* from call to call; the data lines after it make up a wave, which is     *)
(* built in a buffer on the stack and then copied to the channel's memory. *)
(* The channel is held in reset while it is configured, and plays the      *)
(* block its BAS and SIZ registers name when it is released.               *)
(*                                                                         *)
(* One action is one line of the file or one register.  A raw wave is the  *)
(* points its data lines list; any other wave is what it was built from:   *)
(* its type, the options that matter for it and its data lines, in order.  *)
(***************************************************************************)
EXTENDS Integers, Sequences

CONSTANTS
  Chnl,     \* channels, numbered from 0
  MemSize,  \* points in a channel's memory (2^16)
  Size,     \* block sizes in points; each divides MemSize
  Block,    \* block numbers the application asks for
  Value,    \* the numbers of data lines and options: amplitudes, phases, teeth, ...
  Zero,     \* the number the static variables begin with
  Files     \* the wave files for each channel: sequences of lines without comments

Type    == {"raw", "sine", "fourier", "gear", "pulse_train"}
Listed  == Type \ {"sine"}                            \* followed by data lines
AtStart == {"gear", "pulse_train"}                    \* built at the start of the buffer
Addr    == 0..(MemSize - 1)
None    == -1

\* What the options of a wavespec line may be; a line may leave any out.
OptionValues ==
  [type |-> Type, size |-> Size, block |-> Int, amp |-> Value, phase |-> Value,
   teeth |-> Value, base |-> Value, height |-> Value, width |-> Value]

\* The static variables; those that are not option values have not been set, or
\* the amplitude is one that was computed.
Options ==
  [type: Type \cup {"none"}, size: Size \cup {0}, block: Int, amp: Value \cup {"computed"},
   phase: Value, teeth: Value, base: Value, height: Value, width: Value]

\* A line that begins with a digit: the number it begins with, the end of the
\* range if a minus sign and another number follow, and the numbers after the
\* first, as sscanf() reads them with %f (the end of a range is negative then).
DataLine == [kind: {"data"}, from: Nat, to: Nat \cup {None}, nums: Seq(Value)]

IsLine(line) ==
  /\ line.kind \in {"wavespec", "data", "blank", "text"}
  /\ line.kind = "data" => line \in DataLine
  /\ line.kind = "wavespec" =>
       /\ DOMAIN line.opts \subseteq DOMAIN OptionValues
       /\ \A k \in DOMAIN line.opts : line.opts[k] \in OptionValues[k]

ASSUME FilesAssumption ==
  \A c \in Chnl : \A f \in Files[c] :
    /\ Len(f) \in Nat /\ DOMAIN f = 1..Len(f)
    /\ \A i \in 1..Len(f) : IsLine(f[i])

ASSUME WaveformAssumption ==
  /\ Chnl \subseteq Nat
  /\ MemSize \in Nat \ {0}
  /\ Size \subseteq 1..MemSize
  /\ \A s \in Size : MemSize % s = 0
  /\ Block \subseteq Int
  /\ Zero \in Value
  /\ "computed" \notin Value

VARIABLES
  resets,   \* RESETS: the channels held in reset
  siz,      \* SIZ of each channel, as a number of points
  bas,      \* BAS: where the block being played begins
  jump,     \* JBA of a channel that is to jump at the end of its block
  counts,   \* FREQ and PHA: the block size the counts were computed with
  mem,      \* wave memory
  opt,      \* the static variables of v375_load_wavetable()
  call,     \* the call in progress
  request   \* history: the file and block asked for, unless the call failed

vars == <<resets, siz, bas, jump, counts, mem, opt, call, request>>

Garbage == [wave |-> "garbage"]
Noise   == [a \in Addr |-> Garbage]
NoOpt   == [type |-> "none", size |-> 0, block |-> 0, amp |-> Zero, phase |-> Zero,
            teeth |-> Zero, base |-> Zero, height |-> Zero, width |-> Zero]
Idle    == [pc |-> "idle", chnl |-> 0, block |-> 0, pos |-> 1, size |-> 0,
            lines |-> <<>>, buf |-> Noise, step |-> 1]
NoFile  == [file |-> <<>>]

\* Mutant: the counts are computed before the size is set.
StepsCountsFirst ==
  <<"frequency", "phase", "size", "routing", "divisor", "start", "release">>

\* The registers written after the file is read, in this order.  The multiplier
\* and the DC offset, which nothing depends on, are left out.
Steps == <<"size", "routing", "frequency", "phase", "divisor", "start", "release">>

IsCell(x) ==
  \/ x = Garbage
  \/ DOMAIN x = {"point"} /\ x.point \in Value
  \/ /\ DOMAIN x = {"wave", "size", "at"}
     /\ DOMAIN x.wave = {"type", "given", "lines"}
     /\ x.wave.type \in Type \ {"raw"}
     /\ x.size \in Size
     /\ x.at \in 0..(x.size - 1)

TypeOK ==
  /\ resets \subseteq Chnl
  /\ siz \in [Chnl -> Size]
  /\ bas \in [Chnl -> Addr]
  /\ jump \in [Chnl -> Addr \cup {None}]
  /\ counts \in [Chnl -> [{"frequency", "phase"} -> Size]]
  /\ DOMAIN mem = Chnl /\ \A c \in Chnl : DOMAIN mem[c] = Addr /\ \A a \in Addr : IsCell(mem[c][a])
  /\ opt \in Options
  /\ call.pc \in {"idle", "spec", "data", "set"}
  /\ call.step \in 1..Len(Steps)
  /\ request \in [Chnl -> [file: UNION {Files[c] : c \in Chnl}, block: Block] \cup {NoFile}]

\* The board powers up with its channels in reset and an unwritten memory.
Init ==
  /\ resets = Chnl
  /\ siz \in [Chnl -> Size]
  /\ bas = [c \in Chnl |-> 0]
  /\ jump = [c \in Chnl |-> None]
  /\ counts = [c \in Chnl |-> [r \in {"frequency", "phase"} |-> siz[c]]]
  /\ mem = [c \in Chnl |-> Noise]
  /\ opt = NoOpt
  /\ call = Idle
  /\ request = [c \in Chnl |-> NoFile]

At(pc)    == call.pc = pc
File      == request[call.chnl].file
EndOfFile == call.pos > Len(File)
Line      == File[call.pos]
Registers == <<resets, siz, bas, jump, counts>>

\* The call returns -1, with what it has written in place.
Fail == call' = Idle /\ request' = [request EXCEPT ![call.chnl] = NoFile]

-----------------------------------------------------------------------------
(* v375_load_wavetable().                                                    *)

\* Mutant: the mask of the one channel is written.
ConfigAlone(c, f, b) ==
  /\ At("idle") /\ jump[c] = None
  /\ resets' = {c}
  /\ call' = [Idle EXCEPT !.pc = "spec", !.chnl = c, !.block = b]
  /\ request' = [request EXCEPT ![c] = [file |-> f, block |-> b]]
  /\ UNCHANGED <<siz, bas, jump, counts, mem, opt>>

\* The call begins by adding the channel to RESETS.  The application lets a
\* jump it asked for take place first, as user/v375/v375.c does.
Config(c, f, b) ==
  /\ At("idle") /\ jump[c] = None
  /\ resets' = resets \cup {c}
  /\ call' = [Idle EXCEPT !.pc = "spec", !.chnl = c, !.block = b]
  /\ request' = [request EXCEPT ![c] = [file |-> f, block |-> b]]
  /\ UNCHANGED <<siz, bas, jump, counts, mem, opt>>

\* The file cannot be opened.
OpenFails ==
  /\ At("spec") /\ call.pos = 1
  /\ Fail
  /\ UNCHANGED <<Registers, mem, opt>>

\* The options of a line over the values that are there.
Override(o, given) ==
  [k \in DOMAIN o |-> IF k \in DOMAIN given THEN given[k] ELSE o[k]]

Offset(o) == o.block * o.size

\* The options that matter for a wave.  -pw matters for none.
Uses ==
  [raw |-> {}, sine |-> {"amp", "phase"}, fourier |-> {}, gear |-> {"teeth", "base", "height"},
   pulse_train |-> {"base"}]

\* A wave is identified by what it is built from.
Wave(o, lines) == [type |-> o.type, given |-> [k \in Uses[o.type] |-> o[k]], lines |-> lines]

\* The buffer after a wave of the options o is built in it; nothing is stored
\* past its end.  The points of a raw wave have been stored line by line.  A
\* Fourier series without harmonics has an uninitialized order.
Built(o, lines) ==
  LET from == IF o.type \in AtStart THEN 0 ELSE Offset(o)
      cell(a) == IF o.type = "fourier" /\ lines = <<>> THEN Garbage
                 ELSE [wave |-> Wave(o, lines), size |-> o.size, at |-> a - from]
  IN  IF o.type = "raw" THEN call.buf
      ELSE [a \in Addr |-> IF a - from \in 0..(o.size - 1) THEN cell(a) ELSE call.buf[a]]

\* v375_load_wavetable_to_memory(): the pointer has as many bits as the memory
\* has addresses.
Copied(o, buf) ==
  LET source(a) == Offset(o) + ((a - Offset(o)) % MemSize)
  IN  [a \in Addr |->
         IF (a - Offset(o)) % MemSize >= o.size THEN mem[call.chnl][a]
         ELSE IF source(a) \in Addr THEN buf[source(a)] ELSE Garbage]

Load(o, lines) ==
  /\ mem' = [mem EXCEPT ![call.chnl] = Copied(o, Built(o, lines))]
  /\ opt' = [o EXCEPT !.amp = IF o.type \in {"fourier", "pulse_train"} THEN "computed" ELSE @]

\* A wavespec line; a wave that takes no data is built at once.  Without a
\* type, from this line or an earlier one, the call fails.
ReadSpec ==
  /\ At("spec") /\ ~ EndOfFile /\ Line.kind = "wavespec"
  /\ LET o    == Override(opt, Line.opts)
         next == [call EXCEPT !.pos = @ + 1, !.size = IF o.size # 0 THEN o.size ELSE @,
                              !.lines = <<>>]
     IN  \/ /\ o.type = "none"
            /\ opt' = o
            /\ Fail
            /\ UNCHANGED mem
         \/ /\ o.type \in Listed
            /\ opt' = o
            /\ call' = [next EXCEPT !.pc = "data"]
            /\ UNCHANGED <<mem, request>>
         \/ /\ o.type = "sine"
            /\ Load(o, <<>>)
            /\ call' = [next EXCEPT !.buf = Built(o, <<>>)]
            /\ UNCHANGED request
  /\ UNCHANGED Registers

\* Any other line outside of a wave's data.
SkipLine ==
  /\ At("spec") /\ ~ EndOfFile /\ Line.kind # "wavespec"
  /\ call' = [call EXCEPT !.pos = @ + 1]
  /\ UNCHANGED <<Registers, mem, opt, request>>

\* How many numbers a data line must have after its first.
Needed == [raw |-> 1, fourier |-> 2, gear |-> 2, pulse_train |-> 3]

Complete(type, line) == Len(line.nums) >= Needed[type]

\* A raw line is a range if a value follows it, or one point: a range is counted
\* from the start of the block, a point from that of the buffer.
IsRange(line)   == line.to # None /\ Len(line.nums) > 1
Level(line)     == IF IsRange(line) THEN line.nums[2] ELSE line.nums[1]
Points(o, line) ==
  IF IsRange(line) THEN (Offset(o) + line.from)..(Offset(o) + line.to) ELSE {line.from}

\* What a data line, complete or not, leaves in the static variables: the
\* numbers are read into the variables of -amp and -pha.
Scanned(o, line) ==
  [o EXCEPT
     !.amp   = IF line.nums = <<>> THEN @
               ELSE IF o.type = "raw" THEN Level(line) ELSE line.nums[1],
     !.phase = IF o.type \in {"fourier", "pulse_train"} /\ Len(line.nums) > 1
               THEN line.nums[2] ELSE @]

ReadData ==
  /\ At("data") /\ ~ EndOfFile /\ Line.kind = "data" /\ Complete(opt.type, Line)
  /\ call' = [call EXCEPT
                !.pos = @ + 1,
                !.lines = Append(@, Line),
                !.buf = IF opt.type # "raw" THEN @
                        ELSE [a \in Addr |-> IF a \in Points(opt, Line)
                                             THEN [point |-> Level(Line)] ELSE @[a]]]
  /\ opt' = Scanned(opt, Line)
  /\ UNCHANGED <<Registers, mem, request>>

\* A line that ends the data has been read like the others: the order of a
\* Fourier series is the number the last line begins with, complete or not.
LastLines == IF EndOfFile \/ Line.kind # "data" THEN call.lines ELSE Append(call.lines, Line)
AtEnd     == IF EndOfFile \/ Line.kind # "data" THEN opt ELSE Scanned(opt, Line)

\* Mutant: the end of the file does not end the data.
EndDataAtLine ==
  /\ At("data")
  /\ IF EndOfFile THEN call' = [call EXCEPT !.pc = "spec"] /\ UNCHANGED <<mem, opt>>
     ELSE /\ Line.kind = "blank" \/ (Line.kind = "data" /\ ~ Complete(opt.type, Line))
          /\ Load(AtEnd, LastLines)
          /\ call' = [call EXCEPT !.pc = "spec", !.pos = @ + 1, !.buf = Built(AtEnd, LastLines)]
  /\ UNCHANGED <<Registers, request>>

\* A blank line, a line that has too few numbers, or the end of the file ends
\* the data: the wave is built and loaded.
EndData ==
  /\ At("data")
  /\ ~ EndOfFile => Line.kind = "blank" \/ (Line.kind = "data" /\ ~ Complete(opt.type, Line))
  /\ Load(AtEnd, LastLines)
  /\ call' = [call EXCEPT !.pc = "spec", !.pos = @ + 1, !.buf = Built(AtEnd, LastLines)]
  /\ UNCHANGED <<Registers, request>>

\* Any other line is taken for the next wavespec, and the wave is dropped.
DropData ==
  /\ At("data") /\ ~ EndOfFile /\ Line.kind \in {"wavespec", "text"}
  /\ call' = [call EXCEPT !.pc = "spec"]
  /\ UNCHANGED <<Registers, mem, opt, request>>

\* Mutant: the loop goes on while read_line() is not 0, and EOF is -1.
EndOfLinesMissed ==
  /\ At("spec") /\ EndOfFile
  /\ call' = [call EXCEPT !.pos = Len(File) + 1]
  /\ UNCHANGED <<Registers, mem, opt, request>>

\* *pblksize is the last size the file set; without any it is uninitialized.
EndOfLines ==
  /\ At("spec") /\ EndOfFile
  /\ \E s \in IF call.size = 0 THEN Size \cup {0} ELSE {call.size} :
       call' = [Idle EXCEPT !.pc = "set", !.chnl = call.chnl, !.block = call.block, !.size = s]
  /\ UNCHANGED <<Registers, mem, opt, request>>

-----------------------------------------------------------------------------
(* The registers.                                                            *)

Step(name) == At("set") /\ Steps[call.step] = name

Done == call' = [call EXCEPT !.step = @ + 1] /\ UNCHANGED <<mem, opt, request>>

\* A setter that refuses its argument ends the call.
Refuse == Fail /\ UNCHANGED <<Registers, mem, opt>>

SetSize ==
  /\ Step("size")
  /\ \/ /\ call.size \in Size
        /\ siz' = [siz EXCEPT ![call.chnl] = call.size]
        /\ Done
        /\ UNCHANGED <<resets, bas, jump, counts>>
     \/ /\ call.size \notin Size
        /\ Refuse

\* The clock source, the summing mask and the low-pass filter, each of which
\* can be refused.
SetRouting ==
  /\ Step("routing")
  /\ \/ Done /\ UNCHANGED Registers
     \/ Refuse

\* The counts are computed with the block size in SIZ.
SetCounts(name) ==
  /\ Step(name)
  /\ counts' = [counts EXCEPT ![call.chnl][name] = siz[call.chnl]]
  /\ Done
  /\ UNCHANGED <<resets, siz, bas, jump>>

SetFrequency == SetCounts("frequency")

\* A negative phase is refused.
SetPhase == SetCounts("phase") \/ (Step("phase") /\ Refuse)

\* The channel's bit of RESETS is compared with 1.
InReset(c) == IF c \in resets THEN 2^c = 1 ELSE FALSE

SetDivisor ==
  /\ Step("divisor")
  /\ \/ /\ InReset(call.chnl)
        /\ Done
        /\ UNCHANGED Registers
     \/ Refuse

\* Mutant: the address is not cut to 16 bits.
SetStartWide ==
  /\ Step("start")
  /\ bas' = [bas EXCEPT ![call.chnl] = call.block * call.size]
  /\ Done
  /\ UNCHANGED <<resets, siz, jump, counts>>

\* v375_load_waveform_start_location(): BAS has 16 bits.
SetStart ==
  /\ Step("start")
  /\ bas' = [bas EXCEPT ![call.chnl] = (call.block * call.size) % MemSize]
  /\ Done
  /\ UNCHANGED <<resets, siz, jump, counts>>

Release ==
  /\ Step("release")
  /\ resets' = resets \ {call.chnl}
  /\ call' = Idle
  /\ UNCHANGED <<siz, bas, jump, counts, mem, opt, request>>

-----------------------------------------------------------------------------
(* A playing channel.                                                        *)

\* v375_set_new_active_block(): only block numbers above the range are refused.
SetNewActiveBlock(c, b) ==
  /\ At("idle") /\ c \notin resets /\ jump[c] = None
  /\ b < MemSize \div siz[c]
  /\ jump' = [jump EXCEPT ![c] = (b * siz[c]) % MemSize]
  /\ request' = [request EXCEPT ![c].block = b]
  /\ UNCHANGED <<resets, siz, bas, counts, mem, opt, call>>

\* The channel reaches the end of its block (external).
Jump(c) ==
  /\ jump[c] # None /\ c \notin resets
  /\ bas' = [bas EXCEPT ![c] = jump[c]]
  /\ jump' = [jump EXCEPT ![c] = None]
  /\ UNCHANGED <<resets, siz, counts, mem, opt, call, request>>

\* The program is killed in a call, or faults, and starts again: the static
\* variables are gone, the board stays.
KillAndRestart ==
  /\ ~ At("idle")
  /\ Fail
  /\ opt' = NoOpt
  /\ UNCHANGED <<Registers, mem>>

Reading == ReadSpec \/ SkipLine \/ ReadData \/ EndData \/ DropData \/ EndOfLines

Setting ==
  \/ SetSize \/ SetRouting \/ SetFrequency \/ SetPhase \/ SetDivisor \/ SetStart \/ Release

Continue == OpenFails \/ Reading \/ Setting

Next ==
  \/ \E c \in Chnl, b \in Block : \E f \in Files[c] : Config(c, f, b)
  \/ Continue
  \/ \E c \in Chnl, b \in Block : SetNewActiveBlock(c, b)
  \/ \E c \in Chnl : Jump(c)
  \/ KillAndRestart

Spec == Init /\ [][Next]_vars

\* A call is straight-line code: it goes on as long as the program runs.
FairSpec == Spec /\ WF_vars(Continue)

-----------------------------------------------------------------------------
(* What a wave file says, independently of how it is read.                   *)

Specs(f) == {i \in 1..Len(f) : f[i].kind = "wavespec"}

\* The data lines that follow line i without a gap, and the last of them.
DataLines(f, i) ==
  {l \in (i + 1)..Len(f) : \A k \in (i + 1)..l : f[k].kind = "data"}

DataEnd(f, i) ==
  CHOOSE e \in i..Len(f) :
    /\ \A k \in (i + 1)..e : f[k].kind = "data"
    /\ e = Len(f) \/ f[e + 1].kind # "data"

\* The wave of line i: a sine takes no data lines.
WaveAt(f, i) ==
  [type  |-> f[i].opts.type,
   given |-> [k \in Uses[f[i].opts.type] |-> f[i].opts[k]],
   lines |-> IF f[i].opts.type = "sine" THEN <<>>
             ELSE [k \in 1..(DataEnd(f, i) - i) |-> f[i + k]]]

\* A raw line lists the point k of a block.
Lists(line, k) == IF IsRange(line) THEN k \in line.from..line.to ELSE k = line.from

\* The last line after line i and up to line e that lists it.
LastLine(f, i, e, k) ==
  {l \in (i + 1)..e : Lists(f[l], k) /\ \A m \in (i + 1)..e : Lists(f[m], k) => m <= l}

\* x is the point k of the wave of line i.
IsPoint(x, f, i, k) ==
  IF f[i].opts.type = "raw"
  THEN \E l \in LastLine(f, i, DataEnd(f, i), k) : x = [point |-> Level(f[l])]
  ELSE x = [wave |-> WaveAt(f, i), size |-> f[i].opts.size, at |-> k]

\* The form of the man page's examples: every wavespec gives the options that
\* matter for its type, of one block size and in the memory; every data line has
\* the numbers it needs, and they are followed by a blank line or the end of the
\* file; a raw wave lists all of its points, by ranges unless it is for block 0,
\* as what is built at the start of the buffer must be.
WellFormed(f) ==
  /\ Specs(f) # {}
  /\ \A i \in Specs(f) :
       /\ {"type", "size", "block"} \subseteq DOMAIN f[i].opts
       /\ Uses[f[i].opts.type] \subseteq DOMAIN f[i].opts
       /\ f[i].opts.block \in 0..(MemSize \div f[i].opts.size - 1)
       /\ f[i].opts.type \in AtStart => f[i].opts.block = 0
       /\ f[i].opts.type = "fourier" => DataEnd(f, i) > i
       /\ f[i].opts.type \in Listed =>
            /\ \A l \in DataLines(f, i) : Complete(f[i].opts.type, f[l])
            /\ DataEnd(f, i) # Len(f) => f[DataEnd(f, i) + 1].kind = "blank"
       /\ f[i].opts.type = "raw" =>
            /\ \A k \in 0..(f[i].opts.size - 1) : \E l \in DataLines(f, i) : Lists(f[l], k)
            /\ f[i].opts.block # 0 => \A l \in DataLines(f, i) : IsRange(f[l])
  /\ \A i, j \in Specs(f) : f[i].opts.size = f[j].opts.size

\* The last wave the file gives for block b.
LastSpec(f, b) ==
  {i \in Specs(f) : f[i].opts.block = b /\ \A j \in Specs(f) : f[j].opts.block = b => j <= i}

-----------------------------------------------------------------------------
(* Properties.                                                               *)

\* A channel that plays, plays the block its last configuration or transition
\* asked for, whole, as its file describes it, if the file is well-formed and
\* has the block: whatever was read, refused or killed before, and for whichever
\* channel.  A channel whose configuration failed half way is silent.
PlaysRequested ==
  \A c \in Chnl \ resets :
    /\ request[c] # NoFile
    /\ jump[c] = None /\ WellFormed(request[c].file) =>
         \A i \in LastSpec(request[c].file, request[c].block) :
           /\ siz[c] = request[c].file[i].opts.size
           /\ \A k \in 0..(siz[c] - 1) :
                IsPoint(mem[c][(bas[c] + k) % MemSize], request[c].file, i, k)

\* The frequency and the phase of a playing channel were computed for the block
\* size it plays.
CountsFit == \A c \in Chnl \ resets : \A r \in {"frequency", "phase"} : counts[c][r] = siz[c]

\* A call on one channel neither stops nor changes what another one plays.
OthersPlayOn ==
  [][call' # call =>
       \A c \in Chnl \ {IF At("idle") THEN call'.chnl ELSE call.chnl} :
         /\ (c \in resets) = (c \in resets')
         /\ siz'[c] = siz[c] /\ bas'[c] = bas[c] /\ counts'[c] = counts[c]
         /\ mem'[c] = mem[c]]_vars

\* v375_config_chnl_wavefile() returns, whatever the file holds.
ConfigReturns == ~ At("idle") ~> At("idle")

=============================================================================
