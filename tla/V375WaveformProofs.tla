-------------------------- MODULE V375WaveformProofs --------------------------
(***************************************************************************)
(* Proofs about V375Waveform, for any channels, memory, block sizes and    *)
(* wave files.                                                             *)
(***************************************************************************)
EXTENDS V375Waveform, TLAPS

-----------------------------------------------------------------------------
(* The order of the register writes.                                         *)

LEMMA StepsAre ==
  /\ Len(Steps) = 7
  /\ \A n \in 1..7 :
       /\ Steps[n] = "size" <=> n = 1
       /\ Steps[n] = "routing" <=> n = 2
       /\ Steps[n] = "frequency" <=> n = 3
       /\ Steps[n] = "phase" <=> n = 4
       /\ Steps[n] = "divisor" <=> n = 5
       /\ Steps[n] = "start" <=> n = 6
       /\ Steps[n] = "release" <=> n = 7
BY DEF Steps

-----------------------------------------------------------------------------
(* The buffer and the memory hold cells.                                     *)

Cells(m) == DOMAIN m = Addr /\ \A a \in Addr : IsCell(m[a])

LEMMA NoiseCells == Cells(Noise)
BY DEF Noise, Cells, IsCell

\* Options a wave can be built with.
IsOpt(o) == o \in Options /\ o.type \in Type

LEMMA SizesAre ==
  /\ Size \subseteq Nat \ {0} /\ Size \cup {0} \subseteq Int
  /\ MemSize \in Nat \ {0} /\ Addr \subseteq Nat
BY WaveformAssumption DEF Addr

LEMMA OptionsAre ==
  ASSUME NEW o \in Options
  PROVE  /\ DOMAIN o = {"type", "size", "block", "amp", "phase", "teeth", "base", "height", "width"}
         /\ o.type \in Type \cup {"none"} /\ o.size \in Size \cup {0} /\ o.block \in Int
         /\ o.amp \in Value \cup {"computed"} /\ o.phase \in Value
BY DEF Options

LEMMA NoOptTyped == NoOpt \in Options
<1>1. PICK v \in Value : v = Zero
  BY WaveformAssumption
<1>2. NoOpt = [type |-> "none", size |-> 0, block |-> 0, amp |-> v, phase |-> v,
               teeth |-> v, base |-> v, height |-> v, width |-> v]
  BY <1>1, Zenon DEF NoOpt
<1>3. v \in Value \cup {"computed"} /\ "none" \in Type \cup {"none"} /\ 0 \in Size \cup {0} /\ 0 \in Int
  OBVIOUS
<1> QED
  BY <1>1, <1>2, <1>3 DEF Options

LEMMA OffsetInt ==
  ASSUME NEW o \in Options
  PROVE  Offset(o) \in Int
<1>1. PICK x \in Int : x = o.block
  BY OptionsAre
<1>2. PICK y \in Int : y = o.size
  <2>1. o.size \in Size \cup {0}
    BY OptionsAre
  <2> QED
    BY <2>1, SizesAre, Zenon
<1>3. x * y \in Int
  OBVIOUS
<1> QED
  BY <1>1, <1>2, <1>3, Zenon DEF Offset

LEMMA BuiltCells ==
  ASSUME NEW o, IsOpt(o), NEW lines, Cells(call.buf)
  PROVE  Cells(Built(o, lines))
<1>1. Offset(o) \in Int
  BY OffsetInt, Zenon DEF IsOpt
<1>2. PICK from \in Int : from = IF o.type \in AtStart THEN 0 ELSE Offset(o)
  BY <1>1
<1> DEFINE cell(a) == IF o.type = "fourier" /\ lines = <<>> THEN Garbage
                      ELSE [wave |-> Wave(o, lines), size |-> o.size, at |-> a - from]
<1>3. ASSUME o.type # "raw", NEW a \in Addr, a - from \in 0..(o.size - 1)
      PROVE  IsCell(cell(a))
  <2>1. o.size \in Size /\ o.type \in Type \ {"raw"}
    <3>1. o.size \in Size \cup {0} /\ o.type \in Type
      BY OptionsAre DEF IsOpt
    <3> QED
      BY <1>3, <3>1, SizesAre
  <2>2. CASE o.type = "fourier" /\ lines = <<>>
    BY <2>2 DEF IsCell
  <2>3. CASE ~ (o.type = "fourier" /\ lines = <<>>)
    <3>1. cell(a) = [wave |-> Wave(o, lines), size |-> o.size, at |-> a - from]
      BY <2>3
    <3>2. DOMAIN Wave(o, lines) = {"type", "given", "lines"} /\ Wave(o, lines).type = o.type
      BY DEF Wave
    <3> HIDE DEF cell
    <3> QED
      BY <1>3, <2>1, <3>1, <3>2 DEF IsCell
  <2> QED
    BY <2>2, <2>3
<1>4. CASE o.type = "raw"
  BY <1>4, Zenon DEF Built
<1>5. CASE o.type # "raw"
  <2>1. Built(o, lines)
          = [a \in Addr |-> IF a - from \in 0..(o.size - 1) THEN cell(a) ELSE call.buf[a]]
    BY <1>2, <1>5, Zenon DEF Built
  <2> HIDE DEF cell
  <2> QED
    BY <1>3, <1>5, <2>1, Zenon DEF Cells
<1> QED
  BY <1>4, <1>5

\* The points of a raw line are stored.
LEMMA StoredCells ==
  ASSUME NEW buf, Cells(buf), NEW points, NEW v \in Value
  PROVE  Cells([a \in Addr |-> IF a \in points THEN [point |-> v] ELSE buf[a]])
<1>1. IsCell([point |-> v])
  BY DEF IsCell
<1> QED
  BY <1>1, Zenon DEF Cells

LEMMA CopiedCells ==
  ASSUME NEW o, NEW buf, Cells(buf), Cells(mem[call.chnl])
  PROVE  Cells(Copied(o, buf))
<1>1. IsCell(Garbage)
  BY DEF IsCell
<1> QED
  BY <1>1, Zenon DEF Copied, Cells

LEMMA OverrideOpt ==
  ASSUME NEW line, IsLine(line), line.kind = "wavespec",
         opt \in Options
  PROVE  /\ Override(opt, line.opts) \in Options
         /\ Override(opt, line.opts).type # "none" => IsOpt(Override(opt, line.opts))
         /\ \A k \in DOMAIN line.opts : Override(opt, line.opts)[k] = line.opts[k]
<1>1. /\ DOMAIN line.opts \subseteq DOMAIN OptionValues
      /\ \A k \in DOMAIN line.opts : line.opts[k] \in OptionValues[k]
  BY Zenon DEF IsLine
<1>2. DOMAIN opt = DOMAIN OptionValues
  BY OptionsAre DEF OptionValues
<1>3. /\ Override(opt, line.opts) \in Options
      /\ \A k \in DOMAIN line.opts : Override(opt, line.opts)[k] = line.opts[k]
  <2>1. /\ DOMAIN Override(opt, line.opts) = DOMAIN OptionValues
        /\ \A k \in DOMAIN OptionValues :
             Override(opt, line.opts)[k] = IF k \in DOMAIN line.opts THEN line.opts[k] ELSE opt[k]
    BY <1>2, Zenon DEF Override
  <2> DEFINE o == Override(opt, line.opts)
  <2> HIDE DEF o
  <2>2. o = [k \in DOMAIN OptionValues |-> o[k]]
    BY <1>2, Zenon DEF o, Override
  <2>3. ASSUME NEW k \in DOMAIN OptionValues
        PROVE  o[k] = opt[k] \/ o[k] \in OptionValues[k]
    BY <1>1, <2>1, Zenon DEF o
  <2>4. o \in Options
    <3>1. /\ o["type"] \in Type \cup {"none"} /\ o["size"] \in Size \cup {0}
          /\ o["block"] \in Int /\ o["amp"] \in Value \cup {"computed"}
          /\ o["phase"] \in Value /\ o["teeth"] \in Value /\ o["base"] \in Value
          /\ o["height"] \in Value /\ o["width"] \in Value
      BY <2>3 DEF OptionValues, Options
    <3>2. DOMAIN OptionValues
            = {"type", "size", "block", "amp", "phase", "teeth", "base", "height", "width"}
      BY DEF OptionValues
    <3> QED
      BY <2>2, <3>1, <3>2 DEF Options
  <2> QED
    BY <1>1, <2>1, <2>4 DEF o
<1>4. Override(opt, line.opts).type # "none" => Override(opt, line.opts).type \in Type
  BY <1>3, OptionsAre
<1> QED
  BY <1>3, <1>4, Zenon DEF IsOpt

\* A data line leaves the type, the size and the block alone.
LEMMA ScannedOpt ==
  ASSUME NEW o \in Options, NEW line \in DataLine
  PROVE  /\ Scanned(o, line) \in Options
         /\ Scanned(o, line).type = o.type /\ Scanned(o, line).size = o.size
         /\ Scanned(o, line).block = o.block
         /\ \A k \in {"teeth", "base", "height"} : Scanned(o, line)[k] = o[k]
<1>1. line.nums \in Seq(Value)
  BY DEF DataLine
<1>2. PICK nums \in Seq(Value) : nums = line.nums
  BY <1>1
<1>3. nums # <<>> => nums[1] \in Value
  BY <1>2
<1>4. Len(nums) > 1 => nums[2] \in Value
  BY <1>2
<1>5. nums # <<>> => Level(line) \in Value
  BY <1>2, <1>3, <1>4 DEF Level, IsRange
<1>6. PICK amp \in Value \cup {"computed"} :
        amp = IF line.nums = <<>> THEN o.amp
              ELSE IF o.type = "raw" THEN Level(line) ELSE line.nums[1]
  BY <1>2, <1>3, <1>5, OptionsAre
<1>7. PICK phase \in Value :
        phase = IF o.type \in {"fourier", "pulse_train"} /\ Len(line.nums) > 1
                THEN line.nums[2] ELSE o.phase
  BY <1>2, <1>4, OptionsAre
<1>8. Scanned(o, line) = [o EXCEPT !.amp = amp, !.phase = phase]
  BY <1>6, <1>7, Zenon DEF Scanned
<1> QED
  BY <1>6, <1>7, <1>8 DEF Options

\* A raw line that is complete gives a value.
LEMMA RawLevel ==
  ASSUME NEW line \in DataLine, Complete("raw", line)
  PROVE  Level(line) \in Value
<1>1. PICK nums \in Seq(Value) : nums = line.nums
  BY DEF DataLine
<1>2. Len(nums) >= 1
  BY <1>1 DEF Complete, Needed
<1> QED
  BY <1>1, <1>2 DEF Level, IsRange

-----------------------------------------------------------------------------
(* Types.                                                                    *)

Fields == {"pc", "chnl", "block", "pos", "size", "lines", "buf", "step"}

\* A call under way: its channel is in reset and is asked for what the call was.
CallOK ==
  /\ DOMAIN call = Fields
  /\ ~ At("idle") =>
       /\ call.chnl \in Chnl /\ call.chnl \in resets /\ jump[call.chnl] = None
       /\ call.block \in Block
       /\ File \in Files[call.chnl]
       /\ request[call.chnl] = [file |-> File, block |-> call.block]
       /\ call.pos \in Nat \ {0}
       /\ call.size \in Size \cup {0}
       /\ call.lines \in Seq(DataLine)
       /\ Cells(call.buf)
       /\ At("data") => opt.type \in Listed

\* A playing channel was asked for a block of a file, and only such jump.
AskedOK ==
  \A c \in Chnl :
    /\ c \notin resets => request[c] \in [file: Files[c], block: Block]
    /\ jump[c] # None => c \notin resets

TypeInv == TypeOK /\ CallOK /\ AskedOK

LEMMA IdleIs ==
  /\ DOMAIN Idle = Fields
  /\ Idle.pc = "idle" /\ Idle.step = 1 /\ Idle.pos = 1 /\ Idle.size = 0 /\ Idle.lines = <<>>
  /\ Cells(Idle.buf)
BY NoiseCells DEF Idle, Fields

LEMMA TypeInit == Init => TypeInv
<1> SUFFICES ASSUME Init PROVE TypeInv
  OBVIOUS
<1>1. 0 \in Addr
  BY SizesAre DEF Addr
<1>2. Cells(Noise) /\ Len(Steps) = 7
  BY NoiseCells, StepsAre
<1>3. TypeOK
  BY <1>1, <1>2, IdleIs, NoOptTyped DEF Init, TypeOK, Cells
<1>4. CallOK
  BY IdleIs, Zenon DEF Init, CallOK, At
<1>5. AskedOK
  BY DEF Init, AskedOK
<1> QED
  BY <1>3, <1>4, <1>5 DEF TypeInv

\* What an idle call leaves to be shown.
LEMMA FailTyped ==
  ASSUME TypeInv, Fail, UNCHANGED <<Registers, mem>>,
         ~ At("idle"),
         opt' \in Options
  PROVE  TypeInv'
<1>1. /\ resets' = resets /\ siz' = siz /\ bas' = bas /\ jump' = jump /\ counts' = counts
      /\ mem' = mem /\ call' = Idle /\ request' = [request EXCEPT ![call.chnl] = NoFile]
  BY Zenon DEF Fail, Registers
<1>2. TypeOK'
  <2>1. request' \in [Chnl -> [file: UNION {Files[c] : c \in Chnl}, block: Block] \cup {NoFile}]
    <3> DEFINE Asked == [file: UNION {Files[c] : c \in Chnl}, block: Block] \cup {NoFile}
    <3>1. request \in [Chnl -> Asked] /\ NoFile \in Asked
      BY Zenon DEF TypeInv, TypeOK
    <3> HIDE DEF Asked
    <3>2. request' \in [Chnl -> Asked]
      BY <1>1, <3>1
    <3> QED
      BY <3>2 DEF Asked
  <2>2. call'.pc = "idle" /\ call'.step \in 1..Len(Steps)
    BY <1>1, IdleIs, StepsAre
  <2> QED
    BY <1>1, <2>1, <2>2, Zenon DEF TypeInv, TypeOK
<1>3. CallOK'
  BY <1>1, IdleIs, Zenon DEF CallOK, At
<1>4. AskedOK'
  BY <1>1 DEF TypeInv, CallOK, AskedOK, TypeOK
<1> QED
  BY <1>2, <1>3, <1>4, Zenon DEF TypeInv

\* Lines are read with the request, the registers and the channel as they are.
LEMMA ReadTyped ==
  ASSUME TypeInv, ~ At("idle"), UNCHANGED <<Registers, request>>,
         Cells(mem'[call.chnl]), DOMAIN mem' = DOMAIN mem,
         \A c \in Chnl \ {call.chnl} : mem'[c] = mem[c],
         DOMAIN call' = Fields, call'.pc \in {"spec", "data", "set"},
         call'.chnl = call.chnl, call'.block = call.block, call'.step \in 1..7,
         call'.pos \in Nat \ {0}, call'.size \in Size \cup {0}, call'.lines \in Seq(DataLine),
         Cells(call'.buf),
         call'.pc = "data" => opt'.type \in Listed,
         opt' \in Options
  PROVE  TypeInv'
<1>1. /\ resets' = resets /\ siz' = siz /\ bas' = bas /\ jump' = jump /\ counts' = counts
      /\ request' = request
  BY Zenon DEF Registers
<1>2. \A c \in Chnl : Cells(mem'[c])
  BY DEF TypeInv, TypeOK, Cells
<1>3. TypeOK'
  BY <1>1, <1>2, StepsAre DEF TypeInv, TypeOK, Cells
<1>4. CallOK'
  BY <1>1 DEF TypeInv, CallOK, At, File
<1>5. AskedOK'
  BY <1>1, Zenon DEF TypeInv, AskedOK
<1> QED
  BY <1>3, <1>4, <1>5, Zenon DEF TypeInv

LEMMA ReadingTyped == TypeInv /\ Reading => TypeInv'
<1> SUFFICES ASSUME TypeInv, Reading PROVE TypeInv'
  OBVIOUS
<1>1. /\ ~ At("idle")
      /\ call.chnl \in Chnl /\ File \in Files[call.chnl] /\ call.pos \in Nat \ {0}
      /\ call.size \in Size \cup {0} /\ call.lines \in Seq(DataLine) /\ Cells(call.buf)
      /\ DOMAIN call = Fields /\ call.step \in 1..7
      /\ opt \in Options
      /\ Cells(mem[call.chnl])
  <2>1. ~ At("idle")
    BY DEF Reading, ReadSpec, SkipLine, ReadData, EndData, DropData, EndOfLines, At
  <2> QED
    BY <2>1, StepsAre DEF TypeInv, TypeOK, CallOK, Cells
<1>2. ~ EndOfFile => IsLine(Line)
  BY <1>1, FilesAssumption DEF EndOfFile, Line
<1>3. ASSUME NEW o, IsOpt(o), NEW lines, Load(o, lines)
      PROVE  /\ Cells(mem'[call.chnl]) /\ DOMAIN mem' = DOMAIN mem
             /\ \A c \in Chnl \ {call.chnl} : mem'[c] = mem[c]
             /\ Cells(Built(o, lines))
             /\ opt' \in Options
             /\ opt'.type = o.type
  <2>1. Cells(Built(o, lines))
    BY <1>1, <1>3, BuiltCells
  <2>2. Cells(Copied(o, Built(o, lines)))
    BY <1>1, <2>1, CopiedCells
  <2>3. mem' = [mem EXCEPT ![call.chnl] = Copied(o, Built(o, lines))]
    BY <1>3, Zenon DEF Load
  <2>4. DOMAIN mem = Chnl
    BY DEF TypeInv, TypeOK
  <2>5. opt' = [o EXCEPT !.amp = IF o.type \in {"fourier", "pulse_train"} THEN "computed" ELSE @]
    BY <1>3, Zenon DEF Load
  <2>6. /\ opt' \in Options
        /\ opt'.type = o.type
    BY <1>3, <2>5 DEF IsOpt, Options
  <2> QED
    BY <1>1, <2>1, <2>2, <2>3, <2>4, <2>6
<1>4. CASE ReadSpec
  <2> DEFINE o == Override(opt, Line.opts)
  <2>1. /\ At("spec") /\ UNCHANGED Registers
        /\ IsLine(Line) /\ Line.kind = "wavespec"
    BY <1>2, <1>4 DEF ReadSpec
  <2>2. /\ o \in Options
        /\ o.type # "none" => IsOpt(o)
    BY <1>1, <2>1, OverrideOpt
  <2>0. PICK size \in Size \cup {0} : size = IF o.size # 0 THEN o.size ELSE call.size
    BY <1>1, <2>2, OptionsAre
  <2> DEFINE next == [call EXCEPT !.pos = @ + 1, !.size = size, !.lines = <<>>]
  <2>3. \/ o.type = "none" /\ opt' = o /\ Fail /\ UNCHANGED mem
        \/ /\ o.type \in Listed /\ opt' = o
           /\ call' = [next EXCEPT !.pc = "data"] /\ UNCHANGED <<mem, request>>
        \/ /\ o.type = "sine" /\ Load(o, <<>>)
           /\ call' = [next EXCEPT !.buf = Built(o, <<>>)] /\ UNCHANGED request
    BY <1>4, <2>0, Zenon DEF ReadSpec
  <2> HIDE DEF o
  <2>4. CASE o.type = "none" /\ opt' = o /\ Fail /\ UNCHANGED mem
    BY <1>1, <2>1, <2>2, <2>4, FailTyped
  <2>5. CASE /\ o.type \in Listed /\ opt' = o
             /\ call' = [next EXCEPT !.pc = "data"] /\ UNCHANGED <<mem, request>>
    <3>1. /\ DOMAIN call' = Fields /\ call'.pc = "data" /\ call'.chnl = call.chnl
          /\ call'.block = call.block /\ call'.step = call.step /\ call'.pos = call.pos + 1
          /\ call'.size \in Size \cup {0} /\ call'.lines = <<>> /\ call'.buf = call.buf
          /\ <<>> \in Seq(DataLine)
      BY <1>1, <2>5 DEF Fields
    <3> HIDE DEF next
    <3>2. /\ opt' \in Options
          /\ opt'.type \in Listed /\ mem' = mem /\ request' = request
      BY <2>2, <2>5, Zenon
    <3>3. call.pos + 1 \in Nat \ {0}
      BY <1>1
    <3> QED
      BY <1>1, <2>1, <3>1, <3>2, <3>3, ReadTyped
  <2>6. CASE /\ o.type = "sine" /\ Load(o, <<>>)
             /\ call' = [next EXCEPT !.buf = Built(o, <<>>)] /\ UNCHANGED request
    <3>1. /\ DOMAIN call' = Fields /\ call'.pc = "spec" /\ call'.chnl = call.chnl
          /\ call'.block = call.block /\ call'.step = call.step /\ call'.pos = call.pos + 1
          /\ call'.size \in Size \cup {0} /\ call'.lines = <<>> /\ <<>> \in Seq(DataLine)
          /\ call'.buf = Built(o, <<>>)
      <4>1. PICK buf : buf = Built(o, <<>>)
        OBVIOUS
      <4>2. call' = [next EXCEPT !.buf = buf] /\ call.pc = "spec"
        BY <2>1, <2>6, <4>1, Zenon DEF At
      <4> QED
        BY <1>1, <4>1, <4>2 DEF Fields
    <3> HIDE DEF next
    <3>2. /\ Cells(mem'[call.chnl]) /\ DOMAIN mem' = DOMAIN mem
          /\ \A c \in Chnl \ {call.chnl} : mem'[c] = mem[c]
          /\ Cells(Built(o, <<>>))
          /\ opt' \in Options
          /\ request' = request
      BY <1>3, <2>2, <2>6
    <3>3. call.pos + 1 \in Nat \ {0}
      BY <1>1
    <3> QED
      BY <1>1, <2>1, <3>1, <3>2, <3>3, ReadTyped
  <2> QED
    BY <2>3, <2>4, <2>5, <2>6
<1>5. CASE SkipLine
  <2>1. /\ DOMAIN call' = Fields /\ call'.pc = "spec" /\ call'.chnl = call.chnl
        /\ call'.block = call.block /\ call'.step = call.step /\ call'.pos = call.pos + 1
        /\ call'.size = call.size /\ call'.lines = call.lines /\ call'.buf = call.buf
    BY <1>1, <1>5 DEF SkipLine, Fields, At
  <2>2. UNCHANGED <<Registers, mem, opt, request>>
    BY <1>5, Zenon DEF SkipLine
  <2> QED
    BY <1>1, <2>1, <2>2, ReadTyped
<1>6. CASE ReadData
  <2>1. IsLine(Line) /\ Line.kind = "data" /\ At("data")
    BY <1>2, <1>6, Zenon DEF ReadData
  <2>2. Line \in DataLine /\ Complete(opt.type, Line)
    BY <1>6, <2>1, Zenon DEF IsLine, ReadData
  <2>3. opt.type \in Listed
    BY <1>1, <2>1 DEF TypeInv, CallOK
  <2>4. PICK buf : buf = IF opt.type # "raw" THEN call.buf
                         ELSE [a \in Addr |-> IF a \in Points(opt, Line)
                                              THEN [point |-> Level(Line)] ELSE call.buf[a]]
    OBVIOUS
  <2>5. Cells(buf)
    <3>1. CASE opt.type # "raw"
      BY <1>1, <2>4, <3>1, Zenon
    <3>2. CASE opt.type = "raw"
      <4>1. Level(Line) \in Value
        BY <2>2, <3>2, RawLevel
      <4> QED
        BY <1>1, <2>4, <3>2, <4>1, StoredCells, Zenon
    <3> QED
      BY <3>1, <3>2
  <2>6. call' = [call EXCEPT !.pos = @ + 1, !.lines = Append(@, Line), !.buf = buf]
    BY <1>6, <2>4, Zenon DEF ReadData
  <2>7. /\ DOMAIN call' = Fields /\ call'.pc = "data" /\ call'.chnl = call.chnl
        /\ call'.block = call.block /\ call'.step = call.step /\ call'.pos = call.pos + 1
        /\ call'.size = call.size /\ call'.lines = Append(call.lines, Line)
        /\ call'.buf = buf
    BY <1>1, <2>1, <2>6 DEF Fields, At
  <2>8. Append(call.lines, Line) \in Seq(DataLine)
    BY <1>1, <2>2
  <2>9. opt' = Scanned(opt, Line) /\ UNCHANGED <<Registers, mem, request>>
    BY <1>6, Zenon DEF ReadData
  <2>10. opt' \in Options /\ opt'.type = opt.type
    BY <1>1, <2>2, <2>9, ScannedOpt
  <2> QED
    BY <1>1, <2>3, <2>5, <2>7, <2>8, <2>9, <2>10, ReadTyped
<1>7. CASE EndData
  <2>1. Load(AtEnd, LastLines) /\ UNCHANGED <<Registers, request>> /\ At("data")
    BY <1>7, Zenon DEF EndData
  <2>2. AtEnd \in Options /\ AtEnd.type = opt.type
    BY <1>1, <1>2, ScannedOpt DEF AtEnd, IsLine
  <2>3. IsOpt(AtEnd)
    BY <1>1, <2>1, <2>2 DEF TypeInv, CallOK, IsOpt, Listed, Type
  <2>4. PICK buf : buf = Built(AtEnd, LastLines)
    OBVIOUS
  <2>5. call' = [call EXCEPT !.pc = "spec", !.pos = @ + 1, !.buf = buf]
    BY <1>7, <2>4, Zenon DEF EndData
  <2>6. /\ DOMAIN call' = Fields /\ call'.pc = "spec" /\ call'.chnl = call.chnl
        /\ call'.block = call.block /\ call'.step = call.step /\ call'.pos = call.pos + 1
        /\ call'.size = call.size /\ call'.lines = call.lines
        /\ call'.buf = Built(AtEnd, LastLines)
    BY <1>1, <2>4, <2>5 DEF Fields
  <2>7. /\ Cells(mem'[call.chnl]) /\ DOMAIN mem' = DOMAIN mem
        /\ \A c \in Chnl \ {call.chnl} : mem'[c] = mem[c]
        /\ Cells(Built(AtEnd, LastLines)) /\ opt' \in Options
    BY <1>3, <2>1, <2>3
  <2> QED
    BY <1>1, <2>1, <2>6, <2>7, ReadTyped
<1>8. CASE DropData
  <2>1. /\ DOMAIN call' = Fields /\ call'.pc = "spec" /\ call'.chnl = call.chnl
        /\ call'.block = call.block /\ call'.step = call.step /\ call'.pos = call.pos
        /\ call'.size = call.size /\ call'.lines = call.lines /\ call'.buf = call.buf
    BY <1>1, <1>8 DEF DropData, Fields
  <2>2. UNCHANGED <<Registers, mem, opt, request>>
    BY <1>8, Zenon DEF DropData
  <2> QED
    BY <1>1, <2>1, <2>2, ReadTyped
<1>9. CASE EndOfLines
  <2>1. PICK s \in IF call.size = 0 THEN Size \cup {0} ELSE {call.size} :
          call' = [Idle EXCEPT !.pc = "set", !.chnl = call.chnl, !.block = call.block, !.size = s]
    BY <1>9, Zenon DEF EndOfLines
  <2>2. s \in Size \cup {0}
    BY <1>1
  <2>3. /\ DOMAIN call' = Fields /\ call'.pc = "set" /\ call'.chnl = call.chnl
        /\ call'.block = call.block /\ call'.step = 1 /\ call'.pos = 1
        /\ call'.size = s /\ call'.lines = <<>> /\ Cells(call'.buf)
    BY <2>1, NoiseCells DEF Idle, Fields
  <2>4. UNCHANGED <<Registers, mem, opt, request>>
    BY <1>9, Zenon DEF EndOfLines
  <2> QED
    BY <1>1, <2>2, <2>3, <2>4, ReadTyped
<1> QED
  BY <1>4, <1>5, <1>6, <1>7, <1>8, <1>9, Zenon DEF Reading

\* A register is written, and the call goes on.
LEMMA DoneTyped ==
  ASSUME TypeInv, At("set"), call.step < 7, Done, resets' = resets, jump' = jump,
         siz' \in [Chnl -> Size], bas' \in [Chnl -> Addr],
         counts' \in [Chnl -> [{"frequency", "phase"} -> Size]]
  PROVE  TypeInv' /\ call'.step = call.step + 1 /\ call'.chnl = call.chnl /\ At("set")'
         /\ call'.size = call.size /\ call'.block = call.block /\ mem' = mem
         /\ request' = request
<1>1. /\ mem' = mem /\ opt' = opt /\ request' = request
      /\ call' = [call EXCEPT !.step = @ + 1]
  BY Zenon DEF Done
<1>2. DOMAIN call = Fields /\ call.step \in 1..7
  BY StepsAre, Zenon DEF TypeInv, CallOK, TypeOK
<1>3. /\ DOMAIN call' = Fields /\ call'.pc = call.pc /\ call'.step = call.step + 1
      /\ call'.chnl = call.chnl /\ call'.block = call.block /\ call'.pos = call.pos
      /\ call'.size = call.size /\ call'.lines = call.lines /\ call'.buf = call.buf
  BY <1>1, <1>2 DEF Fields
<1>4. call'.step \in 1..7
  BY <1>2, <1>3
<1>5. TypeOK'
  BY <1>1, <1>3, <1>4, StepsAre, Zenon DEF TypeInv, TypeOK
<1>6. CallOK'
  BY <1>1, <1>3 DEF TypeInv, CallOK, At, File
<1>7. AskedOK'
  BY <1>1, Zenon DEF TypeInv, AskedOK
<1> QED
  BY <1>1, <1>3, <1>5, <1>6, <1>7, Zenon DEF TypeInv, At

LEMMA SettingTyped == TypeInv /\ Setting => TypeInv'
<1> SUFFICES ASSUME TypeInv, Setting PROVE TypeInv'
  OBVIOUS
<1>1. At("set") /\ ~ At("idle")
  BY DEF Setting, SetSize, SetRouting, SetFrequency, SetPhase, SetCounts, SetDivisor, SetStart,
     Release, Step, At
<1>2. /\ call.chnl \in Chnl /\ call.step \in 1..7 /\ call.block \in Block
      /\ call.size \in Size \cup {0} /\ siz \in [Chnl -> Size] /\ bas \in [Chnl -> Addr]
      /\ counts \in [Chnl -> [{"frequency", "phase"} -> Size]]
      /\ opt \in Options
  BY <1>1, StepsAre, Zenon DEF TypeInv, CallOK, TypeOK
<1>3. ASSUME Refuse PROVE TypeInv'
  <2>1. Fail /\ UNCHANGED <<Registers, mem>> /\ opt' = opt
    BY <1>3, Zenon DEF Refuse
  <2> QED
    BY <1>1, <1>2, <2>1, FailTyped, Zenon
<1>4. CASE SetSize
  <2>1. call.step < 7
    BY <1>2, <1>4, StepsAre DEF SetSize, Step
  <2>2. CASE Refuse
    BY <1>3, <2>2
  <2>3. CASE /\ call.size \in Size /\ siz' = [siz EXCEPT ![call.chnl] = call.size]
             /\ Done /\ UNCHANGED <<resets, bas, jump, counts>>
    <3>1. siz' \in [Chnl -> Size]
      BY <1>2, <2>3
    <3> QED
      BY <1>1, <1>2, <2>1, <2>3, <3>1, DoneTyped, Zenon
  <2> QED
    BY <1>4, <2>2, <2>3, Zenon DEF SetSize
<1>5. CASE SetRouting
  <2>1. call.step < 7
    BY <1>2, <1>5, StepsAre DEF SetRouting, Step
  <2>2. CASE Done /\ UNCHANGED Registers
    BY <1>1, <1>2, <2>1, <2>2, DoneTyped, Zenon DEF Registers
  <2> QED
    BY <1>3, <1>5, <2>2, Zenon DEF SetRouting
<1>6. ASSUME NEW name \in {"frequency", "phase"}, SetCounts(name) PROVE TypeInv'
  <2>1. call.step < 7
    BY <1>2, <1>6, StepsAre DEF SetCounts, Step
  <2>2. counts' = [counts EXCEPT ![call.chnl][name] = siz[call.chnl]]
    BY <1>6, Zenon DEF SetCounts
  <2>3. counts' \in [Chnl -> [{"frequency", "phase"} -> Size]]
    BY <1>2, <2>2
  <2>4. Done /\ UNCHANGED <<resets, siz, bas, jump>>
    BY <1>6, Zenon DEF SetCounts
  <2> QED
    BY <1>1, <1>2, <2>1, <2>3, <2>4, DoneTyped, Zenon
<1>7. CASE SetFrequency
  BY <1>6, <1>7, Zenon DEF SetFrequency
<1>8. CASE SetPhase
  BY <1>3, <1>6, <1>8, Zenon DEF SetPhase
<1>9. CASE SetDivisor
  <2>1. call.step < 7
    BY <1>2, <1>9, StepsAre DEF SetDivisor, Step
  <2>2. CASE Done /\ UNCHANGED Registers
    BY <1>1, <1>2, <2>1, <2>2, DoneTyped, Zenon DEF Registers
  <2> QED
    BY <1>3, <1>9, <2>2, Zenon DEF SetDivisor
<1>10. CASE SetStart
  <2>1. call.step < 7
    BY <1>2, <1>10, StepsAre DEF SetStart, Step
  <2>2. call.block \in Int /\ call.size \in Int /\ MemSize \in Nat \ {0}
    BY <1>2, SizesAre, WaveformAssumption
  <2>3. PICK a \in Int : a = call.block * call.size
    BY <2>2
  <2>4. a % MemSize \in Addr
    BY <2>2 DEF Addr
  <2>5. /\ bas' = [bas EXCEPT ![call.chnl] = a % MemSize]
        /\ Done /\ UNCHANGED <<resets, siz, jump, counts>>
    BY <1>10, <2>3, Zenon DEF SetStart
  <2>6. bas' \in [Chnl -> Addr]
    BY <1>2, <2>4, <2>5
  <2> QED
    BY <1>1, <1>2, <2>1, <2>5, <2>6, DoneTyped, Zenon
<1>11. CASE Release
  <2>1. /\ resets' = resets \ {call.chnl} /\ call' = Idle
        /\ siz' = siz /\ bas' = bas /\ jump' = jump /\ counts' = counts /\ mem' = mem
        /\ opt' = opt /\ request' = request
    BY <1>11, Zenon DEF Release
  <2>2. TypeOK'
    BY <2>1, IdleIs, StepsAre DEF TypeInv, TypeOK
  <2>3. CallOK'
    BY <2>1, IdleIs, Zenon DEF CallOK, At
  <2>4. AskedOK'
    BY <1>1, <2>1 DEF TypeInv, CallOK, AskedOK
  <2> QED
    BY <2>2, <2>3, <2>4, Zenon DEF TypeInv
<1> QED
  BY <1>4, <1>5, <1>7, <1>8, <1>9, <1>10, <1>11, Zenon DEF Setting

LEMMA TypeStep == TypeInv /\ [Next]_vars => TypeInv'
<1> SUFFICES ASSUME TypeInv, [Next]_vars PROVE TypeInv'
  OBVIOUS
<1>1. ASSUME NEW c \in Chnl, NEW b \in Block, NEW f \in Files[c], Config(c, f, b)
      PROVE  TypeInv'
  <2>1. /\ At("idle") /\ jump[c] = None /\ resets' = resets \cup {c}
        /\ call' = [Idle EXCEPT !.pc = "spec", !.chnl = c, !.block = b]
        /\ request' = [request EXCEPT ![c] = [file |-> f, block |-> b]]
        /\ siz' = siz /\ bas' = bas /\ jump' = jump /\ counts' = counts /\ mem' = mem
        /\ opt' = opt
    BY <1>1, Zenon DEF Config
  <2>2. /\ DOMAIN call' = Fields /\ call'.pc = "spec" /\ call'.chnl = c /\ call'.block = b
        /\ call'.step = 1 /\ call'.pos = 1 /\ call'.size = 0 /\ call'.lines = <<>>
        /\ call'.buf = Noise
    BY <2>1 DEF Idle, Fields
  <2>3. request' \in [Chnl -> [file: UNION {Files[d] : d \in Chnl}, block: Block] \cup {NoFile}]
    <3> DEFINE Asked == [file: UNION {Files[d] : d \in Chnl}, block: Block] \cup {NoFile}
    <3>1. request \in [Chnl -> Asked]
      BY Zenon DEF TypeInv, TypeOK
    <3>2. [file |-> f, block |-> b] \in Asked
      BY Zenon
    <3> HIDE DEF Asked
    <3>3. request' \in [Chnl -> Asked]
      BY <2>1, <3>1, <3>2
    <3> QED
      BY <3>3 DEF Asked
  <2>4. TypeOK'
    BY <2>1, <2>2, <2>3, StepsAre DEF TypeInv, TypeOK
  <2>5. request'[c] = [file |-> f, block |-> b]
    BY <2>1 DEF TypeInv, TypeOK
  <2>6. CallOK'
    <3>1. <<>> \in Seq(DataLine) /\ 1 \in Nat \ {0}
      OBVIOUS
    <3>2. File' = f
      BY <2>2, <2>5 DEF File
    <3>3. c \in resets' /\ jump'[c] = None
      BY <2>1
    <3> QED
      BY <2>2, <2>5, <3>1, <3>2, <3>3, NoiseCells DEF CallOK, At
  <2>7. AskedOK'
    BY <2>1 DEF TypeInv, TypeOK, AskedOK
  <2> QED
    BY <2>4, <2>6, <2>7, Zenon DEF TypeInv
<1>2. CASE OpenFails
  <2>1. ~ At("idle") /\ Fail /\ UNCHANGED <<Registers, mem>> /\ opt' = opt
    BY <1>2 DEF OpenFails, At
  <2>2. opt \in Options
    BY Zenon DEF TypeInv, TypeOK
  <2> QED
    BY <2>1, <2>2, FailTyped, Zenon
<1>3. CASE KillAndRestart
  <2>1. ~ At("idle") /\ Fail /\ UNCHANGED <<Registers, mem>> /\ opt' = NoOpt
    BY <1>3, Zenon DEF KillAndRestart
  <2>2. NoOpt \in Options
    BY NoOptTyped
  <2> QED
    BY <2>1, <2>2, FailTyped, Zenon
<1>4. ASSUME NEW c \in Chnl, NEW b \in Block, SetNewActiveBlock(c, b)
      PROVE  TypeInv'
  <2>1. /\ At("idle") /\ c \notin resets /\ jump[c] = None
        /\ jump' = [jump EXCEPT ![c] = (b * siz[c]) % MemSize]
        /\ request' = [request EXCEPT ![c].block = b]
        /\ resets' = resets /\ siz' = siz /\ bas' = bas /\ counts' = counts /\ mem' = mem
        /\ opt' = opt /\ call' = call
    BY <1>4, Zenon DEF SetNewActiveBlock
  <2>2. (b * siz[c]) % MemSize \in Addr
    <3>1. PICK x \in Int : x = siz[c]
      BY SizesAre DEF TypeInv, TypeOK
    <3>2. PICK a \in Int : a = b * x
      BY WaveformAssumption
    <3>3. a % MemSize \in Addr
      BY SizesAre DEF Addr
    <3> QED
      BY <3>1, <3>2, <3>3
  <2>3. /\ request'[c] = [file |-> request[c].file, block |-> b]
        /\ request[c].file \in Files[c]
        /\ \A d \in Chnl \ {c} : request'[d] = request[d]
        /\ DOMAIN request' = Chnl
    BY <2>1 DEF TypeInv, TypeOK, AskedOK
  <2>4. TypeOK'
    <3>1. jump' \in [Chnl -> Addr \cup {None}]
      BY <2>1, <2>2 DEF TypeInv, TypeOK
    <3>2. request' \in [Chnl -> [file: UNION {Files[d] : d \in Chnl}, block: Block] \cup {NoFile}]
      <4> DEFINE Asked == [file: UNION {Files[d] : d \in Chnl}, block: Block] \cup {NoFile}
      <4>1. request \in [Chnl -> Asked]
        BY Zenon DEF TypeInv, TypeOK
      <4>2. [file |-> request[c].file, block |-> b] \in Asked
        BY <2>3
      <4> HIDE DEF Asked
      <4>3. request' = [request EXCEPT ![c] = [file |-> request[c].file, block |-> b]]
        <5>1. request[c] \in [file: Files[c], block: Block]
          BY <2>1 DEF TypeInv, AskedOK
        <5>2. [request[c] EXCEPT !.block = b] = [file |-> request[c].file, block |-> b]
          BY <5>1
        <5> QED
          BY <2>1, <5>2, Zenon
      <4>4. request' \in [Chnl -> Asked]
        BY <4>1, <4>2, <4>3
      <4> QED
        BY <4>4 DEF Asked
    <3> QED
      BY <2>1, <3>1, <3>2, Zenon DEF TypeInv, TypeOK
  <2>5. CallOK'
    BY <2>1, Zenon DEF TypeInv, CallOK, At
  <2>6. AskedOK'
    BY <2>1, <2>3 DEF TypeInv, TypeOK, AskedOK
  <2> QED
    BY <2>4, <2>5, <2>6, Zenon DEF TypeInv
<1>5. ASSUME NEW c \in Chnl, Jump(c)
      PROVE  TypeInv'
  <2>1. /\ c \notin resets /\ jump[c] # None
        /\ bas' = [bas EXCEPT ![c] = jump[c]] /\ jump' = [jump EXCEPT ![c] = None]
        /\ resets' = resets /\ siz' = siz /\ counts' = counts /\ mem' = mem
        /\ opt' = opt /\ call' = call /\ request' = request
    BY <1>5, Zenon DEF Jump
  <2>2. TypeOK'
    BY <2>1 DEF TypeInv, TypeOK
  <2>3. CallOK'
    BY <2>1 DEF TypeInv, TypeOK, CallOK, At, File
  <2>4. AskedOK'
    BY <2>1 DEF TypeInv, TypeOK, AskedOK
  <2> QED
    BY <2>2, <2>3, <2>4, Zenon DEF TypeInv
<1>6. CASE UNCHANGED vars
  BY <1>6, Zenon DEF vars, TypeInv, TypeOK, CallOK, AskedOK, At, File
<1> QED
  BY <1>1, <1>2, <1>3, <1>4, <1>5, <1>6, ReadingTyped, SettingTyped, Zenon DEF Next, Continue

LEMMA Typed == Spec => []TypeInv
BY TypeInit, TypeStep, PTL DEF Spec

\* Every variable has its type; in particular BAS and JBA stay in the memory,
\* and a cell of it is garbage or a point of one wave, whatever the files hold.
THEOREM TypeCorrect == Spec => []TypeOK
<1>1. TypeInv => TypeOK
  BY Zenon DEF TypeInv
<1> QED
  BY <1>1, Typed, PTL

-----------------------------------------------------------------------------
(* What a step of a call does to the registers, by the number of the step.   *)

\* The call goes on to its next register; unless named, a register stays.
Written ==
  /\ call'.step = call.step + 1 /\ call'.chnl = call.chnl /\ At("set")'
  /\ call'.size = call.size /\ call'.block = call.block
  /\ mem' = mem /\ request' = request /\ resets' = resets /\ jump' = jump
  /\ IF call.step = 1 THEN call.size \in Size /\ siz' = [siz EXCEPT ![call.chnl] = call.size]
     ELSE siz' = siz
  /\ IF call.step = 3 THEN counts' = [counts EXCEPT ![call.chnl]["frequency"] = siz[call.chnl]]
     ELSE IF call.step = 4 THEN counts' = [counts EXCEPT ![call.chnl]["phase"] = siz[call.chnl]]
     ELSE counts' = counts
  /\ IF call.step = 6 THEN bas' = [bas EXCEPT ![call.chnl] = (call.block * call.size) % MemSize]
     ELSE bas' = bas

LEMMA SettingWrites ==
  ASSUME TypeInv, Setting
  PROVE  /\ At("set") /\ call.step \in 1..7 /\ call.chnl \in Chnl /\ call.chnl \in resets
         /\ Refuse \/ Written \/ (Release /\ call.step = 7)
<1>1. At("set") /\ ~ At("idle")
  BY DEF Setting, SetSize, SetRouting, SetFrequency, SetPhase, SetCounts, SetDivisor, SetStart,
     Release, Step, At
<1>2. /\ call.chnl \in Chnl /\ call.step \in 1..7 /\ call.chnl \in resets
      /\ siz \in [Chnl -> Size] /\ bas \in [Chnl -> Addr]
      /\ counts \in [Chnl -> [{"frequency", "phase"} -> Size]]
      /\ DOMAIN call = Fields
  BY <1>1, StepsAre, Zenon DEF TypeInv, CallOK, TypeOK
<1>3. ASSUME Done
      PROVE  /\ call'.step = call.step + 1 /\ call'.chnl = call.chnl /\ At("set")'
             /\ call'.size = call.size /\ call'.block = call.block
             /\ mem' = mem /\ request' = request
  <2>1. call' = [call EXCEPT !.step = @ + 1] /\ mem' = mem /\ request' = request
    BY <1>3, Zenon DEF Done
  <2> QED
    BY <1>1, <1>2, <2>1 DEF Fields, At
<1> SUFFICES Refuse \/ Written \/ (Release /\ call.step = 7)
  BY <1>1, <1>2, Zenon
<1>4. CASE SetSize
  <2>1. call.step = 1
    BY <1>2, <1>4, StepsAre DEF SetSize, Step
  <2> QED
    BY <1>3, <1>4, <2>1 DEF SetSize, Written
<1>5. CASE SetRouting
  <2>1. call.step = 2
    BY <1>2, <1>5, StepsAre DEF SetRouting, Step
  <2> QED
    BY <1>3, <1>5, <2>1 DEF SetRouting, Written, Registers
<1>6. CASE SetFrequency
  <2>1. call.step = 3
    BY <1>2, <1>6, StepsAre DEF SetFrequency, SetCounts, Step
  <2> QED
    BY <1>3, <1>6, <2>1 DEF SetFrequency, SetCounts, Written
<1>7. CASE SetPhase
  <2>1. call.step = 4
    BY <1>2, <1>7, StepsAre DEF SetPhase, SetCounts, Step
  <2> QED
    BY <1>3, <1>7, <2>1 DEF SetPhase, SetCounts, Written
<1>8. CASE SetDivisor
  <2>1. call.step = 5
    BY <1>2, <1>8, StepsAre DEF SetDivisor, Step
  <2> QED
    BY <1>3, <1>8, <2>1 DEF SetDivisor, Written, Registers
<1>9. CASE SetStart
  <2>1. call.step = 6
    BY <1>2, <1>9, StepsAre DEF SetStart, Step
  <2> QED
    BY <1>3, <1>9, <2>1 DEF SetStart, Written
<1>10. CASE Release
  <2>1. call.step = 7
    BY <1>2, <1>10, StepsAre DEF Release, Step
  <2> QED
    BY <1>10, <2>1
<1> QED
  BY <1>4, <1>5, <1>6, <1>7, <1>8, <1>9, <1>10, Zenon DEF Setting

\* A line read writes no register, and the call stays that of its channel.
LEMMA ReadingWrites ==
  ASSUME TypeInv, Reading
  PROVE  /\ resets' = resets /\ siz' = siz /\ bas' = bas /\ jump' = jump /\ counts' = counts
         /\ call.chnl \in Chnl /\ call.chnl \in resets
         /\ At("spec") \/ At("data")
         /\ \A c \in Chnl \ {call.chnl} : mem'[c] = mem[c] /\ request'[c] = request[c]
         /\ At("set")' => call'.step = 1
<1>1. At("spec") \/ At("data")
  BY Zenon DEF Reading, ReadSpec, SkipLine, ReadData, EndData, DropData, EndOfLines
<1>2. call.chnl \in Chnl /\ call.chnl \in resets /\ DOMAIN call = Fields
      /\ call.pc \in {"spec", "data"}
  BY <1>1 DEF TypeInv, CallOK, At
<1>3. UNCHANGED Registers
  BY Zenon DEF Reading, ReadSpec, SkipLine, ReadData, EndData, DropData, EndOfLines
<1>4. ASSUME NEW c \in Chnl \ {call.chnl} PROVE mem'[c] = mem[c] /\ request'[c] = request[c]
  <2>1. DOMAIN mem = Chnl /\ DOMAIN request = Chnl
    BY DEF TypeInv, TypeOK
  <2>2. \/ mem' = mem
        \/ \E m : mem' = [mem EXCEPT ![call.chnl] = m]
    BY Zenon DEF Reading, ReadSpec, SkipLine, ReadData, EndData, DropData, EndOfLines, Load
  <2>3. request' = request \/ request' = [request EXCEPT ![call.chnl] = NoFile]
    BY Zenon DEF Reading, ReadSpec, SkipLine, ReadData, EndData, DropData, EndOfLines, Fail
  <2> QED
    BY <1>2, <2>1, <2>2, <2>3
<1>5. At("set")' => call'.step = 1
  <2>1. CASE ReadSpec
    <3>1. call' = Idle \/ call'.pc \in {"spec", "data"}
      BY <1>2, <2>1 DEF ReadSpec, Fail, Fields
    <3> QED
      BY <3>1, IdleIs DEF At
  <2>2. CASE SkipLine \/ ReadData \/ EndData \/ DropData
    BY <1>2, <2>2 DEF SkipLine, ReadData, EndData, DropData, Fields, At
  <2>3. CASE EndOfLines
    BY <2>3 DEF EndOfLines, Idle
  <2> QED
    BY <2>1, <2>2, <2>3, Zenon DEF Reading
<1> QED
  BY <1>1, <1>2, <1>3, <1>4, <1>5, Zenon DEF Registers

-----------------------------------------------------------------------------
(* The counts.                                                               *)

\* The counts that a call has written fit the size that it has written.
CountsOK ==
  At("set") =>
    /\ call.step > 3 => counts[call.chnl]["frequency"] = siz[call.chnl]
    /\ call.step > 4 => counts[call.chnl]["phase"] = siz[call.chnl]

LEMMA CountsInit == Init => CountsFit /\ CountsOK
<1> SUFFICES ASSUME Init PROVE CountsFit /\ CountsOK
  OBVIOUS
<1> QED
  BY IdleIs DEF Init, CountsFit, CountsOK, At

LEMMA CountsStep ==
  TypeInv /\ CountsFit /\ CountsOK /\ [Next]_vars => CountsFit' /\ CountsOK'
<1> SUFFICES ASSUME TypeInv, CountsFit, CountsOK, [Next]_vars
             PROVE  CountsFit' /\ CountsOK'
  OBVIOUS
<1>0. ASSUME siz' = siz, counts' = counts, resets \subseteq resets',
             At("set")' => call' = call \/ call'.step = 1
      PROVE  CountsFit' /\ CountsOK'
  BY <1>0 DEF CountsFit, CountsOK, At
<1>1. ASSUME Fail, UNCHANGED Registers PROVE CountsFit' /\ CountsOK'
  BY <1>0, <1>1, IdleIs DEF Fail, Registers, At
<1>2. ASSUME NEW c \in Chnl, NEW b \in Block, NEW f \in Files[c], Config(c, f, b)
      PROVE  CountsFit' /\ CountsOK'
  BY <1>0, <1>2 DEF Config, Idle, At
<1>3. CASE OpenFails \/ KillAndRestart
  BY <1>1, <1>3, Zenon DEF OpenFails, KillAndRestart
<1>4. CASE Reading
  <2>1. siz' = siz /\ counts' = counts /\ resets' = resets /\ (At("set")' => call'.step = 1)
    BY <1>4, ReadingWrites, Zenon
  <2> QED
    BY <1>0, <2>1
<1>5. CASE Setting
  <2>1. /\ At("set") /\ call.step \in 1..7 /\ call.chnl \in Chnl /\ call.chnl \in resets
        /\ Refuse \/ Written \/ (Release /\ call.step = 7)
    BY <1>5, SettingWrites, Zenon
  <2>2. siz \in [Chnl -> Size] /\ counts \in [Chnl -> [{"frequency", "phase"} -> Size]]
    BY Zenon DEF TypeInv, TypeOK
  <2>3. CASE Refuse
    BY <1>1, <2>3, Zenon DEF Refuse, Registers
  <2>4. CASE Written
    <3>1. CountsFit'
      BY <2>1, <2>2, <2>4 DEF Written, CountsFit
    <3>2. CountsOK'
      BY <2>1, <2>2, <2>4 DEF Written, CountsOK, At
    <3> QED
      BY <3>1, <3>2
  <2>5. CASE Release /\ call.step = 7
    <3>1. CountsFit'
      BY <2>1, <2>5 DEF Release, CountsFit, CountsOK
    <3>2. CountsOK'
      BY <2>5, IdleIs DEF Release, CountsOK, At
    <3> QED
      BY <3>1, <3>2
  <2> QED
    BY <2>1, <2>3, <2>4, <2>5
<1>6. ASSUME NEW c \in Chnl, NEW b \in Block, SetNewActiveBlock(c, b) \/ Jump(c)
      PROVE  CountsFit' /\ CountsOK'
  BY <1>0, <1>6 DEF SetNewActiveBlock, Jump
<1>7. CASE UNCHANGED vars
  BY <1>0, <1>7 DEF vars
<1>8. Continue => OpenFails \/ Reading \/ Setting
  BY Zenon DEF Continue
<1>9. Next =>
        \/ \E c \in Chnl, b \in Block : \E f \in Files[c] : Config(c, f, b)
        \/ OpenFails \/ Reading \/ Setting \/ KillAndRestart
        \/ \E c \in Chnl, b \in Block : SetNewActiveBlock(c, b)
        \/ \E c \in Chnl : Jump(c)
  BY <1>8, Zenon DEF Next
<1>10. ASSUME NEW c \in Chnl, Jump(c) PROVE CountsFit' /\ CountsOK'
  BY <1>0, <1>10 DEF Jump
<1> QED
  BY <1>2, <1>3, <1>4, <1>5, <1>6, <1>7, <1>9, <1>10, Zenon

\* The frequency and phase counts of a playing channel were computed with the
\* block size it plays, whichever setter refused its argument and wherever the
\* program was killed.
THEOREM FittingCounts == Spec => []CountsFit
<1>1. Init => TypeInv /\ CountsFit /\ CountsOK
  BY TypeInit, CountsInit
<1>2. TypeInv /\ CountsFit /\ CountsOK /\ [Next]_vars => (TypeInv /\ CountsFit /\ CountsOK)'
  BY TypeStep, CountsStep
<1> QED
  BY <1>1, <1>2, PTL DEF Spec

-----------------------------------------------------------------------------
(* The other channels.                                                       *)

LEMMA OthersStep ==
  ASSUME TypeInv, [Next]_vars, call' # call,
         NEW c \in Chnl \ {IF At("idle") THEN call'.chnl ELSE call.chnl}
  PROVE  /\ (c \in resets) = (c \in resets')
         /\ siz'[c] = siz[c] /\ bas'[c] = bas[c] /\ counts'[c] = counts[c]
         /\ mem'[c] = mem[c]
<1> DEFINE Kept == /\ (c \in resets) = (c \in resets')
                   /\ siz'[c] = siz[c] /\ bas'[c] = bas[c] /\ counts'[c] = counts[c]
                   /\ mem'[c] = mem[c]
<1> SUFFICES Kept
  OBVIOUS
<1>0. ASSUME UNCHANGED <<Registers, mem>> PROVE Kept
  BY <1>0, Zenon DEF Registers
<1>1. ASSUME NEW d \in Chnl, NEW b \in Block, NEW f \in Files[d], Config(d, f, b)
      PROVE  Kept
  <2>1. call'.chnl = d /\ At("idle") /\ resets' = resets \cup {d}
    BY <1>1 DEF Config, Idle
  <2>2. c # d
    BY <2>1
  <2> QED
    BY <1>1, <2>1, <2>2 DEF Config
<1>2. CASE OpenFails \/ KillAndRestart
  BY <1>0, <1>2, Zenon DEF OpenFails, KillAndRestart
<1>3. CASE Reading
  <2>1. ~ At("idle")
    BY <1>3, ReadingWrites DEF At
  <2> QED
    BY <1>3, <2>1, ReadingWrites
<1>4. CASE Setting
  <2>1. /\ At("set") /\ call.step \in 1..7 /\ call.chnl \in Chnl /\ call.chnl \in resets
        /\ Refuse \/ Written \/ (Release /\ call.step = 7)
    BY <1>4, SettingWrites, Zenon
  <2>2. c # call.chnl
    BY <2>1 DEF At
  <2>3. /\ siz \in [Chnl -> Size] /\ bas \in [Chnl -> Addr]
        /\ counts \in [Chnl -> [{"frequency", "phase"} -> Size]]
    BY Zenon DEF TypeInv, TypeOK
  <2>4. CASE Refuse
    BY <1>0, <2>4, Zenon DEF Refuse
  <2>5. CASE Written
    BY <2>1, <2>2, <2>3, <2>5 DEF Written
  <2>6. CASE Release
    BY <2>2, <2>6 DEF Release
  <2> QED
    BY <2>1, <2>4, <2>5, <2>6
<1>5. ASSUME NEW d \in Chnl, NEW b \in Block, SetNewActiveBlock(d, b)
      PROVE  Kept
  BY <1>5, Zenon DEF SetNewActiveBlock
<1>6. ASSUME NEW d \in Chnl, Jump(d)
      PROVE  Kept
  BY <1>6, Zenon DEF Jump
<1>7. CASE UNCHANGED vars
  BY <1>7, Zenon DEF vars
<1> HIDE DEF Kept
<1> QED
  BY <1>1, <1>2, <1>3, <1>4, <1>5, <1>6, <1>7, Zenon DEF Next, Continue

\* No step of a call on one channel touches the reset bit, the registers or the
\* memory of another, although RESETS is one register for all channels.
THEOREM OthersUndisturbed == Spec => OthersPlayOn
<1>1. TypeInv /\ [Next]_vars =>
        [call' # call =>
           \A c \in Chnl \ {IF At("idle") THEN call'.chnl ELSE call.chnl} :
             /\ (c \in resets) = (c \in resets')
             /\ siz'[c] = siz[c] /\ bas'[c] = bas[c] /\ counts'[c] = counts[c]
             /\ mem'[c] = mem[c]]_vars
  BY OthersStep, Zenon
<1> QED
  BY <1>1, Typed, PTL DEF Spec, OthersPlayOn

-----------------------------------------------------------------------------
(* Wave files.                                                               *)

\* The end of a wave's data is known by what surrounds it.
LEMMA DataEndIs ==
  ASSUME NEW f, Len(f) \in Nat, NEW i \in 1..Len(f), NEW e \in i..Len(f),
         \A k \in (i + 1)..e : f[k].kind = "data",
         e = Len(f) \/ f[e + 1].kind # "data"
  PROVE  DataEnd(f, i) = e
<1> DEFINE Ends(d) == /\ \A k \in (i + 1)..d : f[k].kind = "data"
                      /\ d = Len(f) \/ f[d + 1].kind # "data"
<1>1. Ends(e)
  OBVIOUS
<1>2. ASSUME NEW d \in i..Len(f), Ends(d) PROVE d = e
  <2>1. ASSUME d < e PROVE FALSE
    <3>1. d + 1 \in (i + 1)..e /\ d # Len(f)
      BY <2>1
    <3> QED
      BY <1>2, <3>1
  <2>2. ASSUME e < d PROVE FALSE
    <3>1. e + 1 \in (i + 1)..d /\ e # Len(f)
      BY <2>2
    <3> QED
      BY <1>2, <3>1
  <2> QED
    BY <2>1, <2>2
<1>3. DataEnd(f, i) = CHOOSE d \in i..Len(f) : Ends(d)
  BY Zenon DEF DataEnd
<1> HIDE DEF Ends
<1> QED
  BY <1>1, <1>2, <1>3, Zenon

LEMMA ModIs ==
  ASSUME NEW n \in Nat \ {0}, NEW r \in 0..(n - 1)
  PROVE  r % n = r /\ (r - n) % n = r
<1>1. r % n = r
  OBVIOUS
<1>2. PICK q \in Int : q = (r - n) \div n
  OBVIOUS
<1>3. r - n = n * q + ((r - n) % n) /\ (r - n) % n \in 0..(n - 1)
  BY <1>2
<1>4. PICK m \in 0..(n - 1) : m = (r - n) % n
  BY <1>3
<1>5. r - n = n * q + m
  BY <1>3, <1>4
<1>6. q = -1
  <2>1. ASSUME q >= 0 PROVE FALSE
    <3>1. n * q >= 0
      BY <2>1
    <3> QED
      BY <1>5, <3>1
  <2>2. ASSUME q <= -2 PROVE FALSE
    <3>1. n * q <= n * (-2)
      BY <2>2
    <3> QED
      BY <1>5, <3>1
  <2> QED
    BY <2>1, <2>2
<1>7. n * q = - n
  BY <1>6
<1>8. m = r
  BY <1>5, <1>7
<1> QED
  BY <1>1, <1>4, <1>8

\* The blocks of a size do not overlap, and lie in the memory.
LEMMA InMemory ==
  ASSUME NEW s \in Size, NEW b \in 0..(MemSize \div s - 1)
  PROVE  b * s \in Nat /\ b * s + s <= MemSize /\ s \in Nat \ {0}
<1>1. s \in Nat \ {0} /\ MemSize \in Nat \ {0} /\ MemSize % s = 0
  BY SizesAre, WaveformAssumption
<1>2. PICK n \in Int : n = MemSize \div s
  BY <1>1
<1>3. MemSize = s * n
  <2>1. MemSize = s * (MemSize \div s) + (MemSize % s)
    BY <1>1
  <2> QED
    BY <1>1, <1>2, <2>1
<1>4. b + 1 <= n /\ b \in Nat
  BY <1>2
<1>5. s * (b + 1) <= s * n
  BY <1>1, <1>4
<1>6. s * (b + 1) = b * s + s /\ b * s \in Nat
  BY <1>1, <1>4
<1> QED
  BY <1>1, <1>3, <1>5, <1>6

LEMMA Apart ==
  ASSUME NEW s \in Nat \ {0}, NEW b \in Nat, NEW d \in Nat, b # d
  PROVE  b * s + s <= d * s \/ d * s + s <= b * s
<1>1. CASE b + 1 <= d
  <2>1. s * (b + 1) <= s * d
    BY <1>1
  <2> QED
    BY <2>1
<1>2. CASE d + 1 <= b
  <2>1. s * (d + 1) <= s * b
    BY <1>2
  <2> QED
    BY <2>1
<1> QED
  BY <1>1, <1>2

\* What is known of a wavespec of a well-formed file.
LEMMA WellFormedSpec ==
  ASSUME NEW c \in Chnl, NEW f \in Files[c], WellFormed(f), NEW i \in Specs(f)
  PROVE  /\ Len(f) \in Nat /\ i \in 1..Len(f) /\ IsLine(f[i]) /\ f[i].kind = "wavespec"
         /\ {"type", "size", "block"} \subseteq DOMAIN f[i].opts
         /\ f[i].opts.type \in Type /\ f[i].opts.size \in Size
         /\ f[i].opts.block \in 0..(MemSize \div f[i].opts.size - 1)
         /\ f[i].opts.type \in AtStart => f[i].opts.block = 0
         /\ Uses[f[i].opts.type] \subseteq DOMAIN f[i].opts
         /\ f[i].opts.type = "fourier" => DataEnd(f, i) > i
         /\ f[i].opts.type \in Listed =>
              /\ \A l \in DataLines(f, i) : Complete(f[i].opts.type, f[l])
              /\ DataEnd(f, i) # Len(f) => f[DataEnd(f, i) + 1].kind = "blank"
         /\ f[i].opts.type = "raw" =>
              /\ \A k \in 0..(f[i].opts.size - 1) : \E l \in DataLines(f, i) : Lists(f[l], k)
              /\ f[i].opts.block # 0 => \A l \in DataLines(f, i) : IsRange(f[l])
         /\ \A j \in Specs(f) : f[j].opts.size = f[i].opts.size
<1>1. Len(f) \in Nat /\ i \in 1..Len(f) /\ IsLine(f[i]) /\ f[i].kind = "wavespec"
  BY FilesAssumption, Zenon DEF Specs
<1>2. /\ {"type", "size", "block"} \subseteq DOMAIN f[i].opts
      /\ f[i].opts.block \in 0..(MemSize \div f[i].opts.size - 1)
      /\ f[i].opts.type \in AtStart => f[i].opts.block = 0
      /\ Uses[f[i].opts.type] \subseteq DOMAIN f[i].opts
      /\ f[i].opts.type = "fourier" => DataEnd(f, i) > i
      /\ f[i].opts.type \in Listed =>
           /\ \A l \in DataLines(f, i) : Complete(f[i].opts.type, f[l])
           /\ DataEnd(f, i) # Len(f) => f[DataEnd(f, i) + 1].kind = "blank"
      /\ f[i].opts.type = "raw" =>
           /\ \A k \in 0..(f[i].opts.size - 1) : \E l \in DataLines(f, i) : Lists(f[l], k)
           /\ f[i].opts.block # 0 => \A l \in DataLines(f, i) : IsRange(f[l])
      /\ \A j \in Specs(f) : f[j].opts.size = f[i].opts.size
  BY Zenon DEF WellFormed
<1>3. f[i].opts.type \in Type /\ f[i].opts.size \in Size
  <2>1. "type" \in DOMAIN f[i].opts /\ "size" \in DOMAIN f[i].opts
    BY <1>2
  <2>2. f[i].opts["type"] \in OptionValues["type"] /\ f[i].opts["size"] \in OptionValues["size"]
    BY <1>1, <2>1, Zenon DEF IsLine
  <2> QED
    BY <2>2 DEF OptionValues
<1> QED
  BY <1>1, <1>2, <1>3, Zenon

LEMMA SpecPlace ==
  ASSUME NEW c \in Chnl, NEW f \in Files[c], WellFormed(f), NEW i \in Specs(f)
  PROVE  /\ f[i].opts.size \in Size
         /\ f[i].opts.block \in 0..(MemSize \div f[i].opts.size - 1)
         /\ f[i].opts.type \in AtStart => f[i].opts.block = 0
         /\ \A j \in Specs(f) : f[j].opts.size = f[i].opts.size
BY WellFormedSpec

-----------------------------------------------------------------------------
(* The memory.                                                               *)

\* Loading a wave puts it in its block, whole, and leaves the rest alone.
LEMMA LoadPlaces ==
  ASSUME NEW o, IsOpt(o), o.size \in Size, o.block \in 0..(MemSize \div o.size - 1),
         o.type \in AtStart => o.block = 0,
         NEW lines, o.type = "fourier" => lines # <<>>
  PROVE  /\ \A k \in 0..(o.size - 1) :
              Copied(o, Built(o, lines))[o.block * o.size + k]
                = IF o.type = "raw" THEN call.buf[o.block * o.size + k]
                  ELSE [wave |-> Wave(o, lines), size |-> o.size, at |-> k]
         /\ \A a \in Addr : a < o.block * o.size \/ o.block * o.size + o.size <= a =>
              Copied(o, Built(o, lines))[a] = mem[call.chnl][a]
<1>1. PICK s \in Nat \ {0} : s = o.size
  BY InMemory, SizesAre, Zenon
<1>2. PICK p \in Nat : p = o.block * o.size /\ p + s <= MemSize
  BY <1>1, InMemory
<1>3. MemSize \in Nat \ {0}
  BY SizesAre
<1>4. Offset(o) = p
  BY <1>2, Zenon DEF Offset
<1>5. (IF o.type \in AtStart THEN 0 ELSE Offset(o)) = p
  <2>1. CASE o.type \in AtStart
    <3>1. o.block = 0 /\ p = 0 * s
      BY <1>1, <1>2, <2>1
    <3>2. p = 0
      BY <3>1
    <3> QED
      BY <2>1, <3>2, Zenon
  <2>2. CASE o.type \notin AtStart
    BY <1>4, <2>2, Zenon
  <2> QED
    BY <2>1, <2>2
<1>6. ASSUME NEW a \in Addr, p <= a, a < p + s, o.type # "raw"
      PROVE  Built(o, lines)[a] = [wave |-> Wave(o, lines), size |-> o.size, at |-> a - p]
  <2>1. ~ (o.type = "fourier" /\ lines = <<>>)
    OBVIOUS
  <2>2. a - p \in 0..(o.size - 1)
    BY <1>1, <1>2, <1>6, SizesAre
  <2>3. Built(o, lines) =
          [x \in Addr |-> IF x - p \in 0..(o.size - 1)
                          THEN [wave |-> Wave(o, lines), size |-> o.size, at |-> x - p]
                          ELSE call.buf[x]]
    BY <1>5, <1>6, <2>1, Zenon DEF Built
  <2> QED
    BY <1>6, <2>2, <2>3, Zenon
<1>7. ASSUME NEW a \in Addr
      PROVE  Copied(o, Built(o, lines))[a] =
               IF p <= a /\ a < p + s THEN Built(o, lines)[a] ELSE mem[call.chnl][a]
  <2>1. a \in Nat /\ a < MemSize
    BY <1>3 DEF Addr
  <2>2. Copied(o, Built(o, lines))[a] =
          IF (a - p) % MemSize >= o.size THEN mem[call.chnl][a]
          ELSE IF p + ((a - p) % MemSize) \in Addr
               THEN Built(o, lines)[p + ((a - p) % MemSize)] ELSE Garbage
    BY <1>4, <1>7, Zenon DEF Copied
  <2>3. CASE p <= a
    <3>1. (a - p) % MemSize = a - p
      <4>1. a - p \in 0..(MemSize - 1)
        BY <1>2, <1>3, <2>1, <2>3
      <4> QED
        BY <1>3, <4>1, ModIs, Zenon
    <3>2. p + (a - p) = a /\ (a - p >= s <=> ~ (a < p + s))
      <4>1. a \in Int /\ p \in Int /\ s \in Int
        BY <2>1
      <4> QED
        BY ONLY <4>1
    <3> QED
      BY <1>1, <1>7, <2>2, <2>3, <3>1, <3>2, Zenon
  <2>4. CASE a < p
    <3>1. (a - p) % MemSize = a - p + MemSize
      <4>1. PICK r \in 0..(MemSize - 1) : r = a - p + MemSize
        BY <1>1, <1>2, <1>3, <2>1, <2>4
      <4>2. a - p = r - MemSize
        BY <1>2, <1>3, <2>1, <4>1
      <4> QED
        BY <1>3, <4>1, <4>2, ModIs, Zenon
    <3>2. a - p + MemSize >= s
      BY <1>1, <1>2, <1>3, <2>1
    <3> QED
      BY <1>1, <1>2, <2>1, <2>2, <2>4, <3>1, <3>2
  <2> QED
    BY <1>2, <2>1, <2>3, <2>4
<1>8. ASSUME NEW k \in 0..(o.size - 1)
      PROVE  Copied(o, Built(o, lines))[p + k]
               = IF o.type = "raw" THEN call.buf[p + k]
                 ELSE [wave |-> Wave(o, lines), size |-> o.size, at |-> k]
  <2>1. k \in 0..(s - 1)
    BY <1>1, <1>8, Zenon
  <2>2. PICK a \in Addr : a = p + k
    BY <1>2, <1>3, <2>1 DEF Addr
  <2>3. p <= a /\ a < p + s /\ a - p = k
    BY <1>2, <2>1, <2>2
  <2>4. Copied(o, Built(o, lines))[a] = Built(o, lines)[a]
    BY <1>7, <2>3, Zenon
  <2>5. CASE o.type # "raw"
    <3>1. Built(o, lines)[a] = [wave |-> Wave(o, lines), size |-> o.size, at |-> a - p]
      BY <1>6, <2>3, <2>5, Zenon
    <3> QED
      BY <2>2, <2>3, <2>4, <2>5, <3>1, Zenon
  <2>6. CASE o.type = "raw"
    <3>1. Built(o, lines) = call.buf
      BY <2>6, Zenon DEF Built
    <3> QED
      BY <2>2, <2>4, <2>6, <3>1, Zenon
  <2> QED
    BY <2>5, <2>6
<1>9. ASSUME NEW a \in Addr, a < p \/ p + s <= a
      PROVE  Copied(o, Built(o, lines))[a] = mem[call.chnl][a]
  <2>1. ~ (p <= a /\ a < p + s)
    BY <1>1, <1>2, <1>9, SizesAre
  <2> QED
    BY <1>7, <2>1, Zenon
<1> QED
  BY <1>1, <1>2, <1>8, <1>9, Zenon

-----------------------------------------------------------------------------
(* Reading a well-formed file.                                               *)

\* Where the wave of line i belongs.
Base(f, i) == f[i].opts.block * f[i].opts.size

\* The waves before line p are in the memory m, the last one for each block.
InMem(m, f, p) ==
  \A i \in Specs(f) :
    i < p /\ (\A j \in Specs(f) : i < j /\ j < p => f[j].opts.block # f[i].opts.block) =>
      \A k \in 0..(f[i].opts.size - 1) : IsPoint(m[Base(f, i) + k], f, i, k)

\* What the call cl, the options o and the memory m hold between waves, within
\* the data of the wave of line i, and after the last line.
Between(cl, m, f) ==
  /\ InMem(m, f, cl.pos)
  /\ \A i \in Specs(f) : i < cl.pos => cl.size = f[i].opts.size

\* The points listed up to line e are in the buffer, as the last line to list
\* each of them says.
Stored(buf, f, i, e) ==
  \A k \in 0..(f[i].opts.size - 1) :
    (\E l \in (i + 1)..e : Lists(f[l], k)) =>
      \E l \in LastLine(f, i, e, k) : buf[Base(f, i) + k] = [point |-> Level(f[l])]

Inside(cl, o, m, f, i) ==
  /\ i < cl.pos /\ cl.pos <= Len(f) + 1
  /\ InMem(m, f, i)
  /\ \A k \in (i + 1)..(cl.pos - 1) : f[k].kind = "data"
  /\ f[i].opts.type \in Listed
  /\ o.type = f[i].opts.type /\ o.size = f[i].opts.size /\ o.block = f[i].opts.block
  /\ \A k \in Uses[f[i].opts.type] : o[k] = f[i].opts[k]
  /\ cl.lines = [k \in 1..(cl.pos - 1 - i) |-> f[i + k]]
  /\ cl.size = f[i].opts.size
  /\ f[i].opts.type = "raw" => Stored(cl.buf, f, i, cl.pos - 1)

After(cl, m, f) ==
  /\ InMem(m, f, Len(f) + 1)
  /\ \A i \in Specs(f) : cl.size = f[i].opts.size

ReadOK ==
  ~ At("idle") /\ WellFormed(File) =>
    /\ At("spec") => Between(call, mem[call.chnl], File)
    /\ At("data") => \E i \in Specs(File) : Inside(call, opt, mem[call.chnl], File, i)
    /\ At("set")  => After(call, mem[call.chnl], File)

LEMMA InMemSame ==
  ASSUME NEW m, NEW f, NEW p, NEW q, \A j \in Specs(f) : j < p <=> j < q, InMem(m, f, p)
  PROVE  InMem(m, f, q)
BY Zenon DEF InMem

\* One more wave is loaded: line i is the last wavespec before line p.
LEMMA InMemNext ==
  ASSUME NEW c \in Chnl, NEW f \in Files[c], WellFormed(f), NEW i \in Specs(f), NEW p \in Int,
         i < p, \A j \in Specs(f) : j < p => j <= i,
         NEW m, NEW m2, InMem(m, f, i),
         \A k \in 0..(f[i].opts.size - 1) : IsPoint(m2[Base(f, i) + k], f, i, k),
         \A a \in Addr : a < Base(f, i) \/ Base(f, i) + f[i].opts.size <= a => m2[a] = m[a]
  PROVE  InMem(m2, f, p)
<1> SUFFICES ASSUME NEW j \in Specs(f), j < p,
                    \A l \in Specs(f) : j < l /\ l < p => f[l].opts.block # f[j].opts.block,
                    NEW k \in 0..(f[j].opts.size - 1)
             PROVE  IsPoint(m2[Base(f, j) + k], f, j, k)
  BY Zenon DEF InMem
<1>1. CASE j = i
  BY <1>1, Zenon
<1>2. CASE j # i
  <2>1. i \in Int /\ j \in Int /\ j <= i
    BY DEF Specs
  <2>2. j < i
    BY <1>2, <2>1
  <2>3. \A l \in Specs(f) : l \in Int
    BY DEF Specs
  <2>4. \A l \in Specs(f) : j < l /\ l < i => f[l].opts.block # f[j].opts.block
    BY <2>1, <2>3
  <2>5. IsPoint(m[Base(f, j) + k], f, j, k)
    BY <2>2, <2>4, Zenon DEF InMem
  <2>6. f[i].opts.block # f[j].opts.block
    BY <2>2, Zenon
  <2>0. /\ f[i].opts.size \in Size /\ f[j].opts.size = f[i].opts.size
        /\ f[i].opts.block \in 0..(MemSize \div f[i].opts.size - 1)
        /\ f[j].opts.block \in 0..(MemSize \div f[j].opts.size - 1)
    BY SpecPlace
  <2>7. PICK s \in Size : s = f[i].opts.size /\ s = f[j].opts.size
    BY <2>0, Zenon
  <2>8. PICK b \in 0..(MemSize \div s - 1) : b = f[i].opts.block
    BY <2>0, <2>7, Zenon
  <2>9. PICK d \in 0..(MemSize \div s - 1) : d = f[j].opts.block
    BY <2>0, <2>7, Zenon
  <2>10. /\ b * s \in Nat /\ b * s + s <= MemSize /\ s \in Nat \ {0}
         /\ d * s \in Nat /\ d * s + s <= MemSize
    BY InMemory, Zenon
  <2>11. b \in Nat /\ d \in Nat /\ b # d
    BY <2>6, <2>8, <2>9
  <2>12. b * s + s <= d * s \/ d * s + s <= b * s
    BY <2>10, <2>11, Apart, Zenon
  <2>13. PICK x \in Nat : x = b * s
    BY <2>10
  <2>14. PICK y \in Nat : y = d * s
    BY <2>10
  <2>15. k \in 0..(s - 1)
    BY <2>7, Zenon
  <2>16. y + k \in Addr /\ (y + k < x \/ x + s <= y + k)
    BY <2>10, <2>12, <2>13, <2>14, <2>15, SizesAre DEF Addr
  <2>17. Base(f, i) = x /\ Base(f, j) = y
    BY <2>7, <2>8, <2>9, <2>13, <2>14, Zenon DEF Base
  <2> QED
    BY <2>5, <2>7, <2>16, <2>17, Zenon
<1> QED
  BY <1>1, <1>2

\* What a wavespec line loads is what the file says.
LEMMA LoadSpec ==
  ASSUME TypeInv, ~ At("idle"), NEW f, f = File, WellFormed(f), NEW i \in Specs(f),
         NEW o, IsOpt(o), o.type = f[i].opts.type, o.size = f[i].opts.size,
         o.block = f[i].opts.block,
         NEW lines, o.type = "fourier" => lines # <<>>,
         IF o.type = "raw"
         THEN \A k \in 0..(f[i].opts.size - 1) : IsPoint(call.buf[Base(f, i) + k], f, i, k)
         ELSE Wave(o, lines) = WaveAt(f, i),
         InMem(mem[call.chnl], f, i), Load(o, lines),
         NEW p \in Int, i < p, \A j \in Specs(f) : j < p => j <= i
  PROVE  InMem(mem'[call.chnl], f, p)
<1>1. call.chnl \in Chnl /\ f \in Files[call.chnl] /\ DOMAIN mem = Chnl
  BY Zenon DEF TypeInv, CallOK, TypeOK
<1>2. mem'[call.chnl] = Copied(o, Built(o, lines))
  BY <1>1 DEF Load
<1>3. /\ f[i].opts.size \in Size
      /\ f[i].opts.block \in 0..(MemSize \div f[i].opts.size - 1)
      /\ f[i].opts.type \in AtStart => f[i].opts.block = 0
  BY <1>1, SpecPlace
<1>4. /\ o.size \in Size /\ o.block \in 0..(MemSize \div o.size - 1)
      /\ o.type \in AtStart => o.block = 0
  BY <1>3, Zenon
<1>5. /\ \A k \in 0..(o.size - 1) :
           Copied(o, Built(o, lines))[o.block * o.size + k]
             = IF o.type = "raw" THEN call.buf[o.block * o.size + k]
               ELSE [wave |-> Wave(o, lines), size |-> o.size, at |-> k]
      /\ \A a \in Addr : a < o.block * o.size \/ o.block * o.size + o.size <= a =>
           Copied(o, Built(o, lines))[a] = mem[call.chnl][a]
  BY <1>4, LoadPlaces
<1>6. Base(f, i) = o.block * o.size
  BY Zenon DEF Base
<1>7. ASSUME NEW k \in 0..(f[i].opts.size - 1)
      PROVE  IsPoint(mem'[call.chnl][Base(f, i) + k], f, i, k)
  <2>1. k \in 0..(o.size - 1)
    BY Zenon
  <2>2. CASE o.type = "raw"
    BY <1>2, <1>5, <1>6, <1>7, <2>1, <2>2, Zenon
  <2>3. CASE o.type # "raw"
    BY <1>2, <1>5, <1>6, <2>1, <2>3, Zenon DEF IsPoint
  <2> QED
    BY <2>2, <2>3
<1>8. \A k \in 0..(f[i].opts.size - 1) : IsPoint(mem'[call.chnl][Base(f, i) + k], f, i, k)
  BY <1>7, Zenon
<1>9. \A a \in Addr : a < Base(f, i) \/ Base(f, i) + f[i].opts.size <= a =>
        mem'[call.chnl][a] = mem[call.chnl][a]
  BY <1>2, <1>5, <1>6, Zenon
<1> QED
  BY <1>1, <1>8, <1>9, InMemNext

\* Nothing of what ReadOK names changes.
LEMMA ReadSame ==
  ASSUME TypeInv, ReadOK, call' = call, opt' = opt, mem' = mem,
         ~ At("idle") => request'[call.chnl] = request[call.chnl]
  PROVE  ReadOK'
BY Zenon DEF ReadOK, At, File

\* The call goes on with the same file.
LEMMA ReadNext ==
  ASSUME call'.chnl = call.chnl, request' = request, NEW f, f = File, ~ At("idle"),
         WellFormed(f) =>
           /\ call'.pc = "spec" => Between(call', mem'[call.chnl], f)
           /\ call'.pc = "data" => \E i \in Specs(f) : Inside(call', opt', mem'[call.chnl], f, i)
           /\ call'.pc = "set" => After(call', mem'[call.chnl], f)
  PROVE  ReadOK'
<1>1. File' = f
  BY Zenon DEF File
<1> QED
  BY <1>1, Zenon DEF ReadOK, At

\* The n lines after line i.
DataOf(f, i, n) == [k \in 1..n |-> f[i + k]]

LEMMA AppendData ==
  ASSUME NEW f, NEW i \in Nat, NEW n \in Nat,
         DataOf(f, i, n) \in Seq(DataLine), f[i + n + 1] \in DataLine
  PROVE  Append(DataOf(f, i, n), f[i + n + 1]) = DataOf(f, i, n + 1)
<1>1. PICK v \in DataLine : v = f[i + n + 1]
  OBVIOUS
<1>2. PICK lines \in Seq(DataLine) : lines = DataOf(f, i, n)
  OBVIOUS
<1>3. PICK w \in Seq(DataLine) : w = Append(lines, v)
  <2>1. Append(lines, v) \in Seq(DataLine)
    OBVIOUS
  <2> QED
    BY <2>1, Zenon
<1>4. Len(lines) = n
  <2>1. DOMAIN lines = 1..n /\ DOMAIN lines = 1..Len(lines) /\ Len(lines) \in Nat
    BY <1>2 DEF DataOf
  <2> QED
    BY <2>1
<1>5. Len(w) = n + 1
  BY <1>3, <1>4
<1>6. w \in [1..(n + 1) -> DataLine]
  BY <1>5
<1>7. ASSUME NEW k \in 1..(n + 1) PROVE w[k] = f[i + k]
  <2>1. CASE k = n + 1
    <3>1. i + n + 1 = i + k
      BY <2>1
    <3>2. w[k] = v
      BY <1>3, <1>4, <2>1
    <3> QED
      BY <1>1, <3>1, <3>2
  <2>2. CASE k \in 1..n
    <3>1. w[k] = lines[k]
      BY <1>3, <1>4, <2>2
    <3> QED
      BY <1>2, <2>2, <3>1 DEF DataOf
  <2> QED
    BY <2>1, <2>2
<1>8. w = DataOf(f, i, n + 1)
  BY <1>6, <1>7, Zenon DEF DataOf
<1> QED
  BY <1>1, <1>2, <1>3, <1>8, Zenon

\* A data line within a wave's data.
LEMMA InDataLines ==
  ASSUME NEW f, Len(f) \in Nat, NEW i \in 1..Len(f), NEW p \in (i + 1)..Len(f),
         \A k \in (i + 1)..p : f[k].kind = "data"
  PROVE  p \in DataLines(f, i)
BY DEF DataLines

\* One more raw line is stored.
LEMMA StoreLine ==
  ASSUME NEW c \in Chnl, NEW f \in Files[c], WellFormed(f), NEW i \in Specs(f),
         f[i].opts.type = "raw", NEW p \in (i + 1)..Len(f),
         \A k \in (i + 1)..p : f[k].kind = "data",
         NEW o, o.size = f[i].opts.size, o.block = f[i].opts.block,
         NEW buf, Stored(buf, f, i, p - 1),
         NEW buf2, buf2 = [a \in Addr |-> IF a \in Points(o, f[p])
                                          THEN [point |-> Level(f[p])] ELSE buf[a]]
  PROVE  Stored(buf2, f, i, p)
<1>1. /\ Len(f) \in Nat /\ i \in 1..Len(f) /\ f[i].opts.size \in Size
      /\ f[i].opts.block \in 0..(MemSize \div f[i].opts.size - 1)
      /\ f[i].opts.block # 0 => \A l \in DataLines(f, i) : IsRange(f[l])
  BY WellFormedSpec
<1>2. PICK s \in Size : s = f[i].opts.size
  BY <1>1
<1>3. PICK x \in Nat : x = Base(f, i) /\ x + s <= MemSize /\ s \in Nat \ {0}
  BY <1>1, <1>2, InMemory DEF Base
<1>4. Offset(o) = x
  BY <1>3, Zenon DEF Offset, Base
<1>5. f[p] \in DataLine /\ f[p].from \in Nat /\ f[p].to \in Nat \cup {None}
  <2>1. IsLine(f[p]) /\ f[p].kind = "data"
    BY <1>1, FilesAssumption
  <2>2. f[p] \in DataLine
    BY <2>1, Zenon DEF IsLine
  <2> QED
    BY <2>2 DEF DataLine
<1>6. f[i].opts.block # 0 => IsRange(f[p])
  BY <1>1, InDataLines
<1> SUFFICES ASSUME NEW k \in 0..(s - 1), \E l \in (i + 1)..p : Lists(f[l], k)
             PROVE  \E l \in LastLine(f, i, p, k) : buf2[x + k] = [point |-> Level(f[l])]
  BY <1>2, <1>3, Zenon DEF Stored
<1>7. PICK a \in Addr : a = x + k
  BY <1>3, SizesAre DEF Addr
<1>8. a \in Points(o, f[p]) <=> Lists(f[p], k)
  <2>1. CASE IsRange(f[p])
    <3>1. Points(o, f[p]) = (x + f[p].from)..(x + f[p].to)
      BY <1>4, <2>1, Zenon DEF Points
    <3>2. Lists(f[p], k) <=> k \in f[p].from..f[p].to
      BY <2>1, Zenon DEF Lists
    <3>3. PICK from \in Nat : from = f[p].from
      BY <1>5
    <3>4. PICK to \in Int : to = f[p].to
      BY <1>5 DEF None
    <3>5. x + k \in (x + from)..(x + to) <=> k \in from..to
      <4>1. k \in Int /\ x \in Int /\ from \in Int /\ to \in Int
        BY <1>3
      <4> QED
        BY ONLY <4>1
    <3> QED
      BY <1>7, <3>1, <3>2, <3>3, <3>4, <3>5, Zenon
  <2>2. CASE ~ IsRange(f[p])
    <3>1. x = 0
      <4>1. f[i].opts.block = 0
        BY <1>6, <2>2, Zenon
      <4>2. x = 0 * s
        BY <1>2, <1>3, <4>1, Zenon DEF Base
      <4> QED
        BY <1>3, <4>2
    <3>2. a = k
      BY <1>3, <1>7, <3>1
    <3> QED
      BY <2>2, <3>2 DEF Points, Lists
  <2> QED
    BY <2>1, <2>2
<1>9. CASE Lists(f[p], k)
  <2>1. p \in (i + 1)..p /\ \A m \in (i + 1)..p : m <= p
    BY <1>1
  <2>2. p \in LastLine(f, i, p, k)
    BY <1>9, <2>1, Zenon DEF LastLine
  <2>3. buf2[a] = [point |-> Level(f[p])]
    BY <1>8, <1>9, Zenon
  <2> QED
    BY <1>7, <2>2, <2>3, Zenon
<1>10. CASE ~ Lists(f[p], k)
  <2>1. PICK l \in (i + 1)..p : Lists(f[l], k)
    OBVIOUS
  <2>2. l \in (i + 1)..(p - 1)
    <3>1. l # p
      BY <1>10, <2>1
    <3> QED
      BY <1>1, <3>1
  <2>3. k \in 0..(f[i].opts.size - 1)
    BY <1>2
  <2>4. PICK m \in LastLine(f, i, p - 1, k) : buf[Base(f, i) + k] = [point |-> Level(f[m])]
    BY <2>1, <2>2, <2>3, Zenon DEF Stored
  <2>5. /\ m \in (i + 1)..(p - 1) /\ Lists(f[m], k)
        /\ \A n \in (i + 1)..(p - 1) : Lists(f[n], k) => n <= m
    BY <2>4, Zenon DEF LastLine
  <2>6. m \in (i + 1)..p
    BY <1>1, <2>5
  <2>7. ASSUME NEW n \in (i + 1)..p, Lists(f[n], k) PROVE n <= m
    <3>1. n # p
      BY <1>10, <2>7
    <3>2. n \in (i + 1)..(p - 1)
      BY <1>1, <3>1
    <3> QED
      BY <2>5, <2>7, <3>2, Zenon
  <2>8. m \in LastLine(f, i, p, k)
    BY <2>5, <2>6, <2>7, Zenon DEF LastLine
  <2>9. buf2[a] = buf[a]
    BY <1>8, <1>10, Zenon
  <2> QED
    BY <1>3, <1>7, <2>4, <2>8, <2>9, Zenon
<1> QED
  BY <1>9, <1>10

LEMMA ReadingOK == TypeInv /\ ReadOK /\ Reading => ReadOK'
<1> SUFFICES ASSUME TypeInv, ReadOK, Reading PROVE ReadOK'
  OBVIOUS
<1>1. PICK f : f = File
  OBVIOUS
<1>2. /\ ~ At("idle") /\ call.pc \in {"spec", "data"}
      /\ call.chnl \in Chnl /\ f \in Files[call.chnl] /\ call.pos \in Nat \ {0}
      /\ call.size \in Size \cup {0} /\ call.lines \in Seq(DataLine)
      /\ DOMAIN call = Fields
      /\ opt \in Options
  <2>1. ~ At("idle") /\ call.pc \in {"spec", "data"}
    BY ReadingWrites DEF At
  <2> QED
    BY <1>1, <2>1, Zenon DEF TypeInv, TypeOK, CallOK
<1>3. /\ Len(f) \in Nat
      /\ ~ EndOfFile => /\ call.pos \in 1..Len(f) /\ Line = f[call.pos] /\ IsLine(Line)
      /\ EndOfFile => call.pos > Len(f)
  BY <1>1, <1>2, FilesAssumption DEF EndOfFile, Line
<1>4. \A j \in Specs(f) : j \in 1..Len(f) /\ f[j].kind = "wavespec"
  BY Zenon DEF Specs
<1>5. WellFormed(f) =>
        /\ At("spec") => Between(call, mem[call.chnl], f)
        /\ At("data") => \E i \in Specs(f) : Inside(call, opt, mem[call.chnl], f, i)
  BY <1>1, <1>2, Zenon DEF ReadOK
<1>6. CASE ReadSpec
  <2>1. /\ At("spec") /\ Line.kind = "wavespec" /\ call.pos \in 1..Len(f)
        /\ Line = f[call.pos] /\ IsLine(Line)
    BY <1>3, <1>6, Zenon DEF ReadSpec
  <2>2. PICK o : o = Override(opt, f[call.pos].opts)
    OBVIOUS
  <2>3. /\ o \in Options
        /\ o.type # "none" => IsOpt(o)
        /\ \A k \in DOMAIN f[call.pos].opts : o[k] = f[call.pos].opts[k]
    BY <1>2, <2>1, <2>2, OverrideOpt
  <2> DEFINE next == [call EXCEPT !.pos = @ + 1, !.size = IF o.size # 0 THEN o.size ELSE @,
                                  !.lines = <<>>]
  <2>4. \/ o.type = "none" /\ Fail
        \/ /\ o.type \in Listed /\ opt' = o
           /\ call' = [next EXCEPT !.pc = "data"] /\ mem' = mem /\ request' = request
        \/ /\ o.type = "sine" /\ Load(o, <<>>)
           /\ call' = [next EXCEPT !.buf = Built(o, <<>>)] /\ request' = request
    BY <1>6, <2>1, <2>2, Zenon DEF ReadSpec
  <2>5. CASE o.type = "none" /\ Fail
    BY <2>5, IdleIs, Zenon DEF Fail, ReadOK, At
  <2>6. call.pos \in Specs(f)
    BY <2>1, Zenon DEF Specs
  <2>7. WellFormed(f) =>
          /\ o.type = f[call.pos].opts.type /\ o.size = f[call.pos].opts.size
          /\ o.block = f[call.pos].opts.block /\ o.size \in Size /\ o.size # 0
          /\ \A k \in Uses[o.type] : o[k] = f[call.pos].opts[k]
          /\ \A j \in Specs(f) : f[j].opts.size = f[call.pos].opts.size
          /\ InMem(mem[call.chnl], f, call.pos)
    <3> SUFFICES ASSUME WellFormed(f)
                 PROVE  /\ o.type = f[call.pos].opts.type /\ o.size = f[call.pos].opts.size
                        /\ o.block = f[call.pos].opts.block /\ o.size \in Size /\ o.size # 0
                        /\ \A k \in Uses[o.type] : o[k] = f[call.pos].opts[k]
                        /\ \A j \in Specs(f) : f[j].opts.size = f[call.pos].opts.size
                        /\ InMem(mem[call.chnl], f, call.pos)
      OBVIOUS
    <3>1. /\ {"type", "size", "block"} \subseteq DOMAIN f[call.pos].opts
          /\ Uses[f[call.pos].opts.type] \subseteq DOMAIN f[call.pos].opts
          /\ f[call.pos].opts.size \in Size
          /\ \A j \in Specs(f) : f[j].opts.size = f[call.pos].opts.size
      BY <1>2, <2>6, WellFormedSpec
    <3>2. /\ o.type = f[call.pos].opts.type /\ o.size = f[call.pos].opts.size
          /\ o.block = f[call.pos].opts.block
          /\ \A k \in Uses[o.type] : o[k] = f[call.pos].opts[k]
      BY <2>3, <3>1
    <3>3. o.size \in Size /\ o.size # 0
      BY <3>1, <3>2, SizesAre
    <3>4. InMem(mem[call.chnl], f, call.pos)
      BY <1>5, <2>1, Zenon DEF Between
    <3> QED
      BY <3>1, <3>2, <3>3, <3>4, Zenon
  <2>8. CASE /\ o.type \in Listed /\ opt' = o
             /\ call' = [next EXCEPT !.pc = "data"] /\ mem' = mem /\ request' = request
    <3>1. /\ call'.pc = "data" /\ call'.chnl = call.chnl /\ call'.pos = call.pos + 1
          /\ call'.size = IF o.size # 0 THEN o.size ELSE call.size
          /\ call'.lines = <<>>
      BY <1>2, <2>8 DEF Fields
    <3> HIDE DEF next
    <3>2. ASSUME WellFormed(f)
          PROVE  Inside(call', opt', mem'[call.chnl], f, call.pos)
      <4>1. \A k \in (call.pos + 1)..(call'.pos - 1) : f[k].kind = "data"
        BY <2>1, <3>1
      <4>2. call'.lines = [k \in 1..(call'.pos - 1 - call.pos) |-> f[call.pos + k]]
        <5>1. call'.pos - 1 - call.pos = 0
          BY <2>1, <3>1
        <5>2. [k \in 1..0 |-> f[call.pos + k]] = <<>>
          OBVIOUS
        <5> QED
          BY <3>1, <5>1, <5>2
      <4>3. call.pos < call'.pos /\ call'.pos <= Len(f) + 1
        BY <1>3, <2>1, <3>1
      <4>4. call'.size = o.size
        BY <2>7, <3>1, <3>2
      <4>5. Stored(call'.buf, f, call.pos, call'.pos - 1)
        <5>1. ~ \E l \in (call.pos + 1)..(call'.pos - 1) : TRUE
          BY <2>1, <3>1
        <5> QED
          BY <5>1, Zenon DEF Stored
      <4> QED
        BY <2>7, <2>8, <3>2, <4>1, <4>2, <4>3, <4>4, <4>5, Zenon DEF Inside
    <3> QED
      BY <1>1, <1>2, <2>6, <2>8, <3>1, <3>2, ReadNext
  <2>9. CASE /\ o.type = "sine" /\ Load(o, <<>>)
             /\ call' = [next EXCEPT !.buf = Built(o, <<>>)] /\ request' = request
    <3>1. /\ call'.pc = "spec" /\ call'.chnl = call.chnl /\ call'.pos = call.pos + 1
          /\ call'.size = IF o.size # 0 THEN o.size ELSE call.size
      BY <1>2, <2>1, <2>9 DEF Fields, At
    <3> HIDE DEF next
    <3>2. ASSUME WellFormed(f)
          PROVE  Between(call', mem'[call.chnl], f)
      <4>1. IsOpt(o) /\ o.type # "raw" /\ o.type # "fourier"
        BY <2>3, <2>9
      <4>2. Wave(o, <<>>) = WaveAt(f, call.pos)
        <5>1. [k \in Uses[o.type] |-> o[k]] = [k \in Uses[o.type] |-> f[call.pos].opts[k]]
          BY <2>7, <3>2, Zenon
        <5> QED
          BY <2>7, <2>9, <3>2, <5>1, Zenon DEF Wave, WaveAt
      <4>3. \A j \in Specs(f) : j < call.pos + 1 => j <= call.pos
        BY <1>3, <1>4, <2>1
      <4>4. call.pos + 1 \in Int /\ call.pos < call.pos + 1
        BY <2>1
      <4>5. InMem(mem'[call.chnl], f, call.pos + 1)
        BY <1>1, <1>2, <2>6, <2>7, <2>9, <3>2, <4>1, <4>2, <4>3, <4>4, LoadSpec
      <4>6. \A j \in Specs(f) : call'.size = f[j].opts.size
        BY <2>7, <3>1, <3>2
      <4> QED
        BY <3>1, <4>5, <4>6, Zenon DEF Between
    <3> QED
      BY <1>1, <1>2, <2>9, <3>1, <3>2, ReadNext
  <2> QED
    BY <2>4, <2>5, <2>8, <2>9, Zenon
<1>7. CASE SkipLine
  <2>1. /\ call'.pc = "spec" /\ call'.chnl = call.chnl /\ call'.pos = call.pos + 1
        /\ call'.size = call.size
    BY <1>2, <1>7 DEF SkipLine, Fields, At
  <2>2. /\ call.pos \in 1..Len(f) /\ f[call.pos].kind # "wavespec" /\ At("spec")
        /\ mem' = mem /\ request' = request
    BY <1>3, <1>7, Zenon DEF SkipLine
  <2>3. \A j \in Specs(f) : j < call.pos <=> j < call.pos + 1
    BY <1>3, <1>4, <2>2
  <2>4. ASSUME WellFormed(f) PROVE Between(call', mem'[call.chnl], f)
    <3>1. Between(call, mem[call.chnl], f)
      BY <1>5, <2>2, <2>4
    <3>2. InMem(mem[call.chnl], f, call.pos + 1)
      BY <2>3, <3>1, InMemSame, Zenon DEF Between
    <3> QED
      BY <2>1, <2>2, <2>3, <3>1, <3>2, Zenon DEF Between
  <2> QED
    BY <1>1, <1>2, <2>1, <2>2, <2>4, ReadNext
<1>8. CASE ReadData
  <2>1. PICK buf : buf = IF opt.type # "raw" THEN call.buf
                         ELSE [a \in Addr |-> IF a \in Points(opt, Line)
                                              THEN [point |-> Level(Line)] ELSE call.buf[a]]
    OBVIOUS
  <2>2. call' = [call EXCEPT !.pos = @ + 1, !.lines = Append(@, Line), !.buf = buf]
    BY <1>8, <2>1, Zenon DEF ReadData
  <2>3. /\ call.pos \in 1..Len(f) /\ f[call.pos].kind = "data" /\ At("data")
        /\ Line = f[call.pos] /\ f[call.pos] \in DataLine
        /\ mem' = mem /\ request' = request /\ opt' = Scanned(opt, Line)
    BY <1>3, <1>8, Zenon DEF ReadData, IsLine
  <2>4. /\ call'.pc = "data" /\ call'.chnl = call.chnl /\ call'.pos = call.pos + 1
        /\ call'.size = call.size /\ call'.lines = Append(call.lines, Line) /\ call'.buf = buf
    BY <1>2, <2>2, <2>3 DEF Fields, At
  <2>5. /\ opt'.type = opt.type /\ opt'.size = opt.size /\ opt'.block = opt.block
        /\ \A k \in {"teeth", "base", "height"} : opt'[k] = opt[k]
    BY <1>2, <2>3, ScannedOpt
  <2>6. ASSUME WellFormed(f), NEW i \in Specs(f), Inside(call, opt, mem[call.chnl], f, i)
        PROVE  Inside(call', opt', mem'[call.chnl], f, i)
    <3>1. /\ i < call.pos /\ i \in Nat
          /\ InMem(mem[call.chnl], f, i)
          /\ \A k \in (i + 1)..(call.pos - 1) : f[k].kind = "data"
          /\ f[i].opts.type \in Listed
          /\ opt.type = f[i].opts.type /\ opt.size = f[i].opts.size
          /\ opt.block = f[i].opts.block
          /\ \A k \in Uses[f[i].opts.type] : opt[k] = f[i].opts[k]
          /\ call.lines = [k \in 1..(call.pos - 1 - i) |-> f[i + k]]
          /\ call.size = f[i].opts.size
          /\ f[i].opts.type = "raw" => Stored(call.buf, f, i, call.pos - 1)
      <4>1. i \in Nat
        BY <1>3, <1>4
      <4> QED
        BY <2>6, <4>1, Zenon DEF Inside
    <3>2. \A k \in (i + 1)..call.pos : f[k].kind = "data"
      BY <2>3, <3>1
    <3>3. PICK n \in Nat : n = call.pos - 1 - i
      BY <2>3, <3>1
    <3>4. i + n + 1 = call.pos /\ call'.pos - 1 - i = n + 1 /\ call'.pos - 1 = call.pos
      BY <2>3, <2>4, <3>1, <3>3
    <3>5. call.lines = DataOf(f, i, n)
      BY <3>1, <3>3, Zenon DEF DataOf
    <3>6. call'.lines = [k \in 1..(call'.pos - 1 - i) |-> f[i + k]]
      <4>1. DataOf(f, i, n) \in Seq(DataLine)
        BY <1>2, <3>5, Zenon
      <4>2. f[i + n + 1] \in DataLine
        BY <2>3, <3>4, Zenon
      <4>3. i \in Nat
        BY <3>1
      <4>4. Append(DataOf(f, i, n), f[i + n + 1]) = DataOf(f, i, n + 1)
        BY <4>1, <4>2, <4>3, AppendData, Zenon
      <4>5. call'.lines = Append(DataOf(f, i, n), f[i + n + 1])
        BY <2>3, <2>4, <3>4, <3>5, Zenon
      <4> QED
        BY <3>4, <4>4, <4>5, Zenon DEF DataOf
    <3>7. i < call'.pos /\ call'.pos <= Len(f) + 1
      BY <1>3, <2>3, <2>4, <3>1
    <3>8. \A k \in Uses[f[i].opts.type] : opt'[k] = f[i].opts[k]
      <4>1. Uses[f[i].opts.type] \subseteq {"teeth", "base", "height"}
        BY <3>1 DEF Uses, Listed, Type
      <4> QED
        BY <2>5, <3>1, <4>1, Zenon
    <3>9. f[i].opts.type = "raw" => Stored(call'.buf, f, i, call'.pos - 1)
      <4> SUFFICES ASSUME f[i].opts.type = "raw" PROVE Stored(buf, f, i, call.pos)
        BY <2>4, <3>4, Zenon
      <4>1. buf = [a \in Addr |-> IF a \in Points(opt, f[call.pos])
                                  THEN [point |-> Level(f[call.pos])] ELSE call.buf[a]]
        BY <2>1, <2>3, <3>1, Zenon
      <4>2. call.pos \in (i + 1)..Len(f)
        BY <2>3, <3>1
      <4>3. Stored(call.buf, f, i, call.pos - 1) /\ opt.size = f[i].opts.size
            /\ opt.block = f[i].opts.block
        BY <3>1
      <4> QED
        BY <1>2, <2>6, <3>2, <4>1, <4>2, <4>3, StoreLine, Zenon
    <3> QED
      BY <2>3, <2>4, <2>5, <3>1, <3>2, <3>4, <3>6, <3>7, <3>8, <3>9, Zenon DEF Inside
  <2>7. WellFormed(f) => \E i \in Specs(f) : Inside(call', opt', mem'[call.chnl], f, i)
    BY <1>5, <2>3, <2>6, Zenon
  <2> QED
    BY <1>1, <1>2, <2>3, <2>4, <2>7, ReadNext
\* The line a wave's data ends at.
<1>9. ASSUME WellFormed(f), NEW i \in Specs(f), Inside(call, opt, mem[call.chnl], f, i),
             EndOfFile \/ Line.kind # "data"
      PROVE  /\ ~ EndOfFile => Line.kind = "blank"
             /\ opt.type = "fourier" => call.lines # <<>>
             /\ IF opt.type = "raw"
                THEN \A k \in 0..(f[i].opts.size - 1) : IsPoint(call.buf[Base(f, i) + k], f, i, k)
                ELSE Wave(opt, call.lines) = WaveAt(f, i)
  <2>1. /\ i < call.pos /\ i \in 1..Len(f) /\ call.pos <= Len(f) + 1
        /\ \A k \in (i + 1)..(call.pos - 1) : f[k].kind = "data"
        /\ f[i].opts.type \in Listed /\ opt.type = f[i].opts.type
        /\ \A k \in Uses[f[i].opts.type] : opt[k] = f[i].opts[k]
        /\ call.lines = [k \in 1..(call.pos - 1 - i) |-> f[i + k]]
        /\ f[i].opts.type = "raw" => Stored(call.buf, f, i, call.pos - 1)
    BY <1>4, <1>9, Zenon DEF Inside
  <2>2. PICK e \in i..Len(f) : e = call.pos - 1
    BY <1>2, <1>3, <2>1
  <2>3. e = Len(f) \/ f[e + 1].kind # "data"
    BY <1>2, <1>3, <1>9, <2>1, <2>2
  <2>4. DataEnd(f, i) = e
    BY <1>3, <2>1, <2>2, <2>3, DataEndIs
  <2>5. /\ f[i].opts.type = "fourier" => DataEnd(f, i) > i
        /\ f[i].opts.type \in Listed /\ DataEnd(f, i) # Len(f) =>
             f[DataEnd(f, i) + 1].kind = "blank"
        /\ f[i].opts.type = "raw" =>
             \A k \in 0..(f[i].opts.size - 1) : \E l \in DataLines(f, i) : Lists(f[l], k)
    BY <1>2, <1>9, WellFormedSpec, Zenon
  <2>6. ~ EndOfFile => Line.kind = "blank"
    <3> SUFFICES ASSUME ~ EndOfFile PROVE Line.kind = "blank"
      OBVIOUS
    <3>1. e # Len(f) /\ e + 1 = call.pos /\ Line = f[call.pos]
      BY <1>2, <1>3, <2>2
    <3> QED
      BY <2>1, <2>4, <2>5, <3>1, Zenon
  <2>7. CASE opt.type # "raw"
    <3>1. f[i].opts.type # "sine"
      BY <2>1 DEF Listed
    <3>2. WaveAt(f, i).lines = [k \in 1..(DataEnd(f, i) - i) |-> f[i + k]]
      BY <3>1 DEF WaveAt
    <3>3. call.pos - 1 - i = DataEnd(f, i) - i
      BY <2>2, <2>4, Zenon
    <3>4. call.lines = WaveAt(f, i).lines
      BY <2>1, <3>2, <3>3, Zenon
    <3>5. [k \in Uses[opt.type] |-> opt[k]] = [k \in Uses[opt.type] |-> f[i].opts[k]]
      BY <2>1, Zenon
    <3>6. Wave(opt, call.lines) = WaveAt(f, i)
      BY <2>1, <3>1, <3>2, <3>4, <3>5, Zenon DEF Wave, WaveAt
    <3>7. opt.type = "fourier" => call.lines # <<>>
      <4> SUFFICES ASSUME opt.type = "fourier", call.lines = <<>> PROVE FALSE
        OBVIOUS
      <4>1. e > i
        BY <2>1, <2>4, <2>5, Zenon
      <4>2. 1 \in DOMAIN call.lines
        <5>1. 1 \in 1..(call.pos - 1 - i)
          BY <1>3, <2>1, <2>2, <4>1
        <5> QED
          BY <2>1, <5>1
      <4>3. DOMAIN <<>> = {}
        OBVIOUS
      <4> QED
        BY <4>2, <4>3
    <3> QED
      BY <2>6, <2>7, <3>6, <3>7, Zenon
  <2>8. CASE opt.type = "raw"
    <3>1. ASSUME NEW k \in 0..(f[i].opts.size - 1)
          PROVE  IsPoint(call.buf[Base(f, i) + k], f, i, k)
      <4>1. PICK l \in DataLines(f, i) : Lists(f[l], k)
        BY <2>1, <2>5, <2>8, Zenon
      <4>2. l \in (i + 1)..e
        <5>1. l \in (i + 1)..Len(f) /\ \A m \in (i + 1)..l : f[m].kind = "data"
          BY DEF DataLines
        <5>2. ASSUME l > e PROVE FALSE
          <6>1. e + 1 \in (i + 1)..l /\ e # Len(f)
            BY <1>3, <2>1, <5>1, <5>2
          <6> QED
            BY <2>3, <5>1, <6>1
        <5> QED
          BY <1>3, <2>1, <5>1, <5>2
      <4>3. \E m \in LastLine(f, i, e, k) : call.buf[Base(f, i) + k] = [point |-> Level(f[m])]
        BY <2>1, <2>2, <2>8, <4>1, <4>2, Zenon DEF Stored
      <4> QED
        BY <2>1, <2>4, <2>8, <4>3, Zenon DEF IsPoint
    <3> QED
      BY <2>6, <2>8, <3>1
  <2> QED
    BY <2>7, <2>8
<1>10. CASE EndData
  <2>1. /\ call'.pc = "spec" /\ call'.chnl = call.chnl /\ call'.pos = call.pos + 1
        /\ call'.size = call.size
    <3>1. PICK buf : call' = [call EXCEPT !.pc = "spec", !.pos = @ + 1, !.buf = buf]
      BY <1>10, Zenon DEF EndData
    <3> QED
      BY <1>2, <3>1 DEF Fields
  <2>2. /\ At("data") /\ Load(AtEnd, LastLines) /\ request' = request
        /\ ~ EndOfFile => Line.kind = "blank" \/ (Line.kind = "data" /\ ~ Complete(opt.type, Line))
    BY <1>10, Zenon DEF EndData
  <2>3. ASSUME WellFormed(f) PROVE Between(call', mem'[call.chnl], f)
    <3>1. PICK i \in Specs(f) : Inside(call, opt, mem[call.chnl], f, i)
      BY <1>5, <2>2, <2>3, Zenon
    <3>2. /\ i < call.pos /\ InMem(mem[call.chnl], f, i)
          /\ \A k \in (i + 1)..(call.pos - 1) : f[k].kind = "data"
          /\ opt.type = f[i].opts.type /\ opt.size = f[i].opts.size
          /\ opt.block = f[i].opts.block /\ call.size = f[i].opts.size
          /\ f[i].opts.type \in Listed
      BY <3>1, Zenon DEF Inside
    <3>3. EndOfFile \/ Line.kind # "data"
      <4> SUFFICES ASSUME ~ EndOfFile, Line.kind = "data" PROVE FALSE
        OBVIOUS
      <4>1. call.pos \in (i + 1)..Len(f) /\ i \in 1..Len(f) /\ Line = f[call.pos]
        BY <1>3, <1>4, <3>2
      <4>2. \A k \in (i + 1)..call.pos : f[k].kind = "data"
        BY <3>2, <4>1
      <4>3. call.pos \in DataLines(f, i)
        BY <1>3, <4>1, <4>2, InDataLines
      <4>4. Complete(f[i].opts.type, f[call.pos])
        BY <1>2, <2>3, <3>2, <4>3, WellFormedSpec, Zenon
      <4> QED
        BY <2>2, <3>2, <4>1, <4>4, Zenon
    <3>4. Load(opt, call.lines)
      BY <2>2, <3>3, Zenon DEF AtEnd, LastLines
    <3>5. /\ opt.type = "fourier" => call.lines # <<>>
          /\ IF opt.type = "raw"
             THEN \A k \in 0..(f[i].opts.size - 1) : IsPoint(call.buf[Base(f, i) + k], f, i, k)
             ELSE Wave(opt, call.lines) = WaveAt(f, i)
      BY <1>9, <2>3, <3>1, <3>3, Zenon
    <3>6. IsOpt(opt)
      BY <1>2, <3>2 DEF IsOpt, Listed, Type
    <3>7. \A j \in Specs(f) : j < call.pos + 1 => j <= i
      <4> SUFFICES ASSUME NEW j \in Specs(f), j < call.pos + 1, j > i PROVE FALSE
        BY <1>2, <1>3, <1>4
      <4>1. CASE j = call.pos
        <5>1. ~ EndOfFile /\ Line = f[j]
          BY <1>3, <1>4, <4>1
        <5>2. Line.kind = "blank"
          BY <2>2, <3>3, <5>1
        <5> QED
          BY <1>4, <5>1, <5>2
      <4>2. CASE j # call.pos
        <5>1. j \in (i + 1)..(call.pos - 1)
          BY <1>2, <1>3, <1>4, <4>2
        <5> QED
          BY <1>4, <3>2, <5>1
      <4> QED
        BY <4>1, <4>2
    <3>8. call.pos + 1 \in Int /\ i < call.pos + 1
      BY <1>2, <1>3, <1>4, <3>2
    <3>9. InMem(mem'[call.chnl], f, call.pos + 1)
      BY <1>1, <1>2, <2>3, <3>2, <3>4, <3>5, <3>6, <3>7, <3>8, LoadSpec
    <3>10. \A j \in Specs(f) : f[j].opts.size = f[i].opts.size
      BY <1>2, <2>3, SpecPlace
    <3> QED
      BY <2>1, <3>2, <3>9, <3>10, Zenon DEF Between
  <2> QED
    BY <1>1, <1>2, <2>1, <2>2, <2>3, ReadNext
<1>11. CASE DropData
  <2>1. call'.pc = "spec" /\ call'.chnl = call.chnl
    BY <1>2, <1>11 DEF DropData, Fields
  <2>2. At("data") /\ ~ EndOfFile /\ Line.kind \in {"wavespec", "text"} /\ request' = request
    BY <1>11, Zenon DEF DropData
  <2>3. ~ WellFormed(f)
    <3> SUFFICES ASSUME WellFormed(f) PROVE FALSE
      OBVIOUS
    <3>1. PICK i \in Specs(f) : Inside(call, opt, mem[call.chnl], f, i)
      BY <1>5, <2>2, Zenon
    <3>2. Line.kind # "data" /\ ~ EndOfFile
      BY <2>2
    <3>3. Line.kind = "blank"
      BY <1>9, <3>1, <3>2, Zenon
    <3> QED
      BY <2>2, <3>3
  <2> QED
    BY <1>1, <1>2, <2>1, <2>2, <2>3, ReadNext
<1>12. CASE EndOfLines
  <2>1. PICK s \in IF call.size = 0 THEN Size \cup {0} ELSE {call.size} :
          call' = [Idle EXCEPT !.pc = "set", !.chnl = call.chnl, !.block = call.block, !.size = s]
    BY <1>12, Zenon DEF EndOfLines
  <2>2. call'.pc = "set" /\ call'.chnl = call.chnl /\ call'.size = s
    BY <2>1 DEF Idle
  <2>3. At("spec") /\ EndOfFile /\ mem' = mem /\ request' = request
    BY <1>12, Zenon DEF EndOfLines
  <2>4. ASSUME WellFormed(f) PROVE After(call', mem'[call.chnl], f)
    <3>1. Between(call, mem[call.chnl], f)
      BY <1>5, <2>3, <2>4
    <3>2. \A j \in Specs(f) : j < call.pos /\ j < Len(f) + 1
      BY <1>2, <1>3, <1>4, <2>3
    <3>3. InMem(mem[call.chnl], f, Len(f) + 1)
      BY <3>1, <3>2, InMemSame, Zenon DEF Between
    <3>4. PICK j \in Specs(f) : TRUE
      BY <2>4, Zenon DEF WellFormed
    <3>5. \A l \in Specs(f) : call.size = f[l].opts.size
      BY <3>1, <3>2, Zenon DEF Between
    <3>6. f[j].opts.size \in Size
      BY <1>2, <2>4, SpecPlace
    <3>7. call.size # 0
      BY <3>5, <3>6, SizesAre
    <3>8. s = call.size
      BY <2>1, <3>7
    <3> QED
      BY <2>2, <2>3, <3>3, <3>5, <3>8, Zenon DEF After
  <2> QED
    BY <1>1, <1>2, <2>2, <2>3, <2>4, ReadNext
<1> QED
  BY <1>6, <1>7, <1>8, <1>10, <1>11, <1>12, Zenon DEF Reading

-----------------------------------------------------------------------------
(* Playing what was asked for.                                               *)

\* What a call has written of the channel's size and start.
SetOK ==
  At("set") =>
    /\ call.step > 1 => siz[call.chnl] = call.size
    /\ call.step > 6 => bas[call.chnl] = (call.block * call.size) % MemSize

\* A memory m, a size s and a block's address d that are as the request q asks.
Plays(m, s, d, q) ==
  /\ InMem(m, q.file, Len(q.file) + 1)
  /\ \A i \in Specs(q.file) : s = q.file[i].opts.size
  /\ d = (q.block * s) % MemSize

\* The block that plays, or that will at the end of the present one.
Due(c) == IF jump[c] = None THEN bas[c] ELSE jump[c]

PlayOK ==
  \A c \in Chnl \ resets :
    WellFormed(request[c].file) => Plays(mem[c], siz[c], Due(c), request[c])

WaveInv == TypeInv /\ ReadOK /\ SetOK /\ PlayOK

\* Playing channels are as they were.
LEMMA PlayKept ==
  ASSUME PlayOK, resets \subseteq resets',
         \A c \in Chnl \ resets' :
           /\ request'[c] = request[c] /\ mem'[c] = mem[c] /\ siz'[c] = siz[c]
           /\ bas'[c] = bas[c] /\ jump'[c] = jump[c]
  PROVE  PlayOK'
<1> SUFFICES ASSUME NEW c \in Chnl, c \notin resets', WellFormed(request'[c].file)
             PROVE  Plays(mem'[c], siz'[c], Due(c)', request'[c])
  BY Zenon DEF PlayOK
<1>1. c \in Chnl \ resets'
  OBVIOUS
<1>2. /\ request'[c] = request[c] /\ mem'[c] = mem[c] /\ siz'[c] = siz[c]
      /\ Due(c)' = Due(c)
  BY <1>1, Zenon DEF Due
<1>3. Plays(mem[c], siz[c], Due(c), request[c])
  BY <1>2, Zenon DEF PlayOK
<1> QED
  BY <1>2, <1>3, Zenon

LEMMA WaveFails ==
  ASSUME WaveInv, Fail, UNCHANGED <<Registers, mem>>, ~ At("idle")
  PROVE  ReadOK' /\ SetOK' /\ PlayOK'
<1>1. /\ resets' = resets /\ siz' = siz /\ bas' = bas /\ jump' = jump
      /\ mem' = mem /\ call' = Idle /\ request' = [request EXCEPT ![call.chnl] = NoFile]
  BY Zenon DEF Fail, Registers
<1>2. ReadOK' /\ SetOK'
  BY <1>1, IdleIs DEF ReadOK, SetOK, At
<1>3. call.chnl \in resets /\ DOMAIN request = Chnl
  BY DEF WaveInv, TypeInv, TypeOK, CallOK
<1>4. \A c \in Chnl \ resets' : request'[c] = request[c]
  BY <1>1, <1>3
<1>5. PlayOK'
  BY <1>1, <1>4, PlayKept DEF WaveInv
<1> QED
  BY <1>2, <1>5

LEMMA WaveInit == Init => WaveInv
<1> SUFFICES ASSUME Init PROVE WaveInv
  OBVIOUS
<1>1. call = Idle /\ resets = Chnl
  BY Zenon DEF Init
<1> QED
  BY <1>1, TypeInit, IdleIs DEF WaveInv, ReadOK, SetOK, PlayOK, At

LEMMA WaveStep == WaveInv /\ [Next]_vars => WaveInv'
<1> SUFFICES ASSUME WaveInv, [Next]_vars PROVE ReadOK' /\ SetOK' /\ PlayOK'
  BY TypeStep DEF WaveInv
<1>1. ASSUME NEW c \in Chnl, NEW b \in Block, NEW f \in Files[c], Config(c, f, b)
      PROVE  ReadOK' /\ SetOK' /\ PlayOK'
  <2>1. /\ At("idle") /\ jump[c] = None /\ resets' = resets \cup {c}
        /\ call' = [Idle EXCEPT !.pc = "spec", !.chnl = c, !.block = b]
        /\ request' = [request EXCEPT ![c] = [file |-> f, block |-> b]]
        /\ siz' = siz /\ bas' = bas /\ jump' = jump /\ mem' = mem
    BY <1>1, Zenon DEF Config
  <2>2. call'.pc = "spec" /\ call'.chnl = c /\ call'.pos = 1
    BY <2>1 DEF Idle
  <2>3. DOMAIN request = Chnl
    BY DEF WaveInv, TypeInv, TypeOK
  <2>4. File' = f
    BY <2>1, <2>2, <2>3 DEF File
  <2>5. \A i \in Specs(f) : ~ (i < 1)
    BY FilesAssumption DEF Specs
  <2>6. Between(call', mem'[c], f)
    BY <2>2, <2>5, Zenon DEF Between, InMem
  <2>7. ReadOK'
    BY <2>2, <2>4, <2>6 DEF ReadOK, At
  <2>8. SetOK'
    BY <2>2 DEF SetOK, At
  <2>9. \A d \in Chnl \ resets' : request'[d] = request[d]
    BY <2>1, <2>3
  <2>10. PlayOK'
    BY <2>1, <2>9, PlayKept DEF WaveInv
  <2> QED
    BY <2>7, <2>8, <2>10
<1>2. CASE OpenFails \/ KillAndRestart
  <2>1. ~ At("idle") /\ Fail /\ UNCHANGED <<Registers, mem>>
    BY <1>2 DEF OpenFails, KillAndRestart, At
  <2> QED
    BY <2>1, WaveFails, Zenon
<1>3. CASE Reading
  <2>1. ReadOK'
    BY <1>3, ReadingOK, Zenon DEF WaveInv
  <2>2. /\ resets' = resets /\ siz' = siz /\ bas' = bas /\ jump' = jump
        /\ call.chnl \in resets
        /\ \A c \in Chnl \ {call.chnl} : mem'[c] = mem[c] /\ request'[c] = request[c]
        /\ At("set")' => call'.step = 1
    BY <1>3, ReadingWrites DEF WaveInv
  <2>3. SetOK'
    BY <2>2 DEF SetOK, At
  <2>4. \A c \in Chnl \ resets' : mem'[c] = mem[c] /\ request'[c] = request[c]
    BY <2>2
  <2>5. PlayOK'
    BY <2>2, <2>4, PlayKept DEF WaveInv
  <2> QED
    BY <2>1, <2>3, <2>5
<1>4. CASE Setting
  <2>1. /\ At("set") /\ call.step \in 1..7 /\ call.chnl \in Chnl /\ call.chnl \in resets
        /\ Refuse \/ Written \/ (Release /\ call.step = 7)
    BY <1>4, SettingWrites, Zenon DEF WaveInv
  <2>2. ~ At("idle") /\ (WellFormed(File) => After(call, mem[call.chnl], File))
    BY <2>1 DEF WaveInv, ReadOK, At
  <2>3. siz \in [Chnl -> Size] /\ bas \in [Chnl -> Addr]
    BY Zenon DEF WaveInv, TypeInv, TypeOK
  <2>4. CASE Refuse
    BY <2>2, <2>4, WaveFails, Zenon DEF Refuse
  <2>5. CASE Written
    <3>1. PICK f : f = File
      OBVIOUS
    <3>2. WellFormed(f) => After(call', mem'[call.chnl], f)
      BY <2>2, <2>5, <3>1, Zenon DEF Written, After
    <3>3. ReadOK'
      BY <2>2, <2>5, <3>1, <3>2, ReadNext DEF Written, At
    <3>4. SetOK'
      BY <2>1, <2>3, <2>5 DEF Written, WaveInv, SetOK, At
    <3>5. \A c \in Chnl \ resets' :
            /\ request'[c] = request[c] /\ mem'[c] = mem[c] /\ siz'[c] = siz[c]
            /\ bas'[c] = bas[c] /\ jump'[c] = jump[c]
      BY <2>1, <2>3, <2>5 DEF Written
    <3>6. PlayOK'
      BY <2>5, <3>5, PlayKept DEF Written, WaveInv
    <3> QED
      BY <3>3, <3>4, <3>6
  <2>6. CASE Release /\ call.step = 7
    <3>1. /\ resets' = resets \ {call.chnl} /\ call' = Idle
          /\ siz' = siz /\ bas' = bas /\ jump' = jump /\ mem' = mem /\ request' = request
      BY <2>6, Zenon DEF Release
    <3>2. ReadOK' /\ SetOK'
      BY <3>1, IdleIs DEF ReadOK, SetOK, At
    <3>3. /\ request[call.chnl].file = File /\ request[call.chnl].block = call.block
          /\ jump[call.chnl] = None
      BY <2>2 DEF WaveInv, TypeInv, CallOK
    <3>4. siz[call.chnl] = call.size /\ bas[call.chnl] = (call.block * call.size) % MemSize
      BY <2>1, <2>6 DEF WaveInv, SetOK
    <3>5. WellFormed(File) =>
            Plays(mem[call.chnl], siz[call.chnl], Due(call.chnl), request[call.chnl])
      BY <2>2, <3>3, <3>4, Zenon DEF Plays, Due, After
    <3>6. \A c \in Chnl : Due(c)' = Due(c)
      BY <3>1, Zenon DEF Due
    <3>7. PlayOK'
      <4> SUFFICES ASSUME NEW c \in Chnl, c \notin resets', WellFormed(request'[c].file)
                   PROVE  Plays(mem'[c], siz'[c], Due(c)', request'[c])
        BY Zenon DEF PlayOK
      <4>1. CASE c = call.chnl
        BY <3>1, <3>3, <3>5, <3>6, <4>1, Zenon
      <4>2. CASE c # call.chnl
        <5>1. c \in Chnl \ resets
          BY <3>1, <4>2
        <5>2. Plays(mem[c], siz[c], Due(c), request[c])
          BY <3>1, <5>1, Zenon DEF WaveInv, PlayOK
        <5> QED
          BY <3>1, <3>6, <5>2, Zenon
      <4> QED
        BY <4>1, <4>2
    <3> QED
      BY <3>2, <3>7
  <2> QED
    BY <2>1, <2>4, <2>5, <2>6, Zenon
<1>5. ASSUME NEW c \in Chnl, NEW b \in Block, SetNewActiveBlock(c, b)
      PROVE  ReadOK' /\ SetOK' /\ PlayOK'
  <2>1. /\ At("idle") /\ c \notin resets /\ jump[c] = None
        /\ jump' = [jump EXCEPT ![c] = (b * siz[c]) % MemSize]
        /\ request' = [request EXCEPT ![c].block = b]
        /\ resets' = resets /\ siz' = siz /\ bas' = bas /\ mem' = mem /\ call' = call
    BY <1>5, Zenon DEF SetNewActiveBlock
  <2>2. ReadOK' /\ SetOK'
    BY <2>1 DEF ReadOK, SetOK, At
  <2>3. /\ request[c] \in [file: Files[c], block: Block] /\ DOMAIN request = Chnl
        /\ DOMAIN jump = Chnl /\ siz[c] \in Size
    BY <2>1 DEF WaveInv, TypeInv, TypeOK, AskedOK
  <2>4. /\ request'[c].file = request[c].file /\ request'[c].block = b
        /\ \A d \in Chnl \ {c} : request'[d] = request[d] /\ jump'[d] = jump[d]
        /\ jump'[c] = (b * siz[c]) % MemSize
    BY <2>1, <2>3
  <2>5. jump'[c] # None
    <3>1. PICK x \in Int : x = siz[c]
      BY <2>3, SizesAre
    <3>2. PICK a \in Int : a = b * x
      BY WaveformAssumption
    <3>3. a % MemSize >= 0
      BY SizesAre
    <3> QED
      BY <2>4, <3>1, <3>2, <3>3 DEF None
  <2>6. PlayOK'
    <3> SUFFICES ASSUME NEW d \in Chnl, d \notin resets', WellFormed(request'[d].file)
                 PROVE  Plays(mem'[d], siz'[d], Due(d)', request'[d])
      BY Zenon DEF PlayOK
    <3>1. d \in Chnl \ resets
      BY <2>1
    <3>2. CASE d = c
      <4>1. Plays(mem[c], siz[c], Due(c), request[c])
        BY <2>4, <3>1, <3>2, Zenon DEF WaveInv, PlayOK
      <4>2. Due(c)' = (b * siz[c]) % MemSize
        BY <2>4, <2>5, Zenon DEF Due
      <4>3. /\ InMem(mem[c], request[c].file, Len(request[c].file) + 1)
            /\ \A i \in Specs(request[c].file) : siz[c] = request[c].file[i].opts.size
        BY <4>1, Zenon DEF Plays
      <4>4. /\ InMem(mem[c], request'[c].file, Len(request'[c].file) + 1)
            /\ \A i \in Specs(request'[c].file) : siz[c] = request'[c].file[i].opts.size
        BY <2>4, <4>3, Zenon
      <4>5. Due(c)' = (request'[c].block * siz[c]) % MemSize
        BY <2>4, <4>2, Zenon
      <4>6. Plays(mem[c], siz[c], Due(c)', request'[c])
        BY <4>4, <4>5, Zenon DEF Plays
      <4>7. mem' = mem /\ siz' = siz
        BY <2>1
      <4> QED
        BY <3>2, <4>6, <4>7, Zenon
    <3>3. CASE d # c
      <4>1. request'[d] = request[d] /\ Due(d)' = Due(d)
        BY <2>1, <2>4, <3>3 DEF Due
      <4>2. Plays(mem[d], siz[d], Due(d), request[d])
        BY <3>1, <4>1, Zenon DEF WaveInv, PlayOK
      <4> QED
        BY <2>1, <4>1, <4>2, Zenon
    <3> QED
      BY <3>2, <3>3
  <2> QED
    BY <2>2, <2>6
<1>6. ASSUME NEW c \in Chnl, Jump(c)
      PROVE  ReadOK' /\ SetOK' /\ PlayOK'
  <2>1. /\ c \notin resets /\ jump[c] # None
        /\ bas' = [bas EXCEPT ![c] = jump[c]] /\ jump' = [jump EXCEPT ![c] = None]
        /\ resets' = resets /\ siz' = siz /\ mem' = mem
        /\ opt' = opt /\ call' = call /\ request' = request
    BY <1>6, Zenon DEF Jump
  <2>2. ReadOK'
    BY <2>1, ReadSame, Zenon DEF WaveInv
  <2>3. DOMAIN bas = Chnl /\ DOMAIN jump = Chnl
    BY DEF WaveInv, TypeInv, TypeOK
  <2>4. SetOK'
    <3>1. At("set") => call.chnl # c
      BY <2>1 DEF WaveInv, TypeInv, CallOK, At
    <3>2. At("set") => bas'[call.chnl] = bas[call.chnl]
      BY <2>1, <2>3, <3>1
    <3> QED
      BY <2>1, <3>2 DEF WaveInv, SetOK, At
  <2>5. \A d \in Chnl : Due(d)' = Due(d)
    BY <2>1, <2>3 DEF Due
  <2>6. PlayOK'
    BY <2>1, <2>5, Zenon DEF WaveInv, PlayOK
  <2> QED
    BY <2>2, <2>4, <2>6
<1>7. CASE UNCHANGED vars
  BY <1>7, Zenon DEF vars, WaveInv, ReadOK, SetOK, PlayOK, At, File, Due
<1> QED
  BY <1>1, <1>2, <1>3, <1>4, <1>5, <1>6, <1>7, Zenon DEF Next, Continue

LEMMA WavePlays == WaveInv => PlaysRequested
<1> SUFFICES ASSUME WaveInv, NEW c \in Chnl, c \notin resets
             PROVE  /\ request[c] # NoFile
                    /\ jump[c] = None /\ WellFormed(request[c].file) =>
                         \A i \in LastSpec(request[c].file, request[c].block) :
                           /\ siz[c] = request[c].file[i].opts.size
                           /\ \A k \in 0..(siz[c] - 1) :
                                IsPoint(mem[c][(bas[c] + k) % MemSize], request[c].file, i, k)
  BY Zenon DEF PlaysRequested
<1>1. request[c] \in [file: Files[c], block: Block]
  BY DEF WaveInv, TypeInv, AskedOK
<1>2. request[c] # NoFile
  <2>1. DOMAIN request[c] = {"file", "block"} /\ DOMAIN NoFile = {"file"}
    BY <1>1 DEF NoFile
  <2> QED
    BY <2>1
<1>3. PICK f \in Files[c] : f = request[c].file
  BY <1>1
<1>4. ASSUME jump[c] = None, WellFormed(f), NEW i \in LastSpec(f, request[c].block),
             siz[c] = f[i].opts.size, NEW k \in 0..(siz[c] - 1)
      PROVE  IsPoint(mem[c][(bas[c] + k) % MemSize], f, i, k)
  <2>1. Plays(mem[c], siz[c], bas[c], request[c])
    BY <1>3, <1>4 DEF WaveInv, PlayOK, Due
  <2>2. /\ i \in Specs(f) /\ f[i].opts.block = request[c].block
        /\ \A j \in Specs(f) : f[j].opts.block = request[c].block => j <= i
    BY Zenon DEF LastSpec
  <2>3. Len(f) \in Nat /\ \A j \in Specs(f) : j \in 1..Len(f)
    BY <1>3, FilesAssumption DEF Specs
  <2>4. \A j \in Specs(f) : i < j /\ j < Len(f) + 1 => f[j].opts.block # f[i].opts.block
    BY <2>2, <2>3
  <2>5. i < Len(f) + 1
    BY <2>2, <2>3
  <2>6. /\ InMem(mem[c], f, Len(f) + 1) /\ siz[c] = f[i].opts.size
        /\ bas[c] = (f[i].opts.block * siz[c]) % MemSize
    BY <1>3, <2>1, <2>2, Zenon DEF Plays
  <2>7. IsPoint(mem[c][Base(f, i) + k], f, i, k)
    BY <2>2, <2>4, <2>5, <2>6, Zenon DEF InMem
  <2>8. /\ f[i].opts.size \in Size
        /\ f[i].opts.block \in 0..(MemSize \div f[i].opts.size - 1)
    BY <1>3, <1>4, <2>2, SpecPlace
  <2>9. PICK p \in Nat : /\ p = f[i].opts.block * f[i].opts.size
                         /\ p + f[i].opts.size <= MemSize /\ f[i].opts.size \in Nat \ {0}
    BY <2>8, InMemory
  <2>10. MemSize \in Nat \ {0} /\ k \in 0..(f[i].opts.size - 1)
    BY <2>6, SizesAre
  <2>11. p \in 0..(MemSize - 1) /\ p + k \in 0..(MemSize - 1)
    BY <2>9, <2>10
  <2>12. p % MemSize = p /\ (p + k) % MemSize = p + k
    BY <2>10, <2>11, ModIs, Zenon
  <2>13. bas[c] = p /\ Base(f, i) = p
    BY <2>6, <2>9, <2>12, Zenon DEF Base
  <2> QED
    BY <2>7, <2>12, <2>13, Zenon
<1>5. ASSUME jump[c] = None, WellFormed(f), NEW i \in LastSpec(f, request[c].block)
      PROVE  siz[c] = f[i].opts.size
  <2>1. Plays(mem[c], siz[c], bas[c], request[c]) /\ i \in Specs(f)
    BY <1>3, <1>5, Zenon DEF WaveInv, PlayOK, Due, LastSpec
  <2> QED
    BY <1>3, <2>1, Zenon DEF Plays
<1> QED
  BY <1>2, <1>3, <1>4, <1>5, Zenon

\* A channel that plays, plays the block that its last configuration or
\* transition asked for, whole, as a well-formed file describes it: for any
\* channels, sizes and files, whatever was refused, dropped or killed before.
THEOREM PlaysAsRequested == Spec => []PlaysRequested
BY WaveInit, WaveStep, WavePlays, PTL DEF Spec

===============================================================================
