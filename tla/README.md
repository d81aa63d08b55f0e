# Verification of the VME interface library

The repository holds C libraries that drive Highland Technology VME boards (V210 relays, V375
waveform generator, V450 analog input, V470 analog output, V545 LVDT/synchro simulator) through
memory-mapped registers, the program `v120_config` that sets up V120 crate controllers and scans
for boards, and demonstration programs.  The libraries are sequential.  What makes them hard is
what they share: a board has a processor of its own that reads and writes the same registers while
a call is half done, keeps running when a program is killed, and keeps what the killed program
wrote; the library keeps almost no state and recovers what it needs from the board.

This directory holds TLA+ modules of the parts below, TLC configurations, and proofs for TLAPS.

## 1. Parts of the system

| Part | State | Operations | Correct when |
|---|---|---|---|
| `lib/ht_utils` macro mailbox | MACRO and PARAM registers, shared with the firmware | `ht_write_macro()` | a caller is told the outcome of its own command; nothing disturbs one that runs; calls end |
| `lib/ht_utils` interlocked access | none | `ht_read_interlocked()`, `ht_write_interlocked()` | both halves of a 32-bit word belong together |
| `lib/v545_utils` override blocks and register file | FUN and OVR registers of 4 blocks, 64 words of register file | configure, arm, clear; flash and power-supply macros use the same file | a tripped block drives outputs to the targets configured; pairs are never shared; clearing leaves nothing behind |
| `lib/v545_utils` function blocks | FUN, OPR, STS and settings of 12 blocks, shared with the firmware | four `v545_config_*`, `v545_write_function_code()`, clear | the firmware takes whole requests; success is this call's; no motion after an error |
| `lib/v545_utils` excitation | DDS registers, channel control block of 24 coils | `v545_config_dds()`, `v545_config_ccb()` | a coil hangs on a running source; a refused request changes nothing |
| `lib/v545_utils` flash, `user/v545/v545_reflash.c` | a page in the register file, the flash memory and its lock, the progress thread and its flag | load, verify, checksum | the flash holds the image, or the caller knows that it does not; what a failure leaves is whole pages in order; the program ends |
| `lib/v545_utils` accessors | none | read and write one register with a conversion | - |
| `lib/v210_utils` | a 64-bit mask in the library; control registers, contacts, CSR | edit the mask, write it, read it back, connect | no request for a relay is lost |
| `lib/v375_utils` wave files and channels | static options; wave memory, RESETS, SIZ, BAS, JBA, FREQ, PHA of 4 channels | `v375_config_chnl_wavefile()`, `v375_load_wavetable()`, `v375_set_new_active_block()` | what plays is what the file says; channels do not disturb each other |
| `lib/v375_utils` macros | parameters of the mailbox | built-in waveforms, tests, sweeps | as the mailbox |
| `lib/v450_utils`, `lib/v470_utils` | control and filter registers, counts, a static flag | configure, set filters, read, write, measure, self test | settings of one channel leave the others alone; a count is scaled with the range it belongs to |
| `v120_config -scan` | crates, mapped regions, 20 cards per crate, number of boards of each type, output file | set up regions, probe every address, list | every known board is listed once, under a name of its own, where it is; the scan ends |
| `v120_config` without `-scan` | the same, from a file; a static page number | repeater and vmedevice lines | a listed line says truly whether a board is there and in which space |
| `lib/get_vaddr_for_device` | static options, mapped regions | find a board by name in the output file, map it | it answers as a directory of the file would, whatever was looked up before |
| `lib/parse_options`, `parse_args`, `read_line` | static tables | text | tokens and options are those of the line |
| `lib/is_a_utils`, `deg_conv`, `misc_*` | none | conversions | - |
| `user/*` | - | call the libraries, print | - |

How they interact:

- Host and firmware meet in registers only: MACRO/PARAM, and FUN/OPR/STS with the settings.  Either
  side may be between any two accesses when the other makes one.
- Override blocks, `v545_clear_regfile()`, the READ_POWER_SUPPLY macro, `v545_load_flash()` and
  `v545_verify_flash()` share one register file, and nothing but its contents says who uses it.
- The filter codes of all V450 channels travel in registers that the self test and other macros
  use for their results.
- All function blocks share the DDS channels and the coils.  All V375 channels share RESETS.
- Waves of one file and of successive calls share the static options of
  `v375_load_wavetable()`.
- `v120_config` writes the file that `get_vaddr_for_device()` reads.
- A killed program loses its variables (the V210 mask, the static options), the board nothing.

Threads occur in one place, the progress thread of `v545_reflash.c`.  The hazards are listed in
`PROJECT.json` at the lines where they bite.

## 2. Modules

| Module | Models | Extends |
|---|---|---|
| `MacroService` | what `ht_write_macro()` promises, in one step per execution | - |
| `MacroMailbox` | the registers, the host and the firmware; instantiates `MacroService` | - |
| `MacroMailboxProofs` | proofs, the refinement included | `MacroMailbox` |
| `V545FunctionBlock` | one function block, host and firmware | - |
| `V545Override`, `V545OverrideProofs` | override blocks with every user of the register file | - |
| `V545Excitation` | DDS channels and coils | - |
| `V545BlockProofs` | proofs about both | `V545FunctionBlock`, `V545Excitation` |
| `V545Flash`, `V545FlashProofs` | the flash update, `v545_reflash` with its thread, the board's flash memory | - |
| `V210Relay` | mask, registers, contacts, connectors | - |
| `V375Waveform`, `V375WaveformProofs` | wave files, channels, memory, block jumps | - |
| `V450Filters` | filters and loop resistance of a V450, host and firmware | - |
| `V210V450Proofs` | proofs about `V210Relay` and `V450Filters` | both |
| `AnalogChannels`, `AnalogChannelsProofs` | ranges, readings and writings of V450 and V470 channels, conversions | - |
| `V120Scan` | crates, scan, listing | - |
| `V120Options` | `parse_options()` as operators on tokens | - |
| `V120Config` | `v120_config` without `-scan`: command line, input file, output file | `V120Options` |
| `V120Directory` | what programs take `get_vaddr_for_device()` for | - |
| `V120Lookup` | `get_vaddr_for_device()` on the output file; instantiates `V120Directory` | `V120Config` |
| `V120Proofs` | proofs about scan, configuration and lookups, the refinement included | `V120Scan`, `V120Lookup` |
| `MC*` | the instances TLC checks | the module named |

The `map` of `PROJECT.json` names the source lines of every definition that stands for code.
Operators with the comment "Mutant:" are faulty variants of the definition that follows them; no
specification uses them.  They are there to show that the properties notice the fault.

### MacroMailbox

Lines 80-119 of `ht_utils.c`.  `WriteMacro` is the entry with both early returns, `LoadParam` the
copy of one parameter, `WriteCommand` the write of MACRO (and the early return of a reset),
`PollReady` the end of the loop and `ReturnResult` the second read of MACRO 50 ms later.  `Kill`
may come between any two.  The firmware is external: it starts a command it finds in MACRO with the
parameters it finds, and completes it with 0 or an error code without bit 15.  There is one caller
at a time, as in every program of the repository; two programs writing to one board at once are
not modelled, and the library does nothing to make that work.

`ResultIsOwn` relates a returned result to what the board executed; `BoardUndisturbed` says that no
host step, of a restarted program either, touches the registers of a command in MACRO;
`ImplementsService` is the refinement.  The histories `executed` and `returned` are variables of the
abstract specification, and nothing in the model tests them.

### V545FunctionBlock

`v545_write_function_code()` (`v545_utils.c` from 1657) and the register accesses around its calls.
The host stops the block (FUN, OPR), pauses if the function is one that pauses, writes the settings,
then FUN = 0, OPR = 0, FUN = code, OPR = INIT, polls, reads STS and, for an output, writes MOVE.
The firmware (external) takes settings when FUN holds a code and OPR holds INIT, answers in STS and
OPR, and drops a block whose FUN it finds at 0.  The pause is modelled by what the comment at line
707 gives as its purpose: after it, the firmware has seen FUN at 0.  Nothing else is assumed about
timing; the time-out is a bound on the number of polls.  With open wiring the LVDT calls do not write
coil B (`Left`), and the register keeps what an earlier request put there.  `ClearFunctionBlock` and
`ClearRest` are the writes of a clear, FUN first, which may be cut short like any other call.

`BoardTakesWhole` and `SuccessIsOwn` say that the board `Holds` what a request writes, which leaves coil
B open where the request does.

`SuccessIsOwn` is stated for the functions that pause.  Of every output it would not hold, see
section 5.

### V545Override

All that writes FUN and OVR of the override blocks and the register file.  The library recognises a
free pair by its zeros.  `ConfigOverride` searches; `StorePosition`, `StoreVelocity` and
`LinkOverride` are the three writes in order; `StartClear`, `FindLink`, `ZeroVelocity`,
`ZeroPosition`, `Unlink` and `EndClear` are the writes of a clear.  Calls that the board cannot
observe in the middle of are one action.  When no pair is free the code uses an uninitialized
index: a free choice of a number in the file or outside of it (`Wild`).  `Reset` is the power-up
state; `KillAndRestart` is a program that is killed in a call and started again, which begins by
clearing all blocks, as the programs of `user/v545` do.

What the code guarantees holds over stretches: `spoiled` becomes true when a request finds no pair,
when a target converts to (0, 0), or when another user writes the file while outputs are linked,
and false again with a reset or a completed clear of all blocks.  The history variable `target` is
what each link was configured with.  `ClearLeavesNothing` holds whether spoiled or not.

### V545Excitation

The two calls an output configuration makes, each with its own range check, over DDS channels and
coils.  Only the register accesses of the excitation are in it.  Frequencies are in Hz; the factor
of two in the register is left out.

### V545Flash

`v545_load_flash()`, `v545_verify_flash()` and the macros they call, one register access at a time,
inside `main()` of `v545_reflash.c`, or called alone by another program (`CallLoad`, `CallVerify`).
`host.pc` is the place in the program, `host.page` and `host.word` the position in the file.  The
progress thread is `thread`, the flag it tests `active`: `CreateThread` and `Activate` are two steps,
between which `Update` may find the flag clear and leave.  The firmware (external) takes a page word
by word, writes it as a whole if the memory is unlocked, and may fail any command but a reset.
`fread()` returns 0 at the end of the file and when it cannot be read further, and the code does not
ask which: `LoadPage` and `VerifyPage` may end the file before any page.  (stdio reads blocks of many
pages, so that an error shows between two pages rather than in one.)
`UseOverride` is a program with override blocks, which stores targets in the same register file at
any time it may run; an armed block makes the library refuse the page macros.  `Kill` ends the
program and its thread anywhere, while the board goes on.

The histories in `job` are the image of the last load, the memory before it, the pages known to be
written, whether somebody wrote the register file while the board was taking a page (`torn`), and
whether a read error ended the load (`cut`); `PagesInOrder` and `LoadIsTrue` are stated with them.  A
load that was cut returns success after a reset, and the program prints 100 percent (section 5): what
`LoadIsTrue` says of it is that the pages that were read are in the memory and that it is locked.  The
percentage is an integer division as in the code; bytes
matter to it and to the number of pages only.

### V210Relay

The mask, the word-by-word write and read, contacts that follow their control bits in any order
(`Settle`), the 10 ms pause, CSR, and a process that is killed and restarted with an empty mask.  The
application is assumed to follow the man page (`man3/v210_utils.3`, 103 and 153-156) about `waitflag`,
not to read between an edit and its write, and to begin by clearing the relays.

### V375Waveform

`v375_config_chnl_wavefile()` as it goes: RESETS, the file line by line, then the registers in the
order of `Steps`, each of which may be refused.  A line is a record of what the code tells apart: a
wavespec with its options, a data line, a blank line, one that begins with a digit and does not parse,
and any other.  The option table of `v375_load_wavetable()` stores into nine static variables (`opt`), and
data lines are read into two of them, those of `-amp` and `-pha`, which a later wavespec that leaves these
out then inherits (`Scanned`); a Fourier series and a pulse train leave a computed amplitude.

A point of a raw wave is the value its data lines store there, and where none does, what the buffer on
the stack held.  Any other point is what its wave was built from: the type, the options that matter for
it (`Uses`) and the data lines in order, and its place in the wave.  Arithmetic on samples is so left
out, while every question of which wave is where, built from which lines and options, stays.

`WellFormed`, `WaveAt` and `IsPoint` say what a file means without reading it in order;
`PlaysRequested` compares the memory that plays with that.  A file is well-formed when each wavespec
gives the options that matter for its type, as the man page's examples do, its data lines are complete and
end at a blank line or with the file, and a raw wave lists all of its points.  Of a file that
leaves an option out the code makes whatever an earlier line, call or data line left; TLC runs such a
file too (`Careless`), and what comes of it is what well-formed files are to be proof against.  `Jump`
is the board at the end of a block (external).

`FilesAssumption` says what a file is: lines of these kinds, whose options have the types that the
table of `v375_load_wavetable()` gives them.  `NoFile` stands for a channel of which nothing is known, such as
one whose configuration failed; it is no file, and differs from an empty one.

The setters as calls of their own, strobe, master, offset, and multiplier are not modelled.

### V450Filters

`v450_config_tc_chnl()` and the parts of `v450_execute_macro()` that touch what it uses.  The filter
of one channel is set by reading the codes of all with a macro (`GetFilters`, `ReplaceOne`), storing
them one by one (`StoreFilter`, which does not ask whether the board is busy) and setting all
(`SetFilters`).  `SetDirect` is the application that passes an array of its own.  `GetAnalogFilters`
writes PARAM0 before the busy test; SYNC and the tests of single channels pass their channels in PARAM0
as `ht_write_macro()` does, after it.  The firmware (external) may leave results in the shared
registers when a command fails.  A killed program loses its static flag.

`goal` is a history: what the SET_DFILT under way is to set, or `Unknown` when the registers were
written while the board was busy, by a program that followed a killed one.

### AnalogChannels

The channels of both boards, whose libraries are near copies: control registers, the latest
conversion (V450) or the count (V470), the SETALL macros, and calls that read a count and then the
range to scale it with, or a range and then write the count.  Quantities are integers in a unit in
which every count of every range is whole, so that `Ratio`, `Count` and `Reading` are those of the code
without rounding.  Simulated temperatures are in ten-thousandths of a degree.  `deg_conv.c` works in single
precision: what it returns may be away from the exact temperature by what `Rounding` allows, an ulp of
numbers below 8192, and the choice is free.  The product with 16 drops its fraction (`Truncated`), and a
negative
one, of which C says nothing when it becomes an unsigned short, is stored by the build as its low 16
bits.  "calm" in a call's record is the state of the board
when it began: no macro under way, and the latest conversion made in the range configured.
`ht_read_interlocked()` is `ReadHigh` and `ReadLow`, between which the board may convert.

### V120Scan

`v120_setup_memory_regions()` with all its failures, the loops of the scan, `probe_vme_vaddr()`,
`find_vme_addr_space()` and the lines written.  The boards plugged in are a constant set of
possibilities, one of which `Init` chooses.  An unmapped region's base is 0 and the probe of it ends
the model in `null_base`; a write past the table of cards ends it in `overrun`.  Each region of each crate
has an address and a length of its own.

The space in a line is looked up again from the address, in the first crate's regions, each taken to be as
long as A16.  `LinesAreTrue` says what this is worth for any regions: a line is always that of a board
of its crate at its address; its space is the board's if no region of the crate reaches into one of
another space of
the first (`Clear`), taken this way; and of the boards found, those at an address within one of these
have a line in the end.  The others have none (section 5): boards above the A16 length, and those of a
second crate with addresses of its own.  In the examples of the repository, where A24 and A32 are longer than
A16 and lie apart, `Clear` holds.

### V120Options, V120Config, V120Lookup

`V120Options!Parse` is `parse_options()` with its rules of matching and its routines, on lines of
tokens; what `read_line()` and `parse_args()` make of characters is left out.  An option at the end of a
line whose argument is missing takes what the array of pointers has there ("past"): nothing on a command
line, and in a file what an earlier, longer line left, which points into the characters of this line or of
that one.  `Completed` lets it be any of the tokens in `Leftover`, or a fault.  `V120Config` reads
the command line with it, then the input file: `ConfigRepeaterLine` sets up a crate's regions and
takes pages, and may fail at each of the driver's calls (external), keeping what was done; `ConfigVmedevice`
finds the space of an address, probes it and writes a line.  Uninitialized values (the address space
of an address in no region, the result for an unknown board) are free choices or a fault.  A vmedevice
line with a negative crate number passes the test for large ones and indexes before `v120_dev` (`overrun`).
"speed" stands for SLOW, MED, FAST and MAX.
`SpellingAssumption` says that the words the program writes are words, `InputAssumption` that the
numbers of an input file are not negative.  `ProperInput` tells the files that mean what they say: a
crate has one repeater line, no argument is missing, and the words `repeater` and `vmedevice` only begin
lines.  A second line
for a crate sets it up anew while lines already written speak of the old regions, and those words
further on in a line make `parse_options()` replace the crate number; what comes of such files
is in the model, and with a second line for a crate TLC finds `ListingIsTrue` violated.

`V120Lookup` adds the calls of `get_vaddr_for_device()` on the file that was written, one process
after another: two loops with the same file pointer, options stored in static variables, an
unchecked `v120_open()`.  `ImplementsDirectory` maps this to `V120Directory`, in which asking and
answering are one step each and nothing is remembered from one question to the next.  The directory
answers anything for a board of a crate whose set-up failed, because the code does.  A board listed with
`-a 0`, as `v120_config` writes for a crate that is absent, takes the default branch of the switch
(`get_vaddr_for_device.c:184`), the loop goes on, and the answer is the null pointer.

## 3. Runs

Sizes are distinct states.  All runs end within three minutes with two workers.

| Run | Instance | Shows |
|---|---|---|
| `mailbox` (31 204) | 2 calls, 2 registers, a command and a reset, 2 parameter values, 1 error code | all properties of `MacroMailbox`, liveness and the refinement |
| `function_block` (560 983) | an output function that pauses and one that does not and may leave coil B, 2 settings of 2 values, 3 words of STS, 2 polls | all properties of `V545FunctionBlock` |
| `override` (3 527 540) | 2 blocks, 2 outputs, 2 pairs, 2 positions, every user of the file | `ArmedTargetsUntilSpoiled`, `ExclusivePairs`, `ClearLeavesNothing` |
| `excitation` (37 265) | 3 DDS channels, 3 coils, frequencies from 0 to one too high | `ExcitedCoilsRun`, `RefusalHarmless` |
| `flash` (902 107) | pages of 2 words, 2 pages, images of 2 pages and of 1, read errors before any page, overrides at both words | `PagesInOrder`, `LoadIsTrue`, `VerifyIsTrue`, `ProgramEnds` |
| `waveform` (399 284) | 2 channels, memory of 2 points, blocks of 1 or 2, four files with every kind of wave and of line | `PlaysRequested`, `CountsFit`, `OthersPlayOn`, `ConfigReturns` |
| `relay` (86 208) | 2 registers of 2 relays, channel numbers -1 to 3 | `RelaysAsAsked` |
| `filters` (1 625 728) | 2 channels, 1 filter besides none, boards with and without filters | `FiltersAsAsked`, `SuccessIsTrue`, `MeasuredIsReadable` |
| `analog` (919 460) | 2 channels, 2 ranges of volts, off, a thermocouple; values in, at the ends of and out of the ranges; temperatures below, near and above 0 | `ReadingTrue`, `OutputTrue`, `FakeReadsBack` |
| `scan` (408 661) | 2 crates with regions of 2 and 3 addresses, at different places, up to 2 and 1 boards of 3 types | `FindsEveryBoard`, `NamesAreUnique`, `LinesAreTrue`, `OverrunNeedsBoards`, `ScanEnds` |
| `lookup` (31 176) | 5 proper input files and one with arguments missing, 7 command lines, 3 sets of crates and boards, 4 names | `LookTypeOK`, `ListingIsTrue`, `ImplementsDirectory` |
| `override_full` | the instance of `override`, without the condition | a disagreement, section 5 |

Why the bounds are enough:

- `mailbox`: what can go wrong is between two calls, a killed one and its successor.  Two parameters
  let a mixture be told from a whole.  `MaxCalls` is the only bound of the behaviour; all of the
  safety properties are proved without it.
- `function_block`: one stale request and one new one, of two functions, differing in either of two
  settings, the second of which is coil B.  Calls are unbounded.  Two polls let an answer come before,
  during and after the last one.
- `override`: with two pairs and four possible links the file runs full, pairs are reused, and links
  of one block and of two meet.  Calls are unbounded.
- `excitation`: the fixed DDS channel, another one, and one in between; both kinds of refusal.
- `flash`: two words, so that a page is seen half stored and half taken; a full image after a short
  one and the reverse, so that pages of both are mixed; the second image's last page is filled up.
  A read error may come before the first page and between two.
- `waveform`: two points hold two blocks of one or one block of two, so that offsets, cuts and
  changes of size occur.  Block numbers 0 and 1 with a size of 2 include one past the memory.  Of the
  four files, three are well-formed: a
  file each with ranges and with single points, data that ends at a blank line and with the file, and
  two waves for one
  block, of which the later plays (a gear, after a pulse train).  The fourth leaves options out, which
  the others or
  data lines have set.  Channel 1 has one
  file only because the divisor's check always refuses it (section 5); it is configured, refused and
  killed in between the calls of channel 0.
- `relay`: two words, so that a write and a read are seen half done.
- `filters`: two channels, one that is configured and one that must stay as it is; one filter and
  none, and a word that is neither, tell them apart.  The proofs are for any number.
- `analog`: one range has one unit to a count and another two, so that a count scaled with the wrong
  range shows; the thermocouple's range is not symmetric.  One temperature is below zero, one is cut to
  zero, and one is cut or not as the rounding falls.
- `scan`: a board of two addresses and boards of one, adjacent, apart, at the ends of regions, equal
  types in one and in two crates; a table of two entries runs over.  The A24 region is longer than A16, so that
  boards are found and not listed, and the second crate's regions lie across those of the first.
- `lookup`: the files have crates in either order of their lines, a blank first line, an option in
  error, a board that is listed and absent, one of an unknown type, one out of the A16 length, and more
  boards than the table holds; a crate may be absent, so that its boards are listed with `-a 0`; a line gives a
  negative crate number, and lines end where an argument should be; a lookup follows another of the same
  and of the
  other crate.

`CHECK_DEADLOCK FALSE` is set for `mailbox`, whose calls are bounded, for the scan, which ends, and
for `lookup`, where a configuration that faults leaves nothing to look up.

`override`, `waveform`, `analog` and `lookup` check a type invariant too, which relates more than types:
the index of a pair found by arithmetic, the place of a block in memory, counts within their range, and pages of
a crate that are one region's each.  The other type invariants are proved.

Mutants: each property of a passing run has a fault, such as a dropped test, an off-by-one or a
swapped order, that makes TLC report it.

### Fairness

- `mailbox`: weak fairness of the host, since a program that is not killed goes on through its
  polling loop, and of the firmware, since the code has no time-out and relies on every command being
  completed.  `CallReturns` and `ResetHappens` need both.
- `function_block`: weak fairness of the host, and of `Drop`: the board looks at FUN every
  millisecond.  Not of the rest of the firmware, so that `ConfigReturns` shows that the time-out works.
- `waveform`: weak fairness of the steps of a call: straight-line code and loops over a finite file.
- `flash`: weak fairness of the program and of the firmware, as for `mailbox`: no macro has a
  time-out.  Not of the progress thread: `ProgramEnds` holds although it may never run, because
  `pthread_cancel()` ends it in a call that is a cancellation point.
- `scan`: weak fairness of the program.

None of them stops `Kill` from ending a call at any point.

## 4. Proofs

Each proof is for every value of the constants under the named assumptions of its module
(`MailboxAssumption`, `FunctionBlockAssumption`, `ExcitationAssumption`, `OverrideAssumption`,
`FlashAssumption`, `RelayAssumption`, `FilterAssumption`, `WaveformAssumption`, `FilesAssumption`,
`ChannelAssumption`, `CelsiusAssumption`, `ScanAssumption`, `ConfigAssumption`,
`SpellingAssumption`, `InputAssumption`, `LookupAssumption`), which TLC also evaluates.  TLC
finds the inductive invariants of `AnalogChannelsProofs`, `V375WaveformProofs` and, for configuration
and lookups, `V120Proofs` true on the instances of section 3, too.

**MacroMailboxProofs**: `TypeCorrect`, `OwnResult`, `Undisturbed`, `Refinement`.  The invariant says
what each phase of a call knows.  While it loads (`Loading`), MACRO is not busy, the firmware is
idle, and its identity has not been written.  While the firmware executes (`Executing`), MACRO and
PARAM still hold what it took.  While the call waits (`Awaiting`), either its command is in MACRO or
an execution with the outcome in MACRO is on record.  `Identities` keeps calls apart, and `Results`
keeps what was returned true.  None of these holds alone: a killed call leaves a command in MACRO,
and only the test of bit 15 keeps its completion from being taken for that of the next.  The
refinement maps `FirmwareFinish` to `Execute`, the steps that return to `Answer`, and every other
step to a stutter.

**V545BlockProofs**, function blocks: `TypeCorrect`, `OwnSuccess`, `TakesWhole`, `QuietOnError`.
`Submission` tells what the registers hold at each step of a call: in particular, whenever FUN holds
a code and OPR asks for an initialisation, code and settings are those of one request.  `Verdict`
says that OPR returns to idle only with an answer, and `Ownership` that for a call that paused the
answer is to its own request, because the pause leaves no initialisation running.

**V545OverrideProofs**: `TypeCorrect`, `ArmedTargetsHold`, `PairsExclusive`, `ClearsAll`.  The
invariant is `Emptied /\ (spoiled \/ Consistent)`.  `Consistent` has four parts: no two links share
a pair; a link's pair holds the target and is not zero, unless the link is being taken apart or its
block is about to be cleared by a restarted program; a pair being filled is not linked; a block being
cleared is disarmed.
That a pair in use is never zero is what makes the search for a free one correct, hence the
condition on targets that convert to (0, 0).  `Emptied` says what a clear of all blocks has behind
it, and needs nothing of the register file, so `ClearsAll` holds after any damage.

**V210V450Proofs**, relays: `RelayTyped`, and `EveryRelayAsAsked` under the assumption that channel number 64 is
never passed: the range check lets it through (section 5).

**V120Proofs**, scan: `TypeCorrect`, `NamesUnique`, `EveryBoardFound`, `TrueLines`,
`OverrunByBoards`.  For the names: every card's number is below the count of its type, so a new
card's is new; a line is made from one card, and its space is fixed by the address.  For the lines: the
cards of the crates passed have theirs (`TrueLines`), with no assumption on where the regions are.  For
the boards (`FInv`): behind the position of the scan
every board of the walked spaces has its card, every card has its board, and while the scan is past
the start of a region the step it takes cannot jump over one, because boards do not overlap and each
begins on a multiple of its own step.  `OverrunByBoards` counts: the cards listed so far are not more
than the boards behind the position of the scan, since each belongs to one of them and a board that
was passed is not met again.  It is for a finite set of boards.

**V545BlockProofs**, excitation: `ExcitationTyped`, `RefusalsHarmless`, and `CoilsRun` under the assumption that
the numbers of DDS channels are numbers of coils too.  `RequestProgress` says what each call has written at
each of its steps, and that what the second call could refuse the first has refused; `Connected` is
the property with the exception of the coil that is being connected.

**V210V450Proofs**, filters: `TypeCorrect`, `EveryFilterAsAsked`, `TrueSuccess`, `Readable`.  The
invariant `Phases`
has one part per phase of a call: while it stores, the codes stored so far are those of its
array (`Storing`), and the array is the filters in effect with one replaced, as long as nobody
disturbed the board (`Replacing`); while it waits, the registers or what the firmware took of them
are the goal (`Setting`), and after a success the filters are (`SetDone`); while it measures, the
mask is its channel (`Measuring`).  `clean` and `goal` say when the registers were the call's own.

**V545FlashProofs**: `TypeCorrect`, `OrderKept`, `TrueLoad`, `TrueVerify`.  `Position` keeps the page
number in the file; with it `PercentBelow` shows that a percentage computed in a load is below 100,
which needs the number of pages to be that of the bytes rounded up.  `Owned` says whose command is in
MACRO in each phase: without it a killed program's FLASH_WRITE could finish under the next one.
`Stored`, `Writing` and `Written` follow a page from the file through the register file and the
firmware to the memory, `Compared` the way back, and `Loaded` says that no write or unlock can be
in MACRO once a load has ended, and which pages the memory then holds: all of them unless a read error
cut it short.  Each property is a conjunct of the invariant or follows from one.

**V375WaveformProofs**: `TypeCorrect`, `FittingCounts`, `OthersUndisturbed`, `PlaysAsRequested`.  The
first three need little: that a call under way has its own channel in reset (`CallOK`), that a
playing channel was asked for a block of a file of its own and that only such a channel jumps
(`AskedOK`), and which counts the steps passed so far have set (`CountsOK`).  `PlaysAsRequested` says
that reading
a file line by line, with options that stay from line to line and from call to call and a buffer that
stays too, amounts to what `WellFormed` files mean.  The lemmas first say where the blocks of one size
lie (`Apart`: not on each other, `SpecPlace`: in the memory), what loading one wave does to
a memory that holds the waves before it (`InMemNext`), and where the data of a line ends
(`DataEndIs`).  The invariant `WaveInv` has three parts: `ReadOK` says what the options, the buffer and
the memory
hold at each line of the file (between waves, within the data of one, after the last line); `SetOK`, that
SIZ and BAS, once written, are what the request needs; `PlayOK`, that a channel out of reset plays what
was asked for, or will when it jumps at the end of a block.  Nothing is assumed of what a previous call left
in the static options, nor of what data lines put there: a well-formed file overwrites what it uses (`Uses`).

**AnalogChannelsProofs**: `TypeCorrect`, `TrueReadings`, `TrueOutputs`, `FakesReadBack`.  `Began` says
what a call that began calmly still knows at each step: no macro has come and the range has not
changed, and both halves of an interlocked read are of one conversion, made in this range.  The rest
is arithmetic: `Count` rounds by at most one step of a range and clamps at both ends, so that the
count fits the register; a temperature is off by the sixteenth that is cut and by the roundings of single
precision after the conversion to each unit and back, and a negative one by 65536 sixteenths, or 4096 degrees.
`ChannelAssumption` says that the unit of the model is fine enough for each count to be whole,
which is the choice of the unit and no condition on the board; `CelsiusAssumption` that a simulated
temperature is at absolute zero or above, fits the register, and is a multiple of five ten-thousandths of a
degree, so that it is whole in Fahrenheit too.  What a conversion rounds is `Rounding`, whatever the
temperature.

**V120Proofs**, configuration and lookups: `LookTyped`, `ListingTrue`, `DirectoryImplemented`, for any
number of crates, boards, spellings and lines.  The last two are for a file that is a `ProperInput`; TLC
evaluates that on the files of `lookup`.

- `parse_options()` is a recursive function, and the induction theorems of the library cannot be used.
  Instead, the function is shown to be a run of the loop (`RunExists`, `ParseRun`) and what holds of all
  turns is found by looking for the least turn of which it would not (`LeastOf`, `NatSets`): sets of numbers
  take the place of predicates.  `ParseKeeps` says that what every option keeps the parse keeps,
  `ParseEnds` that a line made of options the table knows is parsed to its end.
- `LookTyped`: pages are counted by cardinalities.  `Ranks` and `PagesDiffer` say that the regions of one
  call of `v120_setup_memory_regions()` get different pages, which `ConfigTypeOK` needs: a page of
  a crate is that of one region, also when a crate is set up twice or a call failed.
- `ListingTrue`: the invariant `OutInv` says what each line of the output file was written from: a repeater
  line tells how its crate is set up now (`RepeaterOut`), a vmedevice line what was found when its
  crate was online (`DeviceOut`), and a crate that is online, or has a line, was set up by a line already read
  (`Seen`).  One line per crate then means that neither changes any more.
- `DirectoryImplemented`: `PagesParsed` says that parsing a repeater line stores the address and page
  of each region, whatever the variables held (`LinePairs`: the line is made of options and their
  arguments), `VmeParsed` that parsing a vmedevice line stores base and space.  `DirInv` says what the
  loops have
  passed over and that the variables hold what the board's line says; `GivenStep`, that in the
  one repeater line of its crate a board whose pages are given is found where its line says.
  `EndOfInput` maps to
  `Publish`, `Restart` to `Forget`, the steps that return to `Answer`, all others but `Ask` to a stutter.

Only model-checked: the liveness properties, since fairness is out of the reach of TLAPS:
`CallReturns`, `ResetHappens`, `ConfigReturns` (of both modules), `ScanEnds`, `ProgramEnds`.

## 5. Where code and documentation disagree

Shown by a run:

- `override_full`: configuring an output again takes a new pair and never frees the old one.  After
  32 requests the search finds none, leaves its result uninitialized (`v545_utils.c:1898-1915`), and
  the caller returns success with some index.

Seen while modelling, and either part of the models or outside of them:

- With open wiring the LVDT calls range-check coil B and do not write it, and without they write it unchecked
  (`v545_utils.c:943`, 967, 1085): a wide number is cut to the field, and an old coil B stays in its register.
- `v545_config_lvdt_rvdt_output()` lacks the pause after FUN = 0 (`v545_utils.c:1066`) that the other
  output configurations have (707, 850): it may take the answer to a killed call's request for its
  own.
- `v375_set_chnl_divisor()` compares a masked bit with 1 (`v375_utils.c:562`) and refuses all channels
  but 0, although the man page says 0-3 (`man3/v375_utils.3:495`): `v375_config_chnl_wavefile()` fails
  for channels 1 to 3.  A check of four clock sources in 530-549 can never pass.
- The macros of the V375 are issued with codes that lack bit 15, and their outcome is ignored
  (`v375_utils.c:217`).
- A board that answers and is not in the table of known ones holds the scan for ever
  (`v120_config.c:349`).  `ScanEnds` is stated for the others.
- The index into a crate's 20 cards counts the boards of all crates (`v120_config.c:312`).
- `-scan` without an argument, which the help text offers (`v120_config.c:100`), is matched only when
  it is the whole command line; a blank first line of the input file is compared through an
  uninitialized pointer (223).
- An address in no region leaves the address space uninitialized (`v120_config.c:749`), and for an
  unknown board so is the pointer that `load_card_info()` returns.  The name in a vmedevice line is not
  compared with the board that is found.
- `get_vaddr_for_device()`: its table of repeater options has no last entry, "-o false" gives 1, both
  online flags are ignored, and a missing file gives -1 where the callers test for 0.  No caller looks
  at the result of `parse_options()`.
- `parse_options()` reads past the tokens of a line whose last option lacks its argument
  (`parse_options.c:83`).  A
  vmedevice line with a negative crate number indexes before `v120_dev` (`v120_config.c:694`).
- `V450_DF_NONE` is not passed on, so that a filter once set cannot be switched off by the call
  (`v450_utils.c:326`, `man3/v450_utils.3:750`).  The flag of the loop resistance is set before the macro
  succeeds, for all channels and boards (526).  The filter registers and, for GET_AFILT, PARAM0 are
  written before the busy test (491, 515).
- RTD type 0 is compared with the character '0' and refused (`v450_utils.c:47`, and in
  `v470_utils.c`).  Negative simulated temperatures are read back as large ones (179), and what a negative
  product becomes in an unsigned register is left open by C (274).  The count of an
  open thermocouple, 0x8000, is never recognised because it is compared as a signed word (399).
- A reading after a change of range uses the old conversion with the new range.  Writing volts to a
  thermocouple channel is not refused.
- A read error ends a load like the end of the file does: the board is reset, `v545_load_flash()` returns 0 and
  the program prints 100 percent, with part of the image in the memory (`v545_utils.c:283`), although the man
  page promises -1 on failure (`man3/v545_utils.3:1030`).  The model lets the error come between two pages,
  as stdio reads blocks of many pages; inside one, its rest would be written as zeros.
  `v545_verify_flash()` (351) accepts such a memory, if its own reading ends at the same place.
- A load that fails leaves the flash memory unlocked, with part of the image.  `v545_reflash` compares
  the address with 0 only, and prints the address -1 when the checksum macro fails.
- A target that converts to (0, 0) leaves its pair looking free (`v545_utils.c:1909`).
- `v545_clear_function_blocks()` stops at the first block that is not configured (1335).
- External excitation (dds_freq = 0) is always refused by `v545_config_ccb()`, and so is DDS
  channel 7 by `v545_config_dds()`, although the man page offers both (`man3/v545_utils.3:663`, 665).
- A configuration whose initialisation completes in the last pause is reported as timed out (1735).
- `V210_CSR_ENABLE_RELAYS` has no parentheses, so disconnecting clears one connector of two
  (`v210_regs_sdef.h:30`, `v210_utils.c:132`).
- Channel 64 of a V210 passes the range check (`v210_utils.c:141`).
- The A24 and A32 regions are searched with the length of the A16 region (`v120_config.c:749`), and
  with the first crate's addresses for all crates (381): boards that fit neither are found but not listed.
- Gears and pulse trains are built at the start of a buffer and copied from their block's place in
  it: for any block but 0, uninitialized data is loaded (`v375_utils.c:1242`).  `WellFormed` leaves
  such files out.
- Data lines are read into the static variables of `-amp` and `-pha` (`v375_utils.c:1130`, 1167, 1254),
  and a Fourier
  series and a pulse train leave their last point in the former (1176, 1265): a later sine that leaves
  these options out
  plays with what it finds there.  The points of a raw wave that its data lines do not list are uninitialized.
  Single points are counted from the start of the buffer, ranges from that of the block (1132, 1136).
- The man page speaks of up to 50 harmonics for wave files (`man3/v375_utils.3:864`); the array holds
  20 (`v375_regs_sdef.h:76`).  A file without a block size leaves the caller's size uninitialized
  (`v375_utils.c:1115`).  The file is never closed.

## 6. Not modelled

- The accessors of the V545 and of the other boards: single reads and writes with a conversion.
- The macros of the V375 (built-in waveforms, tests, sweeps): they load parameters and issue codes
  without the bit that marks a command; what a board makes of those is not in the repository.  The
  setters of `v375_utils.c` called on their own (strobe, master, offset, multiplier) are single writes.
- `read_line()` and `parse_args()`, string helpers, and the routines of `parse_options.c` that no
  table refers to: functions of characters.
- RTD types and resistances, the tables of the self test's results, and `V545_MACRO_FLASH_ERASE`,
  which no program issues.
- Printing and menus of the demonstration programs, build files.
- Two programs on one board at once: nothing in the library serialises them, and none of its
  properties would hold.

Worth doing next: the built-in waveforms over `MacroMailbox`, once the V375's manual says how it
takes its commands.
