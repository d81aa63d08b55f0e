------------------------------- MODULE V120Config -------------------------------
(***************************************************************************)
(* v120_config (v120_config/v120_config.c) without its scan, which         *)
(* V120Scan models: the command line, the crates ("repeater") and boards   *)
(* ("vmedevice") of the input file, and the output file, which programs    *)
(* then look boards up in (V120Lookup).                                    *)
(*                                                                         *)
(* One action is the command line, or one line of the input file with      *)
(* every call it causes.  read_line() and parse_args() are left out: a     *)
(* line is the sequence of its tokens.  The V120 driver library is not     *)
(* part of the repository: any of its calls may fail, and pages are handed *)
(* out as the repository's output.conf shows, newest region first.         *)
(***************************************************************************)
EXTENDS V120Options, SequencesExt

CONSTANTS
  MaxDev,            \* MAX_DEV (4)
  MaxCardsInChassis, \* MAX_CARDS_IN_CHASSIS (20)
  DevName,           \* the devname of each entry of vme_search_specs
  Command,           \* command lines
  Input,             \* input files
  Leftover,          \* what the array may hold past the tokens of a line
  World              \* crates that are there and boards in them: [crates, boards]

CrateNum == 0..(MaxDev - 1)
Width  == {16, 24, 32}    \* the address spaces
Widths == <<16, 24, 32>>  \* in the order they are set up in
Off   == 0      \* OFFLINE_SPACE
Bad   == -1     \* no address space
NoPage == -1

ASSUME ConfigAssumption ==
  /\ MaxDev \in Nat \ {0}
  /\ MaxCardsInChassis \in Nat \ {0}
  /\ IsFiniteSet(DevName) /\ "" \notin DevName
  /\ \A w \in World : /\ w.crates \subseteq CrateNum
                      /\ \A b \in w.boards : b.crate \in CrateNum /\ b.space \in Width

\* The options of each space.
Opt(letter, s) ==
  LET of(s16, s24, s32) == CASE s = 16 -> s16 [] s = 24 -> s24 [] s = 32 -> s32
  IN  CASE letter = "-a"  -> of("-a16", "-a24", "-a32")
        [] letter = "-s"  -> of("-s16", "-s24", "-s32")
        [] letter = "-S"  -> of("-S16", "-S24", "-S32")
        [] letter = "-sp" -> of("-sp16", "-sp24", "-sp32")
        [] letter = "-ep" -> of("-ep16", "-ep24", "-ep32")

\* The words of the output file; "number" stands for any, and "speed" for SLOW,
\* MED, FAST and MAX: how fast a region is makes no difference here.
Written ==
  {"repeater", "v120", "speed", "-base", "-a", "-o", "true", "false", "number"}
  \cup {Opt(l, s) : l \in {"-a", "-s", "-S", "-sp", "-ep"}, s \in Width}

ASSUME SpellingAssumption == Written \subseteq Spelling

\* Bases and sizes are not negative.
ASSUME InputAssumption ==
  /\ \A file \in Input :
       /\ file \in Seq(Seq(Token))
       /\ \A k \in DOMAIN file : \A i \in DOMAIN file[k] :
            file[k][i].word = "number" => file[k][i].num \in Nat
  /\ Leftover \subseteq Token
  /\ \A t \in Leftover : t.word = "number" => t.num \in Nat

VARIABLES
  world,     \* what is plugged in
  input,     \* the lines of the input file
  stage,     \* where main() is
  pos,       \* the next line
  dev,       \* v120_dev[]
  page,      \* static next_vme_page
  pages,     \* page descriptors of the V120s: <<crate, page, space>>
  out        \* the lines of the output file

configVars == <<world, input, stage, pos, dev, page, pages, out>>

NoRegion == [addr |-> 0, len |-> 0]
NoDev == [online |-> FALSE, regs |-> FALSE, region |-> [s \in Width |-> NoRegion],
          start |-> [s \in Width |-> NoPage], cards |-> 0]

Device == [online: BOOLEAN, regs: BOOLEAN, region: [Width -> [addr: Nat, len: Nat]],
           start: [Width -> Nat \cup {NoPage}], cards: 0..MaxCardsInChassis]

ConfigTypeOK ==
  /\ world \in World /\ input \in Input
  /\ stage \in {"command", "lines", "done", "exit", "fault", "overrun"}
  /\ pos \in 1..(Len(input) + 1)
  /\ page \in Nat \cup {NoPage}
  /\ dev \in [CrateNum -> Device]
  /\ pages \subseteq CrateNum \X Nat \X Width
  /\ \A p, q \in pages : p[1] = q[1] /\ p[2] = q[2] => p = q
  /\ \A c \in CrateNum, s \in Width :
       dev[c].start[s] # NoPage => <<c, dev[c].start[s], s>> \in pages
  /\ out \in Seq(Seq(Token))

ConfigInit ==
  /\ world \in World
  /\ input \in Input
  /\ stage = "command"
  /\ pos = 1
  /\ dev = [c \in CrateNum |-> NoDev]
  /\ page = 0
  /\ pages = {}
  /\ out = << >>

-----------------------------------------------------------------------------
(* The command line.                                                         *)

CommandTable == <<
  Entry("-help",  "repeater",  "print_help_text", "help", 0),
  Entry("-help",  "vmedevice", "print_help_text", "help", 0),
  Entry("-help",  "",          "print_help_text", "help", 0),
  Entry("-i",     "*",         "load_string",     "i",    0),
  Entry("-o",     "*",         "load_string",     "o",    0),
  Entry("-q",     "",          "set_chgflg",      "q",    0),
  Entry("-debug", "",          "set_chgflg",      "debug", 0),
  Entry("-scan",  "all",       "load_enum",       "scan", 7),
  Entry("-scan",  "a16",       "load_enum",       "scan", 1),
  Entry("-scan",  "a24",       "load_enum",       "scan", 2),
  Entry("-scan",  "a32",       "load_enum",       "scan", 4),
  Entry("-scan",  "a16a24",    "load_enum",       "scan", 3),
  Entry("-scan",  "",          "load_enum",       "scan", 7) >>

FirstWord(line) == IF line = << >> THEN "" ELSE line[1].word

\* check_for_vmedevice_in_config()
ListsBoards == \E k \in DOMAIN input : FirstWord(input[k]) = "vmedevice"

\* The outcome of parse_options() is not looked at, except through chgflg.
\* -help ends the program, as do a missing option, a file that cannot be
\* opened, and -scan with boards in the input file; so does the null pointer
\* that is found where the last argument is missing.
ReadCommand(args) ==
  /\ stage = "command"
  /\ LET p == Parse(CommandTable, args, [v \in {"scan"} |-> 0])
         valid == /\ p.result # "past"
                  /\ "help" \notin p.set
                  /\ ~ ("scan" \in p.set /\ ListsBoards)
                  /\ {"i", "o"} \subseteq p.set
     IN  stage' \in IF valid THEN {"exit", "lines"} ELSE {"exit"}
  /\ UNCHANGED <<world, input, pos, dev, page, pages, out>>

-----------------------------------------------------------------------------
(* The lines.  Where the last option of one lacks its argument, the array    *)
(* has what an earlier line left there: a pointer into the characters of     *)
(* this line or of that one, or into nowhere.                                *)

Completed(line, p) ==
  IF p.result = "past" THEN {Append(line, t) : t \in Leftover} ELSE {line}

-----------------------------------------------------------------------------
(* The repeater lines.                                                       *)

\* A number that is stored under the option's name.
Constant(opt) == Entry(opt, "*", "load_constant", opt, 0)

RepeaterTable == <<
  Entry("repeater", "v120", "load_crate_num", "crate", 0),
  Constant("-a16"), Constant("-s16"), Entry("-S16", "speed", "load_enum", "-S16", 0),
  Constant("-a24"), Constant("-s24"), Entry("-S24", "speed", "load_enum", "-S24", 0),
  Constant("-a32"), Constant("-s32"), Entry("-S32", "speed", "load_enum", "-S32", 0) >>

RepeaterVars == [v \in {"crate"} \cup {Opt(l, s) : l \in {"-a", "-s", "-S"}, s \in Width} |->
                   IF v = "crate" THEN -1 ELSE 0]

\* A region without a base in this line keeps what an earlier line said.
Regions(c, vals) ==
  [s \in Width |-> IF vals[Opt("-a", s)] = 0 THEN dev[c].region[s]
                   ELSE [addr |-> vals[Opt("-a", s)], len |-> vals[Opt("-s", s)]]]

\* The regions in the driver's list when those of the first k spaces have been
\* added.
Added(region, k) == {s \in {Widths[j] : j \in 1..k} : region[s].addr # 0}

\* Mutant: the next free page is not kept.
FreePageKept(region, first, k) == first

\* Pages are handed out after each space, each time for all regions anew.
FreePage(region, first, k) ==
  first + Cardinality({p \in (1..k) \X Width : p[2] \in Added(region, p[1])})

\* The newest region is the first to get its page.
PageOf(region, first, k, s) ==
  IF s \notin Added(region, k) THEN NoPage
  ELSE FreePage(region, first, k - 1) + Cardinality({t \in Added(region, k) : t > s})

RegionWords(c, s, setUp, d) ==
  IF d.region[s].addr = 0 THEN << >>
  ELSE <<Word(Opt("-a", s)), Number(d.region[s].addr), Word(Opt("-s", s)),
         Number(d.region[s].len), Word(Opt("-S", s)), Word("speed")>>
       \o (IF setUp THEN <<Word(Opt("-sp", s)), Number(d.start[s]),
                           Word(Opt("-ep", s)), Number(d.start[s])>> ELSE << >>)

Truth(b) == Word(IF b THEN "true" ELSE "false")

RepeaterLine(c, setUp, d) ==
  <<Word("repeater"), Dev("v120", c, -1)>>
  \o RegionWords(c, 16, setUp, d) \o RegionWords(c, 24, setUp, d) \o RegionWords(c, 32, setUp, d)
  \o <<Word("-o"), Truth(d.online)>>

\* v120_setup_memory_regions() for a crate with these regions, of which k got
\* their pages before a call failed; the page of a call that failed is -1, and
\* stays so for the next crate.  What v120_allocate_vme() makes of -1 is its
\* own affair: it fails, or starts afresh.
SetUp(c, region) ==
  LET first == IF page = NoPage THEN 0 ELSE page
      Reached(k, regs) ==
        [dev[c] EXCEPT !.online = TRUE, !.regs = regs, !.region = region,
                       !.start = [s \in Width |-> PageOf(region, first, k, s)]]
      Descriptors(k) ==
        UNION {{<<c, PageOf(region, first, j, s), s>> : s \in Added(region, j)} : j \in 1..k}
      Outcome(d, k, next, setUp) ==
        /\ dev' = [dev EXCEPT ![c] = d]
        /\ page' = next
        /\ pages' = {p \in pages : \A q \in Descriptors(k) : p[1] # q[1] \/ p[2] # q[2]}
                    \cup Descriptors(k)
        /\ out' = Append(out, RepeaterLine(c, setUp, d))
  IN  \/ Outcome([dev[c] EXCEPT !.online = FALSE, !.region = region], 0, page, FALSE)
      \/ /\ c \in world.crates
         /\ \/ Outcome(Reached(0, FALSE), 0, page, FALSE)
            \/ \E k \in 0..2 : \/ /\ region[Widths[k + 1]].addr # 0
                                  /\ Outcome(Reached(k, TRUE), k,
                                             IF k = 0 THEN page ELSE FreePage(region, first, k), FALSE)
                               \/ Outcome(Reached(k, TRUE), k, NoPage, FALSE)
            \/ Outcome(Reached(3, TRUE), 3, FreePage(region, first, 3), TRUE)

RepeaterOptions(line) == Parse(RepeaterTable, line, RepeaterVars)

\* config_repeater(): errors of parse_options() are not looked at.
ConfigRepeaterLine(line) ==
  \/ /\ RepeaterOptions(line).result = "past"
     /\ stage' = "fault"
     /\ UNCHANGED <<dev, page, pages, out>>
  \/ /\ stage' = stage
     /\ \E l \in Completed(line, RepeaterOptions(line)) :
          LET vals == RepeaterOptions(l).vals
          IN  IF vals["crate"] \in CrateNum THEN SetUp(vals["crate"], Regions(vals["crate"], vals))
              ELSE UNCHANGED <<dev, page, pages, out>>

-----------------------------------------------------------------------------
(* The vmedevice lines.                                                      *)

DeviceTable ==
  [k \in 1..Cardinality(DevName) |->
     Entry("vmedevice", SetToSeq(DevName)[k], "load_crate_board_num", "crate", 0)]
  \o <<Entry("-base", "*", "load_constant", "base", 0)>>

\* find_vme_addr_space(): the length of the A16 region stands for all.
In(d, s, addr) == d.region[s].addr <= addr /\ addr < d.region[s].addr + d.region[16].len

\* An address in none leaves the caller's variable uninitialized.
AddrSpace(d, addr) ==
  LET in == {s \in Width : In(d, s, addr)}
  IN  IF ~ d.online THEN {Off} ELSE IF in # {} THEN {Min(in)} ELSE Width \cup {Off, Bad}

Inside(d, s, addr) == d.region[s].addr <= addr /\ addr < d.region[s].addr + d.region[s].len

At(c, s, addr) == {b \in world.boards : b.crate = c /\ b.space = s /\ b.addr = addr}

\* Mutant: the outcome of the probe is not looked at.
ListAnyway(c, s, addr) == {"board"}

\* probe_vme_addr_in_mapped_range() and load_card_info(): the boards that may
\* be taken to be there, "none", or "fault".  A region that was not set up is
\* probed at address 0, and so is its crate's register block; an address
\* outside of the region leads anywhere.
Probed(c, s, addr) ==
  IF s \notin Width THEN {"none"}
  ELSE IF ~ dev[c].regs \/ dev[c].start[s] = NoPage THEN {"fault"}
  ELSE IF ~ Inside(dev[c], s, addr) THEN {"none", "fault", "board"}
  ELSE IF At(c, s, addr) = {} THEN {"none"}
  ELSE IF \E b \in At(c, s, addr) : b.type \in DevName THEN {"board"}
  ELSE {"fault"}             \* no entry of the table: the pointer returned is uninitialized

DeviceLine(line, base, s, online) ==
  <<line[1], line[2], Word("-base"), Number(base), Word("-a"), Number(s),
    Word("-o"), Truth(online)>>

DeviceOptions(line) ==
  Parse(DeviceTable, line, [v \in {"crate", "board", "base"} |-> 0])

\* A board with a base.  A negative crate number is not noticed: the memory
\* before v120_dev is taken for the crate's record.  The board's name is not
\* compared with what is found.
ConfigBoard(line, c, base) ==
  IF c < 0 THEN stage' = "overrun" /\ UNCHANGED <<dev, out>>
  ELSE \E s \in AddrSpace(dev[c], base) : \E found \in Probed(c, s, base) :
    IF found = "fault" THEN stage' = "fault" /\ UNCHANGED <<dev, out>>
    ELSE IF dev[c].cards = MaxCardsInChassis THEN stage' = "overrun" /\ UNCHANGED <<dev, out>>
    ELSE /\ dev' = [dev EXCEPT ![c].cards = @ + 1]
         /\ out' = Append(out, DeviceLine(line, base, s, found = "board"))
         /\ UNCHANGED stage

\* config_vmedevice(): a board that is not known, or without a base, is passed
\* over.
ConfigVmedevice(line) ==
  /\ UNCHANGED <<page, pages>>
  /\ \/ /\ DeviceOptions(line).result = "past"
        /\ stage' = "fault"
        /\ UNCHANGED <<dev, out>>
     \/ \E l \in Completed(line, DeviceOptions(line)) :
          LET vals == DeviceOptions(l).vals
          IN  IF vals["base"] = 0 \/ vals["crate"] >= MaxDev THEN UNCHANGED <<stage, dev, out>>
              ELSE ConfigBoard(l, vals["crate"], vals["base"])

\* One turn of the loop over the input file.  A blank line has no first token:
\* the array holds the one of the line before, by now empty, or nothing yet.
ReadLine ==
  /\ stage = "lines"
  /\ pos <= Len(input)
  /\ pos' = pos + 1
  /\ CASE FirstWord(input[pos]) = "repeater"  -> ConfigRepeaterLine(input[pos])
       [] FirstWord(input[pos]) = "vmedevice" -> ConfigVmedevice(input[pos])
       [] input[pos] = << >> /\ pos = 1 ->
            stage' \in {"lines", "fault"} /\ UNCHANGED <<dev, page, pages, out>>
       [] OTHER -> UNCHANGED <<stage, dev, page, pages, out>>
  /\ UNCHANGED <<world, input>>

\* The files are closed.  With -scan, V120Scan goes on from here.
EndOfInput ==
  /\ stage = "lines"
  /\ pos = Len(input) + 1
  /\ stage' = "done"
  /\ UNCHANGED <<world, input, pos, dev, page, pages, out>>

ConfigNext == (\E args \in Command : ReadCommand(args)) \/ ReadLine \/ EndOfInput

-----------------------------------------------------------------------------
(* Properties.                                                               *)

IsDevice(line)   == FirstWord(line) = "vmedevice"
IsRepeater(line) == FirstWord(line) = "repeater"

OnlyFirst(word, line) == \A i \in DOMAIN line : line[i].word = word => i = 1

Complete(line) ==
  /\ IsRepeater(line) => RepeaterOptions(line).result # "past"
  /\ IsDevice(line) => DeviceOptions(line).result # "past"

\* A file that means what it says: a line starts with what it is about and does
\* not come back to it, no argument is missing, and a crate has one line.
ProperInput(file) ==
  /\ \A k \in DOMAIN file : /\ OnlyFirst("repeater", file[k]) /\ OnlyFirst("vmedevice", file[k])
                            /\ Complete(file[k])
  /\ \A j, k \in DOMAIN file :
       (/\ IsRepeater(file[j]) /\ Len(file[j]) >= 2 /\ IsRepeater(file[k]) /\ Len(file[k]) >= 2
        /\ file[j][2].crate = file[k][2].crate) => j = k

Says(line, opt) == line[1 + CHOOSE k \in 3..(Len(line) - 1) : line[k].word = opt]

\* The regions of a crate do not overlap, and all of them got their pages.
Orderly(c) ==
  /\ \A s \in Width : dev[c].region[s].addr # 0 => dev[c].start[s] # NoPage
  /\ \A s, t \in Width : s # t => \A addr \in 1..(dev[c].region[s].addr + dev[c].region[s].len) :
       ~ (Inside(dev[c], s, addr) /\ (Inside(dev[c], t, addr) \/ In(dev[c], t, addr)))

Findable(c, base) == \E s \in Width : Inside(dev[c], s, base) /\ In(dev[c], s, base)

\* Whatever fails for other crates and lines, a line of the output file says
\* truly whether a board is at its address and in which space, if its crate is
\* in order and the address is within the A16 length of its region's start.
ListingIsTrue ==
  \A k \in DOMAIN out : IsDevice(out[k]) =>
    LET c == out[k][2].crate
        base == Says(out[k], "-base").num
        s == Says(out[k], "-a").num
    IN  (Orderly(c) /\ Findable(c, base) /\ s # Off) =>
          /\ s \in Width /\ Inside(dev[c], s, base)
          /\ Says(out[k], "-o").word = "true" <=> At(c, s, base) # {}

=============================================================================
