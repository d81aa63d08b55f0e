------------------------------- MODULE V120Lookup -------------------------------
(***************************************************************************)
(* get_vaddr_for_device() (lib/get_vaddr_for_device), by which every       *)
(* program finds its boards, on the output file of v120_config: the file   *)
(* is read line by line for the board, then from its start again for the   *)
(* board's crate.  The options of both lines are stored in static          *)
(* variables, which the next call finds as they were left.                 *)
(*                                                                         *)
(* What it adds to V120Config is the lookups of one process after the      *)
(* other, once the output file is written.                                 *)
(***************************************************************************)
EXTENDS V120Config

CONSTANTS
  Name,       \* boards that programs look up
  Nothing,    \* no board, no answer
  NotListed,  \* the null pointer
  Trouble,    \* the pointer -1, or a fault
  Wild        \* an address where nothing is mapped

VARIABLES
  look,    \* the call in progress: where it is, the board, the next line
  static,  \* the variables the options are stored in
  answer   \* what the last call returned, if anything

lookVars == <<look, static, answer>>
allVars  == <<configVars, lookVars>>

Place == [crate: CrateNum, space: Width, addr: Int] \cup {Wild}

ASSUME LookupAssumption == Nothing \notin Name /\ NotListed \notin Place

NoLook == [pc |-> "idle", name |-> Nothing, pos |-> 1]

PageVars == {Opt(l, s) : l \in {"-a", "-s", "-sp", "-ep"}, s \in Width}
Static0  == [v \in {"base", "space", "vme_online", "online"} \cup PageVars |-> 0]

LookTypeOK ==
  /\ ConfigTypeOK
  /\ look \in [pc: {"idle", "device", "repeater"}, name: Name \cup {Nothing},
               pos: 1..(Len(out) + 1)]
  /\ static \in [DOMAIN Static0 -> Int]
  /\ answer \in Place \cup {Nothing, NotListed, Trouble}

LookInit ==
  /\ look = NoLook
  /\ static = Static0
  /\ answer = Nothing

-----------------------------------------------------------------------------
VmeTable == <<
  Entry("-base", "*", "load_constant", "base", 0),
  Entry("-a", "*", "load_constant", "space", 0),
  Entry("-o", "true", "load_enum", "vme_online", 1),
  Entry("-o", "false", "load_enum", "vme_online", 0) >>

Noop(opt) == Entry(opt, "*", "noop", "", 0)

\* This table has no last entry; the output file has no other options.
PageTable == <<
  Constant("-a16"), Constant("-s16"), Noop("-S16"), Constant("-sp16"), Constant("-ep16"),
  Constant("-a24"), Constant("-s24"), Noop("-S24"), Constant("-sp24"), Constant("-ep24"),
  Constant("-a32"), Constant("-s32"), Noop("-S32"), Constant("-sp32"), Constant("-ep32"),
  Entry("-o", "true", "load_enum", "online", 1), Entry("-o", "false", "load_enum", "online", 1) >>

Options(line) == SubSeq(line, 3, Len(line))

Return(result) ==
  /\ answer' = result
  /\ look' = NoLook

\* The call; the file may be missing.
Ask(name) ==
  /\ stage = "done"
  /\ look.pc = "idle"
  /\ look' = [pc |-> "device", name |-> name, pos |-> 1]
  /\ answer' = Nothing
  /\ UNCHANGED <<configVars, static>>

FileMissing ==
  /\ look.pc = "device" /\ look.pos = 1
  /\ Return(Trouble)
  /\ UNCHANGED <<configVars, static>>

\* Mutant: the file is not read from its start again.
SeekDeviceOn ==
  /\ look.pc = "device"
  /\ look.pos <= Len(out)
  /\ LET line == out[look.pos]
     IN  IF IsDevice(line) /\ line[2] = look.name
         THEN /\ static' = Parse(VmeTable, Options(line), static).vals
              /\ look' = [look EXCEPT !.pc = "repeater", !.pos = @ + 1]
         ELSE look' = [look EXCEPT !.pos = @ + 1] /\ UNCHANGED static
  /\ UNCHANGED <<configVars, answer>>

\* The outer loop, until the board's line is found.
SeekDevice ==
  /\ look.pc = "device"
  /\ look.pos <= Len(out)
  /\ LET line == out[look.pos]
     IN  IF IsDevice(line) /\ line[2] = look.name
         THEN /\ static' = Parse(VmeTable, Options(line), static).vals
              /\ look' = [look EXCEPT !.pc = "repeater", !.pos = 1]
         ELSE look' = [look EXCEPT !.pos = @ + 1] /\ UNCHANGED static
  /\ UNCHANGED <<configVars, answer>>

\* v120_get_vme() on the pages of the variables of space s, and what the
\* pointer arithmetic makes of the region's address.  Without such a page it
\* returns a null pointer, and the difference is the address.
Mapped(c, s, v) ==
  LET there == {q \in pages : q[1] = c /\ q[2] = v[Opt("-sp", s)]}
  IN  IF there = {} THEN {IF v["base"] = v[Opt("-a", s)] THEN NotListed ELSE Wild}
      ELSE {[crate |-> c, space |-> q[3],
             addr |-> dev[c].region[q[3]].addr + v["base"] - v[Opt("-a", s)]] : q \in there}

\* The inner loop.  Whether v120_open() succeeds is not looked at: without a
\* handle, v120_get_vme() faults; it is not called for a space that is none.
SeekRepeater ==
  /\ look.pc = "repeater"
  /\ look.pos <= Len(out)
  /\ LET line == out[look.pos]
         v == Parse(PageTable, Options(line), static).vals
         s == v["space"]
         onward == look' = [look EXCEPT !.pos = @ + 1] /\ UNCHANGED answer
     IN  IF ~ (IsRepeater(line) /\ line[2].crate = look.name.crate)
         THEN onward /\ UNCHANGED static
         ELSE /\ static' = v
              /\ \/ s \notin Width /\ onward
                 \/ s \in Width /\ Return(Trouble)
                 \/ /\ s \in Width /\ line[2].crate \in world.crates
                    /\ \E place \in Mapped(line[2].crate, s, v) :
                         IF place = NotListed THEN onward ELSE Return(place)
  /\ UNCHANGED configVars

\* At the end of the file the outer loop ends as well.
NotFound ==
  /\ look.pc # "idle"
  /\ look.pos = Len(out) + 1
  /\ Return(NotListed)
  /\ UNCHANGED <<configVars, static>>

\* Another process: its variables are zero.
Restart ==
  /\ stage = "done"
  /\ static' = Static0
  /\ look' = NoLook
  /\ answer' = Nothing
  /\ UNCHANGED configVars

Lookup ==
  \/ \E name \in Name : Ask(name)
  \/ FileMissing \/ SeekDevice \/ SeekRepeater \/ NotFound \/ Restart

LookupInit == ConfigInit /\ LookInit
LookupNext == (ConfigNext /\ UNCHANGED lookVars) \/ Lookup

LookupSpec == LookupInit /\ [][LookupNext]_allVars

-----------------------------------------------------------------------------
(* The directory.                                                            *)

DeviceLines(name) == {k \in DOMAIN out : IsDevice(out[k]) /\ out[k][2] = name}

LineOf(name) == out[Min(DeviceLines(name))]

\* The repeater line of the board's crate has the pages of the board's space.
PagesGiven(name) ==
  \E k \in DOMAIN out :
    /\ IsRepeater(out[k]) /\ out[k][2].crate = name.crate
    /\ \E j \in DOMAIN out[k] : out[k][j].word = Opt("-sp", Says(LineOf(name), "-a").num)

ListedNames ==
  {name \in Name : DeviceLines(name) # {} /\ Says(LineOf(name), "-a").num \in Width}

Listing ==
  [name \in ListedNames |->
     IF ~ PagesGiven(name) THEN {}
     ELSE {[crate |-> name.crate, space |-> Says(LineOf(name), "-a").num,
            addr |-> Says(LineOf(name), "-base").num]}]

Directory ==
  INSTANCE V120Directory
    WITH listed <- IF stage = "done" THEN Listing ELSE << >>,
         asked  <- look.name,
         answer <- answer

\* The two loops over the file, with variables left over from earlier lookups,
\* are a directory: a program gets the address of the board it names, or none
\* if it is not listed; except that of a crate whose set-up failed any of its
\* pages may be answered.
ImplementsDirectory == Directory!DirectorySpec

=============================================================================
