------------------------------ MODULE V120Options ------------------------------
(***************************************************************************)
(* parse_options() and its routines (lib/parse_options/parse_options.c):   *)
(* the options of v120_config's command line and of the lines of its files *)
(* are looked up in a table, whose entries say how an option is matched    *)
(* and where its argument is stored.                                       *)
(*                                                                         *)
(* A token is a word, a number or a device name such as v545[0][2], in any *)
(* spelling; a number includes its suffix k or M.                          *)
(***************************************************************************)
EXTENDS Integers, Sequences, FiniteSetsExt

CONSTANT Spelling   \* what a word can be

Token      == [word: Spelling, crate: Int, num: Int]
Word(w)    == [word |-> w, crate |-> -1, num |-> -1]
Number(n)  == [word |-> "number", crate |-> -1, num |-> n]
Dev(t, c, n) == [word |-> t, crate |-> c, num |-> n]

\* An entry: option, argument ("*" is any, "" is none), routine, the variable
\* it stores into and, for an enumerated argument, the value.
Entry(opt, arg, routine, var, value) ==
  [opt |-> opt, arg |-> arg, routine |-> routine, var |-> var, value |-> value]

\* The tests of the loop over the table.  An option without an argument other
\* than a flag is only matched when it is the only token.
Matches(e, args, i) ==
  /\ args[i].word = e.opt
  /\ \/ e.arg = "" /\ (Len(args) = 1 \/ e.routine \in {"noop", "set_chgflg"})
     \/ e.routine \in {"print_help_text", "load_enum"} /\ i < Len(args) /\ args[i + 1].word = e.arg
     \/ e.routine \in {"load_constant", "noop"} /\ e.arg = "*"
     \/ e.routine = "load_string" /\ e.arg # ""
     \/ /\ e.routine \in {"load_crate_num", "load_crate_board_num"}
        /\ i = Len(args) \/ args[i + 1].word = e.arg     \* match_dev_name()

\* What a routine makes of the variables, if it accepts the argument.
Load(e, arg, vals) ==
  CASE e.routine = "load_constant"  -> [vals EXCEPT ![e.var] = arg.num]
    [] e.routine = "load_enum"      -> [vals EXCEPT ![e.var] = e.value]
    [] e.routine = "load_crate_num" -> [vals EXCEPT ![e.var] = arg.crate]
    [] e.routine = "load_crate_board_num" ->
         [vals EXCEPT !["crate"] = arg.crate, !["board"] = arg.num]
    [] OTHER                        -> vals

Accepts(e, arg) == e.routine = "load_constant" => arg.word = "number"

\* Flags take no argument; all other options take the next one in the array.
\* The number of tokens is not looked at, or the last option would be refused.
Takes(e) == IF e.arg = "" THEN 1 ELSE 2

\* One turn of the outer loop: the first entry that matches counts.  "past": the
\* last token is an option and the code reads the array past it; what it finds
\* there is the caller's affair.
Turn(table, args, s) ==
  IF s.at > Len(args) \/ s.result # "ok" THEN s
  ELSE LET hits == {k \in DOMAIN table : Matches(table[k], args, s.at)}
           e    == table[Min(hits)]
       IN  IF hits = {} THEN [s EXCEPT !.result = "error"]
           ELSE IF s.at + Takes(e) > Len(args) + 1 THEN [s EXCEPT !.result = "past"]
           ELSE LET arg == args[s.at + Takes(e) - 1]
                IN  IF ~ Accepts(e, arg) THEN [s EXCEPT !.result = "error"]
                    ELSE [s EXCEPT !.vals = Load(e, arg, @),
                                   !.set = @ \cup {e.var},
                                   !.at = @ + Takes(e)]

\* parse_options(): the variables afterwards, those an option was stored into
\* (chgflg), and how it ended.  An error stops it; what was stored stays.
Parse(table, args, vals) ==
  LET turn[n \in 0..Len(args)] ==
        IF n = 0 THEN [at |-> 1, vals |-> vals, set |-> {}, result |-> "ok"]
        ELSE Turn(table, args, turn[n - 1])
  IN  turn[Len(args)]

=============================================================================
