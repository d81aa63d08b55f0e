----------------------------- MODULE V120Directory -----------------------------
(***************************************************************************)
(* What programs take get_vaddr_for_device() for: a directory that, asked  *)
(* for a board by name, answers where the board is mapped, or that it is   *)
(* not listed, whatever it was asked before.                               *)
(***************************************************************************)
CONSTANTS
  Name,      \* what can be asked for
  Place,     \* where boards can be
  Nothing,   \* no name, no answer
  NotListed, \* the null pointer
  Trouble    \* the lookup failed, or the program with it

VARIABLES
  listed,    \* where each listed board is: a function from names to sets of places
  asked,     \* the name asked for, or Nothing
  answer     \* the last answer, or Nothing

DirectoryInit ==
  /\ listed = << >>
  /\ asked = Nothing
  /\ answer = Nothing

\* The directory is drawn up once, before the first question.
Publish ==
  /\ listed = << >>
  /\ DOMAIN listed' \subseteq Name
  /\ \A name \in DOMAIN listed' : listed'[name] \subseteq Place
  /\ UNCHANGED <<asked, answer>>

Ask(name) ==
  /\ asked = Nothing
  /\ asked' = name
  /\ answer' = Nothing
  /\ UNCHANGED listed

\* A board is in one place.  Of a board whose crate was not set up the
\* directory does not know it, and says anything.
Answer ==
  /\ asked # Nothing
  /\ asked' = Nothing
  /\ answer' \in {Trouble} \cup
       (IF asked \notin DOMAIN listed THEN {NotListed}
        ELSE IF listed[asked] = {} THEN Place \cup {NotListed}
        ELSE listed[asked])
  /\ UNCHANGED listed

\* The program that asked is gone.
Forget ==
  /\ asked' = Nothing
  /\ answer' = Nothing
  /\ UNCHANGED listed

DirectoryNext == Publish \/ (\E name \in Name : Ask(name)) \/ Answer \/ Forget

DirectorySpec ==
  DirectoryInit /\ [][DirectoryNext]_<<listed, asked, answer>>

=============================================================================
