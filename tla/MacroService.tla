----------------------------- MODULE MacroService -----------------------------
(***************************************************************************)
(* What ht_write_macro() promises its callers, with the registers and the  *)
(* firmware's timing hidden: the board executes a call's command at most   *)
(* once, as one step, and a call returns at most once, with the outcome of *)
(* that execution.  A call may disappear without returning (its process    *)
(* was killed), whether or not the board executed its command.             *)
(***************************************************************************)
EXTENDS Integers

CONSTANTS Code, ResetCode, Error, Ready, Param, Registers, MaxCalls

VARIABLES executed, returned

vars == <<executed, returned>>

Request == [id: 1..MaxCalls, code: Code, args: [1..Registers -> Param], n: 0..Registers]

Init == executed = {} /\ returned = {}

\* The board executes the command of one call.
Execute ==
  \E id \in 1..MaxCalls, code \in Code, args \in [1..Registers -> Param],
     outcome \in {Ready} \cup Error :
    /\ \A e \in executed : e.id # id
    /\ \A r \in returned : r.id = id => r.result = "ok" /\ r.code \in ResetCode
    /\ executed' = executed \cup
         {[id |-> id, code |-> code, args |-> args, outcome |-> outcome]}
    /\ UNCHANGED returned

\* A call returns: with the outcome of its execution, or refused and never to
\* be executed, or, for a reset, at once.
Answer ==
  \E c \in Request, result \in {"ok", "failed", "refused"} :
    /\ \A r \in returned : r.id # c.id
    /\ \/ /\ result = "refused"
          /\ \A e \in executed : e.id # c.id
       \/ /\ result = "ok"
          /\ c.code \in ResetCode
       \/ /\ result # "refused"
          /\ \E e \in executed :
               /\ e.id = c.id
               /\ e.code = c.code
               /\ \A k \in 1..c.n : e.args[k] = c.args[k]
               /\ (result = "ok") <=> (e.outcome = Ready)
    /\ returned' = returned \cup
         {[id |-> c.id, code |-> c.code, args |-> c.args, n |-> c.n, result |-> result]}
    /\ UNCHANGED executed

Next == Execute \/ Answer

Spec == Init /\ [][Next]_vars

=============================================================================
