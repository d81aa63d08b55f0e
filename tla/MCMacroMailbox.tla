---------------------------- MODULE MCMacroMailbox ----------------------------
(* Instance of MacroMailbox for TLC: two calls, of which the first may have   *)
(* been killed, with up to two parameters, of an ordinary command or a reset. *)
EXTENDS MacroMailbox

=============================================================================
