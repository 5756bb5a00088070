--------------------------- MODULE MCLowerMeaning ---------------------------
(***************************************************************************)
(* The instance of control flow, with the history of LowerMeaning: one     *)
(* bool variable, a parameter of a function that returns a bool, or a      *)
(* local variable of one that returns nothing.                             *)
(***************************************************************************)
EXTENDS MCLower, LowerMeaning

\* Calls can be seen from outside; the scopes of blocks have their own run.
OneCallee     == { [ret |-> "BOOL", params |-> <<"BOOL">>] }
ControlSyntax == (Statement \ {"BLOCK", "FCALL"}) \cup {"AND", "OR", "CALL"}
=============================================================================
