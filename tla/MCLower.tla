------------------------------- MODULE MCLower -------------------------------
(***************************************************************************)
(* Instances of Lower for TLC.  A run chooses the function headers, the    *)
(* names and the types they may be declared with, and the syntax in use.   *)
(***************************************************************************)
EXTENDS LowerProperties

Var(n, t) == [name |-> n, type |-> t]

AllSyntax == Statement \cup Operator

OneLiteral == [t \in ValType |-> {0}]
BothBools  == [t \in ValType |-> IF t = "BOOL" THEN {0, 1} ELSE {0}]
IntLiteral == [t \in ValType |-> IF t = "INT" THEN {0} ELSE {}]

\* control: a parameter, or a local variable that is declared in the body
ControlName    == {"b"}
ControlTypes   == [n \in ControlName |-> {"BOOL"}]
ControlHeaders == { [ret |-> "BOOL", params |-> <<Var("b", "BOOL")>>],
                    [ret |-> "VOID", params |-> << >>] }

\* types: g is a global, tmp has the name of the compiler's temporaries
TypesName    == {"a", "g", "tmp"}
TypesTypes   == [n \in TypesName |-> IF n = "a" THEN {"INT"} ELSE {"BOOL"}]
GlobalBool   == { Var("g", "BOOL") }
TypesHeaders == { [ret |-> "BOOL",       params |-> <<Var("tmp", "BOOL")>>],
                  [ret |-> "INT",        params |-> <<Var("a", "INT")>>],
                  [ret |-> "TYPE_ERROR", params |-> << >>] }
TypesCallees == { [ret |-> "INT",  params |-> << >>],
                  [ret |-> "VOID", params |-> <<"INT", "BOOL">>] }

\* scopes: one name, two types
ScopeName  == {"a"}
ScopeTypes == [n \in ScopeName |-> {"BOOL", "INT"}]
VoidHeader == { [ret |-> "VOID", params |-> << >>] }
BoolCallees == { [ret |-> "BOOL", params |-> << >>],
                 [ret |-> "BOOL", params |-> <<"BOOL">>] }
=============================================================================
