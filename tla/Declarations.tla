---------------------------- MODULE Declarations ----------------------------
(***************************************************************************)
(* What a program may rely on after the analysis: at each point of a       *)
(* program without errors, every name has at most one declaration in       *)
(* sight.  The lowering is modelled against this view; Analyzer shows that *)
(* the stack of symbol tables of src/analyzer.c implements it.             *)
(***************************************************************************)
EXTENDS SequencesExt

CONSTANT Name  \* identifiers of variables

VARIABLES
  decl,    \* the declaration visible for each name
  scopes   \* the names each open scope declares, innermost last

Undeclared == [type |-> "VOID", init |-> FALSE]

Visible(n) == decl[n] # Undeclared

DeclareInitialised(n, t) ==
  /\ ~Visible(n)
  /\ decl' = [decl EXCEPT ![n] = [type |-> t, init |-> TRUE]]
  /\ scopes' = [scopes EXCEPT ![Len(scopes)] = @ \cup {n}]

\* AST_VARIABLE: no visible declaration may have the same name.
Declare(n, t) ==
  /\ ~Visible(n)
  /\ decl' = [decl EXCEPT ![n] = [type |-> t, init |-> FALSE]]
  /\ scopes' = [scopes EXCEPT ![Len(scopes)] = @ \cup {n}]

\* AST_VARIABLE for a parameter of the function
DeclareParameter(n, t) == DeclareInitialised(n, t)

\* typecheck_assignment
Initialise(n) ==
  /\ Visible(n)
  /\ decl' = [decl EXCEPT ![n].init = TRUE]
  /\ UNCHANGED scopes

EnterScope == scopes' = Append(scopes, {}) /\ UNCHANGED decl

ExitScope ==
  /\ decl' = [n \in Name |-> IF n \in Last(scopes) THEN Undeclared
                             ELSE decl[n]]
  /\ scopes' = Front(scopes)
=============================================================================
