------------------------- MODULE AnalyzerProperties -------------------------
(***************************************************************************)
(* What is checked of Analyzer.                                            *)
(***************************************************************************)
EXTENDS Analyzer

\* Types: only functions have an f_info, variables have the type of a value,
\* parameters of other functions are out of sight, and frames nest.
TypeOK ==
  /\ program \in Programs
  /\ symbols \in Seq([Name -> [type : Type, init : BOOLEAN,
                               fun : 0 .. Len(program)]])
  /\ symbols # << >>
  /\ \A i \in DOMAIN symbols, m \in Name :
       LET e == symbols[i][m]
       IN  \/ e = Absent
           \/ e.fun = 0 /\ e.type \in ValType
           \/ e.fun # 0 /\ e.type = "F" /\ i = 1
  /\ current \in 0 .. Len(program)
  /\ next \in 1 .. Len(program) + 1
  /\ errors \in Nat
  /\ stmts \in 0 .. MaxStmts
  /\ status \in Status
  /\ status = "header" => current # 0 /\ ctrl = << >>
  /\ \A i \in DOMAIN ctrl :
       ctrl[i].kind \in ListKind \cup {"INIT", "IF", "ELSEIF"}

\* The assertions of the code: a function that is walked has an entry with an
\* f_info in the global table (analyzer.c 137), and in the end only the global
\* scope is open (analyzer.c 424).  Beyond them: while a function is walked its
\* name still leads to that entry, which AST_VARIABLE dereferences without a
\* check (analyzer.c 225).
AssertionsHold ==
  /\ TopLevel /\ next <= Len(program) =>
       Len(symbols) = 1 /\ LookupScope(program[next].name).fun # 0
  /\ current # 0 => LookupAll(program[next].name).fun = current
  /\ status = "done" => Len(symbols) = 1 /\ current = 0

\* What generate_ssair finds in the symbols of an accepted program: every
\* function under its own name, with its own signature, and no function lost to
\* another function or variable.
FunctionsAreDescribed ==
  status = "done" /\ errors = 0 =>
    \A k \in DOMAIN program :
      symbols[1][program[k].name].fun = k

\* The scopes opened are those of the statement lists that are walked, so
\* exit_scope never closes the global one and names end with their blocks.
ScopesFollowBlocks ==
  status # "crashed" =>
    Len(symbols) = 1 + OneIf(status = "header")
                     + Cardinality({ i \in DOMAIN ctrl :
                                       ctrl[i].kind \in ListKind })

-----------------------------------------------------------------------------
(***************************************************************************)
(* The view the lowering is modelled with.                                 *)
(***************************************************************************)

\* The declaration visible for each name, and the names of each open scope.
Flat == [m \in Name |-> [type |-> IF LookupAll(m) = Absent THEN "VOID"
                                  ELSE LookupAll(m).type,
                         init |-> LookupAll(m).init]]

Opened == [i \in DOMAIN symbols |-> { m \in Name : symbols[i][m] # Absent }]

View == INSTANCE Declarations WITH decl <- Flat, scopes <- Opened

ViewStep ==
  \/ status # "header" /\ \E m \in Name, t \in Type : View!Declare(m, t)
  \/ /\ status = "header"
     /\ \E m \in Name, t \in Type : View!DeclareParameter(m, t)
  \/ \E m \in Name : View!Initialise(m)
  \/ View!EnterScope
  \/ View!ExitScope

\* As long as no error is found, the stack of tables, searched from the inside,
\* is what Declarations promises: one declaration in sight for each name,
\* unassigned unless it is a parameter, gone with its scope, and nothing else
\* reappears.
ImplementsDeclarations ==
  [][errors' = 0 => ViewStep \/ UNCHANGED <<Flat, Opened>>]_vars

\* The typing rules that Lower uses as guards: the types that are accepted
\* where the expression stands.  A result type the parser did not recognise
\* fits no expression.
Accepted[e \in Expr] ==
  CASE e.kind = "VALUE" -> {e.type}
    [] e.kind = "ID"    ->
         { t \in Type : Flat[e.name].init /\ Flat[e.name].type = t }
    [] e.kind = "NOT"   -> {"BOOL"} \cap Accepted[e.a]
    [] e.kind = "OPERATOR" ->
         { IF e.op = "ARITH" THEN t ELSE "BOOL" :
             t \in (OperandTypes(e.op) \ {"TYPE_ERROR"})
                  \cap Accepted[e.a] \cap Accepted[e.b] }
    [] e.kind = "FCALL" ->
         { program[k].ret : k \in { k \in DOMAIN program :
             /\ LookupAll(e.name).fun = k
             /\ program[k].ret \notin {"VOID", "TYPE_ERROR"}
             /\ Len(e.args) = Len(program[k].params)
             /\ \A i \in DOMAIN e.args :
                  program[k].params[i].type \in Accepted[e.args[i]] } }

\* expr_type, which guesses no types and goes on after errors, reports no error
\* exactly for the expressions these rules accept, and with their type; walking
\* the value of a return again reports nothing new about them.
TypingAgrees ==
  \A e \in Exprs :
    LET r == ExprType[e]
    IN  ~r.crash =>
          /\ r.errors = 0 <=> Accepted[e] # {}
          /\ r.errors = 0 => r.type \in Accepted[e] /\ Walk[e].errors = 0

\* `check` is described as "Parse and type-check a source file." (lep.c 209),
\* but a call of a name that is a variable makes typecheck_fcall use the null
\* f_info (analyzer.c 337).
NeverCrashes == status # "crashed"
=============================================================================
