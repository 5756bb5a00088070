------------------------------ MODULE Analyzer ------------------------------
(***************************************************************************)
(* analyze_ast of src/analyzer.c: the functions of a program are declared, *)
(* then semantic_analysis walks the tree with a stack of symbol tables.    *)
(* Errors are counted and the walk goes on.                                *)
(*                                                                         *)
(* The function headers are chosen first, because declare_functions reads  *)
(* them all; the statements and global variables are chosen as the walk    *)
(* meets them, right or wrong.  Expressions are trees of a finite set.     *)
(* The tree comes from a parser that reported no error.                    *)
(***************************************************************************)
EXTENDS Integers, SequencesExt, FiniteSetsExt

CONSTANTS
  Name,      \* the names in the tables
  Programs,  \* sequences of function headers: name, parameters, return type
  Exprs,     \* the expressions of statements
  Height,    \* of each of them and each of its parts: how deep it nests
  DeclTypes, \* the types used in declarations; VOID and F are errors
  MaxStmts   \* bound: statements and global variables

ValType == {"INT", "FLOAT", "CHAR", "BOOL", "STR"}
Type    == ValType \cup {"VOID", "F", "TYPE_ERROR"}

\* A type that the parser did not recognise is that of a missing result.
Header == [name   : Name,
           params : Seq([name : Name, type : Type \ {"TYPE_ERROR"}]),
           ret    : Type]

ASSUME ProgramsAssumption == Programs \subseteq Seq(Header)
ASSUME TypesAssumption    == DeclTypes \subseteq Type \ {"TYPE_ERROR"}
ASSUME StmtsAssumption    == MaxStmts \in Nat

-----------------------------------------------------------------------------
(***************************************************************************)
(* Expressions: trees, whose parts are expressions that nest less deep.    *)
(***************************************************************************)

Lit(t)         == [kind |-> "VALUE", type |-> t]
Id(m)          == [kind |-> "ID", name |-> m]
Not(a)         == [kind |-> "NOT", a |-> a]
Bin(op, a, b)  == [kind |-> "OPERATOR", op |-> op, a |-> a, b |-> b]
Fcall(m, args) == [kind |-> "FCALL", name |-> m, args |-> args]

\* REL: < <= > >=, EQ: == !=, LOGIC: && ||, ARITH: + - * /
BinaryOp == {"ARITH", "REL", "EQ", "LOGIC"}

Expr == DOMAIN Height

ExprForm ==
  [kind : {"VALUE"}, type : ValType] \cup [kind : {"ID"}, name : Name]
  \cup [kind : {"NOT"}, a : Expr]
  \cup [kind : {"OPERATOR"}, op : BinaryOp, a : Expr, b : Expr]
  \cup [kind : {"FCALL"}, name : Name, args : Seq(Expr)]

Parts(e) ==
  CASE e.kind \in {"VALUE", "ID"} -> {}
    [] e.kind = "NOT"      -> {e.a}
    [] e.kind = "OPERATOR" -> {e.a, e.b}
    [] e.kind = "FCALL"    -> Range(e.args)

ASSUME ExprsAssumption  == Exprs \subseteq Expr /\ Expr \subseteq ExprForm
ASSUME HeightAssumption ==
  \A e \in Expr : /\ Height[e] \in Nat
                  /\ \A p \in Parts(e) : Height[p] < Height[e]

-----------------------------------------------------------------------------
VARIABLES
  program,  \* the functions of the tree, in order
  symbols,  \* analyzer->symbols, the global table first
  current,  \* current_function: the header its f_info describes, 0 for NULL
  next,     \* the function declared or walked next
  param,    \* the parameter declared next
  ctrl,     \* the active calls on statement lists, innermost last
  errors,   \* diagnostics->error_count
  status,   \* what runs, or how it ended
  stmts     \* statements that may still be met

walkVars == <<current, next, param>>
vars == <<program, symbols, walkVars, ctrl, errors, status, stmts>>

Status == {"declaring", "header", "body", "done", "crashed"}

-----------------------------------------------------------------------------
(***************************************************************************)
(* The stack of symbol tables (src/symtab.c).  fun is the header whose     *)
(* f_info an entry has, 0 if it has none.                                  *)
(***************************************************************************)

Absent == [type |-> "TYPE_ERROR", init |-> FALSE, fun |-> 0]

NewTable == [m \in Name |-> Absent]

LookupScope(m) == Last(symbols)[m]

\* lookup_all: the innermost scope that has the name, 0 if none has it.
ScopeOf(m) == Max({0} \cup { i \in DOMAIN symbols : symbols[i][m] # Absent })

LookupAll(m) == IF ScopeOf(m) = 0 THEN Absent ELSE symbols[ScopeOf(m)][m]

\* st_insert_view in the current scope
Inserted(m, entry) == [symbols EXCEPT ![Len(symbols)][m] = entry]

EnterScope == symbols' = Append(symbols, NewTable)
ExitScope  == symbols' = Front(symbols)

-----------------------------------------------------------------------------
(***************************************************************************)
(* What is found of an expression: its type, the errors reported on the    *)
(* way, and whether the null f_info of a variable was dereferenced.        *)
(***************************************************************************)

Checked(t, k, crash) == [type |-> t, errors |-> k, crash |-> crash]
Failed(k, crash)     == Checked("TYPE_ERROR", k, crash)

MatchType(a, b) == a = "TYPE_ERROR" \/ b = "TYPE_ERROR" \/ a = b

\* The switch at the end of typecheck_operator.
OperandTypes(op) ==
  CASE op = "EQ"    -> Type \ {"STR", "VOID", "F"}
    [] op = "REL"   -> {"INT", "FLOAT", "CHAR"}
    [] op = "LOGIC" -> {"BOOL"}
    [] op = "ARITH" -> {"INT", "FLOAT"}

OneIf(condition) == IF condition THEN 1 ELSE 0

\* typecheck_operator with two operands
CheckBinary(op, l, r) ==
  LET k     == l.errors + r.errors
      crash == l.crash \/ r.crash
  IN  IF "TYPE_ERROR" \in {l.type, r.type} THEN Failed(k, crash)
      ELSE IF l.type # r.type \/ l.type \notin OperandTypes(op)
      THEN Failed(k + 1, crash)
      ELSE Checked(IF op = "ARITH" THEN l.type ELSE "BOOL", k, crash)

\* typecheck_operator for `!`
CheckNot(r) ==
  IF r.type \in {"TYPE_ERROR", "BOOL"} THEN Checked("BOOL", r.errors, r.crash)
  ELSE Failed(r.errors + 1, r.crash)

CheckId(m) ==
  LET var == LookupAll(m)
  IN  IF var = Absent \/ ~var.init THEN Failed(1, FALSE)
      ELSE Checked(var.type, 0, FALSE)

CountIgnored(args, params) == 0

\* "too many arguments" and "too few arguments"
WrongCount(args, params) == OneIf(Len(args) # Len(params))

\* What checking several parts, one after the other, adds up to.
Together(results) ==
  Checked("VOID",
          MapThenSumSet(LAMBDA i : results[i].errors, DOMAIN results),
          \E i \in DOMAIN results : results[i].crash)

\* typecheck_fcall, with what is found of the arguments: those beyond the
\* parameters are not looked at.
CheckFcall(e, args) ==
  LET f      == LookupAll(e.name)
      params == program[f.fun].params
      passed == [i \in 1 .. Min({Len(args), Len(params)}) |-> args[i]]
      wrong  == { i \in DOMAIN passed :
                    ~MatchType(passed[i].type, params[i].type) }
      all    == Together(passed)
  IN  IF f = Absent THEN Failed(1, FALSE)
      ELSE IF f.fun = 0 THEN Failed(0, TRUE)
      ELSE Checked(program[f.fun].ret,
                   all.errors + Cardinality(wrong) + WrongCount(args, params),
                   all.crash)

\* AST_FCALL as an expression; match_type also takes an unknown return type
\* for void.
CheckCallValue(e, args) ==
  LET r == CheckFcall(e, args)
  IN  IF r.crash \/ LookupAll(e.name) = Absent THEN r
      ELSE IF MatchType(r.type, "VOID") THEN Failed(r.errors + 1, FALSE)
      ELSE r

\* expr_type
ExprType[e \in Expr] ==
  CASE e.kind = "VALUE"    -> Checked(e.type, 0, FALSE)
    [] e.kind = "ID"       -> CheckId(e.name)
    [] e.kind = "NOT"      -> CheckNot(ExprType[e.a])
    [] e.kind = "OPERATOR" -> CheckBinary(e.op, ExprType[e.a], ExprType[e.b])
    [] e.kind = "FCALL"    ->
         CheckCallValue(e, [i \in DOMAIN e.args |-> ExprType[e.args[i]]])

ArgTypes(e) == [i \in DOMAIN e.args |-> ExprType[e.args[i]]]

\* semantic_analysis on an expression: it checks each call it comes to.
Walk[e \in Expr] ==
  CASE e.kind \in {"VALUE", "ID"} -> Checked("VOID", 0, FALSE)
    [] e.kind = "NOT"      -> Walk[e.a]
    [] e.kind = "OPERATOR" -> Together(<<Walk[e.a], Walk[e.b]>>)
    [] e.kind = "FCALL"    ->
         Together(<<CheckFcall(e, ArgTypes(e))>>
                  \o [i \in DOMAIN e.args |-> Walk[e.args[i]]])

-----------------------------------------------------------------------------
(***************************************************************************)
(* declare_functions.                                                      *)
(***************************************************************************)

FunctionOfFirst(k) == [type |-> "F", init |-> FALSE, fun |-> 1]

Function(k) == [type |-> "F", init |-> FALSE, fun |-> k]

Init ==
  /\ program \in Programs
  /\ symbols = <<NewTable>>
  /\ current = 0
  /\ next = 1
  /\ param = 1
  /\ ctrl = << >>
  /\ errors = 0
  /\ status = "declaring"
  /\ stmts = MaxStmts

\* A second function of the same name is reported and keeps the first entry.
DeclareFunction ==
  /\ status = "declaring"
  /\ next <= Len(program)
  /\ LET name == program[next].name
     IN  IF LookupScope(name) # Absent
         THEN errors' = errors + 1 /\ UNCHANGED symbols
         ELSE symbols' = Inserted(name, Function(next)) /\ UNCHANGED errors
  /\ next' = next + 1
  /\ UNCHANGED <<program, current, param, ctrl, status, stmts>>

FunctionsDeclared ==
  /\ status = "declaring"
  /\ next > Len(program)
  /\ status' = "body"
  /\ next' = 1
  /\ UNCHANGED <<program, symbols, current, param, ctrl, errors, stmts>>

-----------------------------------------------------------------------------
(***************************************************************************)
(* Statement lists.                                                        *)
(***************************************************************************)

Top == Last(ctrl)

Active(kind) == status = "body" /\ ctrl # << >> /\ Top.kind = kind

TopLevel == status = "body" /\ ctrl = << >>

ListKind == {"FBODY", "BLOCK", "THEN", "ELSE", "LOOP"}

\* semantic_analysis meets another statement of a list.
InList == status = "body" /\ ctrl # << >> /\ Top.kind \in ListKind

List(kind) == [kind |-> kind, rets |-> FALSE]

\* The statement ends; returns tells whether definitely_returns stops at it.
EndStatement(returns) ==
  ctrl' = [Front(ctrl) EXCEPT ![Len(ctrl) - 1].rets = @ \/ returns]

\* What a check adds to the diagnostics, unless it crashes.
Report(check) ==
  IF check.crash THEN status' = "crashed" /\ UNCHANGED errors
                 ELSE errors' = errors + check.errors /\ UNCHANGED status

Meet == stmts > 0 /\ stmts' = stmts - 1 /\ UNCHANGED <<program, walkVars>>

-----------------------------------------------------------------------------
(***************************************************************************)
(* AST_VARIABLE.                                                           *)
(***************************************************************************)

\* A parameter of the current function has this name.
NamesParameter(m) ==
  /\ current # 0
  /\ \E i \in DOMAIN program[current].params :
       program[current].params[i].name = m

RedefinedInScope(m) == LookupScope(m) # Absent

Redefined(m) == LookupAll(m) # Absent

NeverInitialised(m, t) == [type |-> t, init |-> FALSE, fun |-> 0]

NewVariable(m, t) == [type |-> t, init |-> NamesParameter(m), fun |-> 0]

DeclareAnyType(m, t) ==
  IF Redefined(m)
  THEN errors' = errors + 1 /\ UNCHANGED symbols
  ELSE symbols' = Inserted(m, NewVariable(m, t)) /\ UNCHANGED errors

DeclareVariable(m, t) ==
  IF Redefined(m) \/ t \in {"VOID", "F"}
  THEN errors' = errors + 1 /\ UNCHANGED symbols
  ELSE symbols' = Inserted(m, NewVariable(m, t)) /\ UNCHANGED errors

VariableOnly(m, t) ==
  /\ TopLevel \/ InList
  /\ Meet
  /\ DeclareVariable(m, t)
  /\ UNCHANGED <<ctrl, status>>

\* The initialiser is walked next, whether or not the variable was declared.
VariableWithValue(m, t, e) ==
  /\ TopLevel \/ InList
  /\ Meet
  /\ DeclareVariable(m, t)
  /\ ctrl' = Append(ctrl, [kind |-> "INIT", name |-> m, value |-> e])
  /\ UNCHANGED status

-----------------------------------------------------------------------------
(***************************************************************************)
(* AST_ASSIGNMENT, AST_RET, AST_FCALL.                                     *)
(***************************************************************************)

\* typecheck_assignment
TypecheckAssignment(m, e) ==
  LET var   == LookupAll(m)
      right == ExprType[e]
      wrong == IF var = Absent THEN TRUE ELSE ~MatchType(var.type, right.type)
  IN  /\ Report([right EXCEPT !.errors = @ + OneIf(wrong)])
      /\ IF right.crash \/ var = Absent \/ right.type = "TYPE_ERROR"
         THEN UNCHANGED symbols
         ELSE symbols' = [symbols EXCEPT ![ScopeOf(m)][m].init = TRUE]

Initialiser ==
  /\ Active("INIT")
  /\ TypecheckAssignment(Top.name, Top.value)
  /\ ctrl' = Front(ctrl)
  /\ UNCHANGED <<program, walkVars, stmts>>

Assignment(m, e) ==
  /\ InList
  /\ Meet
  /\ TypecheckAssignment(m, e)
  /\ UNCHANGED ctrl

ReturnsSet(returns) == ctrl' = [ctrl EXCEPT ![Len(ctrl)].rets = @ \/ returns]

\* The calls of the value are checked by expr_type and by the walk after it.
Return(e) ==
  /\ InList
  /\ Meet
  /\ LET value == ExprType[e]
         again == Walk[e]
         wrong == ~MatchType(value.type, program[current].ret)
     IN  Report(Checked("VOID", value.errors + OneIf(wrong) + again.errors,
                        value.crash \/ again.crash))
  /\ ReturnsSet(TRUE)
  /\ UNCHANGED symbols

ReturnNothing ==
  /\ InList
  /\ Meet
  /\ errors' = errors + OneIf(~MatchType("VOID", program[current].ret))
  /\ ReturnsSet(TRUE)
  /\ UNCHANGED <<symbols, status>>

CallStatement(e) ==
  /\ InList
  /\ e.kind = "FCALL"
  /\ Meet
  /\ Report(Walk[e])
  /\ UNCHANGED <<symbols, ctrl>>

-----------------------------------------------------------------------------
(***************************************************************************)
(* AST_BLOCK, AST_IF, AST_WHILE.  An else branch is the next node of the   *)
(* then branch; it is a block or another if.                               *)
(***************************************************************************)

BeginBlock ==
  /\ InList
  /\ Meet
  /\ EnterScope
  /\ ctrl' = Append(ctrl, List("BLOCK"))
  /\ UNCHANGED <<errors, status>>

\* The condition, and then the scope of the block.
Condition(e) ==
  LET r     == ExprType[e]
      wrong == r.type \notin {"TYPE_ERROR", "BOOL"}
  IN  Report([r EXCEPT !.errors = @ + OneIf(wrong)])

Begin(kind, e) ==
  /\ InList
  /\ Meet
  /\ Condition(e)
  /\ EnterScope
  /\ ctrl' = Append(ctrl, List(kind))

BeginIf(e)    == Begin("THEN", e)
BeginWhile(e) == Begin("LOOP", e)

\* The end of a list in a scope of its own.
EndList(kind) ==
  /\ Active(kind)
  /\ ExitScope
  /\ UNCHANGED <<program, walkVars, errors, status, stmts>>

EndBlockKeepsScope ==
  /\ Active("BLOCK")
  /\ EndStatement(Top.rets)
  /\ UNCHANGED <<program, symbols, walkVars, errors, status, stmts>>

EndBlock == EndList("BLOCK") /\ EndStatement(Top.rets)
EndLoop  == EndList("LOOP")  /\ EndStatement(FALSE)

EndThen ==
  /\ EndList("THEN")
  /\ ctrl' = Append(Front(ctrl),
                    [kind |-> "IF", rets |-> FALSE, then |-> Top.rets])

NoElse ==
  /\ Active("IF")
  /\ EndStatement(FALSE)
  /\ UNCHANGED <<program, symbols, walkVars, errors, status, stmts>>

\* The frame of the if stays below that of its else branch.
Else(frame) ==
  ctrl' = Front(ctrl) \o << [Top EXCEPT !.kind = "ELSEIF"], frame >>

BeginElse ==
  /\ Active("IF")
  /\ EnterScope
  /\ Else(List("ELSE"))
  /\ UNCHANGED <<program, walkVars, errors, status, stmts>>

BeginElseIf(e) ==
  /\ Active("IF")
  /\ Meet
  /\ Condition(e)
  /\ EnterScope
  /\ Else(List("THEN"))

EndElse == EndList("ELSE") /\ EndStatement(Top.rets)

EndIf ==
  /\ Active("ELSEIF")
  /\ EndStatement(Top.then /\ Top.rets)
  /\ UNCHANGED <<program, symbols, walkVars, errors, status, stmts>>

-----------------------------------------------------------------------------
(***************************************************************************)
(* AST_FUNCTION and the end.                                               *)
(***************************************************************************)

\* The header that describes a function is that of the entry of its name.
BeginFunction ==
  /\ TopLevel
  /\ next <= Len(program)
  /\ current' = LookupScope(program[next].name).fun
  /\ EnterScope
  /\ status' = "header"
  /\ param' = 1
  /\ UNCHANGED <<program, next, ctrl, errors, stmts>>

\* AST_PARAMETERS: a parameter is an AST_VARIABLE.
DeclareParameter ==
  /\ status = "header"
  /\ param <= Len(program[next].params)
  /\ LET p == program[next].params[param]
     IN  DeclareVariable(p.name, p.type)
  /\ param' = param + 1
  /\ UNCHANGED <<program, current, next, ctrl, status, stmts>>

BeginBody ==
  /\ status = "header"
  /\ param > Len(program[next].params)
  /\ status' = "body"
  /\ ctrl' = <<List("FBODY")>>
  /\ UNCHANGED <<program, symbols, walkVars, errors, stmts>>

\* "function does not return from all code paths"
EndFunction ==
  /\ Active("FBODY")
  /\ errors' = errors + OneIf(program[current].ret # "VOID" /\ ~Top.rets)
  /\ ExitScope
  /\ ctrl' = << >>
  /\ current' = 0
  /\ next' = next + 1
  /\ UNCHANGED <<program, param, status, stmts>>

Finish ==
  /\ TopLevel
  /\ next > Len(program)
  /\ status' = "done"
  /\ UNCHANGED <<program, symbols, walkVars, ctrl, errors, stmts>>

-----------------------------------------------------------------------------
Statement ==
  \/ \E m \in Name, t \in DeclTypes :
       \/ VariableOnly(m, t)
       \/ \E e \in Exprs : VariableWithValue(m, t, e)
  \/ Initialiser
  \/ \E m \in Name, e \in Exprs : Assignment(m, e)
  \/ \E e \in Exprs : \/ Return(e) \/ CallStatement(e)
                      \/ BeginIf(e) \/ BeginWhile(e) \/ BeginElseIf(e)
  \/ ReturnNothing
  \/ BeginBlock

End ==
  \/ EndBlock \/ EndLoop \/ EndThen \/ EndElse
  \/ NoElse \/ BeginElse \/ EndIf

\* Nothing is left to do; a state without a next step is a walk that is stuck.
Ended == status \in {"done", "crashed"} /\ UNCHANGED vars

Next ==
  \/ DeclareFunction \/ FunctionsDeclared
  \/ BeginFunction \/ DeclareParameter \/ BeginBody \/ EndFunction
  \/ Statement \/ End
  \/ Finish
  \/ Ended

Spec == Init /\ [][Next]_vars
=============================================================================
