-------------------------------- MODULE Lower --------------------------------
(***************************************************************************)
(* emit_function of src/ssair.c: the lowering of one function body to SSA, *)
(* followed by collapse_degenerate_phis.                                   *)
(*                                                                         *)
(* The syntax tree is not a parameter.  The walk over it is the sequence   *)
(* of calls of emit_statement and emit_expression, and the environment     *)
(* picks, call by call, the node the recursion meets next; ctrl is the     *)
(* stack of the activations that are still running, with the locals they   *)
(* use again.  So a behaviour is the lowering of one program and the model *)
(* ranges over all programs of at most MaxStmts statements and MaxExprs    *)
(* operators.  generate_ssair is only called on a tree that analyze_ast    *)
(* accepted: decl and scopes (Declarations) are what it knows at the       *)
(* same point of the tree, and a node it would reject is never picked.     *)
(*                                                                         *)
(* The iterations of the three loops over names and phis are steps of      *)
(* their own; nothing else can happen between them.                        *)
(***************************************************************************)
EXTENDS SsaIR, Declarations

CONSTANTS
  Tmp,       \* the name "tmp" of compiler temporaries; may also be in Name
  DeclTypes, \* the types a name may be declared with, for each name
  Headers,   \* function headers: return type and parameters
  Callees,   \* signatures of the functions that may be called
  Globals,   \* initialised global variables: name and type
  Syntax,    \* the kinds of statements and operators the programs use
  Literals,  \* the literals of each type, as numbers; 1 is `true`
  MaxStmts,  \* bound: statements in the function
  MaxExprs   \* bound: operators, calls and logical connectives in it

Param == [name : Name, type : ValType]

ASSUME DeclTypesAssumption == DeclTypes \in [Name -> SUBSET ValType]

ASSUME HeadersAssumption ==
  /\ Headers \subseteq [ret : Type, params : Seq(Param)]
  /\ \A h \in Headers : \A i, j \in DOMAIN h.params :
       h.params[i].name = h.params[j].name => i = j

ASSUME CalleesAssumption ==
  Callees \subseteq [ret : Type \ {"TYPE_ERROR"}, params : Seq(ValType)]

ASSUME GlobalsAssumption == Globals \subseteq Param

Statement == {"VARIABLE", "ASSIGNMENT", "RET", "FCALL", "BLOCK", "IF", "WHILE"}
Operator  == {"ARITH", "CMP", "NOT", "AND", "OR", "CALL"}

ASSUME SyntaxAssumption == Syntax \subseteq Statement \cup Operator

ASSUME LiteralsAssumption == Literals \in [ValType -> SUBSET Nat]

ASSUME BoundsAssumption == MaxStmts \in Nat /\ MaxExprs \in Nat

VARIABLES
  fn,          \* the header being lowered
  blocks,      \* function->blocks in list order
  cur,         \* build->block
  values,      \* function->values
  names,       \* function->names, in the order of interning
  nextVersion, \* build->next_versions
  bindings,    \* build->bindings; a name not interned yet is Invalid
  ctrl,        \* the active calls, innermost last
  status,      \* "lowering", "collapsing", "done", or why it stopped
  dropped,     \* a node was skipped although set_error was not called
  cursor,      \* position of collapse_degenerate_phis
  stmts,       \* statements the environment may still pick
  exprs        \* operators the environment may still pick

irVars    == <<blocks, cur>>
valueVars == <<values, names, nextVersion>>
semVars   == <<decl, scopes>>
fuel      == <<stmts, exprs>>
runVars   == <<fn, status, dropped, cursor>>
nameVars  == <<valueVars, bindings>>
vars == <<fn, irVars, valueVars, bindings, ctrl, semVars, status, dropped,
          cursor, fuel>>

AllName == Name \cup {Tmp}

\* The errors set_error can report for a program that passed the analysis.
UnboundAssignment == "SSA cannot assign values"
AssignmentTypes   == "assignment has incompatible SSA types"
NoValue           == "no SSA value is available"
AfterReturn       == "instruction follows a return"
NoReturn          == "function has no return instruction"
ReturnType        == "return value has an incompatible type"
OperandTypes      == "operands have incompatible SSA types"
ArgumentTypes     == "call has an incompatible argument"
WhileType         == "while condition must have bool SSA type"

Error == {UnboundAssignment, AssignmentTypes, NoValue, AfterReturn, NoReturn,
          ReturnType, OperandTypes, ArgumentTypes, WhileType}

Status == {"lowering", "collapsing", "done", "rejected"} \cup Error

-----------------------------------------------------------------------------
(***************************************************************************)
(* The stack of active calls.                                              *)
(***************************************************************************)

\* Frames that walk a statement list (emit_statement_list).
ListKind == {"FBODY", "BLOCK", "THEN", "ELSE", "LOOP"}

\* Frames that wait for the operands of nested emit_expression calls.
ExprKind == {"ASSIGN", "RETURN", "IFCOND", "WHILECOND",
             "BINARY", "NOT", "CALL", "LEFT", "RIGHT"}

Top == Last(ctrl)

Active(kind) == status = "lowering" /\ Top.kind = kind

Complete == Len(Top.args) = Len(Top.wants)

\* The operands received so far have the types emit_call checks one by one.
ArgsAgree(frame) == \A i \in DOMAIN frame.args :
                      frame.args[i].type = frame.wants[i]

\* match_type
MatchType(a, b) == a = "TYPE_ERROR" \/ b = "TYPE_ERROR" \/ a = b

\* The innermost call is about to lower an expression of type t.
Wanting(t) ==
  /\ status = "lowering"
  /\ Top.kind \in ExprKind
  /\ ~Complete
  /\ Top.kind = "CALL" => ArgsAgree(Top)
  /\ MatchType(t, Top.wants[Len(Top.args) + 1])

\* The operand `target` of emit_expression: only an assignment passes one.
Target == IF Top.kind = "ASSIGN" THEN Top.dest ELSE NoOperand

Push(frame)    == ctrl' = Append(ctrl, frame)
Replace(frame) == ctrl' = [ctrl EXCEPT ![Len(ctrl)] = frame]
Receive(o)     == ctrl' = [ctrl EXCEPT ![Len(ctrl)].args = Append(@, o)]
Pop            == ctrl' = Front(ctrl)

\* The innermost call returns operand o to its caller.
Return(o) == ctrl' = [Front(ctrl) EXCEPT ![Len(ctrl) - 1].args = Append(@, o)]

\* The innermost statement ends; returns tells whether definitely_returns
\* holds of it.
EndStatement(returns) ==
  ctrl' = [Front(ctrl) EXCEPT ![Len(ctrl) - 1].rets = @ \/ returns]

\* set_error: ir->valid is cleared and what was built is never printed.
Fail(error) ==
  /\ status' = error
  /\ UNCHANGED <<fn, irVars, nameVars, ctrl, semVars, dropped, cursor, fuel>>

-----------------------------------------------------------------------------
(***************************************************************************)
(* Names, versions and bindings.                                           *)
(***************************************************************************)

\* intern_name_view
Intern(n) == names' = IF Contains(names, n) THEN names ELSE Append(names, n)

NewValueAlwaysInt(n, t) ==
  /\ values' = Append(values, [name |-> n, version |-> nextVersion[n],
                               type |-> "INT"])
  /\ nextVersion' = [nextVersion EXCEPT ![n] = @ + 1]
  /\ Intern(n)

NewValueSameVersion(n, t) ==
  /\ values' = Append(values, [name |-> n, version |-> nextVersion[n],
                               type |-> t])
  /\ UNCHANGED nextVersion
  /\ Intern(n)

\* new_value_view; the new id is Len(values) + 1
NewValue(n, t) ==
  /\ values' = Append(values, [name |-> n, version |-> nextVersion[n],
                               type |-> t])
  /\ nextVersion' = [nextVersion EXCEPT ![n] = @ + 1]
  /\ Intern(n)

NextIdTooLarge == Len(values) + 2

NextId == Len(values) + 1

\* value_from_id
ValueOf(id) == ValueOp(id, values[id].type)

\* result = target ? copy_operand(*target) : new_value(build, "tmp", type)
Result(target, t) ==
  IF target = NoOperand THEN ValueOp(NextId, t) ELSE target

NewResult(target, t) ==
  IF target = NoOperand THEN NewValue(Tmp, t) ELSE UNCHANGED valueVars

-----------------------------------------------------------------------------
(***************************************************************************)
(* The beginning of emit_function: parameters are interned, given version  *)
(* 0 and bound, in order.                                                  *)
(***************************************************************************)

ParamNames(h) == { h.params[i].name : i \in DOMAIN h.params }

ParamIndex(h, n) == CHOOSE i \in DOMAIN h.params : h.params[i].name = n

InitialDecl(h) ==
  [n \in Name |->
     IF n \in ParamNames(h)
     THEN [type |-> h.params[ParamIndex(h, n)].type, init |-> TRUE]
     ELSE IF \E g \in Globals : g.name = n
     THEN [type |-> (CHOOSE g \in Globals : g.name = n).type, init |-> TRUE]
     ELSE Undeclared]

Init ==
  /\ fn \in Headers
  /\ \A g \in Globals : g.name \notin ParamNames(fn)
  /\ blocks = <<NewBlock>>
  /\ cur = 1
  /\ values = [i \in DOMAIN fn.params |->
                 [name |-> fn.params[i].name, version |-> 0,
                  type |-> fn.params[i].type]]
  /\ names = [i \in DOMAIN fn.params |-> fn.params[i].name]
  /\ nextVersion = [n \in AllName |-> IF n \in ParamNames(fn) THEN 1 ELSE 0]
  /\ bindings = [n \in AllName |-> IF n \in ParamNames(fn)
                                   THEN ParamIndex(fn, n) ELSE Invalid]
  /\ ctrl = << [kind |-> "FBODY", rets |-> FALSE] >>
  /\ decl = InitialDecl(fn)
  /\ scopes = << ParamNames(fn) >>
  /\ status = "lowering"
  /\ dropped = FALSE
  /\ cursor = [block |-> 1, index |-> 1, changed |-> FALSE]
  /\ stmts = MaxStmts
  /\ exprs = MaxExprs

-----------------------------------------------------------------------------
(***************************************************************************)
(* emit_expression: leaves return to the innermost call at once.           *)
(***************************************************************************)

\* AST_VALUE
Literal(t) ==
  /\ Wanting(t)
  /\ \E v \in Literals[t] : Receive(LitOp(t, v))
  /\ UNCHANGED <<runVars, irVars, nameVars, semVars, fuel>>

\* AST_ID: the analysis requires an initialised visible variable.
Readable(n) == Visible(n) /\ decl[n].init /\ Wanting(decl[n].type)

Identifier(n) ==
  /\ Readable(n)
  /\ bindings[n] # Invalid
  /\ Receive(ValueOf(bindings[n]))
  /\ UNCHANGED <<runVars, irVars, nameVars, semVars, fuel>>

UnboundIdentifier(n) ==
  /\ Readable(n)
  /\ bindings[n] = Invalid
  /\ Fail(NoValue)

BeginExpr(frame) ==
  /\ exprs > 0
  /\ exprs' = exprs - 1
  /\ Push(frame)
  /\ UNCHANGED <<runVars, irVars, nameVars, semVars, stmts>>

\* AST_OPERATOR with two operands of type t.
Operators(t) == { op \in {"ARITH", "CMP"} :
                    \/ op = "ARITH" /\ t \in {"INT", "FLOAT"}
                    \/ op = "CMP"   /\ t # "STR" }

\* typecheck_operator
CheckedType(op, t) == IF op = "CMP" THEN "BOOL" ELSE t

BeginBinary(op, t) ==
  /\ op \in Syntax
  /\ op \in Operators(t)
  /\ Wanting(CheckedType(op, t))
  /\ BeginExpr([kind |-> "BINARY", op |-> op, wants |-> <<t, t>>,
                args |-> << >>, target |-> Target])

BeginNot ==
  /\ "NOT" \in Syntax
  /\ Wanting("BOOL")
  /\ BeginExpr([kind |-> "NOT", wants |-> <<"BOOL">>, args |-> << >>,
                target |-> Target])

\* T_AND and T_OR
BeginLogic(isOr) ==
  /\ (IF isOr THEN "OR" ELSE "AND") \in Syntax
  /\ Wanting("BOOL")
  /\ BeginExpr([kind |-> "LEFT", wants |-> <<"BOOL">>, args |-> << >>,
                target |-> Target, isOr |-> isOr])

BeginCall(f) ==
  /\ "CALL" \in Syntax
  /\ f.ret # "VOID"
  /\ Wanting(f.ret)
  /\ BeginExpr([kind |-> "CALL", ret |-> f.ret, wants |-> f.params,
                args |-> << >>, target |-> Target])

ResultIsOperandType(op, t) == t

\* result_type: that of the operands found, not of those expected.
ResultType(op, t) == IF op = "CMP" THEN "BOOL" ELSE t

FinishBinary ==
  /\ Active("BINARY")
  /\ Complete
  /\ LET lhs    == Top.args[1]
         type   == ResultType(Top.op, lhs.type)
         result == Result(Top.target, type)
     IN  IF lhs.type # Top.args[2].type
         THEN Fail(OperandTypes)
         ELSE /\ NewResult(Top.target, type)
              /\ blocks' = Emit(blocks, cur,
                                Instruction(Top.op, result, Top.args))
              /\ Return(result)
              /\ UNCHANGED <<runVars, cur, bindings, semVars, fuel>>

FinishNot ==
  /\ Active("NOT")
  /\ Complete
  /\ LET result == Result(Top.target, "BOOL")
     IN  IF Top.args[1].type # "BOOL"
         THEN Fail(OperandTypes)
         ELSE /\ NewResult(Top.target, "BOOL")
              /\ blocks' = Emit(blocks, cur,
                                Instruction("NOT", result, Top.args))
              /\ Return(result)
              /\ UNCHANGED <<runVars, cur, bindings, semVars, fuel>>

\* An operand of a connective that is not bool: emit_expression returns
\* none_operand and reports nothing.
DropLogic ==
  /\ Active("LEFT") \/ Active("RIGHT")
  /\ Complete
  /\ Top.args[1].type # "BOOL"
  /\ Return(NoOperand)
  /\ dropped' = TRUE
  /\ UNCHANGED <<fn, irVars, nameVars, semVars, status, cursor, fuel>>

\* The left operand of a connective decides whether the right one runs.
SplitLogic ==
  /\ Active("LEFT")
  /\ Complete
  /\ Top.args[1].type = "BOOL"
  /\ LET right == Len(blocks) + 1
         merge == Len(blocks) + 2
     IN  /\ blocks' = CondBranch(blocks \o <<NewBlock, NewBlock>>, cur,
                                 Top.args[1],
                                 IF Top.isOr THEN merge ELSE right,
                                 IF Top.isOr THEN right ELSE merge)
         /\ cur' = right
         /\ Replace([kind |-> "RIGHT", wants |-> <<"BOOL">>, args |-> << >>,
                     target |-> Top.target, isOr |-> Top.isOr,
                     decision |-> cur, merge |-> merge])
  /\ UNCHANGED <<runVars, nameVars, semVars, fuel>>

\* An expression never terminates its block, so the right operand always
\* branches to the merge block.
FinishLogic ==
  /\ Active("RIGHT")
  /\ Complete
  /\ Top.args[1].type = "BOOL"
  /\ LET result == Result(Top.target, "BOOL")
         short  == LitOp("BOOL", IF Top.isOr THEN 1 ELSE 0)
     IN  /\ NewResult(Top.target, "BOOL")
         /\ blocks' = Emit(Branch(blocks, cur, Top.merge), Top.merge,
                           Phi(result, <<short, Top.args[1]>>,
                               <<Top.decision, cur>>))
         /\ cur' = Top.merge
         /\ Return(result)
  /\ UNCHANGED <<runVars, bindings, semVars, fuel>>

\* emit_call, as an expression or as a statement.
FinishCall ==
  /\ Active("CALL")
  /\ Complete
  /\ ArgsAgree(Top)
  /\ LET result == IF Top.ret = "VOID" THEN NoOperand
                   ELSE Result(Top.target, Top.ret)
     IN  /\ IF Top.ret = "VOID" THEN UNCHANGED valueVars
            ELSE NewResult(Top.target, Top.ret)
         /\ blocks' = Emit(blocks, cur, Instruction("CALL", result, Top.args))
         /\ IF ctrl[Len(ctrl) - 1].kind \in ListKind THEN Pop
            ELSE Return(result)
  /\ UNCHANGED <<runVars, cur, bindings, semVars, fuel>>

ArgumentMismatch ==
  /\ Active("CALL")
  /\ ~ArgsAgree(Top)
  /\ Fail(ArgumentTypes)

Expression ==
  \/ \E t \in ValType : Literal(t)
  \/ \E n \in Name : Identifier(n)
  \/ \E n \in Name : UnboundIdentifier(n)
  \/ \E t \in UNION { DeclTypes[n] : n \in Name } :
       \E op \in {"ARITH", "CMP"} : BeginBinary(op, t)
  \/ BeginNot
  \/ \E isOr \in BOOLEAN : BeginLogic(isOr)
  \/ \E f \in Callees : BeginCall(f)
  \/ FinishBinary
  \/ FinishNot
  \/ DropLogic
  \/ SplitLogic
  \/ FinishLogic
  \/ FinishCall
  \/ ArgumentMismatch

-----------------------------------------------------------------------------
(***************************************************************************)
(* emit_statement: the next node of the innermost statement list.          *)
(***************************************************************************)

InList == status = "lowering" /\ Top.kind \in ListKind

NextStatement == InList /\ stmts > 0

StartStatement(kind) ==
  /\ NextStatement
  /\ kind \in Syntax
  /\ ~blocks[cur].terminated
  /\ stmts' = stmts - 1

StatementAfterReturn ==
  /\ NextStatement
  /\ blocks[cur].terminated
  /\ Fail(AfterReturn)

\* AST_VARIABLE without initialiser: lowering emits nothing.
DeclareOnly(n, t) ==
  /\ StartStatement("VARIABLE")
  /\ Declare(n, t)
  /\ UNCHANGED <<runVars, irVars, nameVars, ctrl, exprs>>

\* emit_assignment up to the evaluation of the right-hand side.
BeginAssignment(n, expected, type) ==
  /\ Push([kind |-> "ASSIGN", name |-> n, dest |-> ValueOp(NextId, type),
           wants |-> <<expected>>, args |-> << >>])
  /\ NewValue(n, type)
  /\ UNCHANGED <<runVars, irVars, bindings, exprs>>

\* AST_VARIABLE with an initialiser: the declared type is passed on.
DeclareAndAssign(n, t) ==
  /\ StartStatement("VARIABLE")
  /\ Declare(n, t)
  /\ BeginAssignment(n, t, t)

\* AST_ASSIGNMENT: the type is that of the value bound to the name.
Assign(n) ==
  /\ StartStatement("ASSIGNMENT")
  /\ Visible(n)
  /\ bindings[n] # Invalid
  /\ UNCHANGED semVars
  /\ BeginAssignment(n, decl[n].type, values[bindings[n]].type)

AssignUnbound(n) ==
  /\ NextStatement
  /\ "ASSIGNMENT" \in Syntax
  /\ ~blocks[cur].terminated
  /\ Visible(n)
  /\ bindings[n] = Invalid
  /\ Fail(UnboundAssignment)

StoreAlwaysCopies(dest, result) ==
  Emit(blocks, cur, Instruction("COPY", dest, <<result>>))

\* A copy, unless the right-hand side was computed into the destination.
Store(dest, result) ==
  IF result = dest THEN blocks
  ELSE Emit(blocks, cur, Instruction("COPY", dest, <<result>>))

\* emit_assignment after the evaluation
FinishAssignment ==
  /\ Active("ASSIGN")
  /\ Complete
  /\ LET result == Top.args[1]
     IN  IF result.type # Top.dest.type
         THEN Fail(AssignmentTypes)
         ELSE /\ blocks' = Store(Top.dest, result)
              /\ bindings' = [bindings EXCEPT ![Top.name] = Top.dest.id]
              /\ Initialise(Top.name)
              /\ Pop
              /\ UNCHANGED <<runVars, cur, valueVars, fuel>>

\* AST_RET
BeginReturn ==
  /\ StartStatement("RET")
  /\ fn.ret # "VOID"
  /\ Push([kind |-> "RETURN", wants |-> <<fn.ret>>, args |-> << >>])
  /\ UNCHANGED <<runVars, irVars, nameVars, semVars, exprs>>

EmitReturn(args) ==
  blocks' = Terminate(Emit(blocks, cur, Instruction("RET", NoOperand, args)),
                      cur)

FinishReturn ==
  /\ Active("RETURN")
  /\ Complete
  /\ IF Top.args[1].type # fn.ret
     THEN Fail(ReturnType)
     ELSE /\ EmitReturn(Top.args)
          /\ EndStatement(TRUE)
          /\ UNCHANGED <<runVars, cur, nameVars, semVars, fuel>>

\* `return;` is accepted when match_type(VOID, return type).
ReturnNothing ==
  /\ NextStatement
  /\ "RET" \in Syntax
  /\ ~blocks[cur].terminated
  /\ MatchType("VOID", fn.ret)
  /\ IF fn.ret # "VOID"
     THEN Fail(ReturnType)
     ELSE /\ stmts' = stmts - 1
          /\ EmitReturn(<< >>)
          /\ ctrl' = [ctrl EXCEPT ![Len(ctrl)].rets = TRUE]
          /\ UNCHANGED <<runVars, cur, nameVars, semVars, exprs>>

\* AST_FCALL as a statement
CallStatement(f) ==
  /\ StartStatement("FCALL")
  /\ Push([kind |-> "CALL", ret |-> f.ret, wants |-> f.params,
           args |-> << >>, target |-> NoOperand])
  /\ UNCHANGED <<runVars, irVars, nameVars, semVars, exprs>>

\* AST_BLOCK: scopes of the analysis open and close, bindings do not.
BeginBlock ==
  /\ StartStatement("BLOCK")
  /\ Push([kind |-> "BLOCK", rets |-> FALSE])
  /\ EnterScope
  /\ UNCHANGED <<runVars, irVars, nameVars, exprs>>

EndBlock ==
  /\ Active("BLOCK")
  /\ EndStatement(Top.rets)
  /\ ExitScope
  /\ UNCHANGED <<runVars, irVars, nameVars, fuel>>

SimpleStatement ==
  \/ StatementAfterReturn
  \/ \E n \in Name : \E t \in DeclTypes[n] : DeclareOnly(n, t)
  \/ \E n \in Name : \E t \in DeclTypes[n] : DeclareAndAssign(n, t)
  \/ \E n \in Name : Assign(n)
  \/ \E n \in Name : AssignUnbound(n)
  \/ FinishAssignment
  \/ BeginReturn
  \/ FinishReturn
  \/ ReturnNothing
  \/ \E f \in Callees : CallStatement(f)
  \/ BeginBlock
  \/ EndBlock

-----------------------------------------------------------------------------
(***************************************************************************)
(* emit_if                                                                 *)
(***************************************************************************)

BeginIf ==
  /\ StartStatement("IF")
  /\ Push([kind |-> "IFCOND", wants |-> <<"BOOL">>, args |-> << >>])
  /\ UNCHANGED <<runVars, irVars, nameVars, semVars, exprs>>

\* A condition that is not bool ends emit_if without a diagnostic: neither
\* branch is lowered.  The analysis still saw both.
DropIf ==
  /\ Active("IFCOND")
  /\ Complete
  /\ Top.args[1].type # "BOOL"
  /\ \E returns \in BOOLEAN : EndStatement(returns)
  /\ dropped' = TRUE
  /\ UNCHANGED <<fn, irVars, nameVars, semVars, status, cursor, fuel>>

BranchIf ==
  /\ Active("IFCOND")
  /\ Complete
  /\ Top.args[1].type = "BOOL"
  /\ LET then == Len(blocks) + 1
         else == Len(blocks) + 2
     IN  /\ blocks' = CondBranch(blocks \o <<NewBlock, NewBlock, NewBlock>>,
                                 cur, Top.args[1], then, else)
         /\ cur' = then
         /\ Replace([kind |-> "THEN", rets |-> FALSE, incoming |-> bindings,
                     count |-> Len(names), else |-> else,
                     merge |-> Len(blocks) + 3])
  /\ EnterScope
  /\ UNCHANGED <<runVars, nameVars, fuel>>

\* emit_branch(merge) unless the current block has ended already.
Join(target) == IF blocks[cur].terminated THEN blocks
                ELSE Branch(blocks, cur, target)

RestoreNothing(snapshot) == bindings' = bindings

\* restore_bindings: names interned after the snapshot are unbound in it.
Restore(snapshot) == bindings' = snapshot

\* The then branch ends; the else branch is a list or is absent.
EndThen(hasElse) ==
  /\ Active("THEN")
  /\ blocks' = Join(Top.merge)
  /\ cur' = Top.else
  /\ Restore(Top.incoming)
  /\ Replace([kind |-> IF hasElse THEN "ELSE" ELSE "NOELSE",
              rets |-> FALSE, incoming |-> Top.incoming,
              count |-> Top.count, merge |-> Top.merge,
              then |-> [bound   |-> bindings,
                        end     |-> cur,
                        reaches |-> ~blocks[cur].terminated,
                        rets    |-> Top.rets]])
  /\ IF hasElse
     THEN /\ scopes' = Append(Front(scopes), {})
          /\ decl' = [n \in Name |-> IF n \in Last(scopes) THEN Undeclared
                                     ELSE decl[n]]
     ELSE ExitScope
  /\ UNCHANGED <<runVars, valueVars, fuel>>

EndElse ==
  /\ Active("ELSE") \/ Active("NOELSE")
  /\ blocks' = Join(Top.merge)
  /\ cur' = Top.merge
  /\ Restore(Top.incoming)
  /\ Replace([kind |-> "MERGE", k |-> 1, count |-> Top.count,
              incoming |-> Top.incoming, then |-> Top.then,
              else |-> [bound   |-> bindings,
                        end     |-> cur,
                        reaches |-> ~blocks[cur].terminated,
                        rets    |-> Top.rets]])
  /\ IF Top.kind = "ELSE" THEN ExitScope ELSE UNCHANGED semVars
  /\ UNCHANGED <<runVars, valueVars, fuel>>

NextName == Replace([Top EXCEPT !.k = @ + 1])

\* One iteration of the loop of emit_if over the names bound before it.
MergeName ==
  /\ Active("MERGE")
  /\ Top.k <= Top.count
  /\ LET n     == names[Top.k]
         bound == /\ Top.incoming[n] # Invalid
                  /\ Top.then.bound[n] # Invalid
                  /\ Top.else.bound[n] # Invalid
         both  == Top.then.reaches /\ Top.else.reaches
         type  == values[Top.incoming[n]].type
     IN  IF /\ bound /\ both
            /\ Top.then.bound[n] # Top.else.bound[n]
         THEN /\ NewValue(n, type)
              /\ blocks' = Emit(blocks, cur,
                                Phi(ValueOp(NextId, type),
                                    <<ValueOf(Top.then.bound[n]),
                                      ValueOf(Top.else.bound[n])>>,
                                    <<Top.then.end, Top.else.end>>))
              /\ bindings' = [bindings EXCEPT ![n] = NextId]
         ELSE /\ bindings' =
                   IF bound /\ Top.then.reaches /\ ~Top.else.reaches
                   THEN [bindings EXCEPT ![n] = Top.then.bound[n]]
                   ELSE IF bound /\ ~Top.then.reaches /\ Top.else.reaches
                   THEN [bindings EXCEPT ![n] = Top.else.bound[n]]
                   ELSE bindings
              /\ UNCHANGED <<valueVars, blocks>>
  /\ NextName
  /\ UNCHANGED <<runVars, cur, semVars, fuel>>

EitherReturns(then, else) == then.rets \/ else.rets

\* definitely_returns of an if with an else
BothReturn(then, else) == then.rets /\ else.rets

EndMerge ==
  /\ Active("MERGE")
  /\ Top.k > Top.count
  /\ EndStatement(BothReturn(Top.then, Top.else))
  /\ UNCHANGED <<runVars, irVars, nameVars, semVars, fuel>>

IfStatement ==
  \/ BeginIf
  \/ DropIf
  \/ BranchIf
  \/ \E hasElse \in BOOLEAN : EndThen(hasElse)
  \/ EndElse
  \/ MergeName
  \/ EndMerge

-----------------------------------------------------------------------------
(***************************************************************************)
(* emit_while                                                              *)
(***************************************************************************)

BeginWhile ==
  /\ StartStatement("WHILE")
  /\ LET header == Len(blocks) + 1
     IN  /\ blocks' = Branch(blocks \o <<NewBlock, NewBlock, NewBlock>>, cur,
                             header)
         /\ cur' = header
         /\ Push([kind |-> "HEADER", k |-> 1, count |-> Len(names),
                  incoming |-> bindings, pre |-> cur, header |-> header])
  /\ UNCHANGED <<runVars, nameVars, semVars, exprs>>

\* One iteration of the loop of emit_while over the names bound before it.
HeaderName ==
  /\ Active("HEADER")
  /\ Top.k <= Top.count
  /\ LET n    == names[Top.k]
         type == values[Top.incoming[n]].type
     IN  IF Top.incoming[n] # Invalid
         THEN /\ NewValue(n, type)
              /\ blocks' = Emit(blocks, cur,
                                Phi(ValueOp(NextId, type),
                                    <<ValueOf(Top.incoming[n])>>,
                                    <<Top.pre>>))
              /\ bindings' = [bindings EXCEPT ![n] = NextId]
         ELSE UNCHANGED <<nameVars, blocks>>
  /\ NextName
  /\ UNCHANGED <<runVars, cur, semVars, fuel>>

EndHeader ==
  /\ Active("HEADER")
  /\ Top.k > Top.count
  /\ Replace([kind |-> "WHILECOND", wants |-> <<"BOOL">>, args |-> << >>,
              incoming |-> Top.incoming, header |-> Top.header])
  /\ UNCHANGED <<runVars, irVars, nameVars, semVars, fuel>>

BranchWhile ==
  /\ Active("WHILECOND")
  /\ Complete
  /\ IF Top.args[1].type # "BOOL"
     THEN Fail(WhileType)
     ELSE /\ blocks' = CondBranch(blocks, cur, Top.args[1], Top.header + 1,
                                  Top.header + 2)
          /\ cur' = Top.header + 1
          /\ Replace([kind |-> "LOOP", rets |-> FALSE,
                      incoming |-> Top.incoming, bound |-> bindings,
                      header |-> Top.header])
          /\ EnterScope
          /\ UNCHANGED <<runVars, nameVars, fuel>>

\* The value the body carries back to the header phi with destination id: a
\* body that left the phi itself bound carries the incoming value.
BackEdgeValue(id) ==
  LET n    == values[id].name
      last == IF bindings[n] # Invalid THEN bindings[n] ELSE Top.incoming[n]
  IN  IF last = id THEN Top.incoming[n] ELSE last

CloseLoopWithoutPhis(bs, header) == bs

\* The header phis receive the edge from the end of the body.
CloseLoop(bs, header) ==
  [bs EXCEPT ![header].code =
     [i \in DOMAIN bs[header].code |->
        LET instr == bs[header].code[i]
            value == BackEdgeValue(instr.dest.id)
        IN  IF IsLeadingPhi(bs[header].code, i) /\ value # Invalid
            THEN PhiEntry(instr, ValueOf(value), cur)
            ELSE instr]]

EndLoop ==
  /\ Active("LOOP")
  /\ blocks' = IF blocks[cur].terminated THEN blocks
               ELSE CloseLoop(Branch(blocks, cur, Top.header), Top.header)
  /\ cur' = Top.header + 2
  /\ Restore(Top.bound)
  /\ EndStatement(FALSE)
  /\ ExitScope
  /\ UNCHANGED <<runVars, valueVars, fuel>>

WhileStatement ==
  \/ BeginWhile
  \/ HeaderName
  \/ EndHeader
  \/ BranchWhile
  \/ EndLoop

-----------------------------------------------------------------------------
(***************************************************************************)
(* The end of emit_function, and collapse_degenerate_phis.                 *)
(***************************************************************************)

\* The analysis rejects a function that does not return on all code paths,
\* lowering then never runs.
FinalReturnForgotten(bs) == bs

\* The return instruction of a void function that ends without one; the
\* block is not marked as terminated.
FinalReturn(bs) == Emit(bs, cur, Instruction("RET", NoOperand, << >>))

EndFunction ==
  /\ Active("FBODY")
  /\ IF fn.ret # "VOID" /\ ~Top.rets
     THEN status' = "rejected" /\ UNCHANGED blocks
     ELSE IF blocks[cur].terminated
     THEN status' = "collapsing" /\ UNCHANGED blocks
     ELSE IF fn.ret = "VOID"
     THEN status' = "collapsing" /\ blocks' = FinalReturn(blocks)
     ELSE status' = NoReturn /\ UNCHANGED blocks
  /\ UNCHANGED <<fn, cur, nameVars, ctrl, semVars, dropped, cursor, fuel>>

CursorCode == blocks[cursor.block].code

AtPhi == /\ cursor.index <= Len(CursorCode)
         /\ CursorCode[cursor.index].op = "PHI"

\* The cursor is on a phi; it is removed or the cursor passes it.
VisitPhi ==
  /\ status = "collapsing"
  /\ cursor.block <= Len(blocks)
  /\ AtPhi
  /\ LET phi == CursorCode[cursor.index]
     IN  IF PhiCollapses(phi)
         THEN /\ blocks' = RemoveInstr(RewriteUses(blocks, phi.dest.id,
                                                   Replacement(phi)),
                                       cursor.block, cursor.index)
              /\ cursor' = [cursor EXCEPT !.changed = TRUE]
         ELSE /\ cursor' = [cursor EXCEPT !.index = @ + 1]
              /\ UNCHANGED blocks
  /\ UNCHANGED <<fn, cur, nameVars, ctrl, semVars, status, dropped, fuel>>

\* Past the leading phis of a block: the next block.
NextBlock ==
  /\ status = "collapsing"
  /\ cursor.block <= Len(blocks)
  /\ ~AtPhi
  /\ cursor' = [cursor EXCEPT !.block = @ + 1, !.index = 1]
  /\ UNCHANGED <<fn, irVars, nameVars, ctrl, semVars, status, dropped, fuel>>

SinglePass ==
  /\ status = "collapsing"
  /\ cursor.block > Len(blocks)
  /\ cursor' = [block |-> 1, index |-> 1, changed |-> FALSE]
  /\ status' = "done"
  /\ UNCHANGED <<fn, irVars, nameVars, ctrl, semVars, dropped, fuel>>

PassKeepsChanged ==
  /\ status = "collapsing"
  /\ cursor.block > Len(blocks)
  /\ cursor' = [cursor EXCEPT !.block = 1, !.index = 1]
  /\ status' = IF cursor.changed THEN "collapsing" ELSE "done"
  /\ UNCHANGED <<fn, irVars, nameVars, ctrl, semVars, dropped, fuel>>

\* The end of a pass: another one if the last removed a phi.
EndPass ==
  /\ status = "collapsing"
  /\ cursor.block > Len(blocks)
  /\ cursor' = [block |-> 1, index |-> 1, changed |-> FALSE]
  /\ status' = IF cursor.changed THEN "collapsing" ELSE "done"
  /\ UNCHANGED <<fn, irVars, nameVars, ctrl, semVars, dropped, fuel>>

Collapse == VisitPhi \/ NextBlock \/ EndPass

-----------------------------------------------------------------------------

Next ==
  \/ Expression
  \/ SimpleStatement
  \/ IfStatement
  \/ WhileStatement
  \/ EndFunction
  \/ Collapse

\* One thread lowers a finite tree: it never stops between two steps.
Spec == Init /\ [][Next]_vars /\ WF_vars(Next)
=============================================================================
