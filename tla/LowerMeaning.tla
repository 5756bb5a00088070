---------------------------- MODULE LowerMeaning ----------------------------
(***************************************************************************)
(* Does the code mean what the program means?  Lower picks the nodes of    *)
(* the program one by one and forgets them; here a history variable keeps  *)
(* them as a tree.  When lowering has succeeded, the tree is evaluated and *)
(* the blocks are executed, and the two must make the same calls and       *)
(* return the same value.                                                  *)
(*                                                                         *)
(* A call is an event with its arguments; what it answers is chosen from   *)
(* outside.  ARITH and CMP stand for any operator, so they are read as one *)
(* that tells its operands apart.                                          *)
(***************************************************************************)
EXTENDS LowerProperties

CONSTANTS
  MaxNodes,  \* bound: statements and operators together
  MaxCalls,  \* bound: calls that return; the next one never does
  MaxTests   \* bound: loop tests of the program, before it is said to loop

ASSUME RunAssumption ==
  MaxNodes \in Nat /\ MaxCalls \in Nat /\ MaxTests \in Nat

VARIABLE tree  \* the nodes picked so far that are not complete, innermost
               \* last, each with its complete children

-----------------------------------------------------------------------------
(***************************************************************************)
(* The history: a node is open as long as its activation is on the stack.  *)
(***************************************************************************)

Node(op, arg) == [op |-> op, arg |-> arg, kids |-> << >>]

\* The node an activation lowers.  The children of an if and of a while are
\* the condition and the statements; ELSE divides those of an if.
NodeOf(frame) ==
  CASE frame.kind = "BINARY" -> Node(frame.op, 0)
    [] frame.kind = "LEFT"   -> Node(IF frame.isOr THEN "OR" ELSE "AND", 0)
    [] frame.kind = "IFCOND" -> Node("IF", 0)
    [] frame.kind = "HEADER" -> Node("WHILE", 0)
    [] frame.kind = "ASSIGN" -> Node("ASSIGN", frame.name)
    [] OTHER                 -> Node(frame.kind, 0)

\* The operand o was lowered at once.
Leaf(o) == IF o.kind = "LIT" THEN Node("LITERAL", o.id)
           ELSE Node("ID", values[o.id].name)

\* What a step that neither opened nor completed a node adds to the innermost.
Children ==
  LET top == Last(ctrl')
  IN  CASE top.kind = Top.kind /\ top.kind \in ExprKind ->
             << Leaf(Last(top.args)) >>
        [] Top.kind = "THEN" /\ top.kind # "THEN" -> << Node("ELSE", 0) >>
        [] decl' # decl /\ stmts' < stmts ->
             << Node("VARIABLE", CHOOSE n \in Name : decl'[n] # decl[n]) >>
        [] decl' = decl /\ stmts' < stmts -> << Node("RETURN", 0) >>
        [] OTHER -> << >>

Add(nodes, kids) == [nodes EXCEPT ![Len(nodes)].kids = @ \o kids]

Remember ==
  tree' = CASE status' = "collapsing" \/ status' = "done" -> tree
            [] status' # "lowering" \/ dropped' -> << >>
            [] Len(ctrl') > Len(ctrl) -> Append(tree, NodeOf(Last(ctrl')))
            [] Len(ctrl') < Len(ctrl) -> Add(Front(tree), << Last(tree) >>)
            [] Len(ctrl') = Len(ctrl) -> Add(tree, Children)

RememberingInit == Init /\ tree = << Node("FBODY", 0) >>

RememberingNext ==
  /\ Next
  /\ stmts' + exprs' + MaxNodes >= MaxStmts + MaxExprs
  /\ Remember

-----------------------------------------------------------------------------
(***************************************************************************)
(* A run, of the program or of its code: the values of the variables, the  *)
(* last value computed, the calls made and what the next ones answer.      *)
(***************************************************************************)

Undefined == -1

Start(env, answers) ==
  [env |-> env, val |-> 0, calls |-> << >>, answers |-> answers,
   steps |-> 0, end |-> "none"]

Running(run) == run.end = "none"

Ends(run, how) == [run EXCEPT !.end = how]

Gives(run, v) == IF ~Running(run) THEN run
                 ELSE IF v = Undefined THEN Ends(run, "undefined")
                 ELSE [run EXCEPT !.val = v]

Sets(run, x) == IF Running(run) THEN [run EXCEPT !.env[x] = run.val] ELSE run

Asks(run, args) ==
  LET called == [run EXCEPT !.calls = Append(@, args)]
  IN  IF ~Running(run) THEN run
      ELSE IF run.answers = << >> THEN Ends(called, "stopped")
      ELSE [called EXCEPT !.val = Head(run.answers),
                          !.answers = Tail(run.answers)]

Tick(run, limit) == IF run.steps = limit THEN Ends(run, "stopped")
                    ELSE [run EXCEPT !.steps = @ + 1]

\* Operators that tell their operands apart.
Apply(op, args) ==
  CASE op = "ARITH" -> (args[1] + 2 * args[2]) % 3
    [] op = "CMP"   -> IF args[1] < args[2] THEN 1 ELSE 0
    [] op = "NOT"   -> 1 - args[1]

-----------------------------------------------------------------------------
(***************************************************************************)
(* The program.                                                            *)
(***************************************************************************)

RECURSIVE Run(_, _)

\* The runs after 0, 1, ... of the nodes.
Runs(nodes, run) ==
  LET after[i \in 0 .. Len(nodes)] ==
        IF i = 0 THEN run ELSE Run(nodes[i], after[i - 1])
  IN  after

RunAll(nodes, run) == Runs(nodes, run)[Len(nodes)]

Evaluated(nodes, run) == [i \in DOMAIN nodes |-> Runs(nodes, run)[i].val]

ThenPart(kids) == SelectInSeq(kids, LAMBDA k : k.op = "ELSE")

Run(node, run) ==
  LET kids  == node.kids
      after == RunAll(kids, run)
      first == Run(kids[1], run)
  IN  CASE ~Running(run) -> run
        [] node.op = "LITERAL" -> Gives(run, node.arg)
        [] node.op = "ID" -> Gives(run, run.env[node.arg])
        [] node.op \in {"ARITH", "CMP", "NOT"} ->
             IF Running(after)
             THEN Gives(after, Apply(node.op, Evaluated(kids, run)))
             ELSE after
        [] node.op = "CALL" ->
             Asks(after, IF Running(after) THEN Evaluated(kids, run)
                           ELSE << >>)
        [] node.op = "AND" ->
             IF first.val = 0 THEN first ELSE Run(kids[2], first)
        [] node.op = "OR" ->
             IF first.val = 1 THEN first ELSE Run(kids[2], first)
        [] node.op = "VARIABLE" -> [run EXCEPT !.env[node.arg] = Undefined]
        [] node.op = "ASSIGN" -> Sets(after, node.arg)
        [] node.op = "RETURN" ->
             IF Running(after) THEN Ends(after, "returned") ELSE after
        [] node.op = "IF" ->
             LET else == ThenPart(kids)
             IN  RunAll(IF first.val = 1 THEN SubSeq(kids, 2, else - 1)
                        ELSE SubSeq(kids, else + 1, Len(kids)), first)
        [] node.op = "WHILE" ->
             IF Running(first) /\ first.val = 1
             THEN Run(node, Tick(RunAll(Tail(kids), first), MaxTests))
             ELSE first
        [] node.op \in {"BLOCK", "FBODY"} -> after

-----------------------------------------------------------------------------
(***************************************************************************)
(* The code: a block is entered from another one, its phis take their      *)
(* values together, and the other instructions run in order.               *)
(***************************************************************************)

Reads(run, operand) ==
  IF operand.kind = "LIT" THEN operand.id ELSE run.env[operand.id]

ReadAll(run, instr) ==
  [i \in DOMAIN instr.args |-> Reads(run, instr.args[i])]

Phis(b) == { i \in DOMAIN blocks[b].code : IsLeadingPhi(blocks[b].code, i) }

\* The value that a phi receives from block `from`.
Received(run, phi, from) ==
  Reads(run, phi.args[CHOOSE i \in DOMAIN phi.args : phi.blks[i] = from])

Enter(run, b, from) ==
  LET code == blocks[b].code
      phis(id) == { i \in Phis(b) : Defines(code[i], id) }
  IN  [run EXCEPT !.env =
         [id \in DOMAIN run.env |->
            IF phis(id) = {} THEN run.env[id]
            ELSE Received(run, code[CHOOSE i \in phis(id) : TRUE], from)]]

RECURSIVE Execute(_, _, _)

\* Block b from its instruction i on.
Execute(run, b, i) ==
  LET instr   == blocks[b].code[i]
      args    == ReadAll(run, instr)
      next(r) == Execute(r, b, i + 1)
      to(c)   == Execute(Tick(Enter(run, c, b), MaxTests * Len(blocks)), c,
                         Cardinality(Phis(c)) + 1)
      stored(r) == IF instr.dest = NoOperand THEN r
                   ELSE Sets(r, instr.dest.id)
  IN  CASE ~Running(run) -> run
        [] i > Len(blocks[b].code) -> Ends(run, "lost")
        [] Undefined \in ToSet(args) -> Ends(run, "undefined")
        [] instr.op = "BR"  -> to(instr.blks[1])
        [] instr.op = "CBR" -> to(instr.blks[IF args[1] = 1 THEN 1 ELSE 2])
        [] instr.op = "RET" ->
             Ends(IF args = << >> THEN run ELSE Gives(run, args[1]),
                  "returned")
        [] instr.op = "COPY" -> next(stored(Gives(run, args[1])))
        [] instr.op = "CALL" -> next(stored(Asks(run, args)))
        [] instr.op \in {"ARITH", "CMP", "NOT"} ->
             next(stored(Gives(run, Apply(instr.op, args))))

-----------------------------------------------------------------------------
\* What can be seen of a run from outside.
Seen(run) == <<run.calls, IF run.end = "none" THEN "returned" ELSE run.end,
               IF run.end = "returned" /\ fn.ret # "VOID" THEN run.val ELSE 0>>

Inputs  == [DOMAIN fn.params -> {0, 1}]
Answers == [1 .. MaxCalls -> {0, 1}]

\* For all arguments of the function and all answers of the functions it
\* calls, the code makes the calls of the program, with the same arguments in
\* the same order, and ends as the program does, with the same value: the
\* bindings that are saved, restored, merged and completed around branches,
\* loops and connectives, and the phis that are removed, carry each value to
\* where it is read.  A program that reads a variable before it has a value
\* has no meaning to compare with.
MeaningPreserved ==
  status = "done" /\ ~dropped =>
    \A input \in Inputs, answers \in Answers :
      LET env  == [n \in Name |-> IF n \in ParamNames(fn)
                                  THEN input[ParamIndex(fn, n)]
                                  ELSE Undefined]
          regs == [id \in DOMAIN values |-> IF IsParam(id) THEN input[id]
                                            ELSE Undefined]
          source == Run(tree[1], Start(env, answers))
          code   == Execute(Start(regs, answers), 1, 1)
      IN  source.end = "undefined" \/ Seen(source) = Seen(code)

RememberingSpec ==
  RememberingInit /\ [][RememberingNext]_<<vars, tree>>
  /\ WF_<<vars, tree>>(RememberingNext)
=============================================================================
