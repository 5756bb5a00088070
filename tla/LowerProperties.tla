--------------------------- MODULE LowerProperties ---------------------------
(***************************************************************************)
(* What the lowering of a function must keep true, and what it does not    *)
(* keep.  The order of the parts: types, safety, liveness, broken promises.*)
(***************************************************************************)
EXTENDS Lower

-----------------------------------------------------------------------------
(***************************************************************************)
(* Types.                                                                  *)
(***************************************************************************)

\* Snapshots of the bindings of a function with n values.
Snapshot(n) == [AllName -> 0 .. n]

\* What emit_if keeps of one branch, with m blocks.
BranchEnd(n, m) ==
  [bound : Snapshot(n), end : 1 .. m, reaches : BOOLEAN, rets : BOOLEAN]

Destination(n) == {NoOperand} \cup ValueOperand(n)

\* What a call waits for when it needs one operand, and when it needs two.
OneType  == { <<t>> : t \in Type }
TwoTypes == { <<t, u>> : t, u \in Type }

\* The activations that may be on the stack when there are n values, m blocks
\* and k names.  A header is followed by the body and the exit of its loop.
ListFrame == [kind : {"FBODY", "BLOCK"}, rets : BOOLEAN]

AssignFrame(n) ==
  [kind : {"ASSIGN"}, name : Name, dest : ValueOperand(n), wants : OneType,
   args : Seq(Operand(n))]

ValueFrame(n) ==
  [kind : {"RETURN", "IFCOND"}, wants : OneType, args : Seq(Operand(n))]

WhileFrame(n, m) ==
  [kind : {"WHILECOND"}, wants : OneType, args : Seq(Operand(n)),
   incoming : Snapshot(n), header : 1 .. m - 2]

BinaryFrame(n) ==
  [kind : {"BINARY"}, op : {"ARITH", "CMP"}, wants : TwoTypes,
   args : Seq(Operand(n)), target : Destination(n)]

NotFrame(n) ==
  [kind : {"NOT"}, wants : OneType, args : Seq(Operand(n)),
   target : Destination(n)]

CallFrame(n) ==
  [kind : {"CALL"}, ret : Type, wants : Seq(Type), args : Seq(Operand(n)),
   target : Destination(n)]

LeftFrame(n) ==
  [kind : {"LEFT"}, wants : OneType, args : Seq(Operand(n)),
   target : Destination(n), isOr : BOOLEAN]

RightFrame(n, m) ==
  [kind : {"RIGHT"}, wants : OneType, args : Seq(Operand(n)),
   target : Destination(n), isOr : BOOLEAN, decision : 1 .. m,
   merge : 1 .. m]

ThenFrame(n, m, k) ==
  [kind : {"THEN"}, rets : BOOLEAN, incoming : Snapshot(n), count : 0 .. k,
   else : 1 .. m, merge : 1 .. m]

ElseFrame(n, m, k) ==
  [kind : {"ELSE", "NOELSE"}, rets : BOOLEAN, incoming : Snapshot(n),
   count : 0 .. k, merge : 1 .. m, then : BranchEnd(n, m)]

MergeFrame(n, m, k) ==
  [kind : {"MERGE"}, k : Nat \ {0}, count : 0 .. k, incoming : Snapshot(n),
   then : BranchEnd(n, m), else : BranchEnd(n, m)]

HeaderFrame(n, m, k) ==
  [kind : {"HEADER"}, k : Nat \ {0}, count : 0 .. k, incoming : Snapshot(n),
   pre : 1 .. m, header : 1 .. m - 2]

LoopFrame(n, m) ==
  [kind : {"LOOP"}, rets : BOOLEAN, incoming : Snapshot(n),
   bound : Snapshot(n), header : 1 .. m - 2]

Frame(n, m, k) ==
  ListFrame \cup AssignFrame(n) \cup ValueFrame(n) \cup WhileFrame(n, m)
  \cup BinaryFrame(n) \cup NotFrame(n) \cup CallFrame(n) \cup LeftFrame(n)
  \cup RightFrame(n, m) \cup ThenFrame(n, m, k) \cup ElseFrame(n, m, k)
  \cup MergeFrame(n, m, k) \cup HeaderFrame(n, m, k) \cup LoopFrame(n, m)

Values == Seq([name : AllName, version : Nat, type : Type])

\* The activations nest like the C functions call each other: statements are
\* called by statement lists, operands by whoever waits for one, and
\* emit_function is at the bottom.
OperandKind   == {"BINARY", "NOT", "LEFT", "RIGHT"}
StatementKind == {"BLOCK", "ASSIGN", "RETURN", "IFCOND", "WHILECOND", "THEN",
                  "ELSE", "NOELSE", "MERGE", "HEADER", "LOOP"}

Calls(caller, kind) ==
  \/ kind \in OperandKind   /\ caller \in ExprKind
  \/ kind \in StatementKind /\ caller \in ListKind
  \/ kind = "CALL"          /\ caller \in ListKind \cup ExprKind

Nested(stack) ==
  /\ stack # << >>
  /\ stack[1].kind = "FBODY"
  /\ \A i \in 2 .. Len(stack) : Calls(stack[i - 1].kind, stack[i].kind)

IRType ==
  /\ blocks \in Seq(Block(Len(values), Len(blocks)))
  /\ cur \in 1 .. Len(blocks)

NamesType ==
  /\ values \in Values
  /\ names \in Seq(AllName)
  /\ nextVersion \in [AllName -> Nat]
  /\ bindings \in Snapshot(Len(values))

StackType ==
  /\ ctrl \in Seq(Frame(Len(values), Len(blocks), Len(names)))
  /\ Nested(ctrl)

RestType ==
  /\ fn \in Headers
  /\ decl \in [Name -> [type : Type, init : BOOLEAN]]
  /\ scopes \in Seq(SUBSET Name)
  /\ status \in Status
  /\ dropped \in BOOLEAN
  /\ cursor \in [block : Nat \ {0}, index : Nat \ {0}, changed : BOOLEAN]
  /\ stmts \in Nat /\ exprs \in Nat

\* Every variable has its type, and nothing dangles: every operand, binding
\* and snapshot refers to a value that exists, every edge, phi and activation
\* to a block that exists, every loop over names stays inside the names, and
\* every activation has a caller that can take its result.
TypeOK == IRType /\ NamesType /\ StackType /\ RestType

-----------------------------------------------------------------------------
(***************************************************************************)
(* Safety: what holds of the function body while it is built, while phis   *)
(* are removed, and when it is printed.                                    *)
(***************************************************************************)

\* No two values of a function share a name and a version, so that the
\* printed names %x.0, %x.1, %tmp.0 identify the values; a variable of the
\* program may itself be called tmp.
VersionsUnique ==
  \A i, j \in DOMAIN values :
    /\ values[i].name = values[j].name
    /\ values[i].version = values[j].version
    => i = j

IsParam(id) == id \in DOMAIN fn.params

\* The operands of the instruction at pos that are values.
UsesAt(pos) == { j \in DOMAIN At(blocks, pos).args :
                   At(blocks, pos).args[j].kind = "VALUE" }

\* Every value is assigned once: a parameter is defined by no instruction,
\* another value by at most one, and one that is used by exactly one.  This
\* holds in the middle of nested assignments, branches and loops, and after
\* each removal of a phi.
SingleAssignment ==
  /\ \A id \in DOMAIN values :
       Cardinality(DefSites(blocks, id)) <= IF IsParam(id) THEN 0 ELSE 1
  /\ \A use \in Positions(blocks) : \A j \in UsesAt(use) :
       LET id == At(blocks, use).args[j].id
       IN  IsParam(id) \/ DefSites(blocks, id) # {}

\* In the code that control can reach, every use of a value is dominated by
\* its definition, whatever branches, loops and connectives lie between, and
\* still after collapse_degenerate_phis moved uses to another value.
DefDominatesUse ==
  LET reachable == Reachable(blocks)
      avoiding  == [d \in DOMAIN blocks |-> ReachableAvoiding(blocks, d)]
      dominates(d, b) == b \notin avoiding[d]
      defined(pos, use, j) ==
        LET instr == At(blocks, use)
        IN  IF instr.op = "PHI" THEN dominates(pos[1], instr.blks[j])
            ELSE IF pos[1] = use[1] THEN pos[2] < use[2]
            ELSE dominates(pos[1], use[1])
  IN  \A use \in { p \in Positions(blocks) : p[1] \in reachable } :
        \A j \in UsesAt(use) :
          LET id == At(blocks, use).args[j].id
          IN  \/ IsParam(id)
              \/ \E pos \in DefSites(blocks, id) : defined(pos, use, j)

\* The phis of a block come first and have one incoming value for each
\* predecessor of the block, in the order of the edges: the two ends of a
\* conditional, the two ways into the merge of a connective, and for a loop
\* header the second one only when the body branches back.
PhisMatchPredecessors ==
  \A pos \in Positions(blocks) :
    LET instr == At(blocks, pos)
    IN  instr.op = "PHI" =>
          /\ IsLeadingPhi(blocks[pos[1]].code, pos[2])
          /\ instr.blks = blocks[pos[1]].pred
          /\ Len(instr.args) = Len(instr.blks)

Occurrences(s, x) == Cardinality({ i \in DOMAIN s : s[i] = x })

\* The edges are recorded alike at both ends, and they are the targets of the
\* branch that ends the block; no instruction follows a branch or a return,
\* although append_instruction would allow it.
ControlFlowConsistent ==
  /\ \A a, b \in DOMAIN blocks :
       Occurrences(blocks[a].succ, b) = Occurrences(blocks[b].pred, a)
  /\ \A b \in DOMAIN blocks :
       LET code == blocks[b].code
       IN  /\ \A i \in 1 .. Len(code) - 1 : code[i].op \notin Terminator
           /\ IF code # << >> /\ Last(code).op \in {"BR", "CBR"}
              THEN blocks[b].succ = Last(code).blks
              ELSE blocks[b].succ = << >>

\* The body of a function whose lowering succeeded is complete: every block
\* ends in a branch or in a return.  A node skipped without an error breaks
\* it, so the claim is about lowering that skipped none.
EveryBlockEnds ==
  status \in {"collapsing", "done"} /\ ~dropped =>
    \A b \in DOMAIN blocks :
      blocks[b].code # << >> /\ Last(blocks[b].code).op \in Terminator

\* After collapse_degenerate_phis no phi is left that its own definition of
\* degenerate would remove.
NoDegeneratePhi ==
  status = "done" =>
    \A pos \in Positions(blocks) :
      At(blocks, pos).op = "PHI" => ~PhiCollapses(At(blocks, pos))

\* An initialised local variable that the analysis lets a statement read is
\* bound to a value, so only globals reach the error "no SSA value".
InitialisedIsBound ==
  status = "lowering" =>
    \A n \in Name :
      Visible(n) /\ decl[n].init /\ (\A g \in Globals : g.name # n)
        => bindings[n] # Invalid

\* When every name has one type in all its declarations, the value bound to
\* a visible variable has the variable's type, no matter which scopes were
\* left and which bindings restored.
OneTypePerName == \A n \in Name : Cardinality(DeclTypes[n]) = 1

BindingTypesMatch ==
  OneTypePerName => \A n \in Name :
    Visible(n) /\ bindings[n] # Invalid => values[bindings[n]].type = decl[n].type

ArgsHaveType(instr, t) == \A j \in DOMAIN instr.args : instr.args[j].type = t

\* Under the same condition the code is typed: phis and copies join values of
\* the type of their destination, operators and branches get what they need.
CodeIsTyped ==
  OneTypePerName =>
    \A pos \in Positions(blocks) :
      LET instr == At(blocks, pos)
      IN  /\ \A j \in UsesAt(pos) :
               instr.args[j].type = values[instr.args[j].id].type
          /\ instr.op \in {"PHI", "COPY", "ARITH", "NOT"} =>
               ArgsHaveType(instr, instr.dest.type)
          /\ instr.op = "CMP" => /\ instr.dest.type = "BOOL"
                                 /\ instr.args[1].type = instr.args[2].type
          /\ instr.op = "CBR" => ArgsHaveType(instr, "BOOL")
          /\ instr.op = "RET" /\ fn.ret # "VOID" =>
               ArgsHaveType(instr, fn.ret)

\* definitely_returns of the analysis is sound for the control flow that
\* lowering builds: after statements that definitely return, the current
\* block has ended or cannot be reached.
ReturnsIsSound ==
  InList /\ Top.rets /\ ~dropped =>
    blocks[cur].terminated \/ cur \notin Reachable(blocks)

-----------------------------------------------------------------------------
(***************************************************************************)
(* Liveness.                                                               *)
(***************************************************************************)

Ended == status \notin {"lowering", "collapsing"}

\* Lowering and the passes of collapse_degenerate_phis end.
LoweringEnds == <>Ended

-----------------------------------------------------------------------------
(***************************************************************************)
(* What include/ssair.h promises, "Lowers a semantically validated         *)
(* program", and the code does not keep.                                   *)
(***************************************************************************)

\* A function that the analysis accepted because both branches of an if
\* return is not refused for want of a return instruction.
AcceptedReturnsAreLowered == status # NoReturn

\* A variable that was declared without a value can be assigned later.
DeclaredIsAssignable == status # UnboundAssignment

\* No statement of an accepted program is left out of the code in silence.
NothingDropped == ~dropped
=============================================================================
