----------------------------- MODULE LowerProofs -----------------------------
(***************************************************************************)
(* Type correctness of the lowering, and the consistency of the control    *)
(* flow it builds.                                                         *)
(*                                                                         *)
(* First the lemmas: what exists keeps its type when values, blocks and    *)
(* names are added, what the operators of SsaIR return, and what a step    *)
(* does to the stack of activations.  Block numbers are passed to the      *)
(* lemmas about branches as subsets of 1 .. Len(bs), which the provers     *)
(* instantiate more easily than a member.                                  *)
(*                                                                         *)
(* Then one lemma for each action: it types the tables, then the stack,    *)
(* then the rest, and TypeFromParts puts them together.                    *)
(*                                                                         *)
(* Last the control flow: the inductive invariant FlowInv, what the        *)
(* operators of SsaIR do to a block, and what a step of the lowering does  *)
(* to the blocks that wait to be filled; then FlowInv holds at first and   *)
(* every step keeps it.                                                    *)
(***************************************************************************)
EXTENDS LowerProperties, FiniteSetTheorems, TLAPS

-----------------------------------------------------------------------------
\* An operand stays one when values are added.
LEMMA OperandGrows ==
  ASSUME NEW n \in Nat, NEW p \in Nat, n <= p
  PROVE  Operand(n) \subseteq Operand(p) /\ ValueOperand(n) \subseteq ValueOperand(p)
BY DEF Operand, ValueOperand

\* Sequences over a set are sequences over a larger one.
LEMMA SeqGrows ==
  ASSUME NEW S, NEW T, S \subseteq T
  PROVE  Seq(S) \subseteq Seq(T)
OBVIOUS

\* An instruction stays one when values and blocks are added.
LEMMA InstrGrows ==
  ASSUME NEW n \in Nat, NEW p \in Nat, NEW m \in Nat, NEW q \in Nat,
         n <= p, m <= q
  PROVE  Instr(n, m) \subseteq Instr(p, q)
<1>1. Seq(Operand(n)) \subseteq Seq(Operand(p))
  BY OperandGrows, SeqGrows
<1>2. Seq(1 .. m) \subseteq Seq(1 .. q)
  BY SeqGrows
<1>3. QED
  BY <1>1, <1>2, OperandGrows DEF Instr

\* A block stays one when values and blocks are added.
LEMMA BlockGrows ==
  ASSUME NEW n \in Nat, NEW p \in Nat, NEW m \in Nat, NEW q \in Nat,
         n <= p, m <= q
  PROVE  Block(n, m) \subseteq Block(p, q)
<1>1. Seq(Instr(n, m)) \subseteq Seq(Instr(p, q))
  BY InstrGrows, SeqGrows
<1>2. Seq(1 .. m) \subseteq Seq(1 .. q)
  BY SeqGrows
<1>3. QED
  BY <1>1, <1>2 DEF Block

\* A snapshot of the bindings stays one when values are added.
LEMMA SnapshotGrows ==
  ASSUME NEW n \in Nat, NEW p \in Nat, n <= p
  PROVE  Snapshot(n) \subseteq Snapshot(p)
BY DEF Snapshot

\* An activation stays one when values, blocks and names are added.
LEMMA FrameGrows ==
  ASSUME NEW n \in Nat, NEW p \in Nat, NEW m \in Nat, NEW q \in Nat,
         NEW k \in Nat, NEW l \in Nat, n <= p, m <= q, k <= l
  PROVE  Frame(n, m, k) \subseteq Frame(p, q, l)
<1>1. Seq(Operand(n)) \subseteq Seq(Operand(p))
  BY OperandGrows, SeqGrows
<1>2. /\ Snapshot(n) \subseteq Snapshot(p)
      /\ ValueOperand(n) \subseteq ValueOperand(p)
      /\ Destination(n) \subseteq Destination(p)
  BY SnapshotGrows, OperandGrows DEF Destination
<1>3. BranchEnd(n, m) \subseteq BranchEnd(p, q)
  BY <1>2 DEF BranchEnd
<1>4. 1 .. m \subseteq 1 .. q /\ 1 .. m - 2 \subseteq 1 .. q - 2
      /\ 0 .. k \subseteq 0 .. l
  OBVIOUS
<1>5. /\ AssignFrame(n) \subseteq AssignFrame(p)
      /\ ValueFrame(n) \subseteq ValueFrame(p)
      /\ WhileFrame(n, m) \subseteq WhileFrame(p, q)
      /\ BinaryFrame(n) \subseteq BinaryFrame(p)
      /\ NotFrame(n) \subseteq NotFrame(p)
      /\ CallFrame(n) \subseteq CallFrame(p)
      /\ LeftFrame(n) \subseteq LeftFrame(p)
      /\ RightFrame(n, m) \subseteq RightFrame(p, q)
  BY <1>1, <1>2, <1>4
  DEF AssignFrame, ValueFrame, WhileFrame, BinaryFrame, NotFrame, CallFrame,
      LeftFrame, RightFrame
<1>6. /\ ThenFrame(n, m, k) \subseteq ThenFrame(p, q, l)
      /\ ElseFrame(n, m, k) \subseteq ElseFrame(p, q, l)
      /\ MergeFrame(n, m, k) \subseteq MergeFrame(p, q, l)
      /\ HeaderFrame(n, m, k) \subseteq HeaderFrame(p, q, l)
      /\ LoopFrame(n, m) \subseteq LoopFrame(p, q)
  BY <1>2, <1>3, <1>4
  DEF ThenFrame, ElseFrame, MergeFrame, HeaderFrame, LoopFrame
<1>7. QED
  BY <1>5, <1>6 DEF Frame

-----------------------------------------------------------------------------
\* append_instruction keeps the code typed and adds no block.
LEMMA EmitType ==
  ASSUME NEW n \in Nat, NEW m \in Nat, NEW bs \in Seq(Block(n, m)),
         NEW b \in 1 .. Len(bs), NEW instr \in Instr(n, m)
  PROVE  /\ Emit(bs, b, instr) \in Seq(Block(n, m))
         /\ Len(Emit(bs, b, instr)) = Len(bs)
<1>1. bs[b] \in Block(n, m)
  OBVIOUS
<1>2. Append(bs[b].code, instr) \in Seq(Instr(n, m))
  BY <1>1 DEF Block
<1>3. [bs[b] EXCEPT !.code = Append(bs[b].code, instr)] \in Block(n, m)
  BY <1>1, <1>2 DEF Block
<1>4. QED
  BY <1>3 DEF Emit

\* link_blocks keeps the code typed and adds no block.
LEMMA LinkType ==
  ASSUME NEW n \in Nat, NEW m \in Nat, NEW bs \in Seq(Block(n, m)),
         NEW a \in 1 .. Len(bs), NEW b \in 1 .. Len(bs), Len(bs) <= m
  PROVE  /\ Link(bs, a, b) \in Seq(Block(n, m))
         /\ Len(Link(bs, a, b)) = Len(bs)
<1> DEFINE linked == [bs EXCEPT ![a].succ = Append(@, b)]
<1>1. [bs[a] EXCEPT !.succ = Append(bs[a].succ, b)] \in Block(n, m)
  <2>1. bs[a] \in Block(n, m) /\ b \in 1 .. m
    OBVIOUS
  <2>2. Append(bs[a].succ, b) \in Seq(1 .. m)
    BY <2>1 DEF Block
  <2>3. QED
    BY <2>1, <2>2 DEF Block
<1>2. linked \in Seq(Block(n, m)) /\ Len(linked) = Len(bs)
  BY <1>1
<1> HIDE DEF linked
<1>3. [linked[b] EXCEPT !.pred = Append(linked[b].pred, a)] \in Block(n, m)
  <2>1. linked[b] \in Block(n, m) /\ a \in 1 .. m
    BY <1>2
  <2>2. Append(linked[b].pred, a) \in Seq(1 .. m)
    BY <2>1 DEF Block
  <2>3. QED
    BY <2>1, <2>2 DEF Block
<1>4. Link(bs, a, b) = [linked EXCEPT ![b].pred = Append(@, a)]
  BY DEF Link, linked
<1>5. QED
  BY <1>2, <1>3, <1>4

\* Marking a block as terminated keeps the code typed.
LEMMA TerminateType ==
  ASSUME NEW n \in Nat, NEW m \in Nat, NEW bs \in Seq(Block(n, m)),
         NEW b \in 1 .. Len(bs)
  PROVE  /\ Terminate(bs, b) \in Seq(Block(n, m))
         /\ Len(Terminate(bs, b)) = Len(bs)
<1>1. bs[b] \in Block(n, m)
  OBVIOUS
<1>2. [bs[b] EXCEPT !.terminated = TRUE] \in Block(n, m)
  BY <1>1 DEF Block
<1>3. QED
  BY <1>2 DEF Terminate

\* none_operand is an operand of every function.
LEMMA NoOperandType == \A n \in Nat : NoOperand \in Operand(n)
BY DEF NoOperand, Operand, Type

\* emit_branch keeps the code typed and adds no block.
LEMMA BranchType ==
  ASSUME NEW n \in Nat, NEW m \in Nat, NEW bs \in Seq(Block(n, m)),
         NEW b, NEW target, {b, target} \subseteq 1 .. Len(bs), Len(bs) <= m
  PROVE  /\ Branch(bs, b, target) \in Seq(Block(n, m))
         /\ Len(Branch(bs, b, target)) = Len(bs)
<1> DEFINE br == [op |-> "BR", dest |-> NoOperand, args |-> << >>,
                  blks |-> <<target>>]
<1>1. br \in Instr(n, m)
  BY NoOperandType DEF Instr, Opcode
<1>2. QED
  BY <1>1, EmitType, LinkType, TerminateType DEF Branch

\* emit_conditional_branch keeps the code typed and adds no block.
LEMMA CondBranchType ==
  ASSUME NEW n \in Nat, NEW m \in Nat, NEW bs \in Seq(Block(n, m)),
         NEW b, NEW t, NEW e, {b, t, e} \subseteq 1 .. Len(bs),
         NEW cond \in Operand(n), Len(bs) <= m
  PROVE  /\ CondBranch(bs, b, cond, t, e) \in Seq(Block(n, m))
         /\ Len(CondBranch(bs, b, cond, t, e)) = Len(bs)
<1> DEFINE cbr == [op |-> "CBR", dest |-> NoOperand, args |-> <<cond>>,
                   blks |-> <<t, e>>]
<1> DEFINE emitted == Emit(bs, b, cbr)
<1>1. cbr \in Instr(n, m)
  BY NoOperandType DEF Instr, Opcode
<1> HIDE DEF cbr
<1>2. emitted \in Seq(Block(n, m)) /\ Len(emitted) = Len(bs)
  BY <1>1, EmitType
<1> HIDE DEF emitted
<1>3. /\ Link(emitted, b, t) \in Seq(Block(n, m))
      /\ Len(Link(emitted, b, t)) = Len(bs)
  BY <1>2, LinkType
<1>4. /\ Link(Link(emitted, b, t), b, e) \in Seq(Block(n, m))
      /\ Len(Link(Link(emitted, b, t), b, e)) = Len(bs)
  BY <1>3, LinkType
<1>5. QED
  BY <1>4, TerminateType DEF CondBranch, emitted, cbr

\* create_block makes a block of every function.
LEMMA NewBlockType == \A n, m \in Nat : NewBlock \in Block(n, m)
BY DEF NewBlock, Block

\* The blocks that emit_if, emit_while and the connectives append.
LEMMA NewBlocksType ==
  ASSUME NEW n \in Nat, NEW m \in Nat, NEW bs \in Seq(Block(n, m))
  PROVE  /\ bs \o <<NewBlock, NewBlock>> \in Seq(Block(n, m + 2))
         /\ Len(bs \o <<NewBlock, NewBlock>>) = Len(bs) + 2
         /\ bs \o <<NewBlock, NewBlock, NewBlock>> \in Seq(Block(n, m + 3))
         /\ Len(bs \o <<NewBlock, NewBlock, NewBlock>>) = Len(bs) + 3
<1>1. bs \in Seq(Block(n, m + 2)) /\ bs \in Seq(Block(n, m + 3))
  BY BlockGrows, SeqGrows
<1>2. NewBlock \in Block(n, m + 2) /\ NewBlock \in Block(n, m + 3)
  BY NewBlockType
<1>3. QED
  BY <1>1, <1>2

-----------------------------------------------------------------------------
\* The kind of an activation tells its fields.
LEMMA FrameByKind ==
  ASSUME NEW n \in Nat, NEW m \in Nat, NEW k \in Nat,
         NEW f \in Frame(n, m, k)
  PROVE  /\ f.kind \in {"FBODY", "BLOCK"} => f \in ListFrame
         /\ f.kind = "ASSIGN" => f \in AssignFrame(n)
         /\ f.kind \in {"RETURN", "IFCOND"} => f \in ValueFrame(n)
         /\ f.kind = "WHILECOND" => f \in WhileFrame(n, m)
         /\ f.kind = "BINARY" => f \in BinaryFrame(n)
         /\ f.kind = "NOT" => f \in NotFrame(n)
         /\ f.kind = "CALL" => f \in CallFrame(n)
         /\ f.kind = "LEFT" => f \in LeftFrame(n)
         /\ f.kind = "RIGHT" => f \in RightFrame(n, m)
         /\ f.kind = "THEN" => f \in ThenFrame(n, m, k)
         /\ f.kind \in {"ELSE", "NOELSE"} => f \in ElseFrame(n, m, k)
         /\ f.kind = "MERGE" => f \in MergeFrame(n, m, k)
         /\ f.kind = "HEADER" => f \in HeaderFrame(n, m, k)
         /\ f.kind = "LOOP" => f \in LoopFrame(n, m)
BY DEF Frame, ListFrame, AssignFrame, ValueFrame, WhileFrame, BinaryFrame,
       NotFrame, CallFrame, LeftFrame, RightFrame, ThenFrame, ElseFrame,
       MergeFrame, HeaderFrame, LoopFrame

\* An activation that waits for operands can receive one.
LEMMA ReceiveType ==
  ASSUME NEW n \in Nat, NEW m \in Nat, NEW k \in Nat,
         NEW f \in Frame(n, m, k), f.kind \in ExprKind, NEW o \in Operand(n),
         NEW g, g = [f EXCEPT !.args = Append(f.args, o)]
  PROVE  g \in Frame(n, m, k) /\ g.kind = f.kind
<1>1. f.args \in Seq(Operand(n)) => Append(f.args, o) \in Seq(Operand(n))
  OBVIOUS
<1>2. CASE f.kind = "ASSIGN"
  <2>1. f \in AssignFrame(n)
    BY <1>2, FrameByKind
  <2>2. g \in AssignFrame(n) /\ g.kind = f.kind
    BY <2>1, <1>1 DEF AssignFrame
  <2>3. QED
    BY <2>2 DEF Frame
<1>3. CASE f.kind \in {"RETURN", "IFCOND"}
  <2>1. f \in ValueFrame(n)
    BY <1>3, FrameByKind
  <2>2. g \in ValueFrame(n) /\ g.kind = f.kind
    BY <2>1, <1>1 DEF ValueFrame
  <2>3. QED
    BY <2>2 DEF Frame
<1>4. CASE f.kind = "WHILECOND"
  <2>1. f \in WhileFrame(n, m)
    BY <1>4, FrameByKind
  <2>2. g \in WhileFrame(n, m) /\ g.kind = f.kind
    BY <2>1, <1>1 DEF WhileFrame
  <2>3. QED
    BY <2>2 DEF Frame
<1>5. CASE f.kind \in {"BINARY", "NOT", "CALL"}
  <2>1. f \in BinaryFrame(n) \cup NotFrame(n) \cup CallFrame(n)
    BY <1>5, FrameByKind
  <2>2. /\ g \in BinaryFrame(n) \cup NotFrame(n) \cup CallFrame(n)
        /\ g.kind = f.kind
    BY <2>1, <1>1 DEF BinaryFrame, NotFrame, CallFrame
  <2>3. QED
    BY <2>2 DEF Frame
<1>6. CASE f.kind \in {"LEFT", "RIGHT"}
  <2>1. f \in LeftFrame(n) \cup RightFrame(n, m)
    BY <1>6, FrameByKind
  <2>2. g \in LeftFrame(n) \cup RightFrame(n, m) /\ g.kind = f.kind
    BY <2>1, <1>1 DEF LeftFrame, RightFrame
  <2>3. QED
    BY <2>2 DEF Frame
<1>7. QED
  BY <1>2, <1>3, <1>4, <1>5, <1>6 DEF ExprKind

\* A statement list can learn that one of its statements returns.
LEMMA RetsType ==
  ASSUME NEW n \in Nat, NEW m \in Nat, NEW k \in Nat,
         NEW f \in Frame(n, m, k), f.kind \in ListKind,
         NEW g, g.rets \in BOOLEAN, g = [f EXCEPT !.rets = g.rets]
  PROVE  g \in Frame(n, m, k) /\ g.kind = f.kind
<1>1. f \in ListFrame \cup ThenFrame(n, m, k) \cup ElseFrame(n, m, k)
              \cup LoopFrame(n, m)
  BY FrameByKind DEF ListKind
<1>2. /\ g \in ListFrame \cup ThenFrame(n, m, k) \cup ElseFrame(n, m, k)
               \cup LoopFrame(n, m)
      /\ g.kind = f.kind
  BY <1>1 DEF ListFrame, ThenFrame, ElseFrame, LoopFrame
<1>3. QED
  BY <1>2 DEF Frame

\* Only activations that walk a list need to know whether it returns.
LEMMA RetsField ==
  ASSUME NEW n \in Nat, NEW m \in Nat, NEW k \in Nat,
         NEW f \in Frame(n, m, k), f.kind \in ListKind
  PROVE  "rets" \in DOMAIN f
BY FrameByKind
DEF ListKind, ListFrame, ThenFrame, ElseFrame, LoopFrame

\* What a statement list knows of its statements is a truth value.
LEMMA RetsIsBoolean ==
  ASSUME NEW n \in Nat, NEW m \in Nat, NEW k \in Nat,
         NEW f \in Frame(n, m, k), f.kind \in ListKind
  PROVE  f.rets \in BOOLEAN
BY FrameByKind
DEF ListKind, ListFrame, ThenFrame, ElseFrame, LoopFrame

-----------------------------------------------------------------------------
\* Stacks of activations c with frames in F.
LEMMA CallerKinds ==
  \A x, kind : Calls(x, kind) => kind # "FBODY"
BY DEF Calls, OperandKind, StatementKind

\* An activation other than that of emit_function has a caller.
LEMMA TopNotBottom ==
  ASSUME NEW F, NEW c \in Seq(F), Nested(c), c[Len(c)].kind # "FBODY"
  PROVE  /\ Len(c) \in Nat /\ Len(c) >= 2
         /\ c[Len(c) - 1] \in F
         /\ Calls(c[Len(c) - 1].kind, c[Len(c)].kind)
BY DEF Nested

\* A call by an activation that may make it keeps the stack nested.
LEMMA PushNested ==
  ASSUME NEW F, NEW c \in Seq(F), Nested(c), NEW f \in F,
         Calls(c[Len(c)].kind, f.kind)
  PROVE  Append(c, f) \in Seq(F) /\ Nested(Append(c, f))
<1>1. Len(c) \in Nat \ {0}
  BY DEF Nested
<1>2. QED
  BY <1>1 DEF Nested

\* The end of a call keeps the stack nested.
LEMMA PopNested ==
  ASSUME NEW F, NEW c \in Seq(F), Nested(c), c[Len(c)].kind # "FBODY"
  PROVE  /\ Front(c) \in Seq(F) /\ Nested(Front(c))
         /\ Len(Front(c)) = Len(c) - 1
         /\ \A i \in 1 .. Len(c) - 1 : Front(c)[i] = c[i]
<1>1. Len(c) \in Nat /\ Len(c) >= 2
  BY TopNotBottom
<1> DEFINE fc == Front(c)
<1>2. /\ fc \in Seq(F) /\ Len(fc) = Len(c) - 1
      /\ \A i \in 1 .. Len(c) - 1 : fc[i] = c[i]
  BY <1>1 DEF Front
<1> HIDE DEF fc
<1>3. fc # << >> /\ fc[1].kind = "FBODY"
  BY <1>1, <1>2 DEF Nested
<1>4. ASSUME NEW i \in 2 .. Len(fc)
      PROVE  Calls(fc[i - 1].kind, fc[i].kind)
  <2>1. i \in 2 .. Len(c) /\ fc[i - 1] = c[i - 1] /\ fc[i] = c[i]
    BY <1>1, <1>2
  <2>2. QED
    BY <2>1 DEF Nested
<1>5. Nested(fc)
  BY <1>3, <1>4 DEF Nested
<1>6. QED
  BY <1>2, <1>5 DEF fc

\* Replacing an activation by one that has the same callers.
LEMMA ReplaceNested ==
  ASSUME NEW F, NEW c \in Seq(F), Nested(c), NEW f \in F,
         c[Len(c)].kind # "FBODY",
         Calls(c[Len(c) - 1].kind, f.kind)
  PROVE  /\ [c EXCEPT ![Len(c)] = f] \in Seq(F)
         /\ Nested([c EXCEPT ![Len(c)] = f])
<1>1. Len(c) \in Nat /\ Len(c) >= 2
  BY TopNotBottom
<1>2. QED
  BY <1>1 DEF Nested

\* Changing an activation but not its kind.
LEMMA UpdateNested ==
  ASSUME NEW F, NEW c \in Seq(F), Nested(c), NEW i \in 1 .. Len(c),
         NEW f \in F, f.kind = c[i].kind
  PROVE  [c EXCEPT ![i] = f] \in Seq(F) /\ Nested([c EXCEPT ![i] = f])
BY DEF Nested

-----------------------------------------------------------------------------
\* What the steps do to the stack.

\* The top of the stack is an activation.
LEMMA TopFrame ==
  ASSUME NEW F, NEW c \in Seq(F), Nested(c)
  PROVE  Len(c) \in Nat \ {0} /\ Last(c) = c[Len(c)] /\ Last(c) \in F
BY DEF Nested, Last

\* Only emit_function has no caller; a statement has a list as its caller,
\* an operand somebody who waits for it.
LEMMA CallerOf ==
  ASSUME NEW F, NEW c \in Seq(F), Nested(c)
  PROVE  /\ c[Len(c)].kind \in StatementKind =>
              /\ Len(c) >= 2 /\ c[Len(c) - 1].kind \in ListKind
         /\ c[Len(c)].kind \in OperandKind =>
              /\ Len(c) >= 2 /\ c[Len(c) - 1].kind \in ExprKind
         /\ c[Len(c)].kind = "CALL" =>
              /\ Len(c) >= 2
              /\ c[Len(c) - 1].kind \in ListKind \cup ExprKind
<1>1. CASE c[Len(c)].kind = "FBODY"
  BY <1>1 DEF StatementKind, OperandKind
<1>2. CASE c[Len(c)].kind # "FBODY"
  <2>1. Len(c) >= 2 /\ Calls(c[Len(c) - 1].kind, c[Len(c)].kind)
    BY <1>2, TopNotBottom
  <2>2. QED
    BY <2>1 DEF Calls, StatementKind, OperandKind
<1>3. QED
  BY <1>1, <1>2

\* The innermost call takes an operand.
LEMMA ReceiveNested ==
  ASSUME NEW n \in Nat, NEW m \in Nat, NEW k \in Nat,
         NEW c \in Seq(Frame(n, m, k)), Nested(c), NEW o \in Operand(n),
         c[Len(c)].kind \in ExprKind
  PROVE  /\ [c EXCEPT ![Len(c)].args = Append(@, o)] \in Seq(Frame(n, m, k))
         /\ Nested([c EXCEPT ![Len(c)].args = Append(@, o)])
<1> DEFINE top == c[Len(c)]
           f   == [top EXCEPT !.args = Append(top.args, o)]
<1>1. /\ Len(c) \in 1 .. Len(c)
      /\ top \in Frame(n, m, k) /\ top.kind \in ExprKind
  BY TopFrame
<1>2. [c EXCEPT ![Len(c)].args = Append(@, o)] = [c EXCEPT ![Len(c)] = f]
  OBVIOUS
<1>3. f = [top EXCEPT !.args = Append(top.args, o)]
  OBVIOUS
<1> HIDE DEF f, top
<1>4. f \in Frame(n, m, k) /\ f.kind = top.kind
  BY <1>1, <1>3, ReceiveType
<1>5. QED
  BY <1>1, <1>2, <1>4, UpdateNested DEF top

\* The innermost call returns an operand.
LEMMA ReturnNested ==
  ASSUME NEW n \in Nat, NEW m \in Nat, NEW k \in Nat,
         NEW c \in Seq(Frame(n, m, k)), Nested(c), NEW o \in Operand(n),
         Len(c) >= 2, c[Len(c)].kind # "FBODY",
         c[Len(c) - 1].kind \in ExprKind
  PROVE  LET d == [Front(c) EXCEPT ![Len(c) - 1].args = Append(@, o)]
         IN  d \in Seq(Frame(n, m, k)) /\ Nested(d)
<1>1. /\ Front(c) \in Seq(Frame(n, m, k)) /\ Nested(Front(c))
      /\ Len(Front(c)) = Len(c) - 1
      /\ Front(c)[Len(c) - 1] = c[Len(c) - 1]
  BY PopNested
<1>2. QED
  BY <1>1, ReceiveNested

\* The innermost statement ends.
LEMMA EndNested ==
  ASSUME NEW n \in Nat, NEW m \in Nat, NEW k \in Nat,
         NEW c \in Seq(Frame(n, m, k)), Nested(c), NEW r \in BOOLEAN,
         Len(c) >= 2, c[Len(c)].kind # "FBODY",
         c[Len(c) - 1].kind \in ListKind
  PROVE  LET d == [Front(c) EXCEPT ![Len(c) - 1].rets = @ \/ r]
         IN  d \in Seq(Frame(n, m, k)) /\ Nested(d)
<1> DEFINE i == Len(c) - 1
           f == [c[i] EXCEPT !.rets = c[i].rets \/ r]
<1>1. /\ Front(c) \in Seq(Frame(n, m, k)) /\ Nested(Front(c))
      /\ Len(Front(c)) = i /\ i \in 1 .. i
      /\ Front(c)[i] = c[i] /\ c[i] \in Frame(n, m, k)
  BY PopNested
<1>2. c[i].rets \in BOOLEAN
  BY <1>1, RetsIsBoolean
<1>3. f \in Frame(n, m, k) /\ f.kind = c[i].kind
  <2>1. f.rets \in BOOLEAN /\ f = [c[i] EXCEPT !.rets = f.rets]
    BY <1>1, <1>2, RetsField
  <2> HIDE DEF f
  <2>2. QED
    BY <1>1, <2>1, RetsType
<1>4. [Front(c) EXCEPT ![i].rets = @ \/ r] = [Front(c) EXCEPT ![i] = f]
  BY <1>1
<1> HIDE DEF f
<1>5. /\ [Front(c) EXCEPT ![i] = f] \in Seq(Frame(n, m, k))
      /\ Nested([Front(c) EXCEPT ![i] = f])
  <2> DEFINE fc == Front(c)
             F  == Frame(n, m, k)
  <2>1. /\ fc \in Seq(F) /\ Nested(fc) /\ i \in 1 .. Len(fc)
        /\ f \in F /\ f.kind = fc[i].kind
    BY <1>1, <1>3
  <2> HIDE DEF fc, F, i
  <2>2. [fc EXCEPT ![i] = f] \in Seq(F) /\ Nested([fc EXCEPT ![i] = f])
    BY <2>1, UpdateNested
  <2>3. QED
    BY <2>2 DEF fc, F
<1>6. QED
  BY <1>4, <1>5

-----------------------------------------------------------------------------
\* What a new value does to the names and to what already exists.

\* new_value_view keeps the tables typed and only adds to them.
LEMMA NewValueType ==
  ASSUME NamesType, NEW n \in AllName, NEW t \in Type, NewValue(n, t)
  PROVE  /\ values' \in Values /\ names' \in Seq(AllName)
         /\ nextVersion' \in [AllName -> Nat]
         /\ Len(values') = Len(values) + 1 /\ Len(names) <= Len(names')
<1>1. values' \in Values /\ Len(values') = Len(values) + 1
  <2>1. [name |-> n, version |-> nextVersion[n], type |-> t]
          \in [name : AllName, version : Nat, type : Type]
    BY DEF NamesType
  <2>2. QED
    BY <2>1 DEF NamesType, NewValue, Values
<1>2. names' \in Seq(AllName) /\ Len(names) <= Len(names')
  BY DEF NamesType, NewValue, Intern
<1>3. nextVersion' \in [AllName -> Nat]
  BY DEF NamesType, NewValue
<1>4. QED
  BY <1>1, <1>2, <1>3

\* The same when the result may go to the destination of an assignment.
LEMMA NewResultType ==
  ASSUME NamesType, NEW target \in Destination(Len(values)), NEW t \in Type,
         NewResult(target, t)
  PROVE  /\ values' \in Values /\ names' \in Seq(AllName)
         /\ nextVersion' \in [AllName -> Nat]
         /\ Len(values) <= Len(values') /\ Len(names) <= Len(names')
         /\ Result(target, t) \in ValueOperand(Len(values'))
<1>1. Len(values) \in Nat /\ Len(names) \in Nat
  BY DEF NamesType, Values
<1>2. CASE target = NoOperand
  <2>1. NewValue(Tmp, t) /\ Tmp \in AllName
    BY <1>2 DEF NewResult, AllName
  <2>2. QED
    BY <1>1, <1>2, <2>1, NewValueType
    DEF Result, ValueOp, NextId, ValueOperand
<1>3. CASE target # NoOperand
  <2>1. UNCHANGED valueVars /\ target \in ValueOperand(Len(values))
    BY <1>3 DEF NewResult, Destination
  <2>2. QED
    BY <1>1, <1>3, <2>1 DEF Result, valueVars, NamesType
<1>4. QED
  BY <1>2, <1>3

\* What exists keeps its type when there are more values, blocks and names.
LEMMA TypesGrow ==
  ASSUME NEW n \in Nat, NEW p \in Nat, NEW m \in Nat, NEW q \in Nat,
         NEW k \in Nat, NEW l \in Nat, n <= p, m <= q, k <= l
  PROVE  /\ Seq(Frame(n, m, k)) \subseteq Seq(Frame(p, q, l))
         /\ Seq(Block(n, m)) \subseteq Seq(Block(p, q))
         /\ Snapshot(n) \subseteq Snapshot(p)
         /\ Operand(n) \subseteq Operand(p)
         /\ Seq(Operand(n)) \subseteq Seq(Operand(p))
BY FrameGrows, BlockGrows, SnapshotGrows, OperandGrows, SeqGrows

\* An element of a sequence over S is in S.
LEMMA ElementType ==
  ASSUME NEW S, NEW s \in Seq(S), NEW i \in 1 .. Len(s)
  PROVE  s[i] \in S
OBVIOUS

\* value_from_id of a value that exists.
LEMMA ValueOfType ==
  ASSUME NamesType, NEW id \in 1 .. Len(values)
  PROVE  /\ ValueOf(id) \in ValueOperand(Len(values))
         /\ values[id].type \in Type /\ values[id].name \in AllName
<1>1. values[id] \in [name : AllName, version : Nat, type : Type]
  BY ElementType DEF NamesType, Values
<1>2. QED
  BY <1>1 DEF ValueOf, ValueOp, ValueOperand

-----------------------------------------------------------------------------
\* What the steps do to the variables, one lemma for each operator that
\* changes the stack.

\* A step that keeps the code and the names typed and removes nothing.
Grows ==
  /\ blocks' \in Seq(Block(Len(values)', Len(blocks)'))
  /\ values' \in Values
  /\ names' \in Seq(AllName)
  /\ Len(values) <= Len(values')
  /\ Len(blocks) <= Len(blocks')
  /\ Len(names) <= Len(names')

StackFrame == Frame(Len(values), Len(blocks), Len(names))

\* The numbers of values, blocks and names are numbers.
LEMMA Lengths ==
  ASSUME IRType, NamesType
  PROVE  /\ Len(values) \in Nat /\ Len(blocks) \in Nat /\ Len(names) \in Nat
         /\ cur \in 1 .. Len(blocks)
BY DEF IRType, NamesType, Values

\* A step that grows the tables leaves the stack well typed.
LEMMA StackGrows ==
  ASSUME IRType, NamesType, StackType, Grows
  PROVE  /\ ctrl \in Seq(StackFrame') /\ Nested(ctrl)
         /\ Len(values)' \in Nat /\ Len(blocks)' \in Nat /\ Len(names)' \in Nat
         /\ Len(ctrl) \in Nat \ {0} /\ Top = ctrl[Len(ctrl)]
         /\ Top \in StackFrame /\ Top \in StackFrame'
<1>1. /\ Len(values)' \in Nat /\ Len(blocks)' \in Nat /\ Len(names)' \in Nat
  BY DEF Grows, Values
<1>2. ctrl \in Seq(StackFrame')
  BY <1>1, Lengths, TypesGrow DEF Grows, StackType, StackFrame
<1>3. QED
  BY <1>1, <1>2, TopFrame DEF StackType, StackFrame, Top

\* Push
LEMMA PushType ==
  ASSUME IRType, NamesType, StackType, Grows, NEW f \in StackFrame',
         Calls(Top.kind, f.kind), Push(f)
  PROVE  StackType'
BY StackGrows, PushNested DEF Push, StackType, StackFrame

\* Replace, of a statement by another part of the same statement and of an
\* operand by another part of the same operand.
LEMMA ReplaceType ==
  ASSUME IRType, NamesType, StackType, Grows, NEW f \in StackFrame',
         \/ Top.kind \in StatementKind /\ f.kind \in StatementKind
         \/ Top.kind \in OperandKind /\ f.kind \in OperandKind,
         Replace(f)
  PROVE  StackType'
<1>1. /\ Calls(ctrl[Len(ctrl) - 1].kind, f.kind)
      /\ ctrl[Len(ctrl)].kind # "FBODY"
  BY StackGrows, CallerOf DEF Calls, StatementKind, OperandKind
<1>2. QED
  BY <1>1, StackGrows, ReplaceNested DEF Replace, StackType, StackFrame

\* Receive
LEMMA ReceiveStack ==
  ASSUME IRType, NamesType, StackType, Grows,
         NEW o \in Operand(Len(values)'), Top.kind \in ExprKind, Receive(o)
  PROVE  StackType'
BY StackGrows, ReceiveNested DEF Receive, StackType, StackFrame

\* Return, to a caller that waits for an operand.
LEMMA ReturnStack ==
  ASSUME IRType, NamesType, StackType, Grows,
         NEW o \in Operand(Len(values)'),
         \/ Top.kind \in OperandKind
         \/ Top.kind = "CALL" /\ ctrl[Len(ctrl) - 1].kind \notin ListKind,
         Return(o)
  PROVE  StackType'
<1>1. /\ Len(ctrl) >= 2 /\ ctrl[Len(ctrl)].kind # "FBODY"
      /\ ctrl[Len(ctrl) - 1].kind \in ExprKind
  BY StackGrows, CallerOf DEF OperandKind
<1>2. QED
  BY <1>1, StackGrows, ReturnNested DEF Return, StackType, StackFrame

\* EndStatement
LEMMA EndStatementStack ==
  ASSUME IRType, NamesType, StackType, Grows, NEW r \in BOOLEAN,
         Top.kind \in StatementKind, EndStatement(r)
  PROVE  StackType'
<1>1. /\ Len(ctrl) >= 2 /\ ctrl[Len(ctrl)].kind # "FBODY"
      /\ ctrl[Len(ctrl) - 1].kind \in ListKind
  BY StackGrows, CallerOf DEF StatementKind
<1>2. QED
  BY <1>1, StackGrows, EndNested DEF EndStatement, StackType, StackFrame

\* Pop
LEMMA PopStack ==
  ASSUME IRType, NamesType, StackType, Grows, Top.kind # "FBODY", Pop
  PROVE  StackType'
BY StackGrows, PopNested DEF Pop, StackType, StackFrame

\* A step that leaves the stack alone.
LEMMA SameStack ==
  ASSUME IRType, NamesType, StackType, Grows, UNCHANGED ctrl
  PROVE  StackType'
BY StackGrows DEF StackType, StackFrame

-----------------------------------------------------------------------------
\* The effect of the steps on the tables.

NamesGrow ==
  /\ values' \in Values /\ names' \in Seq(AllName)
  /\ nextVersion' \in [AllName -> Nat]
  /\ Len(values) <= Len(values') /\ Len(names) <= Len(names')

\* No new value.
LEMMA SameNames ==
  ASSUME NamesType, UNCHANGED valueVars
  PROVE  NamesGrow
BY DEF NamesType, NamesGrow, valueVars, Values

\* The code stays well typed when values appear.
LEMMA CodeKept ==
  ASSUME IRType, NamesType, NamesGrow
  PROVE  /\ blocks \in Seq(Block(Len(values'), Len(blocks)))
         /\ Len(values') \in Nat /\ Len(names') \in Nat
         /\ bindings \in Snapshot(Len(values'))
<1>1. Len(values') \in Nat /\ Len(names') \in Nat
  BY DEF NamesGrow, Values
<1>2. Len(values) \in Nat /\ Len(blocks) \in Nat /\ Len(values) <= Len(values')
  BY Lengths DEF NamesGrow
<1>3. Seq(Block(Len(values), Len(blocks))) \subseteq
        Seq(Block(Len(values'), Len(blocks)))
  BY <1>1, <1>2, BlockGrows, SeqGrows
<1>4. Snapshot(Len(values)) \subseteq Snapshot(Len(values'))
  BY <1>1, <1>2, SnapshotGrows
<1>5. QED
  BY <1>1, <1>3, <1>4 DEF IRType, NamesType

\* A step that emits no instruction.
LEMMA SameCode ==
  ASSUME IRType, NamesType, NamesGrow, UNCHANGED blocks
  PROVE  Grows
BY CodeKept, Lengths DEF NamesGrow, Grows

\* A step that emits one instruction into the current block.
LEMMA EmitGrows ==
  ASSUME IRType, NamesType, NamesGrow,
         NEW instr \in Instr(Len(values'), Len(blocks)),
         blocks' = Emit(blocks, cur, instr)
  PROVE  Grows /\ Len(blocks') = Len(blocks)
<1>1. /\ blocks' \in Seq(Block(Len(values'), Len(blocks)))
      /\ Len(blocks') = Len(blocks)
  BY CodeKept, Lengths, EmitType
<1>2. QED
  BY <1>1, Lengths DEF NamesGrow, Grows

\* The parts of TypeOK once the tables and the stack are done.
LEMMA TypeFromParts ==
  ASSUME Grows, cur' \in 1 .. Len(blocks'), nextVersion' \in [AllName -> Nat],
         bindings' \in Snapshot(Len(values')), StackType', RestType'
  PROVE  TypeOK'
BY DEF TypeOK, IRType, NamesType, Grows

\* A step of the lowering that changes neither the analysis nor the bounds.
LEMMA SameRest ==
  ASSUME RestType, UNCHANGED <<runVars, semVars, fuel>>
  PROVE  RestType'
BY DEF RestType, runVars, semVars, fuel

\* An error changes the status only.
LEMMA FailType ==
  ASSUME TypeOK, NEW e \in Error, Fail(e)
  PROVE  TypeOK'
<1>1. UNCHANGED <<fn, irVars, nameVars, ctrl, semVars, dropped, cursor, fuel>>
  BY DEF Fail
<1>2. IRType' /\ NamesType'
  BY <1>1 DEF TypeOK, IRType, NamesType, irVars, nameVars, valueVars
<1>3. StackType'
  BY <1>1 DEF TypeOK, StackType, irVars, nameVars, valueVars
<1>4. RestType'
  BY <1>1 DEF Fail, Status, TypeOK, RestType, semVars, fuel
<1>5. QED
  BY <1>2, <1>3, <1>4 DEF TypeOK

-----------------------------------------------------------------------------
\* emit_expression, action by action.

\* The innermost call gets an operand and nothing else happens.
LEMMA LeafType ==
  ASSUME TypeOK, NEW o \in Operand(Len(values)), Top.kind \in ExprKind,
         Receive(o), UNCHANGED <<runVars, irVars, nameVars, semVars, fuel>>
  PROVE  TypeOK'
<1>1. Grows
  BY SameNames, SameCode DEF TypeOK, irVars, nameVars
<1>2. Len(values)' = Len(values) /\ Len(blocks') = Len(blocks)
  BY DEF irVars, nameVars, valueVars
<1>3. StackType'
  BY <1>1, <1>2, ReceiveStack DEF TypeOK
<1>4. RestType'
  BY SameRest DEF TypeOK
<1>5. QED
  BY <1>1, <1>2, <1>3, <1>4, TypeFromParts
  DEF TypeOK, IRType, NamesType, irVars, nameVars, valueVars

\* AST_VALUE
LEMMA LiteralType ==
  ASSUME TypeOK, NEW t \in ValType, Literal(t)
  PROVE  TypeOK'
<1>1. PICK v \in Literals[t] : Receive(LitOp(t, v))
  BY DEF Literal
<1>2. v \in Nat
  BY LiteralsAssumption
<1>3. LitOp(t, v) \in Operand(Len(values))
  BY <1>2 DEF LitOp, Operand, Type
<1>4. Top.kind \in ExprKind
  BY DEF Literal, Wanting
<1>5. QED
  BY <1>1, <1>3, <1>4, LeafType DEF Literal

\* AST_ID
LEMMA IdentifierType ==
  ASSUME TypeOK, NEW n \in Name, Identifier(n)
  PROVE  TypeOK'
<1>1. n \in AllName /\ bindings[n] \in 1 .. Len(values)
  BY Lengths DEF TypeOK, NamesType, Snapshot, Identifier, Invalid, AllName
<1>2. ValueOf(bindings[n]) \in Operand(Len(values))
  BY <1>1, ValueOfType DEF TypeOK, Operand
<1>3. Top.kind \in ExprKind
  BY DEF Identifier, Readable, Wanting
<1>4. QED
  BY <1>2, <1>3, LeafType DEF Identifier

\* The destination handed down by an assignment exists.
LEMMA TargetType ==
  ASSUME TypeOK
  PROVE  Target \in Destination(Len(values))
<1>1. Top \in StackFrame
  BY TopFrame DEF TypeOK, StackType, StackFrame, Top
<1>2. CASE Top.kind = "ASSIGN"
  <2>1. Top \in AssignFrame(Len(values))
    BY <1>1, <1>2, Lengths, FrameByKind DEF StackFrame, TypeOK
  <2>2. QED
    BY <1>2, <2>1 DEF AssignFrame, Destination, Target
<1>3. QED
  BY <1>2 DEF Target, Destination

\* A call for an operand begins.
LEMMA BeginExprType ==
  ASSUME TypeOK, NEW f \in StackFrame, f.kind \in OperandKind \cup {"CALL"},
         Top.kind \in ExprKind, BeginExpr(f)
  PROVE  TypeOK'
<1>1. Grows
  BY SameNames, SameCode DEF BeginExpr, TypeOK, irVars, nameVars
<1>2. StackFrame' = StackFrame
  BY DEF BeginExpr, StackFrame, irVars, nameVars, valueVars
<1>3. Calls(Top.kind, f.kind)
  BY DEF Calls
<1>4. StackType'
  BY <1>1, <1>2, <1>3, PushType DEF BeginExpr, TypeOK
<1>5. RestType'
  BY DEF BeginExpr, TypeOK, RestType, runVars, semVars
<1>6. QED
  BY <1>1, <1>4, <1>5, TypeFromParts
  DEF BeginExpr, TypeOK, IRType, NamesType, irVars, nameVars, valueVars

\* AST_OPERATOR: an activation that waits for two operands of one type.
LEMMA BeginBinaryType ==
  ASSUME TypeOK, NEW op \in {"ARITH", "CMP"}, NEW t \in ValType,
         BeginBinary(op, t)
  PROVE  TypeOK'
<1> DEFINE f == [kind |-> "BINARY", op |-> op, wants |-> <<t, t>>,
                 args |-> << >>, target |-> Target]
<1>1. f \in StackFrame
  <2>1. f \in BinaryFrame(Len(values))
    BY TargetType DEF BinaryFrame, TwoTypes, Type
  <2>2. QED
    BY <2>1 DEF StackFrame, Frame
<1>2. Top.kind \in ExprKind /\ BeginExpr(f)
  BY DEF BeginBinary, Wanting
<1>3. f.kind \in OperandKind
  BY DEF OperandKind
<1> HIDE DEF f
<1>4. QED
  BY <1>1, <1>2, <1>3, BeginExprType

\* T_NOT: an activation that waits for one bool.
LEMMA BeginNotType ==
  ASSUME TypeOK, BeginNot
  PROVE  TypeOK'
<1> DEFINE f == [kind |-> "NOT", wants |-> <<"BOOL">>, args |-> << >>,
                 target |-> Target]
<1>1. f \in StackFrame
  <2>1. f \in NotFrame(Len(values))
    BY TargetType DEF NotFrame, OneType, Type, ValType
  <2>2. QED
    BY <2>1 DEF StackFrame, Frame
<1>2. Top.kind \in ExprKind /\ BeginExpr(f)
  BY DEF BeginNot, Wanting
<1>3. f.kind \in OperandKind
  BY DEF OperandKind
<1> HIDE DEF f
<1>4. QED
  BY <1>1, <1>2, <1>3, BeginExprType

\* T_AND and T_OR: an activation that waits for the left operand.
LEMMA BeginLogicType ==
  ASSUME TypeOK, NEW isOr \in BOOLEAN, BeginLogic(isOr)
  PROVE  TypeOK'
<1> DEFINE f == [kind |-> "LEFT", wants |-> <<"BOOL">>, args |-> << >>,
                 target |-> Target, isOr |-> isOr]
<1>1. f \in StackFrame
  <2>1. f \in LeftFrame(Len(values))
    BY TargetType DEF LeftFrame, OneType, Type, ValType
  <2>2. QED
    BY <2>1 DEF StackFrame, Frame
<1>2. Top.kind \in ExprKind /\ BeginExpr(f)
  BY DEF BeginLogic, Wanting
<1>3. f.kind \in OperandKind
  BY DEF OperandKind
<1> HIDE DEF f
<1>4. QED
  BY <1>1, <1>2, <1>3, BeginExprType

\* The signature of a callee.
LEMMA CalleeType ==
  ASSUME NEW g \in Callees
  PROVE  g.ret \in Type /\ g.params \in Seq(Type)
<1>1. g.ret \in Type /\ g.params \in Seq(ValType)
  BY CalleesAssumption
<1>2. QED
  BY <1>1, SeqGrows DEF Type

\* emit_call: an activation that waits for the arguments.
LEMMA BeginCallType ==
  ASSUME TypeOK, NEW g \in Callees, BeginCall(g)
  PROVE  TypeOK'
<1> DEFINE f == [kind |-> "CALL", ret |-> g.ret, wants |-> g.params,
                 args |-> << >>, target |-> Target]
<1>1. f \in StackFrame
  <2>1. f \in CallFrame(Len(values))
    BY TargetType, CalleeType DEF CallFrame
  <2>2. QED
    BY <2>1 DEF StackFrame, Frame
<1>2. Top.kind \in ExprKind /\ BeginExpr(f)
  BY DEF BeginCall, Wanting
<1>3. f.kind = "CALL"
  OBVIOUS
<1> HIDE DEF f
<1>4. QED
  BY <1>1, <1>2, <1>3, BeginExprType

\* The operands an operator received, when all have arrived.
LEMMA OperandsType ==
  ASSUME TypeOK, Complete, Top.kind \in ExprKind
  PROVE  /\ Top.args \in Seq(Operand(Len(values)))
         /\ Top.kind # "CALL" => /\ Len(Top.args) >= 1
                                 /\ Top.args[1] \in Operand(Len(values))
                                 /\ Top.args[1].type \in Type
         /\ Top.kind \in {"BINARY", "NOT", "LEFT", "RIGHT", "CALL"} =>
              Top.target \in Destination(Len(values))
<1>1. Top \in Frame(Len(values), Len(blocks), Len(names))
  BY TopFrame DEF TypeOK, StackType, Top
<1>2. Len(values) \in Nat /\ Len(blocks) \in Nat /\ Len(names) \in Nat
  BY Lengths DEF TypeOK
<1>3. /\ Top.args \in Seq(Operand(Len(values)))
      /\ Top.kind = "BINARY" => Top.wants \in TwoTypes
      /\ Top.kind \notin {"BINARY", "CALL"} => Top.wants \in OneType
      /\ Top.kind \in {"BINARY", "NOT", "LEFT", "RIGHT", "CALL"} =>
           Top.target \in Destination(Len(values))
  BY <1>1, <1>2, FrameByKind
  DEF ExprKind, AssignFrame, ValueFrame, WhileFrame, BinaryFrame, NotFrame,
      CallFrame, LeftFrame, RightFrame
<1>4. Top.kind # "CALL" => Len(Top.args) >= 1
  <2>1. \A w \in OneType : Len(w) = 1
    BY DEF OneType
  <2>2. \A w \in TwoTypes : Len(w) = 2
    BY DEF TwoTypes
  <2>3. QED
    BY <1>3, <2>1, <2>2 DEF Complete
<1>5. \A o \in Operand(Len(values)) : o.type \in Type
  BY DEF Operand, ValueOperand
<1>6. QED
  BY <1>3, <1>4, <1>5, ElementType

\* An operand computed into a destination or into a temporary is returned
\* by an instruction that gets what was received.
LEMMA InstructionType ==
  ASSUME NEW n \in Nat, NEW m \in Nat, NEW op \in Opcode \ {"PHI"},
         NEW dest \in Operand(n), NEW args \in Seq(Operand(n))
  PROVE  Instruction(op, dest, args) \in Instr(n, m)
BY DEF Instruction, Instr

\* An operand step of the lowering that computes a result: what FinishBinary,
\* FinishNot and FinishCall do when the operands fit.
LEMMA ComputeType ==
  ASSUME TypeOK, Complete,
         \/ Top.kind \in OperandKind
         \/ Top.kind = "CALL" /\ ctrl[Len(ctrl) - 1].kind \notin ListKind,
         NEW op \in Opcode \ {"PHI"}, NEW t \in Type,
         NewResult(Top.target, t),
         blocks' = Emit(blocks, cur,
                        Instruction(op, Result(Top.target, t), Top.args)),
         Return(Result(Top.target, t)),
         UNCHANGED <<runVars, cur, bindings, semVars, fuel>>
  PROVE  TypeOK'
<1> DEFINE r == Result(Top.target, t)
<1>1. /\ Top.args \in Seq(Operand(Len(values)))
      /\ Top.target \in Destination(Len(values))
  BY OperandsType DEF ExprKind, OperandKind
<1>2. NamesGrow /\ r \in ValueOperand(Len(values'))
  BY <1>1, NewResultType DEF TypeOK, NamesGrow
<1>3. Len(values') \in Nat /\ Len(blocks) \in Nat
  BY <1>2, CodeKept, Lengths DEF TypeOK
<1>4. r \in Operand(Len(values')) /\ Top.args \in Seq(Operand(Len(values')))
  <2>1. Seq(Operand(Len(values))) \subseteq Seq(Operand(Len(values')))
    BY <1>2, <1>3, Lengths, OperandGrows, SeqGrows DEF NamesGrow, TypeOK
  <2>2. QED
    BY <1>1, <1>2, <2>1 DEF Operand
<1> HIDE DEF r
<1>5. Instruction(op, r, Top.args) \in Instr(Len(values'), Len(blocks))
  BY <1>3, <1>4, InstructionType
<1>6. Grows /\ Len(blocks') = Len(blocks)
  BY <1>2, <1>5, EmitGrows DEF TypeOK, r
<1>7. StackType'
  BY <1>4, <1>6, ReturnStack DEF TypeOK, r
<1>8. RestType'
  BY SameRest DEF TypeOK
<1>9. cur' \in 1 .. Len(blocks') /\ bindings' \in Snapshot(Len(values'))
  BY <1>2, <1>6, CodeKept DEF TypeOK, IRType
<1>10. QED
  BY <1>2, <1>6, <1>7, <1>8, <1>9, TypeFromParts DEF NamesGrow

\* AST_OPERATOR with two operands
LEMMA FinishBinaryType ==
  ASSUME TypeOK, FinishBinary
  PROVE  TypeOK'
<1> DEFINE t == ResultType(Top.op, Top.args[1].type)
<1>1. Top.kind = "BINARY" /\ Complete
  BY DEF FinishBinary, Active
<1>2. CASE Top.args[1].type # Top.args[2].type
  BY <1>2, FailType DEF FinishBinary, Error
<1>3. CASE Top.args[1].type = Top.args[2].type
  <2>1. t \in Type
    BY <1>1, OperandsType DEF ResultType, Type, ValType, ExprKind
  <2>2. Top.op \in Opcode \ {"PHI"}
    <3>1. Top \in StackFrame
      BY TopFrame DEF TypeOK, StackType, StackFrame, Top
    <3>2. Top \in BinaryFrame(Len(values))
      BY <1>1, <3>1, Lengths, FrameByKind DEF StackFrame, TypeOK
    <3>3. QED
      BY <3>2 DEF BinaryFrame, Opcode
  <2>3. /\ NewResult(Top.target, t)
        /\ blocks' = Emit(blocks, cur, Instruction(Top.op,
                                         Result(Top.target, t), Top.args))
        /\ Return(Result(Top.target, t))
        /\ UNCHANGED <<runVars, cur, bindings, semVars, fuel>>
    BY <1>3 DEF FinishBinary
  <2> HIDE DEF t
  <2>4. QED
    BY <1>1, <2>1, <2>2, <2>3, ComputeType DEF OperandKind
<1>4. QED
  BY <1>2, <1>3

\* T_NOT
LEMMA FinishNotType ==
  ASSUME TypeOK, FinishNot
  PROVE  TypeOK'
<1>1. Top.kind = "NOT" /\ Complete
  BY DEF FinishNot, Active
<1>2. CASE Top.args[1].type # "BOOL"
  BY <1>2, FailType DEF FinishNot, Error
<1>3. CASE Top.args[1].type = "BOOL"
  <2>1. "BOOL" \in Type /\ "NOT" \in Opcode \ {"PHI"}
    BY DEF Type, ValType, Opcode
  <2>2. /\ NewResult(Top.target, "BOOL")
        /\ blocks' = Emit(blocks, cur, Instruction("NOT",
                                       Result(Top.target, "BOOL"), Top.args))
        /\ Return(Result(Top.target, "BOOL"))
        /\ UNCHANGED <<runVars, cur, bindings, semVars, fuel>>
    BY <1>3 DEF FinishNot
  <2>3. QED
    BY <1>1, <2>1, <2>2, ComputeType DEF OperandKind
<1>4. QED
  BY <1>2, <1>3

\* A connective whose operand is not bool returns no operand.
LEMMA DropLogicType ==
  ASSUME TypeOK, DropLogic
  PROVE  TypeOK'
<1>1. Grows
  BY SameNames, SameCode DEF DropLogic, TypeOK, irVars, nameVars
<1>2. NoOperand \in Operand(Len(values)') /\ Top.kind \in OperandKind
  BY <1>1, StackGrows, NoOperandType
  DEF TypeOK, DropLogic, Active, OperandKind
<1>3. StackType'
  BY <1>1, <1>2, ReturnStack DEF DropLogic, TypeOK
<1>4. RestType'
  BY DEF DropLogic, TypeOK, RestType, semVars, fuel
<1>5. QED
  BY <1>1, <1>3, <1>4, TypeFromParts
  DEF DropLogic, TypeOK, IRType, NamesType, irVars, nameVars, valueVars

\* The left operand of a connective splits control.
LEMMA SplitLogicType ==
  ASSUME TypeOK, SplitLogic
  PROVE  TypeOK'
<1> DEFINE m     == Len(blocks)
           wide  == blocks \o <<NewBlock, NewBlock>>
           right == m + 1
           merge == m + 2
           t == IF Top.isOr THEN merge ELSE right
           e == IF Top.isOr THEN right ELSE merge
           f == [kind |-> "RIGHT", wants |-> <<"BOOL">>, args |-> << >>,
                 target |-> Top.target, isOr |-> Top.isOr,
                 decision |-> cur, merge |-> merge]
<1>1. Top.kind = "LEFT" /\ Complete
  BY DEF SplitLogic, Active
<1>2. /\ Top.args[1] \in Operand(Len(values))
      /\ Top.target \in Destination(Len(values))
  BY <1>1, OperandsType DEF ExprKind
<1>3. Top.isOr \in BOOLEAN
  <2>1. Top \in StackFrame
    BY TopFrame DEF TypeOK, StackType, StackFrame, Top
  <2>2. Top \in LeftFrame(Len(values))
    BY <1>1, <2>1, Lengths, FrameByKind DEF StackFrame, TypeOK
  <2>3. QED
    BY <2>2 DEF LeftFrame
<1>4. /\ Len(values) \in Nat /\ m \in Nat /\ Len(names) \in Nat
      /\ cur \in 1 .. m
  BY Lengths DEF TypeOK
<1>5. /\ UNCHANGED <<runVars, nameVars, semVars, fuel>>
      /\ blocks' = CondBranch(wide, cur, Top.args[1], t, e)
      /\ cur' = right /\ Replace(f)
  BY DEF SplitLogic
<1>6. wide \in Seq(Block(Len(values), m + 2)) /\ Len(wide) = m + 2
  BY <1>4, NewBlocksType DEF TypeOK, IRType
<1>7. /\ t \in 1 .. m + 2 /\ e \in 1 .. m + 2 /\ cur \in 1 .. m + 2
      /\ right \in 1 .. m + 2 /\ merge \in 1 .. m + 2 /\ m + 2 \in Nat
  BY <1>4
<1> HIDE DEF wide, t, e
<1>8. blocks' \in Seq(Block(Len(values), m + 2)) /\ Len(blocks') = m + 2
  <2> DEFINE q    == m + 2
             cond == Top.args[1]
  <2>1. /\ Len(values) \in Nat /\ q \in Nat /\ wide \in Seq(Block(Len(values), q))
        /\ Len(wide) = q /\ Len(wide) <= q
        /\ {cur, t, e} \subseteq 1 .. Len(wide)
        /\ cond \in Operand(Len(values))
        /\ blocks' = CondBranch(wide, cur, cond, t, e)
    BY <1>2, <1>4, <1>5, <1>6, <1>7
  <2> HIDE DEF q, cond
  <2>2. /\ CondBranch(wide, cur, cond, t, e) \in Seq(Block(Len(values), q))
        /\ Len(CondBranch(wide, cur, cond, t, e)) = Len(wide)
    BY ONLY <2>1, CondBranchType
  <2>3. QED
    BY <2>1, <2>2 DEF q
<1>9. Grows
  BY <1>4, <1>5, <1>8, SameNames DEF TypeOK, Grows, NamesGrow, nameVars, valueVars
<1>10. StackFrame' = Frame(Len(values), m + 2, Len(names))
  BY <1>5, <1>8 DEF StackFrame, nameVars, valueVars
<1>11. f \in RightFrame(Len(values), m + 2)
  BY <1>2, <1>3, <1>7 DEF RightFrame, OneType, Type, ValType
<1>12. f \in StackFrame' /\ f.kind \in OperandKind /\ Top.kind \in OperandKind
  BY <1>1, <1>10, <1>11 DEF Frame, OperandKind
<1> HIDE DEF f
<1>13. StackType'
  BY <1>5, <1>9, <1>12, ReplaceType DEF TypeOK
<1>14. RestType'
  BY <1>5, SameRest DEF TypeOK
<1>15. QED
  BY <1>5, <1>7, <1>8, <1>9, <1>13, <1>14, TypeFromParts
  DEF TypeOK, NamesType, nameVars, valueVars

\* A call whose argument has another type than its parameter is refused.
LEMMA ArgumentMismatchType ==
  ASSUME TypeOK, ArgumentMismatch
  PROVE  TypeOK'
BY FailType DEF ArgumentMismatch, Error

\* emit_call
LEMMA FinishCallType ==
  ASSUME TypeOK, FinishCall
  PROVE  TypeOK'
<1> DEFINE result == IF Top.ret = "VOID" THEN NoOperand
                     ELSE Result(Top.target, Top.ret)
<1>1. Top.kind = "CALL" /\ Complete /\ ArgsAgree(Top)
  BY DEF FinishCall, Active
<1>2. /\ Top.args \in Seq(Operand(Len(values)))
      /\ Top.target \in Destination(Len(values))
      /\ Top.ret \in Type
  <2>1. Top \in StackFrame
    BY TopFrame DEF TypeOK, StackType, StackFrame, Top
  <2>2. Top \in CallFrame(Len(values))
    BY <1>1, <2>1, Lengths, FrameByKind DEF StackFrame, TypeOK
  <2>3. QED
    BY <2>2 DEF CallFrame
<1>3. /\ IF Top.ret = "VOID" THEN UNCHANGED valueVars
         ELSE NewResult(Top.target, Top.ret)
      /\ blocks' = Emit(blocks, cur, Instruction("CALL", result, Top.args))
      /\ IF ctrl[Len(ctrl) - 1].kind \in ListKind THEN Pop
         ELSE Return(result)
      /\ UNCHANGED <<runVars, cur, bindings, semVars, fuel>>
  BY DEF FinishCall
<1>4. NamesGrow /\ result \in Operand(Len(values'))
  <2>1. CASE Top.ret = "VOID"
    <3>1. NamesGrow
      BY <1>3, <2>1, SameNames DEF TypeOK
    <3>2. QED
      BY <2>1, <3>1, CodeKept, NoOperandType DEF TypeOK
  <2>2. CASE Top.ret # "VOID"
    BY <1>2, <1>3, <2>2, NewResultType DEF TypeOK, NamesGrow, Operand
  <2>3. QED
    BY <2>1, <2>2
<1> HIDE DEF result
<1>5. Len(values') \in Nat /\ Len(blocks) \in Nat
  BY <1>4, CodeKept, Lengths DEF TypeOK
<1>6. Instruction("CALL", result, Top.args) \in Instr(Len(values'), Len(blocks))
  <2>1. Top.args \in Seq(Operand(Len(values')))
    BY <1>2, <1>4, <1>5, Lengths, OperandGrows, SeqGrows DEF NamesGrow, TypeOK
  <2>2. QED
    BY <1>4, <1>5, <2>1, InstructionType DEF Opcode
<1>7. Grows /\ Len(blocks') = Len(blocks)
  BY <1>3, <1>4, <1>6, EmitGrows DEF TypeOK
<1>8. StackType'
  <2>1. CASE ctrl[Len(ctrl) - 1].kind \in ListKind
    BY <1>1, <1>3, <1>7, <2>1, PopStack DEF TypeOK
  <2>2. CASE ctrl[Len(ctrl) - 1].kind \notin ListKind
    BY <1>1, <1>3, <1>4, <1>7, <2>2, ReturnStack DEF TypeOK
  <2>3. QED
    BY <2>1, <2>2
<1>9. RestType'
  BY <1>3, SameRest DEF TypeOK
<1>10. cur' \in 1 .. Len(blocks') /\ bindings' \in Snapshot(Len(values'))
  BY <1>3, <1>4, <1>7, CodeKept DEF TypeOK, IRType
<1>11. QED
  BY <1>4, <1>7, <1>8, <1>9, <1>10, TypeFromParts DEF NamesGrow

\* The merge block of a connective: a branch from the end of the right
\* operand, and a phi.
LEMMA FinishLogicType ==
  ASSUME TypeOK, FinishLogic
  PROVE  TypeOK'
<1> DEFINE result == Result(Top.target, "BOOL")
           short  == LitOp("BOOL", IF Top.isOr THEN 1 ELSE 0)
           joined == Branch(blocks, cur, Top.merge)
           phi    == Phi(result, <<short, Top.args[1]>>,
                         <<Top.decision, cur>>)
<1>1. Top.kind = "RIGHT" /\ Complete
  BY DEF FinishLogic, Active
<1>2. /\ Top.args[1] \in Operand(Len(values))
      /\ Top.target \in Destination(Len(values))
  BY <1>1, OperandsType DEF ExprKind
<1>3. Top.decision \in 1 .. Len(blocks) /\ Top.merge \in 1 .. Len(blocks)
  <2>1. Top \in StackFrame
    BY TopFrame DEF TypeOK, StackType, StackFrame, Top
  <2>2. Top \in RightFrame(Len(values), Len(blocks))
    BY <1>1, <2>1, Lengths, FrameByKind DEF StackFrame, TypeOK
  <2>3. QED
    BY <2>2 DEF RightFrame
<1>4. /\ NewResult(Top.target, "BOOL")
      /\ blocks' = Emit(joined, Top.merge, phi)
      /\ cur' = Top.merge /\ Return(result)
      /\ UNCHANGED <<runVars, bindings, semVars, fuel>>
  BY DEF FinishLogic
<1>5. NamesGrow /\ result \in ValueOperand(Len(values'))
  <2>1. "BOOL" \in Type
    BY DEF Type, ValType
  <2>2. QED
    BY <1>2, <1>4, <2>1, NewResultType DEF TypeOK, NamesGrow
<1>6. /\ Len(values') \in Nat /\ Len(blocks) \in Nat
      /\ blocks \in Seq(Block(Len(values'), Len(blocks)))
      /\ cur \in 1 .. Len(blocks)
  BY <1>5, CodeKept, Lengths DEF TypeOK
<1>7. phi \in Instr(Len(values'), Len(blocks))
  <2>1. short \in Operand(Len(values'))
    BY DEF LitOp, Operand, Type, ValType
  <2>2. Top.args[1] \in Operand(Len(values'))
    BY <1>2, <1>5, <1>6, Lengths, OperandGrows DEF NamesGrow, TypeOK
  <2> HIDE DEF result, short
  <2>3. <<short, Top.args[1]>> \in Seq(Operand(Len(values')))
    BY <2>1, <2>2
  <2>4. <<Top.decision, cur>> \in Seq(1 .. Len(blocks))
    BY <1>3, <1>6
  <2>5. QED
    BY <1>5, <2>3, <2>4 DEF Phi, Instr
<1> HIDE DEF result, joined, phi
<1>8. /\ joined \in Seq(Block(Len(values'), Len(blocks)))
      /\ Len(joined) = Len(blocks)
  <2> DEFINE n == Len(values')
             m == Len(blocks)
             target == Top.merge
  <2>1. /\ n \in Nat /\ m \in Nat /\ blocks \in Seq(Block(n, m))
        /\ {cur, target} \subseteq 1 .. Len(blocks) /\ Len(blocks) <= m
    BY <1>3, <1>6
  <2> HIDE DEF n, m, target
  <2>2. /\ Branch(blocks, cur, target) \in Seq(Block(n, m))
        /\ Len(Branch(blocks, cur, target)) = Len(blocks)
    BY <2>1, BranchType
  <2>3. QED
    BY <2>2 DEF joined, n, m, target
<1>9. /\ blocks' \in Seq(Block(Len(values'), Len(blocks)))
      /\ Len(blocks') = Len(blocks)
  BY <1>3, <1>4, <1>6, <1>7, <1>8, EmitType
<1>10. Grows
  BY <1>5, <1>6, <1>9 DEF NamesGrow, Grows
<1>11. StackType'
  BY <1>1, <1>4, <1>5, <1>10, ReturnStack DEF TypeOK, OperandKind, Operand
<1>12. RestType'
  BY <1>4, SameRest DEF TypeOK
<1>13. bindings' \in Snapshot(Len(values'))
  BY <1>4, <1>5, CodeKept DEF TypeOK
<1>14. QED
  BY <1>3, <1>4, <1>5, <1>9, <1>10, <1>11, <1>12, <1>13, TypeFromParts
  DEF NamesGrow

\* emit_expression as a whole.
LEMMA ExpressionType ==
  ASSUME TypeOK, Expression
  PROVE  TypeOK'
<1>1. CASE \E t \in ValType : Literal(t)
  BY <1>1, LiteralType
<1>2. CASE \E n \in Name : Identifier(n)
  BY <1>2, IdentifierType
<1>3. CASE \E n \in Name : UnboundIdentifier(n)
  BY <1>3, FailType DEF UnboundIdentifier, Error
<1>4. CASE \E t \in UNION { DeclTypes[n] : n \in Name } :
             \E op \in {"ARITH", "CMP"} : BeginBinary(op, t)
  <2>1. UNION { DeclTypes[n] : n \in Name } \subseteq ValType
    BY DeclTypesAssumption
  <2>2. QED
    BY <1>4, <2>1, BeginBinaryType
<1>5. CASE BeginNot
  BY <1>5, BeginNotType
<1>6. CASE \E isOr \in BOOLEAN : BeginLogic(isOr)
  BY <1>6, BeginLogicType
<1>7. CASE \E f \in Callees : BeginCall(f)
  BY <1>7, BeginCallType
<1>8. CASE FinishBinary \/ FinishNot
  BY <1>8, FinishBinaryType, FinishNotType
<1>9. CASE DropLogic \/ SplitLogic \/ FinishLogic
  BY <1>9, DropLogicType, SplitLogicType, FinishLogicType
<1>10. CASE FinishCall \/ ArgumentMismatch
  BY <1>10, FinishCallType, ArgumentMismatchType
<1>11. QED
  BY <1>1, <1>2, <1>3, <1>4, <1>5, <1>6, <1>7, <1>8, <1>9, <1>10 DEF Expression

-----------------------------------------------------------------------------
\* emit_statement, action by action.

\* A declaration of the analysis keeps its tables typed.
LEMMA DeclareType ==
  ASSUME RestType, NEW n \in Name, NEW t \in ValType, Declare(n, t)
  PROVE  /\ decl' \in [Name -> [type : Type, init : BOOLEAN]]
         /\ scopes' \in Seq(SUBSET Name)
<1>1. [type |-> t, init |-> FALSE] \in [type : Type, init : BOOLEAN]
  BY DEF Type
<1>2. decl' \in [Name -> [type : Type, init : BOOLEAN]]
  BY <1>1 DEF RestType, Declare
<1>3. scopes' \in Seq(SUBSET Name)
  <2>1. scopes \in Seq(SUBSET Name)
    BY DEF RestType
  <2> DEFINE s == scopes[Len(scopes)] \cup {n}
  <2>2. scopes' = [scopes EXCEPT ![Len(scopes)] = s]
    BY DEF Declare
  <2>3. CASE Len(scopes) = 0
    <3>1. scopes' = scopes
      BY <2>1, <2>2, <2>3
    <3>2. QED
      BY <2>1, <3>1
  <2>4. CASE Len(scopes) # 0
    <3>1. Len(scopes) \in 1 .. Len(scopes)
      BY <2>1, <2>4
    <3>2. s \in SUBSET Name
      BY <2>1, <3>1, ElementType
    <3> HIDE DEF s
    <3>3. QED
      BY <2>1, <2>2, <3>1, <3>2
  <2>5. QED
    BY <2>3, <2>4
<1>4. QED
  BY <1>2, <1>3

\* Leaving a scope keeps the tables of the analysis typed.
LEMMA LeaveType ==
  ASSUME RestType
  PROVE  /\ [n \in Name |-> IF n \in Last(scopes) THEN Undeclared
                            ELSE decl[n]]
              \in [Name -> [type : Type, init : BOOLEAN]]
         /\ Front(scopes) \in Seq(SUBSET Name)
<1>1. Undeclared \in [type : Type, init : BOOLEAN]
  BY DEF Undeclared, Type
<1>2. Front(scopes) \in Seq(SUBSET Name)
  <2>1. scopes \in Seq(SUBSET Name) /\ Len(scopes) \in Nat
    BY DEF RestType
  <2>2. CASE Len(scopes) = 0
    BY <2>1, <2>2 DEF Front
  <2>3. CASE Len(scopes) > 0
    BY <2>1, <2>3 DEF Front
  <2>4. QED
    BY <2>1, <2>2, <2>3
<1>3. QED
  BY <1>1, <1>2 DEF RestType

\* The statement that is picked uses up one.
LEMMA StartStatementType ==
  ASSUME RestType, NEW kind, StartStatement(kind)
  PROVE  stmts' \in Nat /\ Top.kind \in ListKind
BY DEF RestType, StartStatement, NextStatement, InList

\* AST_VARIABLE without a value
LEMMA DeclareOnlyType ==
  ASSUME TypeOK, NEW n \in Name, NEW t \in ValType, DeclareOnly(n, t)
  PROVE  TypeOK'
<1>1. /\ UNCHANGED <<runVars, irVars, nameVars, ctrl, exprs>>
      /\ stmts' \in Nat
  BY StartStatementType DEF DeclareOnly, TypeOK
<1>2. Grows
  BY <1>1, SameNames, SameCode DEF TypeOK, irVars, nameVars
<1>3. StackType'
  BY <1>1, <1>2, SameStack DEF TypeOK
<1>4. RestType'
  BY <1>1, DeclareType DEF DeclareOnly, TypeOK, RestType, runVars
<1>5. QED
  BY <1>1, <1>2, <1>3, <1>4, TypeFromParts
  DEF TypeOK, IRType, NamesType, irVars, nameVars, valueVars

\* emit_assignment creates the destination before the right-hand side.
LEMMA BeginAssignmentType ==
  ASSUME TypeOK, NEW n \in Name, NEW u \in Type, NEW t \in Type,
         Top.kind \in ListKind, BeginAssignment(n, u, t), RestType'
  PROVE  TypeOK'
<1> DEFINE f == [kind |-> "ASSIGN", name |-> n, dest |-> ValueOp(NextId, t),
                 wants |-> <<u>>, args |-> << >>]
<1>1. /\ Push(f) /\ NewValue(n, t)
      /\ UNCHANGED <<runVars, irVars, bindings, exprs>>
  BY DEF BeginAssignment
<1>2. NamesGrow /\ Len(values') = Len(values) + 1
  <2>1. n \in AllName /\ Len(values) \in Nat
    BY Lengths DEF TypeOK, AllName
  <2>2. QED
    BY <1>1, <2>1, NewValueType DEF TypeOK, NamesGrow
<1>3. Grows
  BY <1>1, <1>2, SameCode DEF TypeOK, irVars
<1>4. f \in StackFrame' /\ f.kind = "ASSIGN"
  <2>1. ValueOp(NextId, t) \in ValueOperand(Len(values'))
    BY <1>2, Lengths DEF ValueOp, NextId, ValueOperand, TypeOK
  <2>2. f \in AssignFrame(Len(values'))
    BY <2>1 DEF AssignFrame, OneType
  <2>3. QED
    BY <2>2 DEF Frame, StackFrame
<1> HIDE DEF f
<1>5. StackType'
  BY <1>1, <1>3, <1>4, PushType DEF TypeOK, Calls, StatementKind
<1>6. bindings' \in Snapshot(Len(values')) /\ cur' \in 1 .. Len(blocks')
  BY <1>1, <1>2, CodeKept DEF TypeOK, IRType, irVars
<1>7. QED
  BY <1>2, <1>3, <1>5, <1>6, TypeFromParts DEF NamesGrow

\* AST_VARIABLE with a value
LEMMA DeclareAndAssignType ==
  ASSUME TypeOK, NEW n \in Name, NEW t \in ValType, DeclareAndAssign(n, t)
  PROVE  TypeOK'
<1>1. RestType' /\ Top.kind \in ListKind
  BY StartStatementType, DeclareType
  DEF DeclareAndAssign, BeginAssignment, TypeOK, RestType, runVars
<1>2. QED
  BY <1>1, BeginAssignmentType DEF DeclareAndAssign, Type

\* AST_ASSIGNMENT
LEMMA AssignType ==
  ASSUME TypeOK, NEW n \in Name, Assign(n)
  PROVE  TypeOK'
<1>1. RestType' /\ Top.kind \in ListKind
  BY StartStatementType
  DEF Assign, BeginAssignment, TypeOK, RestType, runVars, semVars
<1>2. bindings[n] \in 1 .. Len(values)
  BY Lengths DEF TypeOK, NamesType, Snapshot, Assign, Invalid, AllName
<1>3. decl[n].type \in Type /\ values[bindings[n]].type \in Type
  BY <1>2, ValueOfType DEF TypeOK, RestType
<1>4. QED
  BY <1>1, <1>3, BeginAssignmentType DEF Assign

\* emit_assignment after the evaluation
LEMMA FinishAssignmentType ==
  ASSUME TypeOK, FinishAssignment
  PROVE  TypeOK'
<1>1. Top.kind = "ASSIGN" /\ Complete
  BY DEF FinishAssignment, Active
<1>2. CASE Top.args[1].type # Top.dest.type
  BY <1>2, FailType DEF FinishAssignment, Error
<1>3. CASE Top.args[1].type = Top.dest.type
  <2>1. /\ Top.args[1] \in Operand(Len(values))
        /\ Top.dest \in ValueOperand(Len(values)) /\ Top.name \in Name
    <3>1. Top \in StackFrame
      BY TopFrame DEF TypeOK, StackType, StackFrame, Top
    <3>2. Top \in AssignFrame(Len(values))
      BY <1>1, <3>1, Lengths, FrameByKind DEF StackFrame, TypeOK
    <3>3. QED
      BY <1>1, <3>2, OperandsType DEF AssignFrame, ExprKind
  <2>2. /\ blocks' = Store(Top.dest, Top.args[1])
        /\ bindings' = [bindings EXCEPT ![Top.name] = Top.dest.id]
        /\ decl' = [decl EXCEPT ![Top.name].init = TRUE]
        /\ Pop
        /\ UNCHANGED <<runVars, cur, valueVars, scopes, fuel>>
    BY <1>3 DEF FinishAssignment, Initialise
  <2>3. NamesGrow /\ Len(values') = Len(values)
    BY <2>2, SameNames DEF TypeOK, valueVars
  <2>4. Grows /\ Len(blocks') = Len(blocks)
    <3>1. CASE Top.args[1] = Top.dest
      <4>1. UNCHANGED blocks
        BY <2>2, <3>1 DEF Store
      <4>2. QED
        BY <2>3, <4>1, SameCode DEF TypeOK
    <3>2. CASE Top.args[1] # Top.dest
      <4>1. <<Top.args[1]>> \in Seq(Operand(Len(values)))
        BY <2>1
      <4>2. Instruction("COPY", Top.dest, <<Top.args[1]>>)
              \in Instr(Len(values'), Len(blocks))
        BY <2>1, <2>3, <4>1, Lengths, InstructionType
        DEF TypeOK, Opcode, Operand
      <4>3. QED
        BY <2>2, <2>3, <3>2, <4>2, EmitGrows DEF TypeOK, Store
    <3>3. QED
      BY <3>1, <3>2
  <2>5. StackType'
    BY <1>1, <2>2, <2>4, PopStack DEF TypeOK
  <2>6. bindings' \in Snapshot(Len(values'))
    <3>1. Top.dest.id \in 0 .. Len(values)
      BY <2>1, Lengths DEF TypeOK, ValueOperand
    <3>2. QED
      BY <2>2, <2>3, <3>1 DEF TypeOK, NamesType, Snapshot
  <2>7. RestType'
    <3>1. decl' \in [Name -> [type : Type, init : BOOLEAN]]
      BY <2>2 DEF TypeOK, RestType
    <3>2. QED
      BY <2>2, <3>1 DEF TypeOK, RestType, runVars, fuel
  <2>8. QED
    BY <2>2, <2>3, <2>4, <2>5, <2>6, <2>7, TypeFromParts
    DEF TypeOK, IRType, NamesGrow
<1>4. QED
  BY <1>2, <1>3

\* A statement begins with an activation that waits for an operand.
LEMMA BeginStatementType ==
  ASSUME TypeOK, NEW f \in StackFrame, NEW kind, StartStatement(kind),
         f.kind \in StatementKind \cup {"CALL"}, Push(f),
         UNCHANGED <<runVars, irVars, nameVars, semVars, exprs>>
  PROVE  TypeOK'
<1>1. Grows /\ StackFrame' = StackFrame
  <2>1. Grows
    BY SameNames, SameCode DEF TypeOK, irVars, nameVars
  <2>2. QED
    BY <2>1 DEF StackFrame, irVars, nameVars, valueVars
<1>2. Calls(Top.kind, f.kind) /\ stmts' \in Nat
  BY StartStatementType DEF Calls, TypeOK
<1>3. StackType'
  BY <1>1, <1>2, PushType DEF TypeOK
<1>4. RestType'
  BY <1>2 DEF TypeOK, RestType, runVars, semVars
<1>5. QED
  BY <1>1, <1>3, <1>4, TypeFromParts
  DEF TypeOK, IRType, NamesType, irVars, nameVars, valueVars

\* AST_RET with a value
LEMMA BeginReturnType ==
  ASSUME TypeOK, BeginReturn
  PROVE  TypeOK'
<1> DEFINE f == [kind |-> "RETURN", wants |-> <<fn.ret>>, args |-> << >>]
<1>1. fn.ret \in Type
  BY HeadersAssumption DEF TypeOK, RestType
<1>2. f \in StackFrame /\ f.kind \in StatementKind
  <2>1. f \in ValueFrame(Len(values))
    BY <1>1 DEF ValueFrame, OneType
  <2>2. QED
    BY <2>1 DEF StackFrame, Frame, StatementKind
<1> HIDE DEF f
<1>3. Push(f)
  BY DEF BeginReturn, f
<1>4. QED
  BY <1>2, <1>3, BeginStatementType DEF BeginReturn

\* A return instruction ends the current block.
LEMMA EmitReturnGrows ==
  ASSUME TypeOK, NEW args \in Seq(Operand(Len(values))), EmitReturn(args),
         UNCHANGED valueVars
  PROVE  Grows /\ Len(blocks') = Len(blocks)
<1> DEFINE ret  == Instruction("RET", NoOperand, args)
           done == Emit(blocks, cur, ret)
<1>1. ret \in Instr(Len(values), Len(blocks))
  BY Lengths, InstructionType, NoOperandType DEF TypeOK, Opcode
<1> HIDE DEF ret
<1>2. /\ done \in Seq(Block(Len(values), Len(blocks)))
      /\ Len(done) = Len(blocks)
  BY <1>1, Lengths, EmitType DEF TypeOK, IRType
<1> HIDE DEF done
<1>3. blocks' = Terminate(done, cur)
  BY DEF EmitReturn, done, ret
<1>4. /\ blocks' \in Seq(Block(Len(values), Len(blocks)))
      /\ Len(blocks') = Len(blocks)
  BY <1>2, <1>3, Lengths, TerminateType DEF TypeOK
<1>5. QED
  BY <1>4, SameNames, Lengths DEF TypeOK, NamesGrow, Grows, valueVars

\* AST_RET after its value: a return instruction or an error.
LEMMA FinishReturnType ==
  ASSUME TypeOK, FinishReturn
  PROVE  TypeOK'
<1>1. Top.kind = "RETURN" /\ Complete
  BY DEF FinishReturn, Active
<1>2. CASE Top.args[1].type # fn.ret
  BY <1>2, FailType DEF FinishReturn, Error
<1>3. CASE Top.args[1].type = fn.ret
  <2>1. /\ EmitReturn(Top.args) /\ EndStatement(TRUE)
        /\ UNCHANGED <<runVars, cur, nameVars, semVars, fuel>>
    BY <1>3 DEF FinishReturn
  <2>2. Top.args \in Seq(Operand(Len(values)))
    BY <1>1, OperandsType DEF ExprKind
  <2>3. Grows /\ Len(blocks') = Len(blocks)
    BY <2>1, <2>2, EmitReturnGrows DEF nameVars
  <2>4. StackType'
    BY <1>1, <2>1, <2>3, EndStatementStack DEF TypeOK, StatementKind
  <2>5. RestType'
    BY <2>1, SameRest DEF TypeOK
  <2>6. QED
    BY <2>1, <2>3, <2>4, <2>5, TypeFromParts
    DEF TypeOK, IRType, NamesType, nameVars, valueVars
<1>4. QED
  BY <1>2, <1>3

\* AST_RET without a value
LEMMA ReturnNothingType ==
  ASSUME TypeOK, ReturnNothing
  PROVE  TypeOK'
<1>1. CASE fn.ret # "VOID"
  BY <1>1, FailType DEF ReturnNothing, Error
<1>2. CASE fn.ret = "VOID"
  <2>1. /\ stmts' = stmts - 1 /\ stmts > 0 /\ Top.kind \in ListKind
        /\ EmitReturn(<< >>)
        /\ ctrl' = [ctrl EXCEPT ![Len(ctrl)].rets = TRUE]
        /\ UNCHANGED <<runVars, cur, nameVars, semVars, exprs>>
    BY <1>2 DEF ReturnNothing, NextStatement, InList
  <2>2. Grows /\ Len(blocks') = Len(blocks)
    <3>1. << >> \in Seq(Operand(Len(values)))
      OBVIOUS
    <3>2. QED
      BY <2>1, <3>1, EmitReturnGrows DEF nameVars
  <2>3. StackType'
    <3> DEFINE i == Len(ctrl)
               f == [Top EXCEPT !.rets = TRUE]
    <3>1. /\ ctrl \in Seq(StackFrame') /\ Nested(ctrl) /\ i \in 1 .. i
          /\ Top = ctrl[i] /\ Top \in StackFrame'
          /\ Len(values)' \in Nat /\ Len(blocks)' \in Nat /\ Len(names)' \in Nat
      BY <2>2, StackGrows DEF TypeOK
    <3>2. /\ ctrl' = [ctrl EXCEPT ![i] = f]
          /\ f.rets \in BOOLEAN /\ f = [Top EXCEPT !.rets = f.rets]
      BY <2>1, <3>1, Lengths, RetsField DEF StackFrame, TypeOK
    <3> HIDE DEF f
    <3>3. f \in StackFrame' /\ f.kind = Top.kind
      BY <2>1, <3>1, <3>2, RetsType DEF StackFrame
    <3>4. QED
      BY <3>1, <3>2, <3>3, UpdateNested DEF StackType, StackFrame
  <2>4. RestType'
    BY <2>1 DEF TypeOK, RestType, runVars, semVars
  <2>5. QED
    BY <2>1, <2>2, <2>3, <2>4, TypeFromParts
    DEF TypeOK, IRType, NamesType, nameVars, valueVars
<1>3. QED
  BY <1>1, <1>2

\* AST_FCALL
LEMMA CallStatementType ==
  ASSUME TypeOK, NEW g \in Callees, CallStatement(g)
  PROVE  TypeOK'
<1> DEFINE f == [kind |-> "CALL", ret |-> g.ret, wants |-> g.params,
                 args |-> << >>, target |-> NoOperand]
<1>1. f \in StackFrame /\ f.kind = "CALL"
  <2>1. f \in CallFrame(Len(values))
    BY CalleeType DEF CallFrame, Destination
  <2>2. QED
    BY <2>1 DEF StackFrame, Frame
<1> HIDE DEF f
<1>2. Push(f)
  BY DEF CallStatement, f
<1>3. QED
  BY <1>1, <1>2, BeginStatementType DEF CallStatement

\* AST_BLOCK
LEMMA BeginBlockType ==
  ASSUME TypeOK, BeginBlock
  PROVE  TypeOK'
<1> DEFINE f == [kind |-> "BLOCK", rets |-> FALSE]
<1>1. /\ Push(f) /\ UNCHANGED <<runVars, irVars, nameVars, exprs, decl>>
      /\ stmts' \in Nat /\ Top.kind \in ListKind
      /\ scopes' = Append(scopes, {})
  BY StartStatementType DEF BeginBlock, EnterScope, TypeOK
<1>2. f \in StackFrame' /\ f.kind \in StatementKind
  BY DEF StackFrame, Frame, ListFrame, StatementKind
<1> HIDE DEF f
<1>3. Grows
  BY <1>1, SameNames, SameCode DEF TypeOK, irVars, nameVars
<1>4. StackType'
  BY <1>1, <1>2, <1>3, PushType DEF TypeOK, Calls
<1>5. RestType'
  BY <1>1 DEF TypeOK, RestType, runVars
<1>6. QED
  BY <1>1, <1>3, <1>4, <1>5, TypeFromParts
  DEF TypeOK, IRType, NamesType, irVars, nameVars, valueVars

\* The end of a block: the scope of the analysis is left.
LEMMA EndBlockType ==
  ASSUME TypeOK, EndBlock
  PROVE  TypeOK'
<1>1. /\ Top.kind = "BLOCK" /\ EndStatement(Top.rets) /\ ExitScope
      /\ UNCHANGED <<runVars, irVars, nameVars, fuel>>
  BY DEF EndBlock, Active
<1>2. Grows
  BY <1>1, SameNames, SameCode DEF TypeOK, irVars, nameVars
<1>3. Top.rets \in BOOLEAN
  BY <1>1, <1>2, StackGrows, Lengths, RetsIsBoolean
  DEF TypeOK, StackFrame, ListKind
<1>4. StackType'
  BY <1>1, <1>2, <1>3, EndStatementStack DEF TypeOK, StatementKind
<1>5. RestType'
  BY <1>1, LeaveType DEF ExitScope, TypeOK, RestType, runVars, fuel
<1>6. QED
  BY <1>1, <1>2, <1>4, <1>5, TypeFromParts
  DEF TypeOK, IRType, NamesType, irVars, nameVars, valueVars

\* emit_statement but for if and while.
LEMMA SimpleStatementType ==
  ASSUME TypeOK, SimpleStatement
  PROVE  TypeOK'
<1>1. CASE StatementAfterReturn
  BY <1>1, FailType DEF StatementAfterReturn, Error
<1>2. ASSUME NEW n \in Name
      PROVE  DeclTypes[n] \subseteq ValType
  BY DeclTypesAssumption
<1>3. CASE \E n \in Name : \E t \in DeclTypes[n] : DeclareOnly(n, t)
  BY <1>2, <1>3, DeclareOnlyType
<1>4. CASE \E n \in Name : \E t \in DeclTypes[n] : DeclareAndAssign(n, t)
  BY <1>2, <1>4, DeclareAndAssignType
<1>5. CASE \E n \in Name : Assign(n)
  BY <1>5, AssignType
<1>6. CASE \E n \in Name : AssignUnbound(n)
  BY <1>6, FailType DEF AssignUnbound, Error
<1>7. CASE FinishAssignment \/ BeginReturn \/ FinishReturn \/ ReturnNothing
  BY <1>7, FinishAssignmentType, BeginReturnType, FinishReturnType,
     ReturnNothingType
<1>8. CASE \E f \in Callees : CallStatement(f)
  BY <1>8, CallStatementType
<1>9. CASE BeginBlock \/ EndBlock
  BY <1>9, BeginBlockType, EndBlockType
<1>10. QED
  BY <1>1, <1>3, <1>4, <1>5, <1>6, <1>7, <1>8, <1>9 DEF SimpleStatement

-----------------------------------------------------------------------------
\* emit_if, action by action.

\* The innermost activation, with the sizes its type refers to.
LEMMA TopType ==
  ASSUME TypeOK
  PROVE  /\ Top \in Frame(Len(values), Len(blocks), Len(names))
         /\ Len(values) \in Nat /\ Len(blocks) \in Nat /\ Len(names) \in Nat
         /\ cur \in 1 .. Len(blocks)
         /\ blocks \in Seq(Block(Len(values), Len(blocks)))
         /\ bindings \in Snapshot(Len(values))
BY TopFrame, Lengths DEF TypeOK, IRType, NamesType, StackType, Top

\* emit_if begins with its condition.
LEMMA BeginIfType ==
  ASSUME TypeOK, BeginIf
  PROVE  TypeOK'
<1> DEFINE f == [kind |-> "IFCOND", wants |-> <<"BOOL">>, args |-> << >>]
<1>1. f \in StackFrame /\ f.kind \in StatementKind
  <2>1. f \in ValueFrame(Len(values))
    BY DEF ValueFrame, OneType, Type, ValType
  <2>2. QED
    BY <2>1 DEF StackFrame, Frame, StatementKind
<1> HIDE DEF f
<1>2. Push(f)
  BY DEF BeginIf, f
<1>3. QED
  BY <1>1, <1>2, BeginStatementType DEF BeginIf

\* An if whose condition is not bool is skipped.
LEMMA DropIfType ==
  ASSUME TypeOK, DropIf
  PROVE  TypeOK'
<1>1. Grows
  BY SameNames, SameCode DEF DropIf, TypeOK, irVars, nameVars
<1>2. Top.kind \in StatementKind
  BY DEF DropIf, Active, StatementKind
<1>3. PICK returns \in BOOLEAN : EndStatement(returns)
  BY DEF DropIf
<1>4. StackType'
  BY <1>1, <1>2, <1>3, EndStatementStack DEF TypeOK
<1>5. RestType'
  BY DEF DropIf, TypeOK, RestType, semVars, fuel
<1>6. QED
  BY <1>1, <1>4, <1>5, TypeFromParts
  DEF DropIf, TypeOK, IRType, NamesType, irVars, nameVars, valueVars

\* The condition splits control into the two branches.
LEMMA BranchIfType ==
  ASSUME TypeOK, BranchIf
  PROVE  TypeOK'
<1> DEFINE q    == Len(blocks) + 3
           wide == blocks \o <<NewBlock, NewBlock, NewBlock>>
           cond == Top.args[1]
           then == Len(blocks) + 1
           else == Len(blocks) + 2
           f == [kind |-> "THEN", rets |-> FALSE, incoming |-> bindings,
                 count |-> Len(names), else |-> else, merge |-> q]
<1>1. Top.kind = "IFCOND" /\ Complete
  BY DEF BranchIf, Active
<1>2. cond \in Operand(Len(values))
  BY <1>1, OperandsType DEF ExprKind
<1>3. /\ UNCHANGED <<runVars, nameVars, fuel, decl>>
      /\ scopes' = Append(scopes, {})
      /\ blocks' = CondBranch(wide, cur, cond, then, else)
      /\ cur' = then /\ Replace(f)
  BY DEF BranchIf, EnterScope
<1>4. /\ wide \in Seq(Block(Len(values), q)) /\ Len(wide) = q /\ Len(wide) <= q
      /\ q \in Nat /\ {cur, then, else} \subseteq 1 .. Len(wide)
  BY TopType, NewBlocksType
<1>5. then \in 1 .. q /\ f \in ThenFrame(Len(values), q, Len(names))
  BY TopType DEF ThenFrame
<1>6. f.kind = "THEN"
  OBVIOUS
<1> HIDE DEF q, wide, cond, then, else, f
<1>7. blocks' \in Seq(Block(Len(values), q)) /\ Len(blocks') = q
  BY ONLY <1>2, <1>3, <1>4, TopType, TypeOK, CondBranchType
<1>8. Grows
  BY <1>3, <1>7, TopType, SameNames
  DEF q, TypeOK, Grows, NamesGrow, nameVars, valueVars
<1>9. f \in StackFrame'
  BY <1>3, <1>5, <1>7 DEF StackFrame, Frame, nameVars, valueVars
<1>10. StackType'
  BY <1>1, <1>3, <1>6, <1>8, <1>9, ReplaceType DEF TypeOK, StatementKind
<1>11. RestType'
  BY <1>3 DEF TypeOK, RestType, runVars, fuel
<1>12. QED
  BY <1>3, <1>5, <1>7, <1>8, <1>10, <1>11, TypeFromParts
  DEF TypeOK, NamesType, nameVars, valueVars

\* The end of a branch goes on in the merge block unless it has returned.
LEMMA JoinGrows ==
  ASSUME TypeOK, NEW target, {target} \subseteq 1 .. Len(blocks),
         blocks' = Join(target), UNCHANGED valueVars
  PROVE  /\ Grows /\ Len(blocks') = Len(blocks)
         /\ StackFrame' = StackFrame
<1>1. /\ blocks' \in Seq(Block(Len(values), Len(blocks)))
      /\ Len(blocks') = Len(blocks)
  BY TopType, BranchType DEF Join
<1>2. Grows
  BY <1>1, TopType, SameNames DEF TypeOK, NamesGrow, Grows, valueVars
<1>3. QED
  BY <1>1, <1>2 DEF StackFrame, valueVars

\* What is kept of the branch that ends.
LEMMA BranchEndType ==
  ASSUME TypeOK, NEW r \in BOOLEAN
  PROVE  [bound |-> bindings, end |-> cur,
          reaches |-> ~blocks[cur].terminated, rets |-> r]
           \in BranchEnd(Len(values), Len(blocks))
<1>1. blocks[cur] \in Block(Len(values), Len(blocks))
  BY TopType, ElementType
<1>2. (~blocks[cur].terminated) \in BOOLEAN
  BY <1>1 DEF Block
<1>3. QED
  BY <1>2, TopType DEF BranchEnd

\* The then branch ends and the bindings before the if are restored.
LEMMA EndThenType ==
  ASSUME TypeOK, NEW hasElse \in BOOLEAN, EndThen(hasElse)
  PROVE  TypeOK'
<1> DEFINE then == [bound |-> bindings, end |-> cur,
                    reaches |-> ~blocks[cur].terminated, rets |-> Top.rets]
           kind == IF hasElse THEN "ELSE" ELSE "NOELSE"
           f == [kind |-> kind, rets |-> FALSE, incoming |-> Top.incoming,
                 count |-> Top.count, merge |-> Top.merge, then |-> then]
<1>1. Top.kind = "THEN"
  BY DEF EndThen, Active
<1>2. Top \in ThenFrame(Len(values), Len(blocks), Len(names))
  BY <1>1, TopType, FrameByKind
<1>3. /\ Top.rets \in BOOLEAN /\ Top.incoming \in Snapshot(Len(values))
      /\ Top.count \in 0 .. Len(names)
      /\ Top.merge \in 1 .. Len(blocks) /\ Top.else \in 1 .. Len(blocks)
  BY <1>2 DEF ThenFrame
<1>4. /\ blocks' = Join(Top.merge) /\ cur' = Top.else
      /\ bindings' = Top.incoming /\ Replace(f)
      /\ UNCHANGED <<runVars, valueVars, fuel>>
      /\ decl' = [n \in Name |-> IF n \in Last(scopes) THEN Undeclared
                                 ELSE decl[n]]
      /\ scopes' = Append(Front(scopes), {}) \/ scopes' = Front(scopes)
  BY DEF EndThen, Restore, ExitScope
<1>5. then \in BranchEnd(Len(values), Len(blocks))
  BY <1>3, BranchEndType
<1> HIDE DEF then
<1>6. f \in StackFrame /\ f.kind \in StatementKind
  <2>1. f \in ElseFrame(Len(values), Len(blocks), Len(names))
    BY <1>3, <1>5 DEF ElseFrame
  <2>2. QED
    BY <2>1 DEF StackFrame, Frame, StatementKind
<1> HIDE DEF f
<1>7. Grows /\ Len(blocks') = Len(blocks) /\ StackFrame' = StackFrame
  BY <1>3, <1>4, JoinGrows
<1>8. StackType'
  BY <1>1, <1>4, <1>6, <1>7, ReplaceType DEF TypeOK, StatementKind
<1>9. RestType'
  <2>1. scopes' \in Seq(SUBSET Name)
    BY <1>4, LeaveType DEF TypeOK
  <2>2. QED
    BY <1>4, <2>1, LeaveType DEF TypeOK, RestType, runVars, fuel
<1>10. QED
  BY <1>3, <1>4, <1>7, <1>8, <1>9, TypeFromParts
  DEF TypeOK, NamesType, valueVars

\* The else branch ends and the merge block begins.
LEMMA EndElseType ==
  ASSUME TypeOK, EndElse
  PROVE  TypeOK'
<1> DEFINE else == [bound |-> bindings, end |-> cur,
                    reaches |-> ~blocks[cur].terminated, rets |-> Top.rets]
           f == [kind |-> "MERGE", k |-> 1, count |-> Top.count,
                 incoming |-> Top.incoming, then |-> Top.then, else |-> else]
<1>1. Top.kind \in {"ELSE", "NOELSE"}
  BY DEF EndElse, Active
<1>2. Top \in ElseFrame(Len(values), Len(blocks), Len(names))
  BY <1>1, TopType, FrameByKind
<1>3. /\ Top.rets \in BOOLEAN /\ Top.incoming \in Snapshot(Len(values))
      /\ Top.count \in 0 .. Len(names) /\ Top.merge \in 1 .. Len(blocks)
      /\ Top.then \in BranchEnd(Len(values), Len(blocks))
  BY <1>2 DEF ElseFrame
<1>4. /\ blocks' = Join(Top.merge) /\ cur' = Top.merge
      /\ bindings' = Top.incoming /\ Replace(f)
      /\ UNCHANGED <<runVars, valueVars, fuel>>
      /\ ExitScope \/ UNCHANGED semVars
  BY DEF EndElse, Restore
<1>5. else \in BranchEnd(Len(values), Len(blocks))
  BY <1>3, BranchEndType
<1> HIDE DEF else
<1>6. f \in StackFrame /\ f.kind \in StatementKind
  <2>1. f \in MergeFrame(Len(values), Len(blocks), Len(names))
    BY <1>3, <1>5 DEF MergeFrame
  <2>2. QED
    BY <2>1 DEF StackFrame, Frame, StatementKind
<1> HIDE DEF f
<1>7. Grows /\ Len(blocks') = Len(blocks) /\ StackFrame' = StackFrame
  BY <1>3, <1>4, JoinGrows
<1>8. StackType'
  BY <1>1, <1>4, <1>6, <1>7, ReplaceType DEF TypeOK, StatementKind
<1>9. RestType'
  BY <1>4, LeaveType DEF ExitScope, TypeOK, RestType, runVars, fuel, semVars
<1>10. QED
  BY <1>3, <1>4, <1>7, <1>8, <1>9, TypeFromParts
  DEF TypeOK, NamesType, valueVars

\* A loop over the names goes on: k is the next position.
LEMMA NextNameStack ==
  ASSUME TypeOK, Grows, Top.kind \in {"MERGE", "HEADER"}, NextName
  PROVE  StackType'
<1> DEFINE n == Len(values)'
           m == Len(blocks)'
           l == Len(names)'
           f == [Top EXCEPT !.k = @ + 1]
<1>1. Top \in Frame(n, m, l) /\ n \in Nat /\ m \in Nat /\ l \in Nat
  BY StackGrows DEF StackFrame, TypeOK
<1>2. Top \in MergeFrame(n, m, l) \cup HeaderFrame(n, m, l)
  BY <1>1, FrameByKind
<1>3. /\ f \in MergeFrame(n, m, l) \cup HeaderFrame(n, m, l)
      /\ f.kind = Top.kind
  BY <1>2 DEF MergeFrame, HeaderFrame
<1>4. Replace(f)
  BY DEF NextName
<1> HIDE DEF f
<1>5. f \in StackFrame' /\ f.kind \in StatementKind /\ Top.kind \in StatementKind
  BY <1>3 DEF StackFrame, Frame, StatementKind
<1>6. QED
  BY <1>4, <1>5, ReplaceType DEF TypeOK

\* A phi for a name that existed before the if or the loop: a new value, an
\* instruction in the current block, and a binding.
LEMMA NewPhiType ==
  ASSUME TypeOK, NEW n \in AllName, NEW t \in Type,
         NEW args \in Seq(Operand(Len(values))),
         NEW blks \in Seq(1 .. Len(blocks)),
         NewValue(n, t),
         blocks' = Emit(blocks, cur, Phi(ValueOp(NextId, t), args, blks)),
         bindings' = [bindings EXCEPT ![n] = NextId]
  PROVE  /\ Grows /\ NamesGrow /\ Len(blocks') = Len(blocks)
         /\ bindings' \in Snapshot(Len(values'))
<1> DEFINE dest == ValueOp(NextId, t)
           phi  == Phi(dest, args, blks)
<1>1. NamesGrow /\ Len(values') = Len(values) + 1
  BY NewValueType, TopType DEF TypeOK, NamesGrow
<1>2. dest \in ValueOperand(Len(values')) /\ NextId \in 0 .. Len(values')
  BY <1>1, TopType DEF ValueOp, NextId, ValueOperand
<1>3. args \in Seq(Operand(Len(values')))
  BY <1>1, TopType, OperandGrows, SeqGrows
<1> HIDE DEF dest
<1>4. phi \in Instr(Len(values'), Len(blocks))
  BY <1>2, <1>3 DEF Phi, Instr
<1>5. blocks' = Emit(blocks, cur, phi)
  BY DEF dest
<1> HIDE DEF phi
<1>6. Grows /\ Len(blocks') = Len(blocks)
  BY <1>1, <1>4, <1>5, EmitGrows DEF TypeOK
<1>7. bindings' \in Snapshot(Len(values'))
  <2>1. bindings \in Snapshot(Len(values'))
    BY <1>1, CodeKept DEF TypeOK
  <2>2. QED
    BY <1>2, <2>1 DEF Snapshot
<1>8. QED
  BY <1>1, <1>6, <1>7

\* One name of the loop of emit_if.
LEMMA MergeNameType ==
  ASSUME TypeOK, MergeName
  PROVE  TypeOK'
<1> DEFINE n     == names[Top.k]
           bound == /\ Top.incoming[n] # Invalid
                    /\ Top.then.bound[n] # Invalid
                    /\ Top.else.bound[n] # Invalid
           both  == Top.then.reaches /\ Top.else.reaches
           type  == values[Top.incoming[n]].type
           args  == <<ValueOf(Top.then.bound[n]), ValueOf(Top.else.bound[n])>>
           blks  == <<Top.then.end, Top.else.end>>
<1>1. Top.kind = "MERGE" /\ Top.k <= Top.count /\ NextName
      /\ UNCHANGED <<runVars, cur, semVars, fuel>>
  BY DEF MergeName, Active
<1>2. Top \in MergeFrame(Len(values), Len(blocks), Len(names))
  BY <1>1, TopType, FrameByKind
<1>3. n \in AllName
  BY <1>1, <1>2, TopType DEF MergeFrame, TypeOK, NamesType
<1>4. /\ Top.incoming[n] \in 0 .. Len(values)
      /\ Top.then.bound[n] \in 0 .. Len(values)
      /\ Top.else.bound[n] \in 0 .. Len(values)
      /\ Top.then.end \in 1 .. Len(blocks) /\ Top.else.end \in 1 .. Len(blocks)
  BY <1>2, <1>3 DEF MergeFrame, Snapshot, BranchEnd
<1>5. Grows /\ NamesGrow /\ Len(blocks') = Len(blocks)
      /\ bindings' \in Snapshot(Len(values'))
  <2>1. CASE bound /\ both /\ Top.then.bound[n] # Top.else.bound[n]
    <3>1. /\ NewValue(n, type)
          /\ blocks' = Emit(blocks, cur, Phi(ValueOp(NextId, type), args, blks))
          /\ bindings' = [bindings EXCEPT ![n] = NextId]
      BY <2>1 DEF MergeName
    <3>2. type \in Type
      BY <1>4, <2>1, TopType, ValueOfType DEF Invalid, TypeOK
    <3>3. args \in Seq(Operand(Len(values)))
      <4>1. /\ ValueOf(Top.then.bound[n]) \in Operand(Len(values))
            /\ ValueOf(Top.else.bound[n]) \in Operand(Len(values))
        BY <1>4, <2>1, TopType, ValueOfType DEF Invalid, TypeOK, Operand
      <4>2. QED
        BY <4>1
    <3>4. blks \in Seq(1 .. Len(blocks))
      BY <1>4
    <3> HIDE DEF n, type, args, blks
    <3>5. QED
      BY <1>3, <3>1, <3>2, <3>3, <3>4, NewPhiType
  <2>2. CASE ~(bound /\ both /\ Top.then.bound[n] # Top.else.bound[n])
    <3>1. /\ bindings' =
                IF bound /\ Top.then.reaches /\ ~Top.else.reaches
                THEN [bindings EXCEPT ![n] = Top.then.bound[n]]
                ELSE IF bound /\ ~Top.then.reaches /\ Top.else.reaches
                THEN [bindings EXCEPT ![n] = Top.else.bound[n]]
                ELSE bindings
          /\ UNCHANGED <<valueVars, blocks>>
      BY <2>2 DEF MergeName
    <3>2. NamesGrow /\ Grows /\ Len(values') = Len(values)
      BY <3>1, SameNames, SameCode DEF TypeOK, valueVars
    <3>3. bindings' \in Snapshot(Len(values))
      BY <1>3, <1>4, <3>1, TopType DEF Snapshot
    <3>4. QED
      BY <3>1, <3>2, <3>3
  <2>3. QED
    BY <2>1, <2>2
<1>6. StackType' /\ RestType'
  BY <1>1, <1>5, NextNameStack, SameRest DEF TypeOK
<1>7. QED
  BY <1>1, <1>5, <1>6, TopType, TypeFromParts DEF NamesGrow

\* emit_if ends and its list learns whether it returns.
LEMMA EndMergeType ==
  ASSUME TypeOK, EndMerge
  PROVE  TypeOK'
<1>1. /\ Top.kind = "MERGE" /\ EndStatement(BothReturn(Top.then, Top.else))
      /\ UNCHANGED <<runVars, irVars, nameVars, semVars, fuel>>
  BY DEF EndMerge, Active
<1>2. Top \in MergeFrame(Len(values), Len(blocks), Len(names))
  BY <1>1, TopType, FrameByKind
<1>3. BothReturn(Top.then, Top.else) \in BOOLEAN
  BY <1>2 DEF MergeFrame, BranchEnd, BothReturn
<1>4. Grows
  BY <1>1, SameNames, SameCode DEF TypeOK, irVars, nameVars
<1>5. StackType'
  BY <1>1, <1>3, <1>4, EndStatementStack DEF TypeOK, StatementKind
<1>6. RestType'
  BY <1>1, SameRest DEF TypeOK
<1>7. QED
  BY <1>1, <1>4, <1>5, <1>6, TypeFromParts
  DEF TypeOK, IRType, NamesType, irVars, nameVars, valueVars

\* emit_if as a whole.
LEMMA IfStatementType ==
  ASSUME TypeOK, IfStatement
  PROVE  TypeOK'
BY BeginIfType, DropIfType, BranchIfType, EndThenType, EndElseType,
   MergeNameType, EndMergeType DEF IfStatement

-----------------------------------------------------------------------------
\* emit_while, action by action.

\* emit_while begins with the header block.
LEMMA BeginWhileType ==
  ASSUME TypeOK, BeginWhile
  PROVE  TypeOK'
<1> DEFINE q      == Len(blocks) + 3
           wide   == blocks \o <<NewBlock, NewBlock, NewBlock>>
           header == Len(blocks) + 1
           f == [kind |-> "HEADER", k |-> 1, count |-> Len(names),
                 incoming |-> bindings, pre |-> cur, header |-> header]
<1>1. /\ blocks' = Branch(wide, cur, header) /\ cur' = header /\ Push(f)
      /\ UNCHANGED <<runVars, nameVars, semVars, exprs>>
      /\ stmts' \in Nat /\ Top.kind \in ListKind
  BY StartStatementType DEF BeginWhile, TypeOK
<1>2. /\ wide \in Seq(Block(Len(values), q)) /\ Len(wide) = q /\ Len(wide) <= q
      /\ Len(values) \in Nat /\ q \in Nat /\ header \in 1 .. q
      /\ {cur, header} \subseteq 1 .. Len(wide)
  BY TopType, NewBlocksType
<1>3. f \in HeaderFrame(Len(values), q, Len(names))
  BY TopType DEF HeaderFrame
<1>4. f.kind = "HEADER"
  OBVIOUS
<1> HIDE DEF wide, header, f, q
<1>5. blocks' \in Seq(Block(Len(values), q)) /\ Len(blocks') = q
  BY <1>1, <1>2, BranchType
<1>6. Grows
  BY <1>1, <1>5, TopType, SameNames
  DEF q, TypeOK, Grows, NamesGrow, nameVars, valueVars
<1>7. f \in StackFrame'
  BY <1>1, <1>3, <1>5 DEF StackFrame, Frame, nameVars, valueVars
<1>8. StackType'
  BY <1>1, <1>4, <1>6, <1>7, PushType DEF TypeOK, Calls, StatementKind
<1>9. RestType'
  BY <1>1 DEF TypeOK, RestType, runVars, semVars
<1>10. QED
  BY <1>1, <1>2, <1>5, <1>6, <1>8, <1>9, TypeFromParts
  DEF TypeOK, NamesType, nameVars, valueVars

\* One name of the loop of emit_while.
LEMMA HeaderNameType ==
  ASSUME TypeOK, HeaderName
  PROVE  TypeOK'
<1> DEFINE n    == names[Top.k]
           type == values[Top.incoming[n]].type
           args == <<ValueOf(Top.incoming[n])>>
           blks == <<Top.pre>>
<1>1. Top.kind = "HEADER" /\ Top.k <= Top.count /\ NextName
      /\ UNCHANGED <<runVars, cur, semVars, fuel>>
  BY DEF HeaderName, Active
<1>2. Top \in HeaderFrame(Len(values), Len(blocks), Len(names))
  BY <1>1, TopType, FrameByKind
<1>3. n \in AllName
  BY <1>1, <1>2, TopType DEF HeaderFrame, TypeOK, NamesType
<1>4. Top.incoming[n] \in 0 .. Len(values) /\ Top.pre \in 1 .. Len(blocks)
  BY <1>2, <1>3 DEF HeaderFrame, Snapshot
<1>5. Grows /\ NamesGrow /\ Len(blocks') = Len(blocks)
      /\ bindings' \in Snapshot(Len(values'))
  <2>1. CASE Top.incoming[n] # Invalid
    <3>1. /\ NewValue(n, type)
          /\ blocks' = Emit(blocks, cur, Phi(ValueOp(NextId, type), args, blks))
          /\ bindings' = [bindings EXCEPT ![n] = NextId]
      BY <2>1 DEF HeaderName
    <3>2. type \in Type
      BY <1>4, <2>1, TopType, ValueOfType DEF Invalid, TypeOK
    <3>3. args \in Seq(Operand(Len(values)))
      <4>1. ValueOf(Top.incoming[n]) \in Operand(Len(values))
        BY <1>4, <2>1, TopType, ValueOfType DEF Invalid, TypeOK, Operand
      <4>2. QED
        BY <4>1
    <3>4. blks \in Seq(1 .. Len(blocks))
      BY <1>4
    <3> HIDE DEF n, type, args, blks
    <3>5. QED
      BY <1>3, <3>1, <3>2, <3>3, <3>4, NewPhiType
  <2>2. CASE Top.incoming[n] = Invalid
    <3>1. UNCHANGED <<nameVars, blocks>>
      BY <2>2 DEF HeaderName
    <3>2. NamesGrow /\ Grows /\ Len(values') = Len(values)
      BY <3>1, SameNames, SameCode DEF TypeOK, valueVars, nameVars
    <3>3. QED
      BY <3>1, <3>2, TopType DEF nameVars
  <2>3. QED
    BY <2>1, <2>2
<1>6. StackType' /\ RestType'
  BY <1>1, <1>5, NextNameStack, SameRest DEF TypeOK
<1>7. QED
  BY <1>1, <1>5, <1>6, TopType, TypeFromParts DEF NamesGrow

\* The header has its phis; the condition is next.
LEMMA EndHeaderType ==
  ASSUME TypeOK, EndHeader
  PROVE  TypeOK'
<1> DEFINE f == [kind |-> "WHILECOND", wants |-> <<"BOOL">>, args |-> << >>,
                 incoming |-> Top.incoming, header |-> Top.header]
<1>1. /\ Top.kind = "HEADER" /\ Replace(f)
      /\ UNCHANGED <<runVars, irVars, nameVars, semVars, fuel>>
  BY DEF EndHeader, Active
<1>2. Top \in HeaderFrame(Len(values), Len(blocks), Len(names))
  BY <1>1, TopType, FrameByKind
<1>3. f \in StackFrame /\ f.kind \in StatementKind
  <2>1. f \in WhileFrame(Len(values), Len(blocks))
    BY <1>2 DEF HeaderFrame, WhileFrame, OneType, Type, ValType
  <2>2. QED
    BY <2>1 DEF StackFrame, Frame, StatementKind
<1> HIDE DEF f
<1>4. Grows /\ StackFrame' = StackFrame
  <2>1. Grows
    BY <1>1, SameNames, SameCode DEF TypeOK, irVars, nameVars
  <2>2. QED
    BY <1>1, <2>1 DEF StackFrame, irVars, nameVars, valueVars
<1>5. StackType'
  BY <1>1, <1>3, <1>4, ReplaceType DEF TypeOK, StatementKind
<1>6. RestType'
  BY <1>1, SameRest DEF TypeOK
<1>7. QED
  BY <1>1, <1>4, <1>5, <1>6, TypeFromParts
  DEF TypeOK, IRType, NamesType, irVars, nameVars, valueVars

\* The condition splits control into the body and the exit.
LEMMA BranchWhileType ==
  ASSUME TypeOK, BranchWhile
  PROVE  TypeOK'
<1> DEFINE cond == Top.args[1]
           body == Top.header + 1
           exit == Top.header + 2
           f == [kind |-> "LOOP", rets |-> FALSE, incoming |-> Top.incoming,
                 bound |-> bindings, header |-> Top.header]
<1>1. Top.kind = "WHILECOND" /\ Complete
  BY DEF BranchWhile, Active
<1>2. CASE Top.args[1].type # "BOOL"
  BY <1>2, FailType DEF BranchWhile, Error
<1>3. CASE Top.args[1].type = "BOOL"
  <2>1. /\ blocks' = CondBranch(blocks, cur, cond, body, exit)
        /\ cur' = body /\ Replace(f)
        /\ UNCHANGED <<runVars, nameVars, fuel, decl>>
        /\ scopes' = Append(scopes, {})
    BY <1>3 DEF BranchWhile, EnterScope
  <2>2. Top \in WhileFrame(Len(values), Len(blocks))
    BY <1>1, TopType, FrameByKind
  <2>3. /\ {cur, body, exit} \subseteq 1 .. Len(blocks)
        /\ Len(blocks) <= Len(blocks)
    BY <2>2, TopType DEF WhileFrame
  <2>4. cond \in Operand(Len(values))
    BY <1>1, OperandsType DEF ExprKind
  <2>5. f \in StackFrame /\ f.kind \in StatementKind
    <3>1. f \in LoopFrame(Len(values), Len(blocks))
      BY <2>2, TopType DEF WhileFrame, LoopFrame
    <3>2. QED
      BY <3>1 DEF StackFrame, Frame, StatementKind
  <2> HIDE DEF cond, body, exit, f
  <2>6. /\ blocks' \in Seq(Block(Len(values), Len(blocks)))
        /\ Len(blocks') = Len(blocks)
    BY ONLY <2>1, <2>3, <2>4, TopType, TypeOK, CondBranchType
  <2>7. Grows /\ StackFrame' = StackFrame
    <3>1. Grows
      BY <2>1, <2>6, TopType, SameNames
      DEF TypeOK, Grows, NamesGrow, nameVars, valueVars
    <3>2. QED
      BY <2>1, <2>6, <3>1 DEF StackFrame, nameVars, valueVars
  <2>8. StackType'
    BY <1>1, <2>1, <2>5, <2>7, ReplaceType DEF TypeOK, StatementKind
  <2>9. RestType'
    BY <2>1 DEF TypeOK, RestType, runVars, fuel
  <2>10. cur' \in 1 .. Len(blocks')
    BY <2>1, <2>3, <2>6
  <2>11. QED
    BY <2>1, <2>7, <2>8, <2>9, <2>10, TypeFromParts
    DEF TypeOK, NamesType, nameVars, valueVars
<1>4. QED
  BY <1>2, <1>3

\* Adding the value of the back edge keeps a phi a phi.
LEMMA PhiEntryType ==
  ASSUME NEW n \in Nat, NEW m \in Nat, NEW phi \in Instr(n, m),
         phi.op = "PHI", NEW o \in Operand(n), NEW b, {b} \subseteq 1 .. m
  PROVE  PhiEntry(phi, o, b) \in Instr(n, m)
<1>1. /\ phi \in [op : {"PHI"}, dest : ValueOperand(n),
                  args : Seq(Operand(n)), blks : Seq(1 .. m)]
  BY DEF Instr
<1>2. Append(phi.args, o) \in Seq(Operand(n)) /\ Append(phi.blks, b) \in Seq(1 .. m)
  BY <1>1
<1>3. QED
  BY <1>1, <1>2 DEF PhiEntry, Instr

\* The code of a header after its phis have received the back edge.
LEMMA CloseLoopType ==
  ASSUME TypeOK, Top.kind = "LOOP",
         NEW bs \in Seq(Block(Len(values), Len(blocks))),
         Len(bs) = Len(blocks)
  PROVE  /\ CloseLoop(bs, Top.header) \in Seq(Block(Len(values), Len(blocks)))
         /\ Len(CloseLoop(bs, Top.header)) = Len(blocks)
<1> DEFINE h    == Top.header
           I    == Instr(Len(values), Len(blocks))
           code == bs[h].code
           E(i) == LET instr == code[i]
                       value == BackEdgeValue(instr.dest.id)
                   IN  IF IsLeadingPhi(code, i) /\ value # Invalid
                       THEN PhiEntry(instr, ValueOf(value), cur)
                       ELSE instr
           new  == [i \in DOMAIN code |-> E(i)]
<1>1. Top \in LoopFrame(Len(values), Len(blocks))
  BY TopType, FrameByKind
<1>2. h \in 1 .. Len(bs) /\ Top.incoming \in Snapshot(Len(values))
  BY <1>1, TopType DEF LoopFrame
<1>3. bs[h] \in Block(Len(values), Len(blocks)) /\ code \in Seq(I)
  <2>1. bs[h] \in Block(Len(values), Len(blocks))
    BY <1>2, ElementType
  <2>2. QED
    BY <2>1 DEF Block
<1> HIDE DEF code
<1>4. ASSUME NEW i \in DOMAIN code
      PROVE  E(i) \in I
  <2> DEFINE instr == code[i]
             value == BackEdgeValue(instr.dest.id)
  <2>1. instr \in I
    BY <1>3
  <2>2. CASE IsLeadingPhi(code, i) /\ value # Invalid
    <3>1. i \in 1 .. i /\ instr.op = "PHI"
      BY <1>3, <2>2 DEF IsLeadingPhi
    <3>2. instr.dest \in ValueOperand(Len(values))
      BY <2>1, <3>1 DEF Instr
    <3>3. instr.dest.id \in 1 .. Len(values)
      BY <3>2 DEF ValueOperand
    <3>4. values[instr.dest.id].name \in AllName
      BY <3>3, ValueOfType DEF TypeOK
    <3>5. value \in 0 .. Len(values)
      BY <1>2, <3>4, TopType DEF BackEdgeValue, Snapshot
    <3> HIDE DEF value
    <3>6. ValueOf(value) \in Operand(Len(values))
      BY <2>2, <3>5, TopType, ValueOfType DEF Invalid, TypeOK, Operand
    <3>7. {cur} \subseteq 1 .. Len(blocks)
      BY TopType
    <3> HIDE DEF instr
    <3>8. PhiEntry(instr, ValueOf(value), cur) \in I
      BY <2>1, <3>1, <3>6, <3>7, TopType, PhiEntryType
    <3>9. E(i) = PhiEntry(instr, ValueOf(value), cur)
      BY <2>2 DEF instr, value
    <3>10. QED
      BY <3>8, <3>9
  <2>3. CASE ~(IsLeadingPhi(code, i) /\ value # Invalid)
    BY <2>1, <2>3
  <2>4. QED
    BY <2>2, <2>3
<1>5. new \in Seq(I)
  <2>1. DOMAIN code = 1 .. Len(code) /\ Len(code) \in Nat
    BY <1>3
  <2> HIDE DEF E, I
  <2>2. QED
    BY <1>4, <2>1
<1>6. [bs[h] EXCEPT !.code = new] \in Block(Len(values), Len(blocks))
  <2> HIDE DEF new
  <2>1. QED
    BY <1>3, <1>5 DEF Block
<1>7. CloseLoop(bs, h) = [bs EXCEPT ![h] = [bs[h] EXCEPT !.code = new]]
  BY DEF CloseLoop, code
<1> HIDE DEF new, h
<1>8. QED
  BY <1>2, <1>6, <1>7, TopType DEF h

\* The body ends: the back edge, and the bindings of the header.
LEMMA EndLoopType ==
  ASSUME TypeOK, EndLoop
  PROVE  TypeOK'
<1> DEFINE back == Branch(blocks, cur, Top.header)
<1>1. /\ Top.kind = "LOOP" /\ EndStatement(FALSE)
      /\ blocks' = IF blocks[cur].terminated THEN blocks
                   ELSE CloseLoop(back, Top.header)
      /\ cur' = Top.header + 2 /\ bindings' = Top.bound
      /\ ExitScope
      /\ UNCHANGED <<runVars, valueVars, fuel>>
  BY DEF EndLoop, Active, Restore
<1>2. Top \in LoopFrame(Len(values), Len(blocks))
  BY <1>1, TopType, FrameByKind
<1>3. /\ cur' \in 1 .. Len(blocks) /\ bindings' \in Snapshot(Len(values))
      /\ {cur, Top.header} \subseteq 1 .. Len(blocks)
      /\ Len(blocks) <= Len(blocks)
  BY <1>1, <1>2, TopType DEF LoopFrame
<1>4. /\ back \in Seq(Block(Len(values), Len(blocks)))
      /\ Len(back) = Len(blocks)
  <2> DEFINE h == Top.header
  <2>1. {cur, h} \subseteq 1 .. Len(blocks) /\ back = Branch(blocks, cur, h)
    BY <1>3
  <2> HIDE DEF h, back
  <2>2. QED
    BY ONLY <2>1, <1>3, TypeOK, TopType, BranchType
<1> HIDE DEF back
<1>5. /\ blocks' \in Seq(Block(Len(values), Len(blocks)))
      /\ Len(blocks') = Len(blocks)
  BY <1>1, <1>4, TopType, CloseLoopType
<1>6. Grows
  BY <1>1, <1>5, TopType, SameNames
  DEF TypeOK, Grows, NamesGrow, valueVars
<1>7. StackType'
  BY <1>1, <1>6, EndStatementStack DEF TypeOK, StatementKind
<1>8. RestType'
  BY <1>1, LeaveType DEF ExitScope, TypeOK, RestType, runVars, fuel
<1>9. QED
  BY <1>1, <1>3, <1>5, <1>6, <1>7, <1>8, TypeFromParts
  DEF TypeOK, NamesType, valueVars

\* emit_while as a whole.
LEMMA WhileStatementType ==
  ASSUME TypeOK, WhileStatement
  PROVE  TypeOK'
BY BeginWhileType, HeaderNameType, EndHeaderType, BranchWhileType, EndLoopType
DEF WhileStatement

-----------------------------------------------------------------------------
\* The end of emit_function, and collapse_degenerate_phis.

\* emit_function ends with a return instruction or an error.
LEMMA EndFunctionType ==
  ASSUME TypeOK, EndFunction
  PROVE  TypeOK'
<1>1. UNCHANGED <<fn, cur, nameVars, ctrl, semVars, dropped, cursor, fuel>>
  BY DEF EndFunction
<1>2. /\ Grows /\ Len(blocks') = Len(blocks)
  <2>1. NamesGrow
    BY <1>1, SameNames DEF TypeOK, nameVars
  <2>2. CASE UNCHANGED blocks
    BY <2>1, <2>2, SameCode DEF TypeOK
  <2>3. CASE blocks' = FinalReturn(blocks)
    <3> DEFINE ret == Instruction("RET", NoOperand, << >>)
    <3>1. << >> \in Seq(Operand(Len(values'))) /\ Len(values') \in Nat
      BY <2>1, CodeKept DEF TypeOK
    <3>2. ret \in Instr(Len(values'), Len(blocks))
      BY <3>1, TopType, InstructionType, NoOperandType DEF Opcode
    <3>3. blocks' = Emit(blocks, cur, ret)
      BY <2>3 DEF FinalReturn
    <3> HIDE DEF ret
    <3>4. QED
      BY <2>1, <3>2, <3>3, EmitGrows DEF TypeOK
  <2>4. QED
    BY <2>2, <2>3 DEF EndFunction
<1>3. StackType'
  BY <1>1, <1>2, SameStack DEF TypeOK
<1>4. RestType'
  <2>1. status' \in Status
    BY DEF EndFunction, Status, Error
  <2>2. QED
    BY <1>1, <2>1 DEF TypeOK, RestType, semVars, fuel
<1>5. QED
  BY <1>1, <1>2, <1>3, <1>4, TypeFromParts
  DEF TypeOK, IRType, NamesType, nameVars, valueVars

\* Replacing the uses of a value by another operand keeps the code typed.
LEMMA RewriteType ==
  ASSUME NEW n \in Nat, NEW m \in Nat, NEW bs \in Seq(Block(n, m)),
         NEW id, NEW o \in Operand(n)
  PROVE  /\ RewriteUses(bs, id, o) \in Seq(Block(n, m))
         /\ Len(RewriteUses(bs, id, o)) = Len(bs)
<1>1. ASSUME NEW instr \in Instr(n, m)
      PROVE  RewriteInstr(instr, id, o) \in Instr(n, m)
  <2> DEFINE E(j)  == RewriteOperand(instr.args[j], id, o)
             new   == [j \in DOMAIN instr.args |-> E(j)]
  <2>1. instr.args \in Seq(Operand(n))
    BY DEF Instr
  <2>2. \A j \in DOMAIN instr.args : E(j) \in Operand(n)
    BY <2>1 DEF RewriteOperand
  <2>3. DOMAIN instr.args = 1 .. Len(instr.args) /\ Len(instr.args) \in Nat
    BY <2>1
  <2> HIDE DEF E
  <2>4. new \in Seq(Operand(n))
    BY <2>2, <2>3
  <2>5. RewriteInstr(instr, id, o) = [instr EXCEPT !.args = new]
    BY DEF RewriteInstr, E
  <2> HIDE DEF new
  <2>6. QED
    BY <2>4, <2>5 DEF Instr
<1>2. ASSUME NEW b \in Block(n, m)
      PROVE  [b EXCEPT !.code = [i \in DOMAIN b.code |->
                                   RewriteInstr(b.code[i], id, o)]]
               \in Block(n, m)
  <2> DEFINE E(i) == RewriteInstr(b.code[i], id, o)
             new  == [i \in DOMAIN b.code |-> E(i)]
  <2>1. b.code \in Seq(Instr(n, m))
    BY DEF Block
  <2>2. \A i \in DOMAIN b.code : E(i) \in Instr(n, m)
    BY <1>1, <2>1
  <2>3. DOMAIN b.code = 1 .. Len(b.code) /\ Len(b.code) \in Nat
    BY <2>1
  <2> HIDE DEF E
  <2>4. new \in Seq(Instr(n, m))
    BY <2>2, <2>3
  <2> HIDE DEF new
  <2>5. [b EXCEPT !.code = new] \in Block(n, m)
    BY <2>4 DEF Block
  <2>6. QED
    BY <2>5 DEF new, E
<1> DEFINE F(k) == [bs[k] EXCEPT !.code =
                      [i \in DOMAIN bs[k].code |->
                         RewriteInstr(bs[k].code[i], id, o)]]
<1>3. \A k \in DOMAIN bs : F(k) \in Block(n, m)
  BY <1>2, ElementType
<1>4. DOMAIN bs = 1 .. Len(bs) /\ Len(bs) \in Nat
  OBVIOUS
<1>5. RewriteUses(bs, id, o) = [k \in DOMAIN bs |-> F(k)]
  BY DEF RewriteUses
<1> HIDE DEF F
<1>6. QED
  BY <1>3, <1>4, <1>5

\* Unlinking an instruction keeps the code typed.
LEMMA RemoveType ==
  ASSUME NEW n \in Nat, NEW m \in Nat, NEW bs \in Seq(Block(n, m)),
         NEW b, {b} \subseteq 1 .. Len(bs),
         NEW i, {i} \subseteq 1 .. Len(bs[b].code)
  PROVE  /\ RemoveInstr(bs, b, i) \in Seq(Block(n, m))
         /\ Len(RemoveInstr(bs, b, i)) = Len(bs)
<1> DEFINE code == bs[b].code
           left == RemoveAt(code, i)
<1>1. bs[b] \in Block(n, m)
  BY ElementType
<1>2. code \in Seq(Instr(n, m)) /\ i \in 1 .. Len(code)
  BY <1>1 DEF Block
<1>3. left \in Seq(Instr(n, m))
  <2> HIDE DEF code
  <2>1. /\ SubSeq(code, 1, i - 1) \in Seq(Instr(n, m))
        /\ SubSeq(code, i + 1, Len(code)) \in Seq(Instr(n, m))
    BY <1>2
  <2>2. QED
    BY <2>1 DEF RemoveAt
<1> HIDE DEF left
<1>4. [bs[b] EXCEPT !.code = left] \in Block(n, m)
  BY <1>1, <1>3 DEF Block
<1>5. RemoveInstr(bs, b, i) = [bs EXCEPT ![b] = [bs[b] EXCEPT !.code = left]]
  BY DEF RemoveInstr, left
<1>6. QED
  BY <1>4, <1>5

\* The replacement of a phi that collapses is one of its operands.
LEMMA ReplacementType ==
  ASSUME NEW n \in Nat, NEW m \in Nat, NEW phi \in Instr(n, m),
         PhiCollapses(phi)
  PROVE  Replacement(phi) \in Operand(n)
<1>1. phi.args \in Seq(Operand(n))
  BY DEF Instr
<1>2. Incoming(phi) \subseteq Operand(n)
  BY <1>1 DEF Incoming
<1>3. Replacement(phi) \in Incoming(phi)
  BY DEF PhiCollapses, Replacement
<1>4. QED
  BY <1>2, <1>3

\* A phi is removed or passed by.
LEMMA VisitPhiType ==
  ASSUME TypeOK, VisitPhi
  PROVE  TypeOK'
<1> DEFINE b   == cursor.block
           i   == cursor.index
           phi == CursorCode[i]
           rewritten == RewriteUses(blocks, phi.dest.id, Replacement(phi))
<1>1. /\ UNCHANGED <<fn, cur, nameVars, ctrl, semVars, status, dropped, fuel>>
      /\ b \in 1 .. Len(blocks) /\ AtPhi
      /\ i \in Nat \ {0} /\ i <= Len(CursorCode)
  BY TopType DEF VisitPhi, TypeOK, RestType, AtPhi
<1>2. /\ blocks[b] \in Block(Len(values), Len(blocks))
      /\ CursorCode \in Seq(Instr(Len(values), Len(blocks)))
  <2>1. blocks[b] \in Block(Len(values), Len(blocks))
    BY <1>1, TopType, ElementType
  <2>2. QED
    BY <2>1 DEF CursorCode, Block
<1>3. i \in 1 .. Len(CursorCode) /\ phi \in Instr(Len(values), Len(blocks))
  BY <1>1, <1>2, ElementType
<1>4. /\ blocks' \in Seq(Block(Len(values), Len(blocks)))
      /\ Len(blocks') = Len(blocks)
      /\ cursor' \in [block : Nat \ {0}, index : Nat \ {0}, changed : BOOLEAN]
  <2>1. CASE PhiCollapses(phi)
    <3>1. /\ blocks' = RemoveInstr(rewritten, b, i)
          /\ cursor' = [cursor EXCEPT !.changed = TRUE]
      BY <2>1 DEF VisitPhi
    <3>2. Replacement(phi) \in Operand(Len(values))
      BY <1>3, <2>1, TopType, ReplacementType
    <3>3. /\ rewritten \in Seq(Block(Len(values), Len(blocks)))
          /\ Len(rewritten) = Len(blocks)
      BY <3>2, TopType, RewriteType
    <3>4. Len(rewritten[b].code) = Len(CursorCode)
      <4> DEFINE id == phi.dest.id
                 o  == Replacement(phi)
                 new == [k \in DOMAIN blocks[b].code |->
                           RewriteInstr(blocks[b].code[k], id, o)]
      <4>1. rewritten[b] = [blocks[b] EXCEPT !.code = new]
        BY <1>1 DEF RewriteUses
      <4>2. "code" \in DOMAIN blocks[b]
        BY <1>2 DEF Block
      <4>3. rewritten[b].code = new
        BY <4>1, <4>2
      <4>4. CursorCode = blocks[b].code
        BY DEF CursorCode
      <4>5. Len(new) = Len(blocks[b].code)
        BY <1>2, <4>4
      <4>6. QED
        BY <4>3, <4>4, <4>5
    <3>5. {b} \subseteq 1 .. Len(rewritten)
          /\ {i} \subseteq 1 .. Len(rewritten[b].code)
      BY <1>1, <1>3, <3>3, <3>4
    <3> HIDE DEF rewritten, b, i
    <3>6. /\ blocks' \in Seq(Block(Len(values), Len(blocks)))
          /\ Len(blocks') = Len(rewritten)
      BY ONLY <3>1, <3>3, <3>5, TypeOK, TopType, RemoveType
    <3>7. QED
      BY <3>1, <3>3, <3>6 DEF TypeOK, RestType
  <2>2. CASE ~PhiCollapses(phi)
    <3>1. cursor' = [cursor EXCEPT !.index = @ + 1] /\ UNCHANGED blocks
      BY <2>2 DEF VisitPhi
    <3>2. QED
      BY <3>1, TopType DEF TypeOK, RestType
  <2>3. QED
    BY <2>1, <2>2
<1>5. Grows
  BY <1>1, <1>4, TopType, SameNames
  DEF TypeOK, Grows, NamesGrow, nameVars, valueVars
<1>6. StackType'
  BY <1>1, <1>5, SameStack DEF TypeOK
<1>7. RestType'
  BY <1>1, <1>4 DEF TypeOK, RestType, semVars, fuel
<1>8. QED
  BY <1>1, <1>4, <1>5, <1>6, <1>7, TypeFromParts
  DEF TypeOK, IRType, NamesType, nameVars, valueVars

\* The cursor moves on, to another block or to another pass.
LEMMA CollapseType ==
  ASSUME TypeOK, Collapse
  PROVE  TypeOK'
<1>1. CASE VisitPhi
  BY <1>1, VisitPhiType
<1>2. CASE NextBlock \/ EndPass
  <2>1. UNCHANGED <<fn, irVars, nameVars, ctrl, semVars, dropped, fuel>>
    BY <1>2 DEF NextBlock, EndPass
  <2>2. /\ cursor' \in [block : Nat \ {0}, index : Nat \ {0},
                        changed : BOOLEAN]
        /\ status' \in Status
    <3>1. cursor \in [block : Nat \ {0}, index : Nat \ {0},
                      changed : BOOLEAN]
      BY DEF TypeOK, RestType
    <3>2. CASE NextBlock
      <4>1. /\ cursor' = [cursor EXCEPT !.block = cursor.block + 1,
                                        !.index = 1]
            /\ status' = status
        BY <3>2 DEF NextBlock
      <4>2. cursor' = [block |-> cursor.block + 1, index |-> 1,
                       changed |-> cursor.changed]
        BY <3>1, <4>1
      <4>3. /\ cursor.block + 1 \in Nat \ {0}
            /\ cursor.changed \in BOOLEAN
        BY <3>1
      <4>4. QED
        BY <4>1, <4>2, <4>3 DEF TypeOK, RestType
    <3>3. CASE EndPass
      BY <3>3 DEF EndPass, Status
    <3>4. QED
      BY <1>2, <3>2, <3>3
  <2>3. Grows
    BY <2>1, SameNames, SameCode DEF TypeOK, irVars, nameVars
  <2>4. StackType'
    BY <2>1, <2>3, SameStack DEF TypeOK
  <2>5. RestType'
    BY <2>1, <2>2 DEF TypeOK, RestType, semVars, fuel
  <2>6. QED
    BY <2>1, <2>3, <2>4, <2>5, TypeFromParts
    DEF TypeOK, IRType, NamesType, irVars, nameVars, valueVars
<1>3. QED
  BY <1>1, <1>2 DEF Collapse

-----------------------------------------------------------------------------
\* The beginning, and the theorem.

\* The parameters are the first values, and each name is bound to its own.
LEMMA InitType ==
  ASSUME Init
  PROVE  TypeOK
<1> DEFINE R == [name : AllName, version : Nat, type : Type]
<1>1. /\ fn \in Headers /\ fn.params \in Seq(Param)
      /\ Len(fn.params) \in Nat /\ DOMAIN fn.params = 1 .. Len(fn.params)
  BY HeadersAssumption DEF Init
<1>2. \A j \in 1 .. Len(fn.params) : fn.params[j].name \in AllName
                                     /\ fn.params[j].type \in Type
  <2>1. \A j \in 1 .. Len(fn.params) : fn.params[j] \in Param
    BY <1>1
  <2>2. QED
    BY <2>1 DEF Param, AllName, Type
<1>3. values \in Seq(R) /\ Len(values) = Len(fn.params)
  <2> DEFINE E(j) == [name |-> fn.params[j].name, version |-> 0,
                      type |-> fn.params[j].type]
  <2>1. values = [j \in 1 .. Len(fn.params) |-> E(j)]
    BY <1>1 DEF Init
  <2>2. \A j \in 1 .. Len(fn.params) : E(j) \in R
    BY <1>2
  <2> HIDE DEF E, R
  <2>3. QED
    BY <1>1, <2>1, <2>2
<1>4. names \in Seq(AllName)
  <2>1. names = [j \in 1 .. Len(fn.params) |-> fn.params[j].name]
    BY <1>1 DEF Init
  <2>2. QED
    BY <1>1, <1>2, <2>1
<1>5. bindings \in Snapshot(Len(values))
  <2>1. ASSUME NEW n \in AllName, n \in ParamNames(fn)
        PROVE  ParamIndex(fn, n) \in 0 .. Len(fn.params)
    <3>1. \E j \in DOMAIN fn.params : fn.params[j].name = n
      BY <2>1 DEF ParamNames
    <3>2. ParamIndex(fn, n) \in DOMAIN fn.params
      BY <3>1 DEF ParamIndex
    <3>3. QED
      BY <1>1, <3>2
  <2>2. 0 \in 0 .. Len(fn.params)
    BY <1>1
  <2>3. QED
    BY <1>3, <2>1, <2>2 DEF Init, Snapshot, Invalid
<1>6. NamesType
  BY <1>3, <1>4, <1>5 DEF Init, NamesType, Values
<1>7. IRType
  <2>1. Len(values) \in Nat /\ Len(blocks) = 1
    BY <1>1, <1>3 DEF Init
  <2>2. NewBlock \in Block(Len(values), 1)
    BY <2>1, NewBlockType
  <2>3. QED
    BY <2>1, <2>2 DEF Init, IRType
<1>8. StackType
  BY DEF Init, StackType, Nested, Frame, ListFrame
<1>9. decl \in [Name -> [type : Type, init : BOOLEAN]]
  <2>1. ASSUME NEW n \in Name
        PROVE  InitialDecl(fn)[n] \in [type : Type, init : BOOLEAN]
    <3>1. CASE n \in ParamNames(fn)
      <4>1. \E j \in DOMAIN fn.params : fn.params[j].name = n
        BY <3>1 DEF ParamNames
      <4>2. ParamIndex(fn, n) \in DOMAIN fn.params
        BY <4>1 DEF ParamIndex
      <4>3. fn.params[ParamIndex(fn, n)].type \in Type
        BY <1>1, <1>2, <4>2
      <4>4. QED
        BY <3>1, <4>3 DEF InitialDecl
    <3>2. CASE n \notin ParamNames(fn) /\ \E g \in Globals : g.name = n
      <4> DEFINE g == CHOOSE h \in Globals : h.name = n
      <4>1. g \in Globals
        BY <3>2
      <4>2. g.type \in Type
        BY <4>1, GlobalsAssumption DEF Param, Type
      <4>3. QED
        BY <3>2, <4>2 DEF InitialDecl
    <3>3. CASE n \notin ParamNames(fn) /\ ~\E g \in Globals : g.name = n
      <4>1. Undeclared \in [type : Type, init : BOOLEAN]
        BY DEF Undeclared, Type
      <4>2. InitialDecl(fn)[n] = Undeclared
        BY <3>3 DEF InitialDecl
      <4>3. QED
        BY <4>1, <4>2
    <3>4. QED
      BY <3>1, <3>2, <3>3
  <2>2. decl = InitialDecl(fn) /\ decl = [n \in Name |-> InitialDecl(fn)[n]]
    BY DEF Init, InitialDecl
  <2>3. QED
    BY <2>1, <2>2
<1>10. scopes \in Seq(SUBSET Name)
  <2>1. ParamNames(fn) \subseteq Name
    <3>1. \A j \in DOMAIN fn.params : fn.params[j] \in Param
      BY <1>1
    <3>2. QED
      BY <3>1 DEF ParamNames, Param
  <2>2. QED
    BY <2>1 DEF Init
<1>11. RestType
  <2>1. cursor \in [block : Nat \ {0}, index : Nat \ {0}, changed : BOOLEAN]
    BY DEF Init
  <2>2. status \in Status /\ dropped \in BOOLEAN
    BY DEF Init, Status
  <2>3. stmts \in Nat /\ exprs \in Nat
    BY BoundsAssumption DEF Init
  <2>4. QED
    BY <1>1, <1>9, <1>10, <2>1, <2>2, <2>3 DEF RestType
<1>12. QED
  BY <1>6, <1>7, <1>8, <1>11 DEF TypeOK

\* Every step keeps the types.
LEMMA NextType ==
  ASSUME TypeOK, [Next]_vars
  PROVE  TypeOK'
<1>1. CASE Expression
  BY <1>1, ExpressionType
<1>2. CASE SimpleStatement
  BY <1>2, SimpleStatementType
<1>3. CASE IfStatement \/ WhileStatement
  BY <1>3, IfStatementType, WhileStatementType
<1>4. CASE EndFunction \/ Collapse
  BY <1>4, EndFunctionType, CollapseType
<1>5. CASE UNCHANGED vars
  BY <1>5 DEF vars, irVars, valueVars, semVars, fuel, TypeOK, IRType,
     NamesType, StackType, RestType
<1>6. QED
  BY <1>1, <1>2, <1>3, <1>4, <1>5 DEF Next

\* For all programs of any size, nothing in the lowering dangles: operands,
\* bindings, snapshots and activations always refer to values, blocks and
\* names that exist (TypeOK).
THEOREM TypeCorrect == Spec => []TypeOK
BY InitType, NextType, PTL DEF Spec

-----------------------------------------------------------------------------
(***************************************************************************)
(* The control flow.                                                       *)
(***************************************************************************)

\* Block b is created and waits to be filled: the merge of a connective or an
\* if, the else branch, the body and the exit of a loop.
Awaits(f, b) ==
  \/ f.kind = "RIGHT" /\ b = f.merge
  \/ f.kind = "THEN" /\ (b = f.else \/ b = f.merge)
  \/ f.kind \in {"ELSE", "NOELSE"} /\ b = f.merge
  \/ f.kind \in {"HEADER", "WHILECOND"} /\ b = f.header + 1
  \/ f.kind \in {"HEADER", "WHILECOND", "LOOP"} /\ b = f.header + 2

Awaited(b) == \E i \in DOMAIN ctrl : Awaits(ctrl[i], b)

Ends(block) == block.code # << >> /\ Last(block.code).op \in Terminator

\* What ControlFlowConsistent and PhisMatchPredecessors say of one block.
BlockFlow(block) ==
  /\ \A i \in 1 .. Len(block.code) - 1 : block.code[i].op \notin Terminator
  /\ IF block.code # << >> /\ Last(block.code).op \in {"BR", "CBR"}
     THEN block.succ = Last(block.code).blks
     ELSE block.succ = << >>
  /\ \A i \in DOMAIN block.code :
       block.code[i].op = "PHI" =>
         /\ IsLeadingPhi(block.code, i)
         /\ block.code[i].blks = block.pred
         /\ Len(block.code[i].args) = Len(block.code[i].blks)

EdgesAgree(bs) ==
  \A a, b \in DOMAIN bs :
    Occurrences(bs[a].succ, b) = Occurrences(bs[b].pred, a)

FlowOf(bs) == EdgesAgree(bs) /\ \A b \in DOMAIN bs : BlockFlow(bs[b])

Flow == FlowOf(blocks)

OnlyPhis(block) == \A i \in DOMAIN block.code : block.code[i].op = "PHI"

\* The edge that the end of a branch has sent to the merge block.
Arrived(branch) == IF branch.reaches THEN <<branch.end>> ELSE << >>

\* A phi of a loop header carries on a name that was bound before the loop,
\* in the type of the value it was bound to: so it gets a value of this type
\* when the loop closes.
Carries(vs, f, dest) ==
  LET n == vs[dest.id].name
  IN  f.incoming[n] # Invalid /\ dest.type = vs[f.incoming[n]].type

CarriedIn(bs, vs, f) ==
  \A i \in DOMAIN bs[f.header].code :
    IsLeadingPhi(bs[f.header].code, i) =>
      Carries(vs, f, bs[f.header].code[i].dest)

FlowIn(bs, c, vs, f) ==
  /\ f.kind = "RIGHT" => bs[f.merge].pred = <<f.decision>>
  /\ f.kind = "THEN" => f.else # f.merge /\ bs[f.merge].pred = << >>
  /\ f.kind \in {"ELSE", "NOELSE"} => bs[f.merge].pred = Arrived(f.then)
  /\ f.kind = "MERGE" =>
       /\ bs[c].pred = Arrived(f.then) \o Arrived(f.else)
       /\ OnlyPhis(bs[c])
  /\ f.kind = "HEADER" =>
       /\ c = f.header
       /\ bs[c].pred = <<f.pre>>
       /\ OnlyPhis(bs[c])
  /\ f.kind = "WHILECOND" => c = f.header \/ bs[f.header].terminated
  /\ f.kind = "LOOP" => bs[f.header].terminated
  /\ f.kind \in {"HEADER", "WHILECOND", "LOOP"} => CarriedIn(bs, vs, f)

FrameFlow(f) == FlowIn(blocks, cur, values, f)

Apart ==
  \A i, j \in DOMAIN ctrl : \A b \in DOMAIN blocks :
    Awaits(ctrl[i], b) /\ Awaits(ctrl[j], b) => i = j

Unstarted ==
  \A b \in DOMAIN blocks :
    Awaited(b) => /\ b # cur
                  /\ blocks[b].code = << >> /\ blocks[b].succ = << >>
                  /\ ~blocks[b].terminated

Marked == \A b \in DOMAIN blocks : blocks[b].terminated <=> Ends(blocks[b])

OpenForCode == Top.kind \notin ListKind => ~blocks[cur].terminated

\* Nobody but operands is called from inside an expression.
ExpressionsNest ==
  \A i, j \in DOMAIN ctrl :
    i < j /\ ctrl[i].kind \in ExprKind => ctrl[j].kind \in OperandKind \cup {"CALL"}

Covered ==
  ~dropped => \A b \in DOMAIN blocks :
                b = cur \/ blocks[b].terminated \/ Awaited(b)

Lowering ==
  /\ Marked /\ Unstarted /\ Apart /\ OpenForCode /\ ExpressionsNest /\ Covered
  /\ \A i \in DOMAIN ctrl : FrameFlow(ctrl[i])

NoneLeft ==
  /\ status = "collapsing" /\ ~cursor.changed =>
       \A b \in DOMAIN blocks : \A i \in DOMAIN blocks[b].code :
         (b < cursor.block \/ (b = cursor.block /\ i < cursor.index))
         /\ blocks[b].code[i].op = "PHI" => ~PhiCollapses(blocks[b].code[i])

FlowInv ==
  /\ Flow
  /\ status = "lowering" => Lowering
  /\ EveryBlockEnds
  /\ NoneLeft /\ NoDegeneratePhi



-----------------------------------------------------------------------------
(***************************************************************************)
(* What the operators of SsaIR do to the blocks.                           *)
(***************************************************************************)

\* A block of a sequence of blocks, and its parts.
LEMMA BlockFields ==
  ASSUME NEW n \in Nat, NEW m \in Nat, NEW bs \in Seq(Block(n, m)),
         NEW b \in 1 .. Len(bs)
  PROVE  /\ bs[b] \in Block(n, m)
         /\ bs[b].code \in Seq(Instr(n, m)) /\ Len(bs[b].code) \in Nat
         /\ bs[b].succ \in Seq(1 .. m) /\ bs[b].pred \in Seq(1 .. m)
         /\ bs[b].terminated \in BOOLEAN
<1>1. bs[b] \in Block(n, m)
  OBVIOUS
<1> QED
  BY <1>1 DEF Block

\* append_instruction: the code of one block grows and nothing else changes.
Emitted(bs, new, b, instr) ==
  /\ Len(new) = Len(bs)
  /\ \A x \in 1 .. Len(bs) : x # b => new[x] = bs[x]
  /\ new[b].code = Append(bs[b].code, instr)
  /\ new[b].succ = bs[b].succ /\ new[b].pred = bs[b].pred
  /\ new[b].terminated = bs[b].terminated

LEMMA EmitEffect ==
  ASSUME NEW n \in Nat, NEW m \in Nat, NEW bs \in Seq(Block(n, m)),
         NEW b \in 1 .. Len(bs), NEW instr \in Instr(n, m)
  PROVE  /\ Emit(bs, b, instr) \in Seq(Block(n, m))
         /\ Emitted(bs, Emit(bs, b, instr), b, instr)
<1> DEFINE nb  == [bs[b] EXCEPT !.code = Append(bs[b].code, instr)]
           new == Emit(bs, b, instr)
<1>1. new \in Seq(Block(n, m)) /\ Len(new) = Len(bs)
  BY EmitType
<1>2. /\ nb.code = Append(bs[b].code, instr)
      /\ nb.succ = bs[b].succ /\ nb.pred = bs[b].pred
      /\ nb.terminated = bs[b].terminated
  <2>1. bs[b] \in Block(n, m)
    OBVIOUS
  <2> QED
    BY <2>1 DEF Block
<1>3. new = [bs EXCEPT ![b] = nb]
  BY DEF Emit
<1> HIDE DEF nb, new
<1>4. new[b] = nb /\ \A x \in 1 .. Len(bs) : x # b => new[x] = bs[x]
  BY <1>3
<1>5. Emitted(bs, new, b, instr)
  BY <1>1, <1>2, <1>4 DEF Emitted
<1> QED
  BY <1>1, <1>5 DEF new

\* link_blocks: the edge is added at both ends.
Linked(bs, new, a, b) ==
  /\ Len(new) = Len(bs)
  /\ \A x \in 1 .. Len(bs) :
       /\ new[x].code = bs[x].code
       /\ new[x].terminated = bs[x].terminated
       /\ x = a => new[x].succ = Append(bs[x].succ, b)
       /\ x # a => new[x].succ = bs[x].succ
       /\ x = b => new[x].pred = Append(bs[x].pred, a)
       /\ x # b => new[x].pred = bs[x].pred
       /\ x # a /\ x # b => new[x] = bs[x]

LEMMA LinkEffect ==
  ASSUME NEW n \in Nat, NEW m \in Nat, NEW bs \in Seq(Block(n, m)),
         NEW a \in 1 .. Len(bs), NEW b \in 1 .. Len(bs), Len(bs) <= m
  PROVE  /\ Link(bs, a, b) \in Seq(Block(n, m))
         /\ Linked(bs, Link(bs, a, b), a, b)
<1> DEFINE new    == Link(bs, a, b)
           na     == [bs[a] EXCEPT !.succ = Append(bs[a].succ, b)]
           linked == [bs EXCEPT ![a] = na]
           nb     == [linked[b] EXCEPT !.pred = Append(linked[b].pred, a)]
<1>1. new \in Seq(Block(n, m)) /\ Len(new) = Len(bs)
  BY LinkType
<1>2. /\ na \in Block(n, m)
      /\ na.succ = Append(bs[a].succ, b)
      /\ na.code = bs[a].code /\ na.pred = bs[a].pred
      /\ na.terminated = bs[a].terminated
  <2>1. bs[a] \in Block(n, m) /\ b \in 1 .. m
    OBVIOUS
  <2>2. Append(bs[a].succ, b) \in Seq(1 .. m)
    BY <2>1 DEF Block
  <2> QED
    BY <2>1, <2>2 DEF Block
<1>3. new = [linked EXCEPT ![b] = nb]
  BY DEF Link
<1> HIDE DEF na, new
<1>4. /\ DOMAIN linked = 1 .. Len(bs) /\ linked[a] = na
      /\ \A x \in 1 .. Len(bs) : linked[x] \in Block(n, m)
      /\ \A x \in 1 .. Len(bs) : x # a => linked[x] = bs[x]
  BY <1>2
<1> HIDE DEF linked
<1>5. /\ nb.pred = Append(linked[b].pred, a)
      /\ nb.code = linked[b].code /\ nb.succ = linked[b].succ
      /\ nb.terminated = linked[b].terminated
  <2>1. linked[b] \in Block(n, m)
    BY <1>4
  <2> QED
    BY <2>1 DEF Block
<1> HIDE DEF nb
<1>6. new[b] = nb /\ \A x \in 1 .. Len(bs) : x # b => new[x] = linked[x]
  BY <1>3, <1>4
<1>7. ASSUME NEW x \in 1 .. Len(bs)
      PROVE  /\ new[x].code = bs[x].code
             /\ new[x].terminated = bs[x].terminated
             /\ x = a => new[x].succ = Append(bs[x].succ, b)
             /\ x # a => new[x].succ = bs[x].succ
             /\ x = b => new[x].pred = Append(bs[x].pred, a)
             /\ x # b => new[x].pred = bs[x].pred
             /\ x # a /\ x # b => new[x] = bs[x]
  <2>1. /\ linked[x].code = bs[x].code /\ linked[x].pred = bs[x].pred
        /\ linked[x].terminated = bs[x].terminated
        /\ x = a => linked[x].succ = Append(bs[x].succ, b)
        /\ x # a => linked[x].succ = bs[x].succ
    BY <1>2, <1>4, Zenon
  <2>2. CASE x = b
    BY <1>5, <1>6, <2>1, <2>2, Zenon
  <2>3. CASE x # b
    BY <1>4, <1>6, <2>1, <2>3, Zenon
  <2> QED
    BY <2>2, <2>3
<1>8. Linked(bs, new, a, b)
  BY <1>1, <1>7 DEF Linked
<1> QED
  BY <1>1, <1>8 DEF new

\* block->terminated = true
Marks(bs, new, b) ==
  /\ Len(new) = Len(bs)
  /\ \A x \in 1 .. Len(bs) : x # b => new[x] = bs[x]
  /\ new[b].code = bs[b].code
  /\ new[b].succ = bs[b].succ /\ new[b].pred = bs[b].pred
  /\ new[b].terminated = TRUE

LEMMA TerminateEffect ==
  ASSUME NEW n \in Nat, NEW m \in Nat, NEW bs \in Seq(Block(n, m)),
         NEW b \in 1 .. Len(bs)
  PROVE  /\ Terminate(bs, b) \in Seq(Block(n, m))
         /\ Marks(bs, Terminate(bs, b), b)
<1> DEFINE nb  == [bs[b] EXCEPT !.terminated = TRUE]
           new == Terminate(bs, b)
<1>1. new \in Seq(Block(n, m)) /\ Len(new) = Len(bs)
  BY TerminateType
<1>2. /\ nb.code = bs[b].code /\ nb.succ = bs[b].succ
      /\ nb.pred = bs[b].pred /\ nb.terminated = TRUE
  <2>1. bs[b] \in Block(n, m)
    OBVIOUS
  <2> QED
    BY <2>1 DEF Block
<1>3. new = [bs EXCEPT ![b] = nb]
  BY DEF Terminate
<1> HIDE DEF nb, new
<1>4. new[b] = nb /\ \A x \in 1 .. Len(bs) : x # b => new[x] = bs[x]
  BY <1>3
<1>5. Marks(bs, new, b)
  BY <1>1, <1>2, <1>4 DEF Marks
<1> QED
  BY <1>1, <1>5 DEF new

Jump(t) == [op |-> "BR", dest |-> NoOperand, args |-> << >>, blks |-> <<t>>]

\* emit_branch from b to t: all that a block shows of it.
Branched(bs, new, b, t) ==
  /\ Len(new) = Len(bs)
  /\ new[b].code = Append(bs[b].code, Jump(t))
  /\ new[b].succ = Append(bs[b].succ, t)
  /\ new[b].terminated = TRUE
  /\ new[t].pred = Append(bs[t].pred, b)
  /\ \A x \in 1 .. Len(bs) :
       /\ x # b => /\ new[x].code = bs[x].code /\ new[x].succ = bs[x].succ
                   /\ new[x].terminated = bs[x].terminated
       /\ x # t => new[x].pred = bs[x].pred
       /\ x # b /\ x # t => new[x] = bs[x]

LEMMA BranchEffect ==
  ASSUME NEW n \in Nat, NEW m \in Nat, NEW bs \in Seq(Block(n, m)),
         NEW b \in 1 .. Len(bs), NEW t \in 1 .. Len(bs), Len(bs) <= m
  PROVE  /\ Branch(bs, b, t) \in Seq(Block(n, m))
         /\ Branched(bs, Branch(bs, b, t), b, t)
<1> DEFINE j   == Jump(t)
           e   == Emit(bs, b, j)
           l   == Link(e, b, t)
           new == Terminate(l, b)
<1>1. j \in Instr(n, m)
  BY NoOperandType DEF Instr, Opcode, Jump
<1>2. Branch(bs, b, t) = new
  BY DEF Branch, Jump
<1> HIDE DEF j
<1>3. e \in Seq(Block(n, m)) /\ Emitted(bs, e, b, j)
  BY <1>1, EmitEffect
<1> HIDE DEF e
<1>4. Len(e) = Len(bs)
  BY <1>3 DEF Emitted
<1>5. l \in Seq(Block(n, m)) /\ Linked(e, l, b, t)
  BY <1>3, <1>4, LinkEffect
<1> HIDE DEF l
<1>6. Len(l) = Len(bs)
  BY <1>4, <1>5 DEF Linked
<1>7. new \in Seq(Block(n, m)) /\ Marks(l, new, b)
  BY <1>5, <1>6, TerminateEffect
<1> HIDE DEF new
<1>8. /\ Len(new) = Len(bs)
      /\ new[b].code = Append(bs[b].code, j)
      /\ new[b].succ = Append(bs[b].succ, t)
      /\ new[b].terminated = TRUE
  BY <1>3, <1>4, <1>5, <1>6, <1>7 DEF Emitted, Linked, Marks
<1>9. /\ l[t].pred = Append(e[t].pred, b) /\ e[t].pred = bs[t].pred
      /\ new[t].pred = l[t].pred
  BY <1>3, <1>4, <1>5, <1>6, <1>7 DEF Emitted, Linked, Marks
<1>10. ASSUME NEW x \in 1 .. Len(bs)
       PROVE  /\ x # b => /\ new[x].code = bs[x].code
                          /\ new[x].succ = bs[x].succ
                          /\ new[x].terminated = bs[x].terminated
              /\ x # t => new[x].pred = bs[x].pred
              /\ x # b /\ x # t => new[x] = bs[x]
  <2>1. /\ l[x].code = e[x].code
        /\ l[x].terminated = e[x].terminated
        /\ x # b => l[x].succ = e[x].succ
        /\ x # t => l[x].pred = e[x].pred
        /\ x # b /\ x # t => l[x] = e[x]
    BY <1>4, <1>5 DEF Linked
  <2>2. (x # b => e[x] = bs[x]) /\ e[x].pred = bs[x].pred
    BY <1>3 DEF Emitted
  <2>3. (x # b => new[x] = l[x]) /\ new[x].pred = l[x].pred
    BY <1>6, <1>7 DEF Marks
  <2> QED
    BY <2>1, <2>2, <2>3
<1>11. Branched(bs, new, b, t)
  BY <1>8, <1>9, <1>10 DEF Branched, j
<1> QED
  BY <1>2, <1>7, <1>11

Choice(o, t, e) ==
  [op |-> "CBR", dest |-> NoOperand, args |-> <<o>>, blks |-> <<t, e>>]

\* emit_conditional_branch from b to t or e.
Split(bs, new, b, o, t, e) ==
  /\ Len(new) = Len(bs)
  /\ new[b].code = Append(bs[b].code, Choice(o, t, e))
  /\ new[b].succ = Append(Append(bs[b].succ, t), e)
  /\ new[b].terminated = TRUE
  /\ new[t].pred = Append(bs[t].pred, b)
  /\ new[e].pred = Append(bs[e].pred, b)
  /\ \A x \in 1 .. Len(bs) :
       /\ x # b => /\ new[x].code = bs[x].code /\ new[x].succ = bs[x].succ
                   /\ new[x].terminated = bs[x].terminated
       /\ x # t /\ x # e => new[x].pred = bs[x].pred
       /\ x # b /\ x # t /\ x # e => new[x] = bs[x]

LEMMA CondBranchEffect ==
  ASSUME NEW n \in Nat, NEW m \in Nat, NEW bs \in Seq(Block(n, m)),
         NEW b \in 1 .. Len(bs), NEW t \in 1 .. Len(bs),
         NEW e \in 1 .. Len(bs), t # e, Len(bs) <= m, NEW o \in Operand(n)
  PROVE  /\ CondBranch(bs, b, o, t, e) \in Seq(Block(n, m))
         /\ Split(bs, CondBranch(bs, b, o, t, e), b, o, t, e)
<1> DEFINE c   == Choice(o, t, e)
           i   == Emit(bs, b, c)
           l   == Link(i, b, t)
           k   == Link(l, b, e)
           new == Terminate(k, b)
<1>1. c \in Instr(n, m)
  BY NoOperandType DEF Instr, Opcode, Choice
<1>2. CondBranch(bs, b, o, t, e) = new
  BY DEF CondBranch, Choice
<1> HIDE DEF c
<1>3. i \in Seq(Block(n, m)) /\ Emitted(bs, i, b, c)
  BY <1>1, EmitEffect
<1> HIDE DEF i
<1>4. Len(i) = Len(bs)
  BY <1>3 DEF Emitted
<1>5. l \in Seq(Block(n, m)) /\ Linked(i, l, b, t)
  BY <1>3, <1>4, LinkEffect
<1> HIDE DEF l
<1>6. Len(l) = Len(bs)
  BY <1>4, <1>5 DEF Linked
<1>7. k \in Seq(Block(n, m)) /\ Linked(l, k, b, e)
  BY <1>5, <1>6, LinkEffect
<1> HIDE DEF k
<1>8. Len(k) = Len(bs)
  BY <1>6, <1>7 DEF Linked
<1>9. new \in Seq(Block(n, m)) /\ Marks(k, new, b)
  BY <1>7, <1>8, TerminateEffect
<1> HIDE DEF new
<1>10. /\ k[b].code = l[b].code /\ l[b].code = i[b].code
       /\ k[b].succ = Append(l[b].succ, e)
       /\ l[b].succ = Append(i[b].succ, t)
  BY <1>4, <1>5, <1>6, <1>7 DEF Linked
<1>11. /\ Len(new) = Len(bs)
       /\ new[b].code = Append(bs[b].code, c)
       /\ new[b].succ = Append(Append(bs[b].succ, t), e)
       /\ new[b].terminated = TRUE
  BY <1>3, <1>8, <1>9, <1>10 DEF Emitted, Marks
<1>12. /\ new[t].pred = Append(bs[t].pred, b)
       /\ new[e].pred = Append(bs[e].pred, b)
  <2>1. /\ k[t].pred = l[t].pred /\ k[e].pred = Append(l[e].pred, b)
        /\ l[t].pred = Append(i[t].pred, b) /\ l[e].pred = i[e].pred
    BY <1>4, <1>5, <1>6, <1>7 DEF Linked
  <2>2. i[t].pred = bs[t].pred /\ i[e].pred = bs[e].pred
    BY <1>3 DEF Emitted
  <2>3. new[t].pred = k[t].pred /\ new[e].pred = k[e].pred
    BY <1>8, <1>9 DEF Marks
  <2> QED
    BY <2>1, <2>2, <2>3
<1>13. ASSUME NEW x \in 1 .. Len(bs)
       PROVE  /\ x # b => /\ new[x].code = bs[x].code
                          /\ new[x].succ = bs[x].succ
                          /\ new[x].terminated = bs[x].terminated
              /\ x # t /\ x # e => new[x].pred = bs[x].pred
              /\ x # b /\ x # t /\ x # e => new[x] = bs[x]
  <2>1. (x # b => i[x] = bs[x]) /\ i[x].pred = bs[x].pred
    BY <1>3 DEF Emitted
  <2>2. (x # b => new[x] = k[x]) /\ new[x].pred = k[x].pred
    BY <1>8, <1>9 DEF Marks
  <2>3. /\ l[x].code = i[x].code /\ l[x].terminated = i[x].terminated
        /\ x # b => l[x].succ = i[x].succ
        /\ x # t => l[x].pred = i[x].pred
        /\ x # b /\ x # t => l[x] = i[x]
    BY <1>4, <1>5 DEF Linked
  <2>4. /\ k[x].code = l[x].code /\ k[x].terminated = l[x].terminated
        /\ x # b => k[x].succ = l[x].succ
        /\ x # e => k[x].pred = l[x].pred
        /\ x # b /\ x # e => k[x] = l[x]
    BY <1>6, <1>7 DEF Linked
  <2> QED
    BY <2>1, <2>2, <2>3, <2>4
<1>14. Split(bs, new, b, o, t, e)
  BY <1>11, <1>12, <1>13 DEF Split, c
<1> QED
  BY <1>2, <1>9, <1>14

-----------------------------------------------------------------------------
(***************************************************************************)
(* Edges and phis of the blocks, under the same operators.                 *)
(***************************************************************************)

\* A sequence with one element more.
LEMMA AppendParts ==
  ASSUME NEW S, NEW s \in Seq(S), NEW x
  PROVE  /\ Len(s) \in Nat /\ DOMAIN s = 1 .. Len(s)
         /\ Len(Append(s, x)) = Len(s) + 1
         /\ DOMAIN Append(s, x) = 1 .. Len(s) + 1
         /\ \A i \in 1 .. Len(s) : Append(s, x)[i] = s[i]
         /\ Append(s, x)[Len(s) + 1] = x
         /\ Last(Append(s, x)) = x
         /\ Append(s, x) # << >>
<1> DEFINE t == Append(s, x)
<1>1. /\ Len(s) \in Nat /\ DOMAIN s = 1 .. Len(s)
      /\ Len(t) = Len(s) + 1
      /\ DOMAIN t = 1 .. Len(s) + 1
      /\ \A i \in 1 .. Len(s) : t[i] = s[i]
      /\ t[Len(s) + 1] = x
  OBVIOUS
<1>2. t # << >>
  BY <1>1, Len(<< >>) = 0
<1>3. Last(t) = x
  BY <1>1 DEF Last
<1> QED
  BY <1>1, <1>2, <1>3

\* One element more.
LEMMA OccurrencesAppend ==
  ASSUME NEW S, NEW s \in Seq(S), NEW x, NEW y
  PROVE  /\ Occurrences(s, y) \in Nat
         /\ Occurrences(Append(s, x), y) =
              IF x = y THEN Occurrences(s, y) + 1 ELSE Occurrences(s, y)
<1> DEFINE I == { i \in DOMAIN s : s[i] = y }
           t == Append(s, x)
           J == { i \in DOMAIN t : t[i] = y }
<1>1. /\ DOMAIN s = 1 .. Len(s) /\ Len(s) \in Nat
      /\ DOMAIN t = 1 .. Len(s) + 1
      /\ \A i \in 1 .. Len(s) : t[i] = s[i]
      /\ t[Len(s) + 1] = x
  OBVIOUS
<1>2. IsFiniteSet(1 .. Len(s))
  BY <1>1, FS_Interval
<1>3. IsFiniteSet(I) /\ Cardinality(I) \in Nat
  <2>1. I \subseteq 1 .. Len(s)
    BY <1>1
  <2> QED
    BY <1>2, <2>1, FS_Subset, FS_CardinalityType
<1> HIDE DEF t
<1>4. CASE x = y
  <2>1. J = I \cup {Len(s) + 1} /\ Len(s) + 1 \notin I
    BY <1>1, <1>4
  <2>2. Cardinality(J) = Cardinality(I) + 1
    BY <1>3, <2>1, FS_AddElement
  <2> QED
    BY <1>3, <1>4, <2>2 DEF Occurrences, t
<1>5. CASE x # y
  <2>1. J = I
    BY <1>1, <1>5
  <2> QED
    BY <1>3, <1>5, <2>1 DEF Occurrences, t
<1> QED
  BY <1>4, <1>5

\* An element that does not occur.
LEMMA NoOccurrence ==
  ASSUME NEW s, NEW x, \A i \in DOMAIN s : s[i] # x
  PROVE  Occurrences(s, x) = 0
<1>1. { i \in DOMAIN s : s[i] = x } = {}
  OBVIOUS
<1> QED
  BY <1>1, FS_EmptySet DEF Occurrences

\* A block that can still get an instruction has no branch and no edge.
LEMMA OpenBlock ==
  ASSUME NEW n \in Nat, NEW m \in Nat, NEW block \in Block(n, m),
         BlockFlow(block), ~Ends(block)
  PROVE  /\ \A i \in 1 .. Len(block.code) : block.code[i].op \notin Terminator
         /\ block.succ = << >>
<1>1. block.code \in Seq(Instr(n, m)) /\ Len(block.code) \in Nat
  BY DEF Block
<1>2. CASE block.code = << >>
  BY <1>2 DEF BlockFlow
<1>3. CASE block.code # << >>
  <2>1. Last(block.code) = block.code[Len(block.code)]
    BY DEF Last
  <2>2. Last(block.code).op \notin Terminator
    BY <1>3 DEF Ends
  <2> QED
    BY <1>1, <1>3, <2>1, <2>2 DEF BlockFlow, Terminator
<1> QED
  BY <1>2, <1>3

\* An instruction that is neither a branch nor a phi is added.
LEMMA FlowEmit ==
  ASSUME NEW n \in Nat, NEW m \in Nat, NEW bs \in Seq(Block(n, m)),
         NEW b \in 1 .. Len(bs), NEW new, NEW instr,
         new \in Seq(Block(n, m)),
         Emitted(bs, new, b, instr), FlowOf(bs), ~Ends(bs[b]),
         instr.op \notin {"BR", "CBR", "PHI"}
  PROVE  FlowOf(new)
<1>1. /\ bs[b] \in Block(n, m) /\ bs[b].code \in Seq(Instr(n, m))
      /\ Len(bs[b].code) \in Nat
  BY BlockFields
<1>2. BlockFlow(bs[b])
  BY DEF FlowOf
<1> DEFINE code == bs[b].code
<1>3. /\ \A i \in 1 .. Len(code) : code[i].op \notin Terminator
      /\ bs[b].succ = << >>
  BY <1>1, <1>2, OpenBlock
<1>4. /\ new[b].code = Append(code, instr)
      /\ new[b].succ = << >> /\ new[b].pred = bs[b].pred
      /\ DOMAIN new = DOMAIN bs
  BY <1>3 DEF Emitted
<1>5. BlockFlow(new[b])
  <2> DEFINE c == Append(code, instr)
  <2>1. /\ Len(c) = Len(code) + 1 /\ DOMAIN c = 1 .. Len(code) + 1
        /\ \A i \in 1 .. Len(code) : c[i] = code[i]
        /\ c[Len(c)] = instr /\ Last(c) = instr /\ c # << >>
    BY <1>1, AppendParts
  <2>0. DOMAIN code = 1 .. Len(code)
    BY <1>1
  <2> HIDE DEF c
  <2>2. \A i \in 1 .. Len(c) - 1 : c[i].op \notin Terminator
    BY <1>1, <1>3, <2>1
  <2>3. \A i \in DOMAIN c : c[i].op = "PHI" =>
          /\ IsLeadingPhi(c, i) /\ c[i].blks = bs[b].pred
          /\ Len(c[i].args) = Len(c[i].blks)
    <3> SUFFICES ASSUME NEW i \in DOMAIN c, c[i].op = "PHI"
                 PROVE  /\ IsLeadingPhi(c, i) /\ c[i].blks = bs[b].pred
                        /\ Len(c[i].args) = Len(c[i].blks)
      OBVIOUS
    <3>1. i \in 1 .. Len(code) /\ c[i] = code[i]
      <4>1. i # Len(c)
        BY <2>1
      <4> HIDE DEF code
      <4> QED
        BY <1>1, <2>1, <4>1 DEF code
    <3>2. /\ IsLeadingPhi(code, i) /\ code[i].blks = bs[b].pred
          /\ Len(code[i].args) = Len(code[i].blks)
      BY <1>2, <2>0, <3>1 DEF BlockFlow
    <3> QED
      BY <1>1, <2>1, <3>1, <3>2 DEF IsLeadingPhi
  <2> QED
    BY <1>4, <2>1, <2>2, <2>3 DEF BlockFlow, c
<1>6. \A x \in DOMAIN new :
        /\ new[x].succ = bs[x].succ /\ new[x].pred = bs[x].pred
        /\ BlockFlow(new[x])
  <2> TAKE x \in DOMAIN new
  <2>1. CASE x = b
    BY <1>3, <1>4, <1>5, <2>1
  <2>2. CASE x # b
    <3>1. new[x] = bs[x] /\ BlockFlow(bs[x])
      BY <1>4, <2>2 DEF Emitted, FlowOf
    <3> QED
      BY <3>1
  <2> QED
    BY <2>1, <2>2
<1> QED
  BY <1>4, <1>6 DEF FlowOf, EdgesAgree

\* A phi is added to a block that has nothing but phis.
LEMMA FlowPhi ==
  ASSUME NEW n \in Nat, NEW m \in Nat, NEW bs \in Seq(Block(n, m)),
         NEW b \in 1 .. Len(bs), NEW new, NEW instr,
         new \in Seq(Block(n, m)),
         Emitted(bs, new, b, instr), FlowOf(bs), OnlyPhis(bs[b]),
         instr.op = "PHI", instr.blks = bs[b].pred,
         Len(instr.args) = Len(instr.blks)
  PROVE  FlowOf(new) /\ OnlyPhis(new[b])
<1>1. /\ bs[b] \in Block(n, m) /\ bs[b].code \in Seq(Instr(n, m))
      /\ Len(bs[b].code) \in Nat
  BY BlockFields
<1>2. BlockFlow(bs[b])
  BY DEF FlowOf
<1> DEFINE code == bs[b].code
           c    == Append(code, instr)
<1>3. DOMAIN code = 1 .. Len(code)
  BY <1>1
<1>4. /\ new[b].code = c /\ new[b].pred = bs[b].pred
      /\ new[b].succ = bs[b].succ
      /\ DOMAIN new = DOMAIN bs
  BY DEF Emitted
<1>5. /\ Len(c) = Len(code) + 1 /\ DOMAIN c = 1 .. Len(code) + 1
      /\ \A i \in 1 .. Len(code) : c[i] = code[i]
      /\ c[Len(code) + 1] = instr /\ Last(c) = instr /\ c # << >>
  BY <1>1, AppendParts
<1>6. \A i \in 1 .. Len(code) : code[i].op = "PHI"
  BY <1>3 DEF OnlyPhis
<1>7. bs[b].succ = << >>
  <2>1. code # << >> => Last(code).op = "PHI"
    <3>1. code # << >> => Last(code) = code[Len(code)] /\ Len(code) >= 1
      BY <1>1 DEF Last
    <3> QED
      BY <1>1, <1>6, <3>1
  <2> QED
    BY <1>2, <2>1 DEF BlockFlow
<1>8. OnlyPhis(new[b])
  <2> HIDE DEF c, code
  <2>1. \A i \in 1 .. Len(code) + 1 : c[i].op = "PHI"
    <3>1. \A i \in 1 .. Len(code) + 1 : i \in 1 .. Len(code) \/ i = Len(code) + 1
      BY <1>1 DEF code
    <3> QED
      BY <1>5, <1>6, <3>1
  <2> QED
    BY <1>4, <1>5, <2>1 DEF OnlyPhis
<1>9. BlockFlow(new[b])
  <2>0. \A i \in DOMAIN code : /\ code[i].blks = bs[b].pred
                               /\ Len(code[i].args) = Len(code[i].blks)
    BY <1>2, <1>3, <1>6 DEF BlockFlow
  <2> HIDE DEF c, code
  <2>a. \A i \in DOMAIN c : i \in DOMAIN code \/ i = Len(code) + 1
    BY <1>1, <1>3, <1>5 DEF code
  <2>1. \A i \in DOMAIN c : c[i].op = "PHI" /\ IsLeadingPhi(c, i)
    <3>1. \A i \in DOMAIN c : c[i].op = "PHI"
      BY <1>3, <1>5, <1>6, <2>a
    <3>2. \A i \in DOMAIN c : \A j \in 1 .. i : j \in DOMAIN c
      BY <1>1, <1>5 DEF code
    <3> QED
      BY <3>1, <3>2 DEF IsLeadingPhi
  <2>2. \A i \in DOMAIN c : /\ c[i].blks = bs[b].pred
                            /\ Len(c[i].args) = Len(c[i].blks)
    BY <1>3, <1>5, <2>0, <2>a
  <2>3. \A i \in 1 .. Len(c) - 1 : c[i].op \notin Terminator
    BY <1>1, <1>5, <2>1 DEF Terminator
  <2> QED
    BY <1>4, <1>5, <1>7, <2>1, <2>2, <2>3 DEF BlockFlow
<1>10. \A x \in DOMAIN new :
         /\ new[x].succ = bs[x].succ /\ new[x].pred = bs[x].pred
         /\ BlockFlow(new[x])
  BY <1>4, <1>9 DEF Emitted, FlowOf
<1> QED
  BY <1>4, <1>8, <1>10 DEF FlowOf, EdgesAgree

\* A block is marked.
LEMMA FlowMarks ==
  ASSUME NEW bs, NEW new, NEW b \in 1 .. Len(bs), DOMAIN bs = 1 .. Len(bs),
         DOMAIN new = 1 .. Len(new), Marks(bs, new, b), FlowOf(bs)
  PROVE  FlowOf(new)
<1>1. DOMAIN new = DOMAIN bs
  BY DEF Marks
<1>2. \A x \in DOMAIN new :
        /\ new[x].succ = bs[x].succ /\ new[x].pred = bs[x].pred
        /\ new[x].code = bs[x].code
  BY <1>1 DEF Marks
<1> QED
  BY <1>1, <1>2 DEF FlowOf, EdgesAgree, BlockFlow

\* A branch is added to a block: what the block itself shows.
LEMMA FlowEnds ==
  ASSUME NEW n \in Nat, NEW m \in Nat, NEW block \in Block(n, m),
         NEW instr, NEW ended, BlockFlow(block), ~Ends(block),
         instr.op \in {"BR", "CBR"},
         ended.code = Append(block.code, instr), ended.pred = block.pred,
         ended.succ = instr.blks
  PROVE  BlockFlow(ended)
<1> DEFINE code == block.code
           c    == Append(code, instr)
<1>1. code \in Seq(Instr(n, m))
  BY DEF Block
<1>2. /\ Len(code) \in Nat /\ DOMAIN code = 1 .. Len(code)
      /\ Len(c) = Len(code) + 1 /\ DOMAIN c = 1 .. Len(code) + 1
      /\ \A i \in 1 .. Len(code) : c[i] = code[i]
      /\ c[Len(code) + 1] = instr /\ Last(c) = instr /\ c # << >>
  BY <1>1, AppendParts
<1>3. \A i \in 1 .. Len(code) : code[i].op \notin Terminator
  BY OpenBlock
<1>4. \A i \in 1 .. Len(code) : code[i].op = "PHI" =>
         /\ IsLeadingPhi(code, i) /\ code[i].blks = block.pred
         /\ Len(code[i].args) = Len(code[i].blks)
  BY <1>2 DEF BlockFlow
<1> HIDE DEF c, code
<1>5. \A i \in 1 .. Len(c) - 1 : c[i].op \notin Terminator
  BY <1>2, <1>3
<1>6. \A i \in DOMAIN c : c[i].op = "PHI" =>
         /\ IsLeadingPhi(c, i) /\ c[i].blks = block.pred
         /\ Len(c[i].args) = Len(c[i].blks)
  <2> SUFFICES ASSUME NEW i \in DOMAIN c, c[i].op = "PHI"
               PROVE  /\ IsLeadingPhi(c, i) /\ c[i].blks = block.pred
                      /\ Len(c[i].args) = Len(c[i].blks)
    OBVIOUS
  <2>1. i \in 1 .. Len(code) /\ c[i] = code[i]
    <3>1. i # Len(code) + 1
      BY <1>2
    <3> QED
      BY <1>2, <3>1
  <2> QED
    BY <1>2, <1>4, <2>1 DEF IsLeadingPhi
<1> QED
  BY <1>2, <1>5, <1>6 DEF BlockFlow, c, code

\* A block without code gets an edge.
LEMMA FlowEntered ==
  ASSUME NEW block, NEW entered, block.code = << >>, BlockFlow(block),
         entered.code = << >>, entered.succ = block.succ
  PROVE  BlockFlow(entered)
BY DEF BlockFlow

LEMMA TwoAppends ==
  ASSUME NEW S, NEW t \in S, NEW e \in S
  PROVE  Append(Append(<< >>, t), e) = <<t, e>>
<1>1. Append(<< >>, t) = <<t>>
  OBVIOUS
<1> DEFINE a == Append(<<t>>, e)
<1>2. <<t>> \in Seq(S)
  OBVIOUS
<1>3. Len(a) = 2 /\ a \in Seq(S)
  BY <1>2
<1>4. a[1] = t /\ a[2] = e
  BY <1>2
<1> HIDE DEF a
<1>5. a = <<t, e>>
  BY <1>3, <1>4
<1> QED
  BY <1>1, <1>5 DEF a

\* emit_branch: the edges agree, and so does every block but a target that
\* has phis.
LEMMA FlowBranch ==
  ASSUME NEW n \in Nat, NEW m \in Nat, NEW bs \in Seq(Block(n, m)),
         NEW b \in 1 .. Len(bs), NEW t \in 1 .. Len(bs), b # t,
         NEW new \in Seq(Block(n, m)), Branched(bs, new, b, t),
         FlowOf(bs), ~Ends(bs[b])
  PROVE  /\ EdgesAgree(new)
         /\ \A x \in 1 .. Len(bs) : x # t => BlockFlow(new[x])
         /\ bs[t].code = << >> => FlowOf(new)
<1>1. \A x \in 1 .. Len(bs) :
        /\ bs[x] \in Block(n, m) /\ BlockFlow(bs[x])
        /\ bs[x].succ \in Seq(1 .. m) /\ bs[x].pred \in Seq(1 .. m)
  BY BlockFields DEF FlowOf
<1>2. bs[b].succ = << >>
  BY <1>1, OpenBlock
<1>3. /\ Len(new) = Len(bs) /\ DOMAIN new = 1 .. Len(bs)
      /\ DOMAIN bs = 1 .. Len(bs)
  BY DEF Branched
<1>4. EdgesAgree(new)
  <2> SUFFICES ASSUME NEW x \in 1 .. Len(bs), NEW y \in 1 .. Len(bs)
               PROVE  Occurrences(new[x].succ, y) = Occurrences(new[y].pred, x)
    BY <1>3 DEF EdgesAgree
  <2>1. Occurrences(bs[x].succ, y) = Occurrences(bs[y].pred, x)
    BY <1>3 DEF FlowOf, EdgesAgree
  <2>2. Occurrences(new[x].succ, y) = IF x = b /\ y = t
                                      THEN Occurrences(bs[x].succ, y) + 1
                                      ELSE Occurrences(bs[x].succ, y)
    <3>1. CASE x = b
      <4>1. new[x].succ = Append(bs[x].succ, t)
        BY <3>1 DEF Branched
      <4>2. bs[x].succ \in Seq(1 .. m)
        BY <1>1
      <4>3. Occurrences(Append(bs[x].succ, t), y) =
              IF t = y THEN Occurrences(bs[x].succ, y) + 1
              ELSE Occurrences(bs[x].succ, y)
        BY <4>2, OccurrencesAppend
      <4> QED
        BY <3>1, <4>1, <4>3
    <3>2. CASE x # b
      BY <3>2 DEF Branched
    <3> QED
      BY <3>1, <3>2
  <2>3. Occurrences(new[y].pred, x) = IF x = b /\ y = t
                                      THEN Occurrences(bs[y].pred, x) + 1
                                      ELSE Occurrences(bs[y].pred, x)
    <3>1. CASE y = t
      <4>1. new[y].pred = Append(bs[y].pred, b)
        BY <3>1 DEF Branched
      <4>2. bs[y].pred \in Seq(1 .. m)
        BY <1>1
      <4>3. Occurrences(Append(bs[y].pred, b), x) =
              IF b = x THEN Occurrences(bs[y].pred, x) + 1
              ELSE Occurrences(bs[y].pred, x)
        BY <4>2, OccurrencesAppend
      <4> QED
        BY <3>1, <4>1, <4>3
    <3>2. CASE y # t
      BY <3>2 DEF Branched
    <3> QED
      BY <3>1, <3>2
  <2> QED
    BY <2>1, <2>2, <2>3
<1>5. ASSUME NEW x \in 1 .. Len(bs), x # t
      PROVE  BlockFlow(new[x])
  <2>1. CASE x = b
    <3>1. /\ new[b].code = Append(bs[b].code, Jump(t))
          /\ new[b].succ = <<t>> /\ new[b].pred = bs[b].pred
      <4>1. Append(<< >>, t) = <<t>>
        OBVIOUS
      <4> QED
        BY <1>2, <4>1 DEF Branched
    <3>2. Jump(t).op \in {"BR", "CBR"} /\ new[b].succ = Jump(t).blks
      BY <3>1 DEF Jump
    <3>3. bs[b] \in Block(n, m) /\ BlockFlow(bs[b])
      BY <1>1
    <3>4. BlockFlow(new[b])
      BY <3>1, <3>2, <3>3, FlowEnds, Zenon
    <3> QED
      BY <2>1, <3>4
  <2>2. CASE x # b
    BY <1>1, <1>5, <2>2 DEF Branched
  <2> QED
    BY <2>1, <2>2
<1>6. ASSUME bs[t].code = << >>
      PROVE  FlowOf(new)
  <2>1. new[t].code = << >> /\ new[t].succ = bs[t].succ
    BY <1>6 DEF Branched
  <2>2. BlockFlow(new[t])
    BY <1>1, <1>6, <2>1, FlowEntered
  <2> QED
    BY <1>3, <1>4, <1>5, <2>2 DEF FlowOf
<1> QED
  BY <1>4, <1>5, <1>6

\* emit_conditional_branch to two blocks without code.
LEMMA FlowSplit ==
  ASSUME NEW n \in Nat, NEW m \in Nat, NEW bs \in Seq(Block(n, m)),
         NEW b \in 1 .. Len(bs), NEW t \in 1 .. Len(bs),
         NEW e \in 1 .. Len(bs), b # t, b # e, t # e, NEW o,
         NEW new \in Seq(Block(n, m)), Split(bs, new, b, o, t, e),
         FlowOf(bs), ~Ends(bs[b]), bs[t].code = << >>, bs[e].code = << >>
  PROVE  FlowOf(new)
<1>1. \A x \in 1 .. Len(bs) :
        /\ bs[x] \in Block(n, m) /\ BlockFlow(bs[x])
        /\ bs[x].succ \in Seq(1 .. m) /\ bs[x].pred \in Seq(1 .. m)
  <2>1. DOMAIN bs = 1 .. Len(bs)
    OBVIOUS
  <2>2. \A x \in 1 .. Len(bs) : BlockFlow(bs[x])
    BY <2>1 DEF FlowOf
  <2> QED
    BY <2>2, BlockFields
<1>2. bs[b].succ = << >>
  BY <1>1, OpenBlock
<1>3. /\ Len(new) = Len(bs) /\ DOMAIN new = 1 .. Len(bs)
      /\ DOMAIN bs = 1 .. Len(bs)
  BY DEF Split
<1>4. EdgesAgree(new)
  <2> SUFFICES ASSUME NEW x \in 1 .. Len(bs), NEW y \in 1 .. Len(bs)
               PROVE  Occurrences(new[x].succ, y) = Occurrences(new[y].pred, x)
    BY <1>3 DEF EdgesAgree
  <2>1. Occurrences(bs[x].succ, y) = Occurrences(bs[y].pred, x)
    BY <1>3 DEF FlowOf, EdgesAgree
  <2>2. Occurrences(new[x].succ, y) = IF x = b /\ (y = t \/ y = e)
                                      THEN Occurrences(bs[x].succ, y) + 1
                                      ELSE Occurrences(bs[x].succ, y)
    <3>1. CASE x = b
      <4> DEFINE s == bs[x].succ
      <4>1. new[x].succ = Append(Append(s, t), e)
        BY <3>1 DEF Split
      <4>2. s \in Seq(Nat) /\ Append(s, t) \in Seq(Nat)
        <5>1. << >> \in Seq(Nat) /\ s = << >> /\ t \in Nat
          BY <1>2, <3>1
        <5> HIDE DEF s
        <5> QED
          BY <5>1
      <4>3. Occurrences(Append(s, t), y) = IF t = y THEN Occurrences(s, y) + 1
                                           ELSE Occurrences(s, y)
        BY <4>2, OccurrencesAppend
      <4>4. Occurrences(Append(Append(s, t), e), y) =
              IF e = y THEN Occurrences(Append(s, t), y) + 1
              ELSE Occurrences(Append(s, t), y)
        <5> DEFINE st == Append(s, t)
        <5>1. st \in Seq(Nat)
          BY <4>2
        <5> HIDE DEF st
        <5>2. Occurrences(Append(st, e), y) =
                IF e = y THEN Occurrences(st, y) + 1 ELSE Occurrences(st, y)
          BY <5>1, OccurrencesAppend
        <5> QED
          BY <5>2 DEF st
      <4> HIDE DEF s
      <4> QED
        BY <3>1, <4>1, <4>3, <4>4 DEF s
    <3>2. CASE x # b
      BY <3>2 DEF Split
    <3> QED
      BY <3>1, <3>2
  <2>3. Occurrences(new[y].pred, x) = IF x = b /\ (y = t \/ y = e)
                                      THEN Occurrences(bs[y].pred, x) + 1
                                      ELSE Occurrences(bs[y].pred, x)
    <3>1. CASE y = t \/ y = e
      <4>1. new[y].pred = Append(bs[y].pred, b)
        BY <3>1 DEF Split
      <4>2. bs[y].pred \in Seq(1 .. m)
        BY <1>1
      <4>3. Occurrences(Append(bs[y].pred, b), x) =
              IF b = x THEN Occurrences(bs[y].pred, x) + 1
              ELSE Occurrences(bs[y].pred, x)
        BY <4>2, OccurrencesAppend
      <4> QED
        BY <3>1, <4>1, <4>3
    <3>2. CASE ~(y = t \/ y = e)
      BY <3>2 DEF Split
    <3> QED
      BY <3>1, <3>2
  <2> QED
    BY <2>1, <2>2, <2>3
<1>5. ASSUME NEW x \in 1 .. Len(bs)
      PROVE  BlockFlow(new[x])
  <2>1. CASE x = b
    <3>1. /\ new[b].code = Append(bs[b].code, Choice(o, t, e))
          /\ new[b].succ = <<t, e>> /\ new[b].pred = bs[b].pred
      <4>1. Append(Append(<< >>, t), e) = <<t, e>>
        BY TwoAppends
      <4> QED
        BY <1>2, <4>1 DEF Split
    <3>2. /\ Choice(o, t, e).op \in {"BR", "CBR"}
          /\ new[b].succ = Choice(o, t, e).blks
      BY <3>1 DEF Choice
    <3>3. bs[b] \in Block(n, m) /\ BlockFlow(bs[b])
      BY <1>1
    <3>4. BlockFlow(new[b])
      BY <3>1, <3>2, <3>3, FlowEnds, Zenon
    <3> QED
      BY <2>1, <3>4
  <2>2. CASE x = t \/ x = e
    <3>1. new[x].code = << >> /\ new[x].succ = bs[x].succ /\ bs[x].code = << >>
      BY <2>2 DEF Split
    <3> QED
      BY <1>1, <3>1, FlowEntered
  <2>3. CASE x \notin {b, t, e}
    BY <1>1, <2>3 DEF Split
  <2> QED
    BY <2>1, <2>2, <2>3
<1> QED
  BY <1>3, <1>4, <1>5 DEF FlowOf

\* create_block, some times.
Extends(bs, new) ==
  /\ Len(bs) <= Len(new)
  /\ \A x \in 1 .. Len(bs) : new[x] = bs[x]
  /\ \A x \in Len(bs) + 1 .. Len(new) : new[x] = NewBlock

LEMMA FlowNew ==
  ASSUME NEW n \in Nat, NEW m \in Nat, NEW bs,
         bs \in Seq(Block(n, Len(bs))),
         NEW new \in Seq(Block(n, m)), Extends(bs, new), FlowOf(bs)
  PROVE  FlowOf(new)
<1>1. /\ Len(bs) \in Nat /\ Len(new) \in Nat /\ DOMAIN bs = 1 .. Len(bs)
      /\ DOMAIN new = 1 .. Len(new) /\ Len(bs) <= Len(new)
  BY DEF Extends
<1>2. \A x \in 1 .. Len(bs) :
        /\ bs[x] \in Block(n, Len(bs)) /\ BlockFlow(bs[x])
        /\ bs[x].succ \in Seq(1 .. Len(bs))
        /\ bs[x].pred \in Seq(1 .. Len(bs))
  BY <1>1, BlockFields DEF FlowOf
<1>3. NewBlock.succ = << >> /\ NewBlock.pred = << >> /\ NewBlock.code = << >>
  BY DEF NewBlock
<1>4. \A x \in 1 .. Len(new) : BlockFlow(new[x])
  <2>1. BlockFlow(NewBlock)
    BY <1>3 DEF BlockFlow
  <2> QED
    BY <1>1, <1>2, <2>1 DEF Extends
<1>5. \A x : Occurrences(<< >>, x) = 0
  BY NoOccurrence
<1>6. ASSUME NEW x \in 1 .. Len(new), NEW y \in 1 .. Len(new)
      PROVE  Occurrences(new[x].succ, y) = Occurrences(new[y].pred, x)
  <2>1. CASE x <= Len(bs) /\ y <= Len(bs)
    BY <1>1, <2>1 DEF Extends, FlowOf, EdgesAgree
  <2>2. CASE x > Len(bs) /\ y > Len(bs)
    <3>1. new[x] = NewBlock /\ new[y] = NewBlock
      BY <1>1, <2>2 DEF Extends
    <3> QED
      BY <1>3, <1>5, <3>1
  <2>3. CASE x <= Len(bs) /\ y > Len(bs)
    <3>1. \A i \in DOMAIN bs[x].succ : bs[x].succ[i] # y
      BY <1>1, <1>2, <2>3
    <3>2. Occurrences(bs[x].succ, y) = 0
      BY <3>1, NoOccurrence
    <3> QED
      BY <1>1, <1>3, <1>5, <2>3, <3>2 DEF Extends
  <2>4. CASE x > Len(bs) /\ y <= Len(bs)
    <3>1. \A i \in DOMAIN bs[y].pred : bs[y].pred[i] # x
      BY <1>1, <1>2, <2>4
    <3>2. Occurrences(bs[y].pred, x) = 0
      BY <3>1, NoOccurrence
    <3>3. new[x] = NewBlock /\ new[y] = bs[y]
      BY <1>1, <2>4 DEF Extends
    <3> QED
      BY <1>3, <1>5, <3>2, <3>3
  <2> QED
    BY <1>1, <2>1, <2>2, <2>3, <2>4
<1> QED
  BY <1>1, <1>4, <1>6 DEF FlowOf, EdgesAgree

\* The blocks that emit_if, emit_while and the connectives append.
LEMMA ExtendsNew ==
  ASSUME NEW n \in Nat, NEW m \in Nat, NEW bs \in Seq(Block(n, m))
  PROVE  /\ Extends(bs, bs \o <<NewBlock, NewBlock>>)
         /\ Extends(bs, bs \o <<NewBlock, NewBlock, NewBlock>>)
<1>1. Len(bs) \in Nat
  OBVIOUS
<1>2. \A x \in Len(bs) + 1 .. Len(bs) + 2 :
        (bs \o <<NewBlock, NewBlock>>)[x] = NewBlock
  OBVIOUS
<1>3. \A x \in Len(bs) + 1 .. Len(bs) + 3 :
        (bs \o <<NewBlock, NewBlock, NewBlock>>)[x] = NewBlock
  OBVIOUS
<1>4. /\ Len(bs \o <<NewBlock, NewBlock>>) = Len(bs) + 2
      /\ Len(bs \o <<NewBlock, NewBlock, NewBlock>>) = Len(bs) + 3
      /\ \A x \in 1 .. Len(bs) :
           /\ (bs \o <<NewBlock, NewBlock>>)[x] = bs[x]
           /\ (bs \o <<NewBlock, NewBlock, NewBlock>>)[x] = bs[x]
  OBVIOUS
<1> QED
  BY <1>1, <1>2, <1>3, <1>4 DEF Extends

-----------------------------------------------------------------------------
(***************************************************************************)
(* The stack.                                                              *)
(***************************************************************************)

\* The part of an activation that its calls do not change: everything but
\* the operands it received and what it knows of its statements.
Alike(f, g) ==
  /\ g.kind = f.kind
  /\ f.kind \in ExprKind => g.wants = f.wants
  /\ f.kind = "ASSIGN" => g.name = f.name /\ g.dest = f.dest
  /\ f.kind \in OperandKind \cup {"CALL"} => g.target = f.target
  /\ f.kind = "BINARY" => g.op = f.op
  /\ f.kind = "CALL" => g.ret = f.ret
  /\ f.kind = "RIGHT" => g.merge = f.merge /\ g.decision = f.decision
  /\ f.kind = "THEN" => g.else = f.else /\ g.merge = f.merge
  /\ f.kind \in {"ELSE", "NOELSE"} => g.merge = f.merge /\ g.then = f.then
  /\ f.kind \in {"WHILECOND", "LOOP"} => g.header = f.header
  /\ f.kind \in {"THEN", "ELSE", "NOELSE"} => g.count = f.count
  /\ f.kind \in {"THEN", "ELSE", "NOELSE", "WHILECOND", "LOOP"} =>
       g.incoming = f.incoming
  /\ f.kind = "LOOP" => g.bound = f.bound

LEMMA AlikeArgs ==
  ASSUME NEW n \in Nat, NEW m \in Nat, NEW k \in Nat,
         NEW f \in Frame(n, m, k), NEW a, NEW g, f.kind \in ExprKind,
         g = [f EXCEPT !.args = a]
  PROVE  Alike(f, g) /\ g.args = a
<1>1. CASE f.kind = "ASSIGN"
  <2>1. f \in AssignFrame(n)
    BY <1>1, FrameByKind
  <2> QED
    BY <1>1, <2>1 DEF AssignFrame, Alike, OperandKind
<1>2. CASE f.kind \in {"RETURN", "IFCOND"}
  <2>1. f \in ValueFrame(n)
    BY <1>2, FrameByKind
  <2> QED
    BY <1>2, <2>1 DEF ValueFrame, Alike, OperandKind
<1>3. CASE f.kind = "WHILECOND"
  <2>1. f \in WhileFrame(n, m)
    BY <1>3, FrameByKind
  <2> QED
    BY <1>3, <2>1 DEF WhileFrame, Alike, OperandKind
<1>4. CASE f.kind = "BINARY"
  <2>1. f \in BinaryFrame(n)
    BY <1>4, FrameByKind
  <2> QED
    BY <1>4, <2>1 DEF BinaryFrame, Alike, OperandKind
<1>5. CASE f.kind = "NOT"
  <2>1. f \in NotFrame(n)
    BY <1>5, FrameByKind
  <2> QED
    BY <1>5, <2>1 DEF NotFrame, Alike, OperandKind
<1>6. CASE f.kind = "CALL"
  <2>1. f \in CallFrame(n)
    BY <1>6, FrameByKind
  <2> QED
    BY <1>6, <2>1 DEF CallFrame, Alike, OperandKind
<1>7. CASE f.kind = "LEFT"
  <2>1. f \in LeftFrame(n)
    BY <1>7, FrameByKind
  <2> QED
    BY <1>7, <2>1 DEF LeftFrame, Alike, OperandKind
<1>8. CASE f.kind = "RIGHT"
  <2>1. f \in RightFrame(n, m)
    BY <1>8, FrameByKind
  <2> QED
    BY <1>8, <2>1 DEF RightFrame, Alike, OperandKind
<1> QED
  BY <1>1, <1>2, <1>3, <1>4, <1>5, <1>6, <1>7, <1>8 DEF ExprKind

LEMMA AlikeRets ==
  ASSUME NEW n \in Nat, NEW m \in Nat, NEW k \in Nat,
         NEW f \in Frame(n, m, k), NEW r, NEW g, f.kind \in ListKind,
         g = [f EXCEPT !.rets = r]
  PROVE  Alike(f, g) /\ g.rets = r
<1>1. CASE f.kind \in {"FBODY", "BLOCK"}
  <2>1. f \in ListFrame
    BY <1>1, FrameByKind
  <2> QED
    BY <1>1, <2>1 DEF ListFrame, Alike, OperandKind, ExprKind
<1>2. CASE f.kind = "THEN"
  <2>1. f \in ThenFrame(n, m, k)
    BY <1>2, FrameByKind
  <2> QED
    BY <1>2, <2>1 DEF ThenFrame, Alike, OperandKind, ExprKind
<1>3. CASE f.kind = "ELSE"
  <2>1. f \in ElseFrame(n, m, k)
    BY <1>3, FrameByKind
  <2> QED
    BY <1>3, <2>1 DEF ElseFrame, Alike, OperandKind, ExprKind
<1>4. CASE f.kind = "LOOP"
  <2>1. f \in LoopFrame(n, m)
    BY <1>4, FrameByKind
  <2> QED
    BY <1>4, <2>1 DEF LoopFrame, Alike, OperandKind, ExprKind
<1> QED
  BY <1>1, <1>2, <1>3, <1>4 DEF ListKind

\* The first k activations are still running.
Keeps(k) ==
  /\ k \in Nat /\ k <= Len(ctrl) /\ k <= Len(ctrl')
  /\ \A i \in 1 .. k : Alike(ctrl[i], ctrl'[i])

\* A sequence with one element replaced.
LEMMA ExceptParts ==
  ASSUME NEW S, NEW s \in Seq(S), NEW l \in 1 .. Len(s), NEW e
  PROVE  /\ Len([s EXCEPT ![l] = e]) = Len(s)
         /\ DOMAIN [s EXCEPT ![l] = e] = 1 .. Len(s)
         /\ [s EXCEPT ![l] = e][l] = e
         /\ \A i \in 1 .. Len(s) : i # l => [s EXCEPT ![l] = e][i] = s[i]
<1> DEFINE t == [s EXCEPT ![l] = e]
<1>1. DOMAIN s = 1 .. Len(s) /\ Len(s) \in Nat
  OBVIOUS
<1>2. /\ DOMAIN t = 1 .. Len(s) /\ t[l] = e
      /\ \A i \in 1 .. Len(s) : i # l => t[i] = s[i]
  BY <1>1
<1>3. t \in Seq(S \cup {e})
  <2>1. s \in Seq(S \cup {e})
    OBVIOUS
  <2> QED
    BY <2>1
<1> HIDE DEF t
<1>4. Len(t) = Len(s)
  BY <1>1, <1>2, <1>3
<1> QED
  BY <1>2, <1>4 DEF t

LEMMA AlikeSame == \A f : Alike(f, f)
BY DEF Alike

LEMMA StackFrames ==
  ASSUME TypeOK
  PROVE  /\ ctrl \in Seq(StackFrame) /\ DOMAIN ctrl = 1 .. Len(ctrl)
         /\ Len(ctrl) \in Nat /\ Len(ctrl) >= 1
         /\ Top = ctrl[Len(ctrl)] /\ Top \in StackFrame
         /\ \A i \in 1 .. Len(ctrl) : ctrl[i] \in StackFrame
         /\ Len(values) \in Nat /\ Len(blocks) \in Nat /\ Len(names) \in Nat
         /\ cur \in 1 .. Len(blocks) /\ DOMAIN blocks = 1 .. Len(blocks)
         /\ blocks \in Seq(Block(Len(values), Len(blocks)))
<1>1. ctrl \in Seq(StackFrame) /\ Nested(ctrl)
  BY DEF TypeOK, StackType, StackFrame
<1>2. Len(ctrl) \in Nat \ {0} /\ Top = ctrl[Len(ctrl)] /\ Top \in StackFrame
  BY <1>1, TopFrame DEF Top
<1>3. blocks \in Seq(Block(Len(values), Len(blocks)))
  BY DEF TypeOK, IRType
<1>4. DOMAIN blocks = 1 .. Len(blocks)
  BY <1>3
<1> QED
  BY <1>1, <1>2, <1>3, <1>4, Lengths DEF TypeOK

\* The shape of the stack after each of the operators that change it.
LEMMA SameShape ==
  ASSUME TypeOK, UNCHANGED ctrl
  PROVE  Keeps(Len(ctrl)) /\ Len(ctrl') = Len(ctrl)
BY StackFrames, AlikeSame DEF Keeps

LEMMA UpdateShape ==
  ASSUME TypeOK, NEW l \in Nat, NEW p \in Seq(StackFrame), Len(p) = l,
         l >= 1, l <= Len(ctrl), \A i \in 1 .. l : p[i] = ctrl[i],
         NEW g, Alike(p[l], g), ctrl' = [p EXCEPT ![l] = g]
  PROVE  /\ Keeps(l) /\ Len(ctrl') = l /\ ctrl'[l] = g
         /\ \A i \in 1 .. l - 1 : ctrl'[i] = ctrl[i]
<1>1. l \in 1 .. Len(p)
  OBVIOUS
<1>2. /\ Len(ctrl') = Len(p) /\ ctrl'[l] = g
      /\ \A i \in 1 .. Len(p) : i # l => ctrl'[i] = p[i]
  BY <1>1, ExceptParts
<1>3. \A i \in 1 .. l : Alike(ctrl[i], ctrl'[i])
  BY <1>1, <1>2, AlikeSame
<1> QED
  BY <1>2, <1>3 DEF Keeps

LEMMA ReceiveShape ==
  ASSUME TypeOK, NEW o, Receive(o), Top.kind \in ExprKind
  PROVE  /\ Keeps(Len(ctrl)) /\ Len(ctrl') = Len(ctrl)
         /\ \A i \in 1 .. Len(ctrl) - 1 : ctrl'[i] = ctrl[i]
         /\ Alike(Top, ctrl'[Len(ctrl)])
         /\ ctrl'[Len(ctrl)].args = Append(Top.args, o)
<1> DEFINE l == Len(ctrl)
           a == Append(ctrl[l].args, o)
           g == [ctrl[l] EXCEPT !.args = a]
<1>1. l \in Nat /\ l >= 1 /\ ctrl \in Seq(StackFrame) /\ ctrl[l] = Top
  BY StackFrames
<1>2. ctrl' = [ctrl EXCEPT ![l] = g]
  BY Zenon DEF Receive
<1>3. /\ ctrl[l] \in Frame(Len(values), Len(blocks), Len(names))
      /\ ctrl[l].kind \in ExprKind
      /\ Len(values) \in Nat /\ Len(blocks) \in Nat /\ Len(names) \in Nat
  BY <1>1, StackFrames DEF StackFrame
<1>4. g = [ctrl[l] EXCEPT !.args = a]
  OBVIOUS
<1> HIDE DEF g, a
<1>5. Alike(ctrl[l], g) /\ g.args = a
  BY <1>3, <1>4, AlikeArgs
<1> HIDE DEF l
<1>6. /\ Keeps(l) /\ Len(ctrl') = l /\ ctrl'[l] = g
      /\ \A i \in 1 .. l - 1 : ctrl'[i] = ctrl[i]
  <2>1. l <= Len(ctrl) /\ Len(ctrl) = l /\ \A i \in 1 .. l : ctrl[i] = ctrl[i]
    BY <1>1 DEF l
  <2> QED
    BY <1>1, <1>2, <1>5, <2>1, UpdateShape
<1> QED
  BY <1>1, <1>3, <1>5, <1>6 DEF a, l

LEMMA PushShape ==
  ASSUME TypeOK, NEW f, Push(f)
  PROVE  /\ Keeps(Len(ctrl)) /\ Len(ctrl') = Len(ctrl) + 1
         /\ \A i \in 1 .. Len(ctrl) : ctrl'[i] = ctrl[i]
         /\ ctrl'[Len(ctrl) + 1] = f
<1>1. /\ Len(ctrl') = Len(ctrl) + 1 /\ ctrl'[Len(ctrl) + 1] = f
      /\ \A i \in 1 .. Len(ctrl) : ctrl'[i] = ctrl[i]
  BY StackFrames DEF Push
<1> QED
  BY <1>1, StackFrames, AlikeSame DEF Keeps

LEMMA ReplaceShape ==
  ASSUME TypeOK, NEW f, Replace(f)
  PROVE  /\ Keeps(Len(ctrl) - 1) /\ Len(ctrl') = Len(ctrl)
         /\ \A i \in 1 .. Len(ctrl) - 1 : ctrl'[i] = ctrl[i]
         /\ ctrl'[Len(ctrl)] = f
<1>1. /\ Len(ctrl') = Len(ctrl) /\ ctrl'[Len(ctrl)] = f
      /\ \A i \in 1 .. Len(ctrl) - 1 : ctrl'[i] = ctrl[i]
  <2> DEFINE l == Len(ctrl)
  <2>1. l \in 1 .. Len(ctrl) /\ l \in Nat /\ ctrl \in Seq(StackFrame)
    BY StackFrames
  <2>2. ctrl' = [ctrl EXCEPT ![l] = f]
    BY DEF Replace
  <2>3. /\ Len(ctrl') = Len(ctrl) /\ ctrl'[l] = f
        /\ \A i \in 1 .. Len(ctrl) : i # l => ctrl'[i] = ctrl[i]
    BY <2>1, <2>2, ExceptParts
  <2> QED
    BY <2>1, <2>3
<1> QED
  BY <1>1, StackFrames, AlikeSame DEF Keeps

\* The caller of the innermost call, when that is not emit_function.
LEMMA PoppedFrames ==
  ASSUME TypeOK, Top.kind # "FBODY"
  PROVE  /\ Len(ctrl) >= 2 /\ Len(Front(ctrl)) = Len(ctrl) - 1
         /\ Front(ctrl) \in Seq(StackFrame)
         /\ \A i \in 1 .. Len(ctrl) - 1 : Front(ctrl)[i] = ctrl[i]
<1>1. /\ ctrl \in Seq(StackFrame) /\ Nested(ctrl)
      /\ ctrl[Len(ctrl)].kind # "FBODY"
  BY StackFrames DEF TypeOK, StackType
<1> QED
  BY <1>1, PopNested, TopNotBottom

LEMMA PopShape ==
  ASSUME TypeOK, Pop, Top.kind # "FBODY"
  PROVE  /\ Keeps(Len(ctrl) - 1) /\ Len(ctrl') = Len(ctrl) - 1
         /\ \A i \in 1 .. Len(ctrl) - 1 : ctrl'[i] = ctrl[i]
<1>1. /\ Len(ctrl') = Len(ctrl) - 1 /\ Len(ctrl) \in Nat /\ Len(ctrl) >= 2
      /\ \A i \in 1 .. Len(ctrl) - 1 : ctrl'[i] = ctrl[i]
  BY StackFrames, PoppedFrames DEF Pop
<1> QED
  BY <1>1, AlikeSame DEF Keeps

LEMMA ReturnShape ==
  ASSUME TypeOK, NEW o, Return(o), Top.kind # "FBODY",
         ctrl[Len(ctrl) - 1].kind \in ExprKind
  PROVE  /\ Keeps(Len(ctrl) - 1) /\ Len(ctrl') = Len(ctrl) - 1
         /\ \A i \in 1 .. Len(ctrl) - 2 : ctrl'[i] = ctrl[i]
         /\ ctrl'[Len(ctrl) - 1].args = Append(ctrl[Len(ctrl) - 1].args, o)
<1> DEFINE l == Len(ctrl) - 1
           p == Front(ctrl)
           a == Append(p[l].args, o)
           g == [p[l] EXCEPT !.args = a]
<1>1. /\ l \in Nat /\ l >= 1 /\ Len(ctrl) \in Nat
      /\ p \in Seq(StackFrame) /\ Len(p) = l
      /\ \A i \in 1 .. l : p[i] = ctrl[i]
  <2>1. /\ Len(ctrl) >= 2 /\ Len(p) = l /\ p \in Seq(StackFrame)
        /\ \A i \in 1 .. l : p[i] = ctrl[i]
    BY PoppedFrames
  <2>2. Len(ctrl) \in Nat
    BY StackFrames
  <2> HIDE DEF p
  <2> QED
    BY <2>1, <2>2
<1>2. ctrl' = [p EXCEPT ![l] = g]
  BY Zenon DEF Return
<1>3. /\ p[l] \in Frame(Len(values), Len(blocks), Len(names))
      /\ p[l] = ctrl[l] /\ p[l].kind \in ExprKind /\ l \in 1 .. Len(p)
      /\ Len(values) \in Nat /\ Len(blocks) \in Nat /\ Len(names) \in Nat
  BY <1>1, StackFrames DEF StackFrame
<1>4. g = [p[l] EXCEPT !.args = a]
  OBVIOUS
<1> HIDE DEF g, a
<1>5. Alike(p[l], g) /\ g.args = a
  BY <1>3, <1>4, AlikeArgs
<1> HIDE DEF p, l
<1>6. /\ Keeps(l) /\ Len(ctrl') = l /\ ctrl'[l] = g
      /\ \A i \in 1 .. l - 1 : ctrl'[i] = ctrl[i]
  <2>1. l <= Len(ctrl)
    BY <1>1 DEF l
  <2> QED
    BY <1>1, <1>2, <1>5, <2>1, UpdateShape
<1> QED
  BY <1>1, <1>3, <1>5, <1>6 DEF a, l

LEMMA EndShape ==
  ASSUME TypeOK, NEW r, EndStatement(r), Top.kind # "FBODY",
         ctrl[Len(ctrl) - 1].kind \in ListKind
  PROVE  /\ Keeps(Len(ctrl) - 1) /\ Len(ctrl') = Len(ctrl) - 1
         /\ \A i \in 1 .. Len(ctrl) - 2 : ctrl'[i] = ctrl[i]
         /\ ctrl'[Len(ctrl) - 1].rets = (ctrl[Len(ctrl) - 1].rets \/ r)
<1> DEFINE l == Len(ctrl) - 1
           p == Front(ctrl)
           a == p[l].rets \/ r
           g == [p[l] EXCEPT !.rets = a]
<1>1. /\ l \in Nat /\ l >= 1 /\ Len(ctrl) \in Nat
      /\ p \in Seq(StackFrame) /\ Len(p) = l
      /\ \A i \in 1 .. l : p[i] = ctrl[i]
  <2>1. /\ Len(ctrl) >= 2 /\ Len(p) = l /\ p \in Seq(StackFrame)
        /\ \A i \in 1 .. l : p[i] = ctrl[i]
    BY PoppedFrames
  <2>2. Len(ctrl) \in Nat
    BY StackFrames
  <2> HIDE DEF p
  <2> QED
    BY <2>1, <2>2
<1>2. ctrl' = [p EXCEPT ![l] = g]
  BY Zenon DEF EndStatement
<1>3. /\ p[l] \in Frame(Len(values), Len(blocks), Len(names))
      /\ p[l] = ctrl[l] /\ p[l].kind \in ListKind /\ l \in 1 .. Len(p)
      /\ Len(values) \in Nat /\ Len(blocks) \in Nat /\ Len(names) \in Nat
  BY <1>1, StackFrames DEF StackFrame
<1>4. g = [p[l] EXCEPT !.rets = a]
  OBVIOUS
<1> HIDE DEF g, a
<1>5. Alike(p[l], g) /\ g.rets = a
  BY <1>3, <1>4, AlikeRets
<1> HIDE DEF p, l
<1>6. /\ Keeps(l) /\ Len(ctrl') = l /\ ctrl'[l] = g
      /\ \A i \in 1 .. l - 1 : ctrl'[i] = ctrl[i]
  <2>1. l <= Len(ctrl)
    BY <1>1 DEF l
  <2> QED
    BY <1>1, <1>2, <1>5, <2>1, UpdateShape
<1> QED
  BY <1>1, <1>3, <1>5, <1>6 DEF a, l

-----------------------------------------------------------------------------
(***************************************************************************)
(* A step of the lowering that leaves the first k activations running.     *)
(***************************************************************************)

Idle(block) ==
  block.code = << >> /\ block.succ = << >> /\ ~block.terminated

\* The phis of block h are those that it had.
PhisKept(h) ==
  \A i \in DOMAIN blocks'[h].code :
    IsLeadingPhi(blocks'[h].code, i) =>
      /\ i \in DOMAIN blocks[h].code
      /\ IsLeadingPhi(blocks[h].code, i)
      /\ blocks'[h].code[i].dest = blocks[h].code[i].dest

\* What the step may do to the code while k activations are running.
CodeStep(k) ==
  /\ Len(blocks) <= Len(blocks')
  /\ Len(values) <= Len(values')
  /\ \A id \in 1 .. Len(values) : values'[id] = values[id]
  /\ \A i \in 1 .. k : \A b \in 1 .. Len(blocks) :
       Awaits(ctrl[i], b) => b # cur' /\ blocks'[b] = blocks[b]
  /\ \A b \in 1 .. Len(blocks) : blocks[b].terminated => blocks'[b].terminated
  /\ cur' = cur \/ blocks'[cur].terminated
  /\ \A i \in 1 .. k :
       ctrl[i].kind \in {"WHILECOND", "LOOP"} => PhisKept(ctrl[i].header)

\* What it may put on top of them.
TopStep(k) ==
  /\ Keeps(k)
  /\ Len(ctrl) \in {k, k + 1} /\ Len(ctrl') \in {k, k + 1}
  /\ k = Len(ctrl) => Top.kind \notin {"MERGE", "HEADER"}
  /\ Len(ctrl') = k + 1 =>
       LET new == ctrl'[k + 1]
       IN  /\ \A b \in 1 .. Len(blocks') : Awaits(new, b) =>
                /\ b # cur' /\ Idle(blocks'[b])
                /\ \/ b > Len(blocks)
                   \/ Len(ctrl) = k + 1 /\ Awaits(Top, b)
           /\ FlowIn(blocks', cur', values', new)
           /\ \/ new.kind \in OperandKind \cup {"CALL"}
              \/ /\ Top.kind \notin OperandKind \cup {"CALL"}
                 /\ k = Len(ctrl) => Top.kind \notin ExprKind

\* No block is forgotten.
CoverStep(k) ==
  ~dropped' =>
    /\ ~dropped
    /\ \A b \in 1 .. Len(blocks') :
         \/ b > Len(blocks)
         \/ Len(ctrl) = k + 1 /\ Awaits(Top, b)
         => \/ b = cur'
            \/ Len(ctrl') = k + 1 /\ Awaits(ctrl'[k + 1], b)

LEMMA AlikeAwaits ==
  ASSUME NEW f, NEW g, NEW b, Alike(f, g), f.kind # "HEADER"
  PROVE  Awaits(g, b) <=> Awaits(f, b)
BY DEF Alike, Awaits

\* Only the innermost activation can be one that calls nobody.
LEMMA NotBelow ==
  ASSUME TypeOK, NEW i \in 1 .. Len(ctrl) - 1
  PROVE  ctrl[i].kind \in ListKind \cup ExprKind
<1>1. i + 1 \in 2 .. Len(ctrl) /\ (i + 1) - 1 = i
  BY StackFrames
<1>2. Calls(ctrl[i].kind, ctrl[i + 1].kind)
  BY <1>1 DEF TypeOK, StackType, Nested
<1> QED
  BY <1>2 DEF Calls

LEMMA KeptKind ==
  ASSUME TypeOK, NEW k, TopStep(k), NEW i \in 1 .. k
  PROVE  /\ ctrl[i].kind \notin {"MERGE", "HEADER"}
         /\ i \in 1 .. Len(ctrl) /\ i \in 1 .. Len(ctrl')
         /\ Alike(ctrl[i], ctrl'[i])
<1>1. /\ k \in Nat /\ k <= Len(ctrl) /\ k <= Len(ctrl')
      /\ Alike(ctrl[i], ctrl'[i])
      /\ k = Len(ctrl) => Top.kind \notin {"MERGE", "HEADER"}
  BY DEF TopStep, Keeps
<1>2. Len(ctrl) \in Nat /\ Top = ctrl[Len(ctrl)]
  BY StackFrames
<1>3. CASE i = Len(ctrl)
  BY <1>1, <1>2, <1>3
<1>4. CASE i # Len(ctrl)
  <2>1. ctrl[i].kind \in ListKind \cup ExprKind
    BY <1>1, <1>2, <1>4, NotBelow
  <2> QED
    BY <1>1, <1>2, <2>1 DEF ListKind, ExprKind
<1> QED
  BY <1>1, <1>2, <1>3, <1>4

\* The blocks that an activation refers to.
LEMMA FrameBlocks ==
  ASSUME TypeOK, NEW i \in 1 .. Len(ctrl)
  PROVE  /\ \A b : Awaits(ctrl[i], b) => b \in 1 .. Len(blocks)
         /\ ctrl[i].kind \in {"HEADER", "WHILECOND", "LOOP"} =>
              /\ ctrl[i].header \in 1 .. Len(blocks)
              /\ ctrl[i].header + 1 \in 1 .. Len(blocks)
              /\ ctrl[i].header + 2 \in 1 .. Len(blocks)
         /\ ctrl[i].kind \in {"RIGHT", "THEN", "ELSE", "NOELSE"} =>
              ctrl[i].merge \in 1 .. Len(blocks)
         /\ ctrl[i].kind = "THEN" => ctrl[i].else \in 1 .. Len(blocks)
<1> DEFINE f == ctrl[i]
<1>1. /\ f \in Frame(Len(values), Len(blocks), Len(names))
      /\ Len(values) \in Nat /\ Len(blocks) \in Nat /\ Len(names) \in Nat
  BY StackFrames DEF StackFrame
<1> HIDE DEF f
<1>2. CASE f.kind = "RIGHT"
  <2>1. f \in RightFrame(Len(values), Len(blocks))
    BY <1>1, <1>2, FrameByKind
  <2> QED
    BY <1>2, <2>1 DEF RightFrame, Awaits, f
<1>3. CASE f.kind = "THEN"
  <2>1. f \in ThenFrame(Len(values), Len(blocks), Len(names))
    BY <1>1, <1>3, FrameByKind
  <2> QED
    BY <1>3, <2>1 DEF ThenFrame, Awaits, f
<1>4. CASE f.kind \in {"ELSE", "NOELSE"}
  <2>1. f \in ElseFrame(Len(values), Len(blocks), Len(names))
    BY <1>1, <1>4, FrameByKind
  <2> QED
    BY <1>4, <2>1 DEF ElseFrame, Awaits, f
<1>5. CASE f.kind \in {"HEADER", "WHILECOND", "LOOP"}
  <2>1. f.header \in 1 .. Len(blocks) - 2
    <3>1. CASE f.kind = "HEADER"
      <4>1. f \in HeaderFrame(Len(values), Len(blocks), Len(names))
        BY <1>1, <3>1, FrameByKind
      <4> QED
        BY <4>1 DEF HeaderFrame
    <3>2. CASE f.kind = "WHILECOND"
      <4>1. f \in WhileFrame(Len(values), Len(blocks))
        BY <1>1, <3>2, FrameByKind
      <4> QED
        BY <4>1 DEF WhileFrame
    <3>3. CASE f.kind = "LOOP"
      <4>1. f \in LoopFrame(Len(values), Len(blocks))
        BY <1>1, <3>3, FrameByKind
      <4> QED
        BY <4>1 DEF LoopFrame
    <3> QED
      BY <1>5, <3>1, <3>2, <3>3
  <2>2. /\ f.header \in 1 .. Len(blocks)
        /\ f.header + 1 \in 1 .. Len(blocks)
        /\ f.header + 2 \in 1 .. Len(blocks)
    BY <1>1, <2>1
  <2>3. \A b : Awaits(f, b) => b = f.header + 1 \/ b = f.header + 2
    BY <1>5 DEF Awaits
  <2> QED
    BY <1>5, <2>2, <2>3 DEF f
<1>6. CASE f.kind \notin {"RIGHT", "THEN", "ELSE", "NOELSE", "HEADER",
                          "WHILECOND", "LOOP"}
  BY <1>6 DEF Awaits, f
<1> QED
  BY <1>2, <1>3, <1>4, <1>5, <1>6

\* The destination of a phi is a value.
LEMMA PhiDest ==
  ASSUME NEW n \in Nat, NEW m \in Nat, NEW instr \in Instr(n, m),
         instr.op = "PHI"
  PROVE  instr.dest \in ValueOperand(n) /\ instr.dest.id \in 1 .. n
BY DEF Instr, ValueOperand

\* What is recorded of the loops around stays true.
\* Values that exist stay as they are.
LEMMA CarriesKept ==
  ASSUME TypeOK, NEW f, f.incoming \in Snapshot(Len(values)),
         NEW dest \in ValueOperand(Len(values)), NEW vs, NEW g,
         g.incoming = f.incoming,
         \A id \in 1 .. Len(values) : vs[id] = values[id]
  PROVE  Carries(values, f, dest) => Carries(vs, g, dest)
<1>1. dest.id \in 1 .. Len(values) /\ Len(values) \in Nat
  BY StackFrames DEF ValueOperand
<1>2. values[dest.id].name \in AllName /\ vs[dest.id] = values[dest.id]
  BY <1>1, ValueOfType DEF TypeOK
<1> DEFINE n == values[dest.id].name
           v == f.incoming[n]
<1>3. v \in 0 .. Len(values)
  BY <1>2 DEF Snapshot
<1>4. v # Invalid => v \in 1 .. Len(values) /\ vs[v] = values[v]
  BY <1>1, <1>3 DEF Invalid
<1> QED
  BY <1>2, <1>4 DEF Carries

LEMMA CarriedKept ==
  ASSUME TypeOK, NEW i \in 1 .. Len(ctrl), CarriedIn(blocks, values, ctrl[i]),
         ctrl[i].kind \in {"WHILECOND", "LOOP"}, NEW g,
         g.header = ctrl[i].header, g.incoming = ctrl[i].incoming,
         PhisKept(ctrl[i].header),
         \A id \in 1 .. Len(values) : values'[id] = values[id]
  PROVE  CarriedIn(blocks', values', g)
<1> DEFINE f    == ctrl[i]
           h    == f.header
           code == blocks[h].code
           new  == blocks'[h].code
<1>1. g.header = h /\ g.incoming = f.incoming
  OBVIOUS
<1>2. h \in 1 .. Len(blocks)
  BY FrameBlocks
<1>3. /\ code \in Seq(Instr(Len(values), Len(blocks)))
      /\ Len(values) \in Nat /\ Len(blocks) \in Nat
  BY <1>2, StackFrames, BlockFields
<1> SUFFICES ASSUME NEW j \in DOMAIN new, IsLeadingPhi(new, j)
             PROVE  Carries(values', g, new[j].dest)
  BY <1>1 DEF CarriedIn
<1>4. /\ j \in DOMAIN code /\ IsLeadingPhi(code, j)
      /\ new[j].dest = code[j].dest
  BY DEF PhisKept
<1>5. Carries(values, f, code[j].dest)
  BY <1>4 DEF CarriedIn
<1>6. code[j].dest \in ValueOperand(Len(values))
  <2>1. j \in 1 .. j /\ code[j] \in Instr(Len(values), Len(blocks))
    BY <1>3, <1>4
  <2>2. code[j].op = "PHI"
    BY <1>4, <2>1 DEF IsLeadingPhi
  <2> HIDE DEF code
  <2> QED
    BY <1>3, <2>1, <2>2, PhiDest
<1>7. f.incoming \in Snapshot(Len(values))
  <2>1. /\ ctrl[i] \in Frame(Len(values), Len(blocks), Len(names))
        /\ Len(names) \in Nat
    BY StackFrames DEF StackFrame
  <2>2. ctrl[i] \in WhileFrame(Len(values), Len(blocks))
        \/ ctrl[i] \in LoopFrame(Len(values), Len(blocks))
    BY <1>3, <2>1, FrameByKind
  <2> QED
    BY <2>2 DEF WhileFrame, LoopFrame
<1> HIDE DEF code, new, f
<1> QED
  BY <1>1, <1>4, <1>5, <1>6, <1>7, CarriesKept

\* The part of Lowering that is about a running activation.
LEMMA FrameFlowKept ==
  ASSUME TypeOK, NEW k, TopStep(k), CodeStep(k), NEW i \in 1 .. k,
         FrameFlow(ctrl[i])
  PROVE  FlowIn(blocks', cur', values', ctrl'[i])
<1> DEFINE f == ctrl[i]
           g == ctrl'[i]
<1>1. /\ f.kind \notin {"MERGE", "HEADER"} /\ i \in 1 .. Len(ctrl)
      /\ Alike(f, g)
  BY KeptKind
<1>2. \A b \in 1 .. Len(blocks) : Awaits(f, b) => blocks'[b] = blocks[b]
  BY DEF CodeStep
<1>3. CASE f.kind = "RIGHT"
  <2>1. g.merge = f.merge /\ g.decision = f.decision /\ g.kind = "RIGHT"
    BY <1>1, <1>3 DEF Alike
  <2>2. f.merge \in 1 .. Len(blocks) /\ Awaits(f, f.merge)
    BY <1>1, <1>3, FrameBlocks DEF Awaits
  <2>3. blocks'[g.merge].pred = <<g.decision>>
    BY <1>2, <1>3, <2>1, <2>2 DEF FrameFlow, FlowIn
  <2> QED
    BY <2>1, <2>3 DEF FrameFlow, FlowIn
<1>4. CASE f.kind = "THEN"
  <2>1. g.merge = f.merge /\ g.else = f.else /\ g.kind = "THEN"
    BY <1>1, <1>4 DEF Alike
  <2>2. f.merge \in 1 .. Len(blocks) /\ Awaits(f, f.merge)
    BY <1>1, <1>4, FrameBlocks DEF Awaits
  <2>3. g.else # g.merge /\ blocks'[g.merge].pred = << >>
    BY <1>2, <1>4, <2>1, <2>2 DEF FrameFlow, FlowIn
  <2> QED
    BY <2>1, <2>3 DEF FrameFlow, FlowIn
<1>5. CASE f.kind \in {"ELSE", "NOELSE"}
  <2>1. g.merge = f.merge /\ g.then = f.then /\ g.kind \in {"ELSE", "NOELSE"}
    BY <1>1, <1>5 DEF Alike
  <2>2. f.merge \in 1 .. Len(blocks) /\ Awaits(f, f.merge)
    BY <1>1, <1>5, FrameBlocks DEF Awaits
  <2>3. blocks'[g.merge].pred = Arrived(g.then)
    BY <1>2, <1>5, <2>1, <2>2 DEF FrameFlow, FlowIn
  <2> QED
    BY <2>1, <2>3 DEF FrameFlow, FlowIn
<1>6. CASE f.kind \in {"WHILECOND", "LOOP"}
  <2>1. g.header = f.header /\ g.kind = f.kind
    BY <1>1, <1>6 DEF Alike
  <2>2. f.header \in 1 .. Len(blocks)
    BY <1>1, <1>6, FrameBlocks
  <2>3. CarriedIn(blocks', values', g)
    <3>1. CarriedIn(blocks, values, f) /\ PhisKept(f.header)
      BY <1>6 DEF FrameFlow, FlowIn, CodeStep
    <3>2. \A id \in 1 .. Len(values) : values'[id] = values[id]
      BY DEF CodeStep
    <3>3. g.header = f.header /\ g.incoming = f.incoming
      BY <1>1, <1>6 DEF Alike
    <3> HIDE DEF g
    <3> QED
      BY <1>1, <1>6, <3>1, <3>2, <3>3, CarriedKept
  <2>4. g.kind = "LOOP" => blocks'[g.header].terminated
    BY <1>6, <2>1, <2>2 DEF FrameFlow, FlowIn, CodeStep
  <2>5. g.kind = "WHILECOND" =>
          cur' = g.header \/ blocks'[g.header].terminated
    BY <1>6, <2>1, <2>2 DEF FrameFlow, FlowIn, CodeStep
  <2> QED
    BY <1>6, <2>1, <2>3, <2>4, <2>5 DEF FrameFlow, FlowIn
<1>7. CASE f.kind \notin {"RIGHT", "THEN", "ELSE", "NOELSE", "WHILECOND",
                          "LOOP"}
  BY <1>1, <1>7 DEF FrameFlow, FlowIn, Alike
<1> QED
  BY <1>3, <1>4, <1>5, <1>6, <1>7

\* Every activation after the step is one that was kept or the new one.
LEMMA AfterStep ==
  ASSUME TypeOK, TypeOK', NEW k, TopStep(k), NEW i \in 1 .. Len(ctrl')
  PROVE  i \in 1 .. k \/ (i = k + 1 /\ Len(ctrl') = k + 1)
<1>1. k \in Nat /\ Len(ctrl') \in {k, k + 1}
  BY DEF TopStep, Keeps
<1> QED
  BY <1>1

LEMMA AwaitsAfter ==
  ASSUME TypeOK, TypeOK', NEW k, TopStep(k), CodeStep(k),
         NEW b \in 1 .. Len(blocks')
  PROVE  /\ \A i \in 1 .. k : Awaits(ctrl'[i], b) =>
              /\ Awaits(ctrl[i], b) /\ b \in 1 .. Len(blocks)
              /\ b # cur' /\ blocks'[b] = blocks[b]
         /\ \A i \in 1 .. k : Awaits(ctrl[i], b) => Awaits(ctrl'[i], b)
         /\ Len(ctrl') = k + 1 /\ Awaits(ctrl'[k + 1], b) =>
              /\ b # cur' /\ Idle(blocks'[b])
              /\ b > Len(blocks) \/ (Len(ctrl) = k + 1 /\ Awaits(Top, b))
<1>1. ASSUME NEW i \in 1 .. k
      PROVE  /\ Awaits(ctrl'[i], b) <=> Awaits(ctrl[i], b)
             /\ Awaits(ctrl[i], b) => /\ b \in 1 .. Len(blocks)
                                      /\ b # cur' /\ blocks'[b] = blocks[b]
  <2>1. /\ Alike(ctrl[i], ctrl'[i]) /\ ctrl[i].kind # "HEADER"
        /\ i \in 1 .. Len(ctrl)
    BY KeptKind
  <2>2. Awaits(ctrl'[i], b) <=> Awaits(ctrl[i], b)
    BY <2>1, AlikeAwaits
  <2>3. Awaits(ctrl[i], b) => b \in 1 .. Len(blocks)
    BY <2>1, FrameBlocks
  <2> QED
    BY <2>2, <2>3 DEF CodeStep
<1>2. Len(ctrl') = k + 1 /\ Awaits(ctrl'[k + 1], b) =>
        /\ b # cur' /\ Idle(blocks'[b])
        /\ b > Len(blocks) \/ (Len(ctrl) = k + 1 /\ Awaits(Top, b))
  BY DEF TopStep
<1> QED
  BY <1>1, <1>2

LEMMA ApartKept ==
  ASSUME TypeOK, TypeOK', Apart, NEW k, TopStep(k), CodeStep(k)
  PROVE  Apart'
<1>1. DOMAIN ctrl' = 1 .. Len(ctrl') /\ DOMAIN blocks' = 1 .. Len(blocks')
  BY DEF TypeOK, StackType, IRType
<1>2. /\ DOMAIN ctrl = 1 .. Len(ctrl) /\ DOMAIN blocks = 1 .. Len(blocks)
      /\ Len(blocks) \in Nat /\ Len(ctrl) \in Nat /\ Top = ctrl[Len(ctrl)]
  BY StackFrames
<1> SUFFICES ASSUME NEW i \in 1 .. Len(ctrl'), NEW j \in 1 .. Len(ctrl'),
                    NEW b \in 1 .. Len(blocks'),
                    Awaits(ctrl'[i], b), Awaits(ctrl'[j], b)
             PROVE  i = j
  BY <1>1 DEF Apart
<1>3. \A x, y \in 1 .. Len(ctrl) : \A c \in 1 .. Len(blocks) :
        Awaits(ctrl[x], c) /\ Awaits(ctrl[y], c) => x = y
  BY <1>2 DEF Apart
<1>4. ASSUME NEW x \in 1 .. k, Awaits(ctrl'[x], b)
      PROVE  Awaits(ctrl[x], b) /\ b \in 1 .. Len(blocks) /\ x \in 1 .. Len(ctrl)
  BY <1>4, AwaitsAfter, KeptKind
<1>5. ASSUME Len(ctrl') = k + 1, Awaits(ctrl'[k + 1], b), b \in 1 .. Len(blocks)
      PROVE  Len(ctrl) = k + 1 /\ Awaits(ctrl[Len(ctrl)], b)
  BY <1>2, <1>5, AwaitsAfter
<1>6. k \in Nat
  BY DEF TopStep, Keeps
<1>7. CASE i \in 1 .. k /\ j \in 1 .. k
  BY <1>3, <1>4, <1>7
<1>8. CASE i = k + 1 /\ j \in 1 .. k /\ Len(ctrl') = k + 1
  <2>1. Awaits(ctrl[j], b) /\ b \in 1 .. Len(blocks) /\ j \in 1 .. Len(ctrl)
    BY <1>4, <1>8
  <2>2. Len(ctrl) = k + 1 /\ Awaits(ctrl[Len(ctrl)], b)
    BY <1>5, <1>8, <2>1
  <2>3. Len(ctrl) \in 1 .. Len(ctrl) /\ j # Len(ctrl)
    BY <1>6, <1>8, <2>2
  <2> QED
    BY <1>3, <2>1, <2>2, <2>3
<1>9. CASE j = k + 1 /\ i \in 1 .. k /\ Len(ctrl') = k + 1
  <2>1. Awaits(ctrl[i], b) /\ b \in 1 .. Len(blocks) /\ i \in 1 .. Len(ctrl)
    BY <1>4, <1>9
  <2>2. Len(ctrl) = k + 1 /\ Awaits(ctrl[Len(ctrl)], b)
    BY <1>5, <1>9, <2>1
  <2>3. Len(ctrl) \in 1 .. Len(ctrl) /\ i # Len(ctrl)
    BY <1>6, <1>9, <2>2
  <2> QED
    BY <1>3, <2>1, <2>2, <2>3
<1> QED
  BY <1>7, <1>8, <1>9, AfterStep

LEMMA UnstartedKept ==
  ASSUME TypeOK, TypeOK', Unstarted, NEW k, TopStep(k), CodeStep(k)
  PROVE  Unstarted'
<1>1. DOMAIN ctrl' = 1 .. Len(ctrl') /\ DOMAIN blocks' = 1 .. Len(blocks')
  BY DEF TypeOK, StackType, IRType
<1>2. DOMAIN ctrl = 1 .. Len(ctrl) /\ DOMAIN blocks = 1 .. Len(blocks)
  BY StackFrames
<1> SUFFICES ASSUME NEW b \in 1 .. Len(blocks'), NEW i \in 1 .. Len(ctrl'),
                    Awaits(ctrl'[i], b)
             PROVE  b # cur' /\ Idle(blocks'[b])
  BY <1>1 DEF Unstarted, Awaited, Idle
<1>3. CASE i \in 1 .. k
  <2>1. /\ Awaits(ctrl[i], b) /\ b \in 1 .. Len(blocks)
        /\ b # cur' /\ blocks'[b] = blocks[b]
    BY <1>3, AwaitsAfter
  <2>2. i \in 1 .. Len(ctrl)
    BY <1>3, KeptKind
  <2>3. Idle(blocks[b])
    BY <1>2, <2>1, <2>2 DEF Unstarted, Awaited, Idle
  <2> QED
    BY <2>1, <2>3
<1>4. CASE i = k + 1 /\ Len(ctrl') = k + 1
  BY <1>4, AwaitsAfter
<1> QED
  BY <1>3, <1>4, AfterStep

LEMMA NestKept ==
  ASSUME TypeOK, TypeOK', ExpressionsNest, NEW k, TopStep(k)
  PROVE  ExpressionsNest'
<1>1. DOMAIN ctrl' = 1 .. Len(ctrl')
  BY DEF TypeOK, StackType
<1>2. /\ DOMAIN ctrl = 1 .. Len(ctrl) /\ Len(ctrl) \in Nat
      /\ Top = ctrl[Len(ctrl)]
  BY StackFrames
<1> SUFFICES ASSUME NEW i \in 1 .. Len(ctrl'), NEW j \in 1 .. Len(ctrl'),
                    i < j, ctrl'[i].kind \in ExprKind
             PROVE  ctrl'[j].kind \in OperandKind \cup {"CALL"}
  BY <1>1 DEF ExpressionsNest
<1>3. /\ k \in Nat /\ Len(ctrl) \in {k, k + 1} /\ Len(ctrl') \in {k, k + 1}
      /\ Len(ctrl') = k + 1 =>
           \/ ctrl'[k + 1].kind \in OperandKind \cup {"CALL"}
           \/ /\ Top.kind \notin OperandKind \cup {"CALL"}
              /\ k = Len(ctrl) => Top.kind \notin ExprKind
  BY DEF TopStep, Keeps
<1>4. \A x \in 1 .. k : ctrl'[x].kind = ctrl[x].kind /\ x \in 1 .. Len(ctrl)
  BY KeptKind DEF Alike
<1>5. \A x, y \in 1 .. Len(ctrl) : x < y /\ ctrl[x].kind \in ExprKind =>
        ctrl[y].kind \in OperandKind \cup {"CALL"}
  BY <1>2 DEF ExpressionsNest
<1>6. CASE j \in 1 .. k
  <2>1. i \in 1 .. k
    BY <1>3, <1>6
  <2> QED
    BY <1>4, <1>5, <1>6, <2>1
<1>7. CASE j = k + 1 /\ Len(ctrl') = k + 1
  <2>1. i \in 1 .. k /\ ctrl[i].kind \in ExprKind /\ i \in 1 .. Len(ctrl)
    BY <1>3, <1>4, <1>7
  <2>2. CASE ctrl'[j].kind \in OperandKind \cup {"CALL"}
    BY <2>2
  <2>3. CASE /\ Top.kind \notin OperandKind \cup {"CALL"}
             /\ k = Len(ctrl) => Top.kind \notin ExprKind
    <3>1. CASE i = Len(ctrl)
      <4>1. k = Len(ctrl)
        BY <1>3, <2>1, <3>1
      <4> QED
        BY <1>2, <2>1, <2>3, <3>1, <4>1
    <3>2. CASE i < Len(ctrl)
      <4>1. Len(ctrl) \in 1 .. Len(ctrl)
        BY <1>2, <2>1
      <4> QED
        BY <1>2, <1>5, <2>1, <2>3, <3>2, <4>1
    <3>3. i \in 1 .. Len(ctrl) /\ Len(ctrl) \in Nat
      BY <1>2, <2>1
    <3>4. i = Len(ctrl) \/ i < Len(ctrl)
      BY <3>3
    <3> QED
      BY <3>1, <3>2, <3>4
  <2>4. \/ ctrl'[j].kind \in OperandKind \cup {"CALL"}
        \/ /\ Top.kind \notin OperandKind \cup {"CALL"}
           /\ k = Len(ctrl) => Top.kind \notin ExprKind
    BY <1>3, <1>7
  <2> QED
    BY <2>2, <2>3, <2>4
<1>8. j \in 1 .. k \/ (j = k + 1 /\ Len(ctrl') = k + 1)
  BY AfterStep
<1> QED
  BY <1>6, <1>7, <1>8

LEMMA CoveredKept ==
  ASSUME TypeOK, TypeOK', Covered, NEW k, TopStep(k), CodeStep(k),
         CoverStep(k)
  PROVE  Covered'
<1>1. DOMAIN ctrl' = 1 .. Len(ctrl') /\ DOMAIN blocks' = 1 .. Len(blocks')
  BY DEF TypeOK, StackType, IRType
<1>2. /\ DOMAIN ctrl = 1 .. Len(ctrl) /\ DOMAIN blocks = 1 .. Len(blocks)
      /\ Len(ctrl) \in Nat /\ Len(blocks) \in Nat
      /\ Top = ctrl[Len(ctrl)] /\ cur \in 1 .. Len(blocks)
  BY StackFrames
<1>3. k \in Nat /\ Len(ctrl) \in {k, k + 1} /\ Len(ctrl') \in {k, k + 1}
  BY DEF TopStep, Keeps
<1>3a. Len(blocks') \in Nat
  BY DEF TypeOK, IRType
<1> SUFFICES ASSUME ~dropped', NEW b \in 1 .. Len(blocks')
             PROVE  \/ b = cur' \/ blocks'[b].terminated
                    \/ \E i \in 1 .. Len(ctrl') : Awaits(ctrl'[i], b)
  BY <1>1 DEF Covered, Awaited
<1>4. CASE \/ b > Len(blocks)
           \/ Len(ctrl) = k + 1 /\ Awaits(Top, b)
  <2>1. \/ b = cur' \/ (Len(ctrl') = k + 1 /\ Awaits(ctrl'[k + 1], b))
    BY <1>4 DEF CoverStep
  <2>2. Len(ctrl') = k + 1 => k + 1 \in 1 .. Len(ctrl')
    BY <1>3
  <2> QED
    BY <2>1, <2>2
<1>5. CASE /\ ~(b > Len(blocks))
           /\ ~(Len(ctrl) = k + 1 /\ Awaits(Top, b))
  <2>1. b \in 1 .. Len(blocks) /\ ~dropped
    BY <1>2, <1>3a, <1>5 DEF CoverStep
  <2>2. \/ b = cur \/ blocks[b].terminated
        \/ \E i \in 1 .. Len(ctrl) : Awaits(ctrl[i], b)
    BY <1>2, <2>1 DEF Covered, Awaited
  <2>3. CASE b = cur
    BY <2>3 DEF CodeStep
  <2>4. CASE blocks[b].terminated
    BY <2>1, <2>4 DEF CodeStep
  <2>5. ASSUME NEW i \in 1 .. Len(ctrl), Awaits(ctrl[i], b)
        PROVE  \E j \in 1 .. Len(ctrl') : Awaits(ctrl'[j], b)
    <3>1. i \in 1 .. k
      <4>1. k \in Nat /\ (Len(ctrl) = k \/ Len(ctrl) = k + 1)
        BY <1>3
      <4>1a. Len(ctrl) \in Nat /\ i \in 1 .. Len(ctrl)
        BY <1>2
      <4>1b. i \in Nat
        BY <4>1a
      <4>2. i # k + 1
        <5>1. SUFFICES ASSUME i = k + 1 PROVE FALSE
          OBVIOUS
        <5>2. Len(ctrl) = i
          BY <4>1, <4>1a, <4>1b, <5>1
        <5>3. Awaits(Top, b)
          BY <1>2, <2>5, <5>2
        <5> QED
          BY <1>5, <5>1, <5>2, <5>3
      <4> QED
        BY <4>1, <4>1a, <4>1b, <4>2
    <3>2. Awaits(ctrl'[i], b) /\ i \in 1 .. Len(ctrl')
      BY <2>5, <3>1, AwaitsAfter, KeptKind
    <3> QED
      BY <3>2
  <2> QED
    BY <2>2, <2>3, <2>4, <2>5
<1> QED
  BY <1>4, <1>5

Framed == \A i \in DOMAIN ctrl : FrameFlow(ctrl[i])

LEMMA FramedKept ==
  ASSUME TypeOK, TypeOK', Framed, NEW k, TopStep(k), CodeStep(k)
  PROVE  Framed'
<1>1. DOMAIN ctrl' = 1 .. Len(ctrl') /\ DOMAIN ctrl = 1 .. Len(ctrl)
  BY StackFrames DEF TypeOK, StackType
<1> SUFFICES ASSUME NEW i \in 1 .. Len(ctrl')
             PROVE  FlowIn(blocks', cur', values', ctrl'[i])
  BY <1>1 DEF Framed, FrameFlow
<1>2. CASE i \in 1 .. k
  <2>1. FrameFlow(ctrl[i])
    BY <1>1, <1>2, KeptKind DEF Framed
  <2> QED
    BY <1>2, <2>1, FrameFlowKept
<1>3. CASE i = k + 1 /\ Len(ctrl') = k + 1
  BY <1>3 DEF TopStep
<1> QED
  BY <1>2, <1>3, AfterStep

\* What is left to show of a step, once it is known which activations and
\* blocks it leaves alone.
LEMMA LoweringKept ==
  ASSUME TypeOK, TypeOK', Lowering, NEW k, TopStep(k), CodeStep(k),
         CoverStep(k), Marked', OpenForCode'
  PROVE  Lowering'
<1>1. Apart' /\ Unstarted' /\ ExpressionsNest' /\ Covered' /\ Framed'
  BY ApartKept, UnstartedKept, NestKept, CoveredKept, FramedKept
  DEF Lowering, Framed
<1> QED
  BY <1>1 DEF Lowering, Framed

-----------------------------------------------------------------------------
(***************************************************************************)
(* The operators of collapse_degenerate_phis.                              *)
(***************************************************************************)

\* rewrite_value_uses: operands of instructions change and nothing else.
Rewritten(old, new, id, o) ==
  /\ new.succ = old.succ /\ new.pred = old.pred
  /\ new.terminated = old.terminated
  /\ Len(new.code) = Len(old.code)
  /\ \A i \in 1 .. Len(old.code) :
       /\ new.code[i].op = old.code[i].op
       /\ new.code[i].dest = old.code[i].dest
       /\ new.code[i].blks = old.code[i].blks
       /\ DOMAIN new.code[i].args = DOMAIN old.code[i].args
       /\ Len(new.code[i].args) = Len(old.code[i].args)
       /\ \A j \in DOMAIN old.code[i].args :
            new.code[i].args[j] = RewriteOperand(old.code[i].args[j], id, o)

LEMMA RewriteInstrParts ==
  ASSUME NEW n \in Nat, NEW m \in Nat, NEW instr \in Instr(n, m), NEW id,
         NEW o, NEW new, new = RewriteInstr(instr, id, o)
  PROVE  /\ new.op = instr.op /\ new.dest = instr.dest
         /\ new.blks = instr.blks
         /\ DOMAIN new.args = DOMAIN instr.args
         /\ Len(new.args) = Len(instr.args)
         /\ \A j \in DOMAIN instr.args :
              new.args[j] = RewriteOperand(instr.args[j], id, o)
<1> DEFINE args == [j \in DOMAIN instr.args |->
                      RewriteOperand(instr.args[j], id, o)]
<1>1. instr \in [op : Opcode, dest : Operand(n), args : Seq(Operand(n)),
                 blks : Seq(1 .. m)]
  BY DEF Instr, Operand, Opcode
<1>2. new = [instr EXCEPT !.args = args]
  BY DEF RewriteInstr
<1>3. /\ DOMAIN args = DOMAIN instr.args
      /\ \A j \in DOMAIN instr.args :
           args[j] = RewriteOperand(instr.args[j], id, o)
  OBVIOUS
<1>4. /\ DOMAIN instr.args = 1 .. Len(instr.args)
      /\ Len(instr.args) \in Nat
  BY <1>1
<1>5. Len(args) = Len(instr.args)
  BY <1>3, <1>4
<1> HIDE DEF args
<1>6. /\ new.op = instr.op /\ new.dest = instr.dest
      /\ new.blks = instr.blks /\ new.args = args
  BY <1>1, <1>2
<1> QED
  BY <1>3, <1>5, <1>6

LEMMA RewriteEffect ==
  ASSUME NEW n \in Nat, NEW m \in Nat, NEW bs \in Seq(Block(n, m)), NEW id,
         NEW o, NEW new, new = RewriteUses(bs, id, o)
  PROVE  /\ Len(new) = Len(bs)
         /\ \A x \in 1 .. Len(bs) : Rewritten(bs[x], new[x], id, o)
<1>1. DOMAIN bs = 1 .. Len(bs) /\ Len(bs) \in Nat
  OBVIOUS
<1>2. DOMAIN new = 1 .. Len(bs)
  BY <1>1 DEF RewriteUses
<1>3. Len(new) = Len(bs)
  BY <1>1, <1>2
<1>4. ASSUME NEW x \in 1 .. Len(bs)
      PROVE  Rewritten(bs[x], new[x], id, o)
  <2> DEFINE old  == bs[x]
             code == [i \in DOMAIN old.code |->
                        RewriteInstr(old.code[i], id, o)]
             nb   == [old EXCEPT !.code = code]
  <2>1. new[x] = nb
    BY <1>1 DEF RewriteUses
  <2>2. old \in Block(n, m) /\ old.code \in Seq(Instr(n, m))
    BY BlockFields
  <2>3. /\ DOMAIN old.code = 1 .. Len(old.code) /\ Len(old.code) \in Nat
        /\ \A i \in 1 .. Len(old.code) : old.code[i] \in Instr(n, m)
    BY <2>2
  <2>4. /\ DOMAIN code = DOMAIN old.code
        /\ \A i \in 1 .. Len(old.code) :
             code[i] = RewriteInstr(old.code[i], id, o)
    BY <2>3
  <2>5. Len(code) = Len(old.code)
    BY <2>3, <2>4
  <2> HIDE DEF code, old
  <2>6. /\ nb.succ = old.succ /\ nb.pred = old.pred
        /\ nb.terminated = old.terminated /\ nb.code = code
    BY <2>2 DEF Block
  <2> HIDE DEF nb
  <2>7. ASSUME NEW i \in 1 .. Len(old.code)
        PROVE  /\ code[i].op = old.code[i].op
               /\ code[i].dest = old.code[i].dest
               /\ code[i].blks = old.code[i].blks
               /\ DOMAIN code[i].args = DOMAIN old.code[i].args
               /\ Len(code[i].args) = Len(old.code[i].args)
               /\ \A j \in DOMAIN old.code[i].args :
                    code[i].args[j] = RewriteOperand(old.code[i].args[j], id, o)
    <3> DEFINE a == old.code[i]
               b == code[i]
    <3>1. a \in Instr(n, m) /\ b = RewriteInstr(a, id, o)
      BY <2>3, <2>4
    <3> HIDE DEF a, b
    <3>2. /\ b.op = a.op /\ b.dest = a.dest /\ b.blks = a.blks
          /\ DOMAIN b.args = DOMAIN a.args /\ Len(b.args) = Len(a.args)
          /\ \A j \in DOMAIN a.args :
               b.args[j] = RewriteOperand(a.args[j], id, o)
      BY <3>1, RewriteInstrParts
    <3> QED
      BY <3>2 DEF a, b
  <2>8. Rewritten(old, nb, id, o)
    BY <2>5, <2>6, <2>7 DEF Rewritten
  <2> QED
    BY <2>1, <2>8 DEF old
<1> QED
  BY <1>3, <1>4

\* The unlinking of instruction i.
Removed(old, new, i) ==
  /\ new.succ = old.succ /\ new.pred = old.pred
  /\ new.terminated = old.terminated
  /\ Len(new.code) = Len(old.code) - 1
  /\ \A j \in 1 .. i - 1 : new.code[j] = old.code[j]
  /\ \A j \in i .. Len(old.code) - 1 : new.code[j] = old.code[j + 1]

LEMMA RemoveAtParts ==
  ASSUME NEW S, NEW s \in Seq(S), NEW i \in 1 .. Len(s), NEW r,
         r = RemoveAt(s, i)
  PROVE  /\ r \in Seq(S) /\ Len(r) = Len(s) - 1
         /\ \A j \in 1 .. i - 1 : r[j] = s[j]
         /\ \A j \in i .. Len(s) - 1 : r[j] = s[j + 1]
<1> DEFINE a == SubSeq(s, 1, i - 1)
           b == SubSeq(s, i + 1, Len(s))
<1>1. r = a \o b
  BY DEF RemoveAt
<1>2. Len(s) \in Nat
  OBVIOUS
<1>3. /\ a \in Seq(S) /\ Len(a) = i - 1
      /\ \A j \in 1 .. i - 1 : a[j] = s[j]
  BY <1>2
<1>4. /\ b \in Seq(S) /\ Len(b) = Len(s) - i
      /\ \A j \in 1 .. Len(s) - i : b[j] = s[i + j]
  BY <1>2
<1> HIDE DEF a, b
<1>5. /\ r \in Seq(S) /\ Len(r) = Len(a) + Len(b)
      /\ \A j \in 1 .. Len(a) : r[j] = a[j]
      /\ \A j \in 1 .. Len(b) : r[Len(a) + j] = b[j]
  <2>1. a \in Seq(S) /\ b \in Seq(S) /\ Len(a) \in Nat /\ Len(b) \in Nat
    BY <1>3, <1>4
  <2>2. r \in Seq(S) /\ Len(r) = Len(a) + Len(b)
    BY <1>1, <2>1
  <2>3. \A j \in 1 .. Len(a) : r[j] = a[j]
    BY <1>1, <2>1
  <2>4. ASSUME NEW j \in 1 .. Len(b)
        PROVE  r[Len(a) + j] = b[j]
    <3>1. Len(a) + j \in Len(a) + 1 .. Len(a) + Len(b)
      BY <2>1
    <3> QED
      BY <1>1, <2>1, <3>1
  <2> QED
    BY <2>2, <2>3, <2>4
<1>6. \A j \in i .. Len(s) - 1 : r[j] = s[j + 1]
  <2> SUFFICES ASSUME NEW j \in i .. Len(s) - 1
               PROVE  r[j] = s[j + 1]
    OBVIOUS
  <2> DEFINE x == j - (i - 1)
  <2>1. x \in 1 .. Len(b) /\ Len(a) + x = j /\ i + x = j + 1
        /\ x \in 1 .. Len(s) - i
    BY <1>2, <1>3, <1>4
  <2> HIDE DEF x
  <2>2. r[Len(a) + x] = b[x] /\ b[x] = s[i + x]
    BY <1>4, <1>5, <2>1
  <2> QED
    BY <2>1, <2>2
<1> QED
  BY <1>2, <1>3, <1>4, <1>5, <1>6

LEMMA RemoveEffect ==
  ASSUME NEW n \in Nat, NEW m \in Nat, NEW bs \in Seq(Block(n, m)),
         NEW b \in 1 .. Len(bs), NEW i \in 1 .. Len(bs[b].code), NEW new,
         new = RemoveInstr(bs, b, i)
  PROVE  /\ Len(new) = Len(bs) /\ Removed(bs[b], new[b], i)
         /\ \A x \in 1 .. Len(bs) : x # b => new[x] = bs[x]
<1> DEFINE code == bs[b].code
           left == RemoveAt(code, i)
           nb   == [bs[b] EXCEPT !.code = left]
<1>1. bs[b] \in Block(n, m) /\ code \in Seq(Instr(n, m))
  BY BlockFields
<1>2. new = [bs EXCEPT ![b] = nb]
  BY DEF RemoveInstr
<1>3. /\ Len(left) = Len(code) - 1
      /\ \A j \in 1 .. i - 1 : left[j] = code[j]
      /\ \A j \in i .. Len(code) - 1 : left[j] = code[j + 1]
  <2> HIDE DEF left
  <2>1. i \in 1 .. Len(code)
    OBVIOUS
  <2> HIDE DEF code
  <2> QED
    BY <1>1, <2>1, RemoveAtParts DEF left
<1> HIDE DEF left
<1>4. /\ nb.code = left /\ nb.succ = bs[b].succ /\ nb.pred = bs[b].pred
      /\ nb.terminated = bs[b].terminated
  BY <1>1 DEF Block
<1> HIDE DEF nb
<1>5. /\ Len(new) = Len(bs) /\ new[b] = nb
      /\ \A x \in 1 .. Len(bs) : x # b => new[x] = bs[x]
  BY <1>2, ExceptParts
<1> QED
  BY <1>3, <1>4, <1>5 DEF Removed

\* What is written where the phis are rewritten.
LEMMA RewrittenFlow ==
  ASSUME NEW n \in Nat, NEW m \in Nat, NEW old \in Block(n, m),
         NEW new \in Block(n, m), NEW id, NEW o, Rewritten(old, new, id, o),
         BlockFlow(old)
  PROVE  BlockFlow(new) /\ (Ends(new) <=> Ends(old))
<1> DEFINE c == old.code
           d == new.code
<1>1. c \in Seq(Instr(n, m)) /\ d \in Seq(Instr(n, m))
  BY DEF Block
<1>2. /\ DOMAIN c = 1 .. Len(c) /\ DOMAIN d = 1 .. Len(c) /\ Len(c) \in Nat
      /\ Len(d) = Len(c) /\ (d = << >> <=> c = << >>)
      /\ Last(c) = c[Len(c)] /\ Last(d) = d[Len(c)]
      /\ c # << >> => Len(c) \in 1 .. Len(c)
  BY <1>1 DEF Rewritten, Last
<1>3. \A i \in 1 .. Len(c) :
        /\ d[i].op = c[i].op /\ d[i].blks = c[i].blks
        /\ Len(d[i].args) = Len(c[i].args)
  BY DEF Rewritten
<1>4. new.succ = old.succ /\ new.pred = old.pred
  BY DEF Rewritten
<1> HIDE DEF c, d
<1>5. \A i \in 1 .. Len(c) : IsLeadingPhi(c, i) => IsLeadingPhi(d, i)
  BY <1>2, <1>3 DEF IsLeadingPhi
<1>6. /\ \A i \in 1 .. Len(c) - 1 : c[i].op \notin Terminator
      /\ IF c # << >> /\ Last(c).op \in {"BR", "CBR"}
         THEN old.succ = Last(c).blks ELSE old.succ = << >>
      /\ \A i \in 1 .. Len(c) : c[i].op = "PHI" =>
           /\ IsLeadingPhi(c, i) /\ c[i].blks = old.pred
           /\ Len(c[i].args) = Len(c[i].blks)
  BY <1>2 DEF BlockFlow, c
<1>7. \A i \in 1 .. Len(c) - 1 : d[i].op \notin Terminator
  BY <1>2, <1>3, <1>6
<1>8. \A i \in 1 .. Len(c) : d[i].op = "PHI" =>
           /\ IsLeadingPhi(d, i) /\ d[i].blks = new.pred
           /\ Len(d[i].args) = Len(d[i].blks)
  BY <1>3, <1>4, <1>5, <1>6
<1>9. IF d # << >> /\ Last(d).op \in {"BR", "CBR"}
      THEN new.succ = Last(d).blks ELSE new.succ = << >>
  BY <1>2, <1>3, <1>4, <1>6
<1>10. BlockFlow(new)
  BY <1>2, <1>7, <1>8, <1>9 DEF BlockFlow, d
<1>11. Ends(new) <=> Ends(old)
  BY <1>2, <1>3 DEF Ends, c, d
<1> QED
  BY <1>10, <1>11

LEMMA RemovedFlow ==
  ASSUME NEW n \in Nat, NEW m \in Nat, NEW old \in Block(n, m),
         NEW new \in Block(n, m), NEW i \in 1 .. Len(old.code),
         old.code[i].op = "PHI", Removed(old, new, i), BlockFlow(old)
  PROVE  BlockFlow(new) /\ (Ends(new) <=> Ends(old))
<1> DEFINE c == old.code
           d == new.code
<1>1. c \in Seq(Instr(n, m)) /\ d \in Seq(Instr(n, m))
  BY DEF Block
<1>2. /\ DOMAIN c = 1 .. Len(c) /\ Len(c) \in Nat /\ i \in 1 .. Len(c)
      /\ Len(d) = Len(c) - 1 /\ DOMAIN d = 1 .. Len(c) - 1
      /\ c # << >> /\ (d = << >> <=> Len(c) = 1)
      /\ Last(c) = c[Len(c)] /\ Last(d) = d[Len(c) - 1]
  <2>1. /\ DOMAIN c = 1 .. Len(c) /\ Len(c) \in Nat /\ i \in 1 .. Len(c)
        /\ DOMAIN d = 1 .. Len(d) /\ Len(d) \in Nat
    BY <1>1
  <2>2. Len(d) = Len(c) - 1
    BY DEF Removed
  <2> HIDE DEF c, d
  <2>3. c # << >> /\ (d = << >> <=> Len(d) = 0)
    BY <1>1, <2>1
  <2> QED
    BY <2>1, <2>2, <2>3 DEF Last
<1>3. /\ \A j \in 1 .. i - 1 : d[j] = c[j]
      /\ \A j \in i .. Len(c) - 1 : d[j] = c[j + 1]
      /\ c[i].op = "PHI"
  BY DEF Removed
<1>4. new.succ = old.succ /\ new.pred = old.pred
  BY DEF Removed
<1>5. /\ \A j \in 1 .. Len(c) - 1 : c[j].op \notin Terminator
      /\ IF c # << >> /\ Last(c).op \in {"BR", "CBR"}
         THEN old.succ = Last(c).blks ELSE old.succ = << >>
      /\ \A j \in 1 .. Len(c) : c[j].op = "PHI" =>
           /\ IsLeadingPhi(c, j) /\ c[j].blks = old.pred
           /\ Len(c[j].args) = Len(c[j].blks)
  BY <1>2 DEF BlockFlow, c
<1> HIDE DEF c, d
<1>6. \A j \in 1 .. i : c[j].op = "PHI"
  BY <1>2, <1>3, <1>5 DEF IsLeadingPhi
<1>7. ASSUME NEW j \in 1 .. Len(c) - 1
      PROVE  /\ j < Len(c) - 1 => d[j].op \notin Terminator
             /\ d[j].op = "PHI" =>
                  /\ IsLeadingPhi(d, j) /\ d[j].blks = new.pred
                  /\ Len(d[j].args) = Len(d[j].blks)
  <2>1. CASE j \in 1 .. i - 1
    <3>1. j \in 1 .. Len(c) /\ j \in 1 .. i /\ d[j] = c[j]
      BY <1>2, <1>3, <2>1
    <3>2. \A x \in 1 .. j : d[x].op = "PHI"
      <4>1. \A x \in 1 .. j : x \in 1 .. i - 1 /\ x \in 1 .. i
        BY <1>2, <2>1
      <4> QED
        BY <1>3, <1>6, <4>1
    <3> QED
      BY <1>4, <1>5, <1>6, <3>1, <3>2 DEF IsLeadingPhi, Terminator
  <2>2. CASE j \in i .. Len(c) - 1
    <3>1. j + 1 \in 1 .. Len(c) /\ d[j] = c[j + 1]
      BY <1>2, <1>3, <2>2
    <3>2. j < Len(c) - 1 => j + 1 \in 1 .. Len(c) - 1
      BY <1>2, <2>2
    <3>3. c[j + 1].op = "PHI" => IsLeadingPhi(d, j)
      <4> SUFFICES ASSUME c[j + 1].op = "PHI", NEW x \in 1 .. j
                   PROVE  d[x].op = "PHI"
        BY DEF IsLeadingPhi
      <4>1. \A y \in 1 .. j + 1 : c[y].op = "PHI"
        BY <1>5, <3>1 DEF IsLeadingPhi
      <4>2. CASE x \in 1 .. i - 1
        <5>1. x \in 1 .. j + 1
          BY <1>2
        <5> QED
          BY <1>3, <4>1, <4>2, <5>1
      <4>3. CASE x \in i .. Len(c) - 1
        <5>1. x + 1 \in 1 .. j + 1
          BY <1>2
        <5> QED
          BY <1>3, <4>1, <4>3, <5>1
      <4> QED
        BY <1>2, <4>2, <4>3
    <3> QED
      BY <1>4, <1>5, <3>1, <3>2, <3>3
  <2> QED
    BY <1>2, <2>1, <2>2
<1>8. c[Len(c)].op = "PHI" => Len(c) = 1 \/ d[Len(c) - 1].op = "PHI"
  <2> SUFFICES ASSUME c[Len(c)].op = "PHI", Len(c) # 1
               PROVE  d[Len(c) - 1].op = "PHI"
    OBVIOUS
  <2>1. Len(c) \in 1 .. Len(c) /\ Len(c) - 1 \in 1 .. Len(c)
    BY <1>2
  <2>2. c[Len(c) - 1].op = "PHI"
    BY <1>5, <2>1 DEF IsLeadingPhi
  <2>3. CASE Len(c) - 1 \in 1 .. i - 1
    BY <1>3, <2>2, <2>3
  <2>4. CASE Len(c) - 1 \in i .. Len(c) - 1
    BY <1>2, <1>3, <2>4
  <2> QED
    BY <1>2, <2>1, <2>3, <2>4
<1>9. c[Len(c)].op # "PHI" =>
        Len(c) - 1 \in 1 .. Len(c) - 1 /\ d[Len(c) - 1] = c[Len(c)]
  <2> SUFFICES ASSUME c[Len(c)].op # "PHI"
               PROVE  Len(c) - 1 \in 1 .. Len(c) - 1
                      /\ d[Len(c) - 1] = c[Len(c)]
    OBVIOUS
  <2>1. i # Len(c)
    BY <1>3
  <2>2. Len(c) - 1 \in i .. Len(c) - 1 /\ Len(c) - 1 \in 1 .. Len(c) - 1
        /\ (Len(c) - 1) + 1 = Len(c)
    <3>1. Len(c) \in Nat /\ i \in 1 .. Len(c)
      BY <1>2
    <3> QED
      BY <2>1, <3>1
  <2> QED
    BY <1>3, <2>2
<1>10. IF d # << >> /\ Last(d).op \in {"BR", "CBR"}
       THEN new.succ = Last(d).blks ELSE new.succ = << >>
  BY <1>2, <1>4, <1>5, <1>8, <1>9
<1>11. \A j \in 1 .. (Len(c) - 1) - 1 : d[j].op \notin Terminator
  BY <1>2, <1>7
<1>12. BlockFlow(new)
  BY <1>2, <1>7, <1>10, <1>11 DEF BlockFlow, d
<1>13. Ends(new) <=> Ends(old)
  BY <1>2, <1>8, <1>9 DEF Ends, c, d, Terminator
<1> QED
  BY <1>12, <1>13


-----------------------------------------------------------------------------
(***************************************************************************)
(* Steps that write to the current block at most.                          *)
(***************************************************************************)

ValuesKept ==
  /\ Len(values) <= Len(values')
  /\ \A id \in 1 .. Len(values) : values'[id] = values[id]

\* new_value_view: what exists stays.
LEMMA NewValueKeeps ==
  ASSUME TypeOK, NEW n, NEW t, NewValue(n, t)
  PROVE  /\ ValuesKept /\ Len(values') = Len(values) + 1
         /\ values'[NextId].name = n
<1>1. values \in Values
  BY DEF TypeOK, NamesType
<1> DEFINE v == [name |-> n, version |-> nextVersion[n], type |-> t]
<1>2. values' = Append(values, v) /\ v.name = n
  BY DEF NewValue
<1> HIDE DEF v
<1>3. /\ Len(values) \in Nat /\ Len(values') = Len(values) + 1
      /\ \A id \in 1 .. Len(values) : values'[id] = values[id]
      /\ values'[Len(values) + 1] = v
  BY <1>1, <1>2, AppendParts DEF Values
<1> QED
  BY <1>2, <1>3 DEF ValuesKept, NextId

LEMMA NewResultKeeps ==
  ASSUME TypeOK, NEW target, NEW t, NewResult(target, t)
  PROVE  ValuesKept
<1>1. CASE target = NoOperand
  BY <1>1, NewValueKeeps DEF NewResult
<1>2. CASE target # NoOperand
  BY <1>2, StackFrames DEF NewResult, valueVars, ValuesKept
<1> QED
  BY <1>1, <1>2

LEMMA SameValues ==
  ASSUME TypeOK, UNCHANGED values
  PROVE  ValuesKept
BY StackFrames DEF ValuesKept

\* append_instruction, whatever the instruction is.
LEMMA EmitOn ==
  ASSUME NEW n, NEW m, NEW bs \in Seq(Block(n, m)), NEW b \in 1 .. Len(bs),
         NEW instr, NEW new, new = Emit(bs, b, instr)
  PROVE  Emitted(bs, new, b, instr)
<1> DEFINE c  == Append(bs[b].code, instr)
           nb == [bs[b] EXCEPT !.code = c]
<1>1. bs[b] \in Block(n, m)
  OBVIOUS
<1>2. /\ nb.code = c
      /\ nb.succ = bs[b].succ /\ nb.pred = bs[b].pred
      /\ nb.terminated = bs[b].terminated
  BY <1>1 DEF Block
<1>3. new = [bs EXCEPT ![b] = nb]
  BY DEF Emit
<1> HIDE DEF nb, c
<1>4. /\ Len(new) = Len(bs) /\ new[b] = nb
      /\ \A x \in 1 .. Len(bs) : x # b => new[x] = bs[x]
  BY <1>3, ExceptParts
<1> QED
  BY <1>2, <1>4 DEF Emitted, c

LEMMA EmitShape ==
  ASSUME TypeOK, NEW b \in 1 .. Len(blocks), NEW instr,
         blocks' = Emit(blocks, b, instr)
  PROVE  Emitted(blocks, blocks', b, instr)
<1>1. blocks \in Seq(Block(Len(values), Len(blocks)))
  BY StackFrames
<1> QED
  BY <1>1, EmitOn

\* What the step may do to the code of a block that has phis.
CodeGrows(b) ==
  \/ blocks'[b].code = blocks[b].code
  \/ \E instr : /\ instr.op # "PHI"
                /\ blocks'[b].code = Append(blocks[b].code, instr)

LEMMA GrowsKeepsPhis ==
  ASSUME TypeOK, NEW b \in 1 .. Len(blocks), CodeGrows(b)
  PROVE  PhisKept(b)
<1> DEFINE code == blocks[b].code
<1>1. code \in Seq(Instr(Len(values), Len(blocks)))
  BY StackFrames, BlockFields
<1>2. CASE blocks'[b].code = code
  BY <1>2 DEF PhisKept
<1>3. ASSUME NEW instr, instr.op # "PHI", blocks'[b].code = Append(code, instr)
      PROVE  PhisKept(b)
  <2> DEFINE new == Append(code, instr)
  <2>1. /\ DOMAIN new = 1 .. Len(code) + 1 /\ DOMAIN code = 1 .. Len(code)
        /\ \A i \in 1 .. Len(code) : new[i] = code[i]
        /\ new[Len(code) + 1] = instr /\ Len(code) \in Nat
    BY <1>1, AppendParts
  <2>2. blocks'[b].code = new
    BY <1>3
  <2> HIDE DEF new, code
  <2>3. ASSUME NEW i \in 1 .. Len(code) + 1, IsLeadingPhi(new, i)
        PROVE  /\ i \in 1 .. Len(code) /\ IsLeadingPhi(code, i)
               /\ new[i].dest = code[i].dest
    <3>1. i \in 1 .. i /\ new[i].op = "PHI"
      BY <2>1, <2>3 DEF IsLeadingPhi
    <3>2. i \in 1 .. Len(code)
      BY <1>3, <2>1, <3>1
    <3>3. \A j \in 1 .. i : code[j].op = "PHI"
      BY <2>1, <2>3, <3>2 DEF IsLeadingPhi
    <3> QED
      BY <2>1, <3>2, <3>3 DEF IsLeadingPhi
  <2> QED
    BY <2>1, <2>2, <2>3 DEF PhisKept, code
<1> QED
  BY <1>2, <1>3 DEF CodeGrows

\* A step that writes to the current block only, and no phi.
LocalStep ==
  /\ cur' = cur /\ Len(blocks') = Len(blocks)
  /\ \A x \in 1 .. Len(blocks) : x # cur => blocks'[x] = blocks[x]
  /\ blocks[cur].terminated => blocks'[cur].terminated
  /\ CodeGrows(cur)
  /\ ValuesKept

LEMMA HeaderIsBlock ==
  ASSUME TypeOK, NEW i \in 1 .. Len(ctrl),
         ctrl[i].kind \in {"WHILECOND", "LOOP"}
  PROVE  ctrl[i].header \in 1 .. Len(blocks)
BY FrameBlocks

LEMMA LocalCodeStep ==
  ASSUME TypeOK, Unstarted, LocalStep, NEW k \in Nat, k <= Len(ctrl)
  PROVE  CodeStep(k)
<1>1. \A i \in 1 .. k : i \in 1 .. Len(ctrl)
  BY StackFrames
<1>2. \A b \in 1 .. Len(blocks) : PhisKept(b)
  <2> SUFFICES ASSUME NEW b \in 1 .. Len(blocks)
               PROVE  PhisKept(b)
    OBVIOUS
  <2>1. CodeGrows(b)
    BY DEF LocalStep, CodeGrows
  <2> QED
    BY <2>1, GrowsKeepsPhis
<1>3. \A i \in 1 .. k : \A b \in 1 .. Len(blocks) :
        Awaits(ctrl[i], b) => b # cur' /\ blocks'[b] = blocks[b]
  BY <1>1, StackFrames DEF Unstarted, Awaited, LocalStep
<1>4. \A i \in 1 .. k :
        ctrl[i].kind \in {"WHILECOND", "LOOP"} => PhisKept(ctrl[i].header)
  BY <1>1, <1>2, HeaderIsBlock
<1>5. \A b \in 1 .. Len(blocks) :
        blocks[b].terminated => blocks'[b].terminated
  BY DEF LocalStep
<1> QED
  BY <1>3, <1>4, <1>5, StackFrames DEF CodeStep, LocalStep, ValuesKept

\* Marked after such a step, for the current block.
LEMMA LocalMarks ==
  ASSUME TypeOK, TypeOK', Marked, LocalStep,
         blocks'[cur].terminated <=> Ends(blocks'[cur])
  PROVE  Marked'
<1>1. DOMAIN blocks = 1 .. Len(blocks) /\ DOMAIN blocks' = 1 .. Len(blocks)
  BY StackFrames DEF LocalStep, TypeOK, IRType
<1> QED
  BY <1>1 DEF Marked, LocalStep

\* The activation on top after the step.
LastFrame == ctrl'[Len(ctrl')]

LEMMA TopAfter ==
  ASSUME TypeOK'
  PROVE  Top' = LastFrame
BY DEF Top, Last, LastFrame

\* A step that emits nothing.
LEMMA SilentStep ==
  ASSUME TypeOK, TypeOK', Flow, Lowering, UNCHANGED <<blocks, cur>>,
         ValuesKept, NEW k, TopStep(k), CoverStep(k),
         ~blocks[cur].terminated \/ LastFrame.kind \in ListKind
  PROVE  Flow' /\ Lowering'
<1>1. LocalStep
  BY StackFrames DEF LocalStep, CodeGrows
<1>2. k \in Nat /\ k <= Len(ctrl)
  BY DEF TopStep, Keeps
<1>3. CodeStep(k)
  BY <1>1, <1>2, LocalCodeStep DEF Lowering
<1>4. Marked'
  BY DEF Marked, Lowering
<1>5. OpenForCode'
  BY TopAfter DEF OpenForCode
<1>6. Flow'
  BY DEF Flow
<1> QED
  BY <1>3, <1>4, <1>5, <1>6, LoweringKept

\* An instruction that is neither a phi nor the end of a block.
Plain(instr) == instr.op \notin Terminator \cup {"PHI"}

LEMMA EmitStep ==
  ASSUME TypeOK, TypeOK', Flow, Lowering, NEW instr, Plain(instr),
         blocks' = Emit(blocks, cur, instr), cur' = cur,
         ValuesKept, NEW k, TopStep(k), CoverStep(k),
         ~blocks[cur].terminated
  PROVE  Flow' /\ Lowering'
<1>1. Emitted(blocks, blocks', cur, instr)
  BY StackFrames, EmitShape
<1>2. LocalStep
  BY <1>1, StackFrames DEF LocalStep, CodeGrows, Emitted, Plain
<1>3. k \in Nat /\ k <= Len(ctrl)
  BY DEF TopStep, Keeps
<1>4. CodeStep(k)
  BY <1>2, <1>3, LocalCodeStep DEF Lowering
<1>5. ~Ends(blocks'[cur]) /\ ~blocks'[cur].terminated
  <2>1. blocks[cur].code \in Seq(Instr(Len(values), Len(blocks)))
    BY StackFrames, BlockFields
  <2>2. Last(Append(blocks[cur].code, instr)) = instr
    BY <2>1, AppendParts
  <2> QED
    BY <1>1, <2>2 DEF Emitted, Ends, Plain
<1>6. Marked'
  BY <1>2, <1>5, LocalMarks DEF Lowering
<1>7. OpenForCode'
  BY <1>5 DEF OpenForCode
<1>8. Flow'
  <2> DEFINE p == Len(values')
             m == Len(blocks)
  <2>1. /\ p \in Nat /\ m \in Nat /\ Len(values) \in Nat
        /\ blocks \in Seq(Block(p, m)) /\ blocks' \in Seq(Block(p, m))
        /\ cur \in 1 .. Len(blocks)
    <3>1. p \in Nat /\ blocks' \in Seq(Block(p, m))
      BY <1>2 DEF TypeOK, IRType, NamesType, Values, LocalStep
    <3>2. Seq(Block(Len(values), m)) \subseteq Seq(Block(p, m))
      BY <3>1, StackFrames, BlockGrows, SeqGrows DEF ValuesKept
    <3> QED
      BY <3>1, <3>2, StackFrames
  <2>2. ~Ends(blocks[cur])
    BY StackFrames DEF Lowering, Marked
  <2>3. instr.op \notin {"BR", "CBR", "PHI"}
    BY DEF Plain, Terminator
  <2> HIDE DEF p, m
  <2>4. FlowOf(blocks')
    BY <1>1, <2>1, <2>2, <2>3, FlowEmit DEF Flow
  <2> QED
    BY <2>4 DEF Flow
<1> QED
  BY <1>4, <1>6, <1>7, <1>8, LoweringKept

-----------------------------------------------------------------------------
(***************************************************************************)
(* What a step puts on the stack.                                          *)
(***************************************************************************)

\* No activation begins.
LEMMA QuietTop ==
  ASSUME TypeOK, NEW k, Keeps(k), Len(ctrl') = k, Len(ctrl) \in {k, k + 1},
         k = Len(ctrl) => Top.kind \notin {"MERGE", "HEADER"}
  PROVE  TopStep(k)
<1>1. k \in Nat
  BY DEF Keeps
<1>2. Len(ctrl') # k + 1
  BY <1>1
<1> QED
  BY <1>1, <1>2 DEF TopStep

\* Activations that wait for no block and of which Lowering says nothing.
FreeKind == {"FBODY", "BLOCK", "ASSIGN", "RETURN", "IFCOND", "BINARY", "NOT",
             "CALL", "LEFT"}

LEMMA FreeFrame ==
  ASSUME NEW f, f.kind \in FreeKind
  PROVE  /\ \A b : ~Awaits(f, b)
         /\ \A bs, c, vs : FlowIn(bs, c, vs, f)
BY DEF FreeKind, Awaits, FlowIn

LEMMA PushTop ==
  ASSUME TypeOK, NEW f, Push(f), f.kind \in FreeKind,
         Top.kind \notin {"MERGE", "HEADER"},
         \/ f.kind \in OperandKind \cup {"CALL"}
         \/ Top.kind \in ListKind
  PROVE  TopStep(Len(ctrl)) /\ LastFrame = f
<1> DEFINE k == Len(ctrl)
<1>1. /\ Keeps(k) /\ Len(ctrl') = k + 1 /\ ctrl'[k + 1] = f /\ k \in Nat
  BY PushShape, StackFrames
<1>2. /\ \A b \in 1 .. Len(blocks') : ~Awaits(ctrl'[k + 1], b)
      /\ FlowIn(blocks', cur', values', ctrl'[k + 1])
  BY <1>1, FreeFrame
<1>3. \/ ctrl'[k + 1].kind \in OperandKind \cup {"CALL"}
      \/ /\ Top.kind \notin OperandKind \cup {"CALL"}
         /\ k = Len(ctrl) => Top.kind \notin ExprKind
  BY <1>1 DEF ListKind, OperandKind, ExprKind
<1> QED
  BY <1>1, <1>2, <1>3 DEF TopStep, LastFrame

\* No block is begun and the activation that ends waits for none.
LEMMA QuietCover ==
  ASSUME TypeOK, NEW k \in Nat, Len(blocks') = Len(blocks),
         ~dropped' => ~dropped,
         k = Len(ctrl) \/ Top.kind \in FreeKind \cup {"MERGE"}
  PROVE  CoverStep(k)
<1>1. \A b \in 1 .. Len(blocks') : ~(b > Len(blocks))
  <2>1. Len(blocks) \in Nat
    BY StackFrames
  <2> QED
    BY <2>1
<1>2. Len(ctrl) = k + 1 => \A b : ~Awaits(Top, b)
  <2>1. Top.kind = "MERGE" => \A b : ~Awaits(Top, b)
    BY DEF Awaits
  <2> QED
    BY <2>1, FreeFrame, StackFrames
<1> QED
  BY <1>1, <1>2 DEF CoverStep

-----------------------------------------------------------------------------
(***************************************************************************)
(* The invariant after a step that goes on with the lowering, and after    *)
(* one that stops.                                                         *)
(***************************************************************************)

LEMMA StillLowering ==
  ASSUME status' = "lowering", Flow', Lowering'
  PROVE  FlowInv'
BY DEF FlowInv, EveryBlockEnds, NoneLeft, NoDegeneratePhi

LEMMA FailFlow ==
  ASSUME FlowInv, NEW e \in Error, Fail(e)
  PROVE  FlowInv'
<1>1. blocks' = blocks /\ status' \notin {"lowering", "collapsing", "done"}
  BY DEF Fail, irVars, Error, UnboundAssignment, AssignmentTypes, NoValue,
         AfterReturn, NoReturn, ReturnType, OperandTypes, ArgumentTypes,
         WhileType
<1> QED
  BY <1>1 DEF FlowInv, Flow, EveryBlockEnds, NoneLeft, NoDegeneratePhi

\* What FlowInv says during the lowering.
LEMMA InLowering ==
  ASSUME TypeOK, FlowInv, status = "lowering"
  PROVE  Flow /\ Lowering /\ (Top.kind \notin ListKind => ~blocks[cur].terminated)
BY DEF FlowInv, Lowering, OpenForCode

-----------------------------------------------------------------------------
(***************************************************************************)
(* emit_expression                                                         *)
(***************************************************************************)

\* A leaf returns at once.
LEMMA LeafFlow ==
  ASSUME TypeOK, TypeOK', FlowInv, NEW t, Wanting(t), NEW o, Receive(o),
         UNCHANGED <<runVars, irVars, nameVars, semVars, fuel>>
  PROVE  FlowInv'
<1>1. /\ status = "lowering" /\ status' = "lowering" /\ Top.kind \in ExprKind
      /\ dropped' = dropped /\ UNCHANGED <<blocks, cur, values>>
  BY DEF Wanting, runVars, irVars, nameVars, valueVars
<1>2. /\ Flow /\ Lowering /\ ~blocks[cur].terminated
      /\ Top.kind \notin {"MERGE", "HEADER"}
  BY <1>1, InLowering DEF ListKind, ExprKind
<1>3. TopStep(Len(ctrl))
  BY <1>1, <1>2, ReceiveShape, QuietTop
<1>4. CoverStep(Len(ctrl))
  BY <1>1, QuietCover, StackFrames
<1> QED
  BY <1>1, <1>2, <1>3, <1>4, SameValues, SilentStep, StillLowering

\* A call, operator or connective begins.
LEMMA BeginExprFlow ==
  ASSUME TypeOK, TypeOK', FlowInv, NEW t, Wanting(t), NEW f, BeginExpr(f),
         f.kind \in {"BINARY", "NOT", "CALL", "LEFT"}
  PROVE  FlowInv'
<1>1. /\ status = "lowering" /\ status' = "lowering" /\ Top.kind \in ExprKind
      /\ dropped' = dropped /\ UNCHANGED <<blocks, cur, values>> /\ Push(f)
  BY DEF Wanting, BeginExpr, runVars, irVars, nameVars, valueVars
<1>2. /\ Flow /\ Lowering /\ ~blocks[cur].terminated
      /\ Top.kind \notin {"MERGE", "HEADER"}
  BY <1>1, InLowering DEF ListKind, ExprKind
<1>3. TopStep(Len(ctrl))
  BY <1>1, <1>2, PushTop DEF FreeKind, OperandKind
<1>4. CoverStep(Len(ctrl))
  BY <1>1, QuietCover, StackFrames
<1> QED
  BY <1>1, <1>2, <1>3, <1>4, SameValues, SilentStep, StillLowering

\* An operand waits for its caller, an expression.
LEMMA OperandCaller ==
  ASSUME TypeOK,
         \/ Top.kind \in OperandKind
         \/ Top.kind = "CALL" /\ ctrl[Len(ctrl) - 1].kind \notin ListKind
  PROVE  /\ ctrl[Len(ctrl) - 1].kind \in ExprKind /\ Top.kind # "FBODY"
         /\ Top.kind \notin {"MERGE", "HEADER"} /\ Len(ctrl) - 1 \in Nat
         /\ Len(ctrl) >= 2
<1>1. ctrl \in Seq(StackFrame) /\ Nested(ctrl) /\ Top = ctrl[Len(ctrl)]
  BY StackFrames DEF TypeOK, StackType
<1>2. Len(ctrl) >= 2 /\ ctrl[Len(ctrl) - 1].kind \in ExprKind
  BY <1>1, CallerOf DEF OperandKind
<1> QED
  BY <1>2, StackFrames DEF OperandKind

\* The stack when an operand is returned.
LEMMA ReturnTop ==
  ASSUME TypeOK, NEW o, Return(o),
         \/ Top.kind \in OperandKind
         \/ Top.kind = "CALL" /\ ctrl[Len(ctrl) - 1].kind \notin ListKind
  PROVE  TopStep(Len(ctrl) - 1)
<1>1. Keeps(Len(ctrl) - 1) /\ Len(ctrl') = Len(ctrl) - 1
  BY OperandCaller, ReturnShape
<1> QED
  BY <1>1, OperandCaller, QuietTop, StackFrames

\* An operator or a call whose operands are complete.
LEMMA ComputeFlow ==
  ASSUME TypeOK, TypeOK', FlowInv, status = "lowering",
         \/ Top.kind \in {"BINARY", "NOT"}
         \/ Top.kind = "CALL" /\ ctrl[Len(ctrl) - 1].kind \notin ListKind,
         NEW instr, Plain(instr), ValuesKept, NEW o, Return(o),
         blocks' = Emit(blocks, cur, instr),
         UNCHANGED <<runVars, cur>>
  PROVE  FlowInv'
<1>1. /\ Flow /\ Lowering /\ ~blocks[cur].terminated /\ status' = "lowering"
      /\ dropped' = dropped /\ cur' = cur
  BY InLowering DEF ListKind, runVars
<1>2. TopStep(Len(ctrl) - 1)
  BY ReturnTop DEF OperandKind
<1>3. Len(blocks') = Len(blocks)
  BY EmitShape, StackFrames DEF Emitted
<1>4. CoverStep(Len(ctrl) - 1)
  BY <1>1, <1>3, QuietCover, OperandCaller DEF FreeKind, OperandKind
<1> QED
  BY <1>1, <1>2, <1>4, EmitStep, StillLowering

LEMMA FinishBinaryFlow ==
  ASSUME TypeOK, TypeOK', FlowInv, FinishBinary
  PROVE  FlowInv'
<1> DEFINE t     == ResultType(Top.op, Top.args[1].type)
           r     == Result(Top.target, t)
           instr == Instruction(Top.op, r, Top.args)
<1>1. Top.kind = "BINARY" /\ Complete /\ status = "lowering"
  BY DEF FinishBinary, Active
<1>2. CASE Top.args[1].type # Top.args[2].type
  BY <1>2, FailFlow DEF FinishBinary, Error
<1>3. CASE Top.args[1].type = Top.args[2].type
  <2>1. Plain(instr)
    <3>1. Top \in BinaryFrame(Len(values))
      BY <1>1, StackFrames, FrameByKind DEF StackFrame
    <3>2. Top.op \in {"ARITH", "CMP"}
      BY <3>1 DEF BinaryFrame
    <3>3. instr.op = Top.op
      BY DEF Instruction
    <3> QED
      BY <3>2, <3>3 DEF Plain, Terminator
  <2>2. /\ NewResult(Top.target, t) /\ blocks' = Emit(blocks, cur, instr)
        /\ Return(r) /\ UNCHANGED <<runVars, cur>>
    BY <1>3 DEF FinishBinary
  <2> HIDE DEF t, r, instr
  <2>3. ValuesKept
    BY <2>2, NewResultKeeps
  <2> QED
    BY <1>1, <2>1, <2>2, <2>3, ComputeFlow
<1> QED
  BY <1>2, <1>3

LEMMA FinishNotFlow ==
  ASSUME TypeOK, TypeOK', FlowInv, FinishNot
  PROVE  FlowInv'
<1> DEFINE r     == Result(Top.target, "BOOL")
           instr == Instruction("NOT", r, Top.args)
<1>1. Top.kind = "NOT" /\ Complete /\ status = "lowering"
  BY DEF FinishNot, Active
<1>2. CASE Top.args[1].type # "BOOL"
  BY <1>2, FailFlow DEF FinishNot, Error
<1>3. CASE Top.args[1].type = "BOOL"
  <2>1. Plain(instr)
    BY DEF Instruction, Plain, Terminator
  <2>2. /\ NewResult(Top.target, "BOOL") /\ blocks' = Emit(blocks, cur, instr)
        /\ Return(r) /\ UNCHANGED <<runVars, cur>>
    BY <1>3 DEF FinishNot
  <2> HIDE DEF r, instr
  <2>3. ValuesKept
    BY <2>2, NewResultKeeps
  <2> QED
    BY <1>1, <2>1, <2>2, <2>3, ComputeFlow
<1> QED
  BY <1>2, <1>3

\* The end of a call that is a statement.
LEMMA CallEnds ==
  ASSUME TypeOK, TypeOK', FlowInv, status = "lowering", Top.kind = "CALL",
         NEW instr, Plain(instr), ValuesKept, Pop,
         blocks' = Emit(blocks, cur, instr), UNCHANGED <<runVars, cur>>
  PROVE  FlowInv'
<1>1. /\ Flow /\ Lowering /\ ~blocks[cur].terminated /\ status' = "lowering"
      /\ dropped' = dropped /\ cur' = cur
  BY InLowering DEF ListKind, runVars
<1>2. Keeps(Len(ctrl) - 1) /\ Len(ctrl') = Len(ctrl) - 1
  BY PopShape
<1>3. Len(ctrl) - 1 \in Nat /\ Len(blocks') = Len(blocks)
  BY EmitShape, StackFrames DEF Emitted
<1>4. TopStep(Len(ctrl) - 1)
  BY <1>2, <1>3, QuietTop, StackFrames
<1>5. CoverStep(Len(ctrl) - 1)
  BY <1>1, <1>3, QuietCover DEF FreeKind
<1> QED
  BY <1>1, <1>4, <1>5, EmitStep, StillLowering

LEMMA FinishCallFlow ==
  ASSUME TypeOK, TypeOK', FlowInv, FinishCall
  PROVE  FlowInv'
<1> DEFINE r     == IF Top.ret = "VOID" THEN NoOperand
                    ELSE Result(Top.target, Top.ret)
           instr == Instruction("CALL", r, Top.args)
<1>1. Top.kind = "CALL" /\ Complete /\ status = "lowering"
  BY DEF FinishCall, Active
<1>2. Plain(instr)
  BY DEF Instruction, Plain, Terminator
<1>3. /\ IF Top.ret = "VOID" THEN UNCHANGED valueVars
         ELSE NewResult(Top.target, Top.ret)
      /\ blocks' = Emit(blocks, cur, instr)
      /\ IF ctrl[Len(ctrl) - 1].kind \in ListKind THEN Pop ELSE Return(r)
      /\ UNCHANGED <<runVars, cur>>
  BY DEF FinishCall
<1> HIDE DEF r, instr
<1>4. ValuesKept
  BY <1>3, NewResultKeeps, SameValues DEF valueVars
<1>5. CASE ctrl[Len(ctrl) - 1].kind \in ListKind
  BY <1>1, <1>2, <1>3, <1>4, <1>5, CallEnds
<1>6. CASE ctrl[Len(ctrl) - 1].kind \notin ListKind
  BY <1>1, <1>2, <1>3, <1>4, <1>6, ComputeFlow
<1> QED
  BY <1>5, <1>6

\* A connective that is dropped: the merge of its right operand is lost.
LEMMA DropLogicFlow ==
  ASSUME TypeOK, TypeOK', FlowInv, DropLogic
  PROVE  FlowInv'
<1>1. /\ Top.kind \in OperandKind /\ status = "lowering"
      /\ status' = "lowering" /\ dropped' = TRUE /\ Return(NoOperand)
      /\ UNCHANGED <<blocks, cur, values>>
  BY DEF DropLogic, Active, irVars, nameVars, valueVars, OperandKind
<1>2. Flow /\ Lowering /\ ~blocks[cur].terminated
  BY <1>1, InLowering DEF ListKind, OperandKind
<1>3. TopStep(Len(ctrl) - 1)
  BY <1>1, ReturnTop
<1>4. CoverStep(Len(ctrl) - 1)
  BY <1>1 DEF CoverStep
<1> QED
  BY <1>1, <1>2, <1>3, <1>4, SameValues, SilentStep, StillLowering

-----------------------------------------------------------------------------
(***************************************************************************)
(* Steps that end the current block and go on in another one.              *)
(***************************************************************************)

\* The innermost call, which ends or becomes another one, waits for block x.
Handed(k, x) == Len(ctrl) = k + 1 /\ Awaits(Top, x)

\* The current block has ended, and control goes on in a block that is new or
\* that the innermost call waited for; the other blocks keep what they have,
\* except that phis may receive a value.
Departs(k) ==
  /\ Len(blocks) <= Len(blocks')
  /\ cur' \in 1 .. Len(blocks')
  /\ cur' > Len(blocks) \/ Handed(k, cur')
  /\ ~blocks'[cur'].terminated /\ ~Ends(blocks'[cur'])
  /\ blocks'[cur].terminated /\ Ends(blocks'[cur]) /\ PhisKept(cur)
  /\ \A x \in 1 .. Len(blocks') :
       x # cur' /\ (x > Len(blocks) \/ Handed(k, x)) => Idle(blocks'[x])
  /\ \A x \in 1 .. Len(blocks) : x # cur /\ ~Handed(k, x) =>
       /\ blocks'[x].terminated = blocks[x].terminated
       /\ Ends(blocks'[x]) <=> Ends(blocks[x])
       /\ PhisKept(x)
       /\ Awaited(x) => blocks'[x] = blocks[x]
  /\ ValuesKept

\* The header of a loop that is being lowered is in use.
LEMMA HeaderStarted ==
  ASSUME TypeOK, Lowering, NEW i \in 1 .. Len(ctrl),
         ctrl[i].kind \in {"WHILECOND", "LOOP"}
  PROVE  /\ ctrl[i].header \in 1 .. Len(blocks)
         /\ cur = ctrl[i].header \/ blocks[ctrl[i].header].terminated
         /\ ~Awaited(ctrl[i].header)
<1>1. i \in DOMAIN ctrl /\ ctrl[i].header \in DOMAIN blocks
  BY HeaderIsBlock, StackFrames
<1>2. cur = ctrl[i].header \/ blocks[ctrl[i].header].terminated
  BY <1>1 DEF Lowering, FrameFlow, FlowIn
<1> QED
  BY <1>1, <1>2, HeaderIsBlock DEF Lowering, Unstarted

\* A block that the innermost call waits for is waited for by no other.
LEMMA HandedApart ==
  ASSUME TypeOK, Lowering, NEW k, NEW x \in 1 .. Len(blocks), Handed(k, x),
         k \in Nat
  PROVE  /\ Awaited(x) /\ x # cur /\ ~blocks[x].terminated
         /\ Idle(blocks[x])
         /\ \A i \in 1 .. k : ~Awaits(ctrl[i], x)
<1>1. /\ Len(ctrl) \in DOMAIN ctrl /\ Awaits(ctrl[Len(ctrl)], x)
      /\ Len(ctrl) = k + 1 /\ x \in DOMAIN blocks
      /\ DOMAIN ctrl = 1 .. Len(ctrl)
  BY StackFrames DEF Handed
<1>2. \A i \in 1 .. k : i \in DOMAIN ctrl /\ i # Len(ctrl)
  BY <1>1
<1>3. Awaited(x)
  BY <1>1 DEF Awaited
<1> QED
  BY <1>1, <1>2, <1>3 DEF Lowering, Unstarted, Apart, Idle

LEMMA DepartCode ==
  ASSUME TypeOK, Lowering, NEW k \in Nat, k <= Len(ctrl), Departs(k)
  PROVE  CodeStep(k)
<1>1. /\ Len(ctrl) \in Nat /\ Len(blocks) \in Nat /\ cur \in 1 .. Len(blocks)
      /\ \A i \in 1 .. k : i \in 1 .. Len(ctrl) /\ i \in DOMAIN ctrl
      /\ DOMAIN blocks = 1 .. Len(blocks)
  BY StackFrames
<1>2. ASSUME NEW i \in 1 .. k, NEW b \in 1 .. Len(blocks), Awaits(ctrl[i], b)
      PROVE  b # cur' /\ blocks'[b] = blocks[b]
  <2>1. Awaited(b) /\ b # cur
    BY <1>1, <1>2 DEF Awaited, Lowering, Unstarted
  <2>2. ~Handed(k, b)
    BY <1>2, HandedApart
  <2>3. b # cur'
    BY <2>2 DEF Departs
  <2> QED
    BY <2>1, <2>2, <2>3 DEF Departs
<1>3. ASSUME NEW b \in 1 .. Len(blocks), blocks[b].terminated
      PROVE  blocks'[b].terminated
  <2>1. ~Handed(k, b)
    BY <1>3, HandedApart
  <2> QED
    BY <1>3, <2>1 DEF Departs
<1>4. ASSUME NEW i \in 1 .. k, ctrl[i].kind \in {"WHILECOND", "LOOP"}
      PROVE  PhisKept(ctrl[i].header)
  <2> DEFINE h == ctrl[i].header
  <2>1. h \in 1 .. Len(blocks) /\ ~Awaited(h)
    BY <1>1, <1>4, HeaderStarted
  <2> HIDE DEF h
  <2>2. ~Handed(k, h)
    BY <2>1, HandedApart
  <2>3. PhisKept(h)
    BY <2>1, <2>2 DEF Departs
  <2> QED
    BY <2>3 DEF h
<1> QED
  BY <1>2, <1>3, <1>4 DEF CodeStep, Departs, ValuesKept

LEMMA DepartStep ==
  ASSUME TypeOK, TypeOK', Lowering, NEW k \in Nat, k <= Len(ctrl),
         Departs(k), TopStep(k), CoverStep(k)
  PROVE  Lowering'
<1>1. CodeStep(k)
  BY DepartCode
<1>2. /\ DOMAIN blocks' = 1 .. Len(blocks') /\ DOMAIN blocks = 1 .. Len(blocks)
      /\ Len(blocks) \in Nat
  BY StackFrames DEF TypeOK, IRType
<1>3. Marked'
  <2> SUFFICES ASSUME NEW x \in 1 .. Len(blocks')
               PROVE  blocks'[x].terminated <=> Ends(blocks'[x])
    BY <1>2 DEF Marked
  <2>1. CASE x = cur' \/ x = cur
    BY <2>1 DEF Departs
  <2>2. CASE x # cur' /\ (x > Len(blocks) \/ Handed(k, x))
    <3>1. Idle(blocks'[x])
      BY <2>2 DEF Departs
    <3> QED
      BY <3>1 DEF Idle, Ends
  <2>3. CASE x # cur /\ ~(x > Len(blocks)) /\ ~Handed(k, x)
    <3>1. x \in 1 .. Len(blocks)
      <4>1. Len(blocks') \in Nat
        BY DEF TypeOK, IRType
      <4> QED
        BY <1>2, <2>3, <4>1
    <3>2. blocks[x].terminated <=> Ends(blocks[x])
      BY <1>2, <3>1 DEF Lowering, Marked
    <3> QED
      BY <2>3, <3>1, <3>2 DEF Departs
  <2> QED
    BY <2>1, <2>2, <2>3
<1>4. OpenForCode'
  BY DEF OpenForCode, Departs
<1> QED
  BY <1>1, <1>3, <1>4, LoweringKept

\* Blocks that are about to be entered from the current one.
Opened(wide, q) ==
  /\ wide \in Seq(Block(Len(values), q)) /\ Len(wide) = q /\ q \in Nat
  /\ Extends(blocks, wide)

\* The current block, open for code, in terms of Flow and Marked.
LEMMA OpenCur ==
  ASSUME TypeOK, Flow, Lowering, ~blocks[cur].terminated
  PROVE  /\ ~Ends(blocks[cur]) /\ BlockFlow(blocks[cur])
         /\ blocks[cur].code \in Seq(Instr(Len(values), Len(blocks)))
<1>1. cur \in 1 .. Len(blocks) /\ DOMAIN blocks = 1 .. Len(blocks)
      /\ Len(values) \in Nat /\ Len(blocks) \in Nat
      /\ blocks \in Seq(Block(Len(values), Len(blocks)))
  BY StackFrames
<1> QED
  BY <1>1, BlockFields DEF Lowering, Marked, Flow, FlowOf

\* A code that gets a branch at its end.
LEMMA BranchEndsCode ==
  ASSUME TypeOK, NEW instr, instr.op \in {"BR", "CBR"},
         blocks'[cur].code = Append(blocks[cur].code, instr)
  PROVE  Ends(blocks'[cur]) /\ PhisKept(cur)
<1>1. /\ cur \in 1 .. Len(blocks)
      /\ blocks[cur].code \in Seq(Instr(Len(values), Len(blocks)))
  BY StackFrames, BlockFields
<1>2. /\ Append(blocks[cur].code, instr) # << >>
      /\ Last(Append(blocks[cur].code, instr)) = instr
  BY <1>1, AppendParts
<1>3. CodeGrows(cur)
  BY DEF CodeGrows
<1>4. PhisKept(cur)
  BY <1>1, <1>3, GrowsKeepsPhis
<1> QED
  BY <1>2, <1>4 DEF Ends, Terminator

LEMMA SamePhis ==
  ASSUME TypeOK, NEW b \in 1 .. Len(blocks),
         blocks'[b].code = blocks[b].code
  PROVE  PhisKept(b)
BY GrowsKeepsPhis DEF CodeGrows

\* The current block ends in a conditional branch to two new blocks.
LEMMA WideSplit ==
  ASSUME TypeOK, TypeOK', Flow, Lowering, ~blocks[cur].terminated,
         NEW wide, NEW q, Opened(wide, q),
         NEW t \in Len(blocks) + 1 .. q, NEW e \in Len(blocks) + 1 .. q, t # e,
         NEW o \in Operand(Len(values)),
         blocks' = CondBranch(wide, cur, o, t, e), UNCHANGED values,
         cur' \in Len(blocks) + 1 .. q, NEW k, k = Len(ctrl) - 1,
         Top.kind \in FreeKind
  PROVE  /\ Flow' /\ Departs(k) /\ Len(blocks') = q
         /\ \A x \in Len(blocks) + 1 .. q :
              /\ Idle(blocks'[x])
              /\ blocks'[x].pred = IF x \in {t, e} THEN <<cur>> ELSE << >>
<1>1. /\ cur \in 1 .. Len(blocks) /\ Len(blocks) \in Nat /\ Len(values) \in Nat
      /\ blocks \in Seq(Block(Len(values), Len(blocks)))
      /\ DOMAIN blocks = 1 .. Len(blocks)
  BY StackFrames
<1>2. /\ wide \in Seq(Block(Len(values), q)) /\ Len(wide) = q /\ q \in Nat
      /\ Extends(blocks, wide) /\ Len(blocks) <= q
      /\ cur \in 1 .. q /\ t \in 1 .. q /\ e \in 1 .. q /\ cur # t /\ cur # e
  BY <1>1 DEF Opened, Extends
<1>2a. /\ cur \in 1 .. Len(wide) /\ t \in 1 .. Len(wide)
       /\ e \in 1 .. Len(wide) /\ Len(wide) <= q
  BY <1>2
<1>3. /\ blocks' \in Seq(Block(Len(values), q))
      /\ Split(wide, blocks', cur, o, t, e)
  BY <1>1, <1>2, <1>2a, CondBranchEffect
<1>4. Len(blocks') = q
  BY <1>2, <1>3 DEF Split
<1>5. /\ wide[cur] = blocks[cur]
      /\ \A x \in 1 .. Len(blocks) : wide[x] = blocks[x]
      /\ \A x \in Len(blocks) + 1 .. q : wide[x] = NewBlock
  BY <1>1, <1>2 DEF Extends
<1>6. FlowOf(wide)
  BY <1>1, <1>2, FlowNew DEF Flow
<1>7. /\ NewBlock.code = << >> /\ NewBlock.succ = << >>
      /\ NewBlock.pred = << >> /\ NewBlock.terminated = FALSE
  BY DEF NewBlock
<1>8. Flow'
  <2>1. wide[t].code = << >> /\ wide[e].code = << >> /\ ~Ends(wide[cur])
    BY <1>5, <1>7, OpenCur
  <2>2. FlowOf(blocks')
    <3> DEFINE p   == Len(values)
               new == blocks'
    <3>1. /\ p \in Nat /\ q \in Nat /\ wide \in Seq(Block(p, q))
          /\ new \in Seq(Block(p, q)) /\ Split(wide, new, cur, o, t, e)
      BY <1>1, <1>2, <1>3
    <3>2. cur # t /\ cur # e /\ t # e
      BY <1>2
    <3> HIDE DEF p, new
    <3>3. FlowOf(new)
      BY <1>2a, <1>6, <2>1, <3>1, <3>2, FlowSplit
    <3> QED
      BY <3>3 DEF new
  <2> QED
    BY <2>2 DEF Flow
<1>9. ASSUME NEW x \in Len(blocks) + 1 .. q
      PROVE  /\ Idle(blocks'[x])
             /\ blocks'[x].pred = IF x \in {t, e} THEN <<cur>> ELSE << >>
  <2>1. x \in 1 .. q /\ x # cur
    BY <1>1, <1>2
  <2>2. wide[x] = NewBlock
    BY <1>5
  <2>3. Idle(blocks'[x])
    BY <1>2, <1>3, <1>7, <2>1, <2>2 DEF Split, Idle
  <2>4. x \in {t, e} => blocks'[x].pred = Append(NewBlock.pred, cur)
    BY <1>2, <1>3, <2>1, <2>2 DEF Split
  <2>5. x \notin {t, e} => blocks'[x].pred = NewBlock.pred
    BY <1>2, <1>3, <2>1, <2>2 DEF Split
  <2>6. Append(<< >>, cur) = <<cur>>
    OBVIOUS
  <2> QED
    BY <1>7, <2>3, <2>4, <2>5, <2>6
<1>10. Departs(k)
  <2>1. /\ blocks'[cur].code = Append(blocks[cur].code, Choice(o, t, e))
        /\ blocks'[cur].terminated
    BY <1>3, <1>5 DEF Split
  <2>2. Choice(o, t, e).op = "CBR"
    BY DEF Choice
  <2>3. Ends(blocks'[cur]) /\ PhisKept(cur)
    BY <2>1, <2>2, BranchEndsCode
  <2>4. ASSUME NEW x \in 1 .. Len(blocks), x # cur
        PROVE  blocks'[x] = blocks[x] /\ PhisKept(x)
    <3>1. blocks'[x] = blocks[x]
      BY <1>1, <1>2, <1>3, <1>5, <2>4 DEF Split
    <3> QED
      BY <3>1, SamePhis
  <2>5. \A x : ~Handed(k, x)
    BY FreeFrame DEF Handed
  <2>6. \A x \in 1 .. Len(blocks') : x > Len(blocks) => Idle(blocks'[x])
    BY <1>1, <1>2, <1>4, <1>9
  <2>7. Idle(blocks'[cur'])
    BY <1>9
  <2>8. cur' \in 1 .. Len(blocks') /\ cur' > Len(blocks)
    BY <1>1, <1>2, <1>4
  <2>9. ~Ends(blocks'[cur']) /\ ~blocks'[cur'].terminated
    BY <2>7 DEF Idle, Ends
  <2> QED
    BY <1>2, <1>4, <2>1, <2>3, <2>4, <2>5, <2>6, <2>8, <2>9, SameValues
    DEF Departs
<1> QED
  BY <1>4, <1>8, <1>9, <1>10

LEMMA SplitLogicFlow ==
  ASSUME TypeOK, TypeOK', FlowInv, SplitLogic
  PROVE  FlowInv'
<1> DEFINE right == Len(blocks) + 1
           merge == Len(blocks) + 2
           wide  == blocks \o <<NewBlock, NewBlock>>
           o     == Top.args[1]
           t     == IF Top.isOr THEN merge ELSE right
           e     == IF Top.isOr THEN right ELSE merge
           f     == [kind |-> "RIGHT", wants |-> <<"BOOL">>, args |-> << >>,
                     target |-> Top.target, isOr |-> Top.isOr,
                     decision |-> cur, merge |-> merge]
           k     == Len(ctrl) - 1
<1>1. /\ blocks' = CondBranch(wide, cur, o, t, e) /\ cur' = right
      /\ Replace(f) /\ UNCHANGED <<runVars, nameVars>>
      /\ Top.kind = "LEFT" /\ Complete /\ status = "lowering"
  BY DEF SplitLogic, Active
<1>2. /\ Flow /\ Lowering /\ ~blocks[cur].terminated
      /\ status' = "lowering" /\ dropped' = dropped /\ UNCHANGED values
  BY <1>1, InLowering DEF ListKind, runVars, nameVars, valueVars
<1>3. Opened(wide, merge) /\ Len(blocks) \in Nat
  <2>1. /\ blocks \in Seq(Block(Len(values), Len(blocks)))
        /\ Len(blocks) \in Nat /\ Len(values) \in Nat
    BY StackFrames
  <2>2. wide \in Seq(Block(Len(values), merge)) /\ Len(wide) = merge
    BY <2>1, NewBlocksType
  <2>3. Extends(blocks, wide)
    BY <2>1, ExtendsNew
  <2> QED
    BY <2>1, <2>2, <2>3 DEF Opened
<1>4. /\ t \in Len(blocks) + 1 .. merge /\ e \in Len(blocks) + 1 .. merge
      /\ t # e /\ merge \in {t, e} /\ cur' \in Len(blocks) + 1 .. merge
  BY <1>1, <1>3
<1>5. o \in Operand(Len(values))
  BY <1>1, OperandsType DEF ExprKind
<1>6. /\ f.kind = "RIGHT" /\ f.merge = merge /\ f.decision = cur
      /\ Top.kind \in FreeKind /\ k = Len(ctrl) - 1
  BY <1>1 DEF FreeKind
<1> HIDE DEF wide, o, t, e, f, k
<1>7. /\ Flow' /\ Departs(k) /\ Len(blocks') = merge
      /\ \A x \in Len(blocks) + 1 .. merge :
              /\ Idle(blocks'[x])
              /\ blocks'[x].pred = IF x \in {t, e} THEN <<cur>> ELSE << >>
  <2> HIDE DEF merge
  <2> QED
    BY <1>1, <1>2, <1>3, <1>4, <1>5, <1>6, WideSplit
<1>8. /\ Keeps(k) /\ Len(ctrl') = k + 1 /\ ctrl'[k + 1] = f
      /\ Len(ctrl) = k + 1 /\ k \in Nat
  BY <1>1, ReplaceShape, StackFrames DEF k
<1>9. /\ blocks'[merge].pred = <<cur>> /\ Idle(blocks'[merge])
      /\ merge # cur' /\ merge > Len(blocks)
  BY <1>1, <1>3, <1>4, <1>7
<1>10. \A b : Awaits(f, b) => b = merge
  BY <1>6 DEF Awaits
<1>11. TopStep(k)
  <2>1. FlowIn(blocks', cur', values', f)
    BY <1>6, <1>9 DEF FlowIn
  <2> QED
    BY <1>6, <1>8, <1>9, <1>10, <2>1 DEF TopStep, OperandKind
<1>12. CoverStep(k)
  <2>1. \A b : ~Awaits(Top, b)
    BY <1>6, FreeFrame
  <2>2. \A b \in 1 .. Len(blocks') :
           b > Len(blocks) => b = cur' \/ b = merge
    BY <1>1, <1>3, <1>7
  <2>3. Awaits(f, merge)
    BY <1>6 DEF Awaits
  <2> QED
    BY <1>2, <1>8, <2>1, <2>2, <2>3 DEF CoverStep
<1> QED
  BY <1>2, <1>7, <1>8, <1>11, <1>12, DepartStep, StillLowering, StackFrames

-----------------------------------------------------------------------------
(***************************************************************************)
(* emit_statement                                                          *)
(***************************************************************************)

\* A statement is called by a statement list.
LEMMA StatementCaller ==
  ASSUME TypeOK, Top.kind \in StatementKind
  PROVE  /\ ctrl[Len(ctrl) - 1].kind \in ListKind /\ Top.kind # "FBODY"
         /\ Len(ctrl) - 1 \in Nat /\ Len(ctrl) - 1 \in 1 .. Len(ctrl)
<1>1. ctrl \in Seq(StackFrame) /\ Nested(ctrl) /\ Top = ctrl[Len(ctrl)]
  BY StackFrames DEF TypeOK, StackType
<1>2. Len(ctrl) >= 2 /\ ctrl[Len(ctrl) - 1].kind \in ListKind
  BY <1>1, CallerOf DEF StatementKind
<1> QED
  BY <1>2, StackFrames DEF StatementKind

\* A statement ends; its caller goes on with the next one.
LEMMA EndTop ==
  ASSUME TypeOK, Top.kind \in StatementKind, NEW r, EndStatement(r)
  PROVE  TopStep(Len(ctrl) - 1) /\ LastFrame.kind \in ListKind
<1>1. Keeps(Len(ctrl) - 1) /\ Len(ctrl') = Len(ctrl) - 1
  BY StatementCaller, EndShape
<1>2. TopStep(Len(ctrl) - 1)
  BY <1>1, StatementCaller, QuietTop, StackFrames
<1>3. Len(ctrl) - 1 \in 1 .. Len(ctrl) - 1
  BY StatementCaller
<1>4. Alike(ctrl[Len(ctrl) - 1], LastFrame)
  BY <1>1, <1>3 DEF Keeps, LastFrame
<1> QED
  BY <1>2, <1>4, StatementCaller DEF Alike

LEMMA PopTop ==
  ASSUME TypeOK, Top.kind \in StatementKind, Pop
  PROVE  TopStep(Len(ctrl) - 1) /\ LastFrame.kind \in ListKind
<1>1. Keeps(Len(ctrl) - 1) /\ Len(ctrl') = Len(ctrl) - 1
  BY StatementCaller, PopShape
<1>2. TopStep(Len(ctrl) - 1)
  BY <1>1, StatementCaller, QuietTop, StackFrames
<1>3. Len(ctrl) - 1 \in 1 .. Len(ctrl) - 1
  BY StatementCaller
<1>4. Alike(ctrl[Len(ctrl) - 1], LastFrame)
  BY <1>1, <1>3 DEF Keeps, LastFrame
<1> QED
  BY <1>2, <1>4, StatementCaller DEF Alike

\* The call of a part of a statement.
LEMMA BeginStatementFlow ==
  ASSUME TypeOK, TypeOK', FlowInv, InList, ~blocks[cur].terminated, NEW f,
         Push(f), f.kind \in {"ASSIGN", "RETURN", "CALL", "BLOCK", "IFCOND"},
         ValuesKept, UNCHANGED <<runVars, irVars>>
  PROVE  FlowInv'
<1>1. /\ status = "lowering" /\ status' = "lowering" /\ Top.kind \in ListKind
      /\ dropped' = dropped /\ UNCHANGED <<blocks, cur>>
  BY DEF InList, runVars, irVars
<1>2. /\ Flow /\ Lowering /\ Top.kind \notin {"MERGE", "HEADER"}
      /\ f.kind \in FreeKind
  BY <1>1, InLowering DEF ListKind, FreeKind
<1>3. TopStep(Len(ctrl))
  BY <1>1, <1>2, PushTop
<1>4. CoverStep(Len(ctrl))
  BY <1>1, QuietCover, StackFrames
<1> QED
  BY <1>1, <1>2, <1>3, <1>4, SilentStep, StillLowering

\* A statement that ends and emits nothing.
LEMMA EndStatementFlow ==
  ASSUME TypeOK, TypeOK', FlowInv, status = "lowering",
         Top.kind \in {"BLOCK", "IFCOND", "MERGE"}, NEW r, EndStatement(r),
         UNCHANGED <<irVars, nameVars, status>>, dropped => dropped'
  PROVE  FlowInv'
<1>1. Flow /\ Lowering /\ UNCHANGED <<blocks, cur, values>>
  BY InLowering DEF irVars, nameVars, valueVars
<1>2. TopStep(Len(ctrl) - 1) /\ LastFrame.kind \in ListKind
  BY EndTop DEF StatementKind
<1>3. CoverStep(Len(ctrl) - 1)
  BY <1>1, QuietCover, StatementCaller DEF StatementKind, FreeKind
<1> QED
  BY <1>1, <1>2, <1>3, SameValues, SilentStep, StillLowering

LEMMA DeclareOnlyFlow ==
  ASSUME TypeOK, TypeOK', FlowInv, NEW n, NEW t, DeclareOnly(n, t)
  PROVE  FlowInv'
<1>1. /\ InList /\ ~blocks[cur].terminated
      /\ UNCHANGED <<blocks, cur, values, ctrl, dropped, status>>
  BY DEF DeclareOnly, StartStatement, NextStatement, runVars, irVars, nameVars,
         valueVars
<1>2. /\ Flow /\ Lowering /\ Top.kind \notin {"MERGE", "HEADER"}
  BY <1>1, InLowering DEF InList, ListKind
<1>3. TopStep(Len(ctrl))
  BY <1>1, <1>2, SameShape, QuietTop
<1>4. CoverStep(Len(ctrl))
  BY <1>1, QuietCover, StackFrames
<1> QED
  BY <1>1, <1>2, <1>3, <1>4, SameValues, SilentStep, StillLowering DEF InList

LEMMA BeginAssignmentFlow ==
  ASSUME TypeOK, TypeOK', FlowInv, InList, ~blocks[cur].terminated,
         NEW n, NEW u, NEW t, BeginAssignment(n, u, t)
  PROVE  FlowInv'
<1> DEFINE f == [kind |-> "ASSIGN", name |-> n, dest |-> ValueOp(NextId, t),
                 wants |-> <<u>>, args |-> << >>]
<1>1. /\ Push(f) /\ NewValue(n, t) /\ UNCHANGED <<runVars, irVars>>
      /\ f.kind = "ASSIGN"
  BY DEF BeginAssignment
<1> HIDE DEF f
<1>2. ValuesKept
  BY <1>1, NewValueKeeps
<1> QED
  BY <1>1, <1>2, BeginStatementFlow

\* The end of an assignment, with the copy or without.
LEMMA FinishAssignmentFlow ==
  ASSUME TypeOK, TypeOK', FlowInv, FinishAssignment
  PROVE  FlowInv'
<1> DEFINE r     == Top.args[1]
           instr == Instruction("COPY", Top.dest, <<r>>)
<1>1. Top.kind = "ASSIGN" /\ Complete /\ status = "lowering"
  BY DEF FinishAssignment, Active
<1>2. CASE r.type # Top.dest.type
  BY <1>2, FailFlow DEF FinishAssignment, Error
<1>3. CASE r.type = Top.dest.type
  <2>1. /\ blocks' = Store(Top.dest, r) /\ Pop
        /\ UNCHANGED <<runVars, cur, valueVars>>
    BY <1>3 DEF FinishAssignment
  <2>2. /\ Flow /\ Lowering /\ ~blocks[cur].terminated /\ cur' = cur
        /\ dropped' = dropped /\ status' = "lowering" /\ UNCHANGED values
    BY <1>1, <2>1, InLowering DEF ListKind, runVars, valueVars
  <2>3. TopStep(Len(ctrl) - 1)
    BY <1>1, <2>1, PopTop DEF StatementKind
  <2>4. Plain(instr)
    BY DEF Instruction, Plain, Terminator
  <2>5. blocks' = blocks \/ blocks' = Emit(blocks, cur, instr)
    BY <2>1 DEF Store
  <2> HIDE DEF instr
  <2>6. Len(blocks') = Len(blocks)
    BY <2>5, EmitShape, StackFrames DEF Emitted
  <2>7. CoverStep(Len(ctrl) - 1)
    BY <1>1, <2>2, <2>6, QuietCover, StatementCaller
    DEF FreeKind, StatementKind
  <2>8. CASE blocks' = blocks
    BY <2>2, <2>3, <2>7, <2>8, SameValues, SilentStep, StillLowering
  <2>9. CASE blocks' = Emit(blocks, cur, instr)
    BY <2>2, <2>3, <2>4, <2>7, <2>9, SameValues, EmitStep, StillLowering
  <2> QED
    BY <2>5, <2>8, <2>9
<1> QED
  BY <1>2, <1>3

\* A return ends the current block and goes nowhere.
LEMMA EmitReturnFlow ==
  ASSUME TypeOK, TypeOK', Flow, Lowering, ~blocks[cur].terminated,
         NEW args \in Seq(Operand(Len(values))), EmitReturn(args), cur' = cur,
         UNCHANGED values, NEW k, TopStep(k),
         Len(blocks') = Len(blocks) => CoverStep(k),
         LastFrame.kind \in ListKind
  PROVE  Flow' /\ Lowering'
<1> DEFINE n     == Len(values)
           m     == Len(blocks)
           instr == Instruction("RET", NoOperand, args)
           e     == Emit(blocks, cur, instr)
<1>1. /\ n \in Nat /\ m \in Nat /\ blocks \in Seq(Block(n, m))
      /\ cur \in 1 .. Len(blocks) /\ DOMAIN blocks = 1 .. Len(blocks)
  BY StackFrames
<1>2. instr.op = "RET" /\ instr \in Instr(n, m)
  BY <1>1, NoOperandType, InstructionType DEF Instruction, Opcode
<1>3. blocks' = Terminate(e, cur)
  BY DEF EmitReturn
<1> HIDE DEF instr
<1>4. e \in Seq(Block(n, m)) /\ Emitted(blocks, e, cur, instr)
  BY <1>1, <1>2, EmitEffect
<1> HIDE DEF e
<1>5. Len(e) = Len(blocks) /\ cur \in 1 .. Len(e)
  BY <1>1, <1>4 DEF Emitted
<1>6. blocks' \in Seq(Block(n, m)) /\ Marks(e, blocks', cur)
  BY <1>1, <1>3, <1>4, <1>5, TerminateEffect
<1>7. /\ Len(blocks') = Len(blocks)
      /\ blocks'[cur].code = Append(blocks[cur].code, instr)
      /\ blocks'[cur].terminated = TRUE
      /\ \A x \in 1 .. Len(blocks) : x # cur => blocks'[x] = blocks[x]
  BY <1>1, <1>4, <1>5, <1>6 DEF Emitted, Marks
<1>8. LocalStep
  BY <1>2, <1>7, SameValues DEF LocalStep, CodeGrows
<1>9. k \in Nat /\ k <= Len(ctrl)
  BY DEF TopStep, Keeps
<1>10. CodeStep(k)
  BY <1>8, <1>9, LocalCodeStep DEF Lowering
<1>11. Ends(blocks'[cur])
  <2>1. blocks[cur].code \in Seq(Instr(n, m))
    BY <1>1, BlockFields
  <2>2. /\ Last(Append(blocks[cur].code, instr)) = instr
        /\ Append(blocks[cur].code, instr) # << >>
    BY <2>1, AppendParts
  <2> QED
    BY <1>2, <1>7, <2>2 DEF Ends, Terminator
<1>12. Marked'
  BY <1>7, <1>8, <1>11, LocalMarks DEF Lowering
<1>13. OpenForCode'
  BY TopAfter DEF OpenForCode
<1>14. Flow'
  <2>1. ~Ends(blocks[cur])
    BY <1>1 DEF Lowering, Marked
  <2>2. FlowOf(e)
    <3> HIDE DEF n, m
    <3> QED
      BY <1>1, <1>2, <1>4, <2>1, FlowEmit DEF Flow
  <2>3. DOMAIN e = 1 .. Len(e) /\ DOMAIN blocks' = 1 .. Len(blocks')
    BY <1>4, <1>6
  <2>4. FlowOf(blocks')
    BY <1>5, <1>6, <2>2, <2>3, FlowMarks
  <2> QED
    BY <2>4 DEF Flow
<1> QED
  BY <1>7, <1>10, <1>12, <1>13, <1>14, LoweringKept

LEMMA FinishReturnFlow ==
  ASSUME TypeOK, TypeOK', FlowInv, FinishReturn
  PROVE  FlowInv'
<1>1. Top.kind = "RETURN" /\ Complete /\ status = "lowering"
  BY DEF FinishReturn, Active
<1>2. CASE Top.args[1].type # fn.ret
  BY <1>2, FailFlow DEF FinishReturn, Error
<1>3. CASE Top.args[1].type = fn.ret
  <2>1. /\ EmitReturn(Top.args) /\ EndStatement(TRUE) /\ UNCHANGED values
        /\ cur' = cur /\ dropped' = dropped /\ status' = "lowering"
    BY <1>1, <1>3 DEF FinishReturn, runVars, nameVars, valueVars
  <2>2. Flow /\ Lowering /\ ~blocks[cur].terminated
    BY <1>1, InLowering DEF ListKind
  <2>3. TopStep(Len(ctrl) - 1) /\ LastFrame.kind \in ListKind
    BY <1>1, <2>1, EndTop DEF StatementKind
  <2>4. Len(blocks') = Len(blocks) => CoverStep(Len(ctrl) - 1)
    BY <1>1, <2>1, QuietCover, StatementCaller DEF FreeKind, StatementKind
  <2>5. Top.args \in Seq(Operand(Len(values)))
    BY <1>1, OperandsType DEF ExprKind
  <2> QED
    BY <2>1, <2>2, <2>3, <2>4, <2>5, EmitReturnFlow, StillLowering
<1> QED
  BY <1>2, <1>3

LEMMA ReturnNothingFlow ==
  ASSUME TypeOK, TypeOK', FlowInv, ReturnNothing
  PROVE  FlowInv'
<1>1. /\ status = "lowering" /\ Top.kind \in ListKind
      /\ ~blocks[cur].terminated
  BY DEF ReturnNothing, NextStatement, InList
<1>2. CASE fn.ret # "VOID"
  BY <1>2, FailFlow DEF ReturnNothing, Error
<1>3. CASE fn.ret = "VOID"
  <2> DEFINE l == Len(ctrl)
             g == [ctrl[l] EXCEPT !.rets = TRUE]
  <2>1. /\ EmitReturn(<< >>) /\ UNCHANGED values /\ cur' = cur
        /\ dropped' = dropped /\ status' = "lowering"
        /\ ctrl' = [ctrl EXCEPT ![l] = g]
    BY <1>1, <1>3 DEF ReturnNothing, runVars, nameVars, valueVars
  <2>2. Flow /\ Lowering
    BY <1>1, InLowering
  <2>3. /\ l \in Nat /\ l >= 1 /\ ctrl \in Seq(StackFrame) /\ ctrl[l] = Top
        /\ ctrl[l] \in Frame(Len(values), Len(blocks), Len(names))
        /\ Len(values) \in Nat /\ Len(blocks) \in Nat /\ Len(names) \in Nat
    BY StackFrames DEF StackFrame
  <2>4. g = [ctrl[l] EXCEPT !.rets = TRUE]
    OBVIOUS
  <2> HIDE DEF g
  <2>5. Alike(ctrl[l], g)
    BY <1>1, <2>3, <2>4, AlikeRets
  <2>6. Keeps(l) /\ Len(ctrl') = l /\ ctrl'[l] = g
    <3> HIDE DEF l
    <3>1. l <= Len(ctrl) /\ Len(ctrl) = l /\ \A i \in 1 .. l : ctrl[i] = ctrl[i]
      BY <2>3 DEF l
    <3> QED
      BY <2>1, <2>3, <2>5, <3>1, UpdateShape
  <2>7. TopStep(l)
    BY <1>1, <2>6, QuietTop DEF ListKind
  <2>8. LastFrame.kind \in ListKind
    BY <1>1, <2>3, <2>5, <2>6 DEF LastFrame, Alike
  <2>9. Len(blocks') = Len(blocks) => CoverStep(l)
    BY <2>1, <2>3, QuietCover
  <2>10. << >> \in Seq(Operand(Len(values)))
    OBVIOUS
  <2> HIDE DEF l
  <2> QED
    BY <1>1, <2>1, <2>2, <2>7, <2>8, <2>9, <2>10, EmitReturnFlow,
       StillLowering
<1> QED
  BY <1>2, <1>3

-----------------------------------------------------------------------------
(***************************************************************************)
(* emit_if                                                                 *)
(***************************************************************************)

LEMMA BranchIfFlow ==
  ASSUME TypeOK, TypeOK', FlowInv, BranchIf
  PROVE  FlowInv'
<1> DEFINE then == Len(blocks) + 1
           else == Len(blocks) + 2
           merge == Len(blocks) + 3
           wide  == blocks \o <<NewBlock, NewBlock, NewBlock>>
           o     == Top.args[1]
           f     == [kind |-> "THEN", rets |-> FALSE, incoming |-> bindings,
                     count |-> Len(names), else |-> else, merge |-> merge]
           k     == Len(ctrl) - 1
<1>1. /\ blocks' = CondBranch(wide, cur, o, then, else) /\ cur' = then
      /\ Replace(f) /\ UNCHANGED <<runVars, nameVars>>
      /\ Top.kind = "IFCOND" /\ Complete /\ status = "lowering"
  BY DEF BranchIf, Active
<1>2. /\ Flow /\ Lowering /\ ~blocks[cur].terminated
      /\ status' = "lowering" /\ dropped' = dropped /\ UNCHANGED values
  BY <1>1, InLowering DEF ListKind, runVars, nameVars, valueVars
<1>3. Opened(wide, merge) /\ Len(blocks) \in Nat
  <2>1. /\ blocks \in Seq(Block(Len(values), Len(blocks)))
        /\ Len(blocks) \in Nat /\ Len(values) \in Nat
    BY StackFrames
  <2>2. wide \in Seq(Block(Len(values), merge)) /\ Len(wide) = merge
    BY <2>1, NewBlocksType
  <2>3. Extends(blocks, wide)
    BY <2>1, ExtendsNew
  <2> QED
    BY <2>1, <2>2, <2>3 DEF Opened
<1>4. /\ then \in Len(blocks) + 1 .. merge /\ else \in Len(blocks) + 1 .. merge
      /\ then # else /\ merge \notin {then, else} /\ then = cur'
      /\ cur' \in Len(blocks) + 1 .. merge
      /\ merge \in Len(blocks) + 1 .. merge
      /\ \A b \in Len(blocks) + 1 .. merge : b \in {then, else, merge}
  BY <1>1, <1>3
<1>5. o \in Operand(Len(values))
  BY <1>1, OperandsType DEF ExprKind
<1>6. /\ f.kind = "THEN" /\ f.merge = merge /\ f.else = else
      /\ Top.kind \in FreeKind /\ k = Len(ctrl) - 1
  BY <1>1 DEF FreeKind
<1> HIDE DEF wide, o, f, k
<1>7. /\ Flow' /\ Departs(k) /\ Len(blocks') = merge
      /\ \A x \in Len(blocks) + 1 .. merge :
              /\ Idle(blocks'[x])
              /\ blocks'[x].pred =
                   IF x \in {then, else} THEN <<cur>> ELSE << >>
  <2> HIDE DEF then, else, merge
  <2> QED
    BY <1>1, <1>2, <1>3, <1>4, <1>5, <1>6, WideSplit
<1>8. /\ Keeps(k) /\ Len(ctrl') = k + 1 /\ ctrl'[k + 1] = f
      /\ Len(ctrl) = k + 1 /\ k \in Nat
  BY <1>1, ReplaceShape, StackFrames DEF k
<1>9. /\ blocks'[merge].pred = << >> /\ Idle(blocks'[merge])
      /\ Idle(blocks'[else]) /\ merge # cur' /\ else # cur' /\ else # merge
  BY <1>4, <1>7
<1>9a. merge > Len(blocks) /\ else > Len(blocks)
  BY <1>3
<1>10. \A b : Awaits(f, b) <=> b = merge \/ b = else
  BY <1>6 DEF Awaits
<1>11. TopStep(k)
  <2>1. FlowIn(blocks', cur', values', f)
    BY <1>6, <1>9 DEF FlowIn
  <2> HIDE DEF else, merge
  <2>2. \A b \in 1 .. Len(blocks') : Awaits(f, b) =>
          b # cur' /\ Idle(blocks'[b]) /\ b > Len(blocks)
    BY <1>9, <1>9a, <1>10
  <2>3. Top.kind \notin OperandKind \cup {"CALL"} /\ k # Len(ctrl)
    BY <1>1, <1>8 DEF OperandKind
  <2> QED
    BY <1>8, <2>1, <2>2, <2>3 DEF TopStep
<1>12. CoverStep(k)
  <2>1. \A b : ~Awaits(Top, b)
    BY <1>6, FreeFrame
  <2>2. \A b \in 1 .. Len(blocks') :
           b > Len(blocks) => b = cur' \/ Awaits(f, b)
    BY <1>3, <1>4, <1>7, <1>10
  <2> QED
    BY <1>2, <1>8, <2>1, <2>2 DEF CoverStep
<1> QED
  BY <1>2, <1>7, <1>8, <1>11, <1>12, DepartStep, StillLowering, StackFrames

\* The current block branches to a block that waits, unless it has ended.
LEMMA JoinEffect ==
  ASSUME TypeOK, TypeOK', Flow, Lowering, NEW t \in 1 .. Len(blocks),
         Awaited(t), blocks' = Join(t), UNCHANGED values
  PROVE  /\ Flow' /\ Len(blocks') = Len(blocks)
         /\ blocks'[cur].terminated /\ Ends(blocks'[cur]) /\ PhisKept(cur)
         /\ Idle(blocks'[t]) /\ t # cur
         /\ blocks'[t].pred = IF blocks[cur].terminated THEN blocks[t].pred
                              ELSE Append(blocks[t].pred, cur)
         /\ \A x \in 1 .. Len(blocks) :
              x # cur /\ x # t => blocks'[x] = blocks[x]
<1>1. /\ cur \in 1 .. Len(blocks) /\ Len(blocks) \in Nat /\ Len(values) \in Nat
      /\ blocks \in Seq(Block(Len(values), Len(blocks)))
      /\ DOMAIN blocks = 1 .. Len(blocks) /\ Len(blocks) <= Len(blocks)
  BY StackFrames
<1>2. t # cur /\ Idle(blocks[t])
  BY <1>1 DEF Lowering, Unstarted, Idle
<1>3. CASE blocks[cur].terminated
  <2>1. blocks' = blocks
    BY <1>3 DEF Join
  <2>2. Ends(blocks[cur])
    BY <1>1, <1>3 DEF Lowering, Marked
  <2>3. PhisKept(cur)
    BY <1>1, <2>1, SamePhis
  <2> QED
    BY <1>2, <1>3, <2>1, <2>2, <2>3 DEF Flow
<1>4. CASE ~blocks[cur].terminated
  <2>1. blocks' = Branch(blocks, cur, t)
    BY <1>4 DEF Join
  <2>2. /\ blocks' \in Seq(Block(Len(values), Len(blocks)))
        /\ Branched(blocks, blocks', cur, t)
    BY <1>1, <2>1, BranchEffect
  <2>3. /\ Len(blocks') = Len(blocks)
        /\ blocks'[cur].code = Append(blocks[cur].code, Jump(t))
        /\ blocks'[cur].terminated
        /\ blocks'[t].pred = Append(blocks[t].pred, cur)
        /\ \A x \in 1 .. Len(blocks) :
             x # cur /\ x # t => blocks'[x] = blocks[x]
    BY <2>2 DEF Branched
  <2>4. Idle(blocks'[t])
    BY <1>2, <2>2 DEF Branched, Idle
  <2>5. Jump(t).op = "BR"
    BY DEF Jump
  <2>6. Ends(blocks'[cur]) /\ PhisKept(cur)
    BY <2>3, <2>5, BranchEndsCode
  <2>7. Flow'
    <3>1. ~Ends(blocks[cur]) /\ blocks[t].code = << >>
      BY <1>2, <1>4, OpenCur DEF Idle
    <3> DEFINE p   == Len(values)
               m   == Len(blocks)
               new == blocks'
    <3>2. /\ p \in Nat /\ m \in Nat /\ blocks \in Seq(Block(p, m))
          /\ new \in Seq(Block(p, m)) /\ Branched(blocks, new, cur, t)
      BY <1>1, <2>2
    <3> HIDE DEF p, m, new
    <3>3. FlowOf(new)
      BY <1>1, <1>2, <3>1, <3>2, FlowBranch DEF Flow
    <3> QED
      BY <3>3 DEF Flow, new
  <2> QED
    BY <1>2, <1>4, <2>3, <2>4, <2>6, <2>7
<1> QED
  BY <1>3, <1>4

\* The end of a branch: it joins block t, and control goes on in a block that
\* the statement waited for.
LEMMA JoinDeparts ==
  ASSUME TypeOK, TypeOK', Flow, Lowering, NEW k \in Nat,
         NEW t \in 1 .. Len(blocks), Handed(k, t), blocks' = Join(t),
         UNCHANGED values, cur' \in 1 .. Len(blocks), Handed(k, cur')
  PROVE  /\ Departs(k) /\ Flow' /\ Len(blocks') = Len(blocks)
         /\ \A x \in 1 .. Len(blocks) : Handed(k, x) => Idle(blocks'[x])
         /\ blocks'[t].pred = IF blocks[cur].terminated THEN blocks[t].pred
                              ELSE Append(blocks[t].pred, cur)
<1>1. Awaited(t)
  BY HandedApart
<1>2. /\ Flow' /\ Len(blocks') = Len(blocks)
      /\ blocks'[cur].terminated /\ Ends(blocks'[cur]) /\ PhisKept(cur)
      /\ Idle(blocks'[t])
      /\ blocks'[t].pred = IF blocks[cur].terminated THEN blocks[t].pred
                           ELSE Append(blocks[t].pred, cur)
      /\ \A x \in 1 .. Len(blocks) :
           x # cur /\ x # t => blocks'[x] = blocks[x]
  BY <1>1, JoinEffect
<1>3. ASSUME NEW x \in 1 .. Len(blocks), Handed(k, x)
      PROVE  Idle(blocks'[x])
  <2>1. Idle(blocks[x]) /\ x # cur
    BY <1>3, HandedApart
  <2> QED
    BY <1>2, <2>1
<1>4. ASSUME NEW x \in 1 .. Len(blocks), x # cur, ~Handed(k, x)
      PROVE  blocks'[x] = blocks[x] /\ PhisKept(x)
  <2>1. blocks'[x] = blocks[x]
    BY <1>2, <1>4
  <2> QED
    BY <2>1, SamePhis
<1>5. ~blocks'[cur'].terminated /\ ~Ends(blocks'[cur'])
  BY <1>3 DEF Idle, Ends
<1>6. Len(blocks) \in Nat
  BY StackFrames
<1>7. \A x \in 1 .. Len(blocks') : ~(x > Len(blocks))
  BY <1>2, <1>6
<1> QED
  BY <1>2, <1>3, <1>4, <1>5, <1>6, <1>7, SameValues DEF Departs

LEMMA EndThenFlow ==
  ASSUME TypeOK, TypeOK', FlowInv, NEW hasElse \in BOOLEAN, EndThen(hasElse)
  PROVE  FlowInv'
<1> DEFINE g == [bound |-> bindings, end |-> cur,
                 reaches |-> ~blocks[cur].terminated, rets |-> Top.rets]
           f == [kind |-> IF hasElse THEN "ELSE" ELSE "NOELSE",
                 rets |-> FALSE, incoming |-> Top.incoming,
                 count |-> Top.count, merge |-> Top.merge, then |-> g]
           k == Len(ctrl) - 1
           t == Top.merge
<1>1. /\ blocks' = Join(t) /\ cur' = Top.else /\ Replace(f)
      /\ UNCHANGED <<runVars, valueVars>>
      /\ Top.kind = "THEN" /\ status = "lowering"
  BY DEF EndThen, Active
<1>2. /\ Flow /\ Lowering
      /\ status' = "lowering" /\ dropped' = dropped /\ UNCHANGED values
  BY <1>1, InLowering DEF runVars, valueVars
<1>3. /\ f.kind \in {"ELSE", "NOELSE"} /\ f.merge = t /\ f.then = g
      /\ g.end = cur /\ g.reaches = ~blocks[cur].terminated
  OBVIOUS
<1> HIDE DEF f, g
<1>4. /\ Keeps(k) /\ Len(ctrl') = k + 1 /\ ctrl'[k + 1] = f
      /\ Len(ctrl) = k + 1 /\ k \in Nat
  BY <1>1, ReplaceShape, StackFrames
<1>5. /\ Len(ctrl) \in 1 .. Len(ctrl) /\ Len(ctrl) \in DOMAIN ctrl
      /\ Top = ctrl[Len(ctrl)]
  BY StackFrames
<1>6. t \in 1 .. Len(blocks) /\ cur' \in 1 .. Len(blocks)
  BY <1>1, <1>5, FrameBlocks
<1>7. cur' # t /\ blocks[t].pred = << >>
  BY <1>1, <1>2, <1>5 DEF Lowering, FrameFlow, FlowIn
<1>8. \A b : Handed(k, b) <=> b = cur' \/ b = t
  BY <1>1, <1>4 DEF Handed, Awaits
<1> HIDE DEF k, t
<1>9. /\ Departs(k) /\ Flow' /\ Len(blocks') = Len(blocks)
      /\ Idle(blocks'[t])
      /\ blocks'[t].pred = IF blocks[cur].terminated THEN blocks[t].pred
                           ELSE Append(blocks[t].pred, cur)
  BY <1>1, <1>2, <1>4, <1>6, <1>8, JoinDeparts
<1>10. blocks'[t].pred = Arrived(g)
  <2>1. Append(<< >>, cur) = <<cur>>
    OBVIOUS
  <2> QED
    BY <1>3, <1>7, <1>9, <2>1 DEF Arrived
<1>11. \A b : Awaits(f, b) <=> b = t
  BY <1>3 DEF Awaits
<1>12. TopStep(k)
  <2>1. FlowIn(blocks', cur', values', f)
    BY <1>3, <1>10 DEF FlowIn
  <2>2. Top.kind \notin OperandKind \cup {"CALL"} /\ k # Len(ctrl)
    BY <1>1, <1>4 DEF OperandKind
  <2>3. \A b \in 1 .. Len(blocks') : Awaits(f, b) =>
          b # cur' /\ Idle(blocks'[b]) /\ Len(ctrl) = k + 1 /\ Awaits(Top, b)
    BY <1>7, <1>8, <1>9, <1>11 DEF Handed
  <2> QED
    BY <1>4, <2>1, <2>2, <2>3 DEF TopStep
<1>13. CoverStep(k)
  <2>1. \A b \in 1 .. Len(blocks') : ~(b > Len(blocks))
    BY <1>9, StackFrames
  <2> QED
    BY <1>2, <1>4, <1>8, <1>11, <2>1 DEF CoverStep, Handed
<1> QED
  BY <1>2, <1>4, <1>9, <1>12, <1>13, DepartStep, StillLowering

LEMMA EndElseFlow ==
  ASSUME TypeOK, TypeOK', FlowInv, EndElse
  PROVE  FlowInv'
<1> DEFINE g == [bound |-> bindings, end |-> cur,
                 reaches |-> ~blocks[cur].terminated, rets |-> Top.rets]
           f == [kind |-> "MERGE", k |-> 1, count |-> Top.count,
                 incoming |-> Top.incoming, then |-> Top.then, else |-> g]
           k == Len(ctrl) - 1
           t == Top.merge
<1>1. /\ blocks' = Join(t) /\ cur' = t /\ Replace(f)
      /\ UNCHANGED <<runVars, valueVars>>
      /\ Top.kind \in {"ELSE", "NOELSE"} /\ status = "lowering"
  BY DEF EndElse, Active
<1>2. /\ Flow /\ Lowering
      /\ status' = "lowering" /\ dropped' = dropped /\ UNCHANGED values
  BY <1>1, InLowering DEF runVars, valueVars
<1>3. /\ f.kind = "MERGE" /\ f.then = Top.then /\ f.else = g
      /\ g.end = cur /\ g.reaches = ~blocks[cur].terminated
  OBVIOUS
<1> HIDE DEF f, g
<1>4. /\ Keeps(k) /\ Len(ctrl') = k + 1 /\ ctrl'[k + 1] = f
      /\ Len(ctrl) = k + 1 /\ k \in Nat
  BY <1>1, ReplaceShape, StackFrames
<1>5. /\ Len(ctrl) \in 1 .. Len(ctrl) /\ Len(ctrl) \in DOMAIN ctrl
      /\ Top = ctrl[Len(ctrl)]
  BY StackFrames
<1>6. t \in 1 .. Len(blocks)
  BY <1>1, <1>5, FrameBlocks
<1>7. blocks[t].pred = Arrived(Top.then)
  BY <1>1, <1>2, <1>5 DEF Lowering, FrameFlow, FlowIn
<1>8. \A b : Handed(k, b) <=> b = t
  BY <1>1, <1>4 DEF Handed, Awaits
<1> HIDE DEF k, t
<1>9. /\ Departs(k) /\ Flow' /\ Len(blocks') = Len(blocks)
      /\ Idle(blocks'[t])
      /\ blocks'[t].pred = IF blocks[cur].terminated THEN blocks[t].pred
                           ELSE Append(blocks[t].pred, cur)
  BY <1>1, <1>2, <1>4, <1>6, <1>8, JoinDeparts
<1>10. blocks'[t].pred = Arrived(Top.then) \o Arrived(g)
  <2> DEFINE s == Arrived(Top.then)
  <2>1. s \in Seq(1 .. Len(blocks))
    <3>1. blocks[t].pred \in Seq(1 .. Len(blocks))
      BY <1>6, StackFrames, BlockFields
    <3> QED
      BY <1>7, <3>1
  <2> HIDE DEF s
  <2>2. s \o << >> = s /\ s \o <<cur>> = Append(s, cur)
    BY <2>1
  <2>3. Arrived(g) = IF blocks[cur].terminated THEN << >> ELSE <<cur>>
    BY <1>3 DEF Arrived
  <2> QED
    BY <1>7, <1>9, <2>2, <2>3 DEF s
<1>11. \A b : ~Awaits(f, b)
  BY <1>3 DEF Awaits
<1>12. TopStep(k)
  <2>1. FlowIn(blocks', cur', values', f)
    <3>1. blocks'[cur'].code = << >>
      BY <1>1, <1>9 DEF Idle
    <3>2. OnlyPhis(blocks'[cur'])
      BY <3>1 DEF OnlyPhis
    <3>3. blocks'[cur'].pred = Arrived(f.then) \o Arrived(f.else)
      BY <1>1, <1>3, <1>10
    <3> QED
      BY <1>3, <3>2, <3>3 DEF FlowIn
  <2>2. Top.kind \notin OperandKind \cup {"CALL"} /\ k # Len(ctrl)
    BY <1>1, <1>4 DEF OperandKind
  <2> QED
    BY <1>4, <1>11, <2>1, <2>2 DEF TopStep
<1>13. CoverStep(k)
  <2>1. \A b \in 1 .. Len(blocks') : ~(b > Len(blocks))
    BY <1>9, StackFrames
  <2> QED
    BY <1>1, <1>2, <1>4, <1>8, <2>1 DEF CoverStep, Handed
<1> QED
  BY <1>2, <1>4, <1>9, <1>12, <1>13, DepartStep, StillLowering

\* A phi is added to the current block, under the loop over names of an if or
\* a loop.
LEMMA PhiStep ==
  ASSUME TypeOK, TypeOK', Flow, Lowering, NEW instr, instr.op = "PHI",
         blocks' = Emit(blocks, cur, instr), cur' = cur, ValuesKept,
         Top.kind \in {"MERGE", "HEADER"}, OnlyPhis(blocks[cur]),
         instr.blks = blocks[cur].pred, Len(instr.args) = Len(instr.blks)
  PROVE  /\ Flow' /\ CodeStep(Len(ctrl) - 1) /\ Marked'
         /\ ~blocks'[cur].terminated
         /\ OnlyPhis(blocks'[cur]) /\ blocks'[cur].pred = blocks[cur].pred
         /\ blocks'[cur].code = Append(blocks[cur].code, instr)
         /\ Len(blocks') = Len(blocks)
<1>1. /\ cur \in 1 .. Len(blocks) /\ Len(blocks) \in Nat /\ Len(values) \in Nat
      /\ blocks \in Seq(Block(Len(values), Len(blocks)))
      /\ DOMAIN blocks = 1 .. Len(blocks) /\ DOMAIN ctrl = 1 .. Len(ctrl)
      /\ Len(ctrl) \in Nat /\ Len(ctrl) >= 1 /\ Top = ctrl[Len(ctrl)]
  BY StackFrames
<1>2. Emitted(blocks, blocks', cur, instr)
  BY <1>1, EmitShape
<1>3. /\ Len(blocks') = Len(blocks)
      /\ \A x \in 1 .. Len(blocks) : x # cur => blocks'[x] = blocks[x]
      /\ blocks'[cur].code = Append(blocks[cur].code, instr)
      /\ blocks'[cur].pred = blocks[cur].pred
      /\ blocks'[cur].terminated = blocks[cur].terminated
  BY <1>2 DEF Emitted
<1>4. ~blocks[cur].terminated
  BY DEF Lowering, OpenForCode, ListKind
<1>5. Flow' /\ OnlyPhis(blocks'[cur])
  <2> DEFINE p   == Len(values')
             m   == Len(blocks)
             new == blocks'
  <2>1. /\ p \in Nat /\ m \in Nat /\ blocks \in Seq(Block(p, m))
        /\ new \in Seq(Block(p, m)) /\ Emitted(blocks, new, cur, instr)
    <3>1. p \in Nat /\ blocks' \in Seq(Block(p, m))
      BY <1>3 DEF TypeOK, IRType, NamesType, Values
    <3>2. Seq(Block(Len(values), m)) \subseteq Seq(Block(p, m))
      BY <1>1, <3>1, BlockGrows, SeqGrows DEF ValuesKept
    <3> QED
      BY <1>1, <1>2, <3>1, <3>2
  <2> HIDE DEF p, m, new
  <2>2. FlowOf(new) /\ OnlyPhis(new[cur])
    BY <1>1, <2>1, FlowPhi DEF Flow
  <2> QED
    BY <2>2 DEF Flow, new
<1>6. Marked'
  <2>1. ~Ends(blocks'[cur])
    <3>1. blocks[cur].code \in Seq(Instr(Len(values), Len(blocks)))
      BY <1>1, BlockFields
    <3>2. Last(Append(blocks[cur].code, instr)) = instr
      BY <3>1, AppendParts
    <3> QED
      BY <1>3, <3>2 DEF Ends, Terminator
  <2>2. DOMAIN blocks' = 1 .. Len(blocks)
    BY <1>3 DEF TypeOK, IRType
  <2> QED
    BY <1>1, <1>3, <1>4, <2>1, <2>2 DEF Marked, Lowering
<1>7. ASSUME NEW i \in 1 .. Len(ctrl) - 1
      PROVE  /\ \A b \in 1 .. Len(blocks) : Awaits(ctrl[i], b) => b # cur
             /\ ctrl[i].kind \in {"WHILECOND", "LOOP"} =>
                  /\ ctrl[i].header # cur /\ ctrl[i].header \in 1 .. Len(blocks)
  <2>1. i \in DOMAIN ctrl /\ i \in 1 .. Len(ctrl) /\ i < Len(ctrl)
        /\ Len(ctrl) \in DOMAIN ctrl
    BY <1>1
  <2>2. \A b \in 1 .. Len(blocks) : Awaits(ctrl[i], b) => b # cur
    BY <1>1, <2>1 DEF Lowering, Unstarted, Awaited
  <2>3. ctrl[i].kind \notin ExprKind
    BY <1>1, <2>1 DEF Lowering, ExpressionsNest, OperandKind
  <2>4. ctrl[i].kind = "LOOP" => blocks[ctrl[i].header].terminated
    BY <2>1 DEF Lowering, FrameFlow, FlowIn
  <2> QED
    BY <1>4, <2>1, <2>2, <2>3, <2>4, HeaderIsBlock DEF ExprKind
<1>8. CodeStep(Len(ctrl) - 1)
  <2> DEFINE k == Len(ctrl) - 1
  <2>1. \A i \in 1 .. k : \A b \in 1 .. Len(blocks) :
          Awaits(ctrl[i], b) => b # cur' /\ blocks'[b] = blocks[b]
    BY <1>3, <1>7
  <2>2. \A i \in 1 .. k :
          ctrl[i].kind \in {"WHILECOND", "LOOP"} => PhisKept(ctrl[i].header)
    BY <1>3, <1>7, SamePhis
  <2>3. \A b \in 1 .. Len(blocks) :
          blocks[b].terminated => blocks'[b].terminated
    BY <1>3
  <2> HIDE DEF k
  <2> QED
    BY <1>1, <1>3, <2>1, <2>2, <2>3 DEF CodeStep, ValuesKept, k
<1> QED
  BY <1>3, <1>4, <1>5, <1>6, <1>8

\* The loops over names go on.
LEMMA NextNameTop ==
  ASSUME TypeOK, Top.kind \in {"MERGE", "HEADER"}, NextName
  PROVE  /\ Keeps(Len(ctrl) - 1) /\ Len(ctrl') = Len(ctrl)
         /\ LET f == ctrl'[Len(ctrl)]
            IN  /\ f.kind = Top.kind /\ f.incoming = Top.incoming
                /\ Top.kind = "MERGE" => f.then = Top.then /\ f.else = Top.else
                /\ Top.kind = "HEADER" =>
                     f.header = Top.header /\ f.pre = Top.pre
<1> DEFINE f == [Top EXCEPT !.k = @ + 1]
<1>1. Top \in Frame(Len(values), Len(blocks), Len(names))
      /\ Len(values) \in Nat /\ Len(blocks) \in Nat /\ Len(names) \in Nat
  BY StackFrames DEF StackFrame
<1>2. Top \in MergeFrame(Len(values), Len(blocks), Len(names))
              \cup HeaderFrame(Len(values), Len(blocks), Len(names))
  BY <1>1, FrameByKind
<1>3. /\ f.kind = Top.kind /\ f.incoming = Top.incoming
      /\ Top.kind = "MERGE" => f.then = Top.then /\ f.else = Top.else
      /\ Top.kind = "HEADER" => f.header = Top.header /\ f.pre = Top.pre
  BY <1>2 DEF MergeFrame, HeaderFrame
<1>4. Replace(f)
  BY DEF NextName
<1> HIDE DEF f
<1>5. /\ Keeps(Len(ctrl) - 1) /\ Len(ctrl') = Len(ctrl)
      /\ ctrl'[Len(ctrl)] = f
  BY <1>4, ReplaceShape
<1> QED
  BY <1>3, <1>5

LEMMA TwoParts ==
  ASSUME NEW a, NEW b
  PROVE  <<a>> \o <<b>> = <<a, b>>
<1> DEFINE s == <<a>> \o <<b>>
<1>1. <<a>> \in Seq({a, b}) /\ <<b>> \in Seq({a, b})
  OBVIOUS
<1>2. s \in Seq({a, b}) /\ Len(s) = 2 /\ s[1] = a /\ s[2] = b
  BY <1>1
<1> HIDE DEF s
<1>3. s = <<a, b>>
  BY <1>2
<1> QED
  BY <1>3 DEF s

LEMMA MergeNameFlow ==
  ASSUME TypeOK, TypeOK', FlowInv, MergeName
  PROVE  FlowInv'
<1> DEFINE n     == names[Top.k]
           bound == /\ Top.incoming[n] # Invalid
                    /\ Top.then.bound[n] # Invalid
                    /\ Top.else.bound[n] # Invalid
           both  == Top.then.reaches /\ Top.else.reaches
           type  == values[Top.incoming[n]].type
           instr == Phi(ValueOp(NextId, type),
                        <<ValueOf(Top.then.bound[n]),
                          ValueOf(Top.else.bound[n])>>,
                        <<Top.then.end, Top.else.end>>)
           new   == bound /\ both /\ Top.then.bound[n] # Top.else.bound[n]
           k     == Len(ctrl) - 1
           f     == ctrl'[k + 1]
<1>1. /\ Top.kind = "MERGE" /\ status = "lowering" /\ NextName
      /\ UNCHANGED <<runVars, cur>>
  BY DEF MergeName, Active
<1>2. /\ Flow /\ Lowering /\ ~blocks[cur].terminated /\ cur' = cur
      /\ status' = "lowering" /\ dropped' = dropped
  BY <1>1, InLowering DEF runVars, ListKind
<1>3. /\ new => /\ NewValue(n, type) /\ blocks' = Emit(blocks, cur, instr)
                /\ both
      /\ ~new => UNCHANGED <<values, blocks>>
  BY DEF MergeName, valueVars
<1>4. /\ Keeps(k) /\ Len(ctrl') = k + 1 /\ Len(ctrl) = k + 1 /\ k \in Nat
      /\ f.kind = "MERGE" /\ f.then = Top.then /\ f.else = Top.else
  BY <1>1, NextNameTop, StackFrames
<1>5. /\ blocks[cur].pred = Arrived(Top.then) \o Arrived(Top.else)
      /\ OnlyPhis(blocks[cur])
  <2>1. Len(ctrl) \in DOMAIN ctrl /\ Top = ctrl[Len(ctrl)]
    BY StackFrames
  <2> QED
    BY <1>1, <1>2, <2>1 DEF Lowering, FrameFlow, FlowIn
<1>6. /\ instr.op = "PHI" /\ instr.blks = <<Top.then.end, Top.else.end>>
      /\ Len(instr.args) = 2
  BY DEF Phi
<1> HIDE DEF new, n, type, instr, f
<1>7. Flow' /\ CodeStep(k) /\ Marked' /\ ~blocks'[cur].terminated
      /\ OnlyPhis(blocks'[cur]) /\ blocks'[cur].pred = blocks[cur].pred
      /\ Len(blocks') = Len(blocks)
  <2>1. CASE new
    <3>1. both /\ ValuesKept
      BY <1>3, <2>1, NewValueKeeps
    <3>2. blocks[cur].pred = <<Top.then.end, Top.else.end>>
      <4>1. /\ Arrived(Top.then) = <<Top.then.end>>
            /\ Arrived(Top.else) = <<Top.else.end>>
        BY <3>1 DEF Arrived, both
      <4>2. blocks[cur].pred = <<Top.then.end>> \o <<Top.else.end>>
        BY <1>5, <4>1
      <4> QED
        BY <4>2, TwoParts
    <3>3. instr.blks = blocks[cur].pred /\ Len(instr.args) = Len(instr.blks)
      BY <1>6, <3>2
    <3> QED
      BY <1>1, <1>2, <1>3, <1>5, <1>6, <2>1, <3>1, <3>3, PhiStep
  <2>2. CASE ~new
    <3>1. blocks' = blocks /\ ValuesKept
      BY <1>3, <2>2, SameValues
    <3>2. LocalStep
      BY <1>2, <3>1, StackFrames DEF LocalStep, CodeGrows
    <3>3. CodeStep(k)
      BY <1>2, <1>4, <3>2, LocalCodeStep, StackFrames DEF Lowering
    <3> QED
      BY <1>2, <1>5, <3>1, <3>3 DEF Flow, Marked, Lowering
  <2> QED
    BY <2>1, <2>2
<1>8. \A b : ~Awaits(f, b) /\ ~Awaits(Top, b)
  BY <1>1, <1>4 DEF Awaits
<1>9. TopStep(k)
  <2>1. FlowIn(blocks', cur', values', f)
    BY <1>2, <1>4, <1>5, <1>7 DEF FlowIn
  <2>2. Top.kind \notin OperandKind \cup {"CALL"} /\ k # Len(ctrl)
    BY <1>1, <1>4 DEF OperandKind
  <2> QED
    BY <1>4, <1>8, <2>1, <2>2 DEF TopStep, f
<1>10. CoverStep(k)
  BY <1>1, <1>2, <1>4, <1>7, QuietCover
<1>11. OpenForCode'
  BY <1>2, <1>7 DEF OpenForCode
<1> QED
  BY <1>2, <1>7, <1>9, <1>10, <1>11, LoweringKept, StillLowering DEF Lowering

-----------------------------------------------------------------------------
(***************************************************************************)
(* emit_while                                                              *)
(***************************************************************************)

LEMMA BeginWhileFlow ==
  ASSUME TypeOK, TypeOK', FlowInv, BeginWhile
  PROVE  FlowInv'
<1> DEFINE q    == Len(blocks) + 3
           h    == Len(blocks) + 1
           wide == blocks \o <<NewBlock, NewBlock, NewBlock>>
           f == [kind |-> "HEADER", k |-> 1, count |-> Len(names),
                 incoming |-> bindings, pre |-> cur, header |-> h]
           k == Len(ctrl)
<1>1. /\ blocks' = Branch(wide, cur, h) /\ cur' = h /\ Push(f)
      /\ UNCHANGED <<runVars, nameVars>>
      /\ Top.kind \in ListKind /\ ~blocks[cur].terminated
      /\ status = "lowering"
  BY DEF BeginWhile, StartStatement, NextStatement, InList
<1>2. /\ Flow /\ Lowering
      /\ status' = "lowering" /\ dropped' = dropped /\ UNCHANGED values
  BY <1>1, InLowering DEF runVars, nameVars, valueVars
<1>3. /\ Opened(wide, q) /\ Len(blocks) \in Nat /\ Len(values) \in Nat
      /\ blocks \in Seq(Block(Len(values), Len(blocks)))
      /\ cur \in 1 .. Len(blocks) /\ DOMAIN blocks = 1 .. Len(blocks)
  <2>1. /\ blocks \in Seq(Block(Len(values), Len(blocks)))
        /\ Len(blocks) \in Nat /\ Len(values) \in Nat
        /\ cur \in 1 .. Len(blocks) /\ DOMAIN blocks = 1 .. Len(blocks)
    BY StackFrames
  <2>2. wide \in Seq(Block(Len(values), q)) /\ Len(wide) = q
    BY <2>1, NewBlocksType
  <2>3. Extends(blocks, wide)
    BY <2>1, ExtendsNew
  <2> QED
    BY <2>1, <2>2, <2>3 DEF Opened
<1>4. /\ f.kind = "HEADER" /\ f.header = h /\ f.pre = cur
      /\ h \in Len(blocks) + 1 .. q /\ h \in 1 .. q /\ cur # h
      /\ cur \in 1 .. q
  BY <1>3
<1> HIDE DEF wide, f
<1>5. /\ wide \in Seq(Block(Len(values), q)) /\ Len(wide) = q /\ q \in Nat
      /\ \A x \in 1 .. Len(blocks) : wide[x] = blocks[x]
      /\ \A x \in Len(blocks) + 1 .. q : wide[x] = NewBlock
      /\ cur \in 1 .. Len(wide) /\ h \in 1 .. Len(wide) /\ Len(wide) <= q
  BY <1>3, <1>4 DEF Opened, Extends
<1>6. blocks' \in Seq(Block(Len(values), q)) /\ Branched(wide, blocks', cur, h)
  <2> DEFINE p == Len(values)
  <2>1. /\ p \in Nat /\ q \in Nat /\ wide \in Seq(Block(p, q))
        /\ cur \in 1 .. Len(wide) /\ h \in 1 .. Len(wide) /\ Len(wide) <= q
        /\ blocks' = Branch(wide, cur, h)
    BY <1>1, <1>3, <1>5
  <2> HIDE DEF p, q, h
  <2>2. blocks' \in Seq(Block(p, q)) /\ Branched(wide, blocks', cur, h)
    BY <2>1, BranchEffect
  <2> QED
    BY <2>2 DEF p
<1>7. Len(blocks') = q
  BY <1>5, <1>6 DEF Branched
<1>8. /\ NewBlock.code = << >> /\ NewBlock.succ = << >>
      /\ NewBlock.pred = << >> /\ NewBlock.terminated = FALSE
  BY DEF NewBlock
<1>9. Flow'
  <2>1. FlowOf(wide)
    <3> HIDE DEF q
    <3> QED
      BY <1>2, <1>3, <1>5, FlowNew DEF Flow, Opened
  <2>2. ~Ends(wide[cur]) /\ wide[h].code = << >>
    BY <1>1, <1>2, <1>3, <1>4, <1>5, <1>8, OpenCur
  <2> DEFINE p   == Len(values)
             new == blocks'
  <2>3. /\ p \in Nat /\ wide \in Seq(Block(p, q)) /\ new \in Seq(Block(p, q))
        /\ Branched(wide, new, cur, h)
    BY <1>3, <1>5, <1>6
  <2> HIDE DEF p, q, h, new
  <2>4. FlowOf(new)
    BY <1>4, <1>5, <2>1, <2>2, <2>3, FlowBranch
  <2> QED
    BY <2>4 DEF Flow, new
<1>10. ASSUME NEW x \in Len(blocks) + 1 .. q
       PROVE  Idle(blocks'[x])
  <2>1. x \in 1 .. q /\ x # cur /\ wide[x] = NewBlock
    BY <1>3, <1>5
  <2> QED
    BY <1>5, <1>6, <1>8, <2>1 DEF Branched, Idle
<1>11. blocks'[h].pred = <<cur>>
  <2>1. blocks'[h].pred = Append(NewBlock.pred, cur)
    BY <1>4, <1>5, <1>6 DEF Branched
  <2>2. Append(<< >>, cur) = <<cur>>
    OBVIOUS
  <2> QED
    BY <1>8, <2>1, <2>2
<1>12. /\ Keeps(k) /\ Len(ctrl') = k + 1 /\ ctrl'[k + 1] = f
       /\ k \in Nat /\ Len(ctrl) # k + 1
  <2>1. Len(ctrl) \in Nat
    BY StackFrames
  <2>2. Keeps(k) /\ Len(ctrl') = k + 1 /\ ctrl'[k + 1] = f
    BY <1>1, PushShape
  <2> QED
    BY <2>1, <2>2
<1> HIDE DEF k
<1>13. Departs(k)
  <2>1. /\ blocks'[cur].code = Append(blocks[cur].code, Jump(h))
        /\ blocks'[cur].terminated
    BY <1>3, <1>5, <1>6 DEF Branched
  <2>2. Jump(h).op = "BR"
    BY DEF Jump
  <2>3. Ends(blocks'[cur]) /\ PhisKept(cur)
    BY <2>1, <2>2, BranchEndsCode
  <2>4. ASSUME NEW x \in 1 .. Len(blocks), x # cur
        PROVE  blocks'[x] = blocks[x] /\ PhisKept(x)
    <3>1. blocks'[x] = blocks[x]
      BY <1>3, <1>4, <1>5, <1>6, <2>4 DEF Branched
    <3> QED
      BY <3>1, SamePhis
  <2>5. \A x : ~Handed(k, x)
    BY <1>12 DEF Handed
  <2>6. \A x \in 1 .. Len(blocks') : x > Len(blocks) => Idle(blocks'[x])
    BY <1>3, <1>7, <1>10
  <2>7. cur' \in 1 .. Len(blocks') /\ cur' > Len(blocks)
        /\ Len(blocks) <= Len(blocks')
    BY <1>1, <1>3, <1>7
  <2>8. ~Ends(blocks'[cur']) /\ ~blocks'[cur'].terminated
    BY <2>6, <2>7 DEF Idle, Ends
  <2> QED
    BY <1>2, <2>1, <2>3, <2>4, <2>5, <2>6, <2>7, <2>8, SameValues
    DEF Departs
<1>14. \A b : Awaits(f, b) <=> b = h + 1 \/ b = h + 2
  BY <1>4 DEF Awaits
<1>15. TopStep(k)
  <2>1. blocks'[h].code = << >>
    BY <1>4, <1>10 DEF Idle
  <2>2. FlowIn(blocks', cur', values', f)
    <3>1. OnlyPhis(blocks'[h]) /\ CarriedIn(blocks', values', f)
      BY <1>4, <2>1 DEF OnlyPhis, CarriedIn
    <3> QED
      BY <1>1, <1>4, <1>11, <3>1 DEF FlowIn
  <2>3. \A b \in 1 .. Len(blocks') : Awaits(f, b) =>
          b # cur' /\ Idle(blocks'[b]) /\ b > Len(blocks)
    BY <1>1, <1>3, <1>7, <1>10, <1>14
  <2>4. /\ Top.kind \notin OperandKind \cup {"CALL"} /\ Top.kind \notin ExprKind
        /\ Top.kind \notin {"MERGE", "HEADER"} /\ Len(ctrl) = k
    BY <1>1 DEF OperandKind, ListKind, ExprKind, k
  <2> QED
    BY <1>12, <2>2, <2>3, <2>4 DEF TopStep
<1>16. CoverStep(k)
  <2>1. \A b \in 1 .. Len(blocks') :
           b > Len(blocks) => b = cur' \/ Awaits(f, b)
    BY <1>1, <1>3, <1>7, <1>14
  <2> QED
    BY <1>2, <1>12, <2>1 DEF CoverStep
<1>17. k <= Len(ctrl)
  BY <1>12 DEF k
<1> QED
  BY <1>2, <1>9, <1>12, <1>13, <1>15, <1>16, <1>17, DepartStep, StillLowering

LEMMA HeaderNameFlow ==
  ASSUME TypeOK, TypeOK', FlowInv, HeaderName
  PROVE  FlowInv'
<1> DEFINE n     == names[Top.k]
           type  == values[Top.incoming[n]].type
           instr == Phi(ValueOp(NextId, type), <<ValueOf(Top.incoming[n])>>,
                        <<Top.pre>>)
           new   == Top.incoming[n] # Invalid
           k     == Len(ctrl) - 1
           f     == ctrl'[k + 1]
<1>1. /\ Top.kind = "HEADER" /\ status = "lowering" /\ NextName
      /\ UNCHANGED <<runVars, cur>>
  BY DEF HeaderName, Active
<1>2. /\ Flow /\ Lowering /\ ~blocks[cur].terminated /\ cur' = cur
      /\ status' = "lowering" /\ dropped' = dropped
  BY <1>1, InLowering DEF runVars, ListKind
<1>3. /\ new => /\ NewValue(n, type) /\ blocks' = Emit(blocks, cur, instr)
                /\ Top.incoming[n] # Invalid
      /\ ~new => UNCHANGED <<values, blocks>>
  BY DEF HeaderName, valueVars, nameVars
<1>4. /\ Keeps(k) /\ Len(ctrl') = k + 1 /\ Len(ctrl) = k + 1 /\ k \in Nat
      /\ f.kind = "HEADER" /\ f.header = Top.header /\ f.pre = Top.pre
      /\ f.incoming = Top.incoming
  BY <1>1, NextNameTop, StackFrames
<1>5. /\ cur = Top.header /\ blocks[cur].pred = <<Top.pre>>
      /\ OnlyPhis(blocks[cur]) /\ CarriedIn(blocks, values, Top)
      /\ Len(ctrl) \in 1 .. Len(ctrl) /\ Top = ctrl[Len(ctrl)]
  <2>1. Len(ctrl) \in DOMAIN ctrl /\ Top = ctrl[Len(ctrl)]
        /\ Len(ctrl) \in 1 .. Len(ctrl)
    BY StackFrames
  <2> QED
    BY <1>1, <1>2, <2>1 DEF Lowering, FrameFlow, FlowIn
<1>6. /\ instr.op = "PHI" /\ instr.blks = <<Top.pre>>
      /\ Len(instr.args) = 1 /\ instr.dest.id = NextId
      /\ instr.dest.type = values[Top.incoming[n]].type
  BY DEF Phi, ValueOp
<1>7. Top.incoming \in Snapshot(Len(values)) /\ n \in AllName
  <2>1. /\ Top \in Frame(Len(values), Len(blocks), Len(names))
        /\ Len(names) \in Nat /\ Len(values) \in Nat /\ Len(blocks) \in Nat
    BY StackFrames DEF StackFrame
  <2>2. Top \in HeaderFrame(Len(values), Len(blocks), Len(names))
    BY <1>1, <2>1, FrameByKind
  <2>3. /\ Top.incoming \in Snapshot(Len(values))
        /\ Top.k \in Nat \ {0} /\ Top.count \in 0 .. Len(names)
    BY <2>2 DEF HeaderFrame
  <2>4. Top.k \in 1 .. Len(names)
    BY <2>1, <2>3 DEF HeaderName
  <2> QED
    BY <2>3, <2>4 DEF TypeOK, NamesType
<1> HIDE DEF new, n, type, instr, f
<1>8. /\ Flow' /\ CodeStep(k) /\ Marked' /\ ~blocks'[cur].terminated
      /\ OnlyPhis(blocks'[cur]) /\ blocks'[cur].pred = blocks[cur].pred
      /\ Len(blocks') = Len(blocks) /\ CarriedIn(blocks', values', f)
  <2>1. CASE new
    <3>1. /\ ValuesKept /\ Top.incoming[n] # Invalid
          /\ values'[NextId].name = n
      BY <1>3, <2>1, NewValueKeeps
    <3>2. instr.blks = blocks[cur].pred /\ Len(instr.args) = Len(instr.blks)
      BY <1>5, <1>6
    <3>3. /\ Flow' /\ CodeStep(k) /\ Marked' /\ ~blocks'[cur].terminated
          /\ OnlyPhis(blocks'[cur]) /\ blocks'[cur].pred = blocks[cur].pred
          /\ Len(blocks') = Len(blocks)
          /\ blocks'[cur].code = Append(blocks[cur].code, instr)
      BY <1>1, <1>2, <1>3, <1>5, <1>6, <2>1, <3>1, <3>2, PhiStep
    <3>4. CarriedIn(blocks', values', f)
      <4> DEFINE code == blocks[cur].code
                 c    == Append(code, instr)
      <4>1. /\ code \in Seq(Instr(Len(values), Len(blocks)))
            /\ Len(values) \in Nat /\ Len(blocks) \in Nat
        BY StackFrames, BlockFields
      <4>2. /\ DOMAIN c = 1 .. Len(code) + 1 /\ Len(code) \in Nat
            /\ DOMAIN code = 1 .. Len(code)
            /\ \A i \in 1 .. Len(code) : c[i] = code[i]
            /\ c[Len(code) + 1] = instr
        BY <4>1, AppendParts
      <4>3. \A i \in 1 .. Len(code) : code[i] \in Instr(Len(values), Len(blocks))
        BY <4>1
      <4>4. blocks'[f.header].code = c
        BY <1>4, <1>5, <3>3
      <4>5. \A i \in 1 .. Len(code) : code[i].op = "PHI" /\ IsLeadingPhi(code, i)
        BY <1>5, <4>2 DEF OnlyPhis, IsLeadingPhi
      <4>6. \A i \in 1 .. Len(code) : Carries(values, Top, code[i].dest)
        BY <1>5, <4>2, <4>5 DEF CarriedIn
      <4> HIDE DEF code, c
      <4>7. ASSUME NEW i \in 1 .. Len(code) + 1
            PROVE  Carries(values', f, c[i].dest)
        <5>1. CASE i = Len(code) + 1
          <6>1. /\ c[i].dest.id = NextId
                /\ c[i].dest.type = values[Top.incoming[n]].type
            BY <1>6, <4>2, <5>1
          <6>2. values'[Top.incoming[n]] = values[Top.incoming[n]]
            <7>1. Top.incoming[n] \in 1 .. Len(values)
              BY <1>7, <3>1, <4>1 DEF Snapshot, Invalid
            <7> QED
              BY <3>1, <7>1 DEF ValuesKept
          <6> QED
            BY <1>4, <3>1, <6>1, <6>2 DEF Carries
        <5>2. CASE i \in 1 .. Len(code)
          <6>1. code[i].dest \in ValueOperand(Len(values))
            BY <4>1, <4>3, <4>5, <5>2, PhiDest
          <6>2. \A id \in 1 .. Len(values) : values'[id] = values[id]
            BY <3>1 DEF ValuesKept
          <6> QED
            BY <1>4, <1>7, <4>2, <4>6, <5>2, <6>1, <6>2, CarriesKept
        <5> QED
          BY <4>2, <5>1, <5>2
      <4> QED
        BY <1>4, <4>2, <4>4, <4>7 DEF CarriedIn
    <3> QED
      BY <3>3, <3>4
  <2>2. CASE ~new
    <3>1. blocks' = blocks /\ ValuesKept /\ values' = values
      BY <1>3, <2>2, SameValues
    <3>2. LocalStep
      BY <1>2, <3>1, StackFrames DEF LocalStep, CodeGrows
    <3>3. CodeStep(k)
      BY <1>2, <1>4, <3>2, LocalCodeStep, StackFrames DEF Lowering
    <3>4. CarriedIn(blocks', values', f)
      BY <1>4, <1>5, <3>1 DEF CarriedIn, Carries
    <3> QED
      BY <1>2, <1>5, <3>1, <3>3, <3>4 DEF Flow, Marked, Lowering
  <2> QED
    BY <2>1, <2>2
<1>9. \A b : Awaits(f, b) <=> Awaits(Top, b)
  BY <1>1, <1>4 DEF Awaits
<1>10. TopStep(k)
  <2>1. FlowIn(blocks', cur', values', f)
    BY <1>2, <1>4, <1>5, <1>8 DEF FlowIn
  <2>2. Top.kind \notin OperandKind \cup {"CALL"} /\ k # Len(ctrl)
    BY <1>1, <1>4 DEF OperandKind
  <2>3. \A b \in 1 .. Len(blocks') : Awaits(Top, b) =>
          b # cur' /\ Idle(blocks'[b])
    <3> SUFFICES ASSUME NEW b \in 1 .. Len(blocks'), Awaits(Top, b)
                 PROVE  b # cur' /\ Idle(blocks'[b])
      OBVIOUS
    <3>1. b \in 1 .. Len(blocks) /\ Handed(k, b)
      BY <1>4, <1>8 DEF Handed
    <3>2. b # cur /\ Idle(blocks[b])
      BY <1>2, <1>4, <3>1, HandedApart
    <3>3. blocks'[b] = blocks[b]
      BY <1>3, <3>1, <3>2, EmitShape, StackFrames DEF Emitted
    <3> QED
      BY <1>2, <3>2, <3>3
  <2> QED
    BY <1>4, <1>9, <2>1, <2>2, <2>3 DEF TopStep, f
<1>11. CoverStep(k)
  <2>1. \A b \in 1 .. Len(blocks') : ~(b > Len(blocks))
    BY <1>8, StackFrames
  <2> QED
    BY <1>2, <1>4, <1>9, <2>1 DEF CoverStep, f
<1>12. OpenForCode'
  BY <1>2, <1>8 DEF OpenForCode
<1> QED
  BY <1>2, <1>8, <1>10, <1>11, <1>12, LoweringKept, StillLowering DEF Lowering

LEMMA EndHeaderFlow ==
  ASSUME TypeOK, TypeOK', FlowInv, EndHeader
  PROVE  FlowInv'
<1> DEFINE f == [kind |-> "WHILECOND", wants |-> <<"BOOL">>, args |-> << >>,
                 incoming |-> Top.incoming, header |-> Top.header]
           k == Len(ctrl) - 1
<1>1. /\ Top.kind = "HEADER" /\ status = "lowering" /\ Replace(f)
      /\ UNCHANGED <<runVars, irVars, nameVars>>
  BY DEF EndHeader, Active
<1>2. /\ Flow /\ Lowering /\ ~blocks[cur].terminated
      /\ UNCHANGED <<blocks, cur, values>>
      /\ status' = "lowering" /\ dropped' = dropped
  BY <1>1, InLowering DEF runVars, irVars, nameVars, valueVars, ListKind
<1>3. /\ f.kind = "WHILECOND" /\ f.header = Top.header
      /\ f.incoming = Top.incoming
  OBVIOUS
<1> HIDE DEF f
<1>4. /\ Keeps(k) /\ Len(ctrl') = k + 1 /\ ctrl'[k + 1] = f
      /\ Len(ctrl) = k + 1 /\ k \in Nat
  BY <1>1, ReplaceShape, StackFrames
<1>5. cur = Top.header /\ CarriedIn(blocks, values, Top)
  <2>1. Len(ctrl) \in DOMAIN ctrl /\ Top = ctrl[Len(ctrl)]
    BY StackFrames
  <2> QED
    BY <1>1, <1>2, <2>1 DEF Lowering, FrameFlow, FlowIn
<1>6. \A b : Awaits(f, b) <=> Awaits(Top, b)
  BY <1>1, <1>3 DEF Awaits
<1> HIDE DEF k
<1>7. TopStep(k)
  <2>1. CarriedIn(blocks', values', f)
    BY <1>2, <1>3, <1>5 DEF CarriedIn, Carries
  <2>2. FlowIn(blocks', cur', values', f)
    BY <1>2, <1>3, <1>5, <2>1 DEF FlowIn
  <2>3. Top.kind \notin OperandKind \cup {"CALL"} /\ k # Len(ctrl)
    BY <1>1, <1>4 DEF OperandKind
  <2>4. \A b \in 1 .. Len(blocks') : Awaits(Top, b) =>
          b # cur' /\ Idle(blocks'[b])
    <3> SUFFICES ASSUME NEW b \in 1 .. Len(blocks'), Awaits(Top, b)
                 PROVE  b # cur' /\ Idle(blocks'[b])
      OBVIOUS
    <3>1. b \in 1 .. Len(blocks) /\ Handed(k, b)
      BY <1>2, <1>4 DEF Handed
    <3> QED
      BY <1>2, <1>4, <3>1, HandedApart
  <2> QED
    BY <1>4, <1>6, <2>2, <2>3, <2>4 DEF TopStep
<1>8. CoverStep(k)
  <2>1. \A b \in 1 .. Len(blocks') : ~(b > Len(blocks))
    BY <1>2, StackFrames
  <2> QED
    BY <1>2, <1>4, <1>6, <2>1 DEF CoverStep
<1> QED
  BY <1>2, <1>7, <1>8, SameValues, SilentStep, StillLowering

\* The condition of a loop ends its block; body and exit are entered from it.
LEMMA BranchWhileFlow ==
  ASSUME TypeOK, TypeOK', FlowInv, BranchWhile
  PROVE  FlowInv'
<1> DEFINE o == Top.args[1]
           h == Top.header
           t == h + 1
           e == h + 2
           f == [kind |-> "LOOP", rets |-> FALSE, incoming |-> Top.incoming,
                 bound |-> bindings, header |-> h]
           k == Len(ctrl) - 1
           p == Len(values)
           m == Len(blocks)
           new == blocks'
<1>1. Top.kind = "WHILECOND" /\ Complete /\ status = "lowering"
  BY DEF BranchWhile, Active
<1>2. CASE o.type # "BOOL"
  BY <1>2, FailFlow DEF BranchWhile, Error
<1>3. CASE o.type = "BOOL"
  <2>1. /\ new = CondBranch(blocks, cur, o, t, e) /\ cur' = t /\ Replace(f)
        /\ UNCHANGED <<runVars, nameVars>>
    BY <1>3 DEF BranchWhile
  <2>2. /\ Flow /\ Lowering /\ ~blocks[cur].terminated
        /\ status' = "lowering" /\ dropped' = dropped /\ UNCHANGED values
    BY <1>1, <2>1, InLowering DEF ListKind, runVars, nameVars, valueVars
  <2>3. o \in Operand(p)
    BY <1>1, OperandsType DEF ExprKind
  <2>4. f.kind = "LOOP" /\ f.header = h /\ f.incoming = Top.incoming
    OBVIOUS
  <2> HIDE DEF f, o
  <2>5. /\ Keeps(k) /\ Len(ctrl') = k + 1 /\ ctrl'[k + 1] = f
        /\ Len(ctrl) = k + 1 /\ k \in Nat
    BY <2>1, ReplaceShape, StackFrames
  <2>6. /\ Len(ctrl) \in 1 .. Len(ctrl) /\ Len(ctrl) \in DOMAIN ctrl
        /\ Top = ctrl[Len(ctrl)]
    BY StackFrames
  <2>7. /\ h \in 1 .. m /\ t \in 1 .. m /\ e \in 1 .. m /\ t # e /\ t # h
        /\ e # h
    BY <1>1, <2>6, FrameBlocks
  <2>8. /\ cur \in 1 .. m /\ m \in Nat /\ p \in Nat /\ m <= m
        /\ blocks \in Seq(Block(p, m)) /\ DOMAIN blocks = 1 .. m
    BY StackFrames
  <2>9. \A b : Handed(k, b) <=> b = t \/ b = e
    BY <1>1, <2>5 DEF Handed, Awaits
  <2>10. (cur = h \/ blocks[h].terminated) /\ CarriedIn(blocks, values, Top)
    BY <1>1, <2>2, <2>6 DEF Lowering, FrameFlow, FlowIn
  <2> HIDE DEF t, e, k, h
  <2>11. /\ t # cur /\ e # cur /\ Idle(blocks[t]) /\ Idle(blocks[e])
    BY <2>2, <2>5, <2>7, <2>9, HandedApart
  <2> HIDE DEF p, m, new
  <2>12. new \in Seq(Block(p, m)) /\ Split(blocks, new, cur, o, t, e)
    BY <2>1, <2>3, <2>7, <2>8, CondBranchEffect DEF m
  <2>13. /\ Len(new) = Len(blocks) /\ new[cur].terminated
         /\ new[cur].code = Append(blocks[cur].code, Choice(o, t, e))
         /\ Idle(new[t]) /\ Idle(new[e])
         /\ \A x \in 1 .. Len(blocks) :
              x # cur /\ x # t /\ x # e => new[x] = blocks[x]
    BY <2>7, <2>11, <2>12 DEF Split, Idle, m
  <2>14. FlowOf(new)
    <3>1. ~Ends(blocks[cur])
      BY <2>2, OpenCur
    <3>2. blocks[t].code = << >> /\ blocks[e].code = << >>
      BY <2>11 DEF Idle
    <3>3. FlowOf(blocks)
      BY <2>2 DEF Flow
    <3> QED
      BY <2>7, <2>8, <2>11, <2>12, <3>1, <3>2, <3>3, FlowSplit DEF m
  <2>15. Ends(blocks'[cur]) /\ PhisKept(cur)
    <3>1. Choice(o, t, e).op = "CBR"
      BY DEF Choice
    <3> QED
      BY <2>13, <3>1, BranchEndsCode DEF new
  <2>16. Departs(k)
    <3>1. ASSUME NEW x \in 1 .. Len(blocks), x # cur, ~Handed(k, x)
          PROVE  blocks'[x] = blocks[x] /\ PhisKept(x)
      <4>1. blocks'[x] = blocks[x]
        BY <2>9, <2>13, <3>1 DEF new
      <4> QED
        BY <4>1, SamePhis
    <3>2. \A x \in 1 .. Len(blocks') : ~(x > Len(blocks))
      BY <2>8, <2>13 DEF new, m
    <3>3. /\ cur' \in 1 .. Len(blocks') /\ Handed(k, cur')
          /\ Len(blocks) <= Len(blocks')
      BY <2>1, <2>7, <2>8, <2>9, <2>13 DEF new, m
    <3>4. ~Ends(blocks'[cur']) /\ ~blocks'[cur'].terminated
      BY <2>1, <2>13 DEF Idle, Ends, new
    <3>5. \A x \in 1 .. Len(blocks') : Handed(k, x) => Idle(blocks'[x])
      BY <2>9, <2>13 DEF new
    <3>6. blocks'[cur].terminated
      BY <2>13 DEF new
    <3> QED
      BY <2>2, <2>15, <3>1, <3>2, <3>3, <3>4, <3>5, <3>6, SameValues
      DEF Departs
  <2>17. \A b : Awaits(f, b) <=> b = e
    BY <2>4 DEF Awaits, e
  <2>18. TopStep(k)
    <3>1. PhisKept(h) /\ blocks'[h].terminated
      <4>1. CASE cur = h
        BY <2>13, <2>15, <4>1 DEF new
      <4>2. CASE cur # h
        <5>1. blocks'[h] = blocks[h] /\ blocks[h].terminated
          BY <2>7, <2>10, <2>13, <4>2 DEF new, m
        <5> QED
          BY <2>7, <5>1, SamePhis DEF m
      <4> QED
        BY <4>1, <4>2
    <3>2. CarriedIn(blocks', values', f)
      BY <1>1, <2>2, <2>4, <2>6, <2>10, <3>1, CarriedKept DEF h
    <3>3. FlowIn(blocks', cur', values', f)
      BY <2>4, <3>1, <3>2 DEF FlowIn
    <3>4. Top.kind \notin OperandKind \cup {"CALL"} /\ k # Len(ctrl)
      BY <1>1, <2>5 DEF OperandKind
    <3>5. e # cur' /\ Idle(blocks'[e]) /\ Awaits(Top, e)
      BY <2>1, <2>7, <2>9, <2>13 DEF new, Handed
    <3> QED
      BY <2>5, <2>17, <3>3, <3>4, <3>5 DEF TopStep
  <2>19. CoverStep(k)
    <3>1. \A b \in 1 .. Len(blocks') : ~(b > Len(blocks))
      BY <2>8, <2>13 DEF new, m
    <3> QED
      BY <2>1, <2>2, <2>5, <2>9, <2>17, <3>1 DEF CoverStep, Handed
  <2>20. k <= Len(ctrl) /\ Flow'
    BY <2>5, <2>14 DEF Flow, new
  <2> QED
    BY <2>2, <2>5, <2>16, <2>18, <2>19, <2>20, DepartStep, StillLowering
<1> QED
  BY <1>2, <1>3

\* emit_phi_entry
LEMMA PhiEntryParts ==
  ASSUME NEW n \in Nat, NEW m \in Nat, NEW instr \in Instr(n, m), NEW o,
         NEW b
  PROVE  /\ PhiEntry(instr, o, b).op = instr.op
         /\ PhiEntry(instr, o, b).dest = instr.dest
         /\ PhiEntry(instr, o, b).args = Append(instr.args, o)
         /\ PhiEntry(instr, o, b).blks = Append(instr.blks, b)
<1>1. instr \in [op : Opcode, dest : Operand(n), args : Seq(Operand(n)),
                 blks : Seq(1 .. m)]
  BY DEF Instr, Operand, Opcode
<1> QED
  BY <1>1 DEF PhiEntry

\* A block whose phis, and nothing else, receive a value from block b.
Received(old, new, b) ==
  /\ DOMAIN new.code = DOMAIN old.code
  /\ new.succ = old.succ /\ new.terminated = old.terminated
  /\ \A i \in DOMAIN old.code :
       IF IsLeadingPhi(old.code, i)
       THEN \E o : new.code[i] = PhiEntry(old.code[i], o, b)
       ELSE new.code[i] = old.code[i]

LEMMA ReceivedFlow ==
  ASSUME NEW n \in Nat, NEW m \in Nat, NEW old \in Block(n, m), NEW b,
         NEW new \in Block(n, m), Received(old, new, b), BlockFlow(old),
         new.pred = Append(old.pred, b)
  PROVE  /\ BlockFlow(new) /\ (Ends(new) <=> Ends(old))
         /\ \A i \in DOMAIN old.code : new.code[i].dest = old.code[i].dest
         /\ \A i \in DOMAIN old.code :
              IsLeadingPhi(new.code, i) <=> IsLeadingPhi(old.code, i)
<1> DEFINE c == old.code
           d == new.code
<1>1. /\ c \in Seq(Instr(n, m)) /\ d \in Seq(Instr(n, m))
      /\ old.pred \in Seq(1 .. m)
  BY DEF Block
<1>2. /\ DOMAIN c = 1 .. Len(c) /\ Len(c) \in Nat /\ Len(d) = Len(c)
      /\ DOMAIN d = 1 .. Len(c)
      /\ \A i \in 1 .. Len(c) : c[i] \in Instr(n, m)
      /\ d = << >> <=> c = << >>
  <2>1. /\ DOMAIN c = 1 .. Len(c) /\ Len(c) \in Nat
        /\ DOMAIN d = 1 .. Len(d) /\ Len(d) \in Nat
        /\ DOMAIN c = DOMAIN d
    BY <1>1 DEF Received
  <2>2. Len(c) = Len(d)
    BY <2>1
  <2> QED
    BY <1>1, <2>1, <2>2
<1>3. /\ Last(c) = c[Len(c)] /\ Last(d) = d[Len(c)]
  BY <1>2 DEF Last
<1>4. ASSUME NEW i \in 1 .. Len(c)
      PROVE  /\ d[i].op = c[i].op /\ d[i].dest = c[i].dest
             /\ IsLeadingPhi(c, i) =>
                  \E o : /\ d[i].args = Append(c[i].args, o)
                         /\ d[i].blks = Append(c[i].blks, b)
             /\ ~IsLeadingPhi(c, i) => d[i] = c[i]
  <2>1. CASE IsLeadingPhi(c, i)
    <3>1. PICK o : d[i] = PhiEntry(c[i], o, b)
      BY <1>2, <2>1 DEF Received
    <3>2. c[i] \in Instr(n, m)
      BY <1>2
    <3> DEFINE instr == c[i]
               entry == PhiEntry(instr, o, b)
    <3>3. d[i] = entry /\ instr \in Instr(n, m)
      BY <3>1, <3>2
    <3> HIDE DEF instr
    <3>4. /\ entry.op = instr.op /\ entry.dest = instr.dest
          /\ entry.args = Append(instr.args, o)
          /\ entry.blks = Append(instr.blks, b)
      BY <3>3, PhiEntryParts
    <3> HIDE DEF entry
    <3>5. /\ d[i].op = c[i].op /\ d[i].dest = c[i].dest
          /\ d[i].args = Append(c[i].args, o)
          /\ d[i].blks = Append(c[i].blks, b)
      BY <3>3, <3>4 DEF instr
    <3> QED
      BY <2>1, <3>5
  <2>2. CASE ~IsLeadingPhi(c, i)
    BY <1>2, <2>2 DEF Received
  <2> QED
    BY <2>1, <2>2
<1>5. \A i \in 1 .. Len(c) : IsLeadingPhi(c, i) => c[i].op = "PHI"
  BY <1>2 DEF IsLeadingPhi
<1>6. \A i \in 1 .. Len(c) : IsLeadingPhi(d, i) <=> IsLeadingPhi(c, i)
  <2> SUFFICES ASSUME NEW i \in 1 .. Len(c)
               PROVE  IsLeadingPhi(d, i) <=> IsLeadingPhi(c, i)
    OBVIOUS
  <2>1. \A j \in 1 .. i : j \in 1 .. Len(c)
    BY <1>2
  <2> QED
    BY <1>4, <2>1 DEF IsLeadingPhi
<1> HIDE DEF c, d
<1>7. /\ \A i \in 1 .. Len(c) - 1 : c[i].op \notin Terminator
      /\ IF c # << >> /\ Last(c).op \in {"BR", "CBR"}
         THEN old.succ = Last(c).blks ELSE old.succ = << >>
      /\ \A i \in 1 .. Len(c) : c[i].op = "PHI" =>
           /\ IsLeadingPhi(c, i) /\ c[i].blks = old.pred
           /\ Len(c[i].args) = Len(c[i].blks)
  BY <1>2 DEF BlockFlow, c
<1>8. c # << >> => Len(c) \in 1 .. Len(c)
  <2>1. c = << >> \/ Len(c) # 0
    BY <1>1 DEF c
  <2> QED
    BY <1>2, <2>1
<1>9. ASSUME NEW i \in 1 .. Len(c), d[i].op = "PHI"
      PROVE  /\ IsLeadingPhi(d, i) /\ d[i].blks = new.pred
             /\ Len(d[i].args) = Len(d[i].blks)
  <2>1. /\ IsLeadingPhi(c, i) /\ c[i].blks = old.pred
        /\ Len(c[i].args) = Len(c[i].blks)
    BY <1>4, <1>7, <1>9
  <2>2. PICK o : /\ d[i].args = Append(c[i].args, o)
                 /\ d[i].blks = Append(c[i].blks, b)
    BY <1>4, <2>1
  <2>3. c[i].args \in Seq(Operand(n)) /\ c[i].blks \in Seq(1 .. m)
    BY <1>2 DEF Instr
  <2>4. /\ Len(d[i].args) = Len(c[i].args) + 1
        /\ Len(d[i].blks) = Len(c[i].blks) + 1
    BY <2>2, <2>3, AppendParts
  <2> QED
    BY <1>6, <2>1, <2>2, <2>4
<1>10. /\ \A i \in 1 .. Len(c) - 1 : d[i].op \notin Terminator
  BY <1>2, <1>4, <1>7
<1>11. IF d # << >> /\ Last(d).op \in {"BR", "CBR"}
       THEN new.succ = Last(d).blks ELSE new.succ = << >>
  <2>1. new.succ = old.succ
    BY DEF Received
  <2>2. c # << >> => /\ Last(d).op = Last(c).op
                     /\ Last(d).op # "PHI" => Last(d) = Last(c)
    BY <1>3, <1>4, <1>5, <1>8
  <2> QED
    BY <1>2, <1>7, <2>1, <2>2
<1>12. BlockFlow(new)
  BY <1>2, <1>9, <1>10, <1>11 DEF BlockFlow, d
<1>13. Ends(new) <=> Ends(old)
  <2>1. c # << >> => Last(d).op = Last(c).op
    BY <1>3, <1>4, <1>8
  <2> QED
    BY <1>2, <2>1 DEF Ends, c, d
<1> QED
  BY <1>2, <1>4, <1>6, <1>12, <1>13 DEF c, d

\* The back edge: every phi of the header receives a value.
LEMMA CloseLoopEffect ==
  ASSUME TypeOK, Top.kind = "LOOP", NEW bs,
         bs \in Seq(Block(Len(values), Len(blocks))), Len(bs) = Len(blocks),
         bs[Top.header].code = blocks[Top.header].code,
         CarriedIn(blocks, values, Top), NEW new,
         new = CloseLoop(bs, Top.header)
  PROVE  /\ Len(new) = Len(bs)
         /\ new \in Seq(Block(Len(values), Len(blocks)))
         /\ \A x \in 1 .. Len(bs) : x # Top.header => new[x] = bs[x]
         /\ Received(bs[Top.header], new[Top.header], cur)
         /\ new[Top.header].pred = bs[Top.header].pred
<1> DEFINE h    == Top.header
           code == bs[h].code
           E(i) == LET instr == code[i]
                       value == BackEdgeValue(instr.dest.id)
                   IN  IF IsLeadingPhi(code, i) /\ value # Invalid
                       THEN PhiEntry(instr, ValueOf(value), cur)
                       ELSE instr
           c    == [i \in DOMAIN code |-> E(i)]
           nb   == [bs[h] EXCEPT !.code = c]
<1>1. /\ new \in Seq(Block(Len(values), Len(blocks)))
      /\ Len(new) = Len(bs)
  BY CloseLoopType
<1>2. h \in 1 .. Len(bs)
  <2>1. Len(ctrl) \in 1 .. Len(ctrl) /\ Top = ctrl[Len(ctrl)]
    BY StackFrames
  <2> QED
    BY <2>1, FrameBlocks
<1>3. new = [bs EXCEPT ![h] = nb]
  BY DEF CloseLoop
<1>4. ASSUME NEW i \in DOMAIN code, IsLeadingPhi(code, i)
      PROVE  BackEdgeValue(code[i].dest.id) # Invalid
  <2>1. Top.incoming[values[code[i].dest.id].name] # Invalid
    BY <1>4 DEF CarriedIn, Carries
  <2> QED
    BY <2>1 DEF BackEdgeValue
<1>5. \A i \in DOMAIN code :
        IF IsLeadingPhi(code, i)
        THEN \E o : c[i] = PhiEntry(code[i], o, cur)
        ELSE c[i] = code[i]
  BY <1>4
<1>6. DOMAIN c = DOMAIN code
  OBVIOUS
<1> HIDE DEF c
<1>7. /\ nb.code = c /\ nb.succ = bs[h].succ /\ nb.pred = bs[h].pred
      /\ nb.terminated = bs[h].terminated
  <2>1. bs[h] \in Block(Len(values), Len(blocks))
    BY <1>2
  <2> QED
    BY <2>1 DEF Block
<1> HIDE DEF nb, h
<1>8. /\ new[h] = nb /\ \A x \in 1 .. Len(bs) : x # h => new[x] = bs[x]
  BY <1>2, <1>3
<1>9. Received(bs[h], new[h], cur)
  BY <1>5, <1>6, <1>7, <1>8 DEF Received
<1> QED
  BY <1>1, <1>7, <1>8, <1>9 DEF h

\* The body ends in the back edge, unless it cannot be reached.
LEMMA EndLoopFlow ==
  ASSUME TypeOK, TypeOK', FlowInv, EndLoop
  PROVE  FlowInv'
<1> DEFINE h  == Top.header
           e  == h + 2
           k  == Len(ctrl) - 1
           br == Branch(blocks, cur, h)
           p  == Len(values)
           m  == Len(blocks)
<1>1. /\ Top.kind = "LOOP" /\ status = "lowering" /\ EndStatement(FALSE)
      /\ cur' = e /\ UNCHANGED <<runVars, valueVars>>
      /\ blocks' = IF blocks[cur].terminated THEN blocks
                   ELSE CloseLoop(br, h)
  BY DEF EndLoop, Active
<1>2. /\ Flow /\ Lowering
      /\ status' = "lowering" /\ dropped' = dropped /\ UNCHANGED values
  BY <1>1, InLowering DEF runVars, valueVars
<1>3. /\ TopStep(k) /\ Len(ctrl') = k /\ Len(ctrl) = k + 1 /\ k \in Nat
      /\ Top.kind \in StatementKind
  <2>1. Top.kind \in StatementKind
    BY <1>1 DEF StatementKind
  <2>2. ctrl[Len(ctrl) - 1].kind \in ListKind /\ Top.kind # "FBODY"
        /\ Len(ctrl) - 1 \in Nat
    BY <2>1, StatementCaller
  <2>3. Len(ctrl) \in Nat
    BY StackFrames
  <2>4. Len(ctrl') = Len(ctrl) - 1
    BY <1>1, <2>2, EndShape
  <2>5. TopStep(Len(ctrl) - 1)
    BY <1>1, <2>1, EndTop
  <2> QED
    BY <2>1, <2>2, <2>3, <2>4, <2>5
<1>4. /\ Len(ctrl) \in 1 .. Len(ctrl) /\ Len(ctrl) \in DOMAIN ctrl
      /\ Top = ctrl[Len(ctrl)]
  BY StackFrames
<1>5. /\ h \in 1 .. m /\ e \in 1 .. m /\ e # h
  BY <1>1, <1>4, FrameBlocks
<1>6. /\ cur \in 1 .. m /\ m \in Nat /\ p \in Nat /\ m <= m
      /\ blocks \in Seq(Block(p, m)) /\ DOMAIN blocks = 1 .. m
  BY StackFrames
<1>7. \A b : Handed(k, b) <=> b = e
  BY <1>1, <1>3 DEF Handed, Awaits
<1>8. blocks[h].terminated /\ CarriedIn(blocks, values, Top)
  BY <1>1, <1>2, <1>4 DEF Lowering, FrameFlow, FlowIn
<1>9. ~Awaited(h)
  BY <1>1, <1>2, <1>4, HeaderStarted
<1> HIDE DEF e, k, h, br
<1>10. e # cur /\ Idle(blocks[e])
  BY <1>2, <1>3, <1>5, <1>7, HandedApart
<1>11. /\ Len(blocks') = Len(blocks) /\ Flow'
       /\ Ends(blocks'[cur]) /\ blocks'[cur].terminated /\ PhisKept(cur)
       /\ h # cur => /\ blocks'[h].terminated = blocks[h].terminated
                     /\ Ends(blocks'[h]) <=> Ends(blocks[h])
                     /\ PhisKept(h)
       /\ \A x \in 1 .. Len(blocks) :
            x # cur /\ x # h => blocks'[x] = blocks[x]
  <2>1. CASE blocks[cur].terminated
    <3>1. blocks' = blocks
      BY <1>1, <2>1
    <3>2. Ends(blocks[cur])
      BY <1>2, <1>6, <2>1 DEF Lowering, Marked
    <3>3. PhisKept(cur) /\ PhisKept(h)
      BY <1>5, <1>6, <3>1, SamePhis
    <3> QED
      BY <1>2, <2>1, <3>1, <3>2, <3>3 DEF Flow
  <2>2. CASE ~blocks[cur].terminated
    <3>1. h # cur
      BY <1>8, <2>2
    <3> DEFINE new == blocks'
    <3>2. new = CloseLoop(br, h)
      BY <1>1, <2>2
    <3> HIDE DEF p, m, new
    <3>3. br \in Seq(Block(p, m)) /\ Branched(blocks, br, cur, h)
      BY <1>5, <1>6, BranchEffect DEF br, m
    <3>4. /\ Len(br) = m
          /\ br[cur].code = Append(blocks[cur].code, Jump(h))
          /\ br[cur].terminated
          /\ br[h].code = blocks[h].code
          /\ br[h].terminated = blocks[h].terminated
          /\ \A x \in 1 .. m : x # cur /\ x # h => br[x] = blocks[x]
          /\ br[h].succ = blocks[h].succ
          /\ br[h].pred = Append(blocks[h].pred, cur)
      BY <1>5, <3>1, <3>3 DEF Branched, m
    <3>5. /\ EdgesAgree(br)
          /\ \A x \in 1 .. Len(blocks) : x # h => BlockFlow(br[x])
      <4>1. FlowOf(blocks) /\ ~Ends(blocks[cur])
        BY <1>2, <2>2, OpenCur DEF Flow
      <4> QED
        BY <1>5, <1>6, <3>1, <3>3, <4>1, FlowBranch DEF m
    <3>6. /\ Len(new) = m /\ new \in Seq(Block(p, m))
          /\ \A x \in 1 .. m : x # h => new[x] = br[x]
          /\ Received(br[h], new[h], cur) /\ new[h].pred = br[h].pred
      BY <1>1, <1>8, <3>2, <3>3, <3>4, CloseLoopEffect DEF h, p, m
    <3>7. /\ BlockFlow(new[h]) /\ (Ends(new[h]) <=> Ends(blocks[h]))
          /\ \A i \in DOMAIN blocks[h].code :
               /\ new[h].code[i].dest = blocks[h].code[i].dest
               /\ IsLeadingPhi(new[h].code, i) <=>
                    IsLeadingPhi(blocks[h].code, i)
      <4> DEFINE old == blocks[h]
                 nb  == new[h]
      <4>1. /\ old \in Block(p, m) /\ nb \in Block(p, m) /\ BlockFlow(old)
        BY <1>2, <1>5, <1>6, <3>6 DEF Flow, FlowOf
      <4>2. nb.pred = Append(old.pred, cur)
        BY <3>4, <3>6
      <4>3. Received(old, nb, cur)
        BY <3>4, <3>6 DEF Received
      <4> HIDE DEF old, nb
      <4>4. /\ BlockFlow(nb) /\ (Ends(nb) <=> Ends(old))
            /\ \A i \in DOMAIN old.code : nb.code[i].dest = old.code[i].dest
            /\ \A i \in DOMAIN old.code :
                 IsLeadingPhi(nb.code, i) <=> IsLeadingPhi(old.code, i)
        BY <1>6, <4>1, <4>2, <4>3, ReceivedFlow
      <4> QED
        BY <4>4 DEF old, nb
    <3>8. DOMAIN new = 1 .. m /\ DOMAIN br = 1 .. m
      BY <1>6, <3>3, <3>4, <3>6
    <3>9. \A x \in 1 .. m : new[x].succ = br[x].succ /\ new[x].pred = br[x].pred
      BY <3>6 DEF Received
    <3>10. FlowOf(new)
      <4>1. EdgesAgree(new)
        BY <3>5, <3>8, <3>9 DEF EdgesAgree
      <4>2. \A x \in 1 .. m : BlockFlow(new[x])
        BY <3>5, <3>6, <3>7 DEF m
      <4> QED
        BY <3>8, <4>1, <4>2 DEF FlowOf
    <3>11. PhisKept(h)
      <4>1. DOMAIN new[h].code = DOMAIN blocks[h].code
        BY <3>4, <3>6 DEF Received
      <4> QED
        BY <3>7, <4>1 DEF PhisKept, new
    <3>12. /\ blocks'[cur].code = Append(blocks[cur].code, Jump(h))
           /\ blocks'[cur].terminated
      BY <1>6, <3>1, <3>4, <3>6 DEF new
    <3>13. Ends(blocks'[cur]) /\ PhisKept(cur)
      <4>1. Jump(h).op = "BR"
        BY DEF Jump
      <4> QED
        BY <3>12, <4>1, BranchEndsCode
    <3>14. blocks'[h].terminated = blocks[h].terminated
      BY <3>4, <3>6 DEF Received, new
    <3>15. \A x \in 1 .. Len(blocks) :
             x # cur /\ x # h => blocks'[x] = blocks[x]
      BY <3>4, <3>6 DEF new, m
    <3>16. Len(blocks') = Len(blocks) /\ Flow'
      BY <3>6, <3>10 DEF Flow, new, m
    <3> QED
      BY <3>7, <3>11, <3>12, <3>13, <3>14, <3>15, <3>16 DEF new
  <2> QED
    BY <2>1, <2>2
<1>12. Departs(k)
  <2>1. ASSUME NEW x \in 1 .. Len(blocks), x # cur
        PROVE  /\ blocks'[x].terminated = blocks[x].terminated
               /\ Ends(blocks'[x]) <=> Ends(blocks[x])
               /\ PhisKept(x)
               /\ Awaited(x) => blocks'[x] = blocks[x]
    <3>1. CASE x = h
      BY <1>9, <1>11, <2>1, <3>1
    <3>2. CASE x # h
      <4>1. blocks'[x] = blocks[x]
        BY <1>11, <2>1, <3>2
      <4> QED
        BY <4>1, SamePhis
    <3> QED
      BY <3>1, <3>2
  <2>2. \A x \in 1 .. Len(blocks') : ~(x > Len(blocks))
    BY <1>6, <1>11
  <2>3. /\ cur' \in 1 .. Len(blocks') /\ Handed(k, cur')
        /\ Len(blocks) <= Len(blocks')
    BY <1>1, <1>5, <1>6, <1>7, <1>11
  <2>4. Idle(blocks'[e]) /\ cur' = e
    BY <1>1, <1>5, <1>10, <1>11
  <2>5. ~Ends(blocks'[cur']) /\ ~blocks'[cur'].terminated
    BY <2>4 DEF Idle, Ends
  <2>6. \A x : Handed(k, x) => x = cur'
    BY <1>7, <2>4
  <2> QED
    BY <1>2, <1>11, <2>1, <2>2, <2>3, <2>5, <2>6, SameValues DEF Departs
<1>13. CoverStep(k)
  <2>1. \A b \in 1 .. Len(blocks') : ~(b > Len(blocks))
    BY <1>6, <1>11
  <2>2. \A x : Awaits(Top, x) => x = cur'
    BY <1>1, <1>3, <1>7 DEF Handed
  <2> QED
    BY <1>2, <1>3, <2>1, <2>2 DEF CoverStep
<1>14. k <= Len(ctrl)
  BY <1>3
<1> QED
  BY <1>2, <1>3, <1>11, <1>12, <1>13, <1>14, DepartStep, StillLowering

-----------------------------------------------------------------------------
(***************************************************************************)
(* The merge block of a connective.                                        *)
(***************************************************************************)

LEMMA FinishLogicFlow ==
  ASSUME TypeOK, TypeOK', FlowInv, FinishLogic
  PROVE  FlowInv'
<1> DEFINE result == Result(Top.target, "BOOL")
           short  == LitOp("BOOL", IF Top.isOr THEN 1 ELSE 0)
           t      == Top.merge
           phi    == Phi(result, <<short, Top.args[1]>>,
                         <<Top.decision, cur>>)
           br     == Branch(blocks, cur, t)
           k      == Len(ctrl) - 1
           p      == Len(values')
           m      == Len(blocks)
           new    == blocks'
<1>1. /\ Top.kind = "RIGHT" /\ status = "lowering"
      /\ NewResult(Top.target, "BOOL") /\ new = Emit(br, t, phi)
      /\ cur' = t /\ Return(result) /\ UNCHANGED runVars
  BY DEF FinishLogic, Active
<1>2. /\ Flow /\ Lowering /\ ~blocks[cur].terminated
      /\ status' = "lowering" /\ dropped' = dropped
  BY <1>1, InLowering DEF ListKind, runVars
<1>3. /\ phi.op = "PHI" /\ phi.blks = <<Top.decision, cur>>
      /\ Len(phi.args) = Len(phi.blks)
  BY DEF Phi
<1> HIDE DEF result, short, phi, br
<1>4. /\ TopStep(k) /\ k \in Nat /\ Len(ctrl) = k + 1
  <2>1. Len(ctrl) \in Nat
    BY StackFrames
  <2>2. Len(ctrl) - 1 \in Nat
    BY <1>1, OperandCaller DEF OperandKind
  <2>3. TopStep(Len(ctrl) - 1)
    BY <1>1, ReturnTop DEF OperandKind
  <2> QED
    BY <2>1, <2>2, <2>3
<1>5. ValuesKept
  BY <1>1, NewResultKeeps
<1>6. /\ Len(ctrl) \in 1 .. Len(ctrl) /\ Len(ctrl) \in DOMAIN ctrl
      /\ Top = ctrl[Len(ctrl)]
  BY StackFrames
<1>7. t \in 1 .. m
  BY <1>1, <1>6, FrameBlocks
<1>8. blocks[t].pred = <<Top.decision>>
  BY <1>1, <1>2, <1>6 DEF Lowering, FrameFlow, FlowIn
<1>9. \A b : Handed(k, b) <=> b = t
  BY <1>1, <1>4 DEF Handed, Awaits
<1> HIDE DEF k, t
<1>10. t # cur /\ Idle(blocks[t])
  BY <1>2, <1>4, <1>7, <1>9, HandedApart
<1>11. /\ cur \in 1 .. m /\ m \in Nat /\ p \in Nat /\ m <= m
       /\ blocks \in Seq(Block(p, m)) /\ DOMAIN blocks = 1 .. m
  <2>1. /\ cur \in 1 .. m /\ m \in Nat /\ Len(values) \in Nat
        /\ blocks \in Seq(Block(Len(values), m)) /\ DOMAIN blocks = 1 .. m
    BY StackFrames
  <2>2. p \in Nat
    BY DEF TypeOK, NamesType, Values
  <2>3. Seq(Block(Len(values), m)) \subseteq Seq(Block(p, m))
    BY <1>5, <2>1, <2>2, BlockGrows, SeqGrows DEF ValuesKept
  <2> QED
    BY <2>1, <2>2, <2>3
<1> HIDE DEF p, m, new
<1>12. br \in Seq(Block(p, m)) /\ Branched(blocks, br, cur, t)
  BY <1>7, <1>11, BranchEffect DEF br, m
<1>13. /\ Len(br) = m
       /\ br[cur].code = Append(blocks[cur].code, Jump(t))
       /\ br[cur].terminated
       /\ br[t].code = << >> /\ br[t].pred = Append(blocks[t].pred, cur)
       /\ ~br[t].terminated
       /\ \A x \in 1 .. m : x # cur /\ x # t => br[x] = blocks[x]
  BY <1>7, <1>10, <1>12 DEF Branched, Idle, m
<1>14. FlowOf(br)
  <2>1. FlowOf(blocks) /\ ~Ends(blocks[cur]) /\ blocks[t].code = << >>
    BY <1>2, <1>10, OpenCur DEF Flow, Idle
  <2> QED
    BY <1>7, <1>10, <1>11, <1>12, <2>1, FlowBranch DEF m
<1>15. Emitted(br, new, t, phi) /\ t \in 1 .. Len(br)
  <2>1. t \in 1 .. Len(br)
    BY <1>7, <1>13
  <2> QED
    BY <1>1, <1>12, <2>1, EmitOn
<1>16. /\ Len(new) = m /\ new[cur] = br[cur]
       /\ new[t].code = Append(br[t].code, phi) /\ ~new[t].terminated
       /\ \A x \in 1 .. m : x # cur /\ x # t => new[x] = blocks[x]
  BY <1>7, <1>10, <1>11, <1>13, <1>15 DEF Emitted
<1>17. new \in Seq(Block(p, m))
  BY <1>16 DEF TypeOK, IRType, new, p
<1>18. Flow'
  <2>1. br[t].pred = <<Top.decision, cur>>
    <3> DEFINE d == Top.decision
               S == {d, cur}
    <3>1. br[t].pred = Append(<<d>>, cur)
      BY <1>8, <1>13
    <3> HIDE DEF d
    <3>2. d \in S /\ cur \in S /\ Append(<< >>, d) = <<d>>
      OBVIOUS
    <3> HIDE DEF S
    <3>3. Append(<<d>>, cur) = <<d, cur>>
      BY <3>2, TwoAppends
    <3> QED
      BY <3>1, <3>3 DEF d
  <2>2. OnlyPhis(br[t])
    BY <1>13 DEF OnlyPhis
  <2>3. phi.blks = br[t].pred
    BY <1>3, <2>1
  <2>4. FlowOf(new)
    BY <1>3, <1>11, <1>12, <1>14, <1>15, <1>17, <2>2, <2>3, FlowPhi
  <2> QED
    BY <2>4 DEF Flow, new
<1>19. Ends(blocks'[cur]) /\ PhisKept(cur)
  <2>1. Jump(t).op = "BR"
    BY DEF Jump
  <2>2. blocks'[cur].code = Append(blocks[cur].code, Jump(t))
    BY <1>13, <1>16 DEF new
  <2> QED
    BY <2>1, <2>2, BranchEndsCode
<1>20. Departs(k)
  <2>1. ASSUME NEW x \in 1 .. Len(blocks), x # cur, ~Handed(k, x)
        PROVE  blocks'[x] = blocks[x] /\ PhisKept(x)
    <3>1. blocks'[x] = blocks[x]
      BY <1>9, <1>16, <2>1 DEF new, m
    <3> QED
      BY <3>1, SamePhis
  <2>2. \A x \in 1 .. Len(blocks') : ~(x > Len(blocks))
    BY <1>11, <1>16 DEF new, m
  <2>3. /\ cur' \in 1 .. Len(blocks') /\ Handed(k, cur')
        /\ Len(blocks) <= Len(blocks')
    BY <1>1, <1>7, <1>9, <1>11, <1>16 DEF new, m
  <2>4. ~Ends(blocks'[cur']) /\ ~blocks'[cur'].terminated
    <3>1. Append(<< >>, phi) = <<phi>> /\ Last(<<phi>>) = phi
      BY DEF Last
    <3> QED
      BY <1>1, <1>3, <1>13, <1>16, <3>1 DEF Ends, Terminator, new
  <2>5. \A x : Handed(k, x) => x = cur'
    BY <1>1, <1>9
  <2>6. blocks'[cur].terminated
    BY <1>13, <1>16 DEF new
  <2> QED
    BY <1>5, <1>19, <2>1, <2>2, <2>3, <2>4, <2>5, <2>6 DEF Departs
<1>21. CoverStep(k)
  <2>1. \A b \in 1 .. Len(blocks') : ~(b > Len(blocks))
    BY <1>11, <1>16 DEF new, m
  <2>2. \A x : Awaits(Top, x) => x = cur'
    BY <1>1, <1>4, <1>9 DEF Handed
  <2> QED
    BY <1>2, <2>1, <2>2 DEF CoverStep
<1>22. k <= Len(ctrl)
  BY <1>4
<1> QED
  BY <1>2, <1>4, <1>18, <1>20, <1>21, <1>22, DepartStep, StillLowering

-----------------------------------------------------------------------------
(***************************************************************************)
(* Expressions and statements as a whole.                                  *)
(***************************************************************************)

LEMMA ExpressionFlow ==
  ASSUME TypeOK, TypeOK', FlowInv, Expression
  PROVE  FlowInv'
<1>1. ASSUME NEW t \in ValType, Literal(t)
      PROVE  FlowInv'
  <2>1. PICK v \in Literals[t] : Receive(LitOp(t, v))
    BY <1>1 DEF Literal
  <2> DEFINE o == LitOp(t, v)
  <2>2. /\ Wanting(t) /\ Receive(o)
        /\ UNCHANGED <<runVars, irVars, nameVars, semVars, fuel>>
    BY <1>1, <2>1 DEF Literal
  <2> HIDE DEF o
  <2> QED
    BY <2>2, LeafFlow
<1>2. ASSUME NEW n \in Name, Identifier(n)
      PROVE  FlowInv'
  <2> DEFINE o == ValueOf(bindings[n])
             t == decl[n].type
  <2>1. /\ Wanting(t) /\ Receive(o)
        /\ UNCHANGED <<runVars, irVars, nameVars, semVars, fuel>>
    BY <1>2 DEF Identifier, Readable
  <2> HIDE DEF o, t
  <2> QED
    BY <2>1, LeafFlow
<1>3. ASSUME NEW n \in Name, UnboundIdentifier(n)
      PROVE  FlowInv'
  BY <1>3, FailFlow DEF UnboundIdentifier, Error
<1>4. ASSUME NEW t, NEW op, BeginBinary(op, t)
      PROVE  FlowInv'
  <2> DEFINE f == [kind |-> "BINARY", op |-> op, wants |-> <<t, t>>,
                   args |-> << >>, target |-> Target]
             u == CheckedType(op, t)
  <2>1. Wanting(u) /\ BeginExpr(f) /\ f.kind = "BINARY"
    BY <1>4 DEF BeginBinary
  <2> HIDE DEF f, u
  <2> QED
    BY <2>1, BeginExprFlow
<1>5. ASSUME BeginNot
      PROVE  FlowInv'
  <2> DEFINE f == [kind |-> "NOT", wants |-> <<"BOOL">>, args |-> << >>,
                   target |-> Target]
  <2>1. Wanting("BOOL") /\ BeginExpr(f) /\ f.kind = "NOT"
    BY <1>5 DEF BeginNot
  <2> HIDE DEF f
  <2> QED
    BY <2>1, BeginExprFlow
<1>6. ASSUME NEW isOr, BeginLogic(isOr)
      PROVE  FlowInv'
  <2> DEFINE f == [kind |-> "LEFT", wants |-> <<"BOOL">>, args |-> << >>,
                   target |-> Target, isOr |-> isOr]
  <2>1. Wanting("BOOL") /\ BeginExpr(f) /\ f.kind = "LEFT"
    BY <1>6 DEF BeginLogic
  <2> HIDE DEF f
  <2> QED
    BY <2>1, BeginExprFlow
<1>7. ASSUME NEW g, BeginCall(g)
      PROVE  FlowInv'
  <2> DEFINE f == [kind |-> "CALL", ret |-> g.ret, wants |-> g.params,
                   args |-> << >>, target |-> Target]
             u == g.ret
  <2>1. Wanting(u) /\ BeginExpr(f) /\ f.kind = "CALL"
    BY <1>7 DEF BeginCall
  <2> HIDE DEF f, u
  <2> QED
    BY <2>1, BeginExprFlow
<1>8. ASSUME ArgumentMismatch
      PROVE  FlowInv'
  BY <1>8, FailFlow DEF ArgumentMismatch, Error
<1> QED
  BY <1>1, <1>2, <1>3, <1>4, <1>5, <1>6, <1>7, <1>8, FinishBinaryFlow,
     FinishNotFlow, DropLogicFlow, SplitLogicFlow, FinishLogicFlow,
     FinishCallFlow
  DEF Expression

LEMMA SimpleStatementFlow ==
  ASSUME TypeOK, TypeOK', FlowInv, SimpleStatement
  PROVE  FlowInv'
<1>1. ASSUME StatementAfterReturn
      PROVE  FlowInv'
  BY <1>1, FailFlow DEF StatementAfterReturn, Error
<1>2. ASSUME NEW n, NEW t, DeclareAndAssign(n, t)
      PROVE  FlowInv'
  BY <1>2, BeginAssignmentFlow
  DEF DeclareAndAssign, StartStatement, NextStatement
<1>3. ASSUME NEW n, Assign(n)
      PROVE  FlowInv'
  BY <1>3, BeginAssignmentFlow DEF Assign, StartStatement, NextStatement
<1>4. ASSUME NEW n, AssignUnbound(n)
      PROVE  FlowInv'
  BY <1>4, FailFlow DEF AssignUnbound, Error
<1>5. ASSUME BeginReturn
      PROVE  FlowInv'
  <2> DEFINE f == [kind |-> "RETURN", wants |-> <<fn.ret>>, args |-> << >>]
  <2>1. /\ InList /\ ~blocks[cur].terminated /\ Push(f) /\ f.kind = "RETURN"
        /\ UNCHANGED <<runVars, irVars, values>>
    BY <1>5 DEF BeginReturn, StartStatement, NextStatement, nameVars, valueVars
  <2> HIDE DEF f
  <2> QED
    BY <2>1, SameValues, BeginStatementFlow
<1>6. ASSUME NEW g, CallStatement(g)
      PROVE  FlowInv'
  <2> DEFINE f == [kind |-> "CALL", ret |-> g.ret, wants |-> g.params,
                   args |-> << >>, target |-> NoOperand]
  <2>1. /\ InList /\ ~blocks[cur].terminated /\ Push(f) /\ f.kind = "CALL"
        /\ UNCHANGED <<runVars, irVars, values>>
    BY <1>6
    DEF CallStatement, StartStatement, NextStatement, nameVars, valueVars
  <2> HIDE DEF f
  <2> QED
    BY <2>1, SameValues, BeginStatementFlow
<1>7. ASSUME BeginBlock
      PROVE  FlowInv'
  <2> DEFINE f == [kind |-> "BLOCK", rets |-> FALSE]
  <2>1. /\ InList /\ ~blocks[cur].terminated /\ Push(f) /\ f.kind = "BLOCK"
        /\ UNCHANGED <<runVars, irVars, values>>
    BY <1>7 DEF BeginBlock, StartStatement, NextStatement, nameVars, valueVars
  <2> HIDE DEF f
  <2> QED
    BY <2>1, SameValues, BeginStatementFlow
<1>8. ASSUME EndBlock
      PROVE  FlowInv'
  <2>1. /\ status = "lowering" /\ Top.kind = "BLOCK" /\ EndStatement(Top.rets)
        /\ UNCHANGED <<irVars, nameVars, status>> /\ dropped' = dropped
    BY <1>8 DEF EndBlock, Active, runVars
  <2> QED
    BY <2>1, EndStatementFlow
<1> QED
  BY <1>1, <1>2, <1>3, <1>4, <1>5, <1>6, <1>7, <1>8, DeclareOnlyFlow,
     FinishAssignmentFlow, FinishReturnFlow, ReturnNothingFlow
  DEF SimpleStatement

LEMMA IfStatementFlow ==
  ASSUME TypeOK, TypeOK', FlowInv, IfStatement
  PROVE  FlowInv'
<1>1. ASSUME BeginIf
      PROVE  FlowInv'
  <2> DEFINE f == [kind |-> "IFCOND", wants |-> <<"BOOL">>, args |-> << >>]
  <2>1. /\ InList /\ ~blocks[cur].terminated /\ Push(f) /\ f.kind = "IFCOND"
        /\ UNCHANGED <<runVars, irVars, values>>
    BY <1>1 DEF BeginIf, StartStatement, NextStatement, nameVars, valueVars
  <2> HIDE DEF f
  <2> QED
    BY <2>1, SameValues, BeginStatementFlow
<1>2. ASSUME DropIf
      PROVE  FlowInv'
  <2>1. PICK r \in BOOLEAN : EndStatement(r)
    BY <1>2 DEF DropIf
  <2>2. /\ status = "lowering" /\ Top.kind = "IFCOND"
        /\ UNCHANGED <<irVars, nameVars, status>> /\ dropped' = TRUE
    BY <1>2 DEF DropIf, Active
  <2> QED
    BY <2>1, <2>2, EndStatementFlow
<1>3. ASSUME EndMerge
      PROVE  FlowInv'
  <2> DEFINE r == BothReturn(Top.then, Top.else)
  <2>1. /\ status = "lowering" /\ Top.kind = "MERGE" /\ EndStatement(r)
        /\ UNCHANGED <<irVars, nameVars, status>> /\ dropped' = dropped
    BY <1>3 DEF EndMerge, Active, runVars
  <2> HIDE DEF r
  <2> QED
    BY <2>1, EndStatementFlow
<1> QED
  BY <1>1, <1>2, <1>3, BranchIfFlow, EndThenFlow, EndElseFlow, MergeNameFlow
  DEF IfStatement

LEMMA WhileStatementFlow ==
  ASSUME TypeOK, TypeOK', FlowInv, WhileStatement
  PROVE  FlowInv'
BY BeginWhileFlow, HeaderNameFlow, EndHeaderFlow, BranchWhileFlow, EndLoopFlow
DEF WhileStatement

-----------------------------------------------------------------------------
(***************************************************************************)
(* The end of emit_function, and collapse_degenerate_phis.                 *)
(***************************************************************************)

\* The cursor does not move before the lowering ends.
AtStart == status = "lowering" => cursor.block = 1 /\ cursor.index = 1

LEMMA StartKept ==
  ASSUME AtStart, [Next]_vars
  PROVE  AtStart'
<1>1. ASSUME Expression
      PROVE  cursor' = cursor /\ status = "lowering"
  BY <1>1
  DEF Expression, Literal, Identifier, UnboundIdentifier, Readable, Wanting,
      BeginBinary, BeginNot, BeginLogic, BeginCall, BeginExpr, FinishBinary,
      FinishNot, DropLogic, SplitLogic, FinishLogic, FinishCall,
      ArgumentMismatch, Active, Fail, runVars
<1>2. ASSUME SimpleStatement
      PROVE  cursor' = cursor /\ status = "lowering"
  BY <1>2
  DEF SimpleStatement, StatementAfterReturn, DeclareOnly, DeclareAndAssign,
      Assign, AssignUnbound, BeginAssignment, FinishAssignment, BeginReturn,
      FinishReturn, ReturnNothing, CallStatement, BeginBlock, EndBlock,
      StartStatement, NextStatement, InList, Active, Fail, runVars
<1>3. ASSUME IfStatement
      PROVE  cursor' = cursor /\ status = "lowering"
  BY <1>3
  DEF IfStatement, BeginIf, DropIf, BranchIf, EndThen, EndElse, MergeName,
      EndMerge, StartStatement, NextStatement, InList, Active, runVars
<1>4. ASSUME WhileStatement
      PROVE  cursor' = cursor /\ status = "lowering"
  BY <1>4
  DEF WhileStatement, BeginWhile, HeaderName, EndHeader, BranchWhile, EndLoop,
      StartStatement, NextStatement, InList, Active, Fail, runVars
<1>5. ASSUME EndFunction
      PROVE  status' # "lowering"
  BY <1>5 DEF EndFunction, NoReturn
<1>6. ASSUME Collapse
      PROVE  status' # "lowering"
  BY <1>6 DEF Collapse, VisitPhi, NextBlock, EndPass
<1>7. ASSUME UNCHANGED vars
      PROVE  AtStart'
  BY <1>7 DEF AtStart, vars
<1> QED
  BY <1>1, <1>2, <1>3, <1>4, <1>5, <1>6, <1>7 DEF AtStart, Next

\* Only the statement list of the function is left on the stack.
LEMMA BodyIsAlone ==
  ASSUME TypeOK, Top.kind = "FBODY"
  PROVE  \A b : ~Awaited(b)
<1>1. /\ Len(ctrl) \in Nat /\ Len(ctrl) >= 1 /\ DOMAIN ctrl = 1 .. Len(ctrl)
      /\ Top = ctrl[Len(ctrl)]
  BY StackFrames
<1>2. Len(ctrl) = 1
  <2>1. \A i \in 2 .. Len(ctrl) : ctrl[i].kind # "FBODY"
    BY CallerKinds DEF TypeOK, StackType, Nested
  <2> QED
    BY <1>1, <2>1
<1> QED
  BY <1>1, <1>2, FreeFrame DEF Awaited, FreeKind

\* The end of emit_function, with the return instruction or without.
LEMMA EndFunctionFlow ==
  ASSUME TypeOK, TypeOK', FlowInv, AtStart, EndFunction
  PROVE  FlowInv'
<1>1. /\ Top.kind = "FBODY" /\ status = "lowering"
      /\ cursor' = cursor /\ cur' = cur /\ dropped' = dropped
      /\ values' = values
      /\ \/ status' \notin {"lowering", "collapsing", "done"}
            /\ blocks' = blocks
         \/ /\ status' = "collapsing"
            /\ \/ blocks[cur].terminated /\ blocks' = blocks
               \/ ~blocks[cur].terminated /\ blocks' = FinalReturn(blocks)
  BY DEF EndFunction, Active, nameVars, valueVars, NoReturn
<1>2. Flow /\ Lowering
  BY <1>1, InLowering
<1>3. /\ cur \in 1 .. Len(blocks) /\ Len(blocks) \in Nat /\ Len(values) \in Nat
      /\ blocks \in Seq(Block(Len(values), Len(blocks)))
      /\ DOMAIN blocks = 1 .. Len(blocks)
  BY StackFrames
<1>4. CASE status' \notin {"lowering", "collapsing", "done"} /\ blocks' = blocks
  BY <1>2, <1>4 DEF FlowInv, Flow, EveryBlockEnds, NoneLeft, NoDegeneratePhi
<1>5. CASE status' = "collapsing"
  <2> DEFINE instr == Instruction("RET", NoOperand, << >>)
  <2>1. instr.op = "RET"
    BY DEF Instruction
  <2>2. ~blocks[cur].terminated => blocks' = Emit(blocks, cur, instr)
    BY <1>1, <1>5 DEF FinalReturn
  <2>3. blocks[cur].terminated => blocks' = blocks
    BY <1>1, <1>5
  <2> HIDE DEF instr
  <2>4. /\ Flow' /\ Len(blocks') = Len(blocks) /\ Ends(blocks'[cur])
        /\ \A x \in 1 .. Len(blocks) : x # cur => blocks'[x] = blocks[x]
    <3>1. CASE blocks[cur].terminated
      <4>1. Ends(blocks[cur])
        BY <1>2, <1>3, <3>1 DEF Lowering, Marked
      <4> QED
        BY <1>2, <2>3, <3>1, <4>1 DEF Flow
    <3>2. CASE ~blocks[cur].terminated
      <4>1. Emitted(blocks, blocks', cur, instr) /\ ~Ends(blocks[cur])
        BY <1>2, <1>3, <2>2, <3>2, EmitShape, OpenCur
      <4>2. /\ Len(blocks') = Len(blocks)
            /\ blocks'[cur].code = Append(blocks[cur].code, instr)
            /\ \A x \in 1 .. Len(blocks) : x # cur => blocks'[x] = blocks[x]
        BY <4>1 DEF Emitted
      <4>3. Ends(blocks'[cur])
        <5>1. /\ Append(blocks[cur].code, instr) # << >>
              /\ Last(Append(blocks[cur].code, instr)) = instr
          <6>1. blocks[cur].code \in Seq(Instr(Len(values), Len(blocks)))
            BY <1>3, BlockFields
          <6> QED
            BY <6>1, AppendParts
        <5> QED
          BY <2>1, <4>2, <5>1 DEF Ends, Terminator
      <4>4. Flow'
        <5> DEFINE p == Len(values)
                   m == Len(blocks)
                   new == blocks'
        <5>1. /\ p \in Nat /\ m \in Nat /\ blocks \in Seq(Block(p, m))
              /\ new \in Seq(Block(p, m)) /\ Emitted(blocks, new, cur, instr)
          BY <1>1, <1>3, <4>1, <4>2 DEF TypeOK, IRType
        <5>2. FlowOf(blocks) /\ instr.op \notin {"BR", "CBR", "PHI"}
          BY <1>2, <2>1 DEF Flow
        <5> HIDE DEF p, m, new
        <5>3. FlowOf(new)
          BY <1>3, <4>1, <5>1, <5>2, FlowEmit
        <5> QED
          BY <5>3 DEF Flow, new
      <4> QED
        BY <4>2, <4>3, <4>4
    <3> QED
      BY <3>1, <3>2
  <2>5. DOMAIN blocks' = 1 .. Len(blocks)
    BY <2>4 DEF TypeOK, IRType
  <2>6. EveryBlockEnds'
    <3> SUFFICES ASSUME ~dropped', NEW b \in 1 .. Len(blocks)
                 PROVE  Ends(blocks'[b])
      BY <2>5 DEF EveryBlockEnds, Ends
    <3>1. b = cur \/ blocks[b].terminated
      BY <1>1, <1>2, <1>3, BodyIsAlone DEF Lowering, Covered
    <3>2. b # cur => Ends(blocks[b])
      BY <1>2, <1>3, <3>1 DEF Lowering, Marked
    <3> QED
      BY <2>4, <3>2
  <2>7. NoneLeft'
    <3>1. cursor'.block = 1 /\ cursor'.index = 1
      BY <1>1 DEF AtStart
    <3>2. \A b \in DOMAIN blocks' : \A i \in DOMAIN blocks'[b].code :
            ~(b < 1) /\ ~(i < 1)
      <4> SUFFICES ASSUME NEW b \in DOMAIN blocks',
                          NEW i \in DOMAIN blocks'[b].code
                   PROVE  ~(b < 1) /\ ~(i < 1)
        OBVIOUS
      <4>1. blocks' \in Seq(Block(Len(values'), Len(blocks')))
        BY DEF TypeOK, IRType
      <4>2. blocks'[b] \in Block(Len(values'), Len(blocks'))
        BY <4>1
      <4>3. blocks'[b].code \in Seq(Instr(Len(values'), Len(blocks')))
        BY <4>2 DEF Block
      <4>4. i \in Nat \ {0}
        BY <4>3
      <4> QED
        BY <1>3, <2>5, <4>4
    <3> QED
      BY <3>1, <3>2 DEF NoneLeft
  <2> QED
    BY <1>5, <2>4, <2>6, <2>7 DEF FlowInv, NoDegeneratePhi
<1> QED
  BY <1>1, <1>4, <1>5

\* A phi is removed: where the code stands, control flows as before.
LEMMA RemovePhiFlow ==
  ASSUME TypeOK, TypeOK', FlowInv, VisitPhi,
         PhiCollapses(CursorCode[cursor.index])
  PROVE  FlowInv'
<1> DEFINE b   == cursor.block
           i   == cursor.index
           phi == CursorCode[i]
           id  == phi.dest.id
           o   == Replacement(phi)
           rw  == RewriteUses(blocks, id, o)
           p   == Len(values)
           m   == Len(blocks)
           new == blocks'
<1>1. /\ status = "collapsing" /\ status' = "collapsing"
      /\ dropped' = dropped /\ b <= m /\ AtPhi
      /\ new = RemoveInstr(rw, b, i)
      /\ cursor' = [cursor EXCEPT !.changed = TRUE] /\ values' = values
  BY DEF VisitPhi, nameVars, valueVars
<1>2. /\ m \in Nat /\ p \in Nat /\ blocks \in Seq(Block(p, m))
      /\ DOMAIN blocks = 1 .. m
  BY StackFrames
<1>3. cursor \in [block : Nat \ {0}, index : Nat \ {0}, changed : BOOLEAN]
  BY DEF TypeOK, RestType
<1>4. /\ b \in 1 .. m /\ i \in 1 .. Len(blocks[b].code)
      /\ blocks[b].code[i].op = "PHI"
      /\ blocks[b].code \in Seq(Instr(p, m))
      /\ phi = blocks[b].code[i]
  <2>1. b \in 1 .. m
    BY <1>1, <1>2, <1>3
  <2>2. blocks[b].code \in Seq(Instr(p, m)) /\ Len(blocks[b].code) \in Nat
    BY <1>2, <2>1, BlockFields
  <2> QED
    BY <1>1, <1>3, <2>1, <2>2 DEF AtPhi, CursorCode
<1>5. cursor'.changed
  BY <1>1, <1>3
<1>6. o \in Operand(p)
  <2>1. phi \in Instr(p, m)
    BY <1>4
  <2> QED
    BY <1>2, <2>1, ReplacementType
<1> HIDE DEF id, o, phi, b, i, p, m, new
<1>7. /\ rw \in Seq(Block(p, m)) /\ Len(rw) = m
      /\ \A x \in 1 .. m : Rewritten(blocks[x], rw[x], id, o)
  BY <1>2, <1>6, RewriteType, RewriteEffect DEF m
<1> HIDE DEF rw
<1>8. b \in 1 .. Len(rw) /\ i \in 1 .. Len(rw[b].code)
      /\ rw[b].code[i].op = "PHI"
  BY <1>4, <1>7 DEF Rewritten
<1>9. /\ Len(new) = m /\ Removed(rw[b], new[b], i)
      /\ \A x \in 1 .. m : x # b => new[x] = rw[x]
  BY <1>1, <1>2, <1>7, <1>8, RemoveEffect
<1>10. new \in Seq(Block(p, m)) /\ DOMAIN new = 1 .. m
  BY <1>1, <1>9 DEF TypeOK, IRType, new, p
<1>11. ASSUME NEW x \in 1 .. m
       PROVE  /\ BlockFlow(new[x]) /\ (Ends(new[x]) <=> Ends(blocks[x]))
              /\ new[x].succ = blocks[x].succ /\ new[x].pred = blocks[x].pred
  <2>1. /\ blocks[x] \in Block(p, m) /\ rw[x] \in Block(p, m)
        /\ new[x] \in Block(p, m)
    BY <1>2, <1>7, <1>10
  <2>2. BlockFlow(blocks[x])
    BY <1>2 DEF FlowInv, Flow, FlowOf
  <2>3. BlockFlow(rw[x]) /\ (Ends(rw[x]) <=> Ends(blocks[x]))
    <3> DEFINE old == blocks[x]
               nb  == rw[x]
    <3>1. /\ old \in Block(p, m) /\ nb \in Block(p, m) /\ BlockFlow(old)
          /\ Rewritten(old, nb, id, o)
      BY <1>7, <2>1, <2>2
    <3> HIDE DEF old, nb
    <3>2. BlockFlow(nb) /\ (Ends(nb) <=> Ends(old))
      BY <1>2, <3>1, RewrittenFlow
    <3> QED
      BY <3>2 DEF old, nb
  <2>4. rw[x].succ = blocks[x].succ /\ rw[x].pred = blocks[x].pred
    BY <1>7 DEF Rewritten
  <2>5. CASE x = b
    <3> DEFINE old == rw[b]
               nb  == new[b]
    <3>1. /\ old \in Block(p, m) /\ nb \in Block(p, m) /\ BlockFlow(old)
          /\ Removed(old, nb, i) /\ i \in 1 .. Len(old.code)
          /\ old.code[i].op = "PHI"
      BY <1>8, <1>9, <2>1, <2>3, <2>5
    <3> HIDE DEF old, nb
    <3>2. BlockFlow(nb) /\ (Ends(nb) <=> Ends(old))
      BY <1>2, <3>1, RemovedFlow
    <3>3. nb.succ = old.succ /\ nb.pred = old.pred
      BY <3>1 DEF Removed
    <3> QED
      BY <2>3, <2>4, <2>5, <3>2, <3>3 DEF old, nb
  <2>6. CASE x # b
    BY <1>9, <2>3, <2>4, <2>6
  <2> QED
    BY <2>5, <2>6
<1>12. Flow'
  <2>1. EdgesAgree(blocks)
    BY DEF FlowInv, Flow, FlowOf
  <2>2. EdgesAgree(new)
    BY <1>2, <1>10, <1>11, <2>1 DEF EdgesAgree
  <2>3. FlowOf(new)
    BY <1>10, <1>11, <2>2 DEF FlowOf
  <2> QED
    BY <2>3 DEF Flow, new
<1>13. EveryBlockEnds'
  <2> SUFFICES ASSUME ~dropped', NEW x \in 1 .. m
               PROVE  Ends(blocks'[x])
    BY <1>10 DEF EveryBlockEnds, Ends, new
  <2>1. Ends(blocks[x])
    BY <1>1, <1>2 DEF FlowInv, EveryBlockEnds, Ends
  <2> QED
    BY <1>11, <2>1 DEF new
<1> QED
  BY <1>1, <1>5, <1>12, <1>13 DEF FlowInv, NoneLeft, NoDegeneratePhi

\* The cursor passes a phi, goes to the next block, or the pass ends.
LEMMA PassFlow ==
  ASSUME TypeOK, FlowInv, UNCHANGED <<blocks, dropped>>,
         status = "collapsing", status' \in {"collapsing", "done"},
         NoneLeft', NoDegeneratePhi'
  PROVE  FlowInv'
BY DEF FlowInv, Flow, EveryBlockEnds

LEMMA CollapseFlow ==
  ASSUME TypeOK, TypeOK', FlowInv, Collapse
  PROVE  FlowInv'
<1>1. cursor \in [block : Nat \ {0}, index : Nat \ {0}, changed : BOOLEAN]
  BY DEF TypeOK, RestType
<1>2. /\ Len(blocks) \in Nat /\ DOMAIN blocks = 1 .. Len(blocks)
      /\ \A x \in 1 .. Len(blocks) :
           /\ Len(blocks[x].code) \in Nat
           /\ DOMAIN blocks[x].code = 1 .. Len(blocks[x].code)
  <2>1. /\ blocks \in Seq(Block(Len(values), Len(blocks)))
        /\ Len(blocks) \in Nat /\ Len(values) \in Nat
        /\ DOMAIN blocks = 1 .. Len(blocks)
    BY StackFrames
  <2>2. ASSUME NEW x \in 1 .. Len(blocks)
        PROVE  /\ Len(blocks[x].code) \in Nat
               /\ DOMAIN blocks[x].code = 1 .. Len(blocks[x].code)
    <3>1. blocks[x].code \in Seq(Instr(Len(values), Len(blocks)))
      BY <2>1, BlockFields
    <3> QED
      BY <3>1
  <2> QED
    BY <2>1, <2>2
<1>3. CASE VisitPhi /\ PhiCollapses(CursorCode[cursor.index])
  BY <1>3, RemovePhiFlow
<1>4. CASE VisitPhi /\ ~PhiCollapses(CursorCode[cursor.index])
  <2>1. /\ cursor' = [cursor EXCEPT !.index = @ + 1]
        /\ UNCHANGED <<blocks, dropped, status>> /\ status = "collapsing"
    BY <1>4 DEF VisitPhi
  <2>2. /\ cursor'.block = cursor.block /\ cursor'.changed = cursor.changed
        /\ cursor'.index = cursor.index + 1
    BY <1>1, <2>1
  <2>3. ASSUME ~cursor'.changed, NEW b \in 1 .. Len(blocks),
               NEW i \in 1 .. Len(blocks[b].code),
               b < cursor.block
                 \/ (b = cursor.block /\ i < cursor.index + 1),
               blocks[b].code[i].op = "PHI"
        PROVE  ~PhiCollapses(blocks[b].code[i])
    <3>1. CASE b = cursor.block /\ i = cursor.index
      BY <1>4, <3>1 DEF CursorCode
    <3>2. CASE b < cursor.block \/ (b = cursor.block /\ i < cursor.index)
      BY <1>2, <2>1, <2>2, <2>3, <3>2 DEF FlowInv, NoneLeft
    <3> QED
      BY <1>1, <1>2, <2>3, <3>1, <3>2
  <2>4. NoneLeft'
    BY <1>2, <2>1, <2>2, <2>3 DEF NoneLeft
  <2> QED
    BY <2>1, <2>4, PassFlow DEF NoDegeneratePhi
<1>5. CASE NextBlock
  <2>1. /\ cursor' = [cursor EXCEPT !.block = @ + 1, !.index = 1] /\ ~AtPhi
        /\ UNCHANGED <<blocks, dropped, status>> /\ status = "collapsing"
    BY <1>5 DEF NextBlock, irVars
  <2>2. /\ cursor'.block = cursor.block + 1
        /\ cursor'.changed = cursor.changed /\ cursor'.index = 1
    BY <1>1, <2>1
  <2>3. ASSUME ~cursor'.changed, NEW b \in 1 .. Len(blocks),
               NEW i \in 1 .. Len(blocks[b].code),
               b < cursor.block + 1,
               blocks[b].code[i].op = "PHI"
        PROVE  ~PhiCollapses(blocks[b].code[i])
    <3>1. b = cursor.block => i < cursor.index
      <4> SUFFICES ASSUME b = cursor.block, ~(i < cursor.index)
                   PROVE  FALSE
        OBVIOUS
      <4>1. IsLeadingPhi(blocks[b].code, i)
        BY <1>2, <2>3 DEF FlowInv, Flow, FlowOf, BlockFlow
      <4>2. cursor.index \in 1 .. i /\ cursor.index <= Len(blocks[b].code)
        BY <1>1, <1>2
      <4>3. blocks[b].code[cursor.index].op = "PHI"
        BY <4>1, <4>2 DEF IsLeadingPhi
      <4> QED
        BY <2>1, <4>2, <4>3 DEF AtPhi, CursorCode
    <3>2. b < cursor.block \/ b = cursor.block
      BY <1>1, <2>3
    <3> QED
      BY <1>2, <2>1, <2>2, <2>3, <3>1, <3>2 DEF FlowInv, NoneLeft
  <2>4. ~(\E i \in Nat \ {0} : i < 1)
    OBVIOUS
  <2>5. NoneLeft'
    BY <1>2, <2>1, <2>2, <2>3, <2>4 DEF NoneLeft
  <2> QED
    BY <2>1, <2>5, PassFlow DEF NoDegeneratePhi
<1>6. CASE EndPass
  <2>1. /\ cursor' = [block |-> 1, index |-> 1, changed |-> FALSE]
        /\ UNCHANGED <<blocks, dropped>> /\ status = "collapsing"
        /\ cursor.block > Len(blocks)
        /\ status' = IF cursor.changed THEN "collapsing" ELSE "done"
    BY <1>6 DEF EndPass, irVars
  <2>2. cursor'.block = 1 /\ cursor'.index = 1
    BY <2>1
  <2>3. NoneLeft'
    <3>1. \A b \in 1 .. Len(blocks) : \A i \in 1 .. Len(blocks[b].code) :
            ~(b < 1) /\ ~(i < 1)
      BY <1>2
    <3> QED
      BY <1>2, <2>1, <2>2, <3>1 DEF NoneLeft
  <2>4. NoDegeneratePhi'
    <3> SUFFICES ASSUME ~cursor.changed, NEW b \in 1 .. Len(blocks),
                        NEW i \in 1 .. Len(blocks[b].code),
                        blocks[b].code[i].op = "PHI"
                 PROVE  ~PhiCollapses(blocks[b].code[i])
      BY <1>2, <2>1 DEF NoDegeneratePhi, Positions, At
    <3>1. b < cursor.block
      BY <1>1, <1>2, <2>1
    <3> QED
      BY <1>2, <2>1, <3>1 DEF FlowInv, NoneLeft
  <2> QED
    BY <2>1, <2>3, <2>4, PassFlow
<1> QED
  BY <1>3, <1>4, <1>5, <1>6 DEF Collapse

-----------------------------------------------------------------------------
(***************************************************************************)
(* The beginning, every step, and the theorems.                            *)
(***************************************************************************)

\* An empty block: no edges, no code, nothing that waits.
LEMMA InitFlow ==
  ASSUME Init
  PROVE  FlowInv /\ AtStart
<1> DEFINE top == [kind |-> "FBODY", rets |-> FALSE]
<1>1. /\ blocks = <<NewBlock>> /\ cur = 1 /\ ctrl = <<top>>
      /\ status = "lowering" /\ dropped = FALSE
      /\ cursor = [block |-> 1, index |-> 1, changed |-> FALSE]
  BY DEF Init
<1>2. /\ DOMAIN blocks = {1} /\ blocks[1] = NewBlock
      /\ DOMAIN ctrl = {1} /\ ctrl[1] = top /\ Top = top
      /\ top.kind = "FBODY"
  BY <1>1 DEF Top, Last
<1>3. /\ NewBlock.code = << >> /\ NewBlock.succ = << >>
      /\ NewBlock.pred = << >> /\ NewBlock.terminated = FALSE
  BY DEF NewBlock
<1> HIDE DEF top
<1>4. Flow
  <2>1. BlockFlow(blocks[1])
    BY <1>2, <1>3 DEF BlockFlow
  <2>2. EdgesAgree(blocks)
    BY <1>2, <1>3 DEF EdgesAgree, Occurrences
  <2> QED
    BY <1>2, <2>1, <2>2 DEF Flow, FlowOf
<1>5. \A b : ~Awaits(top, b)
  BY <1>2 DEF Awaits
<1>6. \A b : ~Awaited(b)
  BY <1>2, <1>5 DEF Awaited
<1>7. Marked /\ Unstarted /\ Apart /\ OpenForCode /\ ExpressionsNest /\ Covered
  BY <1>1, <1>2, <1>3, <1>5, <1>6
  DEF Marked, Ends, Unstarted, Apart, OpenForCode, ListKind, ExpressionsNest,
      Covered, ExprKind
<1>8. \A i \in DOMAIN ctrl : FrameFlow(ctrl[i])
  BY <1>2 DEF FrameFlow, FlowIn
<1> QED
  BY <1>1, <1>4, <1>7, <1>8
  DEF FlowInv, Lowering, EveryBlockEnds, NoneLeft, NoDegeneratePhi, AtStart

LEMMA NextFlow ==
  ASSUME TypeOK, TypeOK', FlowInv, AtStart, [Next]_vars
  PROVE  FlowInv'
<1>1. CASE UNCHANGED vars
  <2>1. /\ blocks' = blocks /\ cur' = cur /\ values' = values /\ ctrl' = ctrl
        /\ status' = status /\ dropped' = dropped /\ cursor' = cursor
    BY <1>1 DEF vars, irVars, valueVars
  <2>2. Flow'
    BY <2>1 DEF FlowInv, Flow
  <2>3. Top' = Top
    BY <2>1 DEF Top
  <2>4. \A b : Awaited(b)' <=> Awaited(b)
    BY <2>1 DEF Awaited
  <2>5. ASSUME Lowering PROVE Lowering'
    <3>1. Marked' /\ Apart' /\ ExpressionsNest'
      BY <2>1, <2>5 DEF Lowering, Marked, Apart, ExpressionsNest
    <3>2. Unstarted' /\ Covered'
      BY <2>1, <2>4, <2>5 DEF Lowering, Unstarted, Covered
    <3>3. OpenForCode'
      BY <2>1, <2>3, <2>5 DEF Lowering, OpenForCode
    <3>4. \A i \in DOMAIN ctrl : FrameFlow(ctrl[i])'
      BY <2>1, <2>5 DEF Lowering, FrameFlow, FlowIn
    <3> QED
      BY <2>1, <3>1, <3>2, <3>3, <3>4 DEF Lowering
  <2>6. EveryBlockEnds'
    BY <2>1 DEF FlowInv, EveryBlockEnds
  <2>7. NoneLeft' /\ NoDegeneratePhi'
    BY <2>1 DEF FlowInv, NoneLeft, NoDegeneratePhi
  <2> QED
    BY <2>1, <2>2, <2>5, <2>6, <2>7 DEF FlowInv
<1>2. CASE Expression \/ SimpleStatement \/ IfStatement \/ WhileStatement
  BY <1>2, ExpressionFlow, SimpleStatementFlow, IfStatementFlow,
     WhileStatementFlow
<1>3. CASE EndFunction \/ Collapse
  BY <1>3, EndFunctionFlow, CollapseFlow
<1> QED
  BY <1>1, <1>2, <1>3 DEF Next

\* For programs of any size: FlowInv holds in every reachable state.
THEOREM FlowInvariant == Spec => [](TypeOK /\ FlowInv)
<1>1. Init => TypeOK /\ FlowInv /\ AtStart
  BY InitType, InitFlow
<1>2. TypeOK /\ FlowInv /\ AtStart /\ [Next]_vars
        => (TypeOK /\ FlowInv /\ AtStart)'
  BY NextType, NextFlow, StartKept
<1> QED
  BY <1>1, <1>2, PTL DEF Spec

\* For programs of any size: at every moment of the lowering and of the
\* removal of phis, the edges are recorded alike at both ends, they are the
\* targets of the branch that ends a block, and nothing follows a branch.
THEOREM ControlFlowAgrees == Spec => []ControlFlowConsistent
<1>1. FlowInv => ControlFlowConsistent
  BY DEF FlowInv, Flow, FlowOf, EdgesAgree, BlockFlow, ControlFlowConsistent
<1> QED
  BY <1>1, FlowInvariant, PTL

\* The phis of a block come first, with one operand for each predecessor in
\* the order of the edges: ifs, connectives and loops, open or closed.
THEOREM PhisMatch == Spec => []PhisMatchPredecessors
<1>1. FlowInv => PhisMatchPredecessors
  BY DEF FlowInv, Flow, FlowOf, BlockFlow, PhisMatchPredecessors, Positions, At
<1> QED
  BY <1>1, FlowInvariant, PTL

\* When no node was skipped, every block of a function whose lowering
\* succeeded ends in a branch or a return.
THEOREM BlocksEnd == Spec => []EveryBlockEnds
<1>1. FlowInv => EveryBlockEnds
  BY DEF FlowInv
<1> QED
  BY <1>1, FlowInvariant, PTL

\* collapse_degenerate_phis leaves no phi that its definition would remove.
THEOREM NothingLeftToCollapse == Spec => []NoDegeneratePhi
<1>1. FlowInv => NoDegeneratePhi
  BY DEF FlowInv
<1> QED
  BY <1>1, FlowInvariant, PTL
=============================================================================
