-------------------------------- MODULE SsaIR --------------------------------
(***************************************************************************)
(* The SSA intermediate representation of include/ssair.h and the helpers  *)
(* of src/ssair.c that build and rewrite it.  Everything here is a pure    *)
(* operator on a function body: a sequence of basic blocks.                *)
(*                                                                         *)
(* Ids are 1-based: block k of the model is `block.(k-1)` of the printed   *)
(* IR and value k is function->values[k-1], so that 0 can play             *)
(* INVALID_VALUE.  String literals, opcodes that only differ in the        *)
(* arithmetic they perform, and ownership of operand copies are abstracted.*)
(***************************************************************************)
EXTENDS Integers, SequencesExt

Invalid == 0

\* TYPE of include/symtab.h; ValType is what is_value_type accepts.
ValType == {"INT", "FLOAT", "CHAR", "BOOL", "STR"}
Type    == ValType \cup {"VOID", "F", "TYPE_ERROR"}

\* ARITH stands for add..fdiv, CMP for eq..ge.
Opcode == {"COPY", "ARITH", "CMP", "NOT", "CALL", "RET", "PHI", "BR", "CBR"}

\* Operands of a function with n values; kind LIT stands for the five literal
\* kinds, its type tells which one.
ValueOperand(n) == [kind : {"VALUE"}, type : Type, id : 1 .. n]
Operand(n)      == ValueOperand(n) \cup
                   [kind : {"NONE", "LIT"}, type : Type, id : Nat]

NoOperand      == [kind |-> "NONE",  type |-> "VOID", id |-> 0]
ValueOp(id, t) == [kind |-> "VALUE", type |-> t,      id |-> id]
LitOp(t, v)    == [kind |-> "LIT",   type |-> t,      id |-> v]

\* Instructions of a function with n values and m blocks.  For a branch the
\* targets are in blks; for a phi args[i] is the value received from
\* predecessor blks[i].
Instr(n, m) ==
  [op : Opcode \ {"PHI"}, dest : Operand(n), args : Seq(Operand(n)),
   blks : Seq(1 .. m)]
  \cup [op : {"PHI"}, dest : ValueOperand(n), args : Seq(Operand(n)),
        blks : Seq(1 .. m)]

Instruction(op, dest, args) ==
  [op |-> op, dest |-> dest, args |-> args, blks |-> << >>]

Phi(dest, args, blks) ==
  [op |-> "PHI", dest |-> dest, args |-> args, blks |-> blks]

Block(n, m) == [code : Seq(Instr(n, m)), succ : Seq(1 .. m),
                pred : Seq(1 .. m), terminated : BOOLEAN]

\* create_block
NewBlock == [code |-> << >>, succ |-> << >>, pred |-> << >>,
             terminated |-> FALSE]

-----------------------------------------------------------------------------
(***************************************************************************)
(* Building blocks.                                                        *)
(***************************************************************************)

\* append_instruction on block b
Emit(bs, b, instr) == [bs EXCEPT ![b].code = Append(@, instr)]

\* link_blocks
Link(bs, from, to) ==
  LET linked == [bs EXCEPT ![from].succ = Append(@, to)]
  IN  [linked EXCEPT ![to].pred = Append(@, from)]

Terminate(bs, b) == [bs EXCEPT ![b].terminated = TRUE]

\* emit_branch from block b
Branch(bs, b, target) ==
  LET br == [op |-> "BR", dest |-> NoOperand, args |-> << >>,
             blks |-> <<target>>]
  IN  Terminate(Link(Emit(bs, b, br), b, target), b)

CondBranchLinksOnce(bs, b, condition, onTrue, onFalse) ==
  LET cbr == [op |-> "CBR", dest |-> NoOperand, args |-> <<condition>>,
              blks |-> <<onTrue, onFalse>>]
  IN  Terminate(Link(Emit(bs, b, cbr), b, onTrue), b)

CondBranchSwapped(bs, b, condition, onTrue, onFalse) ==
  LET cbr == [op |-> "CBR", dest |-> NoOperand, args |-> <<condition>>,
              blks |-> <<onFalse, onTrue>>]
  IN  Terminate(Link(Link(Emit(bs, b, cbr), b, onFalse), b, onTrue), b)

\* emit_conditional_branch from block b
CondBranch(bs, b, condition, onTrue, onFalse) ==
  LET cbr == [op |-> "CBR", dest |-> NoOperand, args |-> <<condition>>,
              blks |-> <<onTrue, onFalse>>]
  IN  Terminate(Link(Link(Emit(bs, b, cbr), b, onTrue), b, onFalse), b)

\* emit_phi_entry
PhiEntry(phi, value, from) ==
  [phi EXCEPT !.args = Append(@, value), !.blks = Append(@, from)]

\* The phis of a block are its leading instructions.
IsLeadingPhi(code, i) == \A j \in 1 .. i : code[j].op = "PHI"

-----------------------------------------------------------------------------
(***************************************************************************)
(* Phi simplification: same_operand is equality of the operand records.    *)
(***************************************************************************)

Refers(o, id) == o.kind = "VALUE" /\ o.id = id

\* The incoming values of a phi that are not the phi itself.
Incoming(phi) ==
  { phi.args[i] : i \in { j \in DOMAIN phi.args :
                            ~Refers(phi.args[j], phi.dest.id) } }

\* phi_collapses
PhiCollapses(phi) == \E o \in Incoming(phi) : Incoming(phi) = {o}

Replacement(phi) == CHOOSE o \in Incoming(phi) : TRUE

\* rewrite_operand
RewriteOperand(use, from, replacement) ==
  IF Refers(use, from) THEN replacement ELSE use

RewriteInstr(instr, from, replacement) ==
  [instr EXCEPT !.args =
     [j \in DOMAIN instr.args |->
        RewriteOperand(instr.args[j], from, replacement)]]

\* rewrite_value_uses
RewriteUses(bs, from, replacement) ==
  [b \in DOMAIN bs |->
     [bs[b] EXCEPT !.code =
        [i \in DOMAIN bs[b].code |->
           RewriteInstr(bs[b].code[i], from, replacement)]]]

\* The unlinking in collapse_degenerate_phis
RemoveInstr(bs, b, i) == [bs EXCEPT ![b].code = RemoveAt(@, i)]

-----------------------------------------------------------------------------
(***************************************************************************)
(* What a well-formed function body is: vocabulary of the properties.      *)
(***************************************************************************)

Terminator == {"BR", "CBR", "RET"}

\* All positions <<block, index>> of instructions.
Positions(bs) == UNION { {b} \X DOMAIN bs[b].code : b \in DOMAIN bs }

At(bs, pos) == bs[pos[1]].code[pos[2]]

Defines(instr, id) == Refers(instr.dest, id)

DefSites(bs, id) == { pos \in Positions(bs) : Defines(At(bs, pos), id) }

\* Blocks reachable from the entry block without entering block d;
\* d = 0 bars no block.
ReachableAvoiding(bs, d) ==
  LET reach[k \in 0 .. Len(bs)] ==
        IF k = 0 THEN {1} \ {d}
        ELSE LET before == reach[k - 1]
             IN  before \cup
                 ((UNION { ToSet(bs[p].succ) : p \in before }) \ {d})
  IN  reach[Len(bs)]

Reachable(bs) == ReachableAvoiding(bs, 0)
=============================================================================
