----------------------------- MODULE ValueProofs -----------------------------
(***************************************************************************)
(* The values of a function, for programs of any size: no two are printed  *)
(* alike (VersionsUnique), each is assigned once (SingleAssignment), and   *)
(* they have the types of the names they are bound to (BindingTypesMatch,  *)
(* CodeIsTyped and InitialisedIsBound).                                    *)
(*                                                                         *)
(* VersionsUnique is not inductive: the counters of new_value_view must    *)
(* also be ahead of every version that was given.  SingleAssignment needs  *)
(* far more: that every value a binding, a snapshot or an operand on the   *)
(* stack names is a parameter or defined (or the target of an expression   *)
(* still to be computed), and that the targets that still wait are         *)
(* different and undefined.                                                *)
(*                                                                         *)
(* For the types, three invariants build on one another.  ScopeInv ties    *)
(* the scopes of the analysis to the statement lists that are being        *)
(* lowered, so that no name of the function header ever goes out of sight. *)
(* TypedInv gives every name one type, and every operand, snapshot and     *)
(* activation the types of the names it stands for.  BoundInv says that a  *)
(* snapshot binds whatever was bound when it was taken, so that restoring  *)
(* it unbinds no name that may still be read.                              *)
(***************************************************************************)
EXTENDS LowerProofs

\* The counter of a name is above the versions of the values of that name.
VersionsBelow ==
  \A i \in DOMAIN values : values[i].version < nextVersion[values[i].name]

VersionInv == TypeOK /\ VersionsBelow /\ VersionsUnique

-----------------------------------------------------------------------------
\* new_value_view keeps the counters ahead and the versions apart.
LEMMA NewValueVersions ==
  ASSUME VersionInv, NEW n \in AllName, NEW t, NewValue(n, t)
  PROVE  VersionsBelow' /\ VersionsUnique'
<1> DEFINE new == [name |-> n, version |-> nextVersion[n], type |-> t]
<1>1. /\ values \in Values /\ nextVersion \in [AllName -> Nat]
      /\ \A i \in DOMAIN values : /\ values[i].name \in AllName
                                  /\ values[i].version \in Nat
  <2>1. values \in Values /\ nextVersion \in [AllName -> Nat]
    BY DEF VersionInv, TypeOK, NamesType
  <2>2. ASSUME NEW i \in DOMAIN values
        PROVE  values[i] \in [name : AllName, version : Nat, type : Type]
    <3>1. i \in 1 .. Len(values)
      BY <2>1 DEF Values
    <3>2. QED
      BY <2>1, <3>1, ElementType DEF Values
  <2>3. QED
    BY <2>1, <2>2
<1>2. /\ DOMAIN values' = DOMAIN values \cup {Len(values) + 1}
      /\ Len(values) + 1 \notin DOMAIN values
      /\ \A i \in DOMAIN values : values'[i] = values[i]
      /\ values'[Len(values) + 1] = new
  BY <1>1 DEF NewValue, Values
<1>3. nextVersion' = [nextVersion EXCEPT ![n] = nextVersion[n] + 1]
  BY DEF NewValue
<1>4. \A i \in DOMAIN values : values[i].version < nextVersion[values[i].name]
  BY DEF VersionInv, VersionsBelow
<1>5. new.name = n /\ new.version = nextVersion[n]
  OBVIOUS
<1> HIDE DEF new
<1>6. VersionsBelow'
  <2>1. nextVersion'[n] = nextVersion[n] + 1 /\ nextVersion[n] \in Nat
    BY <1>1, <1>3
  <2>2. ASSUME NEW i \in DOMAIN values
        PROVE  values'[i].version < nextVersion'[values'[i].name]
    <3>1. nextVersion[values[i].name] <= nextVersion'[values[i].name]
          /\ nextVersion'[values[i].name] \in Nat
      BY <1>1, <1>3
    <3>2. QED
      BY <1>1, <1>2, <1>4, <3>1
  <2>3. new.version < nextVersion'[new.name]
    BY <1>5, <2>1
  <2>4. QED
    BY <1>2, <2>2, <2>3 DEF VersionsBelow
<1>7. VersionsUnique'
  <2>1. ASSUME NEW i \in DOMAIN values, values[i].name = n
        PROVE  values[i].version # nextVersion[n]
    BY <1>1, <1>4, <2>1
  <2>2. ASSUME NEW i \in DOMAIN values', NEW j \in DOMAIN values',
               values'[i].name = values'[j].name,
               values'[i].version = values'[j].version
        PROVE  i = j
    <3>1. CASE i \in DOMAIN values /\ j \in DOMAIN values
      BY <1>2, <2>2, <3>1 DEF VersionInv, VersionsUnique
    <3>2. CASE i = Len(values) + 1 /\ j \in DOMAIN values
      BY <1>2, <1>5, <2>1, <2>2, <3>2
    <3>3. CASE i \in DOMAIN values /\ j = Len(values) + 1
      BY <1>2, <1>5, <2>1, <2>2, <3>3
    <3>4. QED
      BY <1>2, <3>1, <3>2, <3>3
  <2>3. QED
    BY <2>2 DEF VersionsUnique
<1>8. QED
  BY <1>6, <1>7

\* No step changes the values but by new_value_view: values are never
\* removed, renamed or renumbered, not even when their phi is removed.
ValuesStep ==
  \/ UNCHANGED valueVars
  \/ \E n \in AllName : \E t : NewValue(n, t)

\* The name at which a loop over the names stands.
LEMMA LoopName ==
  ASSUME TypeOK, Top.kind \in {"MERGE", "HEADER"}, Top.k <= Top.count
  PROVE  names[Top.k] \in AllName
<1>1. Top \in MergeFrame(Len(values), Len(blocks), Len(names))
              \cup HeaderFrame(Len(values), Len(blocks), Len(names))
  BY TopType, FrameByKind
<1>2. Top.k \in 1 .. Len(names)
  BY <1>1, TopType DEF MergeFrame, HeaderFrame
<1>3. QED
  BY <1>2 DEF TypeOK, NamesType

\* A result is a new temporary or goes to a destination that exists.
LEMMA NewResultStep ==
  ASSUME NEW target, NEW t, NewResult(target, t)
  PROVE  ValuesStep
BY DEF NewResult, ValuesStep, AllName

\* set_error creates no value.
LEMMA FailStep ==
  ASSUME NEW e, Fail(e)
  PROVE  ValuesStep
BY DEF Fail, ValuesStep, nameVars

\* Expressions create values by new_value_view only.
LEMMA ExpressionStep ==
  ASSUME Expression
  PROVE  ValuesStep
<1>1. CASE \E t \in ValType : Literal(t)
  BY <1>1 DEF Literal, ValuesStep, nameVars
<1>2. CASE \E n \in Name : Identifier(n) \/ UnboundIdentifier(n)
  BY <1>2, FailStep DEF Identifier, UnboundIdentifier, ValuesStep, nameVars
<1>3. CASE \E f : BeginExpr(f)
  BY <1>3 DEF BeginExpr, ValuesStep, nameVars
<1>4. CASE FinishBinary
  BY <1>4, FailStep, NewResultStep DEF FinishBinary
<1>5. CASE FinishNot
  BY <1>5, FailStep, NewResultStep DEF FinishNot
<1>6. CASE DropLogic \/ SplitLogic
  BY <1>6 DEF DropLogic, SplitLogic, ValuesStep, nameVars
<1>7. CASE FinishLogic
  BY <1>7, NewResultStep DEF FinishLogic
<1>8. CASE FinishCall
  BY <1>8, NewResultStep DEF FinishCall, ValuesStep
<1>9. CASE ArgumentMismatch
  BY <1>9, FailStep DEF ArgumentMismatch
<1>10. ASSUME NEW t, NEW op, BeginBinary(op, t)
       PROVE  \E f : BeginExpr(f)
  BY <1>10 DEF BeginBinary
<1>11. ASSUME BeginNot
       PROVE  \E f : BeginExpr(f)
  BY <1>11 DEF BeginNot
<1>12. ASSUME NEW isOr, BeginLogic(isOr)
       PROVE  \E f : BeginExpr(f)
  BY <1>12 DEF BeginLogic
<1>13. ASSUME NEW g, BeginCall(g)
       PROVE  \E f : BeginExpr(f)
  BY <1>13 DEF BeginCall
<1>14. QED
  BY <1>1, <1>2, <1>3, <1>4, <1>5, <1>6, <1>7, <1>8, <1>9, <1>10, <1>11,
     <1>12, <1>13 DEF Expression

\* Assignments create their destination by new_value_view; other simple
\* statements create no value.
LEMMA SimpleStatementStep ==
  ASSUME SimpleStatement
  PROVE  ValuesStep
<1>1. ASSUME NEW n \in Name, NEW u, NEW t, BeginAssignment(n, u, t)
      PROVE  ValuesStep
  BY <1>1 DEF BeginAssignment, ValuesStep, AllName
<1>2. CASE StatementAfterReturn \/ \E n \in Name : AssignUnbound(n)
  BY <1>2, FailStep DEF StatementAfterReturn, AssignUnbound
<1>3. CASE \E n \in Name : \E t \in DeclTypes[n] : DeclareOnly(n, t)
  BY <1>3 DEF DeclareOnly, ValuesStep, nameVars
<1>4. CASE \E n \in Name : \E t \in DeclTypes[n] : DeclareAndAssign(n, t)
  BY <1>1, <1>4 DEF DeclareAndAssign
<1>5. CASE \E n \in Name : Assign(n)
  BY <1>1, <1>5 DEF Assign
<1>6. CASE FinishAssignment
  BY <1>6, FailStep DEF FinishAssignment, ValuesStep
<1>7. CASE BeginReturn \/ FinishReturn \/ ReturnNothing
  BY <1>7, FailStep
  DEF BeginReturn, FinishReturn, ReturnNothing, ValuesStep, nameVars
<1>8. CASE \E f \in Callees : CallStatement(f)
  BY <1>8 DEF CallStatement, ValuesStep, nameVars
<1>9. CASE BeginBlock \/ EndBlock
  BY <1>9 DEF BeginBlock, EndBlock, ValuesStep, nameVars
<1>10. QED
  BY <1>2, <1>3, <1>4, <1>5, <1>6, <1>7, <1>8, <1>9 DEF SimpleStatement

\* emit_if creates a value for each name whose branches differ, only.
LEMMA IfStep ==
  ASSUME TypeOK, IfStatement
  PROVE  ValuesStep
<1>1. CASE BeginIf \/ DropIf \/ BranchIf \/ EndMerge
  BY <1>1 DEF BeginIf, DropIf, BranchIf, EndMerge, ValuesStep, nameVars
<1>2. CASE EndElse \/ \E hasElse \in BOOLEAN : EndThen(hasElse)
  BY <1>2 DEF EndElse, EndThen, ValuesStep
<1>3. CASE MergeName
  <2>1. names[Top.k] \in AllName
    BY <1>3, LoopName DEF MergeName, Active
  <2>2. QED
    BY <1>3, <2>1 DEF MergeName, ValuesStep
<1>4. QED
  BY <1>1, <1>2, <1>3 DEF IfStatement

\* emit_while creates a value for each name bound before it, only.
LEMMA WhileStep ==
  ASSUME TypeOK, WhileStatement
  PROVE  ValuesStep
<1>1. CASE BeginWhile \/ EndHeader
  BY <1>1 DEF BeginWhile, EndHeader, ValuesStep, nameVars
<1>2. CASE BranchWhile
  BY <1>2, FailStep DEF BranchWhile, ValuesStep, nameVars
<1>3. CASE EndLoop
  BY <1>3 DEF EndLoop, ValuesStep
<1>4. CASE HeaderName
  <2>1. names[Top.k] \in AllName
    BY <1>4, LoopName DEF HeaderName, Active
  <2>2. QED
    BY <1>4, <2>1 DEF HeaderName, ValuesStep, nameVars
<1>5. QED
  BY <1>1, <1>2, <1>3, <1>4 DEF WhileStatement

\* No step of the lowering, nor of the removal of phis, changes the values
\* in another way.
LEMMA NextStep ==
  ASSUME TypeOK, [Next]_vars
  PROVE  ValuesStep
<1>1. CASE EndFunction \/ VisitPhi \/ NextBlock \/ EndPass
  BY <1>1 DEF EndFunction, VisitPhi, NextBlock, EndPass, ValuesStep, nameVars
<1>2. CASE UNCHANGED vars
  BY <1>2 DEF vars, ValuesStep
<1>3. QED
  BY <1>1, <1>2, ExpressionStep, SimpleStatementStep, IfStep, WhileStep
  DEF Next, Collapse

\* The parameters have different names.
LEMMA InitVersions ==
  ASSUME Init
  PROVE  VersionsBelow /\ VersionsUnique
<1>1. /\ fn \in Headers /\ fn.params \in Seq(Param)
      /\ DOMAIN values = DOMAIN fn.params
      /\ \A i \in DOMAIN fn.params :
           /\ values[i].name = fn.params[i].name /\ values[i].version = 0
           /\ fn.params[i] \in Param
  BY HeadersAssumption DEF Init
<1>2. \A i \in DOMAIN fn.params : nextVersion[fn.params[i].name] = 1
  <2>1. \A i \in DOMAIN fn.params : /\ fn.params[i].name \in AllName
                                    /\ fn.params[i].name \in ParamNames(fn)
    BY <1>1 DEF Param, AllName, ParamNames
  <2>2. QED
    BY <2>1 DEF Init
<1>3. VersionsBelow
  BY <1>1, <1>2 DEF VersionsBelow
<1>4. VersionsUnique
  BY <1>1, HeadersAssumption DEF VersionsUnique
<1>5. QED
  BY <1>3, <1>4

\* For all programs of any size, the values of a function have different
\* printed names: no two share a name and a version, although parameters,
\* variables, phis and temporaries draw from the same counters and a variable
\* of the program may itself be called tmp (VersionsUnique).
THEOREM VersionsCorrect == Spec => []VersionsUnique
<1>1. Init => VersionInv
  BY InitType, InitVersions DEF VersionInv
<1>2. VersionInv /\ [Next]_vars => VersionInv'
  <2>1. SUFFICES ASSUME VersionInv, [Next]_vars
                 PROVE  VersionInv'
    OBVIOUS
  <2>2. TypeOK' /\ ValuesStep
    <3>1. TypeOK
      BY <2>1 DEF VersionInv
    <3>2. QED
      BY <2>1, <3>1, NextType, NextStep
  <2>3. CASE UNCHANGED valueVars
    <3>1. values' = values /\ nextVersion' = nextVersion
      BY <2>3 DEF valueVars
    <3>2. VersionsBelow' /\ VersionsUnique'
      BY <2>1, <3>1 DEF VersionInv, VersionsBelow, VersionsUnique
    <3>3. QED
      BY <2>2, <3>2 DEF VersionInv
  <2>4. CASE \E n \in AllName : \E t : NewValue(n, t)
    <3>1. VersionsBelow' /\ VersionsUnique'
      BY <2>1, <2>4, NewValueVersions
    <3>2. QED
      BY <2>2, <3>1 DEF VersionInv
  <2>5. QED
    BY <2>2, <2>3, <2>4 DEF ValuesStep
<1>3. VersionInv => VersionsUnique
  BY DEF VersionInv
<1>4. QED
  BY <1>1, <1>2, <1>3, PTL DEF Spec

-----------------------------------------------------------------------------
(***************************************************************************)
(* Instructions and the values they define and use.  P is the set of the   *)
(* parameters, which no instruction defines.                               *)
(***************************************************************************)

Known(P, bs, id) == id \in P \/ DefSites(bs, id) # {}

KnownOperand(P, bs, o) == o.kind = "VALUE" => Known(P, bs, o.id)

KnownArgs(P, bs, args) == \A j \in DOMAIN args : KnownOperand(P, bs, args[j])

KnownAll(P, bs, s) ==
  \A n \in AllName : s[n] # Invalid => Known(P, bs, s[n])

\* What SingleAssignment says of the code.
OnceIn(P, bs) ==
  /\ \A id : \A p, q \in DefSites(bs, id) : p = q
  /\ \A id \in P : DefSites(bs, id) = {}
  /\ \A u \in Positions(bs) : KnownArgs(P, bs, At(bs, u).args)

\* The code is as before, or has one instruction more.
SameSites(bs, new) ==
  /\ Positions(new) = Positions(bs)
  /\ \A q \in Positions(bs) : At(new, q) = At(bs, q)

SiteAdded(bs, new, instr) ==
  \E p : /\ p \notin Positions(bs)
         /\ Positions(new) = Positions(bs) \cup {p}
         /\ At(new, p) = instr
         /\ \A q \in Positions(bs) : At(new, q) = At(bs, q)

\* What stays known and what is defined after a step of the code.
Keepers(P, bs, new) == \A id : Known(P, bs, id) => Known(P, new, id)

Undefined(bs, id) == DefSites(bs, id) = {}

\* An instruction that may be added: its destination is new and its operands
\* are known.
Sound(P, bs, instr) ==
  /\ instr.dest.kind = "VALUE" =>
       instr.dest.id \notin P /\ Undefined(bs, instr.dest.id)
  /\ KnownArgs(P, bs, instr.args)

LEMMA SameSitesOnce ==
  ASSUME NEW P, NEW bs, NEW new, SameSites(bs, new)
  PROVE  /\ \A id : DefSites(new, id) = DefSites(bs, id)
         /\ OnceIn(P, bs) => OnceIn(P, new)
         /\ Keepers(P, bs, new)
<1>1. \A id : DefSites(new, id) = DefSites(bs, id)
  BY DEF SameSites, DefSites
<1>2. \A id : Known(P, new, id) <=> Known(P, bs, id)
  BY <1>1 DEF Known
<1>3. ASSUME OnceIn(P, bs) PROVE OnceIn(P, new)
  <2>1. \A u \in Positions(new) : KnownArgs(P, new, At(new, u).args)
    BY <1>2, <1>3 DEF OnceIn, SameSites, KnownArgs, KnownOperand
  <2> QED
    BY <1>1, <1>3, <2>1 DEF OnceIn
<1> QED
  BY <1>1, <1>2, <1>3 DEF Keepers

LEMMA AddedDefs ==
  ASSUME NEW bs, NEW new, NEW instr, SiteAdded(bs, new, instr)
  PROVE  /\ \A id : ~Defines(instr, id) => DefSites(new, id) = DefSites(bs, id)
         /\ \A id : Defines(instr, id) =>
              \E p : DefSites(new, id) = DefSites(bs, id) \cup {p}
<1>1. PICK p : /\ p \notin Positions(bs)
               /\ Positions(new) = Positions(bs) \cup {p}
               /\ At(new, p) = instr
               /\ \A q \in Positions(bs) : At(new, q) = At(bs, q)
  BY DEF SiteAdded
<1>2. ASSUME NEW id, ~Defines(instr, id)
      PROVE  DefSites(new, id) = DefSites(bs, id)
  BY <1>1, <1>2 DEF DefSites
<1>3. ASSUME NEW id, Defines(instr, id)
      PROVE  DefSites(new, id) = DefSites(bs, id) \cup {p}
  BY <1>1, <1>3 DEF DefSites
<1> QED
  BY <1>2, <1>3

LEMMA AddedOnce ==
  ASSUME NEW P, NEW bs, NEW new, NEW instr, SiteAdded(bs, new, instr),
         OnceIn(P, bs), Sound(P, bs, instr)
  PROVE  /\ OnceIn(P, new) /\ Keepers(P, bs, new)
         /\ KnownOperand(P, new, instr.dest)
<1>1. \A id : Known(P, bs, id) => Known(P, new, id)
  BY AddedDefs DEF Known
<1>2. \A id : Defines(instr, id) => Known(P, new, id) /\ id \notin P
                                    /\ DefSites(bs, id) = {}
  BY AddedDefs DEF Known, Defines, Refers, Sound, Undefined
<1>3. \A id : \A p, q \in DefSites(new, id) : p = q
  BY <1>2, AddedDefs DEF OnceIn
<1>4. \A id \in P : DefSites(new, id) = {}
  BY <1>2, AddedDefs DEF OnceIn
<1>5. \A u \in Positions(new) : KnownArgs(P, new, At(new, u).args)
  <2>1. \A args : KnownArgs(P, bs, args) => KnownArgs(P, new, args)
    BY <1>1 DEF KnownArgs, KnownOperand
  <2>2. \A u \in Positions(new) :
          \/ u \in Positions(bs) /\ At(new, u) = At(bs, u)
          \/ At(new, u) = instr
    BY DEF SiteAdded
  <2> QED
    BY <2>1, <2>2 DEF OnceIn, Sound
<1>6. KnownOperand(P, new, instr.dest)
  BY <1>2 DEF KnownOperand, Defines, Refers
<1> QED
  BY <1>1, <1>3, <1>4, <1>5, <1>6 DEF OnceIn, Keepers

\* Code that is appended, or not, when blocks may be created.
CodeSame(bs, new) ==
  /\ Len(bs) <= Len(new)
  /\ \A x \in 1 .. Len(bs) : new[x].code = bs[x].code
  /\ \A x \in Len(bs) + 1 .. Len(new) : new[x].code = << >>

CodeAdded(bs, new, b, instr) ==
  /\ Len(bs) <= Len(new)
  /\ \A x \in 1 .. Len(bs) : x # b => new[x].code = bs[x].code
  /\ new[b].code = Append(bs[b].code, instr)
  /\ \A x \in Len(bs) + 1 .. Len(new) : new[x].code = << >>

LEMMA PositionsOf ==
  ASSUME NEW bs, DOMAIN bs = 1 .. Len(bs)
  PROVE  \A b, i : <<b, i>> \in Positions(bs)
                   <=> b \in 1 .. Len(bs) /\ i \in DOMAIN bs[b].code
BY DEF Positions

LEMMA PositionPairs ==
  ASSUME NEW bs, NEW p \in Positions(bs)
  PROVE  \E b, i : p = <<b, i>>
BY DEF Positions

LEMMA SitesSame ==
  ASSUME NEW n \in Nat, NEW m \in Nat, NEW bs \in Seq(Block(n, m)),
         NEW n2 \in Nat, NEW m2 \in Nat, NEW new \in Seq(Block(n2, m2)),
         CodeSame(bs, new)
  PROVE  SameSites(bs, new)
<1>1. /\ Len(bs) \in Nat /\ Len(new) \in Nat /\ Len(bs) <= Len(new)
      /\ DOMAIN bs = 1 .. Len(bs) /\ DOMAIN new = 1 .. Len(new)
  BY DEF CodeSame
<1>2. \A b, i : <<b, i>> \in Positions(new) <=> <<b, i>> \in Positions(bs)
  <2>1. \A b \in 1 .. Len(bs) : b \in 1 .. Len(new)
                                /\ new[b].code = bs[b].code
    BY <1>1 DEF CodeSame
  <2>2. \A b \in 1 .. Len(new) : b \notin 1 .. Len(bs) =>
          DOMAIN new[b].code = {}
    BY <1>1 DEF CodeSame
  <2> QED
    BY <1>1, <2>1, <2>2, PositionsOf
<1>3. Positions(new) = Positions(bs)
  <2>1. ASSUME NEW q \in Positions(new) PROVE q \in Positions(bs)
    <3>1. PICK b, i : q = <<b, i>>
      BY PositionPairs
    <3> QED
      BY <1>2, <3>1
  <2>2. ASSUME NEW q \in Positions(bs) PROVE q \in Positions(new)
    <3>1. PICK b, i : q = <<b, i>>
      BY PositionPairs
    <3> QED
      BY <1>2, <3>1
  <2> QED
    BY <2>1, <2>2
<1>4. \A b, i : <<b, i>> \in Positions(bs) =>
                  At(new, <<b, i>>) = At(bs, <<b, i>>)
  BY <1>1, PositionsOf DEF CodeSame, At
<1> QED
  BY <1>3, <1>4, PositionPairs DEF SameSites

LEMMA SitesAdded ==
  ASSUME NEW n \in Nat, NEW m \in Nat, NEW bs \in Seq(Block(n, m)),
         NEW n2 \in Nat, NEW m2 \in Nat, NEW new \in Seq(Block(n2, m2)),
         NEW b \in 1 .. Len(bs), NEW instr, CodeAdded(bs, new, b, instr)
  PROVE  SiteAdded(bs, new, instr)
<1> DEFINE l == Len(bs[b].code)
           p == <<b, l + 1>>
<1>1. /\ Len(bs) \in Nat /\ Len(new) \in Nat /\ Len(bs) <= Len(new)
      /\ DOMAIN bs = 1 .. Len(bs) /\ DOMAIN new = 1 .. Len(new)
  BY DEF CodeAdded
<1>2. /\ l \in Nat /\ DOMAIN bs[b].code = 1 .. l
      /\ DOMAIN new[b].code = 1 .. l + 1
      /\ new[b].code[l + 1] = instr
      /\ \A i \in 1 .. l : new[b].code[i] = bs[b].code[i]
  <2>1. bs[b].code \in Seq(Instr(n, m))
    BY BlockFields
  <2> QED
    BY <2>1, AppendParts DEF CodeAdded
<1> HIDE DEF l
<1>3. \A x, i : <<x, i>> \in Positions(new)
                <=> <<x, i>> \in Positions(bs) \/ <<x, i>> = p
  <2>1. \A x \in 1 .. Len(bs) : x \in 1 .. Len(new)
          /\ (x # b => new[x].code = bs[x].code)
    BY <1>1 DEF CodeAdded
  <2>2. \A x \in 1 .. Len(new) : x \notin 1 .. Len(bs) =>
          DOMAIN new[x].code = {}
    BY <1>1 DEF CodeAdded
  <2>3. ASSUME NEW x, NEW i, x # b
        PROVE  <<x, i>> \in Positions(new) <=> <<x, i>> \in Positions(bs)
    BY <1>1, <2>1, <2>2, <2>3, PositionsOf
  <2>4. \A i : <<b, i>> \in Positions(new)
               <=> <<b, i>> \in Positions(bs) \/ i = l + 1
    <3>1. \A i : i \in 1 .. l + 1 <=> i \in 1 .. l \/ i = l + 1
      BY <1>2
    <3> QED
      BY <1>1, <1>2, <2>1, <3>1, PositionsOf
  <2> QED
    BY <2>3, <2>4
<1>4. Positions(new) = Positions(bs) \cup {p}
  <2>1. \E x, i : p = <<x, i>>
    OBVIOUS
  <2> HIDE DEF p
  <2> QED
    BY <1>3, <2>1, PositionPairs
<1>5. p \notin Positions(bs)
  <2>1. l + 1 \notin 1 .. l
    BY <1>2
  <2> QED
    BY <1>1, <1>2, <2>1, PositionsOf
<1>6. At(new, p) = instr
  BY <1>2 DEF At
<1>7. \A x, i : <<x, i>> \in Positions(bs) =>
                  At(new, <<x, i>>) = At(bs, <<x, i>>)
  <2>1. \A x, i : <<x, i>> \in Positions(bs) =>
          x \in 1 .. Len(bs) /\ i \in DOMAIN bs[x].code
    BY <1>1, PositionsOf
  <2>2. \A x \in 1 .. Len(bs) : \A i \in DOMAIN bs[x].code :
          new[x].code[i] = bs[x].code[i]
    BY <1>1, <1>2 DEF CodeAdded
  <2> QED
    BY <2>1, <2>2 DEF At
<1> HIDE DEF p
<1> QED
  BY <1>4, <1>5, <1>6, <1>7, PositionPairs DEF SiteAdded

-----------------------------------------------------------------------------
(***************************************************************************)
(* What the activations hold.                                              *)
(***************************************************************************)

SnapshotKind == {"THEN", "ELSE", "NOELSE", "MERGE", "HEADER", "WHILECOND",
                 "LOOP"}

FrameKnown(P, bs, f) ==
  /\ f.kind \in ExprKind => KnownArgs(P, bs, f.args)
  /\ f.kind \in SnapshotKind => KnownAll(P, bs, f.incoming)
  /\ f.kind = "LOOP" => KnownAll(P, bs, f.bound)
  /\ f.kind \in {"ELSE", "NOELSE", "MERGE"} => KnownAll(P, bs, f.then.bound)
  /\ f.kind = "MERGE" => KnownAll(P, bs, f.else.bound)

\* The destination of an assignment is not defined yet, or by its right-hand
\* side.
Pending(P, bs, f) ==
  f.kind = "ASSIGN" =>
    /\ f.dest.id \notin P
    /\ f.args = <<f.dest>> \/ Undefined(bs, f.dest.id)

\* The destination is handed to the right-hand side only.
TargetFits(c, i) ==
  c[i].kind \in OperandKind \cup {"CALL"} =>
    \/ c[i].target = NoOperand
    \/ /\ i > 1 /\ c[i - 1].kind = "ASSIGN" /\ c[i - 1].args = << >>
       /\ c[i].target = c[i - 1].dest

\* Nobody receives more operands than it waits for.
ArgsFit(c, i) ==
  c[i].kind \in ExprKind =>
    /\ Len(c[i].args) <= Len(c[i].wants)
    /\ i < Len(c) => Len(c[i].args) < Len(c[i].wants)

FrameFits(P, bs, c, i) ==
  /\ FrameKnown(P, bs, c[i]) /\ Pending(P, bs, c[i])
  /\ TargetFits(c, i) /\ ArgsFit(c, i)

Params == DOMAIN fn.params

SingleLowering ==
  /\ KnownAll(Params, blocks, bindings)
  /\ \A i \in DOMAIN ctrl : FrameFits(Params, blocks, ctrl, i)

SingleInv ==
  /\ Len(fn.params) <= Len(values)
  /\ OnceIn(Params, blocks)
  /\ status = "lowering" => SingleLowering

\* Only the innermost activation changes in a step.
StackBelow ==
  /\ Len(ctrl') - 1 <= Len(ctrl)
  /\ \A i \in 1 .. Len(ctrl') - 1 : ctrl'[i] = ctrl[i]

\* What a step may do to the code: the values of ids may become defined, and
\* nothing else about the values that existed changes.
Effect(P, bs, new, ids) ==
  /\ OnceIn(P, new) /\ Keepers(P, bs, new)
  /\ \A id : id \notin ids => DefSites(new, id) = DefSites(bs, id)

\* The activations below the innermost do not wait for the values of ids.
Spared(ids) ==
  \A i \in 1 .. Len(ctrl') - 1 :
    ctrl[i].kind = "ASSIGN" => ctrl[i].dest.id \notin ids

Ids(o) == IF o.kind = "VALUE" THEN {o.id} ELSE {}

LEMMA EffectSame ==
  ASSUME NEW P, NEW bs, NEW new, NEW ids, SameSites(bs, new), OnceIn(P, bs)
  PROVE  Effect(P, bs, new, ids)
BY SameSitesOnce DEF Effect

LEMMA EffectAdded ==
  ASSUME NEW P, NEW bs, NEW new, NEW instr, SiteAdded(bs, new, instr),
         OnceIn(P, bs), Sound(P, bs, instr)
  PROVE  /\ Effect(P, bs, new, Ids(instr.dest))
         /\ KnownOperand(P, new, instr.dest)
<1>1. \A id : id \notin Ids(instr.dest) => ~Defines(instr, id)
  BY DEF Ids, Defines, Refers
<1> QED
  BY <1>1, AddedDefs, AddedOnce DEF Effect

LEMMA EffectTwice ==
  ASSUME NEW P, NEW bs, NEW mid, NEW new, NEW ids, Effect(P, bs, mid, {}),
         Effect(P, mid, new, ids)
  PROVE  Effect(P, bs, new, ids)
BY DEF Effect, Keepers

\* An instruction that is sound stays so.
LEMMA SoundKept ==
  ASSUME NEW P, NEW bs, NEW mid, NEW instr, Effect(P, bs, mid, {}),
         Sound(P, bs, instr)
  PROVE  Sound(P, mid, instr)
<1>1. \A a : KnownArgs(P, bs, a) => KnownArgs(P, mid, a)
  BY DEF KnownArgs, KnownOperand, Effect, Keepers
<1> QED
  BY <1>1 DEF Sound, Undefined, Effect

LEMMA KeptKnown ==
  ASSUME NEW P, NEW bs, NEW new, Keepers(P, bs, new)
  PROVE  /\ \A o : KnownOperand(P, bs, o) => KnownOperand(P, new, o)
         /\ \A a : KnownArgs(P, bs, a) => KnownArgs(P, new, a)
         /\ \A s : KnownAll(P, bs, s) => KnownAll(P, new, s)
         /\ \A f : FrameKnown(P, bs, f) => FrameKnown(P, new, f)
<1>1. \A o : KnownOperand(P, bs, o) => KnownOperand(P, new, o)
  BY DEF KnownOperand, Keepers
<1>2. \A a : KnownArgs(P, bs, a) => KnownArgs(P, new, a)
  BY <1>1 DEF KnownArgs
<1>3. \A s : KnownAll(P, bs, s) => KnownAll(P, new, s)
  BY DEF KnownAll, Keepers
<1> QED
  BY <1>1, <1>2, <1>3 DEF FrameKnown

\* What an activation waits for and has received.
LEMMA FrameArgs ==
  ASSUME TypeOK, NEW i \in 1 .. Len(ctrl), ctrl[i].kind \in ExprKind
  PROVE  /\ ctrl[i].args \in Seq(Operand(Len(values)))
         /\ Len(ctrl[i].args) \in Nat
         /\ Len(ctrl[i].wants) \in Nat
         /\ ctrl[i].kind = "BINARY" => Len(ctrl[i].wants) = 2
         /\ ctrl[i].kind \notin {"BINARY", "CALL"} => Len(ctrl[i].wants) = 1
<1> DEFINE f == ctrl[i]
<1>1. /\ f \in Frame(Len(values), Len(blocks), Len(names))
      /\ Len(values) \in Nat /\ Len(blocks) \in Nat /\ Len(names) \in Nat
  BY StackFrames DEF StackFrame
<1>2. /\ f.args \in Seq(Operand(Len(values)))
      /\ f.kind = "BINARY" => f.wants \in TwoTypes
      /\ f.kind = "CALL" => f.wants \in Seq(Type)
      /\ f.kind \notin {"BINARY", "CALL"} => f.wants \in OneType
  BY <1>1, FrameByKind
  DEF ExprKind, AssignFrame, ValueFrame, WhileFrame, BinaryFrame, NotFrame,
      CallFrame, LeftFrame, RightFrame
<1>3. \A w \in OneType : Len(w) = 1
  BY DEF OneType
<1>4. \A w \in TwoTypes : Len(w) = 2
  BY DEF TwoTypes
<1> HIDE DEF f
<1>5. Len(f.args) \in Nat /\ (f.kind = "CALL" => Len(f.wants) \in Nat)
  BY <1>2
<1>6. /\ f.kind = "BINARY" => Len(f.wants) = 2
      /\ f.kind \notin {"BINARY", "CALL"} => Len(f.wants) = 1
  BY <1>2, <1>3, <1>4
<1>7. Len(f.wants) \in Nat
  BY <1>5, <1>6
<1> QED
  BY <1>2, <1>5, <1>6, <1>7 DEF f

\* A step of the lowering, as far as values are concerned.
SingleStep(ids) ==
  /\ status = "lowering" /\ status' = "lowering" /\ fn' = fn
  /\ Len(values) <= Len(values')
  /\ Effect(Params, blocks, blocks', ids)
  /\ KnownAll(Params, blocks', bindings')
  /\ StackBelow /\ Spared(ids)
  /\ Len(ctrl') > Len(ctrl) /\ Top.kind \in ExprKind => ~Complete
  /\ FrameFits(Params, blocks', ctrl', Len(ctrl'))

LEMMA SingleKept ==
  ASSUME TypeOK, TypeOK', SingleInv, NEW ids, SingleStep(ids)
  PROVE  SingleInv'
<1>1. /\ DOMAIN ctrl = 1 .. Len(ctrl) /\ Len(ctrl) \in Nat
      /\ Top = ctrl[Len(ctrl)] /\ Len(values) \in Nat
  BY StackFrames
<1>2. DOMAIN ctrl' = 1 .. Len(ctrl') /\ Len(ctrl') \in Nat
      /\ Len(values') \in Nat
  BY DEF TypeOK, StackType, NamesType, Values
<1>3. Params' = Params /\ Len(fn'.params) = Len(fn.params)
  BY DEF SingleStep, Params
<1>4. SingleLowering /\ Len(fn.params) <= Len(values)
  BY DEF SingleInv, SingleStep
<1>5. Len(fn'.params) <= Len(values')
  <2>1. fn.params \in Seq(Param)
    BY HeadersAssumption DEF TypeOK, RestType
  <2>2. Len(fn.params) \in Nat
    BY <2>1
  <2> QED
    BY <1>1, <1>2, <1>3, <1>4, <2>2 DEF SingleStep
<1>6. ASSUME NEW i \in 1 .. Len(ctrl') - 1
      PROVE  FrameFits(Params, blocks', ctrl', i)
  <2>1. i \in 1 .. Len(ctrl) /\ ctrl'[i] = ctrl[i]
    BY <1>1, <1>2 DEF SingleStep, StackBelow
  <2>2. FrameFits(Params, blocks, ctrl, i)
    BY <1>1, <1>4, <2>1 DEF SingleLowering
  <2>3. FrameKnown(Params, blocks', ctrl'[i])
    BY <2>1, <2>2, KeptKnown DEF FrameFits, SingleStep, Effect
  <2>4. Pending(Params, blocks', ctrl'[i])
    <3>1. ctrl[i].kind = "ASSIGN" => ctrl[i].dest.id \notin ids
      BY DEF SingleStep, Spared
    <3> QED
      BY <2>1, <2>2, <3>1 DEF FrameFits, SingleStep, Pending, Effect, Undefined
  <2>5. TargetFits(ctrl', i)
    <3>1. i > 1 => i - 1 \in 1 .. Len(ctrl') - 1
      BY <1>2
    <3>2. i > 1 => ctrl'[i - 1] = ctrl[i - 1]
      BY <3>1 DEF SingleStep, StackBelow
    <3> QED
      BY <2>1, <2>2, <3>2 DEF FrameFits, TargetFits
  <2>6. ArgsFit(ctrl', i)
    <3>1. CASE i < Len(ctrl)
      BY <2>1, <2>2, <3>1 DEF FrameFits, ArgsFit
    <3>2. CASE i = Len(ctrl)
      <4>1. Len(ctrl') > Len(ctrl)
        BY <1>1, <1>2, <3>2
      <4>2. Top.kind \in ExprKind => Len(Top.args) # Len(Top.wants)
        BY <4>1 DEF SingleStep, Complete
      <4>3. Top.kind \in ExprKind => Len(Top.args) <= Len(Top.wants)
        BY <1>1, <2>2, <3>2 DEF FrameFits, ArgsFit
      <4>4. Top.kind \in ExprKind =>
              Len(Top.args) \in Nat /\ Len(Top.wants) \in Nat
        BY <1>1, <2>1, <3>2, FrameArgs
      <4>5. Top.kind \in ExprKind => Len(Top.args) < Len(Top.wants)
        BY <4>2, <4>3, <4>4
      <4>6. ctrl'[i] = Top
        BY <1>1, <2>1, <3>2
      <4> QED
        BY <4>3, <4>5, <4>6 DEF ArgsFit
    <3>3. i < Len(ctrl) \/ i = Len(ctrl)
      <4>1. i \in 1 .. Len(ctrl) /\ Len(ctrl) \in Nat
        BY <1>1, <2>1
      <4> QED
        BY <4>1
    <3> QED
      BY <3>1, <3>2, <3>3
  <2> QED
    BY <2>3, <2>4, <2>5, <2>6 DEF FrameFits
<1>7. \A i \in DOMAIN ctrl' : FrameFits(Params, blocks', ctrl', i)
  BY <1>2, <1>6 DEF SingleStep
<1>8. SingleLowering'
  BY <1>3, <1>7 DEF SingleLowering, SingleStep
<1> QED
  BY <1>3, <1>5, <1>8 DEF SingleInv, SingleStep, Effect

-----------------------------------------------------------------------------
(***************************************************************************)
(* What a step finds, and the activation it leaves innermost.              *)
(***************************************************************************)

LEMMA InSingle ==
  ASSUME TypeOK, SingleInv, FlowInv, status = "lowering"
  PROVE  /\ OnceIn(Params, blocks) /\ KnownAll(Params, blocks, bindings)
         /\ \A i \in 1 .. Len(ctrl) : FrameFits(Params, blocks, ctrl, i)
         /\ FrameFits(Params, blocks, ctrl, Len(ctrl))
         /\ ExpressionsNest /\ Top = ctrl[Len(ctrl)]
<1>1. DOMAIN ctrl = 1 .. Len(ctrl) /\ Len(ctrl) \in Nat /\ Len(ctrl) >= 1
      /\ Top = ctrl[Len(ctrl)]
  BY StackFrames
<1>2. \A i \in 1 .. Len(ctrl) : FrameFits(Params, blocks, ctrl, i)
  BY <1>1 DEF SingleInv, SingleLowering
<1>3. Len(ctrl) \in 1 .. Len(ctrl)
  BY <1>1
<1> QED
  BY <1>1, <1>2, <1>3 DEF SingleInv, SingleLowering, FlowInv, Lowering

\* The next value is new to everybody.
LEMMA FreshId ==
  ASSUME TypeOK, SingleInv
  PROVE  /\ NextId \notin Params /\ Undefined(blocks, NextId)
         /\ \A i \in 1 .. Len(ctrl) :
              ctrl[i].kind = "ASSIGN" => ctrl[i].dest.id # NextId
<1> DEFINE n == Len(values)
<1>1. /\ n \in Nat /\ Len(blocks) \in Nat /\ Len(names) \in Nat
      /\ DOMAIN blocks = 1 .. Len(blocks)
      /\ blocks \in Seq(Block(n, Len(blocks)))
  BY StackFrames
<1>2. NextId \notin Params
  <2>1. fn.params \in Seq(Param)
    BY HeadersAssumption DEF TypeOK, RestType
  <2>2. Len(fn.params) \in Nat /\ Params = 1 .. Len(fn.params)
    BY <2>1 DEF Params
  <2> QED
    BY <1>1, <2>2 DEF SingleInv, NextId
<1>3. ASSUME NEW p \in Positions(blocks) PROVE ~Defines(At(blocks, p), NextId)
  <2>1. PICK b, i : p = <<b, i>>
    BY PositionPairs
  <2>2. b \in 1 .. Len(blocks) /\ i \in DOMAIN blocks[b].code
    BY <1>1, <2>1, PositionsOf
  <2>3. blocks[b].code \in Seq(Instr(n, Len(blocks)))
    BY <1>1, <2>2, BlockFields
  <2>4. At(blocks, p) \in Instr(n, Len(blocks))
    BY <2>1, <2>2, <2>3, ElementType DEF At
  <2>5. \A o \in Operand(n) : o.kind = "VALUE" => o.id \in 1 .. n
    BY DEF Operand, ValueOperand
  <2>6. \A instr \in Instr(n, Len(blocks)) : instr.dest \in Operand(n)
    BY DEF Instr, Operand
  <2>7. n + 1 \notin 1 .. n
    BY <1>1
  <2> QED
    BY <2>4, <2>5, <2>6, <2>7 DEF Defines, Refers, NextId
<1>4. ASSUME NEW i \in 1 .. Len(ctrl), ctrl[i].kind = "ASSIGN"
      PROVE  ctrl[i].dest.id # NextId
  <2>1. ctrl[i] \in Frame(n, Len(blocks), Len(names))
    BY StackFrames DEF StackFrame
  <2>2. ctrl[i] \in AssignFrame(n)
    BY <1>1, <1>4, <2>1, FrameByKind
  <2>3. ctrl[i].dest.id \in 1 .. n
    BY <2>2 DEF AssignFrame, ValueOperand
  <2> QED
    BY <1>1, <2>3 DEF NextId
<1> QED
  BY <1>2, <1>3, <1>4 DEF Undefined, DefSites

\* append_instruction adds one instruction.
LEMMA EmitAdds ==
  ASSUME TypeOK, TypeOK', NEW b \in 1 .. Len(blocks), NEW instr,
         blocks' = Emit(blocks, b, instr)
  PROVE  SiteAdded(blocks, blocks', instr)
<1>1. /\ blocks \in Seq(Block(Len(values), Len(blocks)))
      /\ Len(values) \in Nat /\ Len(blocks) \in Nat
  BY StackFrames
<1>2. /\ blocks' \in Seq(Block(Len(values'), Len(blocks')))
      /\ Len(values') \in Nat
  BY DEF TypeOK, IRType, NamesType, Values
<1>3. Len(blocks') \in Nat
  BY <1>2
<1>4. Emitted(blocks, blocks', b, instr)
  BY EmitShape
<1>5. CodeAdded(blocks, blocks', b, instr)
  BY <1>1, <1>4 DEF Emitted, CodeAdded
<1> QED
  BY <1>1, <1>2, <1>3, <1>5, SitesAdded

\* What append_instruction does to the values.
LEMMA EmitSites ==
  ASSUME TypeOK, TypeOK', SingleInv, NEW b \in 1 .. Len(blocks), NEW instr,
         blocks' = Emit(blocks, b, instr), Sound(Params, blocks, instr)
  PROVE  /\ Effect(Params, blocks, blocks', Ids(instr.dest))
         /\ KnownOperand(Params, blocks', instr.dest)
BY EmitAdds, EffectAdded DEF SingleInv

\* An activation that receives an operand.
LEMMA ReceiveFits ==
  ASSUME TypeOK, NEW P, NEW i \in 1 .. Len(ctrl), ctrl[i].kind \in ExprKind,
         FrameFits(P, blocks, ctrl, i), Len(ctrl') = i, NEW o,
         \A j \in 1 .. i - 1 : ctrl'[j] = ctrl[j],
         Alike(ctrl[i], ctrl'[i]),
         ctrl'[i].args = Append(ctrl[i].args, o),
         Keepers(P, blocks, blocks'), KnownOperand(P, blocks', o),
         Len(ctrl[i].args) < Len(ctrl[i].wants),
         ctrl[i].kind = "ASSIGN" =>
           \/ o = ctrl[i].dest
           \/ Undefined(blocks, ctrl[i].dest.id)
                => Undefined(blocks', ctrl[i].dest.id)
  PROVE  FrameFits(P, blocks', ctrl', i)
<1> DEFINE f == ctrl[i]
           g == ctrl'[i]
<1>1. /\ f.args \in Seq(Operand(Len(values))) /\ Len(f.args) \in Nat
      /\ Len(f.wants) \in Nat /\ (f.kind = "ASSIGN" => Len(f.wants) = 1)
  BY FrameArgs
<1>2. /\ Len(g.args) = Len(f.args) + 1
      /\ DOMAIN g.args = 1 .. Len(f.args) + 1
      /\ DOMAIN f.args = 1 .. Len(f.args)
      /\ \A j \in 1 .. Len(f.args) : g.args[j] = f.args[j]
      /\ g.args[Len(f.args) + 1] = o
  BY <1>1, AppendParts
<1>3. FrameKnown(P, blocks', f)
  BY KeptKnown DEF FrameFits
<1> HIDE DEF f, g
<1>4. KnownArgs(P, blocks', g.args)
  <2>1. KnownArgs(P, blocks', f.args)
    BY <1>3 DEF FrameKnown, f
  <2>2. \A j \in 1 .. Len(f.args) + 1 :
          j \in 1 .. Len(f.args) \/ j = Len(f.args) + 1
    BY <1>1
  <2> QED
    BY <1>2, <2>1, <2>2 DEF KnownArgs
<1>5. FrameKnown(P, blocks', g)
  BY <1>3, <1>4 DEF FrameKnown, Alike, f, g, ExprKind, SnapshotKind
<1>6. Pending(P, blocks', g)
  <2>1. SUFFICES ASSUME f.kind = "ASSIGN"
                 PROVE  /\ g.dest.id \notin P
                        /\ g.args = <<g.dest>> \/ Undefined(blocks', g.dest.id)
    BY DEF Pending, Alike, f, g
  <2>2. f.args = << >>
    <3>1. Len(f.args) < Len(f.wants)
      BY DEF f
    <3>2. Len(f.wants) = 1 /\ Len(f.args) \in Nat
      BY <1>1, <2>1
    <3>3. Len(f.args) = 0
      BY <3>1, <3>2
    <3> QED
      BY <1>1, <3>3
  <2>3. f.args # <<f.dest>>
    BY <2>2
  <2>4. f.dest.id \notin P /\ Undefined(blocks, f.dest.id)
    BY <2>1, <2>3 DEF FrameFits, Pending, f
  <2>5. g.args = <<o>>
    BY <2>2 DEF f, g
  <2>6. g.dest = f.dest
    BY <2>1 DEF Alike, f, g
  <2> QED
    BY <2>1, <2>4, <2>5, <2>6 DEF f
<1>7. TargetFits(ctrl', i)
  <2>1. i \in Nat /\ (i > 1 => i - 1 \in 1 .. i - 1)
    BY StackFrames
  <2>2. i > 1 => ctrl'[i - 1] = ctrl[i - 1]
    BY <2>1
  <2> QED
    BY <2>2 DEF TargetFits, FrameFits, Alike
<1>8. ArgsFit(ctrl', i)
  <2>1. g.wants = f.wants
    BY DEF Alike, f, g
  <2>2. Len(g.args) <= Len(g.wants)
    BY <1>1, <1>2, <2>1 DEF f
  <2>3. ~(i < Len(ctrl'))
    BY StackFrames
  <2> QED
    BY <2>2, <2>3 DEF ArgsFit, g
<1> QED
  BY <1>5, <1>6, <1>7, <1>8 DEF FrameFits, g

\* A statement list whose innermost statement ends.
LEMMA ListFits ==
  ASSUME TypeOK, NEW P, NEW i \in 1 .. Len(ctrl), ctrl[i].kind \in ListKind,
         FrameFits(P, blocks, ctrl, i), Alike(ctrl[i], ctrl'[i]),
         Keepers(P, blocks, blocks')
  PROVE  FrameFits(P, blocks', ctrl', i)
<1>1. FrameKnown(P, blocks', ctrl[i])
  BY KeptKnown DEF FrameFits
<1>2. FrameKnown(P, blocks', ctrl'[i])
  BY <1>1 DEF FrameKnown, Alike, ListKind, ExprKind, SnapshotKind
<1> QED
  BY <1>2 DEF FrameFits, Pending, TargetFits, ArgsFit, Alike, ListKind,
              ExprKind, OperandKind

\* An activation that starts: it has no operands yet.
LEMMA StartFits ==
  ASSUME NEW P, NEW l, l = Len(ctrl'), l \in Nat, NEW f, ctrl'[l] = f,
         f.kind \in ExprKind => f.args = << >> /\ Len(f.wants) \in Nat,
         f.kind \in SnapshotKind => KnownAll(P, blocks', f.incoming),
         f.kind = "LOOP" => KnownAll(P, blocks', f.bound),
         f.kind \in {"ELSE", "NOELSE", "MERGE"} =>
           KnownAll(P, blocks', f.then.bound),
         f.kind = "MERGE" => KnownAll(P, blocks', f.else.bound),
         Pending(P, blocks', f), TargetFits(ctrl', l)
  PROVE  FrameFits(P, blocks', ctrl', l)
<1>1. FrameKnown(P, blocks', f)
  BY DEF FrameKnown, KnownArgs
<1>2. ArgsFit(ctrl', l)
  BY DEF ArgsFit
<1> QED
  BY <1>1, <1>2 DEF FrameFits

-----------------------------------------------------------------------------
(***************************************************************************)
(* Expressions.                                                            *)
(***************************************************************************)

Caller == ctrl[Len(ctrl) - 1]

IsOperand ==
  \/ Top.kind \in OperandKind
  \/ Top.kind = "CALL" /\ Caller.kind \notin ListKind

\* The result of an operator is new, or the destination of the assignment that
\* is its caller.
LEMMA SafeResult ==
  ASSUME TypeOK, SingleInv, FlowInv, status = "lowering", IsOperand, NEW t,
         NEW o, o = Result(Top.target, t)
  PROVE  /\ o.kind = "VALUE" /\ o.id \notin Params /\ Undefined(blocks, o.id)
         /\ Caller.kind = "ASSIGN" => o = Caller.dest \/ Caller.dest.id # o.id
         /\ \A i \in 1 .. Len(ctrl) - 2 :
              ctrl[i].kind = "ASSIGN" => ctrl[i].dest.id # o.id
<1> DEFINE l == Len(ctrl) - 1
<1>1. /\ l \in 1 .. Len(ctrl) /\ Len(ctrl) \in Nat /\ Len(ctrl) >= 2
      /\ DOMAIN ctrl = 1 .. Len(ctrl)
  BY StackFrames, OperandCaller DEF IsOperand, Caller
<1>2. CASE Top.target = NoOperand
  <2>1. o = ValueOp(NextId, t)
    BY <1>2 DEF Result
  <2>2. o.kind = "VALUE" /\ o.id = NextId
    BY <2>1 DEF ValueOp
  <2>3. Caller.kind = "ASSIGN" => Caller.dest.id # NextId
    BY <1>1, FreshId DEF Caller
  <2>4. \A i \in 1 .. Len(ctrl) - 2 :
          ctrl[i].kind = "ASSIGN" => ctrl[i].dest.id # NextId
    BY <1>1, FreshId
  <2> QED
    BY <2>2, <2>3, <2>4, FreshId
<1>3. CASE Top.target # NoOperand
  <2>1. /\ Caller.kind = "ASSIGN" /\ Caller.args = << >>
        /\ Top.target = Caller.dest
    <3>1. TargetFits(ctrl, Len(ctrl)) /\ Top = ctrl[Len(ctrl)]
      BY InSingle DEF FrameFits
    <3> QED
      BY <1>3, <3>1 DEF TargetFits, IsOperand, Caller
  <2>2. o = Caller.dest
    BY <1>3, <2>1 DEF Result
  <2>3. Pending(Params, blocks, Caller)
    BY <1>1, InSingle DEF FrameFits, Caller
  <2>4. Caller.args # <<Caller.dest>>
    BY <2>1
  <2>5. o.id \notin Params /\ Undefined(blocks, o.id)
    BY <2>1, <2>2, <2>3, <2>4 DEF Pending
  <2>6. o.kind = "VALUE"
    <3>1. Caller \in Frame(Len(values), Len(blocks), Len(names))
      BY <1>1, StackFrames DEF StackFrame, Caller
    <3>2. Caller \in AssignFrame(Len(values))
      BY <2>1, <3>1, StackFrames, FrameByKind
    <3> QED
      BY <2>2, <3>2 DEF AssignFrame, ValueOperand
  <2>7. \A i \in 1 .. Len(ctrl) - 2 : ctrl[i].kind # "ASSIGN"
    <3>1. ASSUME NEW i \in 1 .. Len(ctrl) - 2, ctrl[i].kind = "ASSIGN"
          PROVE  FALSE
      <4>1. i \in DOMAIN ctrl /\ l \in DOMAIN ctrl /\ i < l
        BY <1>1
      <4>2. ctrl[l].kind \in OperandKind \cup {"CALL"}
        BY <3>1, <4>1, InSingle DEF ExpressionsNest, ExprKind
      <4> QED
        BY <2>1, <4>2 DEF Caller, OperandKind
    <3> QED
      BY <3>1
  <2> QED
    BY <2>2, <2>5, <2>6, <2>7
<1> QED
  BY <1>2, <1>3

LEMMA OperandEnds ==
  ASSUME TypeOK, TypeOK', SingleInv, FlowInv, status = "lowering", IsOperand,
         NEW o, Return(o), NEW ids, Effect(Params, blocks, blocks', ids),
         KnownOperand(Params, blocks', o),
         Caller.kind = "ASSIGN" =>
           o = Caller.dest \/ Caller.dest.id \notin ids,
         \A i \in 1 .. Len(ctrl) - 2 :
           ctrl[i].kind = "ASSIGN" => ctrl[i].dest.id \notin ids,
         UNCHANGED <<fn, status, bindings>>, ValuesKept
  PROVE  SingleInv'
<1> DEFINE l == Len(ctrl) - 1
<1>1. /\ l \in 1 .. Len(ctrl) /\ Len(ctrl) \in Nat /\ Len(ctrl) >= 2
      /\ Caller.kind \in ExprKind /\ Top.kind # "FBODY"
      /\ l < Len(ctrl) /\ l - 1 = Len(ctrl) - 2
  BY StackFrames, OperandCaller DEF IsOperand, Caller
<1>2. /\ Keeps(l) /\ Len(ctrl') = l
      /\ \A i \in 1 .. l - 1 : ctrl'[i] = ctrl[i]
      /\ ctrl'[l].args = Append(ctrl[l].args, o)
  BY <1>1, ReturnShape DEF Caller
<1> HIDE DEF l
<1>3. FrameFits(Params, blocks, ctrl, l)
  BY <1>1, InSingle
<1>4. FrameFits(Params, blocks', ctrl', l)
  <2>1. Alike(ctrl[l], ctrl'[l])
    BY <1>1, <1>2 DEF Keeps
  <2>2. Len(ctrl[l].args) < Len(ctrl[l].wants)
    BY <1>1, <1>3 DEF FrameFits, ArgsFit, Caller, l
  <2>3. Keepers(Params, blocks, blocks')
    BY DEF Effect
  <2>4. ctrl[l].kind = "ASSIGN" =>
          \/ o = ctrl[l].dest
          \/ Undefined(blocks, ctrl[l].dest.id)
               => Undefined(blocks', ctrl[l].dest.id)
    BY DEF Effect, Undefined, Caller, l
  <2>5. ctrl[l].kind \in ExprKind
    BY <1>1 DEF Caller, l
  <2> QED
    BY <1>1, <1>2, <1>3, <2>1, <2>2, <2>3, <2>4, <2>5, ReceiveFits
<1>5. SingleStep(ids)
  <2>1. KnownAll(Params, blocks', bindings')
    BY InSingle, KeptKnown DEF Effect
  <2>2. StackBelow
    BY <1>1, <1>2 DEF StackBelow
  <2>3. Spared(ids)
    BY <1>1, <1>2 DEF Spared
  <2>4. ~(Len(ctrl') > Len(ctrl))
    BY <1>1, <1>2
  <2> QED
    BY <1>2, <1>4, <2>1, <2>2, <2>3, <2>4 DEF SingleStep, ValuesKept
<1> QED
  BY <1>5, SingleKept

\* An operator or a call with a result.
LEMMA ComputeSingle ==
  ASSUME TypeOK, TypeOK', SingleInv, FlowInv, status = "lowering", IsOperand,
         NEW t, NEW o, o = Result(Top.target, t), NEW op,
         blocks' = Emit(blocks, cur, Instruction(op, o, Top.args)),
         Return(o), UNCHANGED <<fn, status, bindings>>, ValuesKept
  PROVE  SingleInv'
<1> DEFINE instr == Instruction(op, o, Top.args)
<1>1. instr.dest = o /\ instr.args = Top.args
  BY DEF Instruction
<1>2. KnownArgs(Params, blocks, Top.args)
  <2>1. Top.kind \in ExprKind
    BY DEF IsOperand, ExprKind, OperandKind
  <2> QED
    BY <2>1, InSingle DEF FrameFits, FrameKnown
<1>3. Sound(Params, blocks, instr)
  BY <1>1, <1>2, SafeResult DEF Sound
<1> HIDE DEF instr
<1>4. blocks' = Emit(blocks, cur, instr) /\ cur \in 1 .. Len(blocks)
  BY StackFrames DEF instr
<1>5. /\ Effect(Params, blocks, blocks', Ids(o))
      /\ KnownOperand(Params, blocks', o)
  BY <1>1, <1>3, <1>4, EmitSites
<1>6. \A id : id # o.id => id \notin Ids(o)
  BY DEF Ids
<1>7. /\ Caller.kind = "ASSIGN" =>
           o = Caller.dest \/ Caller.dest.id \notin Ids(o)
      /\ \A i \in 1 .. Len(ctrl) - 2 :
           ctrl[i].kind = "ASSIGN" => ctrl[i].dest.id \notin Ids(o)
  BY <1>6, SafeResult
<1> QED
  BY <1>5, <1>7, OperandEnds

LEMMA SameBlocks ==
  ASSUME SingleInv, UNCHANGED blocks, NEW ids
  PROVE  Effect(Params, blocks, blocks', ids)
<1>1. SameSites(blocks, blocks')
  BY DEF SameSites
<1> QED
  BY <1>1, EffectSame DEF SingleInv

LEMMA FailSingle ==
  ASSUME SingleInv, NEW e \in Error, Fail(e)
  PROVE  SingleInv'
<1>1. status' # "lowering"
  BY DEF Fail, Error, UnboundAssignment, AssignmentTypes, NoValue,
         AfterReturn, NoReturn, ReturnType, OperandTypes, ArgumentTypes,
         WhileType
<1>2. UNCHANGED <<fn, blocks, values>>
  BY DEF Fail, irVars, nameVars, valueVars
<1>3. Params' = Params
  BY <1>2 DEF Params
<1> QED
  BY <1>1, <1>2, <1>3 DEF SingleInv

LEMMA LeafSingle ==
  ASSUME TypeOK, TypeOK', SingleInv, FlowInv, NEW t, Wanting(t), NEW o,
         Receive(o), KnownOperand(Params, blocks, o),
         UNCHANGED <<runVars, irVars, nameVars, semVars, fuel>>
  PROVE  SingleInv'
<1> DEFINE l == Len(ctrl)
<1>1. /\ l \in 1 .. Len(ctrl) /\ l \in Nat /\ Top = ctrl[l]
      /\ status = "lowering" /\ Top.kind \in ExprKind /\ ~Complete
  BY StackFrames DEF Wanting
<1>2. /\ Len(ctrl') = l /\ Keeps(l)
      /\ \A i \in 1 .. l - 1 : ctrl'[i] = ctrl[i]
      /\ Alike(Top, ctrl'[l]) /\ ctrl'[l].args = Append(Top.args, o)
  BY <1>1, ReceiveShape
<1>3. UNCHANGED <<fn, blocks, values, bindings, status>>
  BY DEF irVars, nameVars, valueVars, runVars
<1> HIDE DEF l
<1>4. Effect(Params, blocks, blocks', {})
  BY <1>3, SameBlocks
<1>5. FrameFits(Params, blocks, ctrl, l)
  BY <1>1, InSingle DEF l
<1>6. Len(Top.args) < Len(Top.wants)
  <2>1. Len(Top.args) <= Len(Top.wants)
    BY <1>1, <1>5 DEF FrameFits, ArgsFit
  <2>2. Len(Top.args) \in Nat /\ Len(Top.wants) \in Nat
    BY <1>1, FrameArgs
  <2> QED
    BY <1>1, <2>1, <2>2 DEF Complete
<1>7. FrameFits(Params, blocks', ctrl', l)
  BY <1>1, <1>2, <1>3, <1>4, <1>5, <1>6, ReceiveFits DEF Effect
<1>8. SingleStep({})
  BY <1>1, <1>2, <1>3, <1>4, <1>7, InSingle, KeptKnown
  DEF SingleStep, StackBelow, Spared, Effect, l
<1> QED
  BY <1>8, SingleKept

LEMMA LiteralSingle ==
  ASSUME TypeOK, TypeOK', SingleInv, FlowInv, NEW t, Literal(t)
  PROVE  SingleInv'
BY LeafSingle DEF Literal, LitOp, KnownOperand

LEMMA IdentifierSingle ==
  ASSUME TypeOK, TypeOK', SingleInv, FlowInv, NEW n \in Name, Identifier(n)
  PROVE  SingleInv'
<1>1. status = "lowering"
  BY DEF Identifier, Readable, Wanting
<1>2. KnownOperand(Params, blocks, ValueOf(bindings[n]))
  BY <1>1, InSingle DEF Identifier, KnownAll, KnownOperand, ValueOf, ValueOp,
                        AllName
<1> QED
  BY <1>2, LeafSingle DEF Identifier, Readable

\* A nested call starts.
LEMMA PushSingle ==
  ASSUME TypeOK, TypeOK', SingleInv, FlowInv, status = "lowering", NEW f,
         Push(f), NEW ids, Effect(Params, blocks, blocks', ids),
         \A i \in 1 .. Len(ctrl) :
           ctrl[i].kind = "ASSIGN" => ctrl[i].dest.id \notin ids,
         UNCHANGED <<fn, status, bindings>>, Len(values) <= Len(values'),
         Top.kind \in ExprKind => ~Complete,
         f.kind \notin SnapshotKind \/ f.kind = "HEADER",
         f.kind = "HEADER" => f.incoming = bindings,
         f.kind \in ExprKind => f.args = << >> /\ Len(f.wants) \in Nat,
         Pending(Params, blocks', f),
         f.kind \in OperandKind \cup {"CALL"} =>
           \/ f.target = NoOperand
           \/ Top.kind = "ASSIGN" /\ f.target = Top.dest
  PROVE  SingleInv'
<1> DEFINE l == Len(ctrl)
<1>1. l \in Nat /\ l >= 1 /\ Top = ctrl[l] /\ l \in 1 .. Len(ctrl)
  BY StackFrames
<1>2. /\ Len(ctrl') = l + 1 /\ ctrl'[l + 1] = f
      /\ \A i \in 1 .. l : ctrl'[i] = ctrl[i]
  BY PushShape
<1> HIDE DEF l
<1>3. KnownAll(Params, blocks', bindings)
  BY InSingle, KeptKnown DEF Effect
<1>4. TargetFits(ctrl', l + 1)
  <2>1. SUFFICES ASSUME f.kind \in OperandKind \cup {"CALL"},
                        Top.kind = "ASSIGN"
                 PROVE  Top.args = << >>
    <3>1. l + 1 - 1 = l /\ l + 1 > 1 /\ ctrl'[l] = Top
      BY <1>1, <1>2
    <3>2. f.kind \in OperandKind \cup {"CALL"} =>
            \/ f.target = NoOperand
            \/ Top.kind = "ASSIGN" /\ Top.args = << >> /\ f.target = Top.dest
      BY <2>1
    <3> QED
      BY <1>1, <1>2, <3>1, <3>2 DEF TargetFits
  <2>2. /\ Top.args \in Seq(Operand(Len(values))) /\ Len(Top.args) \in Nat
        /\ Len(Top.wants) = 1 /\ Top.kind \in ExprKind
    BY <1>1, <2>1, FrameArgs DEF ExprKind
  <2>3. Len(Top.args) <= Len(Top.wants)
    BY <1>1, <2>2, InSingle DEF FrameFits, ArgsFit
  <2>4. /\ Len(Top.args) # Len(Top.wants)
        /\ Len(Top.args) \in Nat /\ Len(Top.wants) = 1
    BY <2>2 DEF Complete
  <2> DEFINE a == Len(Top.args)
             w == Len(Top.wants)
  <2>5. a <= w /\ a # w /\ a \in Nat /\ w = 1
    BY <2>3, <2>4
  <2> HIDE DEF a, w
  <2>6. a = 0
    BY <2>5
  <2> QED
    BY <2>2, <2>6 DEF a
<1>5. FrameFits(Params, blocks', ctrl', l + 1)
  <2>1. l + 1 \in Nat /\ l + 1 = Len(ctrl')
    BY <1>1, <1>2
  <2>2. f.kind \in SnapshotKind => KnownAll(Params, blocks', f.incoming)
    BY <1>3
  <2>3. f.kind \notin {"ELSE", "NOELSE", "MERGE", "LOOP"}
    BY DEF SnapshotKind
  <2> QED
    BY <1>2, <1>4, <2>1, <2>2, <2>3, StartFits
<1>6. SingleStep(ids)
  <2>1. StackBelow /\ Spared(ids)
    BY <1>1, <1>2 DEF StackBelow, Spared, l
  <2> QED
    BY <1>2, <1>3, <1>5, <2>1 DEF SingleStep
<1> QED
  BY <1>6, SingleKept

LEMMA BeginExprSingle ==
  ASSUME TypeOK, TypeOK', SingleInv, FlowInv, NEW t, Wanting(t), NEW f,
         BeginExpr(f), f.kind \in {"BINARY", "NOT", "CALL", "LEFT"},
         f.args = << >>, Len(f.wants) \in Nat, f.target = Target
  PROVE  SingleInv'
<1>1. /\ Push(f) /\ UNCHANGED <<fn, blocks, values, bindings, status>>
      /\ status = "lowering" /\ ~Complete
  BY DEF BeginExpr, irVars, nameVars, valueVars, runVars, Wanting
<1>2. Effect(Params, blocks, blocks', {})
  BY <1>1, SameBlocks
<1>3. Pending(Params, blocks', f)
  BY DEF Pending
<1>4. f.target = NoOperand \/ (Top.kind = "ASSIGN" /\ f.target = Top.dest)
  BY DEF Target
<1>5. f.kind \notin SnapshotKind
  BY DEF SnapshotKind
<1>6. Len(values) <= Len(values')
  BY <1>1, StackFrames
<1> QED
  BY <1>1, <1>2, <1>3, <1>4, <1>5, <1>6, PushSingle DEF SnapshotKind

\* The innermost statement ends.
LEMMA ListResumes ==
  ASSUME TypeOK, TypeOK', SingleInv, FlowInv, status = "lowering",
         Caller.kind \in ListKind, Top.kind # "FBODY", Keeps(Len(ctrl) - 1),
         Len(ctrl') = Len(ctrl) - 1,
         \A i \in 1 .. Len(ctrl) - 2 : ctrl'[i] = ctrl[i],
         NEW ids, Effect(Params, blocks, blocks', ids), Spared(ids),
         KnownAll(Params, blocks', bindings'),
         UNCHANGED <<fn, status>>, Len(values) <= Len(values')
  PROVE  SingleInv'
<1> DEFINE l == Len(ctrl) - 1
<1>1. /\ l \in 1 .. Len(ctrl) /\ l \in Nat /\ Len(ctrl) \in Nat
      /\ l - 1 = Len(ctrl) - 2 /\ l < Len(ctrl)
  BY StackFrames, PoppedFrames
<1> HIDE DEF l
<1>2. Len(ctrl') = l /\ Alike(ctrl[l], ctrl'[l]) /\ ctrl[l].kind \in ListKind
  BY <1>1 DEF Keeps, Caller, l
<1>3. FrameFits(Params, blocks, ctrl, l)
  BY <1>1, InSingle
<1>4. FrameFits(Params, blocks', ctrl', l)
  BY <1>1, <1>2, <1>3, ListFits DEF Effect
<1>5. StackBelow
  BY <1>1, <1>2 DEF StackBelow
<1>6. SingleStep(ids)
  <2>1. ~(Len(ctrl') > Len(ctrl))
    BY <1>1, <1>2
  <2> QED
    BY <1>2, <1>4, <1>5, <2>1 DEF SingleStep
<1> QED
  BY <1>6, SingleKept

LEMMA FinishBinarySingle ==
  ASSUME TypeOK, TypeOK', SingleInv, FlowInv, FinishBinary
  PROVE  SingleInv'
<1> DEFINE t == ResultType(Top.op, Top.args[1].type)
           r == Result(Top.target, t)
<1>1. Top.kind = "BINARY" /\ status = "lowering"
  BY DEF FinishBinary, Active
<1>2. CASE Top.args[1].type # Top.args[2].type
  BY <1>2, FailSingle DEF FinishBinary, Error
<1>3. CASE Top.args[1].type = Top.args[2].type
  <2>1. /\ NewResult(Top.target, t) /\ Return(r)
        /\ blocks' = Emit(blocks, cur, Instruction(Top.op, r, Top.args))
        /\ UNCHANGED <<fn, status, bindings>>
    BY <1>3 DEF FinishBinary, runVars
  <2> HIDE DEF t
  <2>2. ValuesKept
    BY <2>1, NewResultKeeps
  <2>3. IsOperand
    BY <1>1 DEF IsOperand, OperandKind
  <2> QED
    BY <1>1, <2>1, <2>2, <2>3, ComputeSingle
<1> QED
  BY <1>2, <1>3

LEMMA FinishNotSingle ==
  ASSUME TypeOK, TypeOK', SingleInv, FlowInv, FinishNot
  PROVE  SingleInv'
<1> DEFINE r == Result(Top.target, "BOOL")
<1>1. Top.kind = "NOT" /\ status = "lowering"
  BY DEF FinishNot, Active
<1>2. CASE Top.args[1].type # "BOOL"
  BY <1>2, FailSingle DEF FinishNot, Error
<1>3. CASE Top.args[1].type = "BOOL"
  <2>1. /\ NewResult(Top.target, "BOOL") /\ Return(r)
        /\ blocks' = Emit(blocks, cur, Instruction("NOT", r, Top.args))
        /\ UNCHANGED <<fn, status, bindings>>
    BY <1>3 DEF FinishNot, runVars
  <2>2. ValuesKept
    BY <2>1, NewResultKeeps
  <2>3. IsOperand
    BY <1>1 DEF IsOperand, OperandKind
  <2> QED
    BY <1>1, <2>1, <2>2, <2>3, ComputeSingle
<1> QED
  BY <1>2, <1>3

\* An instruction without a destination is sound when its operands are known.
LEMMA QuietSound ==
  ASSUME NEW P, NEW bs, NEW instr, instr.dest = NoOperand,
         KnownArgs(P, bs, instr.args)
  PROVE  Sound(P, bs, instr) /\ Ids(instr.dest) = {}
BY DEF Sound, NoOperand, Ids

LEMMA FinishCallSingle ==
  ASSUME TypeOK, TypeOK', SingleInv, FlowInv, FinishCall
  PROVE  SingleInv'
<1> DEFINE r     == IF Top.ret = "VOID" THEN NoOperand
                    ELSE Result(Top.target, Top.ret)
           instr == Instruction("CALL", r, Top.args)
<1>1. Top.kind = "CALL" /\ status = "lowering" /\ Top.kind \in ExprKind
  BY DEF FinishCall, Active, ExprKind
<1>2. /\ IF Top.ret = "VOID" THEN UNCHANGED valueVars
         ELSE NewResult(Top.target, Top.ret)
      /\ blocks' = Emit(blocks, cur, instr)
      /\ IF Caller.kind \in ListKind THEN Pop ELSE Return(r)
      /\ UNCHANGED <<fn, status, bindings>>
  BY DEF FinishCall, runVars, Caller
<1>3. instr.dest = r /\ instr.args = Top.args
  BY DEF Instruction
<1> HIDE DEF instr
<1>4. ValuesKept
  BY <1>2, NewResultKeeps, SameValues DEF valueVars
<1>5. KnownArgs(Params, blocks, Top.args)
  BY <1>1, InSingle DEF FrameFits, FrameKnown
<1>6. cur \in 1 .. Len(blocks)
  BY StackFrames
<1>7. CASE Caller.kind \notin ListKind /\ Top.ret # "VOID"
  <2>1. blocks' = Emit(blocks, cur, Instruction("CALL", r, Top.args))
        /\ Return(r) /\ r = Result(Top.target, Top.ret)
    BY <1>2, <1>7 DEF instr
  <2>2. IsOperand
    BY <1>1, <1>7 DEF IsOperand
  <2> HIDE DEF r
  <2> QED
    BY <1>1, <1>2, <1>4, <2>1, <2>2, ComputeSingle
<1>8. CASE Caller.kind \notin ListKind /\ Top.ret = "VOID"
  <2>1. r = NoOperand /\ Return(r) /\ KnownOperand(Params, blocks', r)
    BY <1>2, <1>8 DEF KnownOperand, NoOperand
  <2>2. IsOperand
    BY <1>1, <1>8 DEF IsOperand
  <2> HIDE DEF r
  <2>3. Sound(Params, blocks, instr) /\ Ids(instr.dest) = {}
    BY <1>3, <1>5, <2>1, QuietSound
  <2>4. Effect(Params, blocks, blocks', {})
    BY <1>2, <1>6, <2>3, EmitSites
  <2> QED
    BY <1>1, <1>2, <1>4, <2>1, <2>2, <2>4, OperandEnds
<1>9. CASE Caller.kind \in ListKind
  <2>1. r.kind = "VALUE" => r.id = NextId
    <3>1. Top.target = NoOperand
      <4>1. TargetFits(ctrl, Len(ctrl)) /\ Top = ctrl[Len(ctrl)]
        BY <1>1, InSingle DEF FrameFits
      <4>2. Caller.kind # "ASSIGN"
        BY <1>9 DEF ListKind
      <4> QED
        BY <1>1, <4>1, <4>2 DEF TargetFits, Caller
    <3> QED
      BY <3>1 DEF Result, ValueOp, NoOperand
  <2> HIDE DEF r
  <2>2. Sound(Params, blocks, instr)
    BY <1>3, <1>5, <2>1, FreshId DEF Sound
  <2>3. Effect(Params, blocks, blocks', Ids(r))
    BY <1>2, <1>3, <1>6, <2>2, EmitSites
  <2>4. /\ Len(ctrl') = Len(ctrl) - 1 /\ Keeps(Len(ctrl) - 1)
        /\ \A i \in 1 .. Len(ctrl) - 2 : ctrl'[i] = ctrl[i]
    <3>1. Top.kind # "FBODY" /\ Pop
      BY <1>1, <1>2, <1>9
    <3>2. \A i \in 1 .. Len(ctrl) - 2 : i \in 1 .. Len(ctrl) - 1
      BY StackFrames
    <3> QED
      BY <3>1, <3>2, PopShape
  <2>5. Spared(Ids(r))
    <3>1. \A i \in 1 .. Len(ctrl') - 1 : i \in 1 .. Len(ctrl)
      BY <2>4, StackFrames
    <3> QED
      BY <2>1, <3>1, FreshId DEF Spared, Ids
  <2>6. KnownAll(Params, blocks', bindings')
    BY <1>1, <1>2, <2>3, InSingle, KeptKnown DEF Effect
  <2> QED
    BY <1>1, <1>2, <1>4, <1>9, <2>3, <2>4, <2>5, <2>6, ListResumes
    DEF ValuesKept
<1> QED
  BY <1>7, <1>8, <1>9

LEMMA DropLogicSingle ==
  ASSUME TypeOK, TypeOK', SingleInv, FlowInv, DropLogic
  PROVE  SingleInv'
<1>1. /\ status = "lowering" /\ Top.kind \in {"LEFT", "RIGHT"}
      /\ Return(NoOperand) /\ UNCHANGED <<fn, status, bindings, blocks, values>>
  BY DEF DropLogic, Active, irVars, nameVars, valueVars
<1>2. IsOperand
  BY <1>1 DEF IsOperand, OperandKind
<1>3. Effect(Params, blocks, blocks', {}) /\ ValuesKept
  BY <1>1, SameBlocks, SameValues
<1>4. KnownOperand(Params, blocks', NoOperand)
  BY DEF KnownOperand, NoOperand
<1> QED
  BY <1>1, <1>2, <1>3, <1>4, OperandEnds

\* The innermost call goes on as something else.
LEMMA ReplaceSingle ==
  ASSUME TypeOK, TypeOK', SingleInv, FlowInv, status = "lowering", NEW f,
         Replace(f), NEW ids, Effect(Params, blocks, blocks', ids),
         \A i \in 1 .. Len(ctrl) - 1 :
           ctrl[i].kind = "ASSIGN" => ctrl[i].dest.id \notin ids,
         KnownAll(Params, blocks', bindings'),
         UNCHANGED <<fn, status>>, Len(values) <= Len(values'),
         FrameFits(Params, blocks', ctrl', Len(ctrl))
  PROVE  SingleInv'
<1>1. /\ Len(ctrl) \in Nat /\ Len(ctrl') = Len(ctrl)
      /\ \A i \in 1 .. Len(ctrl) - 1 : ctrl'[i] = ctrl[i]
  BY ReplaceShape, StackFrames
<1>2. StackBelow /\ Spared(ids) /\ ~(Len(ctrl') > Len(ctrl))
  BY <1>1 DEF StackBelow, Spared
<1>3. SingleStep(ids)
  BY <1>1, <1>2 DEF SingleStep
<1> QED
  BY <1>3, SingleKept

\* emit_conditional_branch and emit_branch use a value or none.
LEMMA SplitAdds ==
  ASSUME TypeOK, NEW wide, NEW q, Opened(wide, q),
         NEW t \in 1 .. q, NEW e \in 1 .. q, t # e,
         NEW o \in Operand(Len(values)),
         blocks' = CondBranch(wide, cur, o, t, e)
  PROVE  /\ SiteAdded(blocks, blocks', Choice(o, t, e))
         /\ CodeAdded(blocks, blocks', cur, Choice(o, t, e))
         /\ blocks' \in Seq(Block(Len(values), q)) /\ Len(blocks') = q
<1> DEFINE n == Len(values)
           m == Len(blocks)
           new == blocks'
           instr == Choice(o, t, e)
<1>1. /\ n \in Nat /\ m \in Nat /\ q \in Nat /\ cur \in 1 .. m
      /\ blocks \in Seq(Block(n, m)) /\ wide \in Seq(Block(n, q))
      /\ Len(wide) = q /\ Extends(blocks, wide) /\ m <= q
  BY StackFrames DEF Opened, Extends
<1>2. cur \in 1 .. Len(wide) /\ t \in 1 .. Len(wide) /\ e \in 1 .. Len(wide)
      /\ Len(wide) <= q
  BY <1>1
<1> HIDE DEF n, m, instr
<1>3. /\ new \in Seq(Block(n, q)) /\ Split(wide, new, cur, o, t, e)
  BY <1>1, <1>2, CondBranchEffect DEF n
<1>4. CodeAdded(blocks, new, cur, instr)
  <2>1. \A x \in 1 .. Len(blocks) : x \in 1 .. Len(wide) /\ wide[x] = blocks[x]
    BY <1>1 DEF Extends, m
  <2>2. \A x \in Len(blocks) + 1 .. Len(wide) :
          x \in 1 .. Len(wide) /\ x # cur /\ wide[x].code = << >>
    BY <1>1 DEF Extends, NewBlock, m
  <2>3. /\ Len(new) = Len(wide)
        /\ new[cur].code = Append(wide[cur].code, instr)
        /\ \A x \in 1 .. Len(wide) : x # cur => new[x].code = wide[x].code
    BY <1>3 DEF Split, instr
  <2>4. \A x \in 1 .. Len(blocks) : x # cur => new[x].code = blocks[x].code
    BY <2>1, <2>3
  <2>5. \A x \in Len(blocks) + 1 .. Len(new) : new[x].code = << >>
    BY <2>2, <2>3
  <2>6. new[cur].code = Append(blocks[cur].code, instr)
    BY <1>1, <2>1, <2>3 DEF m
  <2>7. Len(blocks) <= Len(new)
    BY <1>1, <2>3 DEF m
  <2> QED
    BY <2>4, <2>5, <2>6, <2>7 DEF CodeAdded
<1>5. SiteAdded(blocks, new, instr)
  BY <1>1, <1>3, <1>4, SitesAdded DEF m
<1>6. Len(new) = q
  BY <1>1, <1>3 DEF Split
<1> QED
  BY <1>3, <1>4, <1>5, <1>6 DEF n, instr

LEMMA SplitSites ==
  ASSUME TypeOK, SingleInv, NEW wide, NEW q, Opened(wide, q),
         NEW t \in 1 .. q, NEW e \in 1 .. q, t # e,
         NEW o \in Operand(Len(values)), KnownOperand(Params, blocks, o),
         blocks' = CondBranch(wide, cur, o, t, e)
  PROVE  Effect(Params, blocks, blocks', {})
<1> DEFINE instr == Choice(o, t, e)
<1>1. SiteAdded(blocks, blocks', instr)
  BY SplitAdds
<1>2. Sound(Params, blocks, instr) /\ Ids(instr.dest) = {}
  <2>1. instr.dest = NoOperand /\ instr.args = <<o>>
    BY DEF Choice
  <2>2. KnownArgs(Params, blocks, <<o>>)
    BY DEF KnownArgs
  <2> QED
    BY <2>1, <2>2, QuietSound
<1> HIDE DEF instr
<1> QED
  BY <1>1, <1>2, EffectAdded DEF SingleInv

LEMMA BranchAdds ==
  ASSUME TypeOK, NEW n \in Nat, Len(values) <= n, NEW wide, NEW q,
         wide \in Seq(Block(n, q)), Len(wide) = q, q \in Nat,
         Extends(blocks, wide), NEW t \in 1 .. q, NEW new,
         new = Branch(wide, cur, t)
  PROVE  /\ SiteAdded(blocks, new, Jump(t)) /\ new \in Seq(Block(n, q))
         /\ CodeAdded(blocks, new, cur, Jump(t)) /\ Len(new) = q
<1> DEFINE m == Len(blocks)
           p == Len(values)
           instr == Jump(t)
<1>1. /\ p \in Nat /\ m \in Nat /\ q \in Nat /\ cur \in 1 .. m
      /\ blocks \in Seq(Block(p, m)) /\ Len(wide) = q /\ m <= q
  BY StackFrames DEF Extends
<1>2. cur \in 1 .. Len(wide) /\ t \in 1 .. Len(wide) /\ Len(wide) <= q
  BY <1>1
<1> HIDE DEF m, p, instr
<1>3. new \in Seq(Block(n, q)) /\ Branched(wide, new, cur, t)
  BY <1>1, <1>2, BranchEffect
<1>4. CodeAdded(blocks, new, cur, instr)
  <2>1. \A x \in 1 .. Len(blocks) : x \in 1 .. Len(wide) /\ wide[x] = blocks[x]
    BY <1>1 DEF Extends, m
  <2>2. \A x \in Len(blocks) + 1 .. Len(wide) :
          x \in 1 .. Len(wide) /\ x # cur /\ wide[x].code = << >>
    BY <1>1 DEF Extends, NewBlock, m
  <2>3. /\ Len(new) = Len(wide)
        /\ new[cur].code = Append(wide[cur].code, instr)
        /\ \A x \in 1 .. Len(wide) : x # cur => new[x].code = wide[x].code
    BY <1>3 DEF Branched, instr
  <2>4. \A x \in 1 .. Len(blocks) : x # cur => new[x].code = blocks[x].code
    BY <2>1, <2>3
  <2>5. \A x \in Len(blocks) + 1 .. Len(new) : new[x].code = << >>
    BY <2>2, <2>3
  <2>6. new[cur].code = Append(blocks[cur].code, instr)
    BY <1>1, <2>1, <2>3 DEF m
  <2>7. Len(blocks) <= Len(new)
    BY <1>1, <2>3 DEF m
  <2> QED
    BY <2>4, <2>5, <2>6, <2>7 DEF CodeAdded
<1>5. SiteAdded(blocks, new, instr)
  BY <1>1, <1>3, <1>4, SitesAdded DEF m
<1>6. Len(new) = q
  BY <1>1, <1>3 DEF Branched
<1> QED
  BY <1>3, <1>4, <1>5, <1>6 DEF instr

LEMMA BranchSites ==
  ASSUME TypeOK, SingleInv, NEW n \in Nat, Len(values) <= n, NEW wide, NEW q,
         wide \in Seq(Block(n, q)), Len(wide) = q, q \in Nat,
         Extends(blocks, wide), NEW t \in 1 .. q, NEW new,
         new = Branch(wide, cur, t)
  PROVE  /\ Effect(Params, blocks, new, {}) /\ new \in Seq(Block(n, q))
         /\ Len(new) = q
<1> DEFINE instr == Jump(t)
<1>1. /\ SiteAdded(blocks, new, instr) /\ new \in Seq(Block(n, q))
      /\ Len(new) = q
  BY BranchAdds
<1>2. Sound(Params, blocks, instr) /\ Ids(instr.dest) = {}
  <2>1. instr.dest = NoOperand /\ instr.args = << >>
    BY DEF Jump
  <2>2. KnownArgs(Params, blocks, << >>)
    BY DEF KnownArgs
  <2> QED
    BY <2>1, <2>2, QuietSound
<1> HIDE DEF instr
<1> QED
  BY <1>1, <1>2, EffectAdded DEF SingleInv

LEMMA JoinSites ==
  ASSUME TypeOK, SingleInv, NEW t \in 1 .. Len(blocks), blocks' = Join(t)
  PROVE  Effect(Params, blocks, blocks', {})
<1>1. CASE blocks[cur].terminated
  BY <1>1, SameBlocks DEF Join
<1>2. CASE ~blocks[cur].terminated
  <2>1. blocks' = Branch(blocks, cur, t)
    BY <1>2 DEF Join
  <2>2. /\ Len(values) \in Nat /\ Len(blocks) \in Nat
        /\ blocks \in Seq(Block(Len(values), Len(blocks)))
    BY StackFrames
  <2>3. Extends(blocks, blocks)
    BY <2>2 DEF Extends
  <2>4. Len(values) <= Len(values)
    BY <2>2
  <2> QED
    BY <2>1, <2>2, <2>3, <2>4, BranchSites
<1> QED
  BY <1>1, <1>2

\* The operand that a complete call has received.
LEMMA FirstOperand ==
  ASSUME TypeOK, SingleInv, FlowInv, status = "lowering", Complete,
         Top.kind \in ExprKind \ {"BINARY", "CALL"}
  PROVE  /\ Top.args[1] \in Operand(Len(values)) /\ 1 \in DOMAIN Top.args
         /\ KnownOperand(Params, blocks, Top.args[1])
<1>1. KnownArgs(Params, blocks, Top.args)
  BY InSingle DEF FrameFits, FrameKnown
<1>2. /\ Top.args \in Seq(Operand(Len(values)))
      /\ Len(Top.args) = Len(Top.wants) /\ Len(Top.wants) = 1
  BY FrameArgs, StackFrames DEF Complete
<1>3. 1 \in DOMAIN Top.args /\ Top.args[1] \in Operand(Len(values))
  BY <1>2
<1> QED
  BY <1>1, <1>3 DEF KnownArgs

LEMMA SplitLogicSingle ==
  ASSUME TypeOK, TypeOK', SingleInv, FlowInv, SplitLogic
  PROVE  SingleInv'
<1> DEFINE right == Len(blocks) + 1
           merge == Len(blocks) + 2
           wide  == blocks \o <<NewBlock, NewBlock>>
           o     == Top.args[1]
           t     == IF Top.isOr THEN merge ELSE right
           e     == IF Top.isOr THEN right ELSE merge
           f     == [kind |-> "RIGHT", wants |-> <<"BOOL">>, args |-> << >>,
                     target |-> Top.target, isOr |-> Top.isOr,
                     decision |-> cur, merge |-> merge]
           l     == Len(ctrl)
<1>1. /\ blocks' = CondBranch(wide, cur, o, t, e) /\ Replace(f)
      /\ UNCHANGED <<fn, status, values, bindings>>
      /\ Top.kind = "LEFT" /\ Complete /\ status = "lowering"
  BY DEF SplitLogic, Active, runVars, nameVars, valueVars
<1>2. Opened(wide, merge) /\ Len(blocks) \in Nat
  <2>1. /\ blocks \in Seq(Block(Len(values), Len(blocks)))
        /\ Len(blocks) \in Nat /\ Len(values) \in Nat
    BY StackFrames
  <2>2. wide \in Seq(Block(Len(values), merge)) /\ Len(wide) = merge
    BY <2>1, NewBlocksType
  <2>3. Extends(blocks, wide)
    BY <2>1, ExtendsNew
  <2> QED
    BY <2>1, <2>2, <2>3 DEF Opened
<1>3. t \in 1 .. merge /\ e \in 1 .. merge /\ t # e
  BY <1>2
<1>4. /\ o \in Operand(Len(values)) /\ KnownOperand(Params, blocks, o)
  BY <1>1, FirstOperand DEF ExprKind
<1>5. /\ f.kind = "RIGHT" /\ f.args = << >> /\ Len(f.wants) \in Nat
      /\ f.target = Top.target
  OBVIOUS
<1> HIDE DEF wide, o, t, e, f, merge
<1>6. Effect(Params, blocks, blocks', {})
  BY <1>1, <1>2, <1>3, <1>4, SplitSites
<1>7. /\ l \in Nat /\ Len(ctrl') = l /\ ctrl'[l] = f /\ Top = ctrl[l]
      /\ \A i \in 1 .. l - 1 : ctrl'[i] = ctrl[i]
  BY <1>1, ReplaceShape, StackFrames
<1>8. TargetFits(ctrl', l)
  <2>1. TargetFits(ctrl, l)
    BY <1>1, InSingle DEF FrameFits
  <2>2. l > 1 => ctrl'[l - 1] = ctrl[l - 1]
    BY <1>7
  <2>3. Top.kind \in OperandKind \cup {"CALL"}
    BY <1>1 DEF OperandKind
  <2> QED
    BY <1>5, <1>7, <2>1, <2>2, <2>3 DEF TargetFits
<1> HIDE DEF l
<1>9. FrameFits(Params, blocks', ctrl', l)
  BY <1>5, <1>7, <1>8, StartFits DEF Pending, SnapshotKind
<1>10. KnownAll(Params, blocks', bindings')
  BY <1>1, <1>6, InSingle, KeptKnown DEF Effect
<1>11. Len(values) <= Len(values')
  BY <1>1, StackFrames
<1> QED
  BY <1>1, <1>6, <1>9, <1>10, <1>11, ReplaceSingle DEF l

LEMMA FinishLogicSingle ==
  ASSUME TypeOK, TypeOK', SingleInv, FlowInv, FinishLogic
  PROVE  SingleInv'
<1> DEFINE r     == Result(Top.target, "BOOL")
           short == LitOp("BOOL", IF Top.isOr THEN 1 ELSE 0)
           o     == Top.args[1]
           t     == Top.merge
           phi   == Phi(r, <<short, o>>, <<Top.decision, cur>>)
           mid   == Branch(blocks, cur, t)
           n     == Len(values')
           m     == Len(blocks)
           new   == blocks'
<1>1. /\ Top.kind = "RIGHT" /\ status = "lowering" /\ Complete
      /\ NewResult(Top.target, "BOOL") /\ new = Emit(mid, t, phi)
      /\ Return(r) /\ UNCHANGED <<fn, status, bindings>>
  BY DEF FinishLogic, Active, runVars
<1>2. IsOperand
  BY <1>1 DEF IsOperand, OperandKind
<1>3. ValuesKept
  BY <1>1, NewResultKeeps
<1>4. t \in 1 .. m
  <2>1. Len(ctrl) \in 1 .. Len(ctrl) /\ Top = ctrl[Len(ctrl)]
    BY StackFrames
  <2> QED
    BY <1>1, <2>1, FrameBlocks
<1>5. phi.dest = r /\ phi.args = <<short, o>>
  BY DEF Phi
<1>6. KnownArgs(Params, blocks, phi.args)
  <2>1. KnownOperand(Params, blocks, o)
    BY <1>1, FirstOperand DEF ExprKind
  <2>2. KnownOperand(Params, blocks, short)
    BY DEF KnownOperand, LitOp
  <2> HIDE DEF short, o, phi
  <2> QED
    BY <1>5, <2>1, <2>2 DEF KnownArgs
<1>7. Sound(Params, blocks, phi)
  <2> HIDE DEF phi
  <2> QED
    BY <1>1, <1>2, <1>5, <1>6, SafeResult DEF Sound
<1> HIDE DEF phi, r
<1>8. /\ cur \in 1 .. m /\ m \in Nat /\ n \in Nat /\ Len(values) <= n
      /\ blocks \in Seq(Block(n, m)) /\ Extends(blocks, blocks)
  <2>1. /\ cur \in 1 .. m /\ m \in Nat /\ Len(values) \in Nat
        /\ blocks \in Seq(Block(Len(values), m))
    BY StackFrames
  <2>2. n \in Nat /\ Len(values) <= n
    BY <1>3 DEF TypeOK, NamesType, Values, ValuesKept
  <2>3. Seq(Block(Len(values), m)) \subseteq Seq(Block(n, m))
    BY <2>1, <2>2, BlockGrows, SeqGrows
  <2> QED
    BY <2>1, <2>2, <2>3 DEF Extends
<1> HIDE DEF n, m, new, mid, t
<1>9. /\ Effect(Params, blocks, mid, {}) /\ mid \in Seq(Block(n, m))
      /\ Len(mid) = m
  BY <1>4, <1>8, BranchSites DEF mid, m
<1>10. Emitted(mid, new, t, phi) /\ t \in 1 .. Len(mid)
  <2>1. t \in 1 .. Len(mid)
    BY <1>4, <1>9
  <2> QED
    BY <1>1, <1>9, <2>1, EmitOn
<1>11. new \in Seq(Block(n, m))
  <2>1. Len(new) = m
    BY <1>9, <1>10 DEF Emitted
  <2> QED
    BY <2>1 DEF TypeOK, IRType, new, n
<1>12. SiteAdded(mid, new, phi)
  <2>1. CodeAdded(mid, new, t, phi)
    BY <1>8, <1>9, <1>10 DEF Emitted, CodeAdded
  <2> QED
    BY <1>8, <1>9, <1>10, <1>11, <2>1, SitesAdded
<1>13. Sound(Params, mid, phi)
  BY <1>7, <1>9, SoundKept
<1>14. /\ Effect(Params, mid, new, Ids(r)) /\ KnownOperand(Params, new, r)
  BY <1>5, <1>9, <1>12, <1>13, EffectAdded DEF Effect
<1>15. Effect(Params, blocks, new, Ids(r))
  BY <1>9, <1>14, EffectTwice
<1>16. /\ Caller.kind = "ASSIGN" =>
            r = Caller.dest \/ Caller.dest.id \notin Ids(r)
       /\ \A i \in 1 .. Len(ctrl) - 2 :
            ctrl[i].kind = "ASSIGN" => ctrl[i].dest.id \notin Ids(r)
  <2>1. \A id : id # r.id => id \notin Ids(r)
    BY DEF Ids
  <2> QED
    BY <1>1, <1>2, <2>1, SafeResult DEF r
<1> QED
  BY <1>1, <1>2, <1>3, <1>14, <1>15, <1>16, OperandEnds DEF new

LEMMA ExpressionSingle ==
  ASSUME TypeOK, TypeOK', SingleInv, FlowInv, Expression
  PROVE  SingleInv'
<1>1. ASSUME NEW n \in Name, UnboundIdentifier(n)
      PROVE  SingleInv'
  BY <1>1, FailSingle DEF UnboundIdentifier, Error
<1>2. ASSUME NEW t, NEW op, BeginBinary(op, t)
      PROVE  SingleInv'
  <2> DEFINE f == [kind |-> "BINARY", op |-> op, wants |-> <<t, t>>,
                   args |-> << >>, target |-> Target]
             u == CheckedType(op, t)
  <2>1. Wanting(u) /\ BeginExpr(f) /\ f.kind = "BINARY" /\ f.args = << >>
        /\ Len(f.wants) \in Nat /\ f.target = Target
    BY <1>2 DEF BeginBinary
  <2> HIDE DEF f, u
  <2> QED
    BY <2>1, BeginExprSingle
<1>3. ASSUME BeginNot
      PROVE  SingleInv'
  <2> DEFINE f == [kind |-> "NOT", wants |-> <<"BOOL">>, args |-> << >>,
                   target |-> Target]
  <2>1. Wanting("BOOL") /\ BeginExpr(f) /\ f.kind = "NOT" /\ f.args = << >>
        /\ Len(f.wants) \in Nat /\ f.target = Target
    BY <1>3 DEF BeginNot
  <2> HIDE DEF f
  <2> QED
    BY <2>1, BeginExprSingle
<1>4. ASSUME NEW isOr, BeginLogic(isOr)
      PROVE  SingleInv'
  <2> DEFINE f == [kind |-> "LEFT", wants |-> <<"BOOL">>, args |-> << >>,
                   target |-> Target, isOr |-> isOr]
  <2>1. Wanting("BOOL") /\ BeginExpr(f) /\ f.kind = "LEFT" /\ f.args = << >>
        /\ Len(f.wants) \in Nat /\ f.target = Target
    BY <1>4 DEF BeginLogic
  <2> HIDE DEF f
  <2> QED
    BY <2>1, BeginExprSingle
<1>5. ASSUME NEW g \in Callees, BeginCall(g)
      PROVE  SingleInv'
  <2> DEFINE f == [kind |-> "CALL", ret |-> g.ret, wants |-> g.params,
                   args |-> << >>, target |-> Target]
             u == g.ret
  <2>1. Len(g.params) \in Nat
    BY CalleesAssumption
  <2>2. Wanting(u) /\ BeginExpr(f) /\ f.kind = "CALL" /\ f.args = << >>
        /\ Len(f.wants) \in Nat /\ f.target = Target
    BY <1>5, <2>1 DEF BeginCall
  <2> HIDE DEF f, u
  <2> QED
    BY <2>2, BeginExprSingle
<1>6. ASSUME ArgumentMismatch
      PROVE  SingleInv'
  BY <1>6, FailSingle DEF ArgumentMismatch, Error
<1> QED
  BY <1>1, <1>2, <1>3, <1>4, <1>5, <1>6, LiteralSingle, IdentifierSingle,
     FinishBinarySingle, FinishNotSingle, DropLogicSingle, SplitLogicSingle,
     FinishLogicSingle, FinishCallSingle
  DEF Expression

-----------------------------------------------------------------------------
(***************************************************************************)
(* Statements.                                                             *)
(***************************************************************************)

\* A statement that is a call of its own starts.
LEMMA BeginStatementSingle ==
  ASSUME TypeOK, TypeOK', SingleInv, FlowInv, InList, NEW f, Push(f),
         UNCHANGED <<fn, blocks, values, bindings, status>>,
         f.kind \in {"RETURN", "CALL", "BLOCK", "IFCOND"},
         f.kind # "BLOCK" => f.args = << >> /\ Len(f.wants) \in Nat,
         f.kind = "CALL" => f.target = NoOperand
  PROVE  SingleInv'
<1>1. status = "lowering" /\ (Top.kind \in ExprKind => ~Complete)
  BY DEF InList, ListKind, ExprKind
<1>2. Effect(Params, blocks, blocks', {})
  BY SameBlocks
<1>3. Len(values) <= Len(values')
  BY StackFrames
<1> QED
  BY <1>1, <1>2, <1>3, PushSingle
  DEF Pending, SnapshotKind, ExprKind, OperandKind

\* A statement ends and leaves values and bindings as they are.
LEMMA EndStatementSingle ==
  ASSUME TypeOK, TypeOK', SingleInv, FlowInv, status = "lowering",
         Top.kind \in StatementKind, NEW r, EndStatement(r),
         Effect(Params, blocks, blocks', {}),
         KnownAll(Params, blocks', bindings'),
         UNCHANGED <<fn, values, status>>
  PROVE  SingleInv'
<1>1. Caller.kind \in ListKind /\ Top.kind # "FBODY"
  BY StatementCaller DEF Caller
<1>2. /\ Keeps(Len(ctrl) - 1) /\ Len(ctrl') = Len(ctrl) - 1
      /\ \A i \in 1 .. Len(ctrl) - 2 : ctrl'[i] = ctrl[i]
  BY <1>1, EndShape DEF Caller
<1>3. Spared({}) /\ Len(values) <= Len(values')
  BY StackFrames DEF Spared
<1> QED
  BY <1>1, <1>2, <1>3, ListResumes

LEMMA SameBindings ==
  ASSUME TypeOK, SingleInv, FlowInv, status = "lowering", NEW ids,
         Effect(Params, blocks, blocks', ids), UNCHANGED bindings
  PROVE  KnownAll(Params, blocks', bindings')
BY InSingle, KeptKnown DEF Effect

LEMMA DeclareOnlySingle ==
  ASSUME TypeOK, TypeOK', SingleInv, FlowInv, NEW n, NEW t, DeclareOnly(n, t)
  PROVE  SingleInv'
<1>1. /\ status = "lowering"
      /\ UNCHANGED <<fn, status, blocks, values, bindings, ctrl>>
  BY DEF DeclareOnly, StartStatement, NextStatement, InList, runVars, irVars,
         nameVars, valueVars
<1> QED
  BY <1>1 DEF SingleInv, SingleLowering, Params

LEMMA BeginAssignmentSingle ==
  ASSUME TypeOK, TypeOK', SingleInv, FlowInv, InList,
         NEW n, NEW u, NEW t, BeginAssignment(n, u, t)
  PROVE  SingleInv'
<1> DEFINE f == [kind |-> "ASSIGN", name |-> n, dest |-> ValueOp(NextId, t),
                 wants |-> <<u>>, args |-> << >>]
<1>1. /\ Push(f) /\ NewValue(n, t)
      /\ UNCHANGED <<fn, status, blocks, bindings>>
      /\ f.kind = "ASSIGN" /\ f.args = << >> /\ Len(f.wants) \in Nat
      /\ f.dest.id = NextId
  BY DEF BeginAssignment, runVars, irVars, ValueOp
<1> HIDE DEF f
<1>2. status = "lowering" /\ (Top.kind \in ExprKind => ~Complete)
  BY DEF InList, ListKind, ExprKind
<1>3. Effect(Params, blocks, blocks', {})
  BY <1>1, SameBlocks
<1>4. Pending(Params, blocks', f)
  BY <1>1, FreshId DEF Pending
<1>5. Len(values) <= Len(values')
  BY <1>1, NewValueKeeps DEF ValuesKept
<1> QED
  BY <1>1, <1>2, <1>3, <1>4, <1>5, PushSingle DEF SnapshotKind, OperandKind

\* The bindings with one name bound anew.
LEMMA KnownBind ==
  ASSUME NEW P, NEW bs, NEW s, NEW n, NEW id, NEW u, NEW S,
         s \in [AllName -> S], KnownAll(P, bs, s), Known(P, bs, id),
         u = [s EXCEPT ![n] = id]
  PROVE  KnownAll(P, bs, u)
BY DEF KnownAll

LEMMA FinishAssignmentSingle ==
  ASSUME TypeOK, TypeOK', SingleInv, FlowInv, FinishAssignment
  PROVE  SingleInv'
<1> DEFINE r     == Top.args[1]
           d     == Top.dest
           instr == Instruction("COPY", d, <<r>>)
           l     == Len(ctrl)
<1>1. Top.kind = "ASSIGN" /\ Complete /\ status = "lowering"
  BY DEF FinishAssignment, Active
<1>2. CASE r.type # d.type
  BY <1>2, FailSingle DEF FinishAssignment, Error
<1>3. CASE r.type = d.type
  <2>1. /\ blocks' = Store(d, r) /\ Pop
        /\ UNCHANGED <<fn, status, values>>
        /\ bindings' = [bindings EXCEPT ![Top.name] = d.id]
    BY <1>3 DEF FinishAssignment, runVars, valueVars
  <2>2. /\ l \in 1 .. Len(ctrl) /\ l \in Nat /\ Top = ctrl[l]
        /\ Top.kind \in ExprKind
    BY <1>1, StackFrames DEF ExprKind
  <2>3. KnownOperand(Params, blocks, r) /\ 1 \in DOMAIN Top.args
    BY <1>1, <2>2, FirstOperand
  <2>4. d.kind = "VALUE" /\ d.id \notin Params
    <3>1. Top \in Frame(Len(values), Len(blocks), Len(names))
          /\ Len(values) \in Nat /\ Len(blocks) \in Nat /\ Len(names) \in Nat
      BY StackFrames DEF StackFrame
    <3>2. Top \in AssignFrame(Len(values))
      BY <1>1, <3>1, FrameByKind
    <3> QED
      BY <1>1, <2>2, <3>2, InSingle
      DEF AssignFrame, ValueOperand, FrameFits, Pending
  <2>5. /\ Effect(Params, blocks, blocks', {d.id})
        /\ Known(Params, blocks', d.id)
    <3>1. CASE r = d
      <4>1. blocks' = blocks
        BY <2>1, <3>1 DEF Store
      <4> QED
        BY <2>3, <2>4, <3>1, <4>1, SameBlocks DEF KnownOperand
    <3>2. CASE r # d
      <4>1. Undefined(blocks, d.id)
        <5>1. Top.args # <<d>>
          BY <3>2
        <5> QED
          BY <1>1, <2>2, <5>1, InSingle DEF FrameFits, Pending
      <4>2. blocks' = Emit(blocks, cur, instr) /\ cur \in 1 .. Len(blocks)
        BY <2>1, <3>2, StackFrames DEF Store
      <4>3. instr.dest = d /\ instr.args = <<r>>
        BY DEF Instruction
      <4> HIDE DEF instr
      <4>4. Sound(Params, blocks, instr)
        <5>1. KnownArgs(Params, blocks, <<r>>)
          BY <2>3 DEF KnownArgs
        <5> QED
          BY <2>4, <4>1, <4>3, <5>1 DEF Sound
      <4>5. /\ Effect(Params, blocks, blocks', Ids(d))
            /\ KnownOperand(Params, blocks', d)
        BY <4>2, <4>3, <4>4, EmitSites
      <4> QED
        BY <2>4, <4>5 DEF Ids, KnownOperand
    <3> QED
      BY <3>1, <3>2
  <2>6. KnownAll(Params, blocks', bindings')
    <3>1. KnownAll(Params, blocks', bindings)
      BY <1>1, <2>5, InSingle, KeptKnown DEF Effect
    <3>2. bindings \in [AllName -> 0 .. Len(values)]
      BY DEF TypeOK, NamesType, Snapshot
    <3> QED
      BY <2>1, <2>5, <3>1, <3>2, KnownBind
  <2>7. Caller.kind \in ListKind /\ Top.kind # "FBODY"
    BY <1>1, StatementCaller DEF Caller, StatementKind
  <2>8. /\ Keeps(Len(ctrl) - 1) /\ Len(ctrl') = Len(ctrl) - 1
        /\ \A i \in 1 .. Len(ctrl) - 1 : ctrl'[i] = ctrl[i]
    BY <2>1, <2>7, PopShape
  <2>9. \A i \in 1 .. Len(ctrl) - 2 : ctrl'[i] = ctrl[i]
    BY <2>2, <2>8
  <2>10. Spared({d.id})
    <3>1. ASSUME NEW i \in 1 .. Len(ctrl') - 1, ctrl[i].kind = "ASSIGN"
          PROVE  FALSE
      <4>1. i \in DOMAIN ctrl /\ l \in DOMAIN ctrl /\ i < l
        BY <2>2, <2>8, StackFrames
      <4>2. ctrl[l].kind \in OperandKind \cup {"CALL"}
        BY <1>1, <3>1, <4>1, InSingle DEF ExpressionsNest, ExprKind
      <4> QED
        BY <1>1, <2>2, <4>2 DEF OperandKind
    <3> QED
      BY <3>1 DEF Spared
  <2>11. Len(values) <= Len(values')
    BY <2>1, StackFrames
  <2> QED
    BY <1>1, <2>1, <2>5, <2>6, <2>7, <2>8, <2>9, <2>10, <2>11, ListResumes
<1> QED
  BY <1>2, <1>3

\* A return uses a value or none, and ends the block.
LEMMA ReturnAdds ==
  ASSUME TypeOK, NEW args \in Seq(Operand(Len(values))),
         EmitReturn(args)
  PROVE  /\ SiteAdded(blocks, blocks', Instruction("RET", NoOperand, args))
         /\ CodeAdded(blocks, blocks', cur, Instruction("RET", NoOperand, args))
         /\ blocks' \in Seq(Block(Len(values), Len(blocks)))
<1> DEFINE n     == Len(values)
           m     == Len(blocks)
           instr == Instruction("RET", NoOperand, args)
           e     == Emit(blocks, cur, instr)
<1>1. /\ n \in Nat /\ m \in Nat /\ blocks \in Seq(Block(n, m))
      /\ cur \in 1 .. Len(blocks) /\ Len(blocks) = m
  BY StackFrames
<1>2. /\ instr.dest = NoOperand /\ instr.args = args
      /\ instr \in Instr(n, m)
  BY <1>1, NoOperandType, InstructionType DEF Instruction, Opcode
<1>3. blocks' = Terminate(e, cur)
  BY DEF EmitReturn
<1> HIDE DEF instr, n, m
<1>4. e \in Seq(Block(n, m)) /\ Emitted(blocks, e, cur, instr)
  BY <1>1, <1>2, EmitEffect
<1> HIDE DEF e
<1>5. Len(e) = Len(blocks) /\ cur \in 1 .. Len(e)
  BY <1>1, <1>4 DEF Emitted
<1>6. blocks' \in Seq(Block(n, m)) /\ Marks(e, blocks', cur)
  BY <1>1, <1>3, <1>4, <1>5, TerminateEffect
<1>7. CodeAdded(blocks, blocks', cur, instr)
  <2>1. Len(blocks') = m
    BY <1>1, <1>5, <1>6 DEF Marks
  <2>2. ASSUME NEW x \in 1 .. m, x # cur
        PROVE  blocks'[x].code = blocks[x].code
    <3>1. e[x] = blocks[x] /\ blocks'[x] = e[x]
      BY <1>1, <1>4, <1>5, <1>6, <2>2 DEF Emitted, Marks
    <3> QED
      BY <3>1
  <2>3. blocks'[cur].code = Append(blocks[cur].code, instr)
    BY <1>4, <1>6 DEF Emitted, Marks
  <2>4. \A x \in m + 1 .. m : blocks'[x].code = << >>
    BY <1>1
  <2> QED
    BY <1>1, <2>1, <2>2, <2>3, <2>4 DEF CodeAdded
<1>8. SiteAdded(blocks, blocks', instr)
  BY <1>1, <1>6, <1>7, SitesAdded
<1> QED
  BY <1>6, <1>7, <1>8 DEF m, n, instr

LEMMA EmitReturnSites ==
  ASSUME TypeOK, SingleInv, NEW args \in Seq(Operand(Len(values))),
         KnownArgs(Params, blocks, args), EmitReturn(args)
  PROVE  Effect(Params, blocks, blocks', {})
<1> DEFINE instr == Instruction("RET", NoOperand, args)
<1>1. SiteAdded(blocks, blocks', instr)
  BY ReturnAdds
<1>2. instr.dest = NoOperand /\ instr.args = args
  BY DEF Instruction
<1> HIDE DEF instr
<1>3. Sound(Params, blocks, instr) /\ Ids(instr.dest) = {}
  BY <1>2, QuietSound
<1> QED
  BY <1>1, <1>3, EffectAdded DEF SingleInv

LEMMA FinishReturnSingle ==
  ASSUME TypeOK, TypeOK', SingleInv, FlowInv, FinishReturn
  PROVE  SingleInv'
<1>1. /\ Top.kind = "RETURN" /\ status = "lowering" /\ Top.kind \in ExprKind
      /\ Complete
  BY DEF FinishReturn, Active, ExprKind
<1>2. CASE Top.args[1].type # fn.ret
  BY <1>2, FailSingle DEF FinishReturn, Error
<1>3. CASE Top.args[1].type = fn.ret
  <2>1. /\ EmitReturn(Top.args) /\ EndStatement(TRUE)
        /\ UNCHANGED <<fn, values, status, bindings>>
    BY <1>3 DEF FinishReturn, runVars, nameVars, valueVars
  <2>2. Top.args \in Seq(Operand(Len(values)))
    BY <1>1, OperandsType
  <2>3. KnownArgs(Params, blocks, Top.args)
    BY <1>1, InSingle DEF FrameFits, FrameKnown
  <2>4. Effect(Params, blocks, blocks', {})
    BY <2>1, <2>2, <2>3, EmitReturnSites
  <2>5. KnownAll(Params, blocks', bindings')
    BY <1>1, <2>1, <2>4, SameBindings
  <2> QED
    BY <1>1, <2>1, <2>4, <2>5, EndStatementSingle DEF StatementKind
<1> QED
  BY <1>2, <1>3

LEMMA ReturnNothingSingle ==
  ASSUME TypeOK, TypeOK', SingleInv, FlowInv, ReturnNothing
  PROVE  SingleInv'
<1>1. status = "lowering" /\ Top.kind \in ListKind
  BY DEF ReturnNothing, NextStatement, InList
<1>2. CASE fn.ret # "VOID"
  BY <1>2, FailSingle DEF ReturnNothing, Error
<1>3. CASE fn.ret = "VOID"
  <2> DEFINE l == Len(ctrl)
             g == [ctrl[l] EXCEPT !.rets = TRUE]
  <2>1. /\ EmitReturn(<< >>) /\ UNCHANGED <<fn, status, values, bindings>>
        /\ ctrl' = [ctrl EXCEPT ![l] = g]
    BY <1>1, <1>3 DEF ReturnNothing, runVars, nameVars, valueVars
  <2>2. /\ l \in Nat /\ l >= 1 /\ ctrl \in Seq(StackFrame) /\ ctrl[l] = Top
        /\ ctrl[l] \in Frame(Len(values), Len(blocks), Len(names))
        /\ Len(values) \in Nat /\ Len(blocks) \in Nat /\ Len(names) \in Nat
    BY StackFrames DEF StackFrame
  <2>3. g = [ctrl[l] EXCEPT !.rets = TRUE]
    OBVIOUS
  <2> HIDE DEF g
  <2>4. Alike(ctrl[l], g)
    BY <1>1, <2>2, <2>3, AlikeRets
  <2>5. /\ Len(ctrl') = l /\ ctrl'[l] = g /\ Len(ctrl) = l
        /\ \A i \in 1 .. l - 1 : ctrl'[i] = ctrl[i]
    <3>1. Len(ctrl) = l
      OBVIOUS
    <3> HIDE DEF l
    <3>2. l <= Len(ctrl) /\ \A i \in 1 .. l : ctrl[i] = ctrl[i]
      BY <2>2, <3>1
    <3> QED
      BY <2>1, <2>2, <2>4, <3>1, <3>2, UpdateShape
  <2> HIDE DEF l
  <2>6. KnownArgs(Params, blocks, << >>) /\ << >> \in Seq(Operand(Len(values)))
    BY DEF KnownArgs
  <2>7. Effect(Params, blocks, blocks', {})
    BY <2>1, <2>6, EmitReturnSites
  <2>8. KnownAll(Params, blocks', bindings')
    BY <1>1, <2>1, <2>7, SameBindings
  <2>9. FrameFits(Params, blocks', ctrl', l)
    <3>1. FrameFits(Params, blocks, ctrl, l) /\ l \in 1 .. Len(ctrl)
      BY <1>1, <2>2, <2>5, InSingle
    <3> QED
      BY <1>1, <2>2, <2>4, <2>5, <2>7, <3>1, ListFits DEF Effect
  <2>10. StackBelow /\ Spared({}) /\ ~(Len(ctrl') > Len(ctrl))
    BY <2>2, <2>5 DEF StackBelow, Spared
  <2>11. Len(values) <= Len(values')
    BY <2>1, <2>2
  <2>12. SingleStep({})
    BY <1>1, <2>1, <2>5, <2>7, <2>8, <2>9, <2>10, <2>11 DEF SingleStep
  <2> QED
    BY <2>12, SingleKept
<1> QED
  BY <1>2, <1>3

LEMMA SimpleStatementSingle ==
  ASSUME TypeOK, TypeOK', SingleInv, FlowInv, SimpleStatement
  PROVE  SingleInv'
<1>1. ASSUME StatementAfterReturn
      PROVE  SingleInv'
  BY <1>1, FailSingle DEF StatementAfterReturn, Error
<1>2. ASSUME NEW n \in Name, AssignUnbound(n)
      PROVE  SingleInv'
  BY <1>2, FailSingle DEF AssignUnbound, Error
<1>3. ASSUME NEW n \in Name, NEW t, DeclareAndAssign(n, t)
      PROVE  SingleInv'
  BY <1>3, BeginAssignmentSingle
  DEF DeclareAndAssign, StartStatement, NextStatement
<1>4. ASSUME NEW n \in Name, Assign(n)
      PROVE  SingleInv'
  BY <1>4, BeginAssignmentSingle DEF Assign, StartStatement, NextStatement
<1>5. ASSUME BeginReturn
      PROVE  SingleInv'
  <2> DEFINE f == [kind |-> "RETURN", wants |-> <<fn.ret>>, args |-> << >>]
  <2>1. /\ InList /\ Push(f) /\ f.kind = "RETURN" /\ f.args = << >>
        /\ Len(f.wants) \in Nat
        /\ UNCHANGED <<fn, blocks, values, bindings, status>>
    BY <1>5 DEF BeginReturn, StartStatement, NextStatement, runVars, irVars,
       nameVars, valueVars
  <2> HIDE DEF f
  <2> QED
    BY <2>1, BeginStatementSingle
<1>6. ASSUME NEW g \in Callees, CallStatement(g)
      PROVE  SingleInv'
  <2> DEFINE f == [kind |-> "CALL", ret |-> g.ret, wants |-> g.params,
                   args |-> << >>, target |-> NoOperand]
  <2>1. Len(g.params) \in Nat
    BY CalleesAssumption
  <2>2. /\ InList /\ Push(f) /\ f.kind = "CALL" /\ f.args = << >>
        /\ Len(f.wants) \in Nat /\ f.target = NoOperand
        /\ UNCHANGED <<fn, blocks, values, bindings, status>>
    BY <1>6, <2>1 DEF CallStatement, StartStatement, NextStatement, runVars,
       irVars, nameVars, valueVars
  <2> HIDE DEF f
  <2> QED
    BY <2>2, BeginStatementSingle
<1>7. ASSUME BeginBlock
      PROVE  SingleInv'
  <2> DEFINE f == [kind |-> "BLOCK", rets |-> FALSE]
  <2>1. /\ InList /\ Push(f) /\ f.kind = "BLOCK"
        /\ UNCHANGED <<fn, blocks, values, bindings, status>>
    BY <1>7 DEF BeginBlock, StartStatement, NextStatement, runVars, irVars,
       nameVars, valueVars
  <2> HIDE DEF f
  <2> QED
    BY <2>1, BeginStatementSingle
<1>8. ASSUME EndBlock
      PROVE  SingleInv'
  <2>1. /\ Top.kind = "BLOCK" /\ status = "lowering" /\ EndStatement(Top.rets)
        /\ UNCHANGED <<fn, values, status, bindings, blocks>>
    BY <1>8 DEF EndBlock, Active, runVars, irVars, nameVars, valueVars
  <2>2. Effect(Params, blocks, blocks', {})
    BY <2>1, SameBlocks
  <2>3. KnownAll(Params, blocks', bindings')
    BY <2>1, <2>2, SameBindings
  <2> QED
    BY <2>1, <2>2, <2>3, EndStatementSingle DEF StatementKind
<1> QED
  BY <1>1, <1>2, <1>3, <1>4, <1>5, <1>6, <1>7, <1>8, DeclareOnlySingle,
     FinishAssignmentSingle, FinishReturnSingle, ReturnNothingSingle
  DEF SimpleStatement

-----------------------------------------------------------------------------
(***************************************************************************)
(* emit_if                                                                 *)
(***************************************************************************)

\* An activation that keeps snapshots of the bindings takes the place of the
\* innermost one.
LEMMA SnapshotSingle ==
  ASSUME TypeOK, TypeOK', SingleInv, FlowInv, status = "lowering", NEW f,
         Replace(f), f.kind \in SnapshotKind,
         NEW ids, Effect(Params, blocks, blocks', ids), ids \subseteq {NextId},
         KnownAll(Params, blocks', bindings'),
         UNCHANGED <<fn, status>>, Len(values) <= Len(values'),
         KnownAll(Params, blocks', f.incoming),
         f.kind = "WHILECOND" => f.args = << >> /\ Len(f.wants) \in Nat,
         f.kind = "LOOP" => KnownAll(Params, blocks', f.bound),
         f.kind \in {"ELSE", "NOELSE", "MERGE"} =>
           KnownAll(Params, blocks', f.then.bound),
         f.kind = "MERGE" => KnownAll(Params, blocks', f.else.bound)
  PROVE  SingleInv'
<1>1. /\ Len(ctrl) \in Nat /\ Len(ctrl') = Len(ctrl) /\ ctrl'[Len(ctrl)] = f
      /\ \A i \in 1 .. Len(ctrl) - 1 : i \in 1 .. Len(ctrl)
  BY ReplaceShape, StackFrames
<1>2. \A i \in 1 .. Len(ctrl) - 1 :
        ctrl[i].kind = "ASSIGN" => ctrl[i].dest.id \notin ids
  BY <1>1, FreshId
<1>3. Pending(Params, blocks', f) /\ TargetFits(ctrl', Len(ctrl))
  BY <1>1 DEF Pending, TargetFits, SnapshotKind, OperandKind
<1>4. f.kind \in ExprKind => f.kind = "WHILECOND"
  BY DEF SnapshotKind, ExprKind
<1>5. FrameFits(Params, blocks', ctrl', Len(ctrl))
  BY <1>1, <1>3, <1>4, StartFits
<1> QED
  BY <1>2, <1>5, ReplaceSingle

LEMMA BranchIfSingle ==
  ASSUME TypeOK, TypeOK', SingleInv, FlowInv, BranchIf
  PROVE  SingleInv'
<1> DEFINE then == Len(blocks) + 1
           else == Len(blocks) + 2
           merge == Len(blocks) + 3
           wide  == blocks \o <<NewBlock, NewBlock, NewBlock>>
           o     == Top.args[1]
           f     == [kind |-> "THEN", rets |-> FALSE, incoming |-> bindings,
                     count |-> Len(names), else |-> else, merge |-> merge]
<1>1. /\ blocks' = CondBranch(wide, cur, o, then, else)
      /\ Replace(f) /\ UNCHANGED <<fn, status, values, bindings>>
      /\ Top.kind = "IFCOND" /\ Complete /\ status = "lowering"
  BY DEF BranchIf, Active, runVars, nameVars, valueVars
<1>2. Opened(wide, merge) /\ Len(blocks) \in Nat
  <2>1. /\ blocks \in Seq(Block(Len(values), Len(blocks)))
        /\ Len(blocks) \in Nat /\ Len(values) \in Nat
    BY StackFrames
  <2>2. wide \in Seq(Block(Len(values), merge)) /\ Len(wide) = merge
    BY <2>1, NewBlocksType
  <2>3. Extends(blocks, wide)
    BY <2>1, ExtendsNew
  <2> QED
    BY <2>1, <2>2, <2>3 DEF Opened
<1>3. then \in 1 .. merge /\ else \in 1 .. merge /\ then # else
  BY <1>2
<1>4. f.kind = "THEN" /\ f.incoming = bindings /\ f.kind \in SnapshotKind
  BY DEF SnapshotKind
<1>5. o \in Operand(Len(values)) /\ KnownOperand(Params, blocks, o)
  BY <1>1, FirstOperand DEF ExprKind
<1> HIDE DEF wide, o, f, then, else, merge
<1>6. Effect(Params, blocks, blocks', {})
  BY <1>1, <1>2, <1>3, <1>5, SplitSites
<1>7. KnownAll(Params, blocks', bindings')
  BY <1>1, <1>6, SameBindings
<1>8. KnownAll(Params, blocks', f.incoming) /\ Len(values) <= Len(values')
  BY <1>1, <1>4, <1>7, StackFrames
<1> QED
  BY <1>1, <1>4, <1>6, <1>7, <1>8, SnapshotSingle

LEMMA DropIfSingle ==
  ASSUME TypeOK, TypeOK', SingleInv, FlowInv, DropIf
  PROVE  SingleInv'
<1>1. PICK r \in BOOLEAN : EndStatement(r)
  BY DEF DropIf
<1>2. /\ Top.kind = "IFCOND" /\ status = "lowering"
      /\ UNCHANGED <<fn, values, status, bindings, blocks>>
  BY DEF DropIf, Active, irVars, nameVars, valueVars
<1>3. Effect(Params, blocks, blocks', {})
  BY <1>2, SameBlocks
<1>4. KnownAll(Params, blocks', bindings')
  BY <1>2, <1>3, SameBindings
<1> QED
  BY <1>1, <1>2, <1>3, <1>4, EndStatementSingle DEF StatementKind

\* The snapshots of the innermost activation are still known after a step.
LEMMA KnownSnapshots ==
  ASSUME TypeOK, SingleInv, FlowInv, status = "lowering", NEW ids,
         Effect(Params, blocks, blocks', ids), Top.kind \in SnapshotKind
  PROVE  /\ KnownAll(Params, blocks', Top.incoming)
         /\ KnownAll(Params, blocks', bindings)
         /\ Top.kind = "LOOP" => KnownAll(Params, blocks', Top.bound)
         /\ Top.kind \in {"ELSE", "NOELSE", "MERGE"} =>
              KnownAll(Params, blocks', Top.then.bound)
         /\ Top.kind = "MERGE" => KnownAll(Params, blocks', Top.else.bound)
<1>1. /\ FrameKnown(Params, blocks, Top) /\ KnownAll(Params, blocks, bindings)
      /\ Keepers(Params, blocks, blocks')
  BY InSingle DEF FrameFits, Effect
<1>2. FrameKnown(Params, blocks', Top) /\ KnownAll(Params, blocks', bindings)
  BY <1>1, KeptKnown
<1> QED
  BY <1>2 DEF FrameKnown

LEMMA EndThenSingle ==
  ASSUME TypeOK, TypeOK', SingleInv, FlowInv, NEW hasElse \in BOOLEAN,
         EndThen(hasElse)
  PROVE  SingleInv'
<1> DEFINE g == [bound |-> bindings, end |-> cur,
                 reaches |-> ~blocks[cur].terminated, rets |-> Top.rets]
           f == [kind |-> IF hasElse THEN "ELSE" ELSE "NOELSE",
                 rets |-> FALSE, incoming |-> Top.incoming,
                 count |-> Top.count, merge |-> Top.merge, then |-> g]
<1>1. /\ blocks' = Join(Top.merge) /\ Replace(f) /\ bindings' = Top.incoming
      /\ UNCHANGED <<fn, status, values>>
      /\ Top.kind = "THEN" /\ status = "lowering"
  BY DEF EndThen, Active, Restore, runVars, valueVars
<1>2. /\ f.kind \in {"ELSE", "NOELSE"} /\ f.incoming = Top.incoming
      /\ f.then.bound = bindings
  OBVIOUS
<1> HIDE DEF f, g
<1>3. Top.merge \in 1 .. Len(blocks)
  <2>1. Len(ctrl) \in 1 .. Len(ctrl) /\ Top = ctrl[Len(ctrl)]
    BY StackFrames
  <2> QED
    BY <1>1, <2>1, FrameBlocks
<1>4. Effect(Params, blocks, blocks', {})
  BY <1>1, <1>3, JoinSites
<1>5. /\ KnownAll(Params, blocks', bindings')
      /\ KnownAll(Params, blocks', f.incoming)
      /\ KnownAll(Params, blocks', f.then.bound)
  BY <1>1, <1>2, <1>4, KnownSnapshots DEF SnapshotKind
<1>6. f.kind \in SnapshotKind /\ f.kind \notin {"WHILECOND", "LOOP", "MERGE"}
      /\ Len(values) <= Len(values')
  BY <1>1, <1>2, StackFrames DEF SnapshotKind
<1> QED
  BY <1>1, <1>4, <1>5, <1>6, SnapshotSingle

LEMMA EndElseSingle ==
  ASSUME TypeOK, TypeOK', SingleInv, FlowInv, EndElse
  PROVE  SingleInv'
<1> DEFINE g == [bound |-> bindings, end |-> cur,
                 reaches |-> ~blocks[cur].terminated, rets |-> Top.rets]
           f == [kind |-> "MERGE", k |-> 1, count |-> Top.count,
                 incoming |-> Top.incoming, then |-> Top.then, else |-> g]
<1>1. /\ blocks' = Join(Top.merge) /\ Replace(f) /\ bindings' = Top.incoming
      /\ UNCHANGED <<fn, status, values>>
      /\ Top.kind \in {"ELSE", "NOELSE"} /\ status = "lowering"
  BY DEF EndElse, Active, Restore, runVars, valueVars
<1>2. /\ f.kind = "MERGE" /\ f.incoming = Top.incoming
      /\ f.then = Top.then /\ f.else.bound = bindings
  OBVIOUS
<1> HIDE DEF f, g
<1>3. Top.merge \in 1 .. Len(blocks)
  <2>1. Len(ctrl) \in 1 .. Len(ctrl) /\ Top = ctrl[Len(ctrl)]
    BY StackFrames
  <2> QED
    BY <1>1, <2>1, FrameBlocks
<1>4. Effect(Params, blocks, blocks', {})
  BY <1>1, <1>3, JoinSites
<1>5. /\ KnownAll(Params, blocks', bindings')
      /\ KnownAll(Params, blocks', f.incoming)
      /\ KnownAll(Params, blocks', f.then.bound)
      /\ KnownAll(Params, blocks', f.else.bound)
  BY <1>1, <1>2, <1>4, KnownSnapshots DEF SnapshotKind
<1>6. f.kind \in SnapshotKind /\ f.kind \notin {"WHILECOND", "LOOP"}
      /\ Len(values) <= Len(values')
  BY <1>1, <1>2, StackFrames DEF SnapshotKind
<1> QED
  BY <1>1, <1>4, <1>5, <1>6, SnapshotSingle

LEMMA EndMergeSingle ==
  ASSUME TypeOK, TypeOK', SingleInv, FlowInv, EndMerge
  PROVE  SingleInv'
<1>1. /\ Top.kind = "MERGE" /\ status = "lowering"
      /\ EndStatement(BothReturn(Top.then, Top.else))
      /\ UNCHANGED <<fn, values, status, bindings, blocks>>
  BY DEF EndMerge, Active, runVars, irVars, nameVars, valueVars
<1>2. Effect(Params, blocks, blocks', {})
  BY <1>1, SameBlocks
<1>3. KnownAll(Params, blocks', bindings')
  BY <1>1, <1>2, SameBindings
<1> QED
  BY <1>1, <1>2, <1>3, EndStatementSingle DEF StatementKind

\* A loop over the names goes on; at most the value of its next phi becomes
\* defined.
LEMMA NameSingle ==
  ASSUME TypeOK, TypeOK', SingleInv, FlowInv, status = "lowering",
         Top.kind \in {"MERGE", "HEADER"}, NextName,
         NEW ids, Effect(Params, blocks, blocks', ids), ids \subseteq {NextId},
         KnownAll(Params, blocks', bindings'),
         UNCHANGED <<fn, status>>, Len(values) <= Len(values')
  PROVE  SingleInv'
<1> DEFINE f == [Top EXCEPT !.k = @ + 1]
<1>1. Top \in Frame(Len(values), Len(blocks), Len(names))
      /\ Len(values) \in Nat /\ Len(blocks) \in Nat /\ Len(names) \in Nat
  BY StackFrames DEF StackFrame
<1>2. Top \in MergeFrame(Len(values), Len(blocks), Len(names))
              \cup HeaderFrame(Len(values), Len(blocks), Len(names))
  BY <1>1, FrameByKind
<1>3. /\ f.kind = Top.kind /\ f.incoming = Top.incoming
      /\ Top.kind = "MERGE" => f.then = Top.then /\ f.else = Top.else
  BY <1>2 DEF MergeFrame, HeaderFrame
<1>4. Replace(f)
  BY DEF NextName
<1> HIDE DEF f
<1>5. Top.kind \in SnapshotKind /\ f.kind \in SnapshotKind
      /\ f.kind \notin {"WHILECOND", "LOOP", "ELSE", "NOELSE"}
  BY <1>3 DEF SnapshotKind
<1>6. /\ KnownAll(Params, blocks', Top.incoming)
      /\ Top.kind = "MERGE" => /\ KnownAll(Params, blocks', Top.then.bound)
                               /\ KnownAll(Params, blocks', Top.else.bound)
  BY <1>5, KnownSnapshots
<1> QED
  BY <1>3, <1>4, <1>5, <1>6, SnapshotSingle

\* A phi for a name gives the name a new value.
LEMMA PhiNamed ==
  ASSUME TypeOK, TypeOK', SingleInv, FlowInv, status = "lowering",
         NEW t, NEW args, NEW blks, NEW n, KnownArgs(Params, blocks, args),
         blocks' = Emit(blocks, cur, Phi(ValueOp(NextId, t), args, blks)),
         bindings' = [bindings EXCEPT ![n] = NextId]
  PROVE  /\ Effect(Params, blocks, blocks', {NextId})
         /\ KnownAll(Params, blocks', bindings')
<1> DEFINE instr == Phi(ValueOp(NextId, t), args, blks)
<1>1. /\ instr.args = args /\ instr.dest.kind = "VALUE"
      /\ instr.dest.id = NextId /\ Ids(instr.dest) = {NextId}
  BY DEF Phi, ValueOp, Ids
<1>2. blocks' = Emit(blocks, cur, instr)
  OBVIOUS
<1> HIDE DEF instr
<1>3. Sound(Params, blocks, instr) /\ cur \in 1 .. Len(blocks)
  BY <1>1, FreshId, StackFrames DEF Sound
<1>4. /\ Effect(Params, blocks, blocks', {NextId})
      /\ Known(Params, blocks', NextId)
  <2>1. /\ Effect(Params, blocks, blocks', Ids(instr.dest))
        /\ KnownOperand(Params, blocks', instr.dest)
    BY <1>2, <1>3, EmitSites
  <2> QED
    BY <1>1, <2>1 DEF KnownOperand
<1>5. KnownAll(Params, blocks', bindings)
  BY <1>4, InSingle, KeptKnown DEF Effect
<1>6. bindings \in [AllName -> 0 .. Len(values)]
  BY DEF TypeOK, NamesType, Snapshot
<1> QED
  BY <1>4, <1>5, <1>6, KnownBind

\* The value of a snapshot that is bound is an operand that is known.
LEMMA KnownValue ==
  ASSUME NEW P, NEW bs, NEW s, NEW n \in AllName, KnownAll(P, bs, s),
         s[n] # Invalid
  PROVE  KnownOperand(P, bs, ValueOf(s[n]))
BY DEF KnownAll, KnownOperand, ValueOf, ValueOp

LEMMA MergeNameSingle ==
  ASSUME TypeOK, TypeOK', SingleInv, FlowInv, MergeName
  PROVE  SingleInv'
<1> DEFINE n     == names[Top.k]
           th    == Top.then.bound
           el    == Top.else.bound
           bound == /\ Top.incoming[n] # Invalid
                    /\ th[n] # Invalid /\ el[n] # Invalid
           both  == Top.then.reaches /\ Top.else.reaches
           type  == values[Top.incoming[n]].type
           args  == <<ValueOf(th[n]), ValueOf(el[n])>>
           blks  == <<Top.then.end, Top.else.end>>
           new   == bound /\ both /\ th[n] # el[n]
<1>1. /\ Top.kind = "MERGE" /\ status = "lowering" /\ NextName
      /\ UNCHANGED <<fn, status>> /\ Top.k <= Top.count
  BY DEF MergeName, Active, runVars
<1>2. Top \in MergeFrame(Len(values), Len(blocks), Len(names))
  <2>1. Top \in Frame(Len(values), Len(blocks), Len(names))
        /\ Len(values) \in Nat /\ Len(blocks) \in Nat /\ Len(names) \in Nat
    BY StackFrames DEF StackFrame
  <2> QED
    BY <1>1, <2>1, FrameByKind
<1>3. n \in AllName
  BY <1>1, <1>2, StackFrames DEF MergeFrame, TypeOK, NamesType
<1>4. FrameKnown(Params, blocks, Top) /\ KnownAll(Params, blocks, bindings)
  BY <1>1, InSingle DEF FrameFits
<1>5. KnownAll(Params, blocks, th) /\ KnownAll(Params, blocks, el)
  BY <1>1, <1>4 DEF FrameKnown
<1>6. CASE new
  <2>1. /\ NewValue(n, type)
        /\ blocks' = Emit(blocks, cur, Phi(ValueOp(NextId, type), args, blks))
        /\ bindings' = [bindings EXCEPT ![n] = NextId]
    BY <1>6 DEF MergeName
  <2>2. KnownArgs(Params, blocks, args)
    <3>1. /\ KnownOperand(Params, blocks, ValueOf(th[n]))
          /\ KnownOperand(Params, blocks, ValueOf(el[n]))
      BY <1>3, <1>5, <1>6, KnownValue
    <3> QED
      BY <3>1 DEF KnownArgs
  <2> HIDE DEF n, type, args, blks, new
  <2>3. /\ Effect(Params, blocks, blocks', {NextId})
        /\ KnownAll(Params, blocks', bindings')
    BY <1>1, <2>1, <2>2, PhiNamed
  <2>4. Len(values) <= Len(values')
    BY <2>1, NewValueKeeps DEF ValuesKept
  <2> QED
    BY <1>1, <2>3, <2>4, NameSingle
<1>7. CASE ~new
  <2>1. /\ bindings' =
              IF bound /\ Top.then.reaches /\ ~Top.else.reaches
              THEN [bindings EXCEPT ![n] = th[n]]
              ELSE IF bound /\ ~Top.then.reaches /\ Top.else.reaches
              THEN [bindings EXCEPT ![n] = el[n]]
              ELSE bindings
        /\ UNCHANGED <<values, blocks>>
    BY <1>7 DEF MergeName, valueVars
  <2>2. Effect(Params, blocks, blocks', {}) /\ Len(values) <= Len(values')
    BY <2>1, SameBlocks, StackFrames
  <2>3. KnownAll(Params, blocks', bindings')
    <3>1. bindings \in [AllName -> 0 .. Len(values)]
      BY DEF TypeOK, NamesType, Snapshot
    <3> HIDE DEF n, th, el
    <3>2. bound => Known(Params, blocks, th[n]) /\ Known(Params, blocks, el[n])
      BY <1>3, <1>5 DEF KnownAll
    <3>3. CASE bound /\ Top.then.reaches /\ ~Top.else.reaches
      <4>1. bindings' = [bindings EXCEPT ![n] = th[n]] /\ blocks' = blocks
        BY <2>1, <3>3
      <4> QED
        BY <1>4, <3>1, <3>2, <3>3, <4>1, KnownBind
    <3>4. CASE bound /\ ~Top.then.reaches /\ Top.else.reaches
      <4>1. bindings' = [bindings EXCEPT ![n] = el[n]] /\ blocks' = blocks
        BY <2>1, <3>4
      <4> QED
        BY <1>4, <3>1, <3>2, <3>4, <4>1, KnownBind
    <3>5. CASE ~(bound /\ Top.then.reaches /\ ~Top.else.reaches)
               /\ ~(bound /\ ~Top.then.reaches /\ Top.else.reaches)
      <4>1. bindings' = bindings /\ blocks' = blocks
        BY <2>1, <3>5
      <4> QED
        BY <1>4, <4>1
    <3> QED
      BY <3>3, <3>4, <3>5
  <2> QED
    BY <1>1, <2>2, <2>3, NameSingle
<1> QED
  BY <1>6, <1>7

LEMMA IfStatementSingle ==
  ASSUME TypeOK, TypeOK', SingleInv, FlowInv, IfStatement
  PROVE  SingleInv'
<1>1. ASSUME BeginIf
      PROVE  SingleInv'
  <2> DEFINE f == [kind |-> "IFCOND", wants |-> <<"BOOL">>, args |-> << >>]
  <2>1. /\ InList /\ Push(f) /\ f.kind = "IFCOND" /\ f.args = << >>
        /\ Len(f.wants) \in Nat
        /\ UNCHANGED <<fn, blocks, values, bindings, status>>
    BY <1>1 DEF BeginIf, StartStatement, NextStatement, runVars, irVars,
       nameVars, valueVars
  <2> HIDE DEF f
  <2> QED
    BY <2>1, BeginStatementSingle
<1> QED
  BY <1>1, DropIfSingle, BranchIfSingle, EndThenSingle, EndElseSingle,
     MergeNameSingle, EndMergeSingle DEF IfStatement

-----------------------------------------------------------------------------
(***************************************************************************)
(* emit_while                                                              *)
(***************************************************************************)

LEMMA BeginWhileSingle ==
  ASSUME TypeOK, TypeOK', SingleInv, FlowInv, BeginWhile
  PROVE  SingleInv'
<1> DEFINE n == Len(values)
           q == Len(blocks) + 3
           t == Len(blocks) + 1
           wide  == blocks \o <<NewBlock, NewBlock, NewBlock>>
           f == [kind |-> "HEADER", k |-> 1, count |-> Len(names),
                 incoming |-> bindings, pre |-> cur, header |-> t]
<1>1. /\ blocks' = Branch(wide, cur, t) /\ Push(f)
      /\ UNCHANGED <<fn, status, values, bindings>>
      /\ Top.kind \in ListKind /\ status = "lowering"
  BY DEF BeginWhile, StartStatement, NextStatement, InList, runVars, nameVars,
     valueVars
<1>2. /\ blocks \in Seq(Block(n, Len(blocks)))
      /\ Len(blocks) \in Nat /\ n \in Nat
  BY StackFrames
<1>3. /\ wide \in Seq(Block(n, q)) /\ Len(wide) = q /\ q \in Nat
      /\ Extends(blocks, wide) /\ t \in 1 .. q /\ Len(values) <= n
  <2>1. wide \in Seq(Block(n, q)) /\ Len(wide) = q
    BY <1>2, NewBlocksType
  <2>2. Extends(blocks, wide)
    BY <1>2, ExtendsNew
  <2> HIDE DEF wide
  <2> QED
    BY <1>2, <2>1, <2>2
<1>4. f.kind = "HEADER" /\ f.incoming = bindings
  OBVIOUS
<1> HIDE DEF wide, f, t, q, n
<1>5. Effect(Params, blocks, blocks', {})
  BY <1>1, <1>2, <1>3, BranchSites
<1>6. /\ Top.kind \notin ExprKind /\ Pending(Params, blocks', f)
      /\ f.kind \notin ExprKind /\ f.kind \notin OperandKind \cup {"CALL"}
  BY <1>1, <1>4 DEF ListKind, ExprKind, Pending, OperandKind
<1>7. Len(values) <= Len(values')
  BY <1>1, StackFrames
<1>8. /\ \A i \in 1 .. Len(ctrl) :
           ctrl[i].kind = "ASSIGN" => ctrl[i].dest.id \notin {}
      /\ f.kind \notin SnapshotKind \/ f.kind = "HEADER"
  BY <1>4
<1> QED
  <2>1. status = "lowering" /\ Push(f) /\ UNCHANGED <<fn, status, bindings>>
    BY <1>1
  <2> QED
    BY <1>4, <1>5, <1>6, <1>7, <1>8, <2>1, PushSingle

LEMMA HeaderNameSingle ==
  ASSUME TypeOK, TypeOK', SingleInv, FlowInv, HeaderName
  PROVE  SingleInv'
<1> DEFINE n     == names[Top.k]
           s     == Top.incoming
           type  == values[s[n]].type
           args  == <<ValueOf(s[n])>>
           blks  == <<Top.pre>>
<1>1. /\ Top.kind = "HEADER" /\ status = "lowering" /\ NextName
      /\ UNCHANGED <<fn, status>> /\ Top.k <= Top.count
  BY DEF HeaderName, Active, runVars
<1>2. Top \in HeaderFrame(Len(values), Len(blocks), Len(names))
  <2>1. Top \in Frame(Len(values), Len(blocks), Len(names))
        /\ Len(values) \in Nat /\ Len(blocks) \in Nat /\ Len(names) \in Nat
    BY StackFrames DEF StackFrame
  <2> QED
    BY <1>1, <2>1, FrameByKind
<1>3. n \in AllName
  BY <1>1, <1>2, StackFrames DEF HeaderFrame, TypeOK, NamesType
<1>4. FrameKnown(Params, blocks, Top) /\ KnownAll(Params, blocks, bindings)
  BY <1>1, InSingle DEF FrameFits
<1>5. KnownAll(Params, blocks, s)
  BY <1>1, <1>4 DEF FrameKnown, SnapshotKind
<1>6. CASE s[n] # Invalid
  <2>1. /\ NewValue(n, type)
        /\ blocks' = Emit(blocks, cur, Phi(ValueOp(NextId, type), args, blks))
        /\ bindings' = [bindings EXCEPT ![n] = NextId]
    BY <1>6 DEF HeaderName
  <2>2. KnownArgs(Params, blocks, args)
    <3>1. KnownOperand(Params, blocks, ValueOf(s[n]))
      BY <1>3, <1>5, <1>6, KnownValue
    <3> QED
      BY <3>1 DEF KnownArgs
  <2> HIDE DEF n, type, args, blks
  <2>3. /\ Effect(Params, blocks, blocks', {NextId})
        /\ KnownAll(Params, blocks', bindings')
    BY <1>1, <2>1, <2>2, PhiNamed
  <2>4. Len(values) <= Len(values')
    BY <2>1, NewValueKeeps DEF ValuesKept
  <2> QED
    BY <1>1, <2>3, <2>4, NameSingle
<1>7. CASE s[n] = Invalid
  <2>1. UNCHANGED <<values, blocks, bindings>>
    BY <1>7 DEF HeaderName, nameVars, valueVars
  <2>2. Effect(Params, blocks, blocks', {}) /\ Len(values) <= Len(values')
    BY <2>1, SameBlocks, StackFrames
  <2>3. KnownAll(Params, blocks', bindings')
    BY <1>1, <2>1, <2>2, SameBindings
  <2> QED
    BY <1>1, <2>1, <2>2, <2>3, NameSingle
<1> QED
  BY <1>6, <1>7

LEMMA EndHeaderSingle ==
  ASSUME TypeOK, TypeOK', SingleInv, FlowInv, EndHeader
  PROVE  SingleInv'
<1> DEFINE f == [kind |-> "WHILECOND", wants |-> <<"BOOL">>, args |-> << >>,
                 incoming |-> Top.incoming, header |-> Top.header]
<1>1. /\ Top.kind = "HEADER" /\ status = "lowering" /\ Replace(f)
      /\ UNCHANGED <<fn, status, values, bindings, blocks>>
  BY DEF EndHeader, Active, runVars, irVars, nameVars, valueVars
<1>2. /\ f.kind = "WHILECOND" /\ f.args = << >> /\ Len(f.wants) \in Nat
      /\ f.incoming = Top.incoming
  OBVIOUS
<1> HIDE DEF f
<1>3. Effect(Params, blocks, blocks', {}) /\ Len(values) <= Len(values')
  BY <1>1, SameBlocks, StackFrames
<1>4. Top.kind \in SnapshotKind /\ f.kind \in SnapshotKind
  BY <1>1, <1>2 DEF SnapshotKind
<1>5. /\ KnownAll(Params, blocks', bindings')
      /\ KnownAll(Params, blocks', f.incoming)
  BY <1>1, <1>2, <1>3, <1>4, KnownSnapshots
<1> QED
  BY <1>1, <1>2, <1>3, <1>4, <1>5, SnapshotSingle

LEMMA BranchWhileSingle ==
  ASSUME TypeOK, TypeOK', SingleInv, FlowInv, BranchWhile
  PROVE  SingleInv'
<1> DEFINE f == [kind |-> "LOOP", rets |-> FALSE, incoming |-> Top.incoming,
                 bound |-> bindings, header |-> Top.header]
           o == Top.args[1]
           t == Top.header + 1
           e == Top.header + 2
<1>1. Top.kind = "WHILECOND" /\ status = "lowering" /\ Complete
  BY DEF BranchWhile, Active
<1>2. CASE o.type # "BOOL"
  BY <1>2, FailSingle DEF BranchWhile, Error
<1>3. CASE o.type = "BOOL"
  <2>1. /\ blocks' = CondBranch(blocks, cur, o, t, e) /\ Replace(f)
        /\ UNCHANGED <<fn, status, values, bindings>>
    BY <1>3 DEF BranchWhile, runVars, nameVars, valueVars
  <2>2. /\ f.kind = "LOOP" /\ f.incoming = Top.incoming /\ f.bound = bindings
    OBVIOUS
  <2> HIDE DEF f
  <2>3. o \in Operand(Len(values)) /\ KnownOperand(Params, blocks, o)
    BY <1>1, FirstOperand DEF ExprKind
  <2>4. Top \in WhileFrame(Len(values), Len(blocks)) /\ Len(blocks) \in Nat
    <3>1. Top \in Frame(Len(values), Len(blocks), Len(names))
          /\ Len(values) \in Nat /\ Len(blocks) \in Nat /\ Len(names) \in Nat
      BY StackFrames DEF StackFrame
    <3> QED
      BY <1>1, <3>1, FrameByKind
  <2>5. t \in 1 .. Len(blocks) /\ e \in 1 .. Len(blocks) /\ t # e
    BY <2>4 DEF WhileFrame
  <2>6. Opened(blocks, Len(blocks))
    BY StackFrames DEF Opened, Extends
  <2> HIDE DEF o, t, e
  <2>7. Effect(Params, blocks, blocks', {})
    BY <2>1, <2>3, <2>5, <2>6, SplitSites
  <2>8. Top.kind \in SnapshotKind /\ f.kind \in SnapshotKind
    BY <1>1, <2>2 DEF SnapshotKind
  <2>9. /\ KnownAll(Params, blocks', bindings')
        /\ KnownAll(Params, blocks', f.incoming)
        /\ KnownAll(Params, blocks', f.bound)
    BY <1>1, <2>1, <2>2, <2>7, <2>8, KnownSnapshots
  <2>10. Len(values) <= Len(values')
    BY <2>1, StackFrames
  <2> QED
    BY <1>1, <2>1, <2>2, <2>7, <2>8, <2>9, <2>10, SnapshotSingle
<1> QED
  BY <1>2, <1>3

\* Instructions that get other operands, all of them known.
LEMMA SitesGrown ==
  ASSUME NEW P, NEW bs, NEW new, Positions(new) = Positions(bs),
         OnceIn(P, bs),
         \A q \in Positions(bs) :
           /\ At(new, q).dest = At(bs, q).dest
           /\ KnownArgs(P, bs, At(new, q).args)
  PROVE  Effect(P, bs, new, {})
<1>1. \A id : DefSites(new, id) = DefSites(bs, id)
  BY DEF DefSites, Defines
<1>2. \A id : Known(P, new, id) <=> Known(P, bs, id)
  BY <1>1 DEF Known
<1>3. \A a : KnownArgs(P, bs, a) => KnownArgs(P, new, a)
  BY <1>2 DEF KnownArgs, KnownOperand
<1>4. OnceIn(P, new)
  BY <1>1, <1>3 DEF OnceIn
<1> QED
  BY <1>1, <1>2, <1>4 DEF Effect, Keepers

\* The phis of a loop header receive the value that the body carries back.
LEMMA CloseLoopGrows ==
  ASSUME TypeOK, Top.kind = "LOOP", NEW bs,
         bs \in Seq(Block(Len(values), Len(blocks))), Len(bs) = Len(blocks),
         NEW new, new = CloseLoop(bs, Top.header)
  PROVE  /\ Positions(new) = Positions(bs)
         /\ \A q \in Positions(bs) :
              LET instr == At(bs, q)
                  v     == BackEdgeValue(instr.dest.id)
              IN  \/ At(new, q) = instr
                  \/ /\ \E i \in DOMAIN bs[Top.header].code :
                          /\ instr = bs[Top.header].code[i]
                          /\ IsLeadingPhi(bs[Top.header].code, i)
                     /\ instr \in Instr(Len(values), Len(blocks))
                     /\ instr.op = "PHI" /\ v # Invalid
                     /\ At(new, q) = PhiEntry(instr, ValueOf(v), cur)
<1> DEFINE h    == Top.header
           code == bs[h].code
           E(i) == LET instr == code[i]
                       value == BackEdgeValue(instr.dest.id)
                   IN  IF IsLeadingPhi(code, i) /\ value # Invalid
                       THEN PhiEntry(instr, ValueOf(value), cur)
                       ELSE instr
           c    == [i \in DOMAIN code |-> E(i)]
           nb   == [bs[h] EXCEPT !.code = c]
<1>1. /\ Len(values) \in Nat /\ Len(blocks) \in Nat
      /\ DOMAIN bs = 1 .. Len(bs) /\ Len(bs) \in Nat
  BY StackFrames
<1>2. h \in 1 .. Len(bs)
  <2>1. Len(ctrl) \in 1 .. Len(ctrl) /\ Top = ctrl[Len(ctrl)]
    BY StackFrames
  <2> QED
    BY <2>1, FrameBlocks
<1>3. new = [bs EXCEPT ![h] = nb]
  BY DEF CloseLoop
<1>4. nb.code = c
  <2>1. bs[h] \in Block(Len(values), Len(blocks))
    BY <1>1, <1>2
  <2> HIDE DEF c
  <2> QED
    BY <2>1 DEF Block
<1>5. code \in Seq(Instr(Len(values), Len(blocks)))
  BY <1>1, <1>2, BlockFields
<1>6. ASSUME NEW i \in DOMAIN code
      PROVE  LET v == BackEdgeValue(code[i].dest.id)
             IN  \/ c[i] = code[i]
                 \/ /\ IsLeadingPhi(code, i) /\ v # Invalid
                    /\ code[i] \in Instr(Len(values), Len(blocks))
                    /\ code[i].op = "PHI"
                    /\ c[i] = PhiEntry(code[i], ValueOf(v), cur)
  <2>1. code[i] \in Instr(Len(values), Len(blocks)) /\ i \in 1 .. i
    BY <1>5
  <2>2. IsLeadingPhi(code, i) => code[i].op = "PHI"
    BY <2>1 DEF IsLeadingPhi
  <2> QED
    BY <2>1, <2>2
<1>7. DOMAIN c = DOMAIN code
  OBVIOUS
<1> HIDE DEF c, nb
<1>8. /\ new[h] = nb /\ \A x \in 1 .. Len(bs) : x # h => new[x] = bs[x]
      /\ DOMAIN new = 1 .. Len(bs)
  BY <1>1, <1>2, <1>3
<1>9. \A x \in 1 .. Len(bs) : DOMAIN new[x].code = DOMAIN bs[x].code
  BY <1>4, <1>7, <1>8
<1>10. Positions(new) = Positions(bs)
  <2>1. \A b \in 1 .. Len(bs) :
          {b} \X DOMAIN new[b].code = {b} \X DOMAIN bs[b].code
    BY <1>9
  <2> QED
    BY <1>1, <1>8, <2>1 DEF Positions
<1>11. ASSUME NEW q \in Positions(bs)
       PROVE  LET instr == At(bs, q)
                  v     == BackEdgeValue(instr.dest.id)
              IN  \/ At(new, q) = instr
                  \/ /\ \E i \in DOMAIN code :
                          instr = code[i] /\ IsLeadingPhi(code, i)
                     /\ instr \in Instr(Len(values), Len(blocks))
                     /\ instr.op = "PHI" /\ v # Invalid
                     /\ At(new, q) = PhiEntry(instr, ValueOf(v), cur)
  <2>1. PICK b, i : q = <<b, i>>
    BY PositionPairs
  <2>2. b \in 1 .. Len(bs) /\ i \in DOMAIN bs[b].code
    BY <1>1, <2>1, PositionsOf
  <2>3. At(new, q) = new[b].code[i] /\ At(bs, q) = bs[b].code[i]
    BY <2>1 DEF At
  <2>4. CASE b = h
    <3>1. At(bs, q) = code[i] /\ At(new, q) = c[i] /\ i \in DOMAIN code
      BY <1>4, <1>8, <2>2, <2>3, <2>4
    <3> HIDE DEF code
    <3> QED
      BY <1>6, <3>1
  <2>5. CASE b # h
    BY <1>8, <2>2, <2>3, <2>5
  <2> QED
    BY <2>4, <2>5
<1> QED
  BY <1>10, <1>11

\* These values are known.
LEMMA CloseLoopSites ==
  ASSUME TypeOK, Top.kind = "LOOP", NEW bs,
         bs \in Seq(Block(Len(values), Len(blocks))), Len(bs) = Len(blocks),
         OnceIn(Params, bs), KnownAll(Params, bs, bindings),
         KnownAll(Params, bs, Top.incoming), NEW new,
         new = CloseLoop(bs, Top.header)
  PROVE  Effect(Params, bs, new, {})
<1>1. Len(values) \in Nat /\ Len(blocks) \in Nat
  BY StackFrames
<1>2. ASSUME NEW q \in Positions(bs)
      PROVE  /\ At(new, q).dest = At(bs, q).dest
             /\ KnownArgs(Params, bs, At(new, q).args)
  <2> DEFINE instr == At(bs, q)
             v     == BackEdgeValue(instr.dest.id)
  <2>1. KnownArgs(Params, bs, instr.args)
    BY DEF OnceIn
  <2>2. CASE At(new, q) = instr
    BY <2>1, <2>2
  <2>3. CASE At(new, q) # instr
    <3>1. /\ instr \in Instr(Len(values), Len(blocks)) /\ instr.op = "PHI"
          /\ v # Invalid /\ At(new, q) = PhiEntry(instr, ValueOf(v), cur)
      BY <2>3, CloseLoopGrows
    <3>2. instr.dest.id \in 1 .. Len(values)
      BY <1>1, <3>1, PhiDest
    <3>3. values[instr.dest.id].name \in AllName
      <4>1. \A k \in 1 .. Len(values) : values[k].name \in AllName
        BY ValueOfType DEF TypeOK
      <4> QED
        BY <3>2, <4>1
    <3> HIDE DEF instr
    <3>4. Known(Params, bs, v)
      BY <3>1, <3>3 DEF BackEdgeValue, KnownAll
    <3> HIDE DEF v
    <3> DEFINE o     == ValueOf(v)
               entry == PhiEntry(instr, o, cur)
    <3>5. KnownOperand(Params, bs, o) /\ At(new, q) = entry
      BY <3>1, <3>4 DEF KnownOperand, ValueOf, ValueOp
    <3> HIDE DEF o
    <3>6. entry.dest = instr.dest /\ entry.args = Append(instr.args, o)
      BY <1>1, <3>1, PhiEntryParts
    <3> HIDE DEF entry
    <3>7. instr.args \in Seq(Operand(Len(values)))
      BY <3>1 DEF Instr
    <3>8. KnownArgs(Params, bs, Append(instr.args, o))
      <4> DEFINE a == instr.args
      <4>1. /\ DOMAIN Append(a, o) = 1 .. Len(a) + 1 /\ Len(a) \in Nat
            /\ DOMAIN a = 1 .. Len(a)
            /\ \A j \in 1 .. Len(a) : Append(a, o)[j] = a[j]
            /\ Append(a, o)[Len(a) + 1] = o
        BY <3>7, AppendParts
      <4>2. KnownArgs(Params, bs, a)
        BY <2>1
      <4> HIDE DEF a
      <4>3. \A j \in 1 .. Len(a) + 1 : j \in 1 .. Len(a) \/ j = Len(a) + 1
        BY <4>1
      <4>4. KnownArgs(Params, bs, Append(a, o))
        BY <3>5, <4>1, <4>2, <4>3 DEF KnownArgs
      <4> QED
        BY <4>4 DEF a
    <3> QED
      BY <3>5, <3>6, <3>8 DEF instr
  <2> QED
    BY <2>2, <2>3
<1> QED
  BY <1>2, CloseLoopGrows, SitesGrown

LEMMA EndLoopSingle ==
  ASSUME TypeOK, TypeOK', SingleInv, FlowInv, EndLoop
  PROVE  SingleInv'
<1> DEFINE h  == Top.header
           n  == Len(values)
           q  == Len(blocks)
           br == Branch(blocks, cur, h)
<1>1. /\ Top.kind = "LOOP" /\ status = "lowering" /\ EndStatement(FALSE)
      /\ UNCHANGED <<fn, status, values>> /\ bindings' = Top.bound
      /\ blocks' = IF blocks[cur].terminated THEN blocks
                   ELSE CloseLoop(br, h)
  BY DEF EndLoop, Active, Restore, runVars, valueVars
<1>2. Top.kind \in SnapshotKind /\ Top.kind \in StatementKind
  BY <1>1 DEF SnapshotKind, StatementKind
<1>3. Effect(Params, blocks, blocks', {})
  <2>1. CASE blocks[cur].terminated
    BY <1>1, <2>1, SameBlocks
  <2>2. CASE ~blocks[cur].terminated
    <3>1. blocks' = CloseLoop(br, h)
      BY <1>1, <2>2
    <3>2. h \in 1 .. q
      <4>1. Len(ctrl) \in 1 .. Len(ctrl) /\ Top = ctrl[Len(ctrl)]
        BY StackFrames
      <4> QED
        BY <1>1, <4>1, FrameBlocks
    <3>3. /\ n \in Nat /\ Len(values) <= n /\ blocks \in Seq(Block(n, q))
          /\ Len(blocks) = q /\ q \in Nat /\ Extends(blocks, blocks)
      BY StackFrames DEF Extends
    <3>4. FrameKnown(Params, blocks, Top) /\ KnownAll(Params, blocks, bindings)
      BY <1>1, InSingle DEF FrameFits
    <3> HIDE DEF h, n, q
    <3>5. /\ Effect(Params, blocks, br, {})
          /\ br \in Seq(Block(n, q)) /\ Len(br) = q
      BY <3>2, <3>3, BranchSites
    <3> HIDE DEF br
    <3>6. /\ OnceIn(Params, br) /\ KnownAll(Params, br, bindings)
          /\ KnownAll(Params, br, Top.incoming)
      BY <1>2, <3>4, <3>5, KeptKnown DEF Effect, FrameKnown
    <3>7. Effect(Params, br, blocks', {})
      BY <1>1, <3>1, <3>5, <3>6, CloseLoopSites DEF h, n, q
    <3> QED
      BY <3>5, <3>7, EffectTwice
  <2> QED
    BY <2>1, <2>2
<1>4. KnownAll(Params, blocks', bindings')
  BY <1>1, <1>2, <1>3, KnownSnapshots
<1> QED
  BY <1>1, <1>2, <1>3, <1>4, EndStatementSingle

LEMMA WhileStatementSingle ==
  ASSUME TypeOK, TypeOK', SingleInv, FlowInv, WhileStatement
  PROVE  SingleInv'
BY BeginWhileSingle, HeaderNameSingle, EndHeaderSingle, BranchWhileSingle,
   EndLoopSingle DEF WhileStatement

-----------------------------------------------------------------------------
(***************************************************************************)
(* The end of emit_function, and collapse_degenerate_phis.                 *)
(***************************************************************************)

LEMMA EndFunctionSingle ==
  ASSUME TypeOK, TypeOK', SingleInv, FlowInv, EndFunction
  PROVE  SingleInv'
<1> DEFINE instr == Instruction("RET", NoOperand, << >>)
<1>1. /\ status = "lowering" /\ status' # "lowering"
      /\ UNCHANGED <<fn, values>>
      /\ blocks' = blocks \/ blocks' = Emit(blocks, cur, instr)
  BY DEF EndFunction, Active, nameVars, valueVars, NoReturn, FinalReturn
<1>2. instr.dest = NoOperand /\ instr.args = << >>
  BY DEF Instruction
<1> HIDE DEF instr
<1>3. Effect(Params, blocks, blocks', {})
  <2>1. CASE blocks' = blocks
    BY <2>1, SameBlocks
  <2>2. CASE blocks' = Emit(blocks, cur, instr)
    <3>1. KnownArgs(Params, blocks, instr.args)
      BY <1>2 DEF KnownArgs
    <3>2. Sound(Params, blocks, instr) /\ Ids(instr.dest) = {}
      BY <1>2, <3>1, QuietSound
    <3>3. cur \in 1 .. Len(blocks)
      BY StackFrames
    <3> QED
      BY <2>2, <3>2, <3>3, EmitSites
  <2> QED
    BY <1>1, <2>1, <2>2
<1> QED
  BY <1>1, <1>3 DEF SingleInv, Effect, Params

\* The instruction at gone is removed and o replaces the operand id in the
\* others; S tells where they stood.
Moves(S, bs, new, gone, id, o) ==
  /\ \A p \in Positions(new) :
       /\ S[p] \in Positions(bs)
       /\ At(new, p).op = At(bs, S[p]).op
       /\ At(new, p).dest = At(bs, S[p]).dest
       /\ DOMAIN At(new, p).args = DOMAIN At(bs, S[p]).args
       /\ \A j \in DOMAIN At(bs, S[p]).args :
            At(new, p).args[j] = RewriteOperand(At(bs, S[p]).args[j], id, o)
  /\ \A p, q \in Positions(new) : S[p] = S[q] => p = q
  /\ \A q \in Positions(bs) :
       q # gone => \E p \in Positions(new) : S[p] = q

\* They stay in their blocks and keep their order, and phis keep their
\* predecessors.
Slides(S, bs, new) ==
  /\ \A p \in Positions(new) :
       S[p][1] = p[1] /\ At(new, p).blks = At(bs, S[p]).blks
  /\ \A p, q \in Positions(new) :
       p[1] = q[1] /\ S[p][2] < S[q][2] => p[2] < q[2]

\* An instruction is removed after its value was replaced everywhere.
LEMMA SitesDropped ==
  ASSUME NEW P, NEW bs, NEW new, NEW gone \in Positions(bs), NEW id, NEW o,
         NEW S, OnceIn(P, bs), KnownOperand(P, bs, o), ~Refers(o, id),
         \A x : Defines(At(bs, gone), x) => x = id,
         Moves(S, bs, new, gone, id, o)
  PROVE  OnceIn(P, new)
<1> USE DEF Moves
<1>1. ASSUME NEW x, NEW p \in DefSites(new, x)
      PROVE  S[p] \in DefSites(bs, x)
  BY DEF DefSites, Defines
<1>2. \A x : \A p, q \in DefSites(new, x) : p = q
  <2> SUFFICES ASSUME NEW x, NEW p \in DefSites(new, x),
                      NEW q \in DefSites(new, x)
               PROVE  p = q
    OBVIOUS
  <2>1. S[p] = S[q]
    BY <1>1 DEF OnceIn
  <2> QED
    BY <2>1 DEF DefSites
<1>3. \A x \in P : DefSites(new, x) = {}
  BY <1>1 DEF OnceIn
<1>4. ASSUME NEW x, x # id, Known(P, bs, x)
      PROVE  Known(P, new, x)
  <2>1. CASE x \in P
    BY <2>1 DEF Known
  <2>2. CASE x \notin P
    <3>1. PICK q : q \in DefSites(bs, x)
      BY <1>4, <2>2 DEF Known
    <3>2. q \in Positions(bs) /\ Defines(At(bs, q), x)
      BY <3>1 DEF DefSites
    <3>3. q # gone
      BY <1>4, <3>2
    <3>4. PICK p \in Positions(new) : S[p] = q
      BY <3>2, <3>3
    <3>5. p \in DefSites(new, x)
      BY <3>2, <3>4 DEF DefSites, Defines
    <3> QED
      BY <3>5 DEF Known
  <2> QED
    BY <2>1, <2>2
<1>5. ASSUME NEW p \in Positions(new)
      PROVE  KnownArgs(P, new, At(new, p).args)
  <2> SUFFICES ASSUME NEW j \in DOMAIN At(new, p).args
               PROVE  KnownOperand(P, new, At(new, p).args[j])
    BY DEF KnownArgs
  <2> DEFINE use == At(bs, S[p]).args[j]
             now == At(new, p).args[j]
  <2>1. KnownOperand(P, bs, use) /\ now = RewriteOperand(use, id, o)
    BY DEF OnceIn, KnownArgs
  <2> HIDE DEF use, now
  <2>2. KnownOperand(P, bs, now) /\ ~Refers(now, id)
    BY <2>1 DEF RewriteOperand
  <2>3. KnownOperand(P, new, now)
    BY <1>4, <2>2 DEF KnownOperand, Refers
  <2> QED
    BY <2>3 DEF now
<1> QED
  BY <1>2, <1>3, <1>5 DEF OnceIn

\* The value that takes the place of a phi is known, and is not the phi.
LEMMA ReplacementKnown ==
  ASSUME NEW P, NEW bs, NEW phi, PhiCollapses(phi),
         KnownArgs(P, bs, phi.args)
  PROVE  /\ KnownOperand(P, bs, Replacement(phi))
         /\ ~Refers(Replacement(phi), phi.dest.id)
<1>1. Replacement(phi) \in Incoming(phi)
  BY DEF PhiCollapses, Replacement
<1> QED
  BY <1>1 DEF Incoming, KnownArgs

\* collapse_degenerate_phis removes one phi and rewrites its uses.
LEMMA PhiRemoved ==
  ASSUME TypeOK, TypeOK', VisitPhi, PhiCollapses(CursorCode[cursor.index])
  PROVE  LET phi  == CursorCode[cursor.index]
             gone == <<cursor.block, cursor.index>>
         IN  /\ gone \in Positions(blocks) /\ At(blocks, gone) = phi
             /\ phi \in Instr(Len(values), Len(blocks)) /\ phi.op = "PHI"
             /\ \E S : /\ Moves(S, blocks, blocks', gone, phi.dest.id,
                               Replacement(phi))
                       /\ Slides(S, blocks, blocks')
<1> DEFINE b   == cursor.block
           i   == cursor.index
           phi == CursorCode[i]
           id  == phi.dest.id
           o   == Replacement(phi)
           rw  == RewriteUses(blocks, id, o)
           p   == Len(values)
           m   == Len(blocks)
           new == blocks'
           gone == <<b, i>>
           S   == [q \in Positions(new) |->
                     IF q[1] = b /\ q[2] >= i THEN <<b, q[2] + 1>> ELSE q]
<1>1. /\ status = "collapsing" /\ status' = "collapsing"
      /\ b <= m /\ AtPhi
      /\ new = RemoveInstr(rw, b, i) /\ UNCHANGED <<fn, values>>
  BY DEF VisitPhi, nameVars, valueVars
<1>2. /\ m \in Nat /\ p \in Nat /\ blocks \in Seq(Block(p, m))
      /\ DOMAIN blocks = 1 .. m
  BY StackFrames
<1>3. cursor \in [block : Nat \ {0}, index : Nat \ {0}, changed : BOOLEAN]
  BY DEF TypeOK, RestType
<1>4. /\ b \in 1 .. m /\ i \in 1 .. Len(blocks[b].code)
      /\ blocks[b].code[i].op = "PHI"
      /\ blocks[b].code \in Seq(Instr(p, m))
      /\ phi = blocks[b].code[i]
  <2>1. b \in 1 .. m
    BY <1>1, <1>2, <1>3
  <2>2. blocks[b].code \in Seq(Instr(p, m)) /\ Len(blocks[b].code) \in Nat
    BY <1>2, <2>1, BlockFields
  <2> QED
    BY <1>1, <1>3, <2>1, <2>2 DEF AtPhi, CursorCode
<1>5. gone \in Positions(blocks) /\ At(blocks, gone) = phi
  <2>1. i \in DOMAIN blocks[b].code
    BY <1>4
  <2> QED
    BY <1>2, <1>4, <2>1, PositionsOf DEF At
<1>6. i \in Nat /\ i >= 1
  BY <1>3
<1> HIDE DEF id, o, phi, b, i, p, m, new
<1>7. /\ rw \in Seq(Block(p, m)) /\ Len(rw) = m
      /\ \A x \in 1 .. m : Rewritten(blocks[x], rw[x], id, o)
  <2>1. o \in Operand(p)
    <3>1. phi \in Instr(p, m)
      BY <1>4
    <3> QED
      BY <1>1, <1>2, <1>4, <3>1, ReplacementType DEF o, phi, i
  <2> QED
    BY <1>2, <2>1, RewriteType, RewriteEffect DEF m
<1> HIDE DEF rw
<1>8. b \in 1 .. Len(rw) /\ i \in 1 .. Len(rw[b].code)
  BY <1>4, <1>7 DEF Rewritten
<1>9. /\ Len(new) = m /\ Removed(rw[b], new[b], i)
       /\ \A x \in 1 .. m : x # b => new[x] = rw[x]
  BY <1>1, <1>2, <1>7, <1>8, RemoveEffect
<1>10. new \in Seq(Block(p, m)) /\ DOMAIN new = 1 .. m
  BY <1>1, <1>9 DEF TypeOK, IRType, new, p
<1>11. ASSUME NEW x \in 1 .. m
       PROVE  /\ DOMAIN blocks[x].code = 1 .. Len(blocks[x].code)
              /\ DOMAIN new[x].code = 1 .. Len(new[x].code)
              /\ Len(blocks[x].code) \in Nat /\ Len(new[x].code) \in Nat
              /\ Len(rw[x].code) = Len(blocks[x].code)
  <2>1. blocks[x].code \in Seq(Instr(p, m)) /\ new[x].code \in Seq(Instr(p, m))
    BY <1>2, <1>9, <1>10, BlockFields DEF m
  <2> QED
    BY <1>7, <2>1 DEF Rewritten
<1>12. /\ Len(new[b].code) = Len(blocks[b].code) - 1
       /\ \A x \in 1 .. m : x # b => Len(new[x].code) = Len(blocks[x].code)
  BY <1>4, <1>9, <1>11 DEF Removed
<1>13. /\ \A x, j : <<x, j>> \in Positions(blocks) <=>
                      x \in 1 .. m /\ j \in 1 .. Len(blocks[x].code)
       /\ \A x, j : <<x, j>> \in Positions(new) <=>
                      x \in 1 .. m /\ j \in 1 .. Len(new[x].code)
  <2>1. DOMAIN blocks = 1 .. Len(blocks) /\ DOMAIN new = 1 .. Len(new)
    BY <1>2, <1>9, <1>10 DEF m
  <2>2. /\ \A x, j : <<x, j>> \in Positions(blocks) <=>
                       x \in 1 .. m /\ j \in DOMAIN blocks[x].code
        /\ \A x, j : <<x, j>> \in Positions(new) <=>
                       x \in 1 .. m /\ j \in DOMAIN new[x].code
    BY <1>9, <2>1, PositionsOf DEF m
  <2> QED
    BY <1>11, <2>2
<1>14. \A x, j : <<x, j>> \in Positions(new) =>
         S[<<x, j>>] = IF x = b /\ j >= i THEN <<b, j + 1>> ELSE <<x, j>>
  OBVIOUS
<1> HIDE DEF S
<1>15. ASSUME NEW q \in Positions(new)
       PROVE  /\ S[q] \in Positions(blocks)
              /\ At(new, q).op = At(blocks, S[q]).op
              /\ At(new, q).dest = At(blocks, S[q]).dest
              /\ DOMAIN At(new, q).args = DOMAIN At(blocks, S[q]).args
              /\ \A j \in DOMAIN At(blocks, S[q]).args :
                   At(new, q).args[j] =
                     RewriteOperand(At(blocks, S[q]).args[j], id, o)
              /\ S[q][1] = q[1] /\ At(new, q).blks = At(blocks, S[q]).blks
  <2>1. PICK x, j : q = <<x, j>>
    BY PositionPairs
  <2>2. x \in 1 .. m /\ j \in 1 .. Len(new[x].code)
    BY <1>13, <2>1
  <2> DEFINE k == IF x = b /\ j >= i THEN j + 1 ELSE j
  <2>3. S[q] = <<x, k>> /\ At(new, q) = new[x].code[j]
        /\ At(blocks, S[q]) = blocks[x].code[k]
    <3>1. S[q] = IF x = b /\ j >= i THEN <<b, j + 1>> ELSE <<x, j>>
      BY <1>14, <2>1
    <3>2. S[q] = <<x, k>>
      <4>1. CASE x = b /\ j >= i
        BY <3>1, <4>1
      <4>2. CASE ~(x = b /\ j >= i)
        BY <3>1, <4>2
      <4> QED
        BY <4>1, <4>2
    <3> HIDE DEF k
    <3> QED
      BY <2>1, <3>2 DEF At
  <2>4. k \in 1 .. Len(blocks[x].code) /\ new[x].code[j] = rw[x].code[k]
    <3>1. CASE x # b
      BY <1>9, <1>12, <2>2, <3>1
    <3>2. CASE x = b /\ j >= i
      <4>1. j \in i .. Len(rw[b].code) - 1 /\ k = j + 1
        BY <1>6, <1>11, <1>12, <2>2, <3>2
      <4>2. k \in 1 .. Len(blocks[x].code)
        BY <1>6, <1>11, <2>2, <3>2, <4>1
      <4> HIDE DEF k
      <4> QED
        BY <1>9, <3>2, <4>1, <4>2 DEF Removed
    <3>3. CASE x = b /\ ~(j >= i)
      <4>1. j \in 1 .. i - 1 /\ k = j /\ k \in 1 .. Len(blocks[x].code)
        BY <1>6, <1>11, <1>12, <2>2, <3>3
      <4> HIDE DEF k
      <4> QED
        BY <1>9, <3>3, <4>1 DEF Removed
    <3> QED
      BY <3>1, <3>2, <3>3
  <2> HIDE DEF k
  <2>5. Rewritten(blocks[x], rw[x], id, o)
    BY <1>7, <2>2
  <2>6. <<x, k>> \in Positions(blocks)
    BY <1>13, <2>2, <2>4
  <2>7. S[q][1] = q[1]
    BY <2>1, <2>3
  <2> QED
    BY <2>3, <2>4, <2>5, <2>6, <2>7 DEF Rewritten
<1>16. ASSUME NEW q \in Positions(new), NEW r \in Positions(new), S[q] = S[r]
       PROVE  q = r
  <2>1. PICK x, j : q = <<x, j>>
    BY PositionPairs
  <2>2. PICK y, k : r = <<y, k>>
    BY PositionPairs
  <2>3. j \in Int /\ k \in Int
    BY <1>13, <2>1, <2>2
  <2>4. /\ S[q] = IF x = b /\ j >= i THEN <<b, j + 1>> ELSE <<x, j>>
        /\ S[r] = IF y = b /\ k >= i THEN <<b, k + 1>> ELSE <<y, k>>
    BY <1>14, <2>1, <2>2
  <2>5. x = y /\ j = k
    <3>1. CASE (x = b /\ j >= i) /\ (y = b /\ k >= i)
      <4>1. <<b, j + 1>> = <<b, k + 1>>
        BY <1>16, <2>4, <3>1
      <4>2. j + 1 = k + 1
        BY <4>1
      <4> QED
        BY <2>3, <3>1, <4>2
    <3>2. CASE (x = b /\ j >= i) /\ ~(y = b /\ k >= i)
      <4>1. <<b, j + 1>> = <<y, k>>
        BY <1>16, <2>4, <3>2
      <4>2. y = b /\ k = j + 1
        BY <4>1
      <4> QED
        BY <1>6, <2>3, <3>2, <4>2
    <3>3. CASE ~(x = b /\ j >= i) /\ (y = b /\ k >= i)
      <4>1. <<x, j>> = <<b, k + 1>>
        BY <1>16, <2>4, <3>3
      <4>2. x = b /\ j = k + 1
        BY <4>1
      <4> QED
        BY <1>6, <2>3, <3>3, <4>2
    <3>4. CASE ~(x = b /\ j >= i) /\ ~(y = b /\ k >= i)
      <4>1. <<x, j>> = <<y, k>>
        BY <1>16, <2>4, <3>4
      <4> QED
        BY <4>1
    <3> QED
      BY <3>1, <3>2, <3>3, <3>4
  <2> QED
    BY <2>1, <2>2, <2>5
<1>17. ASSUME NEW q \in Positions(blocks), q # gone
       PROVE  \E r \in Positions(new) : S[r] = q
  <2>1. PICK x, j : q = <<x, j>>
    BY PositionPairs
  <2>2. x \in 1 .. m /\ j \in 1 .. Len(blocks[x].code) /\ j \in Int
    BY <1>13, <2>1
  <2>3. CASE x = b /\ j > i
    <3>1. j - 1 \in 1 .. Len(new[x].code) /\ j - 1 >= i
      BY <1>6, <1>11, <1>12, <2>2, <2>3
    <3>2. <<x, j - 1>> \in Positions(new)
      BY <1>13, <2>2, <3>1
    <3>3. S[<<x, j - 1>>] = <<b, (j - 1) + 1>>
      BY <1>14, <2>3, <3>1, <3>2
    <3>4. S[<<x, j - 1>>] = q
      BY <2>1, <2>2, <2>3, <3>3
    <3> QED
      BY <3>2, <3>4
  <2>4. CASE x = b /\ ~(j > i)
    <3>1. j < i
      BY <1>6, <1>17, <2>1, <2>2, <2>4 DEF gone
    <3>2. j \in 1 .. Len(new[x].code)
      BY <1>4, <1>6, <1>11, <1>12, <2>2, <2>4, <3>1
    <3>3. <<x, j>> \in Positions(new) /\ ~(j >= i)
      BY <1>6, <1>13, <2>2, <3>1, <3>2
    <3> QED
      BY <1>14, <2>1, <3>3
  <2>5. CASE x # b
    <3>1. <<x, j>> \in Positions(new)
      BY <1>12, <1>13, <2>2, <2>5
    <3> QED
      BY <1>14, <2>1, <2>5, <3>1
  <2> QED
    BY <2>3, <2>4, <2>5
<1>20. ASSUME NEW q \in Positions(new), NEW r \in Positions(new),
              q[1] = r[1], S[q][2] < S[r][2]
       PROVE  q[2] < r[2]
  <2>1. PICK x, j : q = <<x, j>>
    BY PositionPairs
  <2>2. PICK y, k : r = <<y, k>>
    BY PositionPairs
  <2>3. j \in Int /\ k \in Int /\ x = y
    BY <1>13, <1>20, <2>1, <2>2
  <2>4. /\ S[q] = IF x = b /\ j >= i THEN <<b, j + 1>> ELSE <<x, j>>
        /\ S[r] = IF x = b /\ k >= i THEN <<b, k + 1>> ELSE <<x, k>>
    BY <1>14, <2>1, <2>2, <2>3
  <2>5. /\ S[q][2] = IF x = b /\ j >= i THEN j + 1 ELSE j
        /\ S[r][2] = IF x = b /\ k >= i THEN k + 1 ELSE k
    BY <2>4
  <2>6. j < k
    BY <1>6, <1>20, <2>3, <2>5
  <2> QED
    BY <2>1, <2>2, <2>6
<1> HIDE DEF gone
<1>18. Moves(S, blocks, new, gone, id, o) /\ Slides(S, blocks, new)
  BY <1>15, <1>16, <1>17, <1>20 DEF Moves, Slides
<1>19. phi \in Instr(p, m) /\ phi.op = "PHI"
  BY <1>4
<1> QED
  BY <1>5, <1>18, <1>19 DEF id, o, phi, b, i, p, m, new, gone

LEMMA RemovePhiSingle ==
  ASSUME TypeOK, TypeOK', SingleInv, FlowInv, VisitPhi,
         PhiCollapses(CursorCode[cursor.index])
  PROVE  SingleInv'
<1> DEFINE phi  == CursorCode[cursor.index]
           gone == <<cursor.block, cursor.index>>
           id   == phi.dest.id
           o    == Replacement(phi)
<1>1. /\ gone \in Positions(blocks) /\ At(blocks, gone) = phi
      /\ \E S : /\ Moves(S, blocks, blocks', gone, id, o)
                /\ Slides(S, blocks, blocks')
  BY PhiRemoved
<1>2. PICK S : Moves(S, blocks, blocks', gone, id, o)
  BY <1>1
<1>3. KnownOperand(Params, blocks, o) /\ ~Refers(o, id)
  <2>1. KnownArgs(Params, blocks, phi.args)
    BY <1>1 DEF SingleInv, OnceIn
  <2>2. PhiCollapses(phi)
    OBVIOUS
  <2> HIDE DEF phi
  <2> QED
    BY <2>1, <2>2, ReplacementKnown
<1>4. \A x : Defines(At(blocks, gone), x) => x = id
  BY <1>1 DEF Defines, Refers
<1> HIDE DEF id, o, phi, gone
<1>5. OnceIn(Params, blocks)
  BY DEF SingleInv
<1>6. OnceIn(Params, blocks')
  BY <1>1, <1>2, <1>3, <1>4, <1>5, SitesDropped
<1>7. status' = "collapsing" /\ UNCHANGED <<fn, values>>
  BY DEF VisitPhi, nameVars, valueVars
<1> QED
  BY <1>6, <1>7 DEF SingleInv, Params

LEMMA CollapseSingle ==
  ASSUME TypeOK, TypeOK', SingleInv, FlowInv, Collapse
  PROVE  SingleInv'
<1>1. CASE VisitPhi /\ PhiCollapses(CursorCode[cursor.index])
  BY <1>1, RemovePhiSingle
<1>2. CASE ~(VisitPhi /\ PhiCollapses(CursorCode[cursor.index]))
  <2>1. UNCHANGED <<fn, values, blocks>> /\ status' # "lowering"
    BY <1>2 DEF Collapse, VisitPhi, NextBlock, EndPass, irVars, nameVars,
       valueVars
  <2> QED
    BY <2>1 DEF SingleInv, Params
<1> QED
  BY <1>1, <1>2

-----------------------------------------------------------------------------
(***************************************************************************)
(* The beginning, every step, and the theorem.                             *)
(***************************************************************************)

\* The parameters are the first values, and they are bound.
LEMMA InitSingle ==
  ASSUME Init
  PROVE  SingleInv
<1>1. /\ blocks = <<NewBlock>> /\ fn \in Headers
      /\ ctrl = << [kind |-> "FBODY", rets |-> FALSE] >>
      /\ values = [i \in DOMAIN fn.params |->
                     [name |-> fn.params[i].name, version |-> 0,
                      type |-> fn.params[i].type]]
      /\ bindings = [n \in AllName |-> IF n \in ParamNames(fn)
                                       THEN ParamIndex(fn, n) ELSE Invalid]
  BY DEF Init
<1>2. fn.params \in Seq(Param)
  BY <1>1, HeadersAssumption
<1>3. Len(fn.params) <= Len(values)
  <2>1. DOMAIN values = 1 .. Len(fn.params) /\ Len(fn.params) \in Nat
    BY <1>1, <1>2
  <2>2. Len(values) = Len(fn.params)
    BY <1>1, <2>1
  <2> QED
    BY <2>1, <2>2
<1>4. Positions(blocks) = {}
  BY <1>1 DEF Positions, NewBlock
<1>5. OnceIn(Params, blocks)
  BY <1>4 DEF OnceIn, DefSites
<1>6. KnownAll(Params, blocks, bindings)
  <2> SUFFICES ASSUME NEW n \in AllName, bindings[n] # Invalid
               PROVE  Known(Params, blocks, bindings[n])
    BY DEF KnownAll
  <2>1. n \in ParamNames(fn) /\ bindings[n] = ParamIndex(fn, n)
    BY <1>1
  <2>2. \E i \in DOMAIN fn.params : fn.params[i].name = n
    BY <2>1 DEF ParamNames
  <2>3. ParamIndex(fn, n) \in DOMAIN fn.params
    BY <2>2 DEF ParamIndex
  <2> QED
    BY <2>1, <2>3 DEF Known, Params
<1>7. \A i \in DOMAIN ctrl : FrameFits(Params, blocks, ctrl, i)
  <2>1. DOMAIN ctrl = {1} /\ ctrl[1].kind = "FBODY"
    BY <1>1
  <2> QED
    BY <2>1 DEF FrameFits, FrameKnown, Pending, TargetFits, ArgsFit, ExprKind,
       SnapshotKind, OperandKind
<1> QED
  BY <1>3, <1>5, <1>6, <1>7 DEF SingleInv, SingleLowering

LEMMA NextSingle ==
  ASSUME TypeOK, TypeOK', SingleInv, FlowInv, [Next]_vars
  PROVE  SingleInv'
<1>1. CASE UNCHANGED vars
  <2>1. UNCHANGED <<fn, values, blocks, bindings, ctrl, status>>
    BY <1>1 DEF vars, irVars, valueVars
  <2> QED
    BY <2>1 DEF SingleInv, SingleLowering, Params
<1>2. CASE Next
  BY <1>2, ExpressionSingle, SimpleStatementSingle, IfStatementSingle,
     WhileStatementSingle, EndFunctionSingle, CollapseSingle DEF Next
<1> QED
  BY <1>1, <1>2

\* For programs of any size: every value that an operand or a binding refers
\* to is a parameter or has its one definition in the code.
THEOREM SingleInvariant == Spec => []SingleInv
<1>1. Init => TypeOK /\ FlowInv /\ AtStart /\ SingleInv
  BY InitType, InitFlow, InitSingle
<1>2. TypeOK /\ FlowInv /\ AtStart /\ SingleInv /\ [Next]_vars
        => (TypeOK /\ FlowInv /\ AtStart /\ SingleInv)'
  BY NextType, NextFlow, StartKept, NextSingle
<1> QED
  BY <1>1, <1>2, PTL DEF Spec

\* For programs of any size: a parameter is assigned by no instruction, any
\* other value by at most one, and a value that some instruction uses is a
\* parameter or assigned: under nested assignments, in open branches and
\* loops, and after each phi that collapse_degenerate_phis removes.
THEOREM ValuesAssignedOnce == Spec => []SingleAssignment
<1>1. SingleInv => SingleAssignment
  <2> SUFFICES ASSUME SingleInv PROVE SingleAssignment
    OBVIOUS
  <2>1. OnceIn(Params, blocks)
    BY DEF SingleInv
  <2>2. ASSUME NEW id
        PROVE  Cardinality(DefSites(blocks, id)) <= IF IsParam(id) THEN 0
                                                                   ELSE 1
    <3>1. CASE DefSites(blocks, id) = {}
      <4>1. Cardinality(DefSites(blocks, id)) = 0
        BY <3>1, FS_EmptySet
      <4> QED
        BY <4>1
    <3>2. CASE DefSites(blocks, id) # {}
      <4>1. PICK p : p \in DefSites(blocks, id)
        BY <3>2
      <4>2. DefSites(blocks, id) = {p}
        BY <2>1, <4>1 DEF OnceIn
      <4>3. Cardinality(DefSites(blocks, id)) = 1
        BY <4>2, FS_Singleton
      <4>4. ~IsParam(id)
        BY <2>1, <3>2 DEF OnceIn, IsParam, Params
      <4> QED
        BY <4>3, <4>4
    <3> QED
      BY <3>1, <3>2
  <2>3. ASSUME NEW use \in Positions(blocks), NEW j \in UsesAt(use)
        PROVE  LET id == At(blocks, use).args[j].id
               IN  IsParam(id) \/ DefSites(blocks, id) # {}
    <3>1. KnownArgs(Params, blocks, At(blocks, use).args)
      BY <2>1 DEF OnceIn
    <3> QED
      BY <3>1 DEF UsesAt, KnownArgs, KnownOperand, Known, IsParam, Params
  <2> QED
    BY <2>2, <2>3 DEF SingleAssignment
<1> QED
  BY <1>1, SingleInvariant, PTL

-----------------------------------------------------------------------------
(***************************************************************************)
(* Scopes.                                                                 *)
(***************************************************************************)

\* The statement lists among the first i activations: each has a scope.
Depth(c, i) == Cardinality({ j \in 1 .. i : c[j].kind \in ListKind })

\* The parameters and the globals are declared before the function is.
Fixed(h, n) == InitialDecl(h)[n] # Undeclared

ScopeInv ==
  /\ status = "lowering" => Len(scopes) = Depth(ctrl, Len(ctrl))
  /\ \A k \in 2 .. Len(scopes) : \A n \in scopes[k] : ~Fixed(fn, n)
  /\ \A n \in Name : Fixed(fn, n) => Visible(n)

LEMMA DepthOf ==
  ASSUME NEW c, NEW i \in Nat
  PROVE  /\ Depth(c, i) \in Nat /\ Depth(c, 0) = 0
         /\ c[i + 1].kind \in ListKind => Depth(c, i + 1) = Depth(c, i) + 1
         /\ c[i + 1].kind \notin ListKind => Depth(c, i + 1) = Depth(c, i)
         /\ \A j \in 0 .. i : Depth(c, j) <= Depth(c, i)
<1> DEFINE S(x) == { j \in 1 .. x : c[j].kind \in ListKind }
<1>1. \A x : Depth(c, x) = Cardinality(S(x))
  BY DEF Depth
<1>2. \A x \in Nat : IsFiniteSet(S(x))
  <2> SUFFICES ASSUME NEW x \in Nat PROVE IsFiniteSet(S(x))
    OBVIOUS
  <2>1. IsFiniteSet(1 .. x)
    BY FS_Interval
  <2> QED
    BY <2>1, FS_Subset
<1>3. S(0) = {}
  OBVIOUS
<1>4. c[i + 1].kind \in ListKind => S(i + 1) = S(i) \cup {i + 1}
  OBVIOUS
<1>5. c[i + 1].kind \notin ListKind => S(i + 1) = S(i)
  OBVIOUS
<1>6. i + 1 \notin S(i)
  OBVIOUS
<1>7. \A j \in 0 .. i : S(j) \subseteq S(i)
  OBVIOUS
<1> HIDE DEF S
<1>8. Cardinality(S(0)) = 0
  BY <1>3, FS_EmptySet
<1>9. Cardinality(S(i) \cup {i + 1}) = Cardinality(S(i)) + 1
  BY <1>2, <1>6, FS_AddElement
<1>10. Cardinality(S(i)) \in Nat
  BY <1>2, FS_CardinalityType
<1>11. \A j \in 0 .. i : Cardinality(S(j)) <= Cardinality(S(i))
  BY <1>2, <1>7, FS_Subset
<1> QED
  BY <1>1, <1>4, <1>5, <1>8, <1>9, <1>10, <1>11

LEMMA DepthAlike ==
  ASSUME NEW c, NEW d, NEW i \in Nat, \A j \in 1 .. i : d[j].kind = c[j].kind
  PROVE  Depth(d, i) = Depth(c, i)
<1>1. { j \in 1 .. i : d[j].kind \in ListKind }
        = { j \in 1 .. i : c[j].kind \in ListKind }
  OBVIOUS
<1> QED
  BY <1>1 DEF Depth

\* The first k activations go on, the next one is new, gone or another.
StackTurn(k) ==
  /\ Keeps(k)
  /\ Len(ctrl) \in {k, k + 1} /\ Len(ctrl') \in {k, k + 1}

Owned(k) == Len(ctrl) = k + 1 /\ Top.kind \in ListKind
Owns(k)  == Len(ctrl') = k + 1 /\ LastFrame.kind \in ListKind

\* The end of a scope, and the scope of an else branch after it.
LeaveScope(next) ==
  /\ decl' = [n \in Name |-> IF n \in Last(scopes) THEN Undeclared
                             ELSE decl[n]]
  /\ scopes' = next

\* What a step does to the scopes when the first k activations go on.
ScopeStep(k) ==
  \/ (Owned(k) <=> Owns(k)) /\ UNCHANGED semVars
  \/ /\ Owned(k) <=> Owns(k)
     /\ k = Len(ctrl) /\ Top.kind \in ListKind
     /\ \E n \in Name : \E t \in ValType : Declare(n, t)
  \/ (Owned(k) <=> Owns(k)) /\ \E n \in Name : Initialise(n)
  \/ ~Owned(k) /\ Owns(k) /\ EnterScope
  \/ /\ Owned(k) /\ Top.kind # "FBODY"
     /\ \/ ~Owns(k) /\ LeaveScope(Front(scopes))
        \/ Owns(k) /\ LeaveScope(Append(Front(scopes), {}))

\* The depth of the stack before and after a step.
LEMMA DepthStep ==
  ASSUME TypeOK, TypeOK', NEW k, StackTurn(k)
  PROVE  /\ k \in Nat /\ Depth(ctrl, k) \in Nat
         /\ \A i \in 0 .. k : Depth(ctrl', i) = Depth(ctrl, i)
         /\ Owned(k) => Depth(ctrl, Len(ctrl)) = Depth(ctrl, k) + 1
         /\ ~Owned(k) => Depth(ctrl, Len(ctrl)) = Depth(ctrl, k)
         /\ Owns(k) => Depth(ctrl', Len(ctrl')) = Depth(ctrl, k) + 1
         /\ ~Owns(k) => Depth(ctrl', Len(ctrl')) = Depth(ctrl, k)
<1>1. k \in Nat /\ \A j \in 1 .. k : ctrl'[j].kind = ctrl[j].kind
  BY DEF StackTurn, Keeps, Alike
<1>2. \A i \in 0 .. k : Depth(ctrl', i) = Depth(ctrl, i)
  <2> SUFFICES ASSUME NEW i \in 0 .. k
               PROVE  Depth(ctrl', i) = Depth(ctrl, i)
    OBVIOUS
  <2>1. i \in Nat /\ \A j \in 1 .. i : ctrl'[j].kind = ctrl[j].kind
    BY <1>1
  <2> QED
    BY <2>1, DepthAlike
<1>3. Depth(ctrl', k) = Depth(ctrl, k)
  BY <1>1, <1>2
<1>4. Top = ctrl[Len(ctrl)]
  BY StackFrames
<1>5. /\ Depth(ctrl, k) \in Nat
      /\ ctrl[k + 1].kind \in ListKind =>
           Depth(ctrl, k + 1) = Depth(ctrl, k) + 1
      /\ ctrl[k + 1].kind \notin ListKind =>
           Depth(ctrl, k + 1) = Depth(ctrl, k)
  BY <1>1, DepthOf
<1>6. /\ ctrl'[k + 1].kind \in ListKind =>
           Depth(ctrl', k + 1) = Depth(ctrl', k) + 1
      /\ ctrl'[k + 1].kind \notin ListKind =>
           Depth(ctrl', k + 1) = Depth(ctrl', k)
  BY <1>1, DepthOf
<1>7. /\ Owned(k) => Depth(ctrl, Len(ctrl)) = Depth(ctrl, k) + 1
      /\ ~Owned(k) => Depth(ctrl, Len(ctrl)) = Depth(ctrl, k)
  BY <1>4, <1>5 DEF Owned, StackTurn
<1>8. /\ Owns(k) => Depth(ctrl', Len(ctrl')) = Depth(ctrl, k) + 1
      /\ ~Owns(k) => Depth(ctrl', Len(ctrl')) = Depth(ctrl, k)
  BY <1>3, <1>6 DEF Owns, StackTurn, LastFrame
<1> QED
  BY <1>1, <1>2, <1>5, <1>7, <1>8

-----------------------------------------------------------------------------
\* AST_VARIABLE: one name comes into sight, in the innermost scope.
LEMMA DeclareParts ==
  ASSUME TypeOK, NEW n \in Name, NEW t \in ValType, Declare(n, t)
  PROVE  /\ ~Visible(n)
         /\ decl'[n].type = t /\ decl'[n].init = FALSE
         /\ \A m \in Name : m # n => decl'[m] = decl[m]
         /\ Len(scopes') = Len(scopes) /\ Len(scopes) \in Nat
         /\ \A j \in 1 .. Len(scopes) :
              scopes[j] \subseteq scopes'[j] /\ scopes'[j] \subseteq scopes[j] \cup {n}
         /\ Len(scopes) >= 1 => n \in scopes'[Len(scopes)]
<1> DEFINE d == [type |-> t, init |-> FALSE]
           l == Len(scopes)
           s == scopes[l] \cup {n}
<1>1. /\ ~Visible(n) /\ decl' = [decl EXCEPT ![n] = d]
      /\ scopes' = [scopes EXCEPT ![l] = s]
  BY DEF Declare
<1>2. decl \in [Name -> [type : Type, init : BOOLEAN]]
  BY DEF TypeOK, RestType
<1>3. scopes \in Seq(SUBSET Name) /\ l \in Nat /\ DOMAIN scopes = 1 .. l
  BY DEF TypeOK, RestType
<1>4. d.type = t /\ d.init = FALSE
  OBVIOUS
<1> HIDE DEF d, s
<1>5. decl'[n] = d /\ \A m \in Name : m # n => decl'[m] = decl[m]
  BY <1>1, <1>2
<1>6. /\ Len(scopes') = l
      /\ \A j \in 1 .. l : scopes'[j] = IF j = l THEN s ELSE scopes[j]
  BY <1>1, <1>3
<1>7. decl'[n].type = t /\ decl'[n].init = FALSE
  BY <1>4, <1>5
<1>8. s = scopes[l] \cup {n}
  BY DEF s
<1>9. \A j \in 1 .. l : /\ scopes[j] \subseteq scopes'[j]
                        /\ scopes'[j] \subseteq scopes[j] \cup {n}
  <2> SUFFICES ASSUME NEW j \in 1 .. l
               PROVE  /\ scopes[j] \subseteq scopes'[j]
                      /\ scopes'[j] \subseteq scopes[j] \cup {n}
    OBVIOUS
  <2>1. (scopes'[j] = s /\ j = l) \/ scopes'[j] = scopes[j]
    BY <1>6
  <2> QED
    BY <1>8, <2>1, Zenon
<1>10. l >= 1 => n \in scopes'[l]
  <2>1. ASSUME l >= 1 PROVE scopes'[l] = s
    <3>1. l \in 1 .. l
      BY <1>3, <2>1
    <3> QED
      BY <1>6, <3>1
  <2> QED
    BY <1>8, <2>1
<1> HIDE DEF l
<1>11. l = Len(scopes)
  BY DEF l
<1> QED
  BY <1>1, <1>3, <1>5, <1>6, <1>7, <1>9, <1>10, <1>11

\* typecheck_assignment: nothing but the mark of the variable changes.
LEMMA InitialiseParts ==
  ASSUME TypeOK, NEW n \in Name, Initialise(n)
  PROVE  /\ Visible(n) /\ UNCHANGED scopes
         /\ \A m \in Name : /\ decl'[m].type = decl[m].type
                            /\ Visible(m)' <=> Visible(m)
         /\ \A m \in Name : m # n => decl'[m] = decl[m]
<1> DEFINE d == [decl[n] EXCEPT !.init = TRUE]
<1>1. Visible(n) /\ decl' = [decl EXCEPT ![n] = d] /\ UNCHANGED scopes
  BY DEF Initialise
<1>2. decl \in [Name -> [type : Type, init : BOOLEAN]]
  BY DEF TypeOK, RestType
<1>3. decl[n] \in [type : Type, init : BOOLEAN]
  BY <1>2
<1>4. DOMAIN decl[n] = {"type", "init"}
  BY <1>3
<1>5. d.type = decl[n].type /\ d.init = TRUE
  BY <1>4, Zenon
<1>6. Undeclared.init = FALSE
  BY DEF Undeclared
<1> HIDE DEF d
<1>7. decl'[n] = d /\ \A m \in Name : m # n => decl'[m] = decl[m]
  BY <1>1, <1>2
<1>8. decl'[n].init # Undeclared.init
  BY <1>5, <1>6, <1>7
<1>9. decl'[n] # Undeclared
  BY <1>8
<1> QED
  BY <1>1, <1>5, <1>7, <1>9 DEF Visible

LEMMA LeaveParts ==
  ASSUME TypeOK, NEW next, LeaveScope(next)
  PROVE  /\ \A m \in Name : m \in Last(scopes) => ~Visible(m)'
         /\ \A m \in Name : m \notin Last(scopes) => decl'[m] = decl[m]
         /\ \A m \in Name : Visible(m)' => decl'[m] = decl[m] /\ Visible(m)
BY DEF LeaveScope, Visible

LEMMA FrontParts ==
  ASSUME NEW S, NEW s \in Seq(S), Len(s) >= 1
  PROVE  /\ Len(Front(s)) = Len(s) - 1 /\ Front(s) \in Seq(S)
         /\ \A j \in 1 .. Len(s) - 1 : Front(s)[j] = s[j]
<1>1. Len(s) \in Nat /\ Len(s) > 0
  OBVIOUS
<1> DEFINE f == Front(s)
<1>2. /\ f \in Seq(S) /\ Len(f) = Len(s) - 1
      /\ \A i \in 1 .. Len(s) - 1 : f[i] = s[i]
  <2>1. CASE Len(s) = 1
    <3>1. f = << >>
      BY <1>1, <2>1 DEF Front
    <3> QED
      BY <2>1, <3>1
  <2>2. CASE Len(s) >= 2
    <3>1. Len(f) = Len(s) - 1
      BY <1>1, <2>2 DEF Front
    <3>2. \A i \in 1 .. Len(s) - 1 : f[i] = s[i]
      BY <1>1, <2>2 DEF Front
    <3>3. f \in Seq(S)
      BY <1>1, <2>2 DEF Front
    <3> QED
      BY <3>1, <3>2, <3>3
  <2>3. \A l \in Nat : l > 0 => l = 1 \/ l >= 2
    OBVIOUS
  <2>4. Len(s) = 1 \/ Len(s) >= 2
    BY <1>1, <2>3
  <2> QED
    BY <2>1, <2>2, <2>4
<1> QED
  BY <1>2

LEMMA ScopeSeq ==
  ASSUME TypeOK
  PROVE  /\ Len(scopes) \in Nat /\ DOMAIN scopes = 1 .. Len(scopes)
         /\ Len(Append(scopes, {})) = Len(scopes) + 1
         /\ \A j \in 1 .. Len(scopes) : Append(scopes, {})[j] = scopes[j]
         /\ Append(scopes, {})[Len(scopes) + 1] = {}
         /\ Len(scopes) >= 1 =>
              /\ Last(scopes) = scopes[Len(scopes)]
              /\ Len(Front(scopes)) = Len(scopes) - 1
              /\ \A j \in 1 .. Len(scopes) - 1 : Front(scopes)[j] = scopes[j]
              /\ Len(Append(Front(scopes), {})) = Len(scopes)
              /\ \A j \in 1 .. Len(scopes) - 1 :
                   Append(Front(scopes), {})[j] = scopes[j]
              /\ Append(Front(scopes), {})[Len(scopes)] = {}
<1>1. scopes \in Seq(SUBSET Name) /\ {} \in SUBSET Name
  BY DEF TypeOK, RestType
<1>2. ASSUME Len(scopes) >= 1
      PROVE  /\ Len(Front(scopes)) = Len(scopes) - 1
             /\ Front(scopes) \in Seq(SUBSET Name)
             /\ \A j \in 1 .. Len(scopes) - 1 : Front(scopes)[j] = scopes[j]
  BY <1>1, <1>2, FrontParts
<1>3. /\ Len(Append(scopes, {})) = Len(scopes) + 1
      /\ \A j \in 1 .. Len(scopes) : Append(scopes, {})[j] = scopes[j]
      /\ Append(scopes, {})[Len(scopes) + 1] = {}
  BY <1>1
<1>4. ASSUME Len(scopes) >= 1
      PROVE  /\ Len(Append(Front(scopes), {})) = Len(scopes)
             /\ \A j \in 1 .. Len(scopes) - 1 :
                  Append(Front(scopes), {})[j] = scopes[j]
             /\ Append(Front(scopes), {})[Len(scopes)] = {}
  <2> DEFINE f == Front(scopes)
  <2>1. f \in Seq(SUBSET Name) /\ Len(f) = Len(scopes) - 1
        /\ Len(scopes) \in Nat /\ \A j \in 1 .. Len(scopes) - 1 : f[j] = scopes[j]
    BY <1>1, <1>2, <1>4
  <2> HIDE DEF f
  <2>2. /\ Len(Append(f, {})) = Len(f) + 1
        /\ \A j \in 1 .. Len(f) : Append(f, {})[j] = f[j]
        /\ Append(f, {})[Len(f) + 1] = {}
    BY <1>1, <2>1
  <2> QED
    BY <2>1, <2>2 DEF f
<1> QED
  BY <1>1, <1>2, <1>3, <1>4 DEF Last

\* A step keeps the scopes as wide as the stack is deep, and the names of the
\* header out of the scopes that end.
LEMMA ScopeKept ==
  ASSUME TypeOK, TypeOK', ScopeInv, status = "lowering", fn' = fn, NEW k,
         StackTurn(k), ScopeStep(k)
  PROVE  ScopeInv'
<1> DEFINE l == Len(scopes)
           d == Depth(ctrl, k)
<1>1. /\ l = Depth(ctrl, Len(ctrl)) /\ l \in Nat /\ d \in Nat /\ k \in Nat
      /\ Owned(k) => l = d + 1
      /\ ~Owned(k) => l = d
      /\ Owns(k) => Depth(ctrl', Len(ctrl')) = d + 1
      /\ ~Owns(k) => Depth(ctrl', Len(ctrl')) = d
  BY DepthStep, ScopeSeq DEF ScopeInv
<1>2. /\ \A j \in 2 .. l : \A n \in scopes[j] : ~Fixed(fn, n)
      /\ \A n \in Name : Fixed(fn, n) => Visible(n)
  BY DEF ScopeInv
<1>3. SUFFICES /\ Len(scopes') = Depth(ctrl', Len(ctrl'))
               /\ \A j \in 2 .. Len(scopes') : \A n \in scopes'[j] :
                    ~Fixed(fn, n)
               /\ \A n \in Name : Fixed(fn, n) => Visible(n)'
  BY DEF ScopeInv
<1> HIDE DEF l, d
<1>4. CASE (Owned(k) <=> Owns(k)) /\ UNCHANGED semVars
  BY <1>1, <1>2, <1>4 DEF semVars, Visible, l
<1>5. ASSUME Owned(k) <=> Owns(k), NEW n \in Name, NEW t \in ValType,
             Declare(n, t)
      PROVE  /\ Len(scopes') = Depth(ctrl', Len(ctrl'))
             /\ \A j \in 2 .. Len(scopes') : \A m \in scopes'[j] :
                  ~Fixed(fn, m)
             /\ \A m \in Name : Fixed(fn, m) => Visible(m)'
  <2>1. /\ ~Visible(n) /\ \A m \in Name : m # n => decl'[m] = decl[m]
        /\ Len(scopes') = l
        /\ \A j \in 1 .. l : scopes'[j] \subseteq scopes[j] \cup {n}
    BY <1>5, DeclareParts DEF l
  <2>2. ~Fixed(fn, n)
    BY <1>2, <2>1
  <2>3. \A j \in 2 .. l : \A m \in scopes'[j] : m = n \/ m \in scopes[j]
    BY <1>1, <2>1
  <2>4. \A m \in Name : Fixed(fn, m) => Visible(m)'
    BY <1>2, <2>1, <2>2 DEF Visible
  <2> QED
    BY <1>1, <1>2, <1>5, <2>1, <2>2, <2>3, <2>4
<1>6. ASSUME Owned(k) <=> Owns(k), NEW n \in Name, Initialise(n)
      PROVE  /\ Len(scopes') = Depth(ctrl', Len(ctrl'))
             /\ \A j \in 2 .. Len(scopes') : \A m \in scopes'[j] :
                  ~Fixed(fn, m)
             /\ \A m \in Name : Fixed(fn, m) => Visible(m)'
  <2>1. UNCHANGED scopes /\ \A m \in Name : Visible(m)' <=> Visible(m)
    BY <1>6, InitialiseParts
  <2> QED
    BY <1>1, <1>2, <1>6, <2>1 DEF l
<1>7. CASE ~Owned(k) /\ Owns(k) /\ EnterScope
  <2>1. /\ decl' = decl /\ scopes' = Append(scopes, {}) /\ Len(scopes') = l + 1
        /\ \A j \in 1 .. l : scopes'[j] = scopes[j]
        /\ scopes'[l + 1] = {}
    BY <1>7, ScopeSeq DEF EnterScope, l
  <2>2. \A j \in 2 .. Len(scopes') : j \in 2 .. l \/ j = l + 1
    BY <1>1, <2>1
  <2>3. \A j \in 2 .. Len(scopes') : \A n \in scopes'[j] : ~Fixed(fn, n)
    BY <1>1, <1>2, <2>1, <2>2
  <2> QED
    BY <1>1, <1>2, <1>7, <2>1, <2>3 DEF Visible
<1>8. CASE /\ Owned(k) /\ Top.kind # "FBODY"
           /\ \/ ~Owns(k) /\ LeaveScope(Front(scopes))
              \/ Owns(k) /\ LeaveScope(Append(Front(scopes), {}))
  <2>1. l >= 2
    <3>1. Len(ctrl) = k + 1 /\ k >= 1 /\ ctrl[1].kind = "FBODY"
      <4>1. ctrl[1].kind = "FBODY"
        BY DEF TypeOK, StackType, Nested
      <4> QED
        BY <1>1, <1>8, <4>1, StackFrames DEF Owned
    <3>2. Depth(ctrl, 1) = Depth(ctrl, 0) + 1 /\ Depth(ctrl, 0) = 0
      <4>1. ctrl[0 + 1].kind \in ListKind
        BY <3>1 DEF ListKind
      <4> QED
        BY <4>1, DepthOf
    <3>3. Depth(ctrl, 1) <= Depth(ctrl, k)
      BY <1>1, <3>1, DepthOf
    <3> QED
      BY <1>1, <1>8, <3>2, <3>3 DEF d
  <2>2. /\ Last(scopes) = scopes[l] /\ Len(Front(scopes)) = l - 1
        /\ \A j \in 1 .. l - 1 : Front(scopes)[j] = scopes[j]
        /\ Len(Append(Front(scopes), {})) = l
        /\ \A j \in 1 .. l - 1 : Append(Front(scopes), {})[j] = scopes[j]
        /\ Append(Front(scopes), {})[l] = {}
    BY <1>1, <2>1, ScopeSeq DEF l
  <2>3. \A n \in Name : Fixed(fn, n) => Visible(n)'
    <3>1. \A n \in Name : n \notin Last(scopes) => decl'[n] = decl[n]
      BY <1>8, LeaveParts
    <3>2. \A n \in Last(scopes) : ~Fixed(fn, n)
      BY <1>1, <1>2, <2>1, <2>2
    <3> QED
      BY <1>2, <3>1, <3>2 DEF Visible
  <2>4. CASE ~Owns(k) /\ LeaveScope(Front(scopes))
    <3>1. scopes' = Front(scopes) /\ Len(scopes') = l - 1
      BY <2>2, <2>4 DEF LeaveScope
    <3>2. \A j \in 2 .. Len(scopes') : scopes'[j] = scopes[j] /\ j \in 2 .. l
      BY <1>1, <2>2, <3>1
    <3> QED
      BY <1>1, <1>2, <1>8, <2>3, <2>4, <3>1, <3>2
  <2>5. CASE Owns(k) /\ LeaveScope(Append(Front(scopes), {}))
    <3>1. scopes' = Append(Front(scopes), {}) /\ Len(scopes') = l
      BY <2>2, <2>5 DEF LeaveScope
    <3>2. \A j \in 2 .. Len(scopes') :
            j \in 2 .. l /\ (scopes'[j] = scopes[j] \/ scopes'[j] = {})
      <4>1. \A j \in 2 .. l : j \in 1 .. l - 1 \/ j = l
        BY <1>1
      <4> QED
        BY <2>2, <3>1, <4>1
    <3>3. \A j \in 2 .. Len(scopes') : \A n \in scopes'[j] : ~Fixed(fn, n)
      BY <1>2, <3>2
    <3> QED
      BY <1>1, <1>8, <2>3, <2>5, <3>1, <3>3
  <2> QED
    BY <1>8, <2>4, <2>5
<1> QED
  BY <1>4, <1>5, <1>6, <1>7, <1>8 DEF ScopeStep

-----------------------------------------------------------------------------
(***************************************************************************)
(* What each kind of step does to the stack and to the scopes.             *)
(***************************************************************************)

LEMMA ReceiveScopes ==
  ASSUME TypeOK, NEW o, Receive(o), Top.kind \in ExprKind, UNCHANGED semVars
  PROVE  StackTurn(Len(ctrl)) /\ ScopeStep(Len(ctrl))
<1>1. Keeps(Len(ctrl)) /\ Len(ctrl') = Len(ctrl) /\ Len(ctrl) \in Nat
  BY ReceiveShape, StackFrames
<1> QED
  BY <1>1 DEF StackTurn, ScopeStep, Owned, Owns

LEMMA SameScopes ==
  ASSUME TypeOK, UNCHANGED <<ctrl, semVars>>
  PROVE  StackTurn(Len(ctrl)) /\ ScopeStep(Len(ctrl))
<1>1. Keeps(Len(ctrl)) /\ Len(ctrl') = Len(ctrl) /\ Len(ctrl) \in Nat
  BY SameShape, StackFrames
<1> QED
  BY <1>1 DEF StackTurn, ScopeStep, Owned, Owns

LEMMA DeclareScopes ==
  ASSUME TypeOK, UNCHANGED ctrl, Top.kind \in ListKind,
         NEW n \in Name, NEW t \in ValType, Declare(n, t)
  PROVE  StackTurn(Len(ctrl)) /\ ScopeStep(Len(ctrl))
<1>1. Keeps(Len(ctrl)) /\ Len(ctrl') = Len(ctrl) /\ Len(ctrl) \in Nat
  BY SameShape, StackFrames
<1> QED
  BY <1>1 DEF StackTurn, ScopeStep, Owned, Owns

LEMMA PushScopes ==
  ASSUME TypeOK, NEW f, Push(f), f.kind \notin ListKind,
         \/ UNCHANGED semVars
         \/ /\ Top.kind \in ListKind
            /\ \E n \in Name : \E t \in ValType : Declare(n, t)
  PROVE  StackTurn(Len(ctrl)) /\ ScopeStep(Len(ctrl))
<1>1. /\ Keeps(Len(ctrl)) /\ Len(ctrl') = Len(ctrl) + 1 /\ Len(ctrl) \in Nat
      /\ LastFrame = f
  BY PushShape, StackFrames DEF LastFrame
<1> QED
  BY <1>1 DEF StackTurn, ScopeStep, Owned, Owns

LEMMA EnterScopes ==
  ASSUME TypeOK, NEW f, Push(f), f.kind \in ListKind, EnterScope
  PROVE  StackTurn(Len(ctrl)) /\ ScopeStep(Len(ctrl))
<1>1. /\ Keeps(Len(ctrl)) /\ Len(ctrl') = Len(ctrl) + 1 /\ Len(ctrl) \in Nat
      /\ LastFrame = f
  BY PushShape, StackFrames DEF LastFrame
<1> QED
  BY <1>1 DEF StackTurn, ScopeStep, Owned, Owns

\* One part of a statement or of an operator follows another.
LEMMA ReplaceScopes ==
  ASSUME TypeOK, NEW f, Replace(f),
         \/ /\ Top.kind \notin ListKind /\ f.kind \notin ListKind
            /\ UNCHANGED semVars
         \/ Top.kind \notin ListKind /\ f.kind \in ListKind /\ EnterScope
         \/ /\ Top.kind \in ListKind \ {"FBODY"} /\ f.kind \notin ListKind
            /\ LeaveScope(Front(scopes))
         \/ /\ Top.kind \in ListKind \ {"FBODY"} /\ f.kind \in ListKind
            /\ LeaveScope(Append(Front(scopes), {}))
  PROVE  StackTurn(Len(ctrl) - 1) /\ ScopeStep(Len(ctrl) - 1)
<1>1. /\ Keeps(Len(ctrl) - 1) /\ Len(ctrl') = Len(ctrl) /\ Len(ctrl) \in Nat
      /\ LastFrame = f
  BY ReplaceShape, StackFrames DEF LastFrame
<1>2. StackTurn(Len(ctrl) - 1)
  BY <1>1 DEF StackTurn
<1>3. /\ Owned(Len(ctrl) - 1) <=> Top.kind \in ListKind
      /\ Owns(Len(ctrl) - 1) <=> f.kind \in ListKind
  BY <1>1 DEF Owned, Owns
<1> QED
  BY <1>2, <1>3 DEF ScopeStep

\* An activation ends.
LEMMA DepartScopes ==
  ASSUME TypeOK, Keeps(Len(ctrl) - 1), Len(ctrl') = Len(ctrl) - 1,
         \/ Top.kind \notin ListKind /\ UNCHANGED semVars
         \/ Top.kind \notin ListKind /\ \E n \in Name : Initialise(n)
         \/ Top.kind \in ListKind \ {"FBODY"} /\ LeaveScope(Front(scopes))
  PROVE  StackTurn(Len(ctrl) - 1) /\ ScopeStep(Len(ctrl) - 1)
<1>1. Len(ctrl) \in Nat /\ Len(ctrl) >= 1
  BY StackFrames
<1>2. StackTurn(Len(ctrl) - 1)
  BY <1>1 DEF StackTurn
<1>3. /\ Owned(Len(ctrl) - 1) <=> Top.kind \in ListKind
      /\ ~Owns(Len(ctrl) - 1)
  BY <1>1 DEF Owned, Owns
<1> QED
  BY <1>2, <1>3 DEF ScopeStep

\* A step of the lowering with one of these effects keeps the invariant.
ScopesGoOn == \E k : StackTurn(k) /\ ScopeStep(k)

LEMMA GoOnKept ==
  ASSUME TypeOK, TypeOK', ScopeInv, status = "lowering", fn' = fn, ScopesGoOn
  PROVE  ScopeInv'
BY ScopeKept DEF ScopesGoOn

LEMMA LeftScopes ==
  ASSUME ScopeInv, status' # "lowering", UNCHANGED <<fn, semVars>>
  PROVE  ScopeInv'
BY DEF ScopeInv, semVars, Visible

LEMMA FailScopes ==
  ASSUME ScopeInv, NEW e \in Error, Fail(e)
  PROVE  ScopeInv'
<1>1. status' # "lowering"
  BY DEF Fail, Error, UnboundAssignment, AssignmentTypes, NoValue, AfterReturn,
         NoReturn, ReturnType, OperandTypes, ArgumentTypes, WhileType
<1> QED
  BY <1>1, LeftScopes DEF Fail

LEMMA ExpressionScopes ==
  ASSUME TypeOK, TypeOK', ScopeInv, Expression
  PROVE  ScopeInv'
<1> USE DEF ListKind, ExprKind, Active, Wanting, runVars
<1>1. ASSUME NEW t \in ValType, Literal(t)
      PROVE  ScopeInv'
  <2>1. /\ status = "lowering" /\ fn' = fn /\ Top.kind \in ExprKind
        /\ UNCHANGED semVars /\ \E o : Receive(o)
    BY <1>1 DEF Literal
  <2>2. ScopesGoOn
    BY <2>1, ReceiveScopes DEF ScopesGoOn
  <2> QED
    BY <2>1, <2>2, GoOnKept
<1>2. ASSUME NEW n \in Name, Identifier(n)
      PROVE  ScopeInv'
  <2>1. /\ status = "lowering" /\ fn' = fn /\ Top.kind \in ExprKind
        /\ UNCHANGED semVars /\ \E o : Receive(o)
    BY <1>2 DEF Identifier, Readable
  <2>2. ScopesGoOn
    BY <2>1, ReceiveScopes DEF ScopesGoOn
  <2> QED
    BY <2>1, <2>2, GoOnKept
<1>3. ASSUME NEW n \in Name, UnboundIdentifier(n)
      PROVE  ScopeInv'
  BY <1>3, FailScopes DEF UnboundIdentifier, Error
<1>4. ASSUME NEW f, f.kind \in OperandKind \cup {"CALL"}, BeginExpr(f),
             status = "lowering"
      PROVE  ScopeInv'
  <2>1. Push(f) /\ UNCHANGED semVars /\ fn' = fn
    BY <1>4 DEF BeginExpr
  <2>2. ScopesGoOn
    BY <1>4, <2>1, PushScopes DEF ScopesGoOn, OperandKind
  <2> QED
    BY <1>4, <2>1, <2>2, GoOnKept
<1>5. ASSUME NEW op, NEW t, BeginBinary(op, t)
      PROVE  ScopeInv'
  BY <1>4, <1>5 DEF BeginBinary, OperandKind
<1>6. ASSUME BeginNot
      PROVE  ScopeInv'
  BY <1>4, <1>6 DEF BeginNot, OperandKind
<1>7. ASSUME NEW isOr \in BOOLEAN, BeginLogic(isOr)
      PROVE  ScopeInv'
  BY <1>4, <1>7 DEF BeginLogic, OperandKind
<1>8. ASSUME NEW f \in Callees, BeginCall(f)
      PROVE  ScopeInv'
  BY <1>4, <1>8 DEF BeginCall, OperandKind
<1>9. ASSUME Top.kind \in OperandKind \cup {"CALL"},
             Top.kind = "CALL" => Caller.kind \notin ListKind,
             NEW o, Return(o), UNCHANGED semVars, status = "lowering",
             fn' = fn
      PROVE  ScopeInv'
  <2>1. ctrl[Len(ctrl) - 1].kind \in ExprKind /\ Top.kind # "FBODY"
    BY <1>9, OperandCaller DEF Caller
  <2>2. Keeps(Len(ctrl) - 1) /\ Len(ctrl') = Len(ctrl) - 1
    BY <1>9, <2>1, ReturnShape
  <2>3. ScopesGoOn
    BY <1>9, <2>2, DepartScopes DEF ScopesGoOn, OperandKind
  <2> QED
    BY <1>9, <2>3, GoOnKept
<1>10. ASSUME FinishBinary
       PROVE  ScopeInv'
  BY <1>9, <1>10, FailScopes DEF FinishBinary, Error, OperandKind
<1>11. ASSUME FinishNot
       PROVE  ScopeInv'
  BY <1>9, <1>11, FailScopes DEF FinishNot, Error, OperandKind
<1>12. ASSUME DropLogic
       PROVE  ScopeInv'
  BY <1>9, <1>12 DEF DropLogic, OperandKind
<1>13. ASSUME SplitLogic
       PROVE  ScopeInv'
  <2>1. /\ status = "lowering" /\ fn' = fn /\ UNCHANGED semVars
        /\ Top.kind = "LEFT" /\ \E f : f.kind = "RIGHT" /\ Replace(f)
    BY <1>13 DEF SplitLogic
  <2>2. ScopesGoOn
    BY <2>1, ReplaceScopes DEF ScopesGoOn
  <2> QED
    BY <2>1, <2>2, GoOnKept
<1>14. ASSUME FinishLogic
       PROVE  ScopeInv'
  BY <1>9, <1>14 DEF FinishLogic, OperandKind
<1>15. ASSUME FinishCall
       PROVE  ScopeInv'
  <2>1. status = "lowering" /\ fn' = fn /\ UNCHANGED semVars /\ Top.kind = "CALL"
    BY <1>15 DEF FinishCall
  <2>2. CASE Caller.kind \in ListKind
    <3>1. Pop
      BY <1>15, <2>2 DEF FinishCall, Caller
    <3>2. Keeps(Len(ctrl) - 1) /\ Len(ctrl') = Len(ctrl) - 1
      BY <2>1, <3>1, PopShape
    <3>3. ScopesGoOn
      BY <2>1, <3>2, DepartScopes DEF ScopesGoOn
    <3> QED
      BY <2>1, <3>3, GoOnKept
  <2>3. CASE Caller.kind \notin ListKind
    <3>1. \E o : Return(o)
      BY <1>15, <2>3 DEF FinishCall, Caller
    <3> QED
      BY <1>9, <2>1, <2>3, <3>1
  <2> QED
    BY <2>2, <2>3
<1>16. ASSUME ArgumentMismatch
       PROVE  ScopeInv'
  BY <1>16, FailScopes DEF ArgumentMismatch, Error
<1> QED
  BY <1>1, <1>2, <1>3, <1>5, <1>6, <1>7, <1>8, <1>10, <1>11, <1>12, <1>13,
     <1>14, <1>15, <1>16 DEF Expression

\* A statement ends.
LEMMA StatementScopes ==
  ASSUME TypeOK, TypeOK', ScopeInv, status = "lowering", fn' = fn,
         Top.kind \in StatementKind, NEW r, Pop \/ EndStatement(r),
         \/ Top.kind \notin ListKind /\ UNCHANGED semVars
         \/ Top.kind \notin ListKind /\ \E n \in Name : Initialise(n)
         \/ Top.kind \in ListKind \ {"FBODY"} /\ LeaveScope(Front(scopes))
  PROVE  ScopeInv'
<1>1. ctrl[Len(ctrl) - 1].kind \in ListKind /\ Top.kind # "FBODY"
  BY StatementCaller
<1>2. Keeps(Len(ctrl) - 1) /\ Len(ctrl') = Len(ctrl) - 1
  BY <1>1, PopShape, EndShape
<1>3. ScopesGoOn
  BY <1>2, DepartScopes DEF ScopesGoOn
<1> QED
  BY <1>3, GoOnKept

LEMMA SimpleStatementScopes ==
  ASSUME TypeOK, TypeOK', ScopeInv, SimpleStatement
  PROVE  ScopeInv'
<1> USE DEF ListKind, Active, InList, NextStatement, StartStatement, runVars
<1>1. ASSUME StatementAfterReturn
      PROVE  ScopeInv'
  BY <1>1, FailScopes DEF StatementAfterReturn, Error
<1>2. ASSUME NEW n \in Name, NEW t \in DeclTypes[n], DeclareOnly(n, t)
      PROVE  ScopeInv'
  <2>1. /\ status = "lowering" /\ fn' = fn /\ UNCHANGED ctrl
        /\ Top.kind \in ListKind /\ Declare(n, t) /\ t \in ValType
    BY <1>2, DeclTypesAssumption DEF DeclareOnly
  <2>2. ScopesGoOn
    BY <2>1, DeclareScopes DEF ScopesGoOn
  <2> QED
    BY <2>1, <2>2, GoOnKept
<1>3. ASSUME NEW f, Push(f), f.kind \notin ListKind, Top.kind \in ListKind,
             status = "lowering", fn' = fn,
             \/ UNCHANGED semVars
             \/ \E n \in Name : \E t \in ValType : Declare(n, t)
      PROVE  ScopeInv'
  <2>1. ScopesGoOn
    BY <1>3, PushScopes DEF ScopesGoOn
  <2> QED
    BY <1>3, <2>1, GoOnKept
<1>4. ASSUME NEW n \in Name, NEW t \in DeclTypes[n], DeclareAndAssign(n, t)
      PROVE  ScopeInv'
  <2>1. /\ status = "lowering" /\ fn' = fn /\ Top.kind \in ListKind
        /\ Declare(n, t) /\ t \in ValType
        /\ \E f : f.kind \notin ListKind /\ Push(f)
    BY <1>4, DeclTypesAssumption DEF DeclareAndAssign, BeginAssignment
  <2> QED
    BY <1>3, <2>1
<1>5. ASSUME NEW n \in Name, Assign(n)
      PROVE  ScopeInv'
  <2>1. /\ status = "lowering" /\ fn' = fn /\ Top.kind \in ListKind
        /\ UNCHANGED semVars
        /\ \E f : f.kind \notin ListKind /\ Push(f)
    BY <1>5 DEF Assign, BeginAssignment
  <2> QED
    BY <1>3, <2>1
<1>6. ASSUME NEW n \in Name, AssignUnbound(n)
      PROVE  ScopeInv'
  BY <1>6, FailScopes DEF AssignUnbound, Error
<1>7. ASSUME FinishAssignment
      PROVE  ScopeInv'
  <2>1. CASE Fail(AssignmentTypes)
    BY <2>1, FailScopes DEF Error
  <2>2. CASE ~Fail(AssignmentTypes)
    <3>1. /\ status = "lowering" /\ fn' = fn /\ Top.kind = "ASSIGN" /\ Pop
          /\ Initialise(Top.name)
      BY <1>7, <2>2 DEF FinishAssignment
    <3>2. Top.name \in Name
      BY <3>1, StackFrames, FrameByKind DEF AssignFrame, StackFrame
    <3> QED
      BY <3>1, <3>2, StatementScopes DEF StatementKind
  <2> QED
    BY <2>1, <2>2
<1>8. ASSUME BeginReturn
      PROVE  ScopeInv'
  <2>1. /\ status = "lowering" /\ fn' = fn /\ Top.kind \in ListKind
        /\ UNCHANGED semVars
        /\ \E f : f.kind \notin ListKind /\ Push(f)
    BY <1>8 DEF BeginReturn
  <2> QED
    BY <1>3, <2>1
<1>9. ASSUME FinishReturn
      PROVE  ScopeInv'
  BY <1>9, FailScopes, StatementScopes
  DEF FinishReturn, Error, StatementKind
<1>10. ASSUME ReturnNothing
       PROVE  ScopeInv'
  <2>1. CASE Fail(ReturnType)
    BY <2>1, FailScopes DEF Error
  <2>2. CASE ~Fail(ReturnType)
    <3> DEFINE l == Len(ctrl)
               g == [ctrl[l] EXCEPT !.rets = TRUE]
    <3>1. /\ status = "lowering" /\ fn' = fn /\ Top.kind \in ListKind
          /\ UNCHANGED semVars /\ ctrl' = [ctrl EXCEPT ![l] = g]
      BY <1>10, <2>2 DEF ReturnNothing
    <3>2. /\ l \in Nat /\ l >= 1 /\ ctrl \in Seq(StackFrame) /\ ctrl[l] = Top
          /\ ctrl[l] \in Frame(Len(values), Len(blocks), Len(names))
          /\ Len(values) \in Nat /\ Len(blocks) \in Nat /\ Len(names) \in Nat
      BY StackFrames DEF StackFrame
    <3>3. g = [ctrl[l] EXCEPT !.rets = TRUE]
      OBVIOUS
    <3>4. ctrl[l].kind \in ListKind
      BY <3>1, <3>2
    <3> HIDE DEF g, l, ListKind
    <3>5. Alike(ctrl[l], g)
      BY <3>2, <3>3, <3>4, AlikeRets
    <3>6. l <= Len(ctrl) /\ Len(ctrl) = l /\ \A i \in 1 .. l : ctrl[i] = ctrl[i]
      BY <3>2 DEF l
    <3>7. Keeps(l) /\ Len(ctrl') = l
      BY <3>1, <3>2, <3>5, <3>6, UpdateShape
    <3>8. StackTurn(l) /\ ScopeStep(l)
      BY <3>1, <3>2, <3>6, <3>7 DEF StackTurn, ScopeStep, Owned, Owns
    <3> QED
      BY <3>1, <3>8, GoOnKept DEF ScopesGoOn
  <2> QED
    BY <2>1, <2>2
<1>11. ASSUME NEW f \in Callees, CallStatement(f)
       PROVE  ScopeInv'
  <2>1. /\ status = "lowering" /\ fn' = fn /\ Top.kind \in ListKind
        /\ UNCHANGED semVars
        /\ \E g : g.kind \notin ListKind /\ Push(g)
    BY <1>11 DEF CallStatement
  <2> QED
    BY <1>3, <2>1
<1>12. ASSUME BeginBlock
       PROVE  ScopeInv'
  <2>1. /\ status = "lowering" /\ fn' = fn /\ EnterScope
        /\ \E f : f.kind \in ListKind /\ Push(f)
    BY <1>12 DEF BeginBlock
  <2>2. ScopesGoOn
    BY <2>1, EnterScopes DEF ScopesGoOn
  <2> QED
    BY <2>1, <2>2, GoOnKept
<1>13. ASSUME EndBlock
       PROVE  ScopeInv'
  <2>1. /\ status = "lowering" /\ fn' = fn /\ Top.kind = "BLOCK"
        /\ EndStatement(Top.rets) /\ LeaveScope(Front(scopes))
    BY <1>13 DEF EndBlock, ExitScope, LeaveScope
  <2> QED
    BY <2>1, StatementScopes DEF StatementKind
<1> QED
  BY <1>1, <1>2, <1>4, <1>5, <1>6, <1>7, <1>8, <1>9, <1>10, <1>11, <1>12, <1>13
  DEF SimpleStatement

LEMMA NextNameFrame ==
  ASSUME TypeOK, Top.kind \in {"MERGE", "HEADER"}, NextName
  PROVE  \E f : f.kind = Top.kind /\ Replace(f)
<1> DEFINE f == [Top EXCEPT !.k = @ + 1]
<1>1. Top \in Frame(Len(values), Len(blocks), Len(names))
      /\ Len(values) \in Nat /\ Len(blocks) \in Nat /\ Len(names) \in Nat
  BY StackFrames DEF StackFrame
<1>2. Top \in MergeFrame(Len(values), Len(blocks), Len(names))
              \cup HeaderFrame(Len(values), Len(blocks), Len(names))
  BY <1>1, FrameByKind
<1>3. f.kind = Top.kind
  BY <1>2 DEF MergeFrame, HeaderFrame
<1> QED
  BY <1>3 DEF NextName

LEMMA IfStatementScopes ==
  ASSUME TypeOK, TypeOK', ScopeInv, IfStatement
  PROVE  ScopeInv'
<1> USE DEF ListKind, Active, InList, NextStatement, StartStatement, runVars
<1>1. ASSUME NEW f, Replace(f), status = "lowering", fn' = fn,
             \/ /\ Top.kind \notin ListKind /\ f.kind \notin ListKind
                /\ UNCHANGED semVars
             \/ Top.kind \notin ListKind /\ f.kind \in ListKind /\ EnterScope
             \/ /\ Top.kind \in ListKind \ {"FBODY"} /\ f.kind \notin ListKind
                /\ LeaveScope(Front(scopes))
             \/ /\ Top.kind \in ListKind \ {"FBODY"} /\ f.kind \in ListKind
                /\ LeaveScope(Append(Front(scopes), {}))
      PROVE  ScopeInv'
  <2>1. ScopesGoOn
    BY <1>1, ReplaceScopes DEF ScopesGoOn
  <2> QED
    BY <1>1, <2>1, GoOnKept
<1>2. ASSUME BeginIf
      PROVE  ScopeInv'
  <2>1. /\ status = "lowering" /\ fn' = fn /\ UNCHANGED semVars
        /\ \E f : f.kind \notin ListKind /\ Push(f)
    BY <1>2 DEF BeginIf
  <2>2. ScopesGoOn
    BY <2>1, PushScopes DEF ScopesGoOn
  <2> QED
    BY <2>1, <2>2, GoOnKept
<1>3. ASSUME DropIf
      PROVE  ScopeInv'
  <2>1. /\ status = "lowering" /\ fn' = fn /\ UNCHANGED semVars
        /\ Top.kind = "IFCOND" /\ \E r : EndStatement(r)
    BY <1>3 DEF DropIf
  <2> QED
    BY <2>1, StatementScopes DEF StatementKind
<1>4. ASSUME BranchIf
      PROVE  ScopeInv'
  <2>1. /\ status = "lowering" /\ fn' = fn /\ EnterScope /\ Top.kind = "IFCOND"
        /\ \E f : f.kind = "THEN" /\ Replace(f)
    BY <1>4 DEF BranchIf
  <2> QED
    BY <1>1, <2>1
<1>5. ASSUME EndThen(TRUE)
      PROVE  ScopeInv'
  <2>1. /\ status = "lowering" /\ fn' = fn /\ Top.kind = "THEN"
        /\ LeaveScope(Append(Front(scopes), {}))
        /\ \E f : f.kind = "ELSE" /\ Replace(f)
    BY <1>5 DEF EndThen, LeaveScope
  <2> QED
    BY <1>1, <2>1
<1>6. ASSUME EndThen(FALSE)
      PROVE  ScopeInv'
  <2>1. /\ status = "lowering" /\ fn' = fn /\ Top.kind = "THEN"
        /\ LeaveScope(Front(scopes))
        /\ \E f : f.kind = "NOELSE" /\ Replace(f)
    BY <1>6 DEF EndThen, ExitScope, LeaveScope
  <2> QED
    BY <1>1, <2>1
<1>7. ASSUME EndElse
      PROVE  ScopeInv'
  <2>1. /\ status = "lowering" /\ fn' = fn
        /\ \/ Top.kind = "ELSE" /\ LeaveScope(Front(scopes))
           \/ Top.kind = "NOELSE" /\ UNCHANGED semVars
        /\ \E f : f.kind = "MERGE" /\ Replace(f)
    BY <1>7 DEF EndElse, ExitScope, LeaveScope
  <2> QED
    BY <1>1, <2>1
<1>8. ASSUME MergeName
      PROVE  ScopeInv'
  <2>1. /\ status = "lowering" /\ fn' = fn /\ Top.kind = "MERGE"
        /\ UNCHANGED semVars /\ NextName
    BY <1>8 DEF MergeName
  <2>2. \E f : f.kind = "MERGE" /\ Replace(f)
    BY <2>1, NextNameFrame
  <2> QED
    BY <1>1, <2>1, <2>2
<1>9. ASSUME EndMerge
      PROVE  ScopeInv'
  <2>1. /\ status = "lowering" /\ fn' = fn /\ UNCHANGED semVars
        /\ Top.kind = "MERGE" /\ \E r : EndStatement(r)
    BY <1>9 DEF EndMerge
  <2> QED
    BY <2>1, StatementScopes DEF StatementKind
<1>10. ASSUME NEW hasElse \in BOOLEAN, EndThen(hasElse)
       PROVE  ScopeInv'
  BY <1>5, <1>6, <1>10
<1> QED
  BY <1>2, <1>3, <1>4, <1>7, <1>8, <1>9, <1>10 DEF IfStatement

LEMMA WhileStatementScopes ==
  ASSUME TypeOK, TypeOK', ScopeInv, WhileStatement
  PROVE  ScopeInv'
<1> USE DEF ListKind, Active, InList, NextStatement, StartStatement, runVars
<1>1. ASSUME BeginWhile
      PROVE  ScopeInv'
  <2>1. /\ status = "lowering" /\ fn' = fn /\ UNCHANGED semVars
        /\ \E f : f.kind = "HEADER" /\ Push(f)
    BY <1>1 DEF BeginWhile
  <2>2. ScopesGoOn
    BY <2>1, PushScopes DEF ScopesGoOn
  <2> QED
    BY <2>1, <2>2, GoOnKept
<1>2. ASSUME HeaderName
      PROVE  ScopeInv'
  <2>1. /\ status = "lowering" /\ fn' = fn /\ Top.kind = "HEADER"
        /\ UNCHANGED semVars /\ NextName
    BY <1>2 DEF HeaderName
  <2>2. \E f : f.kind = "HEADER" /\ Replace(f)
    BY <2>1, NextNameFrame
  <2>3. ScopesGoOn
    BY <2>1, <2>2, ReplaceScopes DEF ScopesGoOn
  <2> QED
    BY <2>1, <2>3, GoOnKept
<1>3. ASSUME EndHeader
      PROVE  ScopeInv'
  <2>1. /\ status = "lowering" /\ fn' = fn /\ UNCHANGED semVars
        /\ Top.kind = "HEADER" /\ \E f : f.kind = "WHILECOND" /\ Replace(f)
    BY <1>3 DEF EndHeader
  <2>2. ScopesGoOn
    BY <2>1, ReplaceScopes DEF ScopesGoOn
  <2> QED
    BY <2>1, <2>2, GoOnKept
<1>4. ASSUME BranchWhile
      PROVE  ScopeInv'
  <2>1. CASE Fail(WhileType)
    BY <2>1, FailScopes DEF Error
  <2>2. CASE ~Fail(WhileType)
    <3>1. /\ status = "lowering" /\ fn' = fn /\ EnterScope
          /\ Top.kind = "WHILECOND" /\ \E f : f.kind = "LOOP" /\ Replace(f)
      BY <1>4, <2>2 DEF BranchWhile
    <3>2. ScopesGoOn
      BY <3>1, ReplaceScopes DEF ScopesGoOn
    <3> QED
      BY <3>1, <3>2, GoOnKept
  <2> QED
    BY <2>1, <2>2
<1>5. ASSUME EndLoop
      PROVE  ScopeInv'
  <2>1. /\ status = "lowering" /\ fn' = fn /\ Top.kind = "LOOP"
        /\ EndStatement(FALSE) /\ LeaveScope(Front(scopes))
    BY <1>5 DEF EndLoop, ExitScope, LeaveScope
  <2> QED
    BY <2>1, StatementScopes DEF StatementKind
<1> QED
  BY <1>1, <1>2, <1>3, <1>4, <1>5 DEF WhileStatement

LEMMA NextScopes ==
  ASSUME TypeOK, TypeOK', ScopeInv, [Next]_vars
  PROVE  ScopeInv'
<1>1. ASSUME EndFunction
      PROVE  ScopeInv'
  <2>1. status' # "lowering" /\ UNCHANGED <<fn, semVars>>
    BY <1>1 DEF EndFunction, NoReturn
  <2> QED
    BY <2>1, LeftScopes
<1>2. ASSUME Collapse
      PROVE  ScopeInv'
  <2>1. status' # "lowering" /\ UNCHANGED <<fn, semVars>>
    BY <1>2 DEF Collapse, VisitPhi, NextBlock, EndPass
  <2> QED
    BY <2>1, LeftScopes
<1>3. ASSUME UNCHANGED vars
      PROVE  ScopeInv'
  BY <1>3 DEF vars, semVars, ScopeInv, Visible
<1> QED
  BY <1>1, <1>2, <1>3, ExpressionScopes, SimpleStatementScopes,
     IfStatementScopes, WhileStatementScopes DEF Next

\* The names of the header that Init declares.
LEMMA InitialDeclParts ==
  ASSUME NEW h, NEW n \in Name
  PROVE  /\ Fixed(h, n) <=> InitialDecl(h)[n] # Undeclared
         /\ n \in ParamNames(h) =>
              /\ Fixed(h, n)
              /\ InitialDecl(h)[n].type = h.params[ParamIndex(h, n)].type
<1>1. n \in ParamNames(h) =>
        InitialDecl(h)[n] = [type |-> h.params[ParamIndex(h, n)].type,
                             init |-> TRUE]
  BY DEF InitialDecl
<1>2. n \in ParamNames(h) => InitialDecl(h)[n].init = TRUE
  BY <1>1
<1>3. Undeclared.init = FALSE
  BY DEF Undeclared
<1> QED
  BY <1>1, <1>2, <1>3 DEF Fixed

LEMMA InitScopes ==
  ASSUME Init
  PROVE  ScopeInv
<1>1. /\ ctrl = << [kind |-> "FBODY", rets |-> FALSE] >>
      /\ scopes = << ParamNames(fn) >> /\ decl = InitialDecl(fn)
  BY DEF Init
<1>2. Len(ctrl) = 1 /\ Len(scopes) = 1 /\ ctrl[1].kind = "FBODY"
  BY <1>1
<1>3. Depth(ctrl, 1) = 1
  <2>1. ctrl[0 + 1].kind \in ListKind
    BY <1>2 DEF ListKind
  <2> QED
    BY <2>1, DepthOf
<1> QED
  BY <1>1, <1>2, <1>3 DEF ScopeInv, Visible, Fixed

-----------------------------------------------------------------------------
(***************************************************************************)
(* Types.                                                                  *)
(***************************************************************************)

\* The type of a name, when all its declarations agree.
TypeFor(h, n) == IF Fixed(h, n) THEN InitialDecl(h)[n].type
                 ELSE CHOOSE t \in ValType : t \in DeclTypes[n]

\* match_type of an operand found and of the type expected.
Fits(t, want) == t = want \/ want = "TYPE_ERROR"

\* The type of the operand that an activation will return.
ResultOf(f) ==
  CASE f.kind = "BINARY" -> CheckedType(f.op, f.wants[1])
    [] f.kind = "CALL"   -> f.ret
    [] OTHER             -> "BOOL"

TypedOperand(vs, o) == o.kind = "VALUE" => o.type = vs[o.id].type

TypedArgs(vs, args) == \A j \in DOMAIN args : TypedOperand(vs, args[j])

TypedAll(h, vs, s) ==
  \A n \in AllName :
    s[n] # Invalid => n \in Name /\ vs[s[n]].type = TypeFor(h, n)

\* What CodeIsTyped says of an instruction; the destination is typed too.
InstrTyped(h, vs, instr) ==
  /\ TypedOperand(vs, instr.dest) /\ TypedArgs(vs, instr.args)
  /\ instr.op \in {"PHI", "COPY", "ARITH", "NOT"} =>
       ArgsHaveType(instr, instr.dest.type)
  /\ instr.op = "CMP" => /\ instr.dest.type = "BOOL"
                         /\ DOMAIN instr.args = {1, 2}
                         /\ instr.args[1].type = instr.args[2].type
  /\ instr.op = "CBR" => ArgsHaveType(instr, "BOOL")
  /\ instr.op = "RET" /\ h.ret # "VOID" => ArgsHaveType(instr, h.ret)

CodeTyped(h, vs, bs) == \A pos \in Positions(bs) : InstrTyped(h, vs, At(bs, pos))

\* What an activation has received fits what it waits for, and what it waits
\* for fits what it will compute.
WantsTyped(h, f) ==
  /\ f.kind # "RETURN" =>
       \A j \in DOMAIN f.wants : f.wants[j] # "TYPE_ERROR"
  /\ f.kind \in {"IFCOND", "WHILECOND", "NOT", "LEFT", "RIGHT"} =>
       f.wants = <<"BOOL">>
  /\ f.kind = "BINARY" => f.wants[1] = f.wants[2]
  /\ f.kind = "ASSIGN" => /\ f.wants = <<f.dest.type>>
                          /\ f.dest.type = TypeFor(h, f.name)

FrameTyped(h, vs, f) ==
  /\ f.kind \in ExprKind =>
       /\ WantsTyped(h, f) /\ TypedArgs(vs, f.args)
       /\ \A j \in DOMAIN f.args : Fits(f.args[j].type, f.wants[j])
  /\ f.kind = "ASSIGN" => TypedOperand(vs, f.dest)
  /\ f.kind \in SnapshotKind => TypedAll(h, vs, f.incoming)
  /\ f.kind \in {"ELSE", "NOELSE", "MERGE"} => TypedAll(h, vs, f.then.bound)
  /\ f.kind = "MERGE" => TypedAll(h, vs, f.else.bound)
  /\ f.kind = "LOOP" => TypedAll(h, vs, f.bound)

\* The operand that activation i computes is what its caller waits for.
Delivers(c, i) ==
  i > 1 /\ c[i].kind \in OperandKind \cup {"CALL"}
        /\ c[i - 1].kind \in ExprKind =>
    Fits(ResultOf(c[i]), c[i - 1].wants[Len(c[i - 1].args) + 1])

DeclTyped == \A n \in Name : Visible(n) => decl[n].type = TypeFor(fn, n)

LoweringTyped ==
  \A i \in DOMAIN ctrl : FrameTyped(fn, values, ctrl[i]) /\ Delivers(ctrl, i)

Typed ==
  /\ DeclTyped /\ CodeTyped(fn, values, blocks)
  /\ TypedAll(fn, values, bindings)
  /\ status = "lowering" => LoweringTyped

TypedInv == OneTypePerName => Typed

-----------------------------------------------------------------------------
(***************************************************************************)
(* New values leave the old ones typed.                                    *)
(***************************************************************************)

LEMMA OperandFields ==
  ASSUME NEW n \in Nat, NEW o \in Operand(n)
  PROVE  o.kind = "VALUE" => o.id \in 1 .. n
BY DEF Operand, ValueOperand

LEMMA InstrFields ==
  ASSUME NEW n \in Nat, NEW m \in Nat, NEW instr \in Instr(n, m)
  PROVE  /\ instr.dest \in Operand(n) /\ instr.args \in Seq(Operand(n))
         /\ instr.op = "PHI" => instr.dest \in ValueOperand(n)
BY DEF Instr, Operand

\* The snapshots of an activation.
LEMMA FrameSnapshots ==
  ASSUME TypeOK, NEW f \in StackFrame
  PROVE  /\ f.kind \in SnapshotKind => f.incoming \in Snapshot(Len(values))
         /\ f.kind \in {"ELSE", "NOELSE", "MERGE"} =>
              f.then.bound \in Snapshot(Len(values))
         /\ f.kind = "MERGE" => f.else.bound \in Snapshot(Len(values))
         /\ f.kind = "LOOP" => f.bound \in Snapshot(Len(values))
<1>1. Len(values) \in Nat /\ Len(blocks) \in Nat /\ Len(names) \in Nat
  BY StackFrames
<1>2. f \in Frame(Len(values), Len(blocks), Len(names))
  BY DEF StackFrame
<1>3. /\ f.kind = "WHILECOND" => f \in WhileFrame(Len(values), Len(blocks))
      /\ f.kind = "THEN" =>
           f \in ThenFrame(Len(values), Len(blocks), Len(names))
      /\ f.kind \in {"ELSE", "NOELSE"} =>
           f \in ElseFrame(Len(values), Len(blocks), Len(names))
      /\ f.kind = "MERGE" =>
           f \in MergeFrame(Len(values), Len(blocks), Len(names))
      /\ f.kind = "HEADER" =>
           f \in HeaderFrame(Len(values), Len(blocks), Len(names))
      /\ f.kind = "LOOP" => f \in LoopFrame(Len(values), Len(blocks))
  BY <1>1, <1>2, FrameByKind
<1>4. f.kind \in SnapshotKind => f.incoming \in Snapshot(Len(values))
  BY <1>3 DEF SnapshotKind, WhileFrame, ThenFrame, ElseFrame, MergeFrame,
              HeaderFrame, LoopFrame
<1>5. f.kind \in {"ELSE", "NOELSE", "MERGE"} =>
        f.then \in BranchEnd(Len(values), Len(blocks))
  BY <1>3 DEF ElseFrame, MergeFrame
<1>6. f.kind = "MERGE" => f.else \in BranchEnd(Len(values), Len(blocks))
  BY <1>3 DEF MergeFrame
<1>7. f.kind = "LOOP" => f.bound \in Snapshot(Len(values))
  BY <1>3 DEF LoopFrame
<1> QED
  BY <1>4, <1>5, <1>6, <1>7 DEF BranchEnd

LEMMA FrameOperands ==
  ASSUME TypeOK, NEW f \in StackFrame
  PROVE  /\ f.kind \in ExprKind => f.args \in Seq(Operand(Len(values)))
         /\ f.kind = "ASSIGN" => /\ f.dest \in ValueOperand(Len(values))
                                 /\ f.name \in Name
<1>1. Len(values) \in Nat /\ Len(blocks) \in Nat /\ Len(names) \in Nat
  BY StackFrames
<1>2. f \in Frame(Len(values), Len(blocks), Len(names))
  BY DEF StackFrame
<1>3. /\ f.kind = "ASSIGN" => f \in AssignFrame(Len(values))
      /\ f.kind \in {"RETURN", "IFCOND"} => f \in ValueFrame(Len(values))
      /\ f.kind = "WHILECOND" => f \in WhileFrame(Len(values), Len(blocks))
      /\ f.kind = "BINARY" => f \in BinaryFrame(Len(values))
      /\ f.kind = "NOT" => f \in NotFrame(Len(values))
      /\ f.kind = "CALL" => f \in CallFrame(Len(values))
      /\ f.kind = "LEFT" => f \in LeftFrame(Len(values))
      /\ f.kind = "RIGHT" => f \in RightFrame(Len(values), Len(blocks))
  BY <1>1, <1>2, FrameByKind
<1>4. f.kind = "ASSIGN" => /\ f.dest \in ValueOperand(Len(values))
                           /\ f.name \in Name
  BY <1>3 DEF AssignFrame
<1>5. f.kind \in ExprKind => f.args \in Seq(Operand(Len(values)))
  BY <1>3 DEF ExprKind, AssignFrame, ValueFrame, WhileFrame, BinaryFrame,
              NotFrame, CallFrame, LeftFrame, RightFrame
<1> QED
  BY <1>4, <1>5

LEMMA TypedGrows ==
  ASSUME TypeOK, ValuesKept, NEW h
  PROVE  /\ \A o \in Operand(Len(values)) :
              TypedOperand(values, o) => TypedOperand(values', o)
         /\ \A args \in Seq(Operand(Len(values))) :
              TypedArgs(values, args) => TypedArgs(values', args)
         /\ \A s \in Snapshot(Len(values)) :
              TypedAll(h, values, s) => TypedAll(h, values', s)
         /\ \A f \in StackFrame :
              FrameTyped(h, values, f) => FrameTyped(h, values', f)
         /\ \A instr \in Instr(Len(values), Len(blocks)) :
              InstrTyped(h, values, instr) => InstrTyped(h, values', instr)
<1>1. /\ Len(values) \in Nat /\ Len(blocks) \in Nat
      /\ \A id \in 1 .. Len(values) : values'[id] = values[id]
  BY StackFrames DEF ValuesKept
<1>2. \A o \in Operand(Len(values)) :
        TypedOperand(values, o) => TypedOperand(values', o)
  BY <1>1, OperandFields DEF TypedOperand
<1>3. ASSUME NEW args \in Seq(Operand(Len(values))), TypedArgs(values, args)
      PROVE  TypedArgs(values', args)
  <2>1. \A j \in DOMAIN args : args[j] \in Operand(Len(values))
    BY <1>3
  <2> QED
    BY <1>2, <1>3, <2>1 DEF TypedArgs
<1>4. ASSUME NEW s \in Snapshot(Len(values)), TypedAll(h, values, s)
      PROVE  TypedAll(h, values', s)
  <2>1. \A n \in AllName : s[n] # Invalid => s[n] \in 1 .. Len(values)
    BY <1>1 DEF Snapshot, Invalid
  <2> QED
    BY <1>1, <1>4, <2>1 DEF TypedAll
<1>5. ASSUME NEW f \in StackFrame, FrameTyped(h, values, f)
      PROVE  FrameTyped(h, values', f)
  <2>1. /\ f.kind \in SnapshotKind => f.incoming \in Snapshot(Len(values))
        /\ f.kind \in {"ELSE", "NOELSE", "MERGE"} =>
             f.then.bound \in Snapshot(Len(values))
        /\ f.kind = "MERGE" => f.else.bound \in Snapshot(Len(values))
        /\ f.kind = "LOOP" => f.bound \in Snapshot(Len(values))
    BY FrameSnapshots
  <2>2. /\ f.kind \in ExprKind => f.args \in Seq(Operand(Len(values)))
        /\ f.kind = "ASSIGN" => f.dest \in Operand(Len(values))
    BY FrameOperands DEF Operand
  <2>3. f.kind \in ExprKind => TypedArgs(values', f.args)
    BY <1>3, <1>5, <2>2 DEF FrameTyped
  <2>4. f.kind = "ASSIGN" => TypedOperand(values', f.dest)
    BY <1>2, <1>5, <2>2 DEF FrameTyped
  <2>5. /\ f.kind \in SnapshotKind => TypedAll(h, values', f.incoming)
        /\ f.kind \in {"ELSE", "NOELSE", "MERGE"} =>
             TypedAll(h, values', f.then.bound)
        /\ f.kind = "MERGE" => TypedAll(h, values', f.else.bound)
        /\ f.kind = "LOOP" => TypedAll(h, values', f.bound)
    BY <1>4, <1>5, <2>1 DEF FrameTyped
  <2> QED
    BY <1>5, <2>3, <2>4, <2>5 DEF FrameTyped
<1>6. ASSUME NEW instr \in Instr(Len(values), Len(blocks)),
             InstrTyped(h, values, instr)
      PROVE  InstrTyped(h, values', instr)
  <2>1. /\ instr.dest \in Operand(Len(values))
        /\ instr.args \in Seq(Operand(Len(values)))
    BY <1>1, InstrFields
  <2>2. TypedOperand(values', instr.dest) /\ TypedArgs(values', instr.args)
    BY <1>2, <1>3, <1>6, <2>1 DEF InstrTyped
  <2> QED
    BY <1>6, <2>2 DEF InstrTyped
<1> QED
  BY <1>2, <1>3, <1>4, <1>5, <1>6

\* The instructions are instructions.
LEMMA CodeAt ==
  ASSUME TypeOK, NEW p \in Positions(blocks)
  PROVE  At(blocks, p) \in Instr(Len(values), Len(blocks))
<1>1. PICK b, i : p = <<b, i>>
  BY PositionPairs
<1>2. DOMAIN blocks = 1 .. Len(blocks) /\ Len(values) \in Nat
      /\ Len(blocks) \in Nat /\ blocks \in Seq(Block(Len(values), Len(blocks)))
  BY StackFrames
<1>3. b \in 1 .. Len(blocks) /\ i \in DOMAIN blocks[b].code
  BY <1>1, <1>2, PositionsOf
<1>4. blocks[b].code \in Seq(Instr(Len(values), Len(blocks)))
  BY <1>2, <1>3, BlockFields
<1>5. blocks[b].code[i] \in Instr(Len(values), Len(blocks))
  BY <1>3, <1>4
<1> QED
  BY <1>1, <1>5 DEF At

LEMMA CodeTypedKept ==
  ASSUME TypeOK, ValuesKept, NEW h, CodeTyped(h, values, blocks)
  PROVE  CodeTyped(h, values', blocks)
BY CodeAt, TypedGrows DEF CodeTyped

LEMMA CodeTypedSame ==
  ASSUME NEW h, NEW vs, NEW bs, NEW new, CodeTyped(h, vs, bs),
         SameSites(bs, new)
  PROVE  CodeTyped(h, vs, new)
BY DEF CodeTyped, SameSites

LEMMA CodeTypedAdded ==
  ASSUME NEW h, NEW vs, NEW bs, NEW new, NEW instr, CodeTyped(h, vs, bs),
         SiteAdded(bs, new, instr), InstrTyped(h, vs, instr)
  PROVE  CodeTyped(h, vs, new)
BY DEF CodeTyped, SiteAdded

-----------------------------------------------------------------------------
(***************************************************************************)
(* A step that types what it changes.                                      *)
(***************************************************************************)

TypedStep ==
  /\ status = "lowering" /\ status' = "lowering" /\ fn' = fn
  /\ ValuesKept /\ StackBelow /\ DeclTyped'
  /\ CodeTyped(fn, values', blocks')
  /\ TypedAll(fn, values', bindings')
  /\ FrameTyped(fn, values', LastFrame)
  /\ Delivers(ctrl', Len(ctrl'))

LEMMA TypedKept ==
  ASSUME TypeOK, TypeOK', Typed, TypedStep
  PROVE  Typed'
<1>1. /\ DOMAIN ctrl = 1 .. Len(ctrl) /\ Len(ctrl) \in Nat
      /\ \A i \in 1 .. Len(ctrl) : ctrl[i] \in StackFrame
  BY StackFrames
<1>2. DOMAIN ctrl' = 1 .. Len(ctrl') /\ Len(ctrl') \in Nat
  BY DEF TypeOK, StackType
<1>3. LoweringTyped /\ ValuesKept /\ fn' = fn
  BY DEF Typed, TypedStep
<1>4. ASSUME NEW i \in 1 .. Len(ctrl') - 1
      PROVE  FrameTyped(fn, values', ctrl'[i]) /\ Delivers(ctrl', i)
  <2>1. i \in 1 .. Len(ctrl) /\ ctrl'[i] = ctrl[i]
    BY <1>1, <1>2 DEF TypedStep, StackBelow
  <2>2. FrameTyped(fn, values, ctrl[i]) /\ Delivers(ctrl, i)
    BY <1>1, <1>3, <2>1 DEF LoweringTyped
  <2>3. FrameTyped(fn, values', ctrl[i])
    BY <1>1, <1>3, <2>1, <2>2, TypedGrows
  <2>4. i > 1 => ctrl'[i - 1] = ctrl[i - 1]
    <3>1. i > 1 => i - 1 \in 1 .. Len(ctrl') - 1
      BY <1>2
    <3> QED
      BY <3>1 DEF TypedStep, StackBelow
  <2> QED
    BY <2>1, <2>2, <2>3, <2>4 DEF Delivers
<1>5. \A i \in DOMAIN ctrl' :
        FrameTyped(fn, values', ctrl'[i]) /\ Delivers(ctrl', i)
  <2>1. \A l \in Nat : \A i \in 1 .. l : i \in 1 .. l - 1 \/ i = l
    OBVIOUS
  <2> QED
    BY <1>2, <1>4, <2>1 DEF TypedStep, LastFrame
<1>6. LoweringTyped'
  BY <1>3, <1>5 DEF LoweringTyped, TypedStep
<1> QED
  BY <1>3, <1>6 DEF Typed, TypedStep

\* Nothing typed changes.
LEMMA StoppedTyped ==
  ASSUME Typed, status' # "lowering",
         UNCHANGED <<fn, semVars, values, bindings, blocks>>
  PROVE  Typed'
BY DEF Typed, DeclTyped, Visible, semVars

LEMMA FailTyped ==
  ASSUME Typed, NEW e \in Error, Fail(e)
  PROVE  Typed'
<1>1. status' # "lowering"
  BY DEF Fail, Error, UnboundAssignment, AssignmentTypes, NoValue, AfterReturn,
         NoReturn, ReturnType, OperandTypes, ArgumentTypes, WhileType
<1>2. UNCHANGED <<fn, semVars, values, bindings, blocks>>
  BY DEF Fail, irVars, nameVars, valueVars
<1> QED
  BY <1>1, <1>2, StoppedTyped

\* The parts of the invariant that a step of the lowering starts from.
LEMMA InTyped ==
  ASSUME TypeOK, Typed, SingleInv, FlowInv, status = "lowering"
  PROVE  /\ DeclTyped /\ CodeTyped(fn, values, blocks)
         /\ TypedAll(fn, values, bindings)
         /\ \A i \in 1 .. Len(ctrl) :
              /\ FrameTyped(fn, values, ctrl[i]) /\ Delivers(ctrl, i)
              /\ TargetFits(ctrl, i) /\ ArgsFit(ctrl, i)
         /\ FrameTyped(fn, values, Top) /\ Delivers(ctrl, Len(ctrl))
         /\ TargetFits(ctrl, Len(ctrl))
         /\ Top = ctrl[Len(ctrl)] /\ Len(ctrl) \in 1 .. Len(ctrl)
         /\ Top \in StackFrame
<1>1. /\ DOMAIN ctrl = 1 .. Len(ctrl) /\ Top = ctrl[Len(ctrl)]
      /\ Top \in StackFrame /\ Len(ctrl) \in 1 .. Len(ctrl)
  BY StackFrames
<1>2. \A i \in 1 .. Len(ctrl) : TargetFits(ctrl, i) /\ ArgsFit(ctrl, i)
  BY InSingle DEF FrameFits
<1> QED
  BY <1>1, <1>2 DEF Typed, LoweringTyped

LEMMA SameDecl ==
  ASSUME DeclTyped, UNCHANGED <<fn, semVars>>
  PROVE  DeclTyped'
BY DEF DeclTyped, semVars, Visible

\* Of a name that is bound, the value has the type of the name.
LEMMA BoundTyped ==
  ASSUME TypeOK, NEW h, NEW s \in Snapshot(Len(values)),
         TypedAll(h, values, s), NEW n \in AllName, s[n] # Invalid
  PROVE  /\ n \in Name /\ s[n] \in 1 .. Len(values)
         /\ ValueOf(s[n]).type = TypeFor(h, n)
         /\ ValueOf(s[n]).kind = "VALUE" /\ ValueOf(s[n]).id = s[n]
         /\ TypedOperand(values, ValueOf(s[n]))
<1>1. s[n] \in 1 .. Len(values)
  BY StackFrames DEF Snapshot, Invalid
<1>2. n \in Name /\ values[s[n]].type = TypeFor(h, n)
  BY DEF TypedAll
<1> QED
  BY <1>1, <1>2 DEF ValueOf, ValueOp, TypedOperand

\* emit_expression is at a leaf: the innermost activation receives it.
LEMMA ReceiveTyped ==
  ASSUME TypeOK, Typed, SingleInv, FlowInv, status = "lowering",
         NEW i \in 1 .. Len(ctrl), ctrl[i].kind \in ExprKind, NEW g,
         Alike(ctrl[i], g), NEW o, g.args = Append(ctrl[i].args, o),
         TypedOperand(values', o), ValuesKept,
         Fits(o.type, ctrl[i].wants[Len(ctrl[i].args) + 1])
  PROVE  FrameTyped(fn, values', g)
<1>1. /\ FrameTyped(fn, values, ctrl[i]) /\ ctrl[i] \in StackFrame
      /\ ctrl[i].args \in Seq(Operand(Len(values)))
  BY InTyped, StackFrames, FrameOperands
<1>2. FrameTyped(fn, values', ctrl[i])
  BY <1>1, TypedGrows
<1>3. /\ g.kind = ctrl[i].kind /\ g.wants = ctrl[i].wants
      /\ g.kind = "ASSIGN" => g.name = ctrl[i].name /\ g.dest = ctrl[i].dest
      /\ g.kind = "WHILECOND" => g.incoming = ctrl[i].incoming
  BY DEF Alike
<1>4. \A j \in DOMAIN g.args :
        \/ j \in DOMAIN ctrl[i].args /\ g.args[j] = ctrl[i].args[j]
        \/ j = Len(ctrl[i].args) + 1 /\ g.args[j] = o
  BY <1>1, AppendParts
<1>5. /\ TypedArgs(values', g.args)
      /\ \A j \in DOMAIN g.args : Fits(g.args[j].type, g.wants[j])
  BY <1>2, <1>3, <1>4 DEF FrameTyped, TypedArgs
<1>6. WantsTyped(fn, g)
  BY <1>2, <1>3 DEF FrameTyped, WantsTyped
<1>7. g.kind \in SnapshotKind => g.kind = "WHILECOND"
  BY <1>3 DEF ExprKind, SnapshotKind
<1> QED
  BY <1>2, <1>3, <1>5, <1>6, <1>7 DEF FrameTyped, ExprKind, SnapshotKind

LEMMA DeliversKept ==
  ASSUME NEW c, NEW d, NEW i, Delivers(c, i), Alike(c[i], d[i]),
         i > 1 => d[i - 1] = c[i - 1]
  PROVE  Delivers(d, i)
<1>1. /\ d[i].kind = c[i].kind
      /\ c[i].kind \in OperandKind \cup {"CALL"} =>
           ResultOf(d[i]) = ResultOf(c[i])
  BY DEF Alike, ResultOf, OperandKind, ExprKind
<1> QED
  BY <1>1 DEF Delivers

LEMMA NewValueTypes ==
  ASSUME TypeOK, NEW n, NEW t, NewValue(n, t)
  PROVE  ValuesKept /\ values'[NextId].type = t
<1>1. ValuesKept
  BY NewValueKeeps
<1>2. values \in Values
  BY DEF TypeOK, NamesType
<1> DEFINE v == [name |-> n, version |-> nextVersion[n], type |-> t]
<1>3. values' = Append(values, v) /\ v.type = t
  BY DEF NewValue
<1> HIDE DEF v
<1>4. values'[Len(values) + 1] = v
  BY <1>2, <1>3, AppendParts DEF Values
<1> QED
  BY <1>1, <1>3, <1>4 DEF NextId

\* The type of what an operator returns.
LEMMA ResultTyped ==
  ASSUME TypeOK, Typed, SingleInv, FlowInv, status = "lowering", IsOperand,
         NEW t, t = ResultOf(Top), NewResult(Top.target, t),
         NEW o, o = Result(Top.target, t)
  PROVE  ValuesKept /\ o.type = t /\ TypedOperand(values', o)
<1>1. ValuesKept
  BY NewResultKeeps
<1>2. CASE Top.target = NoOperand
  <2>1. NewValue(Tmp, t) /\ o = ValueOp(NextId, t)
    BY <1>2 DEF NewResult, Result
  <2>2. values'[NextId].type = t
    BY <2>1, NewValueTypes
  <2> QED
    BY <1>1, <2>1, <2>2 DEF ValueOp, TypedOperand
<1>3. CASE Top.target # NoOperand
  <2>1. UNCHANGED values /\ o = Top.target
    BY <1>3 DEF NewResult, Result, valueVars
  <2>2. /\ Top = ctrl[Len(ctrl)] /\ TargetFits(ctrl, Len(ctrl))
        /\ Delivers(ctrl, Len(ctrl)) /\ Top.kind \in OperandKind \cup {"CALL"}
    BY InTyped DEF IsOperand
  <2>3. /\ Len(ctrl) > 1 /\ Caller.kind = "ASSIGN" /\ Caller.args = << >>
        /\ o = Caller.dest
    BY <1>3, <2>1, <2>2 DEF TargetFits, Caller
  <2>4. Len(ctrl) - 1 \in 1 .. Len(ctrl)
    BY <2>3, StackFrames
  <2>5. FrameTyped(fn, values, Caller)
    BY <2>4, InTyped DEF Caller
  <2>6. /\ Caller.wants = <<Caller.dest.type>> /\ TypedOperand(values, o)
        /\ \A j \in DOMAIN Caller.wants : Caller.wants[j] # "TYPE_ERROR"
    BY <2>3, <2>5 DEF FrameTyped, WantsTyped, ExprKind
  <2>7. Caller.wants[1] = o.type /\ Caller.wants[1] # "TYPE_ERROR"
    BY <2>3, <2>6
  <2>8. Fits(t, Caller.wants[Len(Caller.args) + 1])
    BY <2>2, <2>3 DEF Delivers, Caller, ExprKind
  <2>9. Caller.wants[Len(Caller.args) + 1] = Caller.wants[1]
    <3>1. Len(Caller.args) = 0
      BY <2>3
    <3> QED
      BY <3>1
  <2> QED
    BY <1>1, <2>1, <2>6, <2>7, <2>8, <2>9 DEF Fits
<1> QED
  BY <1>2, <1>3

LEMMA OperandTyped ==
  ASSUME TypeOK, TypeOK', Typed, SingleInv, FlowInv, status = "lowering",
         IsOperand, NEW o, Return(o), o.type = ResultOf(Top),
         TypedOperand(values', o), ValuesKept,
         CodeTyped(fn, values', blocks'),
         UNCHANGED <<fn, status, bindings, semVars>>
  PROVE  Typed'
<1> DEFINE i == Len(ctrl) - 1
<1>1. /\ Caller.kind \in ExprKind /\ Top.kind # "FBODY" /\ Len(ctrl) >= 2
      /\ i \in Nat
  BY OperandCaller DEF IsOperand, Caller
<1>2. Len(ctrl) \in Nat /\ i \in 1 .. Len(ctrl)
  BY <1>1, StackFrames
<1>3. /\ Keeps(i) /\ Len(ctrl') = i
      /\ \A j \in 1 .. i - 1 : ctrl'[j] = ctrl[j]
      /\ ctrl'[i].args = Append(ctrl[i].args, o)
  BY <1>1, <1>2, ReturnShape DEF Caller
<1>4. /\ DeclTyped /\ TypedAll(fn, values, bindings)
      /\ Top = ctrl[Len(ctrl)] /\ Delivers(ctrl, Len(ctrl))
      /\ Delivers(ctrl, i)
  BY <1>2, InTyped
<1>5. Fits(o.type, ctrl[i].wants[Len(ctrl[i].args) + 1])
  BY <1>1, <1>4 DEF Delivers, Caller, IsOperand
<1> HIDE DEF i
<1>6. Alike(ctrl[i], ctrl'[i])
  BY <1>2, <1>3 DEF Keeps
<1>7. FrameTyped(fn, values', ctrl'[i])
  BY <1>1, <1>2, <1>3, <1>5, <1>6, ReceiveTyped DEF Caller, i
<1>8. Delivers(ctrl', i)
  <2>1. i > 1 => ctrl'[i - 1] = ctrl[i - 1]
    BY <1>2, <1>3
  <2> QED
    BY <1>4, <1>6, <2>1, DeliversKept
<1>9. TypedAll(fn, values', bindings')
  BY <1>4, TypedGrows DEF TypeOK, NamesType
<1>10. DeclTyped'
  BY <1>4, SameDecl
<1>11. StackBelow
  BY <1>2, <1>3 DEF StackBelow, i
<1>12. TypedStep
  BY <1>3, <1>7, <1>8, <1>9, <1>10, <1>11 DEF TypedStep, LastFrame
<1> QED
  BY <1>12, TypedKept

\* An operator with these operands yields an instruction with the result t.
Yields(op, args, t) ==
  /\ op \in {"ARITH", "NOT"} => \A j \in DOMAIN args : args[j].type = t
  /\ op = "CMP" => /\ t = "BOOL" /\ args[1].type = args[2].type
                   /\ DOMAIN args = {1, 2}
  /\ op \in {"ARITH", "NOT", "CMP", "CALL"}

LEMMA ComputeTyped ==
  ASSUME TypeOK, TypeOK', Typed, SingleInv, FlowInv, status = "lowering",
         IsOperand, NEW t, t = ResultOf(Top), NewResult(Top.target, t),
         NEW o, o = Result(Top.target, t), NEW op, Yields(op, Top.args, t),
         blocks' = Emit(blocks, cur, Instruction(op, o, Top.args)),
         Return(o), UNCHANGED <<fn, status, bindings, semVars>>
  PROVE  Typed'
<1> DEFINE instr == Instruction(op, o, Top.args)
<1>1. /\ Top.kind \in ExprKind /\ Top \in StackFrame
      /\ FrameTyped(fn, values, Top) /\ CodeTyped(fn, values, blocks)
  BY InTyped DEF IsOperand, OperandKind, ExprKind
<1>2. ValuesKept /\ o.type = t /\ TypedOperand(values', o)
  BY ResultTyped
<1>3. TypedArgs(values', Top.args)
  BY <1>1, <1>2, FrameOperands, TypedGrows DEF FrameTyped
<1>4. instr.op = op /\ instr.dest = o /\ instr.args = Top.args
  BY DEF Instruction
<1> HIDE DEF instr
<1>5. InstrTyped(fn, values', instr)
  BY <1>2, <1>3, <1>4 DEF InstrTyped, Yields, ArgsHaveType
<1>6. SiteAdded(blocks, blocks', instr)
  BY EmitAdds, StackFrames DEF instr
<1>7. CodeTyped(fn, values', blocks')
  BY <1>1, <1>2, <1>5, <1>6, CodeTypedKept, CodeTypedAdded
<1> QED
  BY <1>2, <1>7, OperandTyped

-----------------------------------------------------------------------------
(***************************************************************************)
(* emit_expression                                                         *)
(***************************************************************************)

LEMMA DeclaredType ==
  ASSUME OneTypePerName, NEW n \in Name
  PROVE  \E t \in ValType : DeclTypes[n] = {t}
<1>1. DeclTypes[n] \subseteq ValType
  BY DeclTypesAssumption
<1>2. IsFiniteSet(ValType)
  <2>1. \A a, b, c, d, e : IsFiniteSet({a, b, c, d, e})
    <3> SUFFICES ASSUME NEW a, NEW b, NEW c, NEW d, NEW e
                 PROVE  IsFiniteSet({a, b, c, d, e})
      OBVIOUS
    <3>1. IsFiniteSet({a})
      BY FS_Singleton
    <3>2. IsFiniteSet({a} \cup {b})
      BY <3>1, FS_AddElement
    <3>3. IsFiniteSet({a} \cup {b} \cup {c})
      BY <3>2, FS_AddElement
    <3>4. IsFiniteSet({a} \cup {b} \cup {c} \cup {d})
      BY <3>3, FS_AddElement
    <3>5. IsFiniteSet({a} \cup {b} \cup {c} \cup {d} \cup {e})
      BY <3>4, FS_AddElement
    <3>6. {a} \cup {b} \cup {c} \cup {d} \cup {e} = {a, b, c, d, e}
      OBVIOUS
    <3> QED
      BY <3>5, <3>6
  <2> QED
    BY <2>1 DEF ValType
<1>3. IsFiniteSet(DeclTypes[n]) /\ Cardinality(DeclTypes[n]) = 1
  BY <1>1, <1>2, FS_Subset DEF OneTypePerName
<1>4. \E t : DeclTypes[n] = {t}
  BY <1>3, FS_Singleton
<1> QED
  BY <1>1, <1>4

LEMMA HeaderType ==
  ASSUME TypeOK, NEW n \in Name, Fixed(fn, n)
  PROVE  InitialDecl(fn)[n].type \in ValType
<1>1. fn.params \in Seq(Param)
  BY HeadersAssumption DEF TypeOK, RestType
<1>2. CASE n \in ParamNames(fn)
  <2>1. ParamIndex(fn, n) \in DOMAIN fn.params
    BY <1>2 DEF ParamNames, ParamIndex
  <2>2. fn.params[ParamIndex(fn, n)] \in Param
    BY <1>1, <2>1
  <2> QED
    BY <1>2, <2>2, InitialDeclParts DEF Param
<1>3. CASE n \notin ParamNames(fn) /\ \E g \in Globals : g.name = n
  <2> DEFINE g == CHOOSE g \in Globals : g.name = n
  <2>1. g \in Globals
    BY <1>3
  <2>2. g.type \in ValType
    BY <2>1, GlobalsAssumption DEF Param
  <2>3. InitialDecl(fn)[n] = [type |-> g.type, init |-> TRUE]
    BY <1>3 DEF InitialDecl
  <2> HIDE DEF g
  <2> QED
    BY <2>2, <2>3
<1>4. CASE n \notin ParamNames(fn) /\ ~\E g \in Globals : g.name = n
  <2>1. InitialDecl(fn)[n] = Undeclared
    BY <1>4 DEF InitialDecl
  <2> QED
    BY <2>1 DEF Fixed
<1> QED
  BY <1>2, <1>3, <1>4

\* Every name has one type, and it is the type of a value.
LEMMA TypeForType ==
  ASSUME TypeOK, OneTypePerName, NEW n \in Name
  PROVE  /\ TypeFor(fn, n) \in ValType
         /\ ~Fixed(fn, n) => \A t \in DeclTypes[n] : t = TypeFor(fn, n)
<1>1. PICK t \in ValType : DeclTypes[n] = {t}
  BY DeclaredType
<1>2. ~Fixed(fn, n) => TypeFor(fn, n) = t
  BY <1>1 DEF TypeFor
<1>3. Fixed(fn, n) => TypeFor(fn, n) \in ValType
  BY HeaderType DEF TypeFor
<1> QED
  BY <1>1, <1>2, <1>3

LEMMA LeafTyped ==
  ASSUME TypeOK, TypeOK', Typed, SingleInv, FlowInv, NEW t, Wanting(t),
         t # "TYPE_ERROR", NEW o, Receive(o), o.type = t,
         TypedOperand(values, o),
         UNCHANGED <<runVars, irVars, nameVars, semVars, fuel>>
  PROVE  Typed'
<1> DEFINE i == Len(ctrl)
<1>1. /\ status = "lowering" /\ Top.kind \in ExprKind
      /\ Fits(o.type, Top.wants[Len(Top.args) + 1])
  BY DEF Wanting, MatchType, Fits
<1>2. /\ UNCHANGED <<fn, status, bindings, semVars, blocks, values>>
  BY DEF runVars, irVars, nameVars, valueVars
<1>3. /\ Keeps(i) /\ Len(ctrl') = i
      /\ \A j \in 1 .. i - 1 : ctrl'[j] = ctrl[j]
      /\ Alike(Top, ctrl'[i])
      /\ ctrl'[i].args = Append(Top.args, o)
  BY <1>1, ReceiveShape
<1>4. /\ DeclTyped /\ TypedAll(fn, values, bindings)
      /\ CodeTyped(fn, values, blocks) /\ Delivers(ctrl, i)
      /\ Top = ctrl[i] /\ i \in 1 .. Len(ctrl)
  BY <1>1, InTyped
<1>5. ValuesKept
  BY <1>2, SameValues
<1> HIDE DEF i
<1>6. FrameTyped(fn, values', ctrl'[i])
  BY <1>1, <1>2, <1>3, <1>4, <1>5, ReceiveTyped
<1>7. Delivers(ctrl', i)
  <2>1. i > 1 => ctrl'[i - 1] = ctrl[i - 1]
    BY <1>3, StackFrames DEF i
  <2> QED
    BY <1>3, <1>4, <2>1, DeliversKept
<1>8. DeclTyped'
  BY <1>2, <1>4, SameDecl
<1>9. StackBelow
  BY <1>3, StackFrames DEF StackBelow, i
<1>10. TypedStep
  BY <1>1, <1>2, <1>3, <1>4, <1>5, <1>6, <1>7, <1>8, <1>9
  DEF TypedStep, LastFrame
<1> QED
  BY <1>10, TypedKept

LEMMA LiteralTyped ==
  ASSUME TypeOK, TypeOK', Typed, SingleInv, FlowInv, NEW t \in ValType,
         Literal(t)
  PROVE  Typed'
<1>1. PICK v \in Literals[t] : Receive(LitOp(t, v))
  BY DEF Literal
<1>2. /\ t # "TYPE_ERROR" /\ LitOp(t, v).type = t
      /\ TypedOperand(values, LitOp(t, v))
  BY DEF ValType, LitOp, TypedOperand
<1> QED
  BY <1>1, <1>2, LeafTyped DEF Literal

LEMMA IdentifierTyped ==
  ASSUME TypeOK, TypeOK', Typed, SingleInv, FlowInv, OneTypePerName,
         NEW n \in Name, Identifier(n)
  PROVE  Typed'
<1>1. /\ Visible(n) /\ Wanting(decl[n].type) /\ bindings[n] # Invalid
      /\ Receive(ValueOf(bindings[n])) /\ status = "lowering"
      /\ UNCHANGED <<runVars, irVars, nameVars, semVars, fuel>>
  BY DEF Identifier, Readable, Wanting
<1>2. DeclTyped /\ TypedAll(fn, values, bindings)
  BY <1>1, InTyped
<1>3. decl[n].type = TypeFor(fn, n)
  BY <1>1, <1>2 DEF DeclTyped
<1>4. /\ ValueOf(bindings[n]).type = TypeFor(fn, n)
      /\ TypedOperand(values, ValueOf(bindings[n]))
  BY <1>1, <1>2, BoundTyped DEF TypeOK, NamesType, AllName
<1>5. decl[n].type # "TYPE_ERROR"
  BY <1>3, TypeForType DEF ValType
<1> QED
  BY <1>1, <1>3, <1>4, <1>5, LeafTyped

\* A nested expression or statement starts: nothing received yet.
LEMMA PushTyped ==
  ASSUME TypeOK, TypeOK', Typed, SingleInv, FlowInv, status = "lowering",
         NEW f, Push(f), ValuesKept, DeclTyped',
         CodeTyped(fn, values', blocks'),
         UNCHANGED <<fn, status, bindings>>,
         FrameTyped(fn, values', f),
         f.kind \in OperandKind \cup {"CALL"} /\ Top.kind \in ExprKind =>
           Fits(ResultOf(f), Top.wants[Len(Top.args) + 1])
  PROVE  Typed'
<1> DEFINE l == Len(ctrl)
<1>1. /\ Len(ctrl') = l + 1 /\ l \in Nat /\ l >= 1
      /\ \A i \in 1 .. l : ctrl'[i] = ctrl[i]
      /\ ctrl'[l + 1] = f /\ Top = ctrl[l]
  BY PushShape, StackFrames
<1>2. TypedAll(fn, values, bindings)
  BY InTyped
<1> HIDE DEF l
<1>3. /\ LastFrame = f /\ ctrl'[l + 1 - 1] = Top
  BY <1>1 DEF LastFrame
<1>4. Delivers(ctrl', Len(ctrl'))
  BY <1>1, <1>3 DEF Delivers
<1>5. StackBelow
  BY <1>1 DEF StackBelow, l
<1>6. TypedAll(fn, values', bindings')
  BY <1>2, TypedGrows DEF TypeOK, NamesType
<1>7. TypedStep
  BY <1>3, <1>4, <1>5, <1>6 DEF TypedStep
<1> QED
  BY <1>7, TypedKept

LEMMA BeginExprTyped ==
  ASSUME TypeOK, TypeOK', Typed, SingleInv, FlowInv, NEW t, Wanting(t),
         t # "TYPE_ERROR", NEW f, BeginExpr(f),
         f.kind \in {"BINARY", "NOT", "CALL", "LEFT"}, f.args = << >>,
         ResultOf(f) = t, WantsTyped(fn, f)
  PROVE  Typed'
<1>1. /\ status = "lowering"
      /\ Fits(ResultOf(f), Top.wants[Len(Top.args) + 1])
  BY DEF Wanting, MatchType, Fits
<1>2. /\ UNCHANGED <<fn, status, bindings, semVars, blocks, values>>
      /\ Push(f)
  BY DEF BeginExpr, runVars, irVars, nameVars, valueVars
<1>3. DeclTyped /\ CodeTyped(fn, values, blocks)
  BY <1>1, InTyped
<1>4. ValuesKept /\ DeclTyped'
  BY <1>2, <1>3, SameValues, SameDecl
<1>5. DOMAIN f.args = {}
  OBVIOUS
<1>6. FrameTyped(fn, values', f)
  BY <1>5 DEF FrameTyped, TypedArgs, SnapshotKind
<1> QED
  BY <1>1, <1>2, <1>3, <1>4, <1>6, PushTyped

LEMMA BeginBinaryTyped ==
  ASSUME TypeOK, TypeOK', Typed, SingleInv, FlowInv, NEW op, NEW t \in ValType,
         BeginBinary(op, t)
  PROVE  Typed'
<1> DEFINE f == [kind |-> "BINARY", op |-> op, wants |-> <<t, t>>,
                 args |-> << >>, target |-> Target]
<1>1. /\ Wanting(CheckedType(op, t)) /\ BeginExpr(f)
      /\ CheckedType(op, t) # "TYPE_ERROR"
  BY DEF BeginBinary, CheckedType, ValType
<1>2. /\ f.kind = "BINARY" /\ f.args = << >> /\ f.op = op
      /\ f.wants = <<t, t>> /\ t # "TYPE_ERROR"
  BY DEF ValType
<1> HIDE DEF f
<1>3. f.wants[1] = t /\ f.wants[2] = t /\ DOMAIN f.wants = {1, 2}
  BY <1>2
<1>4. ResultOf(f) = CheckedType(op, t)
  BY <1>2, <1>3 DEF ResultOf
<1>5. WantsTyped(fn, f)
  BY <1>2, <1>3 DEF WantsTyped
<1> QED
  BY <1>1, <1>2, <1>4, <1>5, BeginExprTyped

\* An activation that waits for one bool.
LEMMA WantsBool ==
  ASSUME NEW h, NEW f, f.wants = <<"BOOL">>, f.kind # "BINARY",
         f.kind # "ASSIGN"
  PROVE  WantsTyped(h, f)
<1>1. DOMAIN f.wants = {1} /\ f.wants[1] = "BOOL"
  OBVIOUS
<1> QED
  BY <1>1 DEF WantsTyped

LEMMA BeginNotTyped ==
  ASSUME TypeOK, TypeOK', Typed, SingleInv, FlowInv, BeginNot
  PROVE  Typed'
<1> DEFINE f == [kind |-> "NOT", wants |-> <<"BOOL">>, args |-> << >>,
                 target |-> Target]
<1>1. /\ Wanting("BOOL") /\ BeginExpr(f) /\ f.kind = "NOT"
      /\ f.args = << >> /\ f.wants = <<"BOOL">>
  BY DEF BeginNot
<1> HIDE DEF f
<1>2. ResultOf(f) = "BOOL"
  BY <1>1 DEF ResultOf
<1>3. WantsTyped(fn, f)
  BY <1>1, WantsBool
<1> QED
  BY <1>1, <1>2, <1>3, BeginExprTyped

LEMMA BeginLogicTyped ==
  ASSUME TypeOK, TypeOK', Typed, SingleInv, FlowInv, NEW isOr \in BOOLEAN,
         BeginLogic(isOr)
  PROVE  Typed'
<1> DEFINE f == [kind |-> "LEFT", wants |-> <<"BOOL">>, args |-> << >>,
                 target |-> Target, isOr |-> isOr]
<1>1. /\ Wanting("BOOL") /\ BeginExpr(f) /\ f.kind = "LEFT"
      /\ f.args = << >> /\ f.wants = <<"BOOL">>
  BY DEF BeginLogic
<1> HIDE DEF f
<1>2. ResultOf(f) = "BOOL"
  BY <1>1 DEF ResultOf
<1>3. WantsTyped(fn, f)
  BY <1>1, WantsBool
<1> QED
  BY <1>1, <1>2, <1>3, BeginExprTyped

\* The callees expect values.
LEMMA CallWants ==
  ASSUME NEW g \in Callees, NEW h, NEW f, f.kind = "CALL", f.ret = g.ret,
         f.wants = g.params
  PROVE  WantsTyped(h, f) /\ ResultOf(f) = g.ret /\ g.ret # "TYPE_ERROR"
<1>1. g.ret \in Type \ {"TYPE_ERROR"} /\ g.params \in Seq(ValType)
  BY CalleesAssumption
<1>2. \A j \in DOMAIN f.wants : f.wants[j] # "TYPE_ERROR"
  <2>1. \A j \in DOMAIN g.params : g.params[j] \in ValType
    BY <1>1
  <2> QED
    BY <2>1 DEF ValType
<1>3. WantsTyped(h, f)
  BY <1>2 DEF WantsTyped
<1>4. ResultOf(f) = g.ret
  BY DEF ResultOf
<1> QED
  BY <1>1, <1>3, <1>4

LEMMA BeginCallTyped ==
  ASSUME TypeOK, TypeOK', Typed, SingleInv, FlowInv, NEW g \in Callees,
         BeginCall(g)
  PROVE  Typed'
<1> DEFINE f == [kind |-> "CALL", ret |-> g.ret, wants |-> g.params,
                 args |-> << >>, target |-> Target]
<1>1. /\ Wanting(g.ret) /\ BeginExpr(f) /\ f.kind = "CALL" /\ f.ret = g.ret
      /\ f.wants = g.params /\ f.args = << >>
  BY DEF BeginCall
<1> HIDE DEF f
<1>2. WantsTyped(fn, f) /\ ResultOf(f) = g.ret /\ g.ret # "TYPE_ERROR"
  BY <1>1, CallWants
<1> QED
  BY <1>1, <1>2, BeginExprTyped

\* The operands of an activation that is complete have the types it expects.
LEMMA OperandsTyped ==
  ASSUME TypeOK, Typed, SingleInv, FlowInv, status = "lowering", Complete,
         Top.kind \in ExprKind \ {"RETURN"}
  PROVE  /\ DOMAIN Top.args = DOMAIN Top.wants
         /\ \A j \in DOMAIN Top.args : Top.args[j].type = Top.wants[j]
         /\ Top.kind = "BINARY" => /\ Top.args[1].type = Top.wants[1]
                                   /\ Top.args[2].type = Top.wants[1]
                                   /\ DOMAIN Top.args = {1, 2}
         /\ Top.kind \notin {"BINARY", "CALL"} =>
              /\ Top.args[1].type = Top.wants[1] /\ DOMAIN Top.args = {1}
<1>1. /\ Top = ctrl[Len(ctrl)] /\ Len(ctrl) \in 1 .. Len(ctrl)
      /\ FrameTyped(fn, values, Top)
  BY InTyped
<1>2. /\ Top.args \in Seq(Operand(Len(values))) /\ Len(Top.args) = Len(Top.wants)
      /\ Top.kind = "BINARY" => Len(Top.wants) = 2
      /\ Top.kind \notin {"BINARY", "CALL"} => Len(Top.wants) = 1
  BY <1>1, FrameArgs DEF Complete
<1>3. DOMAIN Top.args = 1 .. Len(Top.args)
  BY <1>2
<1>4. \E S : Top.wants \in Seq(S)
  <2>1. Top \in Frame(Len(values), Len(blocks), Len(names))
        /\ Len(values) \in Nat /\ Len(blocks) \in Nat /\ Len(names) \in Nat
    BY StackFrames DEF StackFrame
  <2>2. /\ Top.kind = "ASSIGN" => Top \in AssignFrame(Len(values))
        /\ Top.kind = "IFCOND" => Top \in ValueFrame(Len(values))
        /\ Top.kind = "WHILECOND" => Top \in WhileFrame(Len(values), Len(blocks))
        /\ Top.kind = "BINARY" => Top \in BinaryFrame(Len(values))
        /\ Top.kind = "NOT" => Top \in NotFrame(Len(values))
        /\ Top.kind = "CALL" => Top \in CallFrame(Len(values))
        /\ Top.kind = "LEFT" => Top \in LeftFrame(Len(values))
        /\ Top.kind = "RIGHT" => Top \in RightFrame(Len(values), Len(blocks))
    BY <2>1, FrameByKind
  <2>3. Top.wants \in OneType \cup TwoTypes \cup Seq(Type)
    BY <2>2 DEF ExprKind, AssignFrame, ValueFrame, WhileFrame, BinaryFrame,
                NotFrame, CallFrame, LeftFrame, RightFrame
  <2>4. \A w \in OneType : w \in Seq(Type)
    <3> SUFFICES ASSUME NEW w \in OneType
                 PROVE  w \in Seq(Type)
      OBVIOUS
    <3>1. PICK t \in Type : w = <<t>>
      BY DEF OneType
    <3> QED
      BY <3>1
  <2>5. \A w \in TwoTypes : w \in Seq(Type)
    <3> SUFFICES ASSUME NEW w \in TwoTypes
                 PROVE  w \in Seq(Type)
      OBVIOUS
    <3>1. PICK t \in Type, u \in Type : w = <<t, u>>
      BY DEF TwoTypes
    <3> QED
      BY <3>1
  <2> QED
    BY <2>3, <2>4, <2>5
<1>5. DOMAIN Top.wants = 1 .. Len(Top.wants)
  BY <1>4
<1>6. \A j \in DOMAIN Top.args : Top.args[j].type = Top.wants[j]
  BY <1>1, <1>2, <1>3, <1>5 DEF FrameTyped, WantsTyped, Fits
<1>7. Top.kind = "BINARY" => Top.wants[2] = Top.wants[1]
  BY <1>1 DEF FrameTyped, WantsTyped, ExprKind
<1>8. /\ Top.kind = "BINARY" => DOMAIN Top.args = {1, 2}
      /\ Top.kind \notin {"BINARY", "CALL"} => DOMAIN Top.args = {1}
  <2>1. 1 .. 2 = {1, 2} /\ 1 .. 1 = {1}
    OBVIOUS
  <2>2. ASSUME Top.kind = "BINARY"
        PROVE  DOMAIN Top.args = {1, 2}
    BY <1>2, <1>3, <2>1, <2>2
  <2>3. ASSUME Top.kind \notin {"BINARY", "CALL"}
        PROVE  DOMAIN Top.args = {1}
    BY <1>2, <1>3, <2>1, <2>3
  <2> QED
    BY <2>2, <2>3
<1> QED
  BY <1>2, <1>3, <1>5, <1>6, <1>7, <1>8

LEMMA FinishBinaryTyped ==
  ASSUME TypeOK, TypeOK', Typed, SingleInv, FlowInv, FinishBinary
  PROVE  Typed'
<1> DEFINE t == ResultType(Top.op, Top.args[1].type)
           o == Result(Top.target, t)
<1>1. /\ Top.kind = "BINARY" /\ status = "lowering" /\ Complete
  BY DEF FinishBinary, Active
<1>2. CASE Fail(OperandTypes)
  BY <1>2, FailTyped DEF Error
<1>3. CASE ~Fail(OperandTypes)
  <2>1. /\ NewResult(Top.target, t)
        /\ blocks' = Emit(blocks, cur, Instruction(Top.op, o, Top.args))
        /\ Return(o) /\ UNCHANGED <<fn, status, bindings, semVars>>
    BY <1>3 DEF FinishBinary, runVars
  <2>2. /\ Top.args[1].type = Top.wants[1] /\ Top.args[2].type = Top.wants[1]
        /\ DOMAIN Top.args = {1, 2}
    BY <1>1, OperandsTyped DEF ExprKind
  <2>3. Top.op \in {"ARITH", "CMP"}
    BY <1>1, StackFrames, FrameByKind DEF BinaryFrame, StackFrame
  <2>4. t = ResultOf(Top)
    BY <1>1, <2>2 DEF ResultOf, ResultType, CheckedType
  <2>5. Yields(Top.op, Top.args, t)
    BY <2>2, <2>3 DEF Yields, ResultType
  <2>6. IsOperand
    BY <1>1 DEF IsOperand, OperandKind
  <2> HIDE DEF t, o
  <2>7. o = Result(Top.target, t)
    BY DEF o
  <2> QED
    BY <1>1, <2>1, <2>4, <2>5, <2>6, <2>7, ComputeTyped
<1> QED
  BY <1>2, <1>3

LEMMA FinishNotTyped ==
  ASSUME TypeOK, TypeOK', Typed, SingleInv, FlowInv, FinishNot
  PROVE  Typed'
<1> DEFINE o == Result(Top.target, "BOOL")
<1>1. /\ Top.kind = "NOT" /\ status = "lowering" /\ Complete
  BY DEF FinishNot, Active
<1>2. CASE Fail(OperandTypes)
  BY <1>2, FailTyped DEF Error
<1>3. CASE ~Fail(OperandTypes)
  <2>1. /\ NewResult(Top.target, "BOOL") /\ Top.args[1].type = "BOOL"
        /\ blocks' = Emit(blocks, cur, Instruction("NOT", o, Top.args))
        /\ Return(o) /\ UNCHANGED <<fn, status, bindings, semVars>>
    BY <1>3 DEF FinishNot, runVars
  <2>2. DOMAIN Top.args = {1}
    BY <1>1, OperandsTyped DEF ExprKind
  <2>3. "BOOL" = ResultOf(Top)
    BY <1>1 DEF ResultOf
  <2>4. Yields("NOT", Top.args, "BOOL")
    BY <2>1, <2>2 DEF Yields
  <2>5. IsOperand
    BY <1>1 DEF IsOperand, OperandKind
  <2> HIDE DEF o
  <2>6. o = Result(Top.target, "BOOL")
    BY DEF o
  <2> QED
    BY <1>1, <2>1, <2>3, <2>4, <2>5, <2>6, ComputeTyped
<1> QED
  BY <1>2, <1>3

\* The innermost activation goes on as another one.
LEMMA ReplaceTyped ==
  ASSUME TypeOK, TypeOK', Typed, SingleInv, FlowInv, status = "lowering",
         NEW f, Replace(f), ValuesKept, DeclTyped',
         CodeTyped(fn, values', blocks'), TypedAll(fn, values', bindings'),
         UNCHANGED <<fn, status>>, FrameTyped(fn, values', f),
         f.kind \in OperandKind \cup {"CALL"} =>
           /\ Top.kind \in OperandKind \cup {"CALL"}
           /\ ResultOf(f) = ResultOf(Top)
  PROVE  Typed'
<1> DEFINE l == Len(ctrl)
<1>1. /\ Len(ctrl') = l /\ l \in Nat /\ l >= 1
      /\ \A i \in 1 .. l - 1 : ctrl'[i] = ctrl[i]
      /\ ctrl'[l] = f /\ Top = ctrl[l]
  BY ReplaceShape, StackFrames
<1>2. Delivers(ctrl, l)
  BY InTyped
<1> HIDE DEF l
<1>3. LastFrame = f
  BY <1>1 DEF LastFrame
<1>4. l > 1 => ctrl'[l - 1] = ctrl[l - 1]
  BY <1>1
<1>5. Delivers(ctrl', Len(ctrl'))
  BY <1>1, <1>2, <1>4 DEF Delivers
<1>6. StackBelow
  BY <1>1 DEF StackBelow, l
<1>7. TypedStep
  BY <1>3, <1>5, <1>6 DEF TypedStep
<1> QED
  BY <1>7, TypedKept

\* The statement list k is, or becomes, the innermost activation.
LEMMA ListTyped ==
  ASSUME TypeOK, TypeOK', Typed, SingleInv, FlowInv, status = "lowering",
         NEW k \in 1 .. Len(ctrl), ctrl[k].kind \in ListKind, Keeps(k),
         Len(ctrl') = k, \A i \in 1 .. k - 1 : ctrl'[i] = ctrl[i],
         ValuesKept, DeclTyped',
         CodeTyped(fn, values', blocks'), TypedAll(fn, values', bindings'),
         UNCHANGED <<fn, status>>
  PROVE  Typed'
<1>1. /\ FrameTyped(fn, values, ctrl[k]) /\ ctrl[k] \in StackFrame
      /\ Len(ctrl) \in Nat /\ LastFrame = ctrl'[k]
  BY InTyped, StackFrames DEF LastFrame
<1>2. FrameTyped(fn, values', ctrl[k])
  BY <1>1, TypedGrows
<1>3. Alike(ctrl[k], ctrl'[k])
  BY DEF Keeps
<1>4. ctrl'[k].kind \in ListKind /\ ctrl'[k].kind = ctrl[k].kind
  BY <1>3 DEF Alike
<1>5. FrameTyped(fn, values', ctrl'[k])
  BY <1>2, <1>3, <1>4 DEF FrameTyped, Alike, ListKind, ExprKind, SnapshotKind
<1>6. Delivers(ctrl', k)
  BY <1>4 DEF Delivers, ListKind, OperandKind
<1>7. StackBelow
  BY <1>1 DEF StackBelow
<1>8. TypedStep
  BY <1>1, <1>5, <1>6, <1>7 DEF TypedStep
<1> QED
  BY <1>8, TypedKept

LEMMA BoolOperand ==
  ASSUME TypeOK, Typed, SingleInv, FlowInv, status = "lowering", Complete,
         Top.kind \in {"IFCOND", "WHILECOND", "NOT", "LEFT", "RIGHT"}
  PROVE  /\ Top.args[1].type = "BOOL" /\ TypedOperand(values, Top.args[1])
         /\ Top.args[1] \in Operand(Len(values))
<1>1. /\ FrameTyped(fn, values, Top) /\ Top.kind \in ExprKind \ {"RETURN"}
      /\ Top.kind \notin {"BINARY", "CALL"}
  BY InTyped DEF ExprKind
<1>2. /\ Top.args[1].type = Top.wants[1] /\ DOMAIN Top.args = {1}
  BY <1>1, OperandsTyped
<1>3. Top.wants = <<"BOOL">>
  BY <1>1 DEF FrameTyped, WantsTyped, ExprKind
<1>4. Top.wants[1] = "BOOL"
  BY <1>3
<1>5. TypedOperand(values, Top.args[1])
  BY <1>1, <1>2 DEF FrameTyped, TypedArgs
<1> QED
  BY <1>1, <1>2, <1>4, <1>5, FirstOperand DEF ExprKind

\* No connective is dropped when the names have one type.
LEMMA DropLogicTyped ==
  ASSUME TypeOK, Typed, SingleInv, FlowInv, DropLogic
  PROVE  FALSE
<1>1. /\ status = "lowering" /\ Complete /\ Top.kind \in {"LEFT", "RIGHT"}
      /\ Top.args[1].type # "BOOL"
  BY DEF DropLogic, Active
<1> QED
  BY <1>1, BoolOperand

\* A conditional branch on a bool is typed.
LEMMA ChoiceTyped ==
  ASSUME NEW h, NEW vs, NEW o, o.type = "BOOL", TypedOperand(vs, o),
         NEW t, NEW e
  PROVE  InstrTyped(h, vs, Choice(o, t, e))
<1> DEFINE instr == Choice(o, t, e)
           args  == <<o>>
<1>1. /\ instr.op = "CBR" /\ instr.dest = NoOperand /\ instr.args = args
      /\ NoOperand.kind = "NONE"
  BY DEF Choice, NoOperand
<1>2. DOMAIN args = {1} /\ args[1] = o
  OBVIOUS
<1> HIDE DEF instr, args
<1>3. InstrTyped(h, vs, instr)
  BY <1>1, <1>2 DEF InstrTyped, TypedArgs, TypedOperand, ArgsHaveType
<1> QED
  BY <1>3 DEF instr

LEMMA JumpTyped ==
  ASSUME NEW h, NEW vs, NEW t
  PROVE  InstrTyped(h, vs, Jump(t))
<1>1. /\ Jump(t).op = "BR" /\ Jump(t).dest = NoOperand
      /\ Jump(t).args = << >> /\ NoOperand.kind = "NONE"
  BY DEF Jump, NoOperand
<1>2. DOMAIN Jump(t).args = {}
  BY <1>1
<1> QED
  BY <1>1, <1>2 DEF InstrTyped, TypedArgs, TypedOperand

LEMMA SplitLogicTyped ==
  ASSUME TypeOK, TypeOK', Typed, SingleInv, FlowInv, SplitLogic
  PROVE  Typed'
<1> DEFINE right == Len(blocks) + 1
           merge == Len(blocks) + 2
           wide  == blocks \o <<NewBlock, NewBlock>>
           o     == Top.args[1]
           t     == IF Top.isOr THEN merge ELSE right
           e     == IF Top.isOr THEN right ELSE merge
           f     == [kind |-> "RIGHT", wants |-> <<"BOOL">>, args |-> << >>,
                     target |-> Top.target, isOr |-> Top.isOr,
                     decision |-> cur, merge |-> merge]
<1>1. /\ blocks' = CondBranch(wide, cur, o, t, e) /\ Replace(f)
      /\ UNCHANGED <<fn, status, values, bindings, semVars>>
      /\ Top.kind = "LEFT" /\ Complete /\ status = "lowering"
  BY DEF SplitLogic, Active, runVars, nameVars, valueVars
<1>2. Opened(wide, merge) /\ Len(blocks) \in Nat
  <2>1. /\ blocks \in Seq(Block(Len(values), Len(blocks)))
        /\ Len(blocks) \in Nat /\ Len(values) \in Nat
    BY StackFrames
  <2>2. wide \in Seq(Block(Len(values), merge)) /\ Len(wide) = merge
    BY <2>1, NewBlocksType
  <2>3. Extends(blocks, wide)
    BY <2>1, ExtendsNew
  <2> QED
    BY <2>1, <2>2, <2>3 DEF Opened
<1>3. t \in 1 .. merge /\ e \in 1 .. merge /\ t # e
  BY <1>2
<1>4. /\ o \in Operand(Len(values)) /\ o.type = "BOOL"
      /\ TypedOperand(values, o)
  BY <1>1, BoolOperand
<1>5. /\ f.kind = "RIGHT" /\ f.args = << >> /\ f.wants = <<"BOOL">>
  OBVIOUS
<1> HIDE DEF wide, o, t, e, f, merge
<1>6. SiteAdded(blocks, blocks', Choice(o, t, e))
  BY <1>1, <1>2, <1>3, <1>4, SplitAdds
<1>7. /\ DeclTyped /\ CodeTyped(fn, values, blocks)
      /\ TypedAll(fn, values, bindings)
  BY <1>1, InTyped
<1>8. CodeTyped(fn, values', blocks')
  <2>1. InstrTyped(fn, values, Choice(o, t, e))
    BY <1>4, ChoiceTyped
  <2> QED
    BY <1>1, <1>6, <1>7, <2>1, CodeTypedAdded
<1>9. FrameTyped(fn, values', f)
  <2>1. DOMAIN f.args = {} /\ WantsTyped(fn, f)
    BY <1>5, WantsBool
  <2> QED
    BY <1>5, <2>1 DEF FrameTyped, TypedArgs, SnapshotKind
<1>10. ResultOf(f) = ResultOf(Top) /\ Top.kind \in OperandKind \cup {"CALL"}
  BY <1>1, <1>5 DEF ResultOf, OperandKind
<1>11. ValuesKept /\ DeclTyped'
  BY <1>1, <1>7, SameValues, SameDecl
<1> QED
  BY <1>1, <1>7, <1>8, <1>9, <1>10, <1>11, ReplaceTyped

\* A phi of two operands of its type.
LEMMA PhiTyped ==
  ASSUME NEW h, NEW vs, NEW r, NEW a, NEW b, NEW blks,
         TypedOperand(vs, r), TypedOperand(vs, a), TypedOperand(vs, b),
         a.type = r.type, b.type = r.type
  PROVE  InstrTyped(h, vs, Phi(r, <<a, b>>, blks))
<1> DEFINE args == <<a, b>>
           phi  == Phi(r, args, blks)
<1>1. phi.op = "PHI" /\ phi.dest = r /\ phi.args = args
  BY DEF Phi
<1>2. DOMAIN args = {1, 2} /\ args[1] = a /\ args[2] = b
  OBVIOUS
<1> HIDE DEF args, phi
<1>3. InstrTyped(h, vs, phi)
  BY <1>1, <1>2 DEF InstrTyped, TypedArgs, ArgsHaveType
<1> QED
  BY <1>3 DEF phi, args

LEMMA FinishLogicTyped ==
  ASSUME TypeOK, TypeOK', Typed, SingleInv, FlowInv, FinishLogic
  PROVE  Typed'
<1> DEFINE r     == Result(Top.target, "BOOL")
           short == LitOp("BOOL", IF Top.isOr THEN 1 ELSE 0)
           o     == Top.args[1]
           t     == Top.merge
           phi   == Phi(r, <<short, o>>, <<Top.decision, cur>>)
           mid   == Branch(blocks, cur, t)
           n     == Len(values')
           m     == Len(blocks)
           new   == blocks'
<1>1. /\ Top.kind = "RIGHT" /\ status = "lowering" /\ Complete
      /\ NewResult(Top.target, "BOOL") /\ new = Emit(mid, t, phi)
      /\ Return(r) /\ UNCHANGED <<fn, status, bindings, semVars>>
  BY DEF FinishLogic, Active, runVars
<1>2. IsOperand /\ ResultOf(Top) = "BOOL"
  BY <1>1 DEF IsOperand, OperandKind, ResultOf
<1>3. t \in 1 .. m
  <2>1. Len(ctrl) \in 1 .. Len(ctrl) /\ Top = ctrl[Len(ctrl)]
    BY StackFrames
  <2> QED
    BY <1>1, <2>1, FrameBlocks
<1>4. /\ short.type = "BOOL" /\ TypedOperand(values', short)
  BY DEF LitOp, TypedOperand
<1>5. /\ o.type = "BOOL" /\ o \in Operand(Len(values))
      /\ TypedOperand(values, o)
  BY <1>1, BoolOperand
<1> HIDE DEF r
<1>6. /\ ValuesKept /\ r.type = "BOOL" /\ TypedOperand(values', r)
  BY <1>1, <1>2, ResultTyped DEF r
<1>7. InstrTyped(fn, values', phi)
  <2>1. TypedOperand(values', o)
    BY <1>5, <1>6, TypedGrows
  <2> HIDE DEF short, o
  <2> QED
    BY <1>4, <1>5, <1>6, <2>1, PhiTyped
<1> HIDE DEF phi
<1>8. /\ cur \in 1 .. m /\ m \in Nat /\ n \in Nat /\ Len(values) <= n
      /\ blocks \in Seq(Block(n, m)) /\ Extends(blocks, blocks)
  <2>1. /\ cur \in 1 .. m /\ m \in Nat /\ Len(values) \in Nat
        /\ blocks \in Seq(Block(Len(values), m))
    BY StackFrames
  <2>2. n \in Nat /\ Len(values) <= n
    BY <1>6 DEF TypeOK, NamesType, Values, ValuesKept
  <2>3. Seq(Block(Len(values), m)) \subseteq Seq(Block(n, m))
    BY <2>1, <2>2, BlockGrows, SeqGrows
  <2> QED
    BY <2>1, <2>2, <2>3 DEF Extends
<1> HIDE DEF n, m, new, mid, t
<1>9. /\ SiteAdded(blocks, mid, Jump(t)) /\ mid \in Seq(Block(n, m))
      /\ Len(mid) = m
  BY <1>3, <1>8, BranchAdds DEF mid, m
<1>10. Emitted(mid, new, t, phi) /\ t \in 1 .. Len(mid)
  <2>1. t \in 1 .. Len(mid)
    BY <1>3, <1>9
  <2> QED
    BY <1>1, <1>9, <2>1, EmitOn
<1>11. new \in Seq(Block(n, m))
  <2>1. Len(new) = m
    BY <1>9, <1>10 DEF Emitted
  <2> QED
    BY <2>1 DEF TypeOK, IRType, new, n
<1>12. SiteAdded(mid, new, phi)
  <2>1. CodeAdded(mid, new, t, phi)
    BY <1>8, <1>9, <1>10 DEF Emitted, CodeAdded
  <2> QED
    BY <1>8, <1>9, <1>10, <1>11, <2>1, SitesAdded
<1>13. CodeTyped(fn, values', new)
  <2>1. CodeTyped(fn, values', blocks)
    BY <1>1, <1>6, InTyped, CodeTypedKept
  <2>2. CodeTyped(fn, values', mid)
    BY <1>9, <2>1, JumpTyped, CodeTypedAdded
  <2> QED
    BY <1>7, <1>12, <2>2, CodeTypedAdded
<1> QED
  BY <1>1, <1>2, <1>6, <1>13, OperandTyped DEF new

LEMMA FinishCallTyped ==
  ASSUME TypeOK, TypeOK', Typed, SingleInv, FlowInv, FinishCall
  PROVE  Typed'
<1> DEFINE r     == IF Top.ret = "VOID" THEN NoOperand
                    ELSE Result(Top.target, Top.ret)
           instr == Instruction("CALL", r, Top.args)
<1>1. /\ Top.kind = "CALL" /\ status = "lowering" /\ Top.kind \in ExprKind
      /\ ResultOf(Top) = Top.ret
  BY DEF FinishCall, Active, ExprKind, ResultOf
<1>2. /\ IF Top.ret = "VOID" THEN UNCHANGED valueVars
         ELSE NewResult(Top.target, Top.ret)
      /\ blocks' = Emit(blocks, cur, instr)
      /\ IF Caller.kind \in ListKind THEN Pop ELSE Return(r)
      /\ UNCHANGED <<fn, status, bindings, semVars>>
  BY DEF FinishCall, runVars, Caller
<1>3. instr.dest = r /\ instr.args = Top.args /\ instr.op = "CALL"
  BY DEF Instruction
<1> HIDE DEF instr
<1>4. /\ DeclTyped /\ CodeTyped(fn, values, blocks)
      /\ TypedAll(fn, values, bindings) /\ FrameTyped(fn, values, Top)
      /\ Top \in StackFrame /\ cur \in 1 .. Len(blocks)
  BY <1>1, InTyped, StackFrames
<1>5. ValuesKept /\ DeclTyped'
  BY <1>2, <1>4, NewResultKeeps, SameValues, SameDecl DEF valueVars
<1>6. SiteAdded(blocks, blocks', instr) /\ CodeTyped(fn, values', blocks)
  BY <1>2, <1>4, <1>5, EmitAdds, CodeTypedKept
<1>7. TypedArgs(values', Top.args)
  BY <1>1, <1>4, <1>5, FrameOperands, TypedGrows DEF FrameTyped
<1>8. TypedOperand(values', r) => CodeTyped(fn, values', blocks')
  <2>1. TypedOperand(values', r) => InstrTyped(fn, values', instr)
    BY <1>3, <1>7 DEF InstrTyped
  <2> QED
    BY <1>6, <2>1, CodeTypedAdded
<1>9. CASE Caller.kind \notin ListKind /\ Top.ret # "VOID"
  <2>1. blocks' = Emit(blocks, cur, Instruction("CALL", r, Top.args))
        /\ Return(r) /\ r = Result(Top.target, Top.ret)
    BY <1>2, <1>9 DEF instr
  <2>2. IsOperand
    BY <1>1, <1>9 DEF IsOperand
  <2>3. Yields("CALL", Top.args, Top.ret)
    BY DEF Yields
  <2> HIDE DEF r
  <2> QED
    BY <1>1, <1>2, <1>9, <2>1, <2>2, <2>3, ComputeTyped
<1>10. CASE Caller.kind \notin ListKind /\ Top.ret = "VOID"
  <2>1. /\ r = NoOperand /\ Return(r) /\ TypedOperand(values', r)
        /\ r.type = "VOID"
    BY <1>2, <1>10 DEF TypedOperand, NoOperand
  <2>2. IsOperand
    BY <1>1, <1>10 DEF IsOperand
  <2> HIDE DEF r
  <2> QED
    BY <1>1, <1>2, <1>5, <1>8, <1>10, <2>1, <2>2, OperandTyped
<1>11. CASE Caller.kind \in ListKind
  <2>1. TypedOperand(values', r)
    <3>1. CASE Top.ret = "VOID"
      BY <3>1 DEF TypedOperand, NoOperand
    <3>2. CASE Top.ret # "VOID"
      <4>1. Top.target = NoOperand
        <5>1. TargetFits(ctrl, Len(ctrl)) /\ Top = ctrl[Len(ctrl)]
          BY <1>1, InTyped
        <5>2. Caller.kind # "ASSIGN"
          BY <1>11 DEF ListKind
        <5> QED
          BY <1>1, <5>1, <5>2 DEF TargetFits, Caller
      <4>2. NewValue(Tmp, Top.ret) /\ r = ValueOp(NextId, Top.ret)
        BY <1>2, <3>2, <4>1 DEF NewResult, Result
      <4>3. values'[NextId].type = Top.ret
        BY <4>2, NewValueTypes
      <4> QED
        BY <4>2, <4>3 DEF ValueOp, TypedOperand
    <3> QED
      BY <3>1, <3>2
  <2> HIDE DEF r
  <2>2. /\ Len(ctrl') = Len(ctrl) - 1 /\ Keeps(Len(ctrl) - 1)
        /\ \A i \in 1 .. Len(ctrl) - 1 : ctrl'[i] = ctrl[i]
        /\ Len(ctrl) - 1 \in 1 .. Len(ctrl)
    <3>1. Top.kind # "FBODY" /\ Pop
      BY <1>1, <1>2, <1>11
    <3> QED
      BY <3>1, PopShape, PoppedFrames, StackFrames
  <2> DEFINE k == Len(ctrl) - 1
  <2>3. /\ k \in 1 .. Len(ctrl) /\ ctrl[k].kind \in ListKind /\ Keeps(k)
        /\ Len(ctrl') = k /\ \A i \in 1 .. k - 1 : ctrl'[i] = ctrl[i]
    <3>1. \A i \in 1 .. k - 1 : i \in 1 .. k
      BY <2>2
    <3> QED
      BY <1>11, <2>2, <3>1 DEF Caller
  <2>4. TypedAll(fn, values', bindings')
    BY <1>2, <1>4, <1>5, TypedGrows DEF TypeOK, NamesType
  <2> HIDE DEF k
  <2> QED
    BY <1>1, <1>2, <1>5, <1>8, <2>1, <2>3, <2>4, ListTyped
<1> QED
  BY <1>9, <1>10, <1>11

LEMMA ExpressionTyped ==
  ASSUME TypeOK, TypeOK', Typed, SingleInv, FlowInv, OneTypePerName,
         Expression
  PROVE  Typed'
<1>1. CASE \E t \in ValType : Literal(t)
  BY <1>1, LiteralTyped
<1>2. CASE \E n \in Name : Identifier(n)
  BY <1>2, IdentifierTyped
<1>3. CASE \E n \in Name : UnboundIdentifier(n)
  BY <1>3, FailTyped DEF UnboundIdentifier, Error
<1>4. CASE \E t \in UNION { DeclTypes[n] : n \in Name } :
             \E op \in {"ARITH", "CMP"} : BeginBinary(op, t)
  <2>1. PICK t \in UNION { DeclTypes[n] : n \in Name },
             op \in {"ARITH", "CMP"} : BeginBinary(op, t)
    BY <1>4
  <2>2. t \in ValType
    BY DeclTypesAssumption
  <2> QED
    BY <2>1, <2>2, BeginBinaryTyped
<1>5. CASE BeginNot
  BY <1>5, BeginNotTyped
<1>6. CASE \E isOr \in BOOLEAN : BeginLogic(isOr)
  BY <1>6, BeginLogicTyped
<1>7. CASE \E f \in Callees : BeginCall(f)
  BY <1>7, BeginCallTyped
<1>8. CASE FinishBinary
  BY <1>8, FinishBinaryTyped
<1>9. CASE FinishNot
  BY <1>9, FinishNotTyped
<1>10. CASE DropLogic
  BY <1>10, DropLogicTyped
<1>11. CASE SplitLogic
  BY <1>11, SplitLogicTyped
<1>12. CASE FinishLogic
  BY <1>12, FinishLogicTyped
<1>13. CASE FinishCall
  BY <1>13, FinishCallTyped
<1>14. CASE ArgumentMismatch
  BY <1>14, FailTyped DEF ArgumentMismatch, Error
<1> QED
  BY <1>1, <1>2, <1>3, <1>4, <1>5, <1>6, <1>7, <1>8, <1>9, <1>10, <1>11,
     <1>12, <1>13, <1>14 DEF Expression

-----------------------------------------------------------------------------
(***************************************************************************)
(* emit_statement                                                          *)
(***************************************************************************)

LEMMA DeclareTyped ==
  ASSUME TypeOK, OneTypePerName, ScopeInv, DeclTyped, NEW n \in Name,
         NEW t \in DeclTypes[n], Declare(n, t), fn' = fn
  PROVE  DeclTyped' /\ t = TypeFor(fn, n)
<1>1. t \in ValType
  BY DeclTypesAssumption
<1>2. /\ ~Visible(n) /\ decl'[n].type = t
      /\ \A m \in Name : m # n => decl'[m] = decl[m]
  BY <1>1, DeclareParts
<1>3. ~Fixed(fn, n)
  BY <1>2 DEF ScopeInv
<1>4. t = TypeFor(fn, n)
  BY <1>3, TypeForType
<1> QED
  BY <1>2, <1>4 DEF DeclTyped, Visible

LEMMA InitialiseTyped ==
  ASSUME TypeOK, DeclTyped, NEW n \in Name, Initialise(n), fn' = fn
  PROVE  DeclTyped'
BY InitialiseParts DEF DeclTyped

LEMMA LeaveTyped ==
  ASSUME DeclTyped, fn' = fn,
         decl' = [n \in Name |-> IF n \in Last(scopes) THEN Undeclared
                                 ELSE decl[n]]
  PROVE  DeclTyped'
BY DEF DeclTyped, Visible

\* The innermost statement ends.
LEMMA SettleTyped ==
  ASSUME TypeOK, TypeOK', Typed, SingleInv, FlowInv, status = "lowering",
         Top.kind \in StatementKind, NEW r, EndStatement(r) \/ Pop,
         ValuesKept, DeclTyped',
         CodeTyped(fn, values', blocks'), TypedAll(fn, values', bindings'),
         UNCHANGED <<fn, status>>
  PROVE  Typed'
<1> DEFINE k == Len(ctrl) - 1
<1>1. /\ ctrl[k].kind \in ListKind /\ Top.kind # "FBODY"
      /\ k \in 1 .. Len(ctrl) /\ k \in Nat
  BY StatementCaller
<1>2. /\ Keeps(k) /\ Len(ctrl') = k
      /\ \A i \in 1 .. k - 1 : ctrl'[i] = ctrl[i]
  <2>1. CASE EndStatement(r)
    <3>1. /\ Keeps(Len(ctrl) - 1) /\ Len(ctrl') = Len(ctrl) - 1
          /\ \A i \in 1 .. Len(ctrl) - 2 : ctrl'[i] = ctrl[i]
      BY <1>1, <2>1, EndShape
    <3>2. Len(ctrl) - 2 = k - 1
      BY StackFrames
    <3> QED
      BY <3>1, <3>2
  <2>2. CASE Pop
    <3>1. /\ Keeps(Len(ctrl) - 1) /\ Len(ctrl') = Len(ctrl) - 1
          /\ \A i \in 1 .. Len(ctrl) - 1 : ctrl'[i] = ctrl[i]
      BY <1>1, <2>2, PopShape
    <3>2. \A i \in 1 .. k - 1 : i \in 1 .. k
      BY <1>1
    <3> QED
      BY <3>1, <3>2
  <2> QED
    BY <2>1, <2>2
<1> HIDE DEF k
<1> QED
  BY <1>1, <1>2, ListTyped

\* Code, bindings and declarations stay as they are.
LEMMA SameTyped ==
  ASSUME TypeOK, Typed, SingleInv, FlowInv, status = "lowering",
         ValuesKept
  PROVE  /\ UNCHANGED <<fn, bindings>> => TypedAll(fn, values', bindings')
         /\ UNCHANGED blocks => CodeTyped(fn, values', blocks')
         /\ UNCHANGED <<fn, semVars>> => DeclTyped'
<1>1. /\ DeclTyped /\ CodeTyped(fn, values, blocks)
      /\ TypedAll(fn, values, bindings)
  BY InTyped
<1>2. TypedAll(fn, values', bindings)
  BY <1>1, TypedGrows DEF TypeOK, NamesType
<1>3. CodeTyped(fn, values', blocks)
  BY <1>1, CodeTypedKept
<1> QED
  BY <1>1, <1>2, <1>3, SameDecl

\* A nested statement, or a call in the place of one.
LEMMA BeginStatementTyped ==
  ASSUME TypeOK, TypeOK', Typed, SingleInv, FlowInv, InList, NEW f, Push(f),
         ValuesKept, DeclTyped', UNCHANGED <<fn, status, bindings, blocks>>,
         FrameTyped(fn, values', f)
  PROVE  Typed'
<1>1. status = "lowering" /\ Top.kind \notin ExprKind
  BY DEF InList, ListKind, ExprKind
<1>2. CodeTyped(fn, values', blocks')
  BY <1>1, SameTyped
<1> QED
  BY <1>1, <1>2, PushTyped

LEMMA BeginAssignmentTyped ==
  ASSUME TypeOK, TypeOK', Typed, SingleInv, FlowInv, OneTypePerName, InList,
         NEW n \in Name, NEW u, NEW t, u = TypeFor(fn, n), t = u,
         BeginAssignment(n, u, t), DeclTyped'
  PROVE  Typed'
<1> DEFINE f == [kind |-> "ASSIGN", name |-> n, dest |-> ValueOp(NextId, t),
                 wants |-> <<u>>, args |-> << >>]
<1>1. /\ Push(f) /\ NewValue(n, t)
      /\ UNCHANGED <<fn, status, blocks, bindings>>
      /\ f.kind = "ASSIGN" /\ f.args = << >> /\ f.wants = <<u>>
      /\ f.dest = ValueOp(NextId, t) /\ f.name = n
  BY DEF BeginAssignment, runVars, irVars
<1> HIDE DEF f
<1>2. ValuesKept /\ values'[NextId].type = t
  BY <1>1, NewValueTypes
<1>3. f.dest.type = t /\ TypedOperand(values', f.dest)
  BY <1>1, <1>2 DEF ValueOp, TypedOperand
<1>4. u # "TYPE_ERROR"
  BY TypeForType DEF ValType
<1>5. /\ DOMAIN f.args = {} /\ DOMAIN f.wants = {1} /\ f.wants[1] = u
  BY <1>1
<1>6. FrameTyped(fn, values', f)
  BY <1>1, <1>3, <1>4, <1>5
  DEF FrameTyped, WantsTyped, TypedArgs, SnapshotKind
<1> QED
  BY <1>1, <1>2, <1>6, BeginStatementTyped

LEMMA TypedBind ==
  ASSUME NEW h, NEW vs, NEW s, NEW S, s \in [AllName -> S],
         TypedAll(h, vs, s), NEW n \in Name, NEW id,
         vs[id].type = TypeFor(h, n), NEW u, u = [s EXCEPT ![n] = id]
  PROVE  TypedAll(h, vs, u)
BY DEF TypedAll

LEMMA CopyTyped ==
  ASSUME NEW h, NEW vs, NEW d, NEW r, TypedOperand(vs, d),
         TypedOperand(vs, r), r.type = d.type
  PROVE  InstrTyped(h, vs, Instruction("COPY", d, <<r>>))
<1> DEFINE args  == <<r>>
           instr == Instruction("COPY", d, args)
<1>1. instr.op = "COPY" /\ instr.dest = d /\ instr.args = args
  BY DEF Instruction
<1>2. DOMAIN args = {1} /\ args[1] = r
  OBVIOUS
<1> HIDE DEF args, instr
<1>3. InstrTyped(h, vs, instr)
  BY <1>1, <1>2 DEF InstrTyped, TypedArgs, ArgsHaveType
<1> QED
  BY <1>3 DEF instr, args

LEMMA FinishAssignmentTyped ==
  ASSUME TypeOK, TypeOK', Typed, SingleInv, FlowInv, FinishAssignment
  PROVE  Typed'
<1> DEFINE r     == Top.args[1]
           d     == Top.dest
           instr == Instruction("COPY", d, <<r>>)
<1>1. Top.kind = "ASSIGN" /\ Complete /\ status = "lowering"
  BY DEF FinishAssignment, Active
<1>2. CASE r.type # d.type
  BY <1>2, FailTyped DEF FinishAssignment, Error
<1>3. CASE r.type = d.type
  <2>1. /\ blocks' = Store(d, r) /\ Pop
        /\ UNCHANGED <<fn, status, values>> /\ Initialise(Top.name)
        /\ bindings' = [bindings EXCEPT ![Top.name] = d.id]
    BY <1>3 DEF FinishAssignment, runVars, valueVars
  <2>2. /\ FrameTyped(fn, values, Top) /\ Top \in StackFrame
        /\ DeclTyped /\ TypedAll(fn, values, bindings)
        /\ CodeTyped(fn, values, blocks)
    BY <1>1, InTyped
  <2>3. /\ d \in ValueOperand(Len(values)) /\ Top.name \in Name
    BY <1>1, <2>2, FrameOperands
  <2>4. TypedOperand(values, r)
    <3>1. 1 \in DOMAIN Top.args
      BY <1>1, FirstOperand DEF ExprKind
    <3> QED
      BY <1>1, <2>2, <3>1 DEF FrameTyped, TypedArgs, ExprKind
  <2>5. /\ TypedOperand(values, d) /\ d.type = TypeFor(fn, Top.name)
    BY <1>1, <2>2 DEF FrameTyped, WantsTyped, ExprKind
  <2>6. values[d.id].type = TypeFor(fn, Top.name)
    BY <2>3, <2>5 DEF TypedOperand, ValueOperand
  <2> HIDE DEF r, d
  <2>7. CodeTyped(fn, values, blocks')
    <3>1. CASE r = d
      BY <2>1, <2>2, <3>1 DEF Store
    <3>2. CASE r # d
      <4>1. blocks' = Emit(blocks, cur, instr) /\ cur \in 1 .. Len(blocks)
        BY <2>1, <3>2, StackFrames DEF Store
      <4>2. InstrTyped(fn, values, instr)
        BY <1>3, <2>4, <2>5, CopyTyped
      <4> HIDE DEF instr
      <4>3. SiteAdded(blocks, blocks', instr)
        BY <4>1, EmitAdds
      <4> QED
        BY <2>2, <4>2, <4>3, CodeTypedAdded
    <3> QED
      BY <3>1, <3>2
  <2>8. TypedAll(fn, values, bindings')
    <3>1. bindings \in [AllName -> 0 .. Len(values)]
      BY DEF TypeOK, NamesType, Snapshot
    <3> QED
      BY <2>1, <2>2, <2>3, <2>6, <3>1, TypedBind
  <2>9. ValuesKept /\ DeclTyped'
    BY <2>1, <2>2, <2>3, SameValues, InitialiseTyped
  <2>10. /\ CodeTyped(fn, values', blocks')
         /\ TypedAll(fn, values', bindings')
    BY <2>1, <2>7, <2>8
  <2> QED
    BY <1>1, <2>1, <2>9, <2>10, SettleTyped DEF StatementKind
<1> QED
  BY <1>2, <1>3

LEMMA ReturnCodeTyped ==
  ASSUME TypeOK, Typed, SingleInv, FlowInv, status = "lowering",
         NEW args \in Seq(Operand(Len(values))), TypedArgs(values, args),
         fn.ret = "VOID" \/ \A j \in DOMAIN args : args[j].type = fn.ret,
         EmitReturn(args)
  PROVE  CodeTyped(fn, values, blocks')
<1> DEFINE instr == Instruction("RET", NoOperand, args)
<1>1. SiteAdded(blocks, blocks', instr)
  BY ReturnAdds
<1>2. /\ instr.dest = NoOperand /\ instr.args = args /\ instr.op = "RET"
      /\ NoOperand.kind = "NONE"
  BY DEF Instruction, NoOperand
<1> HIDE DEF instr
<1>3. InstrTyped(fn, values, instr)
  BY <1>2 DEF InstrTyped, TypedOperand, ArgsHaveType
<1> QED
  BY <1>1, <1>3, InTyped, CodeTypedAdded

LEMMA FinishReturnTyped ==
  ASSUME TypeOK, TypeOK', Typed, SingleInv, FlowInv, FinishReturn
  PROVE  Typed'
<1>1. /\ Top.kind = "RETURN" /\ status = "lowering" /\ Top.kind \in ExprKind
      /\ Complete
  BY DEF FinishReturn, Active, ExprKind
<1>2. CASE Top.args[1].type # fn.ret
  BY <1>2, FailTyped DEF FinishReturn, Error
<1>3. CASE Top.args[1].type = fn.ret
  <2>1. /\ EmitReturn(Top.args) /\ EndStatement(TRUE)
        /\ UNCHANGED <<fn, values, status, bindings, semVars>>
    BY <1>3 DEF FinishReturn, runVars, nameVars, valueVars
  <2>2. Top.args \in Seq(Operand(Len(values)))
    BY <1>1, OperandsType
  <2>3. TypedArgs(values, Top.args)
    BY <1>1, InTyped DEF FrameTyped
  <2>4. DOMAIN Top.args = {1}
    <3>1. Len(Top.args) = 1
      BY <1>1, FrameArgs, StackFrames DEF Complete
    <3> QED
      BY <2>2, <3>1
  <2>5. CodeTyped(fn, values, blocks')
    BY <1>1, <1>3, <2>1, <2>2, <2>3, <2>4, ReturnCodeTyped
  <2>6. ValuesKept
    BY <2>1, SameValues
  <2>7. CodeTyped(fn, values', blocks')
    BY <2>1, <2>5
  <2>8. TypedAll(fn, values', bindings') /\ DeclTyped'
    BY <1>1, <2>1, <2>6, SameTyped
  <2> QED
    BY <1>1, <2>1, <2>6, <2>7, <2>8, SettleTyped DEF StatementKind
<1> QED
  BY <1>2, <1>3

LEMMA ReturnNothingTyped ==
  ASSUME TypeOK, TypeOK', Typed, SingleInv, FlowInv, ReturnNothing
  PROVE  Typed'
<1>1. status = "lowering" /\ Top.kind \in ListKind
  BY DEF ReturnNothing, NextStatement, InList
<1>2. CASE fn.ret # "VOID"
  BY <1>2, FailTyped DEF ReturnNothing, Error
<1>3. CASE fn.ret = "VOID"
  <2> DEFINE l == Len(ctrl)
             g == [ctrl[l] EXCEPT !.rets = TRUE]
  <2>1. /\ EmitReturn(<< >>)
        /\ UNCHANGED <<fn, status, values, bindings, semVars>>
        /\ ctrl' = [ctrl EXCEPT ![l] = g]
    BY <1>1, <1>3 DEF ReturnNothing, runVars, nameVars, valueVars
  <2>2. /\ l \in Nat /\ l >= 1 /\ ctrl \in Seq(StackFrame) /\ ctrl[l] = Top
        /\ ctrl[l] \in Frame(Len(values), Len(blocks), Len(names))
        /\ Len(values) \in Nat /\ Len(blocks) \in Nat /\ Len(names) \in Nat
    BY StackFrames DEF StackFrame
  <2>3. g = [ctrl[l] EXCEPT !.rets = TRUE]
    OBVIOUS
  <2> HIDE DEF g
  <2>4. Alike(ctrl[l], g)
    BY <1>1, <2>2, <2>3, AlikeRets
  <2>5. /\ Len(ctrl') = l /\ Keeps(l) /\ l \in 1 .. Len(ctrl)
        /\ \A i \in 1 .. l - 1 : ctrl'[i] = ctrl[i]
    <3>1. Len(ctrl) = l
      OBVIOUS
    <3> HIDE DEF l
    <3>2. l <= Len(ctrl) /\ \A i \in 1 .. l : ctrl[i] = ctrl[i]
      BY <2>2, <3>1
    <3>3. l \in 1 .. Len(ctrl)
      BY <2>2, <3>1
    <3>4. /\ Keeps(l) /\ Len(ctrl') = l
          /\ \A i \in 1 .. l - 1 : ctrl'[i] = ctrl[i]
      BY <2>1, <2>2, <2>4, <3>1, <3>2, UpdateShape
    <3> QED
      BY <3>3, <3>4
  <2> HIDE DEF l
  <2>6. TypedArgs(values, << >>) /\ << >> \in Seq(Operand(Len(values)))
    BY DEF TypedArgs
  <2>7. CodeTyped(fn, values, blocks')
    BY <1>1, <1>3, <2>1, <2>6, ReturnCodeTyped
  <2>8. ValuesKept /\ CodeTyped(fn, values', blocks')
    BY <2>1, <2>7, SameValues
  <2>9. TypedAll(fn, values', bindings') /\ DeclTyped'
    BY <1>1, <2>1, <2>8, SameTyped
  <2> QED
    BY <1>1, <2>1, <2>2, <2>5, <2>8, <2>9, ListTyped
<1> QED
  BY <1>2, <1>3

LEMMA SimpleStatementTyped ==
  ASSUME TypeOK, TypeOK', Typed, SingleInv, FlowInv, ScopeInv, OneTypePerName,
         SimpleStatement
  PROVE  Typed'
<1> USE DEF StartStatement, NextStatement
<1>1. ASSUME StatementAfterReturn
      PROVE  Typed'
  BY <1>1, FailTyped DEF StatementAfterReturn, Error
<1>2. ASSUME NEW n \in Name, NEW t \in DeclTypes[n], DeclareOnly(n, t)
      PROVE  Typed'
  <2>1. /\ InList /\ Declare(n, t) /\ UNCHANGED ctrl
        /\ UNCHANGED <<fn, status, blocks, values, bindings>>
    BY <1>2 DEF DeclareOnly, runVars, irVars, nameVars, valueVars
  <2>2. status = "lowering" /\ Top.kind \in ListKind
    BY <2>1 DEF InList
  <2>3. DeclTyped /\ Len(ctrl) \in 1 .. Len(ctrl) /\ Top = ctrl[Len(ctrl)]
    BY <2>2, InTyped
  <2>4. DeclTyped' /\ ValuesKept
    BY <2>1, <2>3, DeclareTyped, SameValues
  <2>5. CodeTyped(fn, values', blocks') /\ TypedAll(fn, values', bindings')
    BY <2>1, <2>2, <2>4, SameTyped
  <2>6. Keeps(Len(ctrl)) /\ Len(ctrl') = Len(ctrl)
    BY <2>1, SameShape
  <2>7. \A i \in 1 .. Len(ctrl) - 1 : ctrl'[i] = ctrl[i]
    BY <2>1
  <2> QED
    BY <2>1, <2>2, <2>3, <2>4, <2>5, <2>6, <2>7, ListTyped
<1>3. ASSUME NEW n \in Name, NEW t \in DeclTypes[n], DeclareAndAssign(n, t)
      PROVE  Typed'
  <2>1. /\ InList /\ Declare(n, t) /\ BeginAssignment(n, t, t) /\ fn' = fn
        /\ status = "lowering"
    BY <1>3 DEF DeclareAndAssign, BeginAssignment, runVars, InList
  <2>2. DeclTyped' /\ t = TypeFor(fn, n)
    BY <2>1, InTyped, DeclareTyped
  <2> QED
    BY <2>1, <2>2, BeginAssignmentTyped
<1>4. ASSUME NEW n \in Name, Assign(n)
      PROVE  Typed'
  <2>1. /\ InList /\ Visible(n) /\ bindings[n] # Invalid /\ UNCHANGED semVars
        /\ BeginAssignment(n, decl[n].type, values[bindings[n]].type)
        /\ fn' = fn /\ status = "lowering"
    BY <1>4 DEF Assign, BeginAssignment, runVars, InList
  <2>2. DeclTyped /\ TypedAll(fn, values, bindings)
    BY <2>1, InTyped
  <2>3. /\ decl[n].type = TypeFor(fn, n)
        /\ values[bindings[n]].type = TypeFor(fn, n)
    BY <2>1, <2>2 DEF DeclTyped, TypedAll, AllName
  <2>4. DeclTyped'
    BY <2>1, <2>2, SameDecl
  <2> QED
    BY <2>1, <2>3, <2>4, BeginAssignmentTyped
<1>5. ASSUME NEW n \in Name, AssignUnbound(n)
      PROVE  Typed'
  BY <1>5, FailTyped DEF AssignUnbound, Error
<1>6. ASSUME NEW f, InList, Push(f), FrameTyped(fn, values', f),
             UNCHANGED <<fn, status, bindings, blocks, values>>,
             UNCHANGED semVars \/ EnterScope
      PROVE  Typed'
  <2>1. status = "lowering"
    BY <1>6 DEF InList
  <2>2. DeclTyped /\ ValuesKept
    BY <1>6, <2>1, InTyped, SameValues
  <2>3. DeclTyped'
    BY <1>6, <2>2 DEF DeclTyped, semVars, EnterScope, Visible
  <2> QED
    BY <1>6, <2>2, <2>3, BeginStatementTyped
<1>7. ASSUME BeginReturn
      PROVE  Typed'
  <2> DEFINE f == [kind |-> "RETURN", wants |-> <<fn.ret>>, args |-> << >>]
  <2>1. /\ InList /\ Push(f) /\ f.kind = "RETURN" /\ f.args = << >>
        /\ UNCHANGED <<fn, blocks, values, bindings, status, semVars>>
    BY <1>7 DEF BeginReturn, runVars, irVars, nameVars, valueVars
  <2> HIDE DEF f
  <2>2. DOMAIN f.args = {}
    BY <2>1
  <2>3. FrameTyped(fn, values', f)
    BY <2>1, <2>2 DEF FrameTyped, WantsTyped, TypedArgs, SnapshotKind
  <2> QED
    BY <1>6, <2>1, <2>3
<1>8. ASSUME NEW g \in Callees, CallStatement(g)
      PROVE  Typed'
  <2> DEFINE f == [kind |-> "CALL", ret |-> g.ret, wants |-> g.params,
                   args |-> << >>, target |-> NoOperand]
  <2>1. /\ InList /\ Push(f) /\ f.kind = "CALL" /\ f.args = << >>
        /\ f.ret = g.ret /\ f.wants = g.params
        /\ UNCHANGED <<fn, blocks, values, bindings, status, semVars>>
    BY <1>8 DEF CallStatement, runVars, irVars, nameVars, valueVars
  <2> HIDE DEF f
  <2>2. DOMAIN f.args = {} /\ WantsTyped(fn, f)
    BY <2>1, CallWants
  <2>3. FrameTyped(fn, values', f)
    BY <2>1, <2>2 DEF FrameTyped, TypedArgs, SnapshotKind
  <2> QED
    BY <1>6, <2>1, <2>3
<1>9. ASSUME BeginBlock
      PROVE  Typed'
  <2> DEFINE f == [kind |-> "BLOCK", rets |-> FALSE]
  <2>1. /\ InList /\ Push(f) /\ f.kind = "BLOCK" /\ EnterScope
        /\ UNCHANGED <<fn, blocks, values, bindings, status>>
    BY <1>9 DEF BeginBlock, runVars, irVars, nameVars, valueVars
  <2> HIDE DEF f
  <2>2. FrameTyped(fn, values', f)
    BY <2>1 DEF FrameTyped, ExprKind, SnapshotKind
  <2> QED
    BY <1>6, <2>1, <2>2
<1>10. ASSUME EndBlock
       PROVE  Typed'
  <2>1. /\ Top.kind = "BLOCK" /\ status = "lowering" /\ EndStatement(Top.rets)
        /\ UNCHANGED <<fn, values, status, bindings, blocks>> /\ ExitScope
    BY <1>10 DEF EndBlock, Active, runVars, irVars, nameVars, valueVars
  <2>2. DeclTyped /\ ValuesKept
    BY <2>1, InTyped, SameValues
  <2>3. DeclTyped'
    BY <2>1, <2>2, LeaveTyped DEF ExitScope
  <2>4. CodeTyped(fn, values', blocks') /\ TypedAll(fn, values', bindings')
    BY <2>1, <2>2, SameTyped
  <2> QED
    BY <2>1, <2>2, <2>3, <2>4, SettleTyped DEF StatementKind
<1> QED
  BY <1>1, <1>2, <1>3, <1>4, <1>5, <1>7, <1>8, <1>9, <1>10,
     FinishAssignmentTyped, FinishReturnTyped, ReturnNothingTyped
  DEF SimpleStatement

-----------------------------------------------------------------------------
(***************************************************************************)
(* emit_if keeps the types.                                                *)
(***************************************************************************)

LEMMA JoinTyped ==
  ASSUME TypeOK, NEW h, CodeTyped(h, values, blocks),
         NEW t \in 1 .. Len(blocks), blocks' = Join(t)
  PROVE  CodeTyped(h, values, blocks')
<1>1. CASE blocks[cur].terminated
  BY <1>1 DEF Join
<1>2. CASE ~blocks[cur].terminated
  <2> DEFINE n == Len(values)
             q == Len(blocks)
  <2>1. blocks' = Branch(blocks, cur, t)
    BY <1>2 DEF Join
  <2>2. /\ n \in Nat /\ Len(values) <= n /\ blocks \in Seq(Block(n, q))
        /\ Len(blocks) = q /\ q \in Nat /\ Extends(blocks, blocks)
        /\ t \in 1 .. q
    BY StackFrames DEF Extends
  <2> HIDE DEF n, q
  <2>3. SiteAdded(blocks, blocks', Jump(t))
    BY <2>1, <2>2, BranchAdds
  <2> QED
    BY <2>3, JumpTyped, CodeTypedAdded
<1> QED
  BY <1>1, <1>2

\* The snapshots of the innermost activation are typed.
LEMMA SnapshotsTyped ==
  ASSUME TypeOK, Typed, SingleInv, FlowInv, status = "lowering",
         Top.kind \in SnapshotKind
  PROVE  /\ TypedAll(fn, values, Top.incoming)
         /\ Top.incoming \in Snapshot(Len(values))
         /\ Top.kind = "LOOP" => TypedAll(fn, values, Top.bound)
         /\ Top.kind \in {"ELSE", "NOELSE", "MERGE"} =>
              /\ TypedAll(fn, values, Top.then.bound)
              /\ Top.then.bound \in Snapshot(Len(values))
         /\ Top.kind = "MERGE" =>
              /\ TypedAll(fn, values, Top.else.bound)
              /\ Top.else.bound \in Snapshot(Len(values))
<1>1. FrameTyped(fn, values, Top) /\ Top \in StackFrame
  BY InTyped
<1>2. /\ Top.incoming \in Snapshot(Len(values))
      /\ Top.kind \in {"ELSE", "NOELSE", "MERGE"} =>
           Top.then.bound \in Snapshot(Len(values))
      /\ Top.kind = "MERGE" => Top.else.bound \in Snapshot(Len(values))
  BY <1>1, FrameSnapshots
<1> QED
  BY <1>1, <1>2 DEF FrameTyped

LEMMA BranchIfTyped ==
  ASSUME TypeOK, TypeOK', Typed, SingleInv, FlowInv, BranchIf
  PROVE  Typed'
<1> DEFINE then == Len(blocks) + 1
           else == Len(blocks) + 2
           merge == Len(blocks) + 3
           wide  == blocks \o <<NewBlock, NewBlock, NewBlock>>
           o     == Top.args[1]
           f     == [kind |-> "THEN", rets |-> FALSE, incoming |-> bindings,
                     count |-> Len(names), else |-> else, merge |-> merge]
<1>1. /\ blocks' = CondBranch(wide, cur, o, then, else) /\ Replace(f)
      /\ UNCHANGED <<fn, status, values, bindings>> /\ EnterScope
      /\ Top.kind = "IFCOND" /\ Complete /\ status = "lowering"
  BY DEF BranchIf, Active, runVars, nameVars, valueVars
<1>2. Opened(wide, merge) /\ Len(blocks) \in Nat
  <2>1. /\ blocks \in Seq(Block(Len(values), Len(blocks)))
        /\ Len(blocks) \in Nat /\ Len(values) \in Nat
    BY StackFrames
  <2>2. wide \in Seq(Block(Len(values), merge)) /\ Len(wide) = merge
    BY <2>1, NewBlocksType
  <2>3. Extends(blocks, wide)
    BY <2>1, ExtendsNew
  <2> QED
    BY <2>1, <2>2, <2>3 DEF Opened
<1>3. then \in 1 .. merge /\ else \in 1 .. merge /\ then # else
  BY <1>2
<1>4. f.kind = "THEN" /\ f.incoming = bindings
  OBVIOUS
<1>5. /\ o \in Operand(Len(values)) /\ o.type = "BOOL"
      /\ TypedOperand(values, o)
  BY <1>1, BoolOperand
<1> HIDE DEF wide, o, f, then, else, merge
<1>6. SiteAdded(blocks, blocks', Choice(o, then, else))
  BY <1>1, <1>2, <1>3, <1>5, SplitAdds
<1>7. /\ DeclTyped /\ CodeTyped(fn, values, blocks)
      /\ TypedAll(fn, values, bindings)
  BY <1>1, InTyped
<1>8. CodeTyped(fn, values', blocks')
  <2>1. InstrTyped(fn, values, Choice(o, then, else))
    BY <1>5, ChoiceTyped
  <2> QED
    BY <1>1, <1>6, <1>7, <2>1, CodeTypedAdded
<1>9. FrameTyped(fn, values', f)
  BY <1>1, <1>4, <1>7 DEF FrameTyped, ExprKind
<1>10. ValuesKept /\ DeclTyped'
  BY <1>1, <1>7, SameValues DEF DeclTyped, EnterScope, Visible
<1>11. f.kind \notin OperandKind \cup {"CALL"}
  BY <1>4 DEF OperandKind
<1> QED
  BY <1>1, <1>7, <1>8, <1>9, <1>10, <1>11, ReplaceTyped

LEMMA DropIfTyped ==
  ASSUME TypeOK, Typed, SingleInv, FlowInv, DropIf
  PROVE  FALSE
BY BoolOperand DEF DropIf, Active

LEMMA EndThenTyped ==
  ASSUME TypeOK, TypeOK', Typed, SingleInv, FlowInv, NEW hasElse \in BOOLEAN,
         EndThen(hasElse)
  PROVE  Typed'
<1> DEFINE g == [bound |-> bindings, end |-> cur,
                 reaches |-> ~blocks[cur].terminated, rets |-> Top.rets]
           f == [kind |-> IF hasElse THEN "ELSE" ELSE "NOELSE",
                 rets |-> FALSE, incoming |-> Top.incoming,
                 count |-> Top.count, merge |-> Top.merge, then |-> g]
<1>1. /\ blocks' = Join(Top.merge) /\ Replace(f) /\ bindings' = Top.incoming
      /\ UNCHANGED <<fn, status, values>>
      /\ Top.kind = "THEN" /\ status = "lowering"
      /\ decl' = [n \in Name |-> IF n \in Last(scopes) THEN Undeclared
                                 ELSE decl[n]]
  BY DEF EndThen, Active, Restore, runVars, valueVars, ExitScope
<1>2. /\ f.kind \in {"ELSE", "NOELSE"} /\ f.incoming = Top.incoming
      /\ f.then.bound = bindings
  OBVIOUS
<1> HIDE DEF f, g
<1>3. Top.merge \in 1 .. Len(blocks)
  <2>1. Len(ctrl) \in 1 .. Len(ctrl) /\ Top = ctrl[Len(ctrl)]
    BY StackFrames
  <2> QED
    BY <1>1, <2>1, FrameBlocks
<1>4. /\ DeclTyped /\ CodeTyped(fn, values, blocks)
      /\ TypedAll(fn, values, bindings)
  BY <1>1, InTyped
<1>5. CodeTyped(fn, values', blocks')
  BY <1>1, <1>3, <1>4, JoinTyped
<1>6. TypedAll(fn, values, Top.incoming)
  BY <1>1, SnapshotsTyped DEF SnapshotKind
<1>7. FrameTyped(fn, values', f) /\ TypedAll(fn, values', bindings')
  BY <1>1, <1>2, <1>4, <1>6 DEF FrameTyped, ExprKind
<1>8. ValuesKept /\ DeclTyped' /\ f.kind \notin OperandKind \cup {"CALL"}
  BY <1>1, <1>2, <1>4, SameValues, LeaveTyped DEF OperandKind
<1> QED
  BY <1>1, <1>5, <1>7, <1>8, ReplaceTyped

LEMMA EndElseTyped ==
  ASSUME TypeOK, TypeOK', Typed, SingleInv, FlowInv, EndElse
  PROVE  Typed'
<1> DEFINE g == [bound |-> bindings, end |-> cur,
                 reaches |-> ~blocks[cur].terminated, rets |-> Top.rets]
           f == [kind |-> "MERGE", k |-> 1, count |-> Top.count,
                 incoming |-> Top.incoming, then |-> Top.then, else |-> g]
<1>1. /\ blocks' = Join(Top.merge) /\ Replace(f) /\ bindings' = Top.incoming
      /\ UNCHANGED <<fn, status, values>>
      /\ Top.kind \in {"ELSE", "NOELSE"} /\ status = "lowering"
      /\ ExitScope \/ UNCHANGED semVars
  BY DEF EndElse, Active, Restore, runVars, valueVars
<1>2. /\ f.kind = "MERGE" /\ f.incoming = Top.incoming
      /\ f.then = Top.then /\ f.else.bound = bindings
  OBVIOUS
<1> HIDE DEF f, g
<1>3. Top.merge \in 1 .. Len(blocks)
  <2>1. Len(ctrl) \in 1 .. Len(ctrl) /\ Top = ctrl[Len(ctrl)]
    BY StackFrames
  <2> QED
    BY <1>1, <2>1, FrameBlocks
<1>4. /\ DeclTyped /\ CodeTyped(fn, values, blocks)
      /\ TypedAll(fn, values, bindings)
  BY <1>1, InTyped
<1>5. CodeTyped(fn, values', blocks')
  BY <1>1, <1>3, <1>4, JoinTyped
<1>6. /\ TypedAll(fn, values, Top.incoming)
      /\ TypedAll(fn, values, Top.then.bound)
  BY <1>1, SnapshotsTyped DEF SnapshotKind
<1>7. FrameTyped(fn, values', f) /\ TypedAll(fn, values', bindings')
  BY <1>1, <1>2, <1>4, <1>6 DEF FrameTyped, ExprKind
<1>8. ValuesKept /\ f.kind \notin OperandKind \cup {"CALL"}
  BY <1>1, <1>2, SameValues DEF OperandKind
<1>9. DeclTyped'
  BY <1>1, <1>4, LeaveTyped, SameDecl DEF ExitScope
<1> QED
  BY <1>1, <1>5, <1>7, <1>8, <1>9, ReplaceTyped

LEMMA EndMergeTyped ==
  ASSUME TypeOK, TypeOK', Typed, SingleInv, FlowInv, EndMerge
  PROVE  Typed'
<1>1. /\ Top.kind = "MERGE" /\ status = "lowering"
      /\ EndStatement(BothReturn(Top.then, Top.else))
      /\ UNCHANGED <<fn, values, status, bindings, blocks, semVars>>
  BY DEF EndMerge, Active, runVars, irVars, nameVars, valueVars
<1>2. ValuesKept
  BY <1>1, SameValues
<1>3. /\ TypedAll(fn, values', bindings') /\ DeclTyped'
      /\ CodeTyped(fn, values', blocks')
  BY <1>1, <1>2, SameTyped
<1> QED
  BY <1>1, <1>2, <1>3, SettleTyped DEF StatementKind

\* A loop over the names goes on.
LEMMA NameTyped ==
  ASSUME TypeOK, TypeOK', Typed, SingleInv, FlowInv, status = "lowering",
         Top.kind \in {"MERGE", "HEADER"}, NextName,
         CodeTyped(fn, values', blocks'), TypedAll(fn, values', bindings'),
         UNCHANGED <<fn, status, semVars>>, ValuesKept
  PROVE  Typed'
<1> DEFINE f == [Top EXCEPT !.k = @ + 1]
<1>1. Top \in Frame(Len(values), Len(blocks), Len(names))
      /\ Len(values) \in Nat /\ Len(blocks) \in Nat /\ Len(names) \in Nat
  BY StackFrames DEF StackFrame
<1>2. Top \in MergeFrame(Len(values), Len(blocks), Len(names))
              \cup HeaderFrame(Len(values), Len(blocks), Len(names))
  BY <1>1, FrameByKind
<1>3. /\ f.kind = Top.kind /\ f.incoming = Top.incoming
      /\ Top.kind = "MERGE" => f.then = Top.then /\ f.else = Top.else
  BY <1>2 DEF MergeFrame, HeaderFrame
<1>4. Replace(f)
  BY DEF NextName
<1> HIDE DEF f
<1>5. /\ f.kind \notin ExprKind /\ f.kind \notin OperandKind \cup {"CALL"}
      /\ f.kind \notin {"ASSIGN", "LOOP", "ELSE", "NOELSE"}
  BY <1>3 DEF ExprKind, OperandKind
<1>6. FrameTyped(fn, values', Top) /\ DeclTyped'
  BY InTyped, SameTyped, TypedGrows
<1>7. FrameTyped(fn, values', f)
  BY <1>3, <1>5, <1>6 DEF FrameTyped
<1> QED
  BY <1>4, <1>5, <1>6, <1>7, ReplaceTyped

\* A phi for a name has the type of the name, and so has its new value.
LEMMA PhiNameTyped ==
  ASSUME TypeOK, TypeOK', Typed, SingleInv, FlowInv, status = "lowering",
         NEW n \in Name, NewValue(n, TypeFor(fn, n)), NEW phi,
         InstrTyped(fn, values', phi), fn' = fn,
         blocks' = Emit(blocks, cur, phi),
         bindings' = [bindings EXCEPT ![n] = NextId]
  PROVE  /\ ValuesKept /\ CodeTyped(fn, values', blocks')
         /\ TypedAll(fn, values', bindings')
<1>1. ValuesKept /\ values'[NextId].type = TypeFor(fn, n)
  BY NewValueTypes
<1>2. /\ CodeTyped(fn, values, blocks) /\ TypedAll(fn, values, bindings)
      /\ bindings \in Snapshot(Len(values)) /\ cur \in 1 .. Len(blocks)
  BY InTyped, StackFrames DEF TypeOK, NamesType
<1>3. CodeTyped(fn, values', blocks) /\ TypedAll(fn, values', bindings)
  BY <1>1, <1>2, CodeTypedKept, TypedGrows
<1>4. SiteAdded(blocks, blocks', phi)
  BY <1>2, EmitAdds
<1>5. CodeTyped(fn, values', blocks')
  BY <1>3, <1>4, CodeTypedAdded
<1>6. TypedAll(fn, values', bindings')
  BY <1>1, <1>2, <1>3, TypedBind DEF Snapshot
<1> QED
  BY <1>1, <1>5, <1>6

LEMMA MergeNameTyped ==
  ASSUME TypeOK, TypeOK', Typed, SingleInv, FlowInv, MergeName
  PROVE  Typed'
<1> DEFINE n     == names[Top.k]
           in    == Top.incoming
           th    == Top.then.bound
           el    == Top.else.bound
           bound == in[n] # Invalid /\ th[n] # Invalid /\ el[n] # Invalid
           both  == Top.then.reaches /\ Top.else.reaches
           type  == values[in[n]].type
           a     == ValueOf(th[n])
           b     == ValueOf(el[n])
           blks  == <<Top.then.end, Top.else.end>>
           new   == bound /\ both /\ th[n] # el[n]
<1>1. /\ Top.kind = "MERGE" /\ status = "lowering" /\ NextName
      /\ UNCHANGED <<fn, status, semVars>> /\ Top.k <= Top.count
  BY DEF MergeName, Active, runVars
<1>2. n \in AllName
  BY <1>1, LoopName
<1>3. /\ TypedAll(fn, values, bindings) /\ CodeTyped(fn, values, blocks)
      /\ bindings \in Snapshot(Len(values))
  BY <1>1, InTyped DEF TypeOK, NamesType
<1>4. /\ TypedAll(fn, values, in) /\ TypedAll(fn, values, th)
      /\ TypedAll(fn, values, el) /\ in \in Snapshot(Len(values))
      /\ th \in Snapshot(Len(values)) /\ el \in Snapshot(Len(values))
  BY <1>1, SnapshotsTyped DEF SnapshotKind
<1>5. CASE new
  <2>1. /\ NewValue(n, type) /\ bindings' = [bindings EXCEPT ![n] = NextId]
        /\ blocks' = Emit(blocks, cur, Phi(ValueOp(NextId, type), <<a, b>>,
                                           blks))
    BY <1>5 DEF MergeName
  <2> HIDE DEF n, in, th, el, blks
  <2>2. /\ n \in Name /\ type = TypeFor(fn, n)
        /\ a.type = type /\ TypedOperand(values, a)
        /\ b.type = type /\ TypedOperand(values, b)
        /\ th[n] \in 1 .. Len(values) /\ el[n] \in 1 .. Len(values)
    <3>1. /\ n \in Name /\ in[n] \in 1 .. Len(values)
          /\ type = TypeFor(fn, n)
      <4>1. /\ n \in Name /\ in[n] \in 1 .. Len(values)
            /\ ValueOf(in[n]).type = TypeFor(fn, n)
        BY <1>2, <1>4, <1>5, BoundTyped
      <4> QED
        BY <4>1 DEF ValueOf, ValueOp
    <3>2. /\ a.type = TypeFor(fn, n) /\ TypedOperand(values, a)
          /\ th[n] \in 1 .. Len(values)
      BY <1>2, <1>4, <1>5, BoundTyped
    <3>3. /\ b.type = TypeFor(fn, n) /\ TypedOperand(values, b)
          /\ el[n] \in 1 .. Len(values)
      BY <1>2, <1>4, <1>5, BoundTyped
    <3> QED
      BY <3>1, <3>2, <3>3
  <2>3. a \in Operand(Len(values)) /\ b \in Operand(Len(values))
    <3>1. Len(values) \in Nat
      BY StackFrames
    <3> QED
      BY <2>2, <3>1, ValueOfType DEF TypeOK, Operand
  <2> DEFINE r == ValueOp(NextId, type)
  <2>4. ValuesKept /\ values'[NextId].type = type
    BY <2>1, NewValueTypes
  <2>5. TypedOperand(values', r) /\ r.type = type
    BY <2>4 DEF TypedOperand, ValueOp
  <2>6. TypedOperand(values', a) /\ TypedOperand(values', b)
    BY <2>2, <2>3, <2>4, TypedGrows
  <2> HIDE DEF a, b, r, type
  <2>7. InstrTyped(fn, values', Phi(r, <<a, b>>, blks))
    BY <2>2, <2>5, <2>6, PhiTyped
  <2>8. /\ CodeTyped(fn, values', blocks')
        /\ TypedAll(fn, values', bindings')
    <3> DEFINE phi == Phi(r, <<a, b>>, blks)
    <3>1. blocks' = Emit(blocks, cur, phi) /\ InstrTyped(fn, values', phi)
      BY <2>1, <2>7 DEF r
    <3> HIDE DEF phi
    <3> QED
      BY <1>1, <2>1, <2>2, <3>1, PhiNameTyped
  <2> QED
    BY <1>1, <2>4, <2>8, NameTyped
<1>6. CASE ~new
  <2>1. /\ bindings' =
              IF bound /\ Top.then.reaches /\ ~Top.else.reaches
              THEN [bindings EXCEPT ![n] = th[n]]
              ELSE IF bound /\ ~Top.then.reaches /\ Top.else.reaches
              THEN [bindings EXCEPT ![n] = el[n]]
              ELSE bindings
        /\ UNCHANGED <<values, blocks>>
    BY <1>6 DEF MergeName, valueVars
  <2>2. ValuesKept /\ CodeTyped(fn, values', blocks')
    BY <1>3, <2>1, SameValues
  <2>3. bound => /\ n \in Name
                 /\ values[th[n]].type = TypeFor(fn, n)
                 /\ values[el[n]].type = TypeFor(fn, n)
    BY <1>2, <1>4 DEF TypedAll
  <2>4. TypedAll(fn, values', bindings')
    <3>1. bindings \in [AllName -> 0 .. Len(values)]
      BY <1>3 DEF Snapshot
    <3> HIDE DEF n, th, el, in
    <3>2. CASE bound /\ Top.then.reaches /\ ~Top.else.reaches
      <4>1. bindings' = [bindings EXCEPT ![n] = th[n]] /\ values' = values
        BY <2>1, <3>2
      <4> QED
        BY <1>3, <2>3, <3>1, <3>2, <4>1, TypedBind
    <3>3. CASE bound /\ ~Top.then.reaches /\ Top.else.reaches
      <4>1. bindings' = [bindings EXCEPT ![n] = el[n]] /\ values' = values
        BY <2>1, <3>3
      <4> QED
        BY <1>3, <2>3, <3>1, <3>3, <4>1, TypedBind
    <3>4. CASE ~(bound /\ Top.then.reaches /\ ~Top.else.reaches)
               /\ ~(bound /\ ~Top.then.reaches /\ Top.else.reaches)
      <4>1. bindings' = bindings /\ values' = values
        BY <2>1, <3>4
      <4> QED
        BY <1>3, <4>1
    <3> QED
      BY <3>2, <3>3, <3>4
  <2> QED
    BY <1>1, <2>2, <2>4, NameTyped
<1> QED
  BY <1>5, <1>6

LEMMA IfStatementTyped ==
  ASSUME TypeOK, TypeOK', Typed, SingleInv, FlowInv, IfStatement
  PROVE  Typed'
<1>1. ASSUME BeginIf
      PROVE  Typed'
  <2> DEFINE f == [kind |-> "IFCOND", wants |-> <<"BOOL">>, args |-> << >>]
  <2>1. /\ InList /\ Push(f) /\ f.kind = "IFCOND" /\ f.args = << >>
        /\ f.wants = <<"BOOL">>
        /\ UNCHANGED <<fn, blocks, values, bindings, status, semVars>>
    BY <1>1 DEF BeginIf, StartStatement, NextStatement, runVars, irVars,
       nameVars, valueVars
  <2> HIDE DEF f
  <2>2. WantsTyped(fn, f) /\ DOMAIN f.args = {}
    BY <2>1, WantsBool
  <2>3. FrameTyped(fn, values', f)
    BY <2>1, <2>2 DEF FrameTyped, TypedArgs, SnapshotKind
  <2>4. status = "lowering"
    BY <2>1 DEF InList
  <2>5. ValuesKept
    BY <2>1, SameValues
  <2>6. DeclTyped'
    BY <2>1, <2>4, <2>5, SameTyped
  <2> QED
    BY <2>1, <2>3, <2>5, <2>6, BeginStatementTyped
<1> QED
  BY <1>1, DropIfTyped, BranchIfTyped, EndThenTyped, EndElseTyped,
     MergeNameTyped, EndMergeTyped DEF IfStatement

-----------------------------------------------------------------------------
(***************************************************************************)
(* emit_while keeps the types.                                             *)
(***************************************************************************)

LEMMA BeginWhileTyped ==
  ASSUME TypeOK, TypeOK', Typed, SingleInv, FlowInv, BeginWhile
  PROVE  Typed'
<1> DEFINE n == Len(values)
           q == Len(blocks) + 3
           t == Len(blocks) + 1
           wide  == blocks \o <<NewBlock, NewBlock, NewBlock>>
           f == [kind |-> "HEADER", k |-> 1, count |-> Len(names),
                 incoming |-> bindings, pre |-> cur, header |-> t]
<1>1. /\ blocks' = Branch(wide, cur, t) /\ Push(f)
      /\ UNCHANGED <<fn, status, values, bindings, semVars>>
      /\ Top.kind \in ListKind /\ status = "lowering"
  BY DEF BeginWhile, StartStatement, NextStatement, InList, runVars, nameVars,
     valueVars
<1>2. /\ blocks \in Seq(Block(n, Len(blocks)))
      /\ Len(blocks) \in Nat /\ n \in Nat
  BY StackFrames
<1>3. /\ wide \in Seq(Block(n, q)) /\ Len(wide) = q /\ q \in Nat
      /\ Extends(blocks, wide) /\ t \in 1 .. q /\ Len(values) <= n
  <2>1. wide \in Seq(Block(n, q)) /\ Len(wide) = q
    BY <1>2, NewBlocksType
  <2>2. Extends(blocks, wide)
    BY <1>2, ExtendsNew
  <2> QED
    BY <1>2, <2>1, <2>2
<1>4. f.kind = "HEADER" /\ f.incoming = bindings
  OBVIOUS
<1> HIDE DEF wide, f, t, q, n
<1>5. SiteAdded(blocks, blocks', Jump(t))
  BY <1>1, <1>2, <1>3, BranchAdds
<1>6. CodeTyped(fn, values, blocks) /\ TypedAll(fn, values, bindings)
  BY <1>1, InTyped
<1>7. CodeTyped(fn, values', blocks')
  <2>1. CodeTyped(fn, values, blocks')
    BY <1>5, <1>6, JumpTyped, CodeTypedAdded
  <2> QED
    BY <1>1, <2>1
<1>8. ValuesKept
  BY <1>1, SameValues
<1>9. DeclTyped'
  BY <1>1, <1>8, SameTyped
<1>10. FrameTyped(fn, values', f)
  BY <1>1, <1>4, <1>6 DEF FrameTyped, ExprKind
<1>11. f.kind \notin OperandKind \cup {"CALL"}
  BY <1>4 DEF OperandKind
<1> QED
  BY <1>1, <1>7, <1>8, <1>9, <1>10, <1>11, PushTyped

\* A phi of one operand of its type.
LEMMA FirstEntryTyped ==
  ASSUME NEW h, NEW vs, NEW r, NEW a, NEW blks,
         TypedOperand(vs, r), TypedOperand(vs, a), a.type = r.type
  PROVE  InstrTyped(h, vs, Phi(r, <<a>>, blks))
<1> DEFINE args == <<a>>
           phi  == Phi(r, args, blks)
<1>1. phi.op = "PHI" /\ phi.dest = r /\ phi.args = args
  BY DEF Phi
<1>2. DOMAIN args = {1} /\ args[1] = a
  OBVIOUS
<1> HIDE DEF args, phi
<1>3. InstrTyped(h, vs, phi)
  BY <1>1, <1>2 DEF InstrTyped, TypedArgs, ArgsHaveType
<1> QED
  BY <1>3 DEF phi, args

LEMMA HeaderNameTyped ==
  ASSUME TypeOK, TypeOK', Typed, SingleInv, FlowInv, HeaderName
  PROVE  Typed'
<1> DEFINE n     == names[Top.k]
           s     == Top.incoming
           type  == values[s[n]].type
           a     == ValueOf(s[n])
           blks  == <<Top.pre>>
<1>1. /\ Top.kind = "HEADER" /\ status = "lowering" /\ NextName
      /\ UNCHANGED <<fn, status, semVars>> /\ Top.k <= Top.count
  BY DEF HeaderName, Active, runVars
<1>2. n \in AllName
  BY <1>1, LoopName
<1>3. /\ TypedAll(fn, values, bindings) /\ CodeTyped(fn, values, blocks)
  BY <1>1, InTyped
<1>4. TypedAll(fn, values, s) /\ s \in Snapshot(Len(values))
  BY <1>1, SnapshotsTyped DEF SnapshotKind
<1>5. CASE s[n] # Invalid
  <2>1. /\ NewValue(n, type) /\ bindings' = [bindings EXCEPT ![n] = NextId]
        /\ blocks' = Emit(blocks, cur, Phi(ValueOp(NextId, type), <<a>>,
                                           blks))
    BY <1>5 DEF HeaderName
  <2> HIDE DEF n, s, blks
  <2>2. /\ n \in Name /\ s[n] \in 1 .. Len(values)
        /\ a.type = TypeFor(fn, n) /\ TypedOperand(values, a)
    BY <1>2, <1>4, <1>5, BoundTyped
  <2>3. type = TypeFor(fn, n)
    BY <2>2 DEF ValueOf, ValueOp
  <2>4. a \in Operand(Len(values))
    BY <2>2, ValueOfType DEF TypeOK, Operand
  <2> DEFINE r == ValueOp(NextId, type)
  <2>5. ValuesKept /\ values'[NextId].type = type
    BY <2>1, NewValueTypes
  <2>6. TypedOperand(values', r) /\ r.type = type
    BY <2>5 DEF TypedOperand, ValueOp
  <2>7. TypedOperand(values', a)
    BY <2>2, <2>4, <2>5, TypedGrows
  <2> HIDE DEF a, r, type
  <2>8. InstrTyped(fn, values', Phi(r, <<a>>, blks))
    BY <2>2, <2>3, <2>6, <2>7, FirstEntryTyped
  <2>9. /\ CodeTyped(fn, values', blocks')
        /\ TypedAll(fn, values', bindings')
    <3> DEFINE phi == Phi(r, <<a>>, blks)
    <3>1. blocks' = Emit(blocks, cur, phi) /\ InstrTyped(fn, values', phi)
      BY <2>1, <2>8 DEF r
    <3> HIDE DEF phi
    <3> QED
      BY <1>1, <2>1, <2>2, <2>3, <3>1, PhiNameTyped
  <2> QED
    BY <1>1, <2>5, <2>9, NameTyped
<1>6. CASE s[n] = Invalid
  <2>1. UNCHANGED <<values, blocks, bindings>>
    BY <1>6 DEF HeaderName, nameVars, valueVars
  <2>2. /\ ValuesKept /\ CodeTyped(fn, values', blocks')
        /\ TypedAll(fn, values', bindings')
    BY <1>3, <2>1, SameValues
  <2> QED
    BY <1>1, <2>2, NameTyped
<1> QED
  BY <1>5, <1>6

LEMMA EndHeaderTyped ==
  ASSUME TypeOK, TypeOK', Typed, SingleInv, FlowInv, EndHeader
  PROVE  Typed'
<1> DEFINE f == [kind |-> "WHILECOND", wants |-> <<"BOOL">>, args |-> << >>,
                 incoming |-> Top.incoming, header |-> Top.header]
<1>1. /\ Top.kind = "HEADER" /\ status = "lowering" /\ Replace(f)
      /\ UNCHANGED <<fn, status, values, bindings, blocks, semVars>>
  BY DEF EndHeader, Active, runVars, irVars, nameVars, valueVars
<1>2. /\ f.kind = "WHILECOND" /\ f.args = << >> /\ f.wants = <<"BOOL">>
      /\ f.incoming = Top.incoming
  OBVIOUS
<1> HIDE DEF f
<1>3. ValuesKept
  BY <1>1, SameValues
<1>4. /\ TypedAll(fn, values', bindings') /\ DeclTyped'
      /\ CodeTyped(fn, values', blocks')
  BY <1>1, <1>3, SameTyped
<1>5. TypedAll(fn, values, Top.incoming)
  BY <1>1, SnapshotsTyped DEF SnapshotKind
<1>6. WantsTyped(fn, f) /\ DOMAIN f.args = {}
  BY <1>2, WantsBool
<1>7. FrameTyped(fn, values', f)
  BY <1>1, <1>2, <1>5, <1>6 DEF FrameTyped, TypedArgs
<1>8. f.kind \notin OperandKind \cup {"CALL"}
  BY <1>2 DEF OperandKind
<1> QED
  BY <1>1, <1>3, <1>4, <1>7, <1>8, ReplaceTyped

LEMMA BranchWhileTyped ==
  ASSUME TypeOK, TypeOK', Typed, SingleInv, FlowInv, BranchWhile
  PROVE  Typed'
<1> DEFINE f == [kind |-> "LOOP", rets |-> FALSE, incoming |-> Top.incoming,
                 bound |-> bindings, header |-> Top.header]
           o == Top.args[1]
           t == Top.header + 1
           e == Top.header + 2
<1>1. Top.kind = "WHILECOND" /\ status = "lowering" /\ Complete
  BY DEF BranchWhile, Active
<1>2. /\ o \in Operand(Len(values)) /\ o.type = "BOOL"
      /\ TypedOperand(values, o)
  BY <1>1, BoolOperand
<1>3. /\ blocks' = CondBranch(blocks, cur, o, t, e) /\ Replace(f)
      /\ UNCHANGED <<fn, status, values, bindings>> /\ EnterScope
  BY <1>2 DEF BranchWhile, runVars, nameVars, valueVars
<1>4. /\ f.kind = "LOOP" /\ f.incoming = Top.incoming /\ f.bound = bindings
  OBVIOUS
<1> HIDE DEF f
<1>5. Top \in WhileFrame(Len(values), Len(blocks)) /\ Len(blocks) \in Nat
  <2>1. Top \in Frame(Len(values), Len(blocks), Len(names))
        /\ Len(values) \in Nat /\ Len(blocks) \in Nat /\ Len(names) \in Nat
    BY StackFrames DEF StackFrame
  <2> QED
    BY <1>1, <2>1, FrameByKind
<1>6. t \in 1 .. Len(blocks) /\ e \in 1 .. Len(blocks) /\ t # e
  BY <1>5 DEF WhileFrame
<1>7. Opened(blocks, Len(blocks))
  BY StackFrames DEF Opened, Extends
<1> HIDE DEF o, t, e
<1>8. SiteAdded(blocks, blocks', Choice(o, t, e))
  BY <1>2, <1>3, <1>6, <1>7, SplitAdds
<1>9. /\ DeclTyped /\ CodeTyped(fn, values, blocks)
      /\ TypedAll(fn, values, bindings) /\ TypedAll(fn, values, Top.incoming)
  BY <1>1, InTyped, SnapshotsTyped DEF SnapshotKind
<1>10. CodeTyped(fn, values', blocks')
  <2>1. InstrTyped(fn, values, Choice(o, t, e))
    BY <1>2, ChoiceTyped
  <2> QED
    BY <1>3, <1>8, <1>9, <2>1, CodeTypedAdded
<1>11. FrameTyped(fn, values', f) /\ TypedAll(fn, values', bindings')
  BY <1>3, <1>4, <1>9 DEF FrameTyped, ExprKind
<1>12. ValuesKept /\ DeclTyped'
  BY <1>3, <1>9, SameValues DEF DeclTyped, EnterScope, Visible
<1>13. f.kind \notin OperandKind \cup {"CALL"}
  BY <1>4 DEF OperandKind
<1> QED
  BY <1>1, <1>3, <1>10, <1>11, <1>12, <1>13, ReplaceTyped

\* The value that the body of a loop carries back has the type of the phi.
LEMMA BackEdgeTyped ==
  ASSUME TypeOK, Typed, SingleInv, FlowInv, status = "lowering",
         Top.kind = "LOOP", NEW i \in DOMAIN blocks[Top.header].code,
         IsLeadingPhi(blocks[Top.header].code, i), NEW d,
         d = blocks[Top.header].code[i].dest, NEW v,
         v = BackEdgeValue(d.id), v # Invalid
  PROVE  /\ ValueOf(v).type = d.type /\ TypedOperand(values, ValueOf(v))
<1> DEFINE code == blocks[Top.header].code
           n    == values[d.id].name
<1>1. Top \in LoopFrame(Len(values), Len(blocks))
  <2>1. Top \in Frame(Len(values), Len(blocks), Len(names))
        /\ Len(values) \in Nat /\ Len(blocks) \in Nat /\ Len(names) \in Nat
    BY StackFrames DEF StackFrame
  <2> QED
    BY <2>1, FrameByKind
<1>2. Len(ctrl) \in 1 .. Len(ctrl) /\ Top = ctrl[Len(ctrl)]
  BY StackFrames
<1>3. Carries(values, Top, d)
  <2>1. CarriedIn(blocks, values, Top)
    BY <1>2, InLowering DEF Lowering, FrameFlow, FlowIn
  <2> QED
    BY <2>1 DEF CarriedIn
<1>4. n \in AllName
  <2>1. Top.header \in 1 .. Len(blocks)
    BY <1>2, HeaderIsBlock
  <2>2. code \in Seq(Instr(Len(values), Len(blocks))) /\ Len(values) \in Nat
        /\ Len(blocks) \in Nat
    BY <2>1, BlockFields, StackFrames
  <2>3. /\ code[i] \in Instr(Len(values), Len(blocks))
        /\ i \in 1 .. i
    BY <2>2
  <2>4. code[i].op = "PHI"
    BY <2>3 DEF IsLeadingPhi
  <2>5. d.id \in 1 .. Len(values)
    BY <2>2, <2>3, <2>4, PhiDest
  <2> QED
    BY <2>5, ValueOfType DEF TypeOK
<1>5. /\ TypedAll(fn, values, bindings) /\ TypedAll(fn, values, Top.incoming)
      /\ bindings \in Snapshot(Len(values))
      /\ Top.incoming \in Snapshot(Len(values))
  BY InTyped, SnapshotsTyped DEF SnapshotKind, TypeOK, NamesType
<1>6. d.type = TypeFor(fn, n) /\ Top.incoming[n] # Invalid
  BY <1>3, <1>4, <1>5 DEF Carries, TypedAll
<1> HIDE DEF n
<1>7. v = bindings[n] \/ v = Top.incoming[n]
  BY DEF BackEdgeValue, n
<1>8. CASE v = bindings[n]
  BY <1>4, <1>5, <1>6, <1>8, BoundTyped
<1>9. CASE v = Top.incoming[n]
  BY <1>4, <1>5, <1>6, <1>9, BoundTyped
<1> QED
  BY <1>7, <1>8, <1>9

\* A phi with one more operand of its type.
LEMMA EntryTyped ==
  ASSUME NEW n \in Nat, NEW m \in Nat, NEW instr \in Instr(n, m),
         instr.op = "PHI", NEW h, NEW vs, InstrTyped(h, vs, instr), NEW o,
         TypedOperand(vs, o), o.type = instr.dest.type, NEW b
  PROVE  InstrTyped(h, vs, PhiEntry(instr, o, b))
<1> DEFINE entry == PhiEntry(instr, o, b)
           a     == instr.args
<1>1. /\ entry.op = "PHI" /\ entry.dest = instr.dest
      /\ entry.args = Append(a, o)
  BY PhiEntryParts
<1>2. a \in Seq(Operand(n))
  BY DEF Instr
<1>3. /\ DOMAIN Append(a, o) = 1 .. Len(a) + 1 /\ Len(a) \in Nat
      /\ DOMAIN a = 1 .. Len(a)
      /\ \A j \in 1 .. Len(a) : Append(a, o)[j] = a[j]
      /\ Append(a, o)[Len(a) + 1] = o
  BY <1>2, AppendParts
<1>4. /\ \A j \in DOMAIN a : /\ TypedOperand(vs, a[j])
                             /\ a[j].type = instr.dest.type
      /\ TypedOperand(vs, instr.dest)
  BY DEF InstrTyped, TypedArgs, ArgsHaveType
<1> HIDE DEF entry, a
<1>5. \A j \in 1 .. Len(a) + 1 : j \in 1 .. Len(a) \/ j = Len(a) + 1
  BY <1>3
<1>6. \A j \in DOMAIN entry.args : /\ TypedOperand(vs, entry.args[j])
                                   /\ entry.args[j].type = instr.dest.type
  BY <1>1, <1>3, <1>4, <1>5
<1>7. InstrTyped(h, vs, entry)
  BY <1>1, <1>4, <1>6 DEF InstrTyped, TypedArgs, ArgsHaveType
<1> QED
  BY <1>7 DEF entry

LEMMA CloseLoopTyped ==
  ASSUME TypeOK, Typed, SingleInv, FlowInv, status = "lowering",
         Top.kind = "LOOP", NEW bs,
         bs \in Seq(Block(Len(values), Len(blocks))), Len(bs) = Len(blocks),
         CodeTyped(fn, values, bs),
         bs[Top.header].code = blocks[Top.header].code, NEW new,
         new = CloseLoop(bs, Top.header)
  PROVE  CodeTyped(fn, values, new)
<1>1. Len(values) \in Nat /\ Len(blocks) \in Nat
  BY StackFrames
<1>2. Positions(new) = Positions(bs)
  BY CloseLoopGrows
<1>3. ASSUME NEW q \in Positions(bs)
      PROVE  InstrTyped(fn, values, At(new, q))
  <2> DEFINE instr == At(bs, q)
             v     == BackEdgeValue(instr.dest.id)
  <2>1. InstrTyped(fn, values, instr)
    BY DEF CodeTyped
  <2>2. CASE At(new, q) = instr
    BY <2>1, <2>2
  <2>3. CASE At(new, q) # instr
    <3>1. /\ \E i \in DOMAIN bs[Top.header].code :
               /\ instr = bs[Top.header].code[i]
               /\ IsLeadingPhi(bs[Top.header].code, i)
          /\ instr \in Instr(Len(values), Len(blocks)) /\ instr.op = "PHI"
          /\ v # Invalid /\ At(new, q) = PhiEntry(instr, ValueOf(v), cur)
      BY <2>3, CloseLoopGrows
    <3>2. PICK i \in DOMAIN blocks[Top.header].code :
                 /\ instr = blocks[Top.header].code[i]
                 /\ IsLeadingPhi(blocks[Top.header].code, i)
      BY <3>1
    <3>3. v = BackEdgeValue(instr.dest.id)
      OBVIOUS
    <3> HIDE DEF instr, v
    <3>4. /\ ValueOf(v).type = instr.dest.type
          /\ TypedOperand(values, ValueOf(v))
      <4> DEFINE d == instr.dest
      <4>1. d = blocks[Top.header].code[i].dest /\ v = BackEdgeValue(d.id)
        BY <3>2, <3>3
      <4> HIDE DEF d
      <4>2. /\ ValueOf(v).type = d.type /\ TypedOperand(values, ValueOf(v))
        BY <3>1, <3>2, <4>1, BackEdgeTyped
      <4> QED
        BY <4>2 DEF d
    <3>5. InstrTyped(fn, values, PhiEntry(instr, ValueOf(v), cur))
      BY <1>1, <2>1, <3>1, <3>4, EntryTyped
    <3> QED
      BY <3>1, <3>5
  <2> QED
    BY <2>2, <2>3
<1> QED
  BY <1>2, <1>3 DEF CodeTyped

LEMMA EndLoopTyped ==
  ASSUME TypeOK, TypeOK', Typed, SingleInv, FlowInv, EndLoop
  PROVE  Typed'
<1> DEFINE h  == Top.header
           n  == Len(values)
           q  == Len(blocks)
           br == Branch(blocks, cur, h)
<1>1. /\ Top.kind = "LOOP" /\ status = "lowering" /\ EndStatement(FALSE)
      /\ UNCHANGED <<fn, status, values>> /\ bindings' = Top.bound
      /\ ExitScope
      /\ blocks' = IF blocks[cur].terminated THEN blocks
                   ELSE CloseLoop(br, h)
  BY DEF EndLoop, Active, Restore, runVars, valueVars
<1>2. /\ DeclTyped /\ CodeTyped(fn, values, blocks)
      /\ TypedAll(fn, values, Top.bound)
  BY <1>1, InTyped, SnapshotsTyped DEF SnapshotKind
<1>3. CodeTyped(fn, values, blocks')
  <2>1. CASE blocks[cur].terminated
    BY <1>1, <1>2, <2>1
  <2>2. CASE ~blocks[cur].terminated
    <3>1. blocks' = CloseLoop(br, h)
      BY <1>1, <2>2
    <3>2. Len(ctrl) \in 1 .. Len(ctrl) /\ Top = ctrl[Len(ctrl)]
      BY StackFrames
    <3>3. h \in 1 .. q
      BY <1>1, <3>2, FrameBlocks
    <3>4. blocks[h].terminated
      BY <1>1, <3>2, InLowering DEF Lowering, FrameFlow, FlowIn
    <3>5. /\ n \in Nat /\ Len(values) <= n /\ blocks \in Seq(Block(n, q))
          /\ Len(blocks) = q /\ q \in Nat /\ Extends(blocks, blocks)
          /\ cur \in 1 .. Len(blocks)
      BY StackFrames DEF Extends
    <3>6. cur # h
      BY <2>2, <3>4
    <3>7. br[h].code = blocks[h].code
      <4>1. Branched(blocks, br, cur, h)
        BY <3>3, <3>5, BranchEffect
      <4> QED
        BY <3>3, <3>6, <4>1 DEF Branched
    <3> HIDE DEF n, q
    <3>8. /\ SiteAdded(blocks, br, Jump(h))
          /\ br \in Seq(Block(n, q)) /\ Len(br) = q
      BY <3>3, <3>5, BranchAdds
    <3> HIDE DEF br
    <3>9. CodeTyped(fn, values, br)
      BY <1>2, <3>8, JumpTyped, CodeTypedAdded
    <3> QED
      BY <1>1, <3>1, <3>7, <3>8, <3>9, CloseLoopTyped DEF n, q
  <2> QED
    BY <2>1, <2>2
<1>4. /\ CodeTyped(fn, values', blocks') /\ TypedAll(fn, values', bindings')
  BY <1>1, <1>2, <1>3
<1>5. ValuesKept /\ DeclTyped'
  BY <1>1, <1>2, SameValues, LeaveTyped DEF ExitScope
<1> QED
  BY <1>1, <1>4, <1>5, SettleTyped DEF StatementKind

LEMMA WhileStatementTyped ==
  ASSUME TypeOK, TypeOK', Typed, SingleInv, FlowInv, WhileStatement
  PROVE  Typed'
BY BeginWhileTyped, HeaderNameTyped, EndHeaderTyped, BranchWhileTyped,
   EndLoopTyped DEF WhileStatement

-----------------------------------------------------------------------------
(***************************************************************************)
(* The end of emit_function, the removal of phis, and the theorems.        *)
(***************************************************************************)

LEMMA EndFunctionTyped ==
  ASSUME TypeOK, TypeOK', Typed, SingleInv, FlowInv, EndFunction
  PROVE  Typed'
<1> DEFINE instr == Instruction("RET", NoOperand, << >>)
<1>1. /\ status = "lowering" /\ status' # "lowering"
      /\ UNCHANGED <<fn, values, bindings, semVars>>
      /\ \/ blocks' = blocks
         \/ fn.ret = "VOID" /\ blocks' = Emit(blocks, cur, instr)
  BY DEF EndFunction, Active, nameVars, valueVars, NoReturn, FinalReturn
<1>2. CASE blocks' = blocks
  BY <1>1, <1>2, StoppedTyped
<1>3. CASE fn.ret = "VOID" /\ blocks' = Emit(blocks, cur, instr)
  <2>1. /\ instr.dest = NoOperand /\ instr.args = << >> /\ instr.op = "RET"
        /\ NoOperand.kind = "NONE" /\ DOMAIN << >> = {}
    BY DEF Instruction, NoOperand
  <2> HIDE DEF instr
  <2>2. InstrTyped(fn, values, instr)
    BY <1>3, <2>1 DEF InstrTyped, TypedOperand, TypedArgs
  <2>3. SiteAdded(blocks, blocks', instr)
    BY <1>3, StackFrames, EmitAdds
  <2>4. /\ DeclTyped /\ CodeTyped(fn, values, blocks)
        /\ TypedAll(fn, values, bindings)
    BY DEF Typed
  <2>5. CodeTyped(fn, values, blocks')
    BY <2>2, <2>3, <2>4, CodeTypedAdded
  <2>6. DeclTyped'
    BY <1>1, <2>4, SameDecl
  <2> QED
    BY <1>1, <2>4, <2>5, <2>6 DEF Typed
<1> QED
  BY <1>1, <1>2, <1>3

\* The operand that replaces a phi has the type of the phi.
LEMMA ReplacementTyped ==
  ASSUME NEW h, NEW vs, NEW phi, phi.op = "PHI", InstrTyped(h, vs, phi),
         PhiCollapses(phi)
  PROVE  /\ Replacement(phi).type = phi.dest.type
         /\ TypedOperand(vs, Replacement(phi))
<1>1. Replacement(phi) \in Incoming(phi)
  BY DEF PhiCollapses, Replacement
<1>2. PICK j \in DOMAIN phi.args : Replacement(phi) = phi.args[j]
  BY <1>1 DEF Incoming
<1> QED
  BY <1>2 DEF InstrTyped, TypedArgs, ArgsHaveType

LEMMA RewrittenTyped ==
  ASSUME NEW h, NEW vs, NEW old, InstrTyped(h, vs, old), NEW new,
         new.op = old.op, new.dest = old.dest, NEW id, NEW o,
         DOMAIN new.args = DOMAIN old.args,
         \A j \in DOMAIN old.args :
           new.args[j] = RewriteOperand(old.args[j], id, o),
         TypedOperand(vs, o), o.type = vs[id].type
  PROVE  InstrTyped(h, vs, new)
<1>1. ASSUME NEW j \in DOMAIN old.args
      PROVE  /\ TypedOperand(vs, new.args[j])
             /\ new.args[j].type = old.args[j].type
  <2>1. TypedOperand(vs, old.args[j])
    BY DEF InstrTyped, TypedArgs
  <2>2. CASE Refers(old.args[j], id)
    <3>1. new.args[j] = o /\ old.args[j].type = vs[id].type
      BY <2>1, <2>2 DEF RewriteOperand, Refers, TypedOperand
    <3> QED
      BY <3>1
  <2>3. CASE ~Refers(old.args[j], id)
    BY <2>1, <2>3 DEF RewriteOperand
  <2> QED
    BY <2>2, <2>3
<1>2. old.op = "CMP" => new.args[1].type = new.args[2].type
  BY <1>1 DEF InstrTyped
<1> QED
  BY <1>1, <1>2 DEF InstrTyped, TypedArgs, ArgsHaveType

LEMMA RemovePhiTyped ==
  ASSUME TypeOK, TypeOK', Typed, SingleInv, FlowInv, VisitPhi,
         PhiCollapses(CursorCode[cursor.index])
  PROVE  Typed'
<1> DEFINE phi  == CursorCode[cursor.index]
           gone == <<cursor.block, cursor.index>>
           id   == phi.dest.id
           o    == Replacement(phi)
<1>1. /\ gone \in Positions(blocks) /\ At(blocks, gone) = phi
      /\ phi \in Instr(Len(values), Len(blocks)) /\ phi.op = "PHI"
      /\ \E S : /\ Moves(S, blocks, blocks', gone, id, o)
                /\ Slides(S, blocks, blocks')
  BY PhiRemoved
<1>2. PICK S : Moves(S, blocks, blocks', gone, id, o)
  BY <1>1
<1>3. CodeTyped(fn, values, blocks)
  BY DEF Typed
<1>4. TypedOperand(values, o) /\ o.type = values[id].type
  <2>1. InstrTyped(fn, values, phi)
    BY <1>1, <1>3 DEF CodeTyped
  <2>2. phi.dest \in ValueOperand(Len(values))
    BY <1>1, StackFrames, PhiDest
  <2>3. PhiCollapses(phi)
    OBVIOUS
  <2> HIDE DEF phi
  <2>4. o.type = phi.dest.type /\ TypedOperand(values, o)
    BY <1>1, <2>1, <2>3, ReplacementTyped
  <2>5. phi.dest.type = values[phi.dest.id].type
    BY <2>1, <2>2 DEF InstrTyped, TypedOperand, ValueOperand
  <2> QED
    BY <2>4, <2>5
<1> HIDE DEF id, o, phi, gone
<1>5. ASSUME NEW p \in Positions(blocks')
      PROVE  InstrTyped(fn, values, At(blocks', p))
  <2>1. /\ S[p] \in Positions(blocks)
        /\ At(blocks', p).op = At(blocks, S[p]).op
        /\ At(blocks', p).dest = At(blocks, S[p]).dest
        /\ DOMAIN At(blocks', p).args = DOMAIN At(blocks, S[p]).args
        /\ \A j \in DOMAIN At(blocks, S[p]).args :
             At(blocks', p).args[j] =
               RewriteOperand(At(blocks, S[p]).args[j], id, o)
    BY <1>2 DEF Moves
  <2>2. InstrTyped(fn, values, At(blocks, S[p]))
    BY <1>3, <2>1 DEF CodeTyped
  <2> QED
    BY <1>4, <2>1, <2>2, RewrittenTyped
<1>6. CodeTyped(fn, values, blocks')
  BY <1>5 DEF CodeTyped
<1>7. /\ status' = "collapsing" /\ UNCHANGED <<fn, values, bindings, semVars>>
  BY DEF VisitPhi, nameVars, valueVars
<1> QED
  BY <1>6, <1>7, SameDecl DEF Typed

LEMMA CollapseTyped ==
  ASSUME TypeOK, TypeOK', Typed, SingleInv, FlowInv, Collapse
  PROVE  Typed'
<1>1. CASE VisitPhi /\ PhiCollapses(CursorCode[cursor.index])
  BY <1>1, RemovePhiTyped
<1>2. CASE ~(VisitPhi /\ PhiCollapses(CursorCode[cursor.index]))
  <2>1. /\ UNCHANGED <<fn, values, blocks, bindings, semVars>>
        /\ status' # "lowering"
    BY <1>2 DEF Collapse, VisitPhi, NextBlock, EndPass, irVars, nameVars,
       valueVars
  <2> QED
    BY <2>1, StoppedTyped
<1> QED
  BY <1>1, <1>2

\* The parameters have the types that the header declares.
LEMMA InitTyped ==
  ASSUME Init
  PROVE  Typed
<1>1. /\ blocks = <<NewBlock>> /\ fn \in Headers /\ decl = InitialDecl(fn)
      /\ ctrl = << [kind |-> "FBODY", rets |-> FALSE] >>
      /\ values = [i \in DOMAIN fn.params |->
                     [name |-> fn.params[i].name, version |-> 0,
                      type |-> fn.params[i].type]]
      /\ bindings = [n \in AllName |-> IF n \in ParamNames(fn)
                                       THEN ParamIndex(fn, n) ELSE Invalid]
  BY DEF Init
<1>2. fn.params \in Seq(Param)
  BY <1>1, HeadersAssumption
<1>3. Positions(blocks) = {}
  BY <1>1 DEF Positions, NewBlock
<1>4. CodeTyped(fn, values, blocks)
  BY <1>3 DEF CodeTyped
<1>5. TypedAll(fn, values, bindings)
  <2> SUFFICES ASSUME NEW n \in AllName, bindings[n] # Invalid
               PROVE  n \in Name /\ values[bindings[n]].type = TypeFor(fn, n)
    BY DEF TypedAll
  <2>1. n \in ParamNames(fn) /\ bindings[n] = ParamIndex(fn, n)
    BY <1>1
  <2>2. \E i \in DOMAIN fn.params : fn.params[i].name = n
    BY <2>1 DEF ParamNames
  <2>3. /\ ParamIndex(fn, n) \in DOMAIN fn.params
        /\ fn.params[ParamIndex(fn, n)].name = n
    BY <2>2 DEF ParamIndex
  <2>4. n \in Name
    <3>1. fn.params[ParamIndex(fn, n)] \in Param
      BY <1>2, <2>3
    <3> QED
      BY <2>3, <3>1 DEF Param
  <2>5. TypeFor(fn, n) = fn.params[ParamIndex(fn, n)].type
    BY <2>1, <2>4, InitialDeclParts DEF TypeFor
  <2> QED
    BY <1>1, <2>1, <2>3, <2>4, <2>5
<1>6. DeclTyped
  BY <1>1 DEF DeclTyped, Visible, TypeFor, Fixed
<1>7. LoweringTyped
  <2>1. DOMAIN ctrl = {1} /\ ctrl[1].kind = "FBODY"
    BY <1>1
  <2> QED
    BY <2>1 DEF LoweringTyped, FrameTyped, Delivers, ExprKind, SnapshotKind,
       OperandKind
<1> QED
  BY <1>4, <1>5, <1>6, <1>7 DEF Typed

LEMMA NextTyped ==
  ASSUME TypeOK, TypeOK', SingleInv, FlowInv, ScopeInv, TypedInv, [Next]_vars
  PROVE  TypedInv'
<1> SUFFICES ASSUME OneTypePerName
             PROVE  Typed'
  BY DEF TypedInv, OneTypePerName
<1>1. Typed
  BY DEF TypedInv
<1>2. CASE UNCHANGED vars
  <2>1. UNCHANGED <<fn, values, blocks, bindings, ctrl, status, semVars>>
    BY <1>2 DEF vars, irVars, valueVars
  <2> QED
    BY <1>1, <2>1, SameDecl DEF Typed, LoweringTyped
<1>3. CASE Next
  BY <1>1, <1>3, ExpressionTyped, SimpleStatementTyped, IfStatementTyped,
     WhileStatementTyped, EndFunctionTyped, CollapseTyped DEF Next
<1> QED
  BY <1>2, <1>3

\* For programs of any size: the scopes of the analysis follow the statement
\* lists that are lowered, and with one type for each name every operand,
\* binding, snapshot and declaration has the type of its name.
THEOREM TypingInvariant == Spec => [](ScopeInv /\ TypedInv)
<1> DEFINE Inv == /\ TypeOK /\ FlowInv /\ AtStart /\ SingleInv
                  /\ ScopeInv /\ TypedInv
<1>1. Init => Inv
  BY InitType, InitFlow, InitSingle, InitScopes, InitTyped DEF TypedInv
<1>2. Inv /\ [Next]_vars => Inv'
  BY NextType, NextFlow, StartKept, NextSingle, NextScopes, NextTyped
<1> QED
  BY <1>1, <1>2, PTL DEF Spec

\* For programs of any size: a visible variable that is bound is bound to a
\* value of its type, whatever scopes were left and bindings restored.
THEOREM BindingsHaveTypes == Spec => []BindingTypesMatch
<1>1. ScopeInv /\ TypedInv => BindingTypesMatch
  <2> SUFFICES ASSUME TypedInv, OneTypePerName, NEW n \in Name, Visible(n),
                      bindings[n] # Invalid
               PROVE  values[bindings[n]].type = decl[n].type
    BY DEF BindingTypesMatch
  <2>1. DeclTyped /\ TypedAll(fn, values, bindings) /\ n \in AllName
    BY DEF TypedInv, Typed, AllName
  <2> QED
    BY <2>1 DEF DeclTyped, TypedAll
<1> QED
  BY <1>1, TypingInvariant, PTL

\* For programs of any size: phis and copies join values of the type of their
\* destination, operators, branches and returns get operands of the types
\* they need, and every use of a value has the type of the value.
THEOREM CodeHasTypes == Spec => []CodeIsTyped
<1>1. ScopeInv /\ TypedInv => CodeIsTyped
  <2> SUFFICES ASSUME TypedInv, OneTypePerName
               PROVE  CodeIsTyped
    BY DEF CodeIsTyped
  <2>1. CodeTyped(fn, values, blocks)
    BY DEF TypedInv, Typed
  <2> QED
    BY <2>1 DEF CodeTyped, InstrTyped, TypedArgs, TypedOperand, CodeIsTyped,
       UsesAt
<1> QED
  BY <1>1, TypingInvariant, PTL

-----------------------------------------------------------------------------
(***************************************************************************)
(* Restoring a snapshot unbinds no name that may still be read.            *)
(***************************************************************************)

Bound(b, n) == b[n] # Invalid

\* The activations that will restore bindings, and those about to start or to
\* end with the bindings they remember.
RestoreKind == {"THEN", "ELSE", "LOOP"}
SettledKind == {"NOELSE", "MERGE", "HEADER"}

Restored(f) == IF f.kind = "LOOP" THEN f.bound ELSE f.incoming

\* Name n will be in sight when activation i ends.
Outlives(i, n) ==
  Visible(n) /\ \A j \in Depth(ctrl, i - 1) + 1 .. Len(scopes) : n \notin scopes[j]

SnapshotsSuffice ==
  \A i \in 1 .. Len(ctrl) : ctrl[i].kind \in RestoreKind =>
    \A n \in Name : Outlives(i, n) =>
      /\ Bound(bindings, n) => Bound(Restored(ctrl[i]), n)
      /\ \A j \in i + 1 .. Len(ctrl) :
           ctrl[j].kind \in RestoreKind /\ Bound(Restored(ctrl[j]), n)
             => Bound(Restored(ctrl[i]), n)

Settled ==
  Top.kind \in SettledKind =>
    \A n \in AllName : Bound(Top.incoming, n) <=> Bound(bindings, n)

\* A name that gets its first value was declared in the innermost scope.
AssignedIsLocal ==
  \A i \in 1 .. Len(ctrl) : ctrl[i].kind = "ASSIGN" =>
    Bound(bindings, ctrl[i].name) \/ ctrl[i].name \in Last(scopes)

BoundInv ==
  status = "lowering" =>
    InitialisedIsBound /\ SnapshotsSuffice /\ Settled /\ AssignedIsLocal

\* A step widens the view of no activation that goes on.
LEMMA SightNarrows ==
  ASSUME TypeOK, TypeOK', ScopeInv, status = "lowering", NEW k, StackTurn(k),
         ScopeStep(k), NEW i \in 1 .. k, ctrl[i].kind \in ListKind,
         NEW n \in Name, Outlives(i, n)'
  PROVE  Outlives(i, n) /\ n \notin Last(scopes)
<1> DEFINE l == Len(scopes)
           d == Depth(ctrl, i - 1)
<1>1. /\ k \in Nat /\ i \in Nat /\ i - 1 \in Nat /\ i - 1 \in 0 .. k
      /\ k <= Len(ctrl) /\ Len(ctrl) \in Nat
  <2>1. k \in Nat /\ k <= Len(ctrl)
    BY DEF StackTurn, Keeps
  <2>2. Len(ctrl) \in Nat
    BY StackFrames
  <2> QED
    BY <2>1, <2>2
<1>2. d \in Nat /\ Depth(ctrl', i - 1) = d
  <2>1. Depth(ctrl', i - 1) = Depth(ctrl, i - 1)
    BY <1>1, DepthStep
  <2> QED
    BY <1>1, <2>1, DepthOf
<1>3. l \in Nat /\ d + 1 <= l
  <2>1. Depth(ctrl, (i - 1) + 1) = Depth(ctrl, i - 1) + 1
    <3>1. ctrl[(i - 1) + 1].kind \in ListKind
      BY <1>1
    <3> QED
      BY <1>1, <3>1, DepthOf
  <2>2. (i - 1) + 1 = i /\ i \in 0 .. Len(ctrl)
    BY <1>1
  <2>3. Depth(ctrl, i) <= Depth(ctrl, Len(ctrl))
    BY <1>1, <2>2, DepthOf
  <2>4. l = Depth(ctrl, Len(ctrl)) /\ l \in Nat
    BY ScopeSeq DEF ScopeInv
  <2> QED
    BY <1>2, <2>1, <2>2, <2>3, <2>4
<1>4. Visible(n)' /\ \A j \in d + 1 .. Len(scopes') : n \notin scopes'[j]
  BY <1>2 DEF Outlives
<1>5. Last(scopes) = scopes[l] /\ l \in d + 1 .. l /\ l >= 1
  <2>1. l >= 1 /\ l \in d + 1 .. l
    <3> HIDE DEF l, d
    <3> QED
      BY <1>2, <1>3
  <2> QED
    BY <2>1, ScopeSeq
<1>6. SUFFICES Visible(n) /\ \A j \in d + 1 .. l : n \notin scopes[j]
  BY <1>5 DEF Outlives
<1> HIDE DEF l, d
<1>7. CASE UNCHANGED semVars
  BY <1>4, <1>7 DEF semVars, Visible, l
<1>8. ASSUME NEW m \in Name, NEW t \in ValType, Declare(m, t)
      PROVE  Visible(n) /\ \A j \in d + 1 .. l : n \notin scopes[j]
  <2>1. /\ \A x \in Name : x # m => decl'[x] = decl[x]
        /\ Len(scopes') = l
        /\ \A j \in 1 .. l : scopes[j] \subseteq scopes'[j]
        /\ m \in scopes'[l]
    BY <1>5, <1>8, DeclareParts DEF l
  <2>2. n # m
    BY <1>4, <1>5, <2>1
  <2>3. Visible(n)
    BY <1>4, <2>1, <2>2 DEF Visible
  <2> QED
    BY <1>2, <1>4, <2>1, <2>3
<1>9. ASSUME NEW m \in Name, Initialise(m)
      PROVE  Visible(n) /\ \A j \in d + 1 .. l : n \notin scopes[j]
  <2>1. UNCHANGED scopes /\ (Visible(n)' <=> Visible(n))
    BY <1>9, InitialiseParts
  <2> QED
    BY <1>4, <2>1 DEF l
<1>10. CASE EnterScope
  <2>1. /\ decl' = decl /\ scopes' = Append(scopes, {}) /\ Len(scopes') = l + 1
        /\ \A j \in 1 .. l : scopes'[j] = scopes[j]
    BY <1>10, ScopeSeq DEF EnterScope, l
  <2> QED
    BY <1>2, <1>3, <1>4, <2>1 DEF Visible
<1>11. ASSUME NEW next, LeaveScope(next),
              next \in {Front(scopes), Append(Front(scopes), {})}
       PROVE  Visible(n) /\ \A j \in d + 1 .. l : n \notin scopes[j]
  <2>1. Visible(n) /\ n \notin Last(scopes) /\ scopes' = next
    BY <1>4, <1>11, LeaveParts DEF LeaveScope
  <2>2. /\ Len(next) \in {l - 1, l}
        /\ \A j \in 1 .. l - 1 : next[j] = scopes[j]
    BY <1>5, <1>11, ScopeSeq DEF l
  <2>3. \A j \in d + 1 .. l : j = l \/ (j \in 1 .. l - 1 /\ j \in d + 1 .. Len(next))
    BY <1>2, <1>3, <2>2
  <2> QED
    BY <1>4, <1>5, <2>1, <2>2, <2>3
<1> QED
  BY <1>7, <1>8, <1>9, <1>10, <1>11 DEF ScopeStep

\* At the end of a list, what is left in sight outlives the list.
LEMMA TopOutlives ==
  ASSUME TypeOK, ScopeInv, status = "lowering", Top.kind \in ListKind,
         NEW n \in Name, Visible(n), n \notin Last(scopes)
  PROVE  Outlives(Len(ctrl), n)
<1>1. Len(ctrl) \in Nat /\ Len(ctrl) >= 1 /\ Top = ctrl[Len(ctrl)]
  BY StackFrames
<1>2. Len(ctrl) - 1 \in Nat /\ (Len(ctrl) - 1) + 1 = Len(ctrl)
  BY <1>1
<1>3. /\ Depth(ctrl, Len(ctrl)) = Depth(ctrl, Len(ctrl) - 1) + 1
      /\ Depth(ctrl, Len(ctrl) - 1) \in Nat
  BY <1>1, <1>2, DepthOf
<1>4. Len(scopes) = Depth(ctrl, Len(ctrl)) /\ Len(scopes) >= 1
  BY <1>3 DEF ScopeInv
<1>5. Last(scopes) = scopes[Len(scopes)]
  BY <1>4, ScopeSeq
<1>6. \A j \in Depth(ctrl, Len(ctrl) - 1) + 1 .. Len(scopes) : j = Len(scopes)
  BY <1>3, <1>4
<1> QED
  BY <1>5, <1>6 DEF Outlives

\* What a step may do to the bindings while k activations go on.
Gains(k) ==
  \A n \in Name : Bound(bindings', n) =>
    \/ Bound(bindings, n) \/ n \in Last(scopes)
    \/ /\ k = Len(ctrl) - 1 /\ Top.kind \in RestoreKind
       /\ Bound(Restored(Top), n)

KeepsBound ==
  \A n \in Name : Visible(n)' =>
    /\ Bound(bindings, n) => Bound(bindings', n)
    /\ decl'[n].init => \/ Visible(n) /\ decl[n].init
                      \/ Bound(bindings', n)

\* What it may put on top of them.
Begins(k) ==
  /\ k = Len(ctrl) => Top.kind \in ListKind \cup ExprKind
  /\ Len(ctrl') = k + 1 =>
       /\ LastFrame.kind \in RestoreKind \cup SettledKind =>
            \A n \in AllName :
              Bound(Restored(LastFrame), n) <=> Bound(bindings', n)
       /\ LastFrame.kind = "ASSIGN" =>
            \/ Bound(bindings', LastFrame.name)
            \/ LastFrame.name \in Last(scopes')
  /\ \/ UNCHANGED <<bindings, scopes>>
     \/ /\ Top.kind \notin OperandKind \cup {"CALL"}
        /\ Top.kind = "ASSIGN" => k = Len(ctrl) - 1

BoundStep(k) ==
  /\ status = "lowering"
  /\ StackTurn(k) /\ ScopeStep(k) /\ Gains(k) /\ KeepsBound /\ Begins(k)

LEMMA BoundKept ==
  ASSUME TypeOK, TypeOK', FlowInv, ScopeInv, BoundInv, NEW k, BoundStep(k)
  PROVE  BoundInv'
<1>1. /\ k \in Nat /\ Len(ctrl) \in {k, k + 1} /\ Len(ctrl') \in {k, k + 1}
      /\ \A i \in 1 .. k : Alike(ctrl[i], ctrl'[i])
      /\ LastFrame = ctrl'[Len(ctrl')] /\ Top = ctrl[Len(ctrl)]
      /\ status = "lowering" /\ StackTurn(k) /\ ScopeStep(k)
  BY StackFrames DEF BoundStep, StackTurn, Keeps, LastFrame
<1>2. /\ InitialisedIsBound /\ SnapshotsSuffice /\ Settled /\ AssignedIsLocal
      /\ ExpressionsNest
  BY <1>1 DEF BoundInv, FlowInv, Lowering
<1>3. Gains(k) /\ KeepsBound /\ Begins(k)
  BY DEF BoundStep
<1>4. \A i \in 1 .. k :
        /\ ctrl'[i].kind = ctrl[i].kind
        /\ ctrl[i].kind \in RestoreKind => Restored(ctrl'[i]) = Restored(ctrl[i])
        /\ ctrl[i].kind = "ASSIGN" => ctrl'[i].name = ctrl[i].name
  BY <1>1 DEF Alike, Restored, RestoreKind
<1>5. ASSUME NEW i \in 1 .. k, ctrl[i].kind \in RestoreKind, NEW n \in Name,
             Outlives(i, n)', Bound(bindings', n)
      PROVE  Bound(Restored(ctrl[i]), n)
  <2>1. Outlives(i, n) /\ n \notin Last(scopes)
    BY <1>1, <1>5, SightNarrows DEF RestoreKind, ListKind
  <2>2. i \in 1 .. Len(ctrl)
    BY <1>1
  <2>3. CASE Bound(bindings, n)
    BY <1>2, <1>5, <2>1, <2>2, <2>3 DEF SnapshotsSuffice
  <2>4. CASE /\ k = Len(ctrl) - 1 /\ Top.kind \in RestoreKind
             /\ Bound(Restored(Top), n)
    <3>1. Len(ctrl) \in i + 1 .. Len(ctrl) /\ ctrl[Len(ctrl)] = Top
      BY <1>1, <2>4
    <3> QED
      BY <1>2, <1>5, <2>1, <2>2, <2>4, <3>1 DEF SnapshotsSuffice
  <2> QED
    BY <1>3, <1>5, <2>1, <2>3, <2>4 DEF Gains
<1>6. InitialisedIsBound'
  <2>1. SUFFICES ASSUME NEW n \in Name, Visible(n)', decl'[n].init,
                        \A g \in Globals : g.name # n
                 PROVE  Bound(bindings', n)
    BY DEF InitialisedIsBound, Bound
  <2>2. (Visible(n) /\ decl[n].init) \/ Bound(bindings', n)
    BY <1>3, <2>1 DEF KeepsBound
  <2>3. Visible(n) /\ decl[n].init => Bound(bindings, n)
    BY <1>1, <1>2, <2>1 DEF InitialisedIsBound, Bound
  <2> QED
    BY <1>3, <2>1, <2>2, <2>3 DEF KeepsBound
<1>7. SnapshotsSuffice'
  <2>1. SUFFICES ASSUME NEW i \in 1 .. Len(ctrl'),
                        ctrl'[i].kind \in RestoreKind, NEW n \in Name,
                        Outlives(i, n)'
                 PROVE  /\ Bound(bindings', n) => Bound(Restored(ctrl'[i]), n)
                        /\ \A j \in i + 1 .. Len(ctrl') :
                             /\ ctrl'[j].kind \in RestoreKind
                             /\ Bound(Restored(ctrl'[j]), n)
                             => Bound(Restored(ctrl'[i]), n)
    BY DEF SnapshotsSuffice
  <2>2. n \in AllName
    BY DEF AllName
  <2>3. \A j \in 1 .. Len(ctrl') : j = k + 1 /\ ctrl'[j].kind \in RestoreKind =>
          (Bound(Restored(ctrl'[j]), n) <=> Bound(bindings', n))
    BY <1>1, <1>3, <2>2 DEF Begins
  <2>4. CASE i = k + 1
    <3>1. \A j \in i + 1 .. Len(ctrl') : FALSE
      BY <1>1, <2>4
    <3> QED
      BY <2>1, <2>3, <2>4, <3>1
  <2>5. CASE i \in 1 .. k
    <3>1. /\ ctrl[i].kind \in RestoreKind
          /\ Restored(ctrl'[i]) = Restored(ctrl[i])
          /\ Bound(bindings', n) => Bound(Restored(ctrl[i]), n)
      BY <1>4, <1>5, <2>1, <2>5
    <3>2. Outlives(i, n)
      BY <1>1, <2>1, <2>5, <3>1, SightNarrows DEF RestoreKind, ListKind
    <3>3. ASSUME NEW j \in i + 1 .. Len(ctrl'), ctrl'[j].kind \in RestoreKind,
                 Bound(Restored(ctrl'[j]), n)
          PROVE  Bound(Restored(ctrl[i]), n)
      <4>1. CASE j = k + 1
        <5>1. j \in 1 .. Len(ctrl')
          BY <2>5
        <5> QED
          BY <2>3, <3>1, <3>3, <4>1, <5>1
      <4>2. CASE j \in i + 1 .. k
        <5>1. j \in 1 .. k /\ j \in i + 1 .. Len(ctrl) /\ i \in 1 .. Len(ctrl)
          BY <1>1, <2>5, <4>2
        <5>2. ctrl[j].kind \in RestoreKind /\ Bound(Restored(ctrl[j]), n)
          BY <1>4, <3>3, <5>1
        <5> QED
          BY <1>2, <3>1, <3>2, <5>1, <5>2 DEF SnapshotsSuffice
      <4> QED
        BY <1>1, <2>5, <4>1, <4>2
    <3> QED
      BY <3>1, <3>3
  <2> QED
    BY <1>1, <2>1, <2>4, <2>5
<1>8. Settled'
  <2>1. CASE Len(ctrl') = k + 1
    <3>1. LastFrame.kind \in SettledKind =>
            \A n \in AllName :
              Bound(LastFrame.incoming, n) <=> Bound(bindings', n)
      BY <1>3, <2>1 DEF Begins, SettledKind, RestoreKind, Restored
    <3> QED
      BY <3>1, TopAfter DEF Settled
  <2>2. CASE Len(ctrl') = k
    <3>1. k \in 1 .. k /\ k \in 1 .. Len(ctrl)
      <4>1. StackType'
        BY DEF TypeOK
      <4>2. Len(ctrl') # 0
        BY <4>1 DEF StackType, Nested
      <4> QED
        BY <1>1, <2>2, <4>2
    <3>2. ctrl[k].kind \in ListKind \cup ExprKind
      <4>1. CASE k = Len(ctrl)
        BY <1>1, <1>3, <4>1 DEF Begins
      <4>2. CASE k \in 1 .. Len(ctrl) - 1
        BY <4>2, NotBelow
      <4> QED
        BY <1>1, <3>1, <4>1, <4>2
    <3>3. LastFrame.kind \notin SettledKind
      BY <1>1, <1>4, <2>2, <3>1, <3>2 DEF SettledKind, ListKind, ExprKind
    <3> QED
      BY <3>3, TopAfter DEF Settled
  <2> QED
    BY <1>1, <2>1, <2>2
<1>9. AssignedIsLocal'
  <2>1. SUFFICES ASSUME NEW i \in 1 .. Len(ctrl'), ctrl'[i].kind = "ASSIGN"
                 PROVE  \/ Bound(bindings', ctrl'[i].name)
                        \/ ctrl'[i].name \in Last(scopes')
    BY DEF AssignedIsLocal
  <2>2. CASE i = k + 1
    BY <1>1, <1>3, <2>1, <2>2 DEF Begins
  <2>3. CASE i \in 1 .. k
    <3>1. /\ ctrl[i].kind = "ASSIGN" /\ ctrl'[i].name = ctrl[i].name
          /\ i \in 1 .. Len(ctrl)
      BY <1>1, <1>4, <2>1, <2>3
    <3>2. UNCHANGED <<bindings, scopes>>
      <4>1. CASE i = Len(ctrl)
        BY <1>1, <1>3, <2>3, <3>1, <4>1 DEF Begins
      <4>2. CASE i < Len(ctrl)
        <5>1. /\ i \in DOMAIN ctrl /\ Len(ctrl) \in DOMAIN ctrl
              /\ ctrl[i].kind \in ExprKind
          BY <3>1, StackFrames DEF ExprKind
        <5>2. Top.kind \in OperandKind \cup {"CALL"}
          BY <1>1, <1>2, <4>2, <5>1 DEF ExpressionsNest
        <5> QED
          BY <1>3, <5>2 DEF Begins
      <4> QED
        BY <1>1, <3>1, <4>1, <4>2
    <3> QED
      BY <1>2, <3>1, <3>2 DEF AssignedIsLocal
  <2> QED
    BY <1>1, <2>1, <2>2, <2>3
<1> QED
  BY <1>6, <1>7, <1>8, <1>9 DEF BoundInv

\* The analysis initialises names in assignments only.
LEMMA KeepsBoundBy ==
  ASSUME TypeOK,
         \/ UNCHANGED semVars
         \/ EnterScope
         \/ \E n \in Name : \E t \in ValType : Declare(n, t)
         \/ \E next : LeaveScope(next),
         \A n \in Name : Visible(n)' /\ Bound(bindings, n) => Bound(bindings', n)
  PROVE  KeepsBound
<1> SUFFICES ASSUME NEW n \in Name, Visible(n)', decl'[n].init
             PROVE  Visible(n) /\ decl[n].init
  BY DEF KeepsBound
<1>1. CASE UNCHANGED semVars \/ EnterScope
  BY <1>1 DEF semVars, EnterScope, Visible
<1>2. ASSUME NEW m \in Name, NEW t \in ValType, Declare(m, t)
      PROVE  Visible(n) /\ decl[n].init
  <2>1. decl'[m].init = FALSE /\ (n # m => decl'[n] = decl[n])
    BY <1>2, DeclareParts
  <2> QED
    BY <2>1 DEF Visible
<1>3. ASSUME NEW next, LeaveScope(next)
      PROVE  Visible(n) /\ decl[n].init
  BY <1>3, LeaveParts
<1> QED
  BY <1>1, <1>2, <1>3

\* A step that leaves the bindings and the scopes alone.
LEMMA QuietBound ==
  ASSUME TypeOK, TypeOK', FlowInv, ScopeInv, BoundInv, status = "lowering",
         NEW k, StackTurn(k), ScopeStep(k), UNCHANGED <<bindings, semVars>>,
         k = Len(ctrl) => Top.kind \in ListKind \cup ExprKind,
         Len(ctrl') = k + 1 =>
           LastFrame.kind \notin RestoreKind \cup SettledKind \cup {"ASSIGN"}
  PROVE  BoundInv'
<1>1. KeepsBound
  BY KeepsBoundBy DEF Bound
<1>2. Gains(k)
  BY DEF Gains, Bound
<1>3. Begins(k)
  BY DEF Begins, semVars
<1> QED
  BY <1>1, <1>2, <1>3, BoundKept DEF BoundStep

LEMMA StoppedBound ==
  ASSUME status' # "lowering"
  PROVE  BoundInv'
BY DEF BoundInv

LEMMA FailBound ==
  ASSUME NEW e \in Error, Fail(e)
  PROVE  BoundInv'
<1>1. status' # "lowering"
  BY DEF Fail, Error, UnboundAssignment, AssignmentTypes, NoValue, AfterReturn,
         NoReturn, ReturnType, OperandTypes, ArgumentTypes, WhileType
<1> QED
  BY <1>1, StoppedBound

LEMMA PushBound ==
  ASSUME TypeOK, TypeOK', FlowInv, ScopeInv, BoundInv, status = "lowering",
         NEW f, Push(f), f.kind \in ExprKind \ {"ASSIGN"},
         Top.kind \in ListKind \cup ExprKind, UNCHANGED <<bindings, semVars>>
  PROVE  BoundInv'
<1>1. StackTurn(Len(ctrl)) /\ ScopeStep(Len(ctrl))
  BY PushScopes DEF ExprKind, ListKind
<1>2. LastFrame = f
  BY PushShape, StackFrames DEF LastFrame
<1>3. f.kind \notin RestoreKind \cup SettledKind \cup {"ASSIGN"}
  BY DEF ExprKind, RestoreKind, SettledKind
<1> QED
  BY <1>1, <1>2, <1>3, QuietBound

LEMMA ReplaceBound ==
  ASSUME TypeOK, TypeOK', FlowInv, ScopeInv, BoundInv, status = "lowering",
         NEW f, Replace(f), f.kind \in ExprKind \ {"ASSIGN"},
         Top.kind \notin ListKind, UNCHANGED <<bindings, semVars>>
  PROVE  BoundInv'
<1>1. StackTurn(Len(ctrl) - 1) /\ ScopeStep(Len(ctrl) - 1)
  BY ReplaceScopes DEF ExprKind, ListKind
<1>2. LastFrame = f /\ Len(ctrl) \in Nat
  BY ReplaceShape, StackFrames DEF LastFrame
<1>3. f.kind \notin RestoreKind \cup SettledKind \cup {"ASSIGN"}
  BY DEF ExprKind, RestoreKind, SettledKind
<1>4. Len(ctrl) - 1 # Len(ctrl)
  BY <1>2
<1> QED
  BY <1>1, <1>2, <1>3, <1>4, QuietBound

LEMMA DepartBound ==
  ASSUME TypeOK, TypeOK', FlowInv, ScopeInv, BoundInv, status = "lowering",
         Keeps(Len(ctrl) - 1), Len(ctrl') = Len(ctrl) - 1,
         Top.kind \notin ListKind, UNCHANGED <<bindings, semVars>>
  PROVE  BoundInv'
<1>1. StackTurn(Len(ctrl) - 1) /\ ScopeStep(Len(ctrl) - 1)
  BY DepartScopes
<1>2. Len(ctrl) \in Nat /\ Len(ctrl) - 1 # Len(ctrl)
  BY StackFrames
<1>3. Len(ctrl') # (Len(ctrl) - 1) + 1
  BY <1>2
<1> QED
  BY <1>1, <1>2, <1>3, QuietBound

LEMMA ExpressionBound ==
  ASSUME TypeOK, TypeOK', FlowInv, ScopeInv, BoundInv, Expression
  PROVE  BoundInv'
<1> USE DEF Active, Wanting, runVars, nameVars
<1>1. ASSUME NEW o, Receive(o), Top.kind \in ExprKind, status = "lowering",
             UNCHANGED <<bindings, semVars>>
      PROVE  BoundInv'
  <2>1. StackTurn(Len(ctrl)) /\ ScopeStep(Len(ctrl))
    BY <1>1, ReceiveScopes
  <2>2. Len(ctrl') # Len(ctrl) + 1
    BY <1>1, ReceiveShape, StackFrames
  <2> QED
    BY <1>1, <2>1, <2>2, QuietBound
<1>2. ASSUME NEW t \in ValType, Literal(t)
      PROVE  BoundInv'
  BY <1>1, <1>2 DEF Literal
<1>3. ASSUME NEW n \in Name, Identifier(n)
      PROVE  BoundInv'
  BY <1>1, <1>3 DEF Identifier, Readable
<1>4. ASSUME NEW n \in Name, UnboundIdentifier(n)
      PROVE  BoundInv'
  BY <1>4, FailBound DEF UnboundIdentifier, Error
<1>5. ASSUME NEW f, f.kind \in OperandKind \cup {"CALL"}, BeginExpr(f),
             status = "lowering", Top.kind \in ExprKind
      PROVE  BoundInv'
  <2>1. Push(f) /\ UNCHANGED <<bindings, semVars>>
    BY <1>5 DEF BeginExpr
  <2>2. f.kind \in ExprKind \ {"ASSIGN"}
    BY <1>5 DEF ExprKind, OperandKind
  <2> QED
    BY <1>5, <2>1, <2>2, PushBound
<1>6. ASSUME NEW op, NEW t, BeginBinary(op, t)
      PROVE  BoundInv'
  BY <1>5, <1>6 DEF BeginBinary, OperandKind
<1>7. ASSUME BeginNot
      PROVE  BoundInv'
  BY <1>5, <1>7 DEF BeginNot, OperandKind
<1>8. ASSUME NEW isOr \in BOOLEAN, BeginLogic(isOr)
      PROVE  BoundInv'
  BY <1>5, <1>8 DEF BeginLogic, OperandKind
<1>9. ASSUME NEW g \in Callees, BeginCall(g)
      PROVE  BoundInv'
  BY <1>5, <1>9 DEF BeginCall, OperandKind
<1>10. ASSUME Top.kind \in OperandKind \cup {"CALL"},
              Top.kind = "CALL" => Caller.kind \notin ListKind,
              NEW o, Return(o), UNCHANGED <<bindings, semVars>>,
              status = "lowering"
       PROVE  BoundInv'
  <2>1. ctrl[Len(ctrl) - 1].kind \in ExprKind /\ Top.kind # "FBODY"
    BY <1>10, OperandCaller DEF Caller
  <2>2. Keeps(Len(ctrl) - 1) /\ Len(ctrl') = Len(ctrl) - 1
    BY <1>10, <2>1, ReturnShape
  <2>3. Top.kind \notin ListKind
    BY <1>10 DEF OperandKind, ListKind
  <2> QED
    BY <1>10, <2>2, <2>3, DepartBound
<1>11. ASSUME FinishBinary
       PROVE  BoundInv'
  BY <1>10, <1>11, FailBound DEF FinishBinary, Error, OperandKind
<1>12. ASSUME FinishNot
       PROVE  BoundInv'
  BY <1>10, <1>12, FailBound DEF FinishNot, Error, OperandKind
<1>13. ASSUME DropLogic
       PROVE  BoundInv'
  BY <1>10, <1>13 DEF DropLogic, OperandKind
<1>14. ASSUME SplitLogic
       PROVE  BoundInv'
  <2>1. /\ status = "lowering" /\ UNCHANGED <<bindings, semVars>>
        /\ Top.kind = "LEFT" /\ \E f : f.kind = "RIGHT" /\ Replace(f)
    BY <1>14 DEF SplitLogic
  <2>2. Top.kind \notin ListKind /\ "RIGHT" \in ExprKind \ {"ASSIGN"}
    BY <2>1 DEF ListKind, ExprKind
  <2> QED
    BY <2>1, <2>2, ReplaceBound
<1>15. ASSUME FinishLogic
       PROVE  BoundInv'
  BY <1>10, <1>15 DEF FinishLogic, OperandKind
<1>16. ASSUME FinishCall
       PROVE  BoundInv'
  <2>1. /\ status = "lowering" /\ UNCHANGED <<bindings, semVars>>
        /\ Top.kind = "CALL"
    BY <1>16 DEF FinishCall
  <2>2. CASE Caller.kind \in ListKind
    <3>1. Pop
      BY <1>16, <2>2 DEF FinishCall, Caller
    <3>2. Keeps(Len(ctrl) - 1) /\ Len(ctrl') = Len(ctrl) - 1
      BY <2>1, <3>1, PopShape
    <3>3. Top.kind \notin ListKind
      BY <2>1 DEF ListKind
    <3> QED
      BY <2>1, <3>2, <3>3, DepartBound
  <2>3. CASE Caller.kind \notin ListKind
    <3>1. \E o : Return(o)
      BY <1>16, <2>3 DEF FinishCall, Caller
    <3> QED
      BY <1>10, <2>1, <2>3, <3>1
  <2> QED
    BY <2>2, <2>3
<1>17. ASSUME ArgumentMismatch
       PROVE  BoundInv'
  BY <1>17, FailBound DEF ArgumentMismatch, Error
<1> QED
  BY <1>2, <1>3, <1>4, <1>6, <1>7, <1>8, <1>9, <1>11, <1>12, <1>13, <1>14,
     <1>15, <1>16, <1>17 DEF Expression

LEMMA DeclareBound ==
  ASSUME TypeOK, TypeOK', FlowInv, ScopeInv, BoundInv, status = "lowering",
         UNCHANGED <<ctrl, bindings>>, Top.kind \in ListKind,
         NEW n \in Name, NEW t \in ValType, Declare(n, t)
  PROVE  BoundInv'
<1>1. StackTurn(Len(ctrl)) /\ ScopeStep(Len(ctrl))
  BY DeclareScopes
<1>2. KeepsBound /\ Gains(Len(ctrl))
  BY KeepsBoundBy DEF Gains, Bound
<1>3. Len(ctrl') # Len(ctrl) + 1
  <2>1. Len(ctrl) \in Nat /\ Len(ctrl') = Len(ctrl)
    BY StackFrames
  <2> QED
    BY <2>1
<1>4. Begins(Len(ctrl))
  BY <1>3 DEF Begins, ListKind, OperandKind
<1> QED
  BY <1>1, <1>2, <1>4, BoundKept DEF BoundStep

LEMMA BeginAssignmentBound ==
  ASSUME TypeOK, TypeOK', FlowInv, ScopeInv, BoundInv, InList,
         NEW n \in Name, NEW u, NEW t, BeginAssignment(n, u, t),
         \/ UNCHANGED semVars /\ bindings[n] # Invalid
         \/ \E v \in ValType : Declare(n, v)
  PROVE  BoundInv'
<1> DEFINE f == [kind |-> "ASSIGN", name |-> n, dest |-> ValueOp(NextId, t),
                 wants |-> <<u>>, args |-> << >>]
<1>1. /\ Push(f) /\ f.kind = "ASSIGN" /\ f.name = n /\ UNCHANGED bindings
      /\ status = "lowering" /\ Top.kind \in ListKind
  BY DEF BeginAssignment, InList
<1> HIDE DEF f
<1>2. f.kind \notin ListKind
  BY <1>1 DEF ListKind
<1>3. \/ UNCHANGED semVars
      \/ \E m \in Name : \E v \in ValType : Declare(m, v)
  OBVIOUS
<1>4. StackTurn(Len(ctrl)) /\ ScopeStep(Len(ctrl))
  BY <1>1, <1>2, <1>3, PushScopes
<1>5. LastFrame = f
  BY <1>1, PushShape, StackFrames DEF LastFrame
<1>6. KeepsBound /\ Gains(Len(ctrl))
  BY <1>1, <1>3, KeepsBoundBy DEF Gains, Bound
<1>7. Bound(bindings', n) \/ n \in Last(scopes')
  <2>1. CASE bindings[n] # Invalid
    BY <1>1, <2>1 DEF Bound
  <2>2. ASSUME NEW v \in ValType, Declare(n, v)
        PROVE  n \in Last(scopes')
    <3>1. Len(scopes) >= 1 /\ Len(scopes) \in Nat
      <4>1. /\ Len(ctrl) \in Nat /\ Len(ctrl) >= 1 /\ Top = ctrl[Len(ctrl)]
            /\ Len(ctrl) - 1 \in Nat /\ (Len(ctrl) - 1) + 1 = Len(ctrl)
        BY StackFrames
      <4>2. /\ Depth(ctrl, Len(ctrl)) = Depth(ctrl, Len(ctrl) - 1) + 1
            /\ Depth(ctrl, Len(ctrl) - 1) \in Nat
        BY <1>1, <4>1, DepthOf
      <4> QED
        BY <1>1, <4>2 DEF ScopeInv
    <3>2. n \in scopes'[Len(scopes)] /\ Len(scopes') = Len(scopes)
      BY <2>2, <3>1, DeclareParts
    <3> QED
      BY <3>2 DEF Last
  <2> QED
    BY <2>1, <2>2
<1>8. Begins(Len(ctrl))
  BY <1>1, <1>5, <1>7
  DEF Begins, ListKind, OperandKind, RestoreKind, SettledKind
<1> QED
  BY <1>1, <1>4, <1>6, <1>8, BoundKept DEF BoundStep

LEMMA FinishAssignmentBound ==
  ASSUME TypeOK, TypeOK', FlowInv, ScopeInv, BoundInv, FinishAssignment
  PROVE  BoundInv'
<1>1. CASE Fail(AssignmentTypes)
  BY <1>1, FailBound DEF Error
<1>2. CASE ~Fail(AssignmentTypes)
  <2> DEFINE m == Top.name
             id == Top.dest.id
             l == Len(ctrl)
  <2>1. /\ status = "lowering" /\ Top.kind = "ASSIGN" /\ Pop
        /\ Initialise(m) /\ bindings' = [bindings EXCEPT ![m] = id]
    BY <1>2 DEF FinishAssignment, Active
  <2>2. /\ l \in Nat /\ l >= 1 /\ Top = ctrl[l] /\ l \in 1 .. l
        /\ Top \in StackFrame
    BY StackFrames
  <2>3. m \in Name /\ Top.dest \in ValueOperand(Len(values))
    BY <2>1, <2>2, FrameOperands
  <2>4. id # Invalid
    <3>1. id \in 1 .. Len(values)
      BY <2>3 DEF ValueOperand
    <3> QED
      BY <3>1, StackFrames DEF Invalid
  <2>5. bindings \in Snapshot(Len(values)) /\ m \in AllName
    BY <2>3 DEF TypeOK, NamesType, AllName
  <2> HIDE DEF m, id, l
  <2>6. /\ bindings'[m] = id
        /\ \A n \in AllName : n # m => bindings'[n] = bindings[n]
    BY <2>1, <2>5 DEF Snapshot
  <2>7. Bound(bindings', m) /\ \A n \in Name :
          n # m => (Bound(bindings', n) <=> Bound(bindings, n))
    BY <2>4, <2>6 DEF Bound, AllName
  <2>8. Bound(bindings, m) \/ m \in Last(scopes)
    <3>1. l \in 1 .. Len(ctrl) /\ ctrl[l].kind = "ASSIGN" /\ ctrl[l].name = m
      BY <2>1, <2>2 DEF l, m
    <3>2. AssignedIsLocal
      BY <2>1 DEF BoundInv
    <3> QED
      BY <3>1, <3>2 DEF AssignedIsLocal
  <2>9. Keeps(l - 1) /\ Len(ctrl') = l - 1
    BY <2>1, PopShape DEF l
  <2>10. StackTurn(l - 1) /\ ScopeStep(l - 1)
    <3>1. Top.kind \notin ListKind
      BY <2>1 DEF ListKind
    <3> QED
      BY <2>1, <2>3, <2>9, <3>1, DepartScopes DEF l
  <2>11. Gains(l - 1)
    BY <2>7, <2>8 DEF Gains
  <2>12. KeepsBound
    <3>1. \A n \in Name : /\ Visible(n)' <=> Visible(n)
                          /\ n # m => decl'[n] = decl[n]
      BY <2>1, <2>3, InitialiseParts
    <3> QED
      BY <2>7, <3>1 DEF KeepsBound
  <2>13. Begins(l - 1)
    <3>1. l - 1 # Len(ctrl) /\ Len(ctrl') # (l - 1) + 1 /\ l - 1 = Len(ctrl) - 1
      BY <2>2, <2>9 DEF l
    <3> QED
      BY <2>1, <3>1 DEF Begins, OperandKind
  <2> QED
    BY <2>1, <2>10, <2>11, <2>12, <2>13, BoundKept DEF BoundStep
<1> QED
  BY <1>1, <1>2

\* A statement ends and leaves the bindings as they are.
LEMMA EndBound ==
  ASSUME TypeOK, TypeOK', FlowInv, ScopeInv, BoundInv, status = "lowering",
         Top.kind \in StatementKind, Top.kind \notin ListKind, NEW r,
         EndStatement(r), UNCHANGED <<bindings, semVars>>
  PROVE  BoundInv'
<1>1. ctrl[Len(ctrl) - 1].kind \in ListKind /\ Top.kind # "FBODY"
  BY StatementCaller
<1>2. Keeps(Len(ctrl) - 1) /\ Len(ctrl') = Len(ctrl) - 1
  BY <1>1, EndShape
<1> QED
  BY <1>2, DepartBound

LEMMA EnterBound ==
  ASSUME TypeOK, TypeOK', FlowInv, ScopeInv, BoundInv, BeginBlock
  PROVE  BoundInv'
<1> DEFINE f == [kind |-> "BLOCK", rets |-> FALSE]
<1>1. /\ Push(f) /\ f.kind = "BLOCK" /\ UNCHANGED bindings /\ EnterScope
      /\ status = "lowering" /\ Top.kind \in ListKind
  BY DEF BeginBlock, StartStatement, NextStatement, InList, nameVars
<1> HIDE DEF f
<1>2. f.kind \in ListKind
  BY <1>1 DEF ListKind
<1>3. StackTurn(Len(ctrl)) /\ ScopeStep(Len(ctrl))
  BY <1>1, <1>2, EnterScopes
<1>4. LastFrame = f
  BY <1>1, PushShape, StackFrames DEF LastFrame
<1>5. KeepsBound /\ Gains(Len(ctrl))
  BY <1>1, KeepsBoundBy DEF Gains, Bound
<1>6. Begins(Len(ctrl))
  BY <1>1, <1>4 DEF Begins, ListKind, OperandKind, RestoreKind, SettledKind
<1> QED
  BY <1>1, <1>3, <1>5, <1>6, BoundKept DEF BoundStep

LEMMA EndBlockBound ==
  ASSUME TypeOK, TypeOK', FlowInv, ScopeInv, BoundInv, EndBlock
  PROVE  BoundInv'
<1> DEFINE k == Len(ctrl) - 1
<1>1. /\ status = "lowering" /\ Top.kind = "BLOCK" /\ EndStatement(Top.rets)
      /\ LeaveScope(Front(scopes)) /\ UNCHANGED bindings
  BY DEF EndBlock, ExitScope, LeaveScope, Active, nameVars
<1>2. ctrl[k].kind \in ListKind /\ Top.kind # "FBODY"
  BY <1>1, StatementCaller DEF StatementKind
<1>3. Keeps(k) /\ Len(ctrl') = k
  BY <1>1, <1>2, EndShape
<1>4. StackTurn(k) /\ ScopeStep(k)
  BY <1>1, <1>3, DepartScopes DEF ListKind
<1>5. KeepsBound /\ Gains(k)
  BY <1>1, KeepsBoundBy DEF Gains, Bound
<1>6. k # Len(ctrl) /\ Len(ctrl') # k + 1
  BY <1>3, StackFrames
<1>7. Begins(k)
  BY <1>1, <1>6 DEF Begins, OperandKind
<1> QED
  BY <1>1, <1>4, <1>5, <1>7, BoundKept DEF BoundStep

LEMMA SimpleStatementBound ==
  ASSUME TypeOK, TypeOK', FlowInv, ScopeInv, BoundInv, SimpleStatement
  PROVE  BoundInv'
<1> USE DEF Active, InList, NextStatement, StartStatement, runVars, nameVars
<1>1. ASSUME StatementAfterReturn
      PROVE  BoundInv'
  BY <1>1, FailBound DEF StatementAfterReturn, Error
<1>2. ASSUME NEW n \in Name, NEW t \in DeclTypes[n], DeclareOnly(n, t)
      PROVE  BoundInv'
  <2>1. /\ status = "lowering" /\ UNCHANGED <<ctrl, bindings>>
        /\ Top.kind \in ListKind /\ Declare(n, t) /\ t \in ValType
    BY <1>2, DeclTypesAssumption DEF DeclareOnly
  <2> QED
    BY <2>1, DeclareBound
<1>3. ASSUME NEW n \in Name, NEW t \in DeclTypes[n], DeclareAndAssign(n, t)
      PROVE  BoundInv'
  <2>1. InList /\ Declare(n, t) /\ t \in ValType /\ BeginAssignment(n, t, t)
    BY <1>3, DeclTypesAssumption DEF DeclareAndAssign
  <2> QED
    BY <2>1, BeginAssignmentBound
<1>4. ASSUME NEW n \in Name, Assign(n)
      PROVE  BoundInv'
  <2>1. /\ InList /\ UNCHANGED semVars /\ bindings[n] # Invalid
        /\ \E u, t : BeginAssignment(n, u, t)
    BY <1>4 DEF Assign
  <2> QED
    BY <2>1, BeginAssignmentBound
<1>5. ASSUME NEW n \in Name, AssignUnbound(n)
      PROVE  BoundInv'
  BY <1>5, FailBound DEF AssignUnbound, Error
<1>6. ASSUME BeginReturn
      PROVE  BoundInv'
  <2>1. /\ status = "lowering" /\ Top.kind \in ListKind
        /\ UNCHANGED <<bindings, semVars>>
        /\ \E f : f.kind = "RETURN" /\ Push(f)
    BY <1>6 DEF BeginReturn
  <2> QED
    BY <2>1, PushBound DEF ExprKind
<1>7. ASSUME FinishReturn
      PROVE  BoundInv'
  <2>1. CASE Fail(ReturnType)
    BY <2>1, FailBound DEF Error
  <2>2. CASE ~Fail(ReturnType)
    <3>1. /\ status = "lowering" /\ Top.kind = "RETURN" /\ EndStatement(TRUE)
          /\ UNCHANGED <<bindings, semVars>>
      BY <1>7, <2>2 DEF FinishReturn
    <3> QED
      BY <3>1, EndBound DEF StatementKind, ListKind
  <2> QED
    BY <2>1, <2>2
<1>8. ASSUME ReturnNothing
      PROVE  BoundInv'
  <2>1. CASE Fail(ReturnType)
    BY <2>1, FailBound DEF Error
  <2>2. CASE ~Fail(ReturnType)
    <3> DEFINE l == Len(ctrl)
               g == [ctrl[l] EXCEPT !.rets = TRUE]
    <3>1. /\ status = "lowering" /\ Top.kind \in ListKind
          /\ UNCHANGED <<bindings, semVars>> /\ ctrl' = [ctrl EXCEPT ![l] = g]
      BY <1>8, <2>2 DEF ReturnNothing
    <3>2. /\ l \in Nat /\ l >= 1 /\ ctrl \in Seq(StackFrame) /\ ctrl[l] = Top
          /\ ctrl[l] \in Frame(Len(values), Len(blocks), Len(names))
          /\ Len(values) \in Nat /\ Len(blocks) \in Nat /\ Len(names) \in Nat
      BY StackFrames DEF StackFrame
    <3>3. g = [ctrl[l] EXCEPT !.rets = TRUE]
      OBVIOUS
    <3>4. ctrl[l].kind \in ListKind
      BY <3>1, <3>2
    <3> HIDE DEF g, l
    <3>5. Alike(ctrl[l], g)
      BY <3>2, <3>3, <3>4, AlikeRets
    <3>6. /\ l <= Len(ctrl) /\ Len(ctrl) = l
          /\ \A i \in 1 .. l : ctrl[i] = ctrl[i]
      BY <3>2 DEF l
    <3>7. Keeps(l) /\ Len(ctrl') = l
      BY <3>1, <3>2, <3>5, <3>6, UpdateShape
    <3>8. StackTurn(l) /\ ScopeStep(l)
      BY <3>1, <3>2, <3>6, <3>7 DEF StackTurn, ScopeStep, Owned, Owns
    <3>9. Len(ctrl') # l + 1
      BY <3>2, <3>7
    <3> QED
      BY <3>1, <3>8, <3>9, QuietBound
  <2> QED
    BY <2>1, <2>2
<1>9. ASSUME NEW g \in Callees, CallStatement(g)
      PROVE  BoundInv'
  <2>1. /\ status = "lowering" /\ Top.kind \in ListKind
        /\ UNCHANGED <<bindings, semVars>>
        /\ \E f : f.kind = "CALL" /\ Push(f)
    BY <1>9 DEF CallStatement
  <2> QED
    BY <2>1, PushBound DEF ExprKind
<1> QED
  BY <1>1, <1>2, <1>3, <1>4, <1>5, <1>6, <1>7, <1>8, <1>9, EnterBound,
     EndBlockBound, FinishAssignmentBound DEF SimpleStatement

\* At the end of a list that restores a snapshot, what stays in sight stays
\* bound.
LEMMA RestoreKeeps ==
  ASSUME TypeOK, ScopeInv, BoundInv, status = "lowering",
         Top.kind \in RestoreKind, bindings' = Restored(Top), NEW next,
         LeaveScope(next)
  PROVE  KeepsBound /\ Gains(Len(ctrl) - 1)
<1>1. /\ SnapshotsSuffice /\ Top = ctrl[Len(ctrl)]
      /\ Len(ctrl) \in 1 .. Len(ctrl) /\ Top.kind \in ListKind
  BY StackFrames DEF BoundInv, RestoreKind, ListKind
<1>2. ASSUME NEW n \in Name, Visible(n)', Bound(bindings, n)
      PROVE  Bound(bindings', n)
  <2>1. Visible(n) /\ n \notin Last(scopes)
    BY <1>2, LeaveParts
  <2>2. Outlives(Len(ctrl), n)
    BY <1>1, <2>1, TopOutlives
  <2> QED
    BY <1>1, <1>2, <2>2 DEF SnapshotsSuffice
<1>3. KeepsBound
  BY <1>2, KeepsBoundBy
<1>4. Gains(Len(ctrl) - 1)
  BY DEF Gains
<1> QED
  BY <1>3, <1>4

\* One part of a statement follows another.
LEMMA FollowBound ==
  ASSUME TypeOK, TypeOK', FlowInv, ScopeInv, BoundInv, status = "lowering",
         NEW f, Replace(f), Top.kind \notin ExprKind \ {"IFCOND", "WHILECOND"},
         f.kind \in RestoreKind \cup SettledKind,
         \A n \in AllName : Bound(Restored(f), n) <=> Bound(bindings', n),
         \/ /\ \A n \in Name : Bound(bindings', n) <=> Bound(bindings, n)
            /\ \/ /\ UNCHANGED semVars
                  /\ Top.kind \notin ListKind /\ f.kind \notin ListKind
               \/ /\ EnterScope
                  /\ Top.kind \notin ListKind /\ f.kind \in ListKind
         \/ /\ Top.kind \in RestoreKind /\ bindings' = Restored(Top)
            /\ \/ f.kind \notin ListKind /\ LeaveScope(Front(scopes))
               \/ f.kind \in ListKind /\ LeaveScope(Append(Front(scopes), {}))
  PROVE  BoundInv'
<1> DEFINE k == Len(ctrl) - 1
<1>1. Top.kind \in RestoreKind => Top.kind \in ListKind \ {"FBODY"}
  BY DEF RestoreKind, ListKind
<1>2. StackTurn(k) /\ ScopeStep(k)
  BY <1>1, ReplaceScopes
<1>3. LastFrame = f /\ k # Len(ctrl)
  <2>1. Len(ctrl) \in Nat
    BY StackFrames
  <2>2. LastFrame = f
    BY ReplaceShape DEF LastFrame
  <2> QED
    BY <2>1, <2>2
<1>4. KeepsBound /\ Gains(k)
  <2>1. CASE /\ \A n \in Name : Bound(bindings', n) <=> Bound(bindings, n)
             /\ UNCHANGED semVars \/ EnterScope
    <3>1. KeepsBound
      BY <2>1, KeepsBoundBy
    <3> QED
      BY <2>1, <3>1 DEF Gains
  <2>2. CASE /\ Top.kind \in RestoreKind /\ bindings' = Restored(Top)
             /\ \E next : LeaveScope(next)
    BY <2>2, RestoreKeeps
  <2> QED
    BY <2>1, <2>2
<1>5. Begins(k)
  <2>1. Top.kind \notin OperandKind \cup {"CALL", "ASSIGN"}
    BY DEF ExprKind, OperandKind
  <2>2. f.kind # "ASSIGN"
    BY DEF RestoreKind, SettledKind
  <2> QED
    BY <1>3, <2>1, <2>2 DEF Begins
<1> QED
  BY <1>2, <1>4, <1>5, BoundKept DEF BoundStep

LEMMA BranchIfBound ==
  ASSUME TypeOK, TypeOK', FlowInv, ScopeInv, BoundInv, BranchIf
  PROVE  BoundInv'
<1>1. PICK f : /\ Replace(f) /\ f.kind = "THEN" /\ f.incoming = bindings
  BY DEF BranchIf
<1>2. /\ status = "lowering" /\ Top.kind = "IFCOND" /\ UNCHANGED bindings
      /\ EnterScope
  BY DEF BranchIf, Active, nameVars
<1>3. Restored(f) = bindings
  BY <1>1 DEF Restored
<1> QED
  BY <1>1, <1>2, <1>3, FollowBound
  DEF ExprKind, ListKind, RestoreKind, Bound

LEMMA EndThenBound ==
  ASSUME TypeOK, TypeOK', FlowInv, ScopeInv, BoundInv, NEW hasElse \in BOOLEAN,
         EndThen(hasElse)
  PROVE  BoundInv'
<1>1. PICK f : /\ Replace(f) /\ f.incoming = Top.incoming
               /\ f.kind = IF hasElse THEN "ELSE" ELSE "NOELSE"
  BY DEF EndThen
<1>2. /\ status = "lowering" /\ Top.kind = "THEN" /\ bindings' = Top.incoming
      /\ hasElse => LeaveScope(Append(Front(scopes), {}))
      /\ ~hasElse => LeaveScope(Front(scopes))
  BY DEF EndThen, Active, Restore, ExitScope, LeaveScope
<1>3. Restored(f) = Top.incoming /\ Restored(Top) = Top.incoming
  BY <1>1, <1>2 DEF Restored
<1>4. f.kind \in {"ELSE", "NOELSE"} /\ (hasElse <=> f.kind = "ELSE")
  BY <1>1
<1> QED
  BY <1>1, <1>2, <1>3, <1>4, FollowBound
  DEF ExprKind, ListKind, RestoreKind, SettledKind, Bound

LEMMA EndElseBound ==
  ASSUME TypeOK, TypeOK', FlowInv, ScopeInv, BoundInv, EndElse
  PROVE  BoundInv'
<1>1. PICK f : /\ Replace(f) /\ f.incoming = Top.incoming /\ f.kind = "MERGE"
  BY DEF EndElse
<1>2. /\ status = "lowering" /\ Top.kind \in {"ELSE", "NOELSE"}
      /\ bindings' = Top.incoming
      /\ Top.kind = "ELSE" => LeaveScope(Front(scopes))
      /\ Top.kind = "NOELSE" => UNCHANGED semVars
  BY DEF EndElse, Active, Restore, ExitScope, LeaveScope
<1>3. Restored(f) = bindings' /\ Restored(Top) = bindings'
  BY <1>1, <1>2 DEF Restored
<1>4. CASE Top.kind = "ELSE"
  BY <1>1, <1>2, <1>3, <1>4, FollowBound
  DEF ExprKind, ListKind, RestoreKind, SettledKind
<1>5. CASE Top.kind = "NOELSE"
  <2>1. \A n \in Name : Bound(bindings', n) <=> Bound(bindings, n)
    BY <1>2, <1>5 DEF BoundInv, Settled, SettledKind, AllName
  <2> QED
    BY <1>1, <1>2, <1>3, <1>5, <2>1, FollowBound
    DEF ExprKind, ListKind, RestoreKind, SettledKind
<1> QED
  BY <1>2, <1>4, <1>5

\* One iteration of a loop over names leaves the bound names bound.
LEMMA NameBound ==
  ASSUME TypeOK, TypeOK', FlowInv, ScopeInv, BoundInv, status = "lowering",
         Top.kind \in {"MERGE", "HEADER"}, NextName, UNCHANGED semVars,
         \A m \in AllName : Bound(bindings', m) <=> Bound(bindings, m)
  PROVE  BoundInv'
<1> DEFINE f == [Top EXCEPT !.k = @ + 1]
<1>1. Replace(f)
  BY DEF NextName
<1> HIDE DEF f
<1>2. f = LastFrame
  BY <1>1, ReplaceShape, StackFrames DEF LastFrame
<1>3. f.kind = Top.kind /\ f.incoming = Top.incoming
  BY <1>2, NextNameTop, StackFrames DEF LastFrame
<1>4. \A m \in AllName : Bound(Restored(f), m) <=> Bound(bindings', m)
  <2>1. \A m \in AllName : Bound(Top.incoming, m) <=> Bound(bindings, m)
    BY DEF BoundInv, Settled, SettledKind
  <2>2. Restored(f) = Top.incoming
    BY <1>3 DEF Restored
  <2> QED
    BY <2>1, <2>2
<1>5. /\ Top.kind \notin ExprKind /\ Top.kind \notin ListKind
      /\ f.kind \notin ListKind /\ f.kind \in SettledKind
  BY <1>3 DEF ExprKind, ListKind, SettledKind
<1>6. \A m \in Name : Bound(bindings', m) <=> Bound(bindings, m)
  BY DEF AllName
<1> QED
  BY <1>1, <1>4, <1>5, <1>6, FollowBound

LEMMA Rebound ==
  ASSUME TypeOK, BoundInv, status = "lowering",
         Top.kind \in {"MERGE", "HEADER"}, NEW n \in AllName,
         Top.incoming[n] # Invalid, NEW v, v # Invalid,
         bindings' = [bindings EXCEPT ![n] = v]
  PROVE  \A m \in AllName : Bound(bindings', m) <=> Bound(bindings, m)
<1>1. DOMAIN bindings = AllName
  BY DEF TypeOK, NamesType, Snapshot
<1>2. /\ bindings'[n] = v
      /\ \A m \in AllName : m # n => bindings'[m] = bindings[m]
  BY <1>1
<1>3. Bound(bindings, n)
  BY DEF BoundInv, Settled, SettledKind, Bound
<1> QED
  BY <1>2, <1>3 DEF Bound

LEMMA MergeNameBound ==
  ASSUME TypeOK, TypeOK', FlowInv, ScopeInv, BoundInv, MergeName
  PROVE  BoundInv'
<1> DEFINE n     == names[Top.k]
           th    == Top.then.bound[n]
           el    == Top.else.bound[n]
           bound == Top.incoming[n] # Invalid /\ th # Invalid /\ el # Invalid
<1>1. /\ Top.kind = "MERGE" /\ status = "lowering" /\ NextName
      /\ UNCHANGED semVars /\ Top.k <= Top.count
  BY DEF MergeName, Active, runVars
<1>2. n \in AllName
  BY <1>1, LoopName
<1>3. \/ UNCHANGED bindings
      \/ /\ bound
         /\ \/ bindings' = [bindings EXCEPT ![n] = NextId]
            \/ bindings' = [bindings EXCEPT ![n] = th]
            \/ bindings' = [bindings EXCEPT ![n] = el]
  BY DEF MergeName
<1>4. NextId # Invalid
  BY StackFrames DEF NextId, Invalid
<1>5. ASSUME bound, NEW v, v # Invalid, bindings' = [bindings EXCEPT ![n] = v]
      PROVE  \A m \in AllName : Bound(bindings', m) <=> Bound(bindings, m)
  <2> HIDE DEF n, th, el
  <2> QED
    BY <1>1, <1>2, <1>5, Rebound
<1>6. \A m \in AllName : Bound(bindings', m) <=> Bound(bindings, m)
  BY <1>3, <1>4, <1>5 DEF Bound
<1> QED
  BY <1>1, <1>6, NameBound

LEMMA IfStatementBound ==
  ASSUME TypeOK, TypeOK', FlowInv, ScopeInv, BoundInv, IfStatement
  PROVE  BoundInv'
<1> USE DEF Active, InList, NextStatement, StartStatement, runVars, nameVars
<1>1. ASSUME BeginIf
      PROVE  BoundInv'
  <2>1. /\ status = "lowering" /\ Top.kind \in ListKind
        /\ UNCHANGED <<bindings, semVars>>
        /\ \E f : f.kind = "IFCOND" /\ Push(f)
    BY <1>1 DEF BeginIf
  <2> QED
    BY <2>1, PushBound DEF ExprKind
<1>2. ASSUME DropIf
      PROVE  BoundInv'
  <2>1. /\ status = "lowering" /\ Top.kind = "IFCOND"
        /\ \E r : EndStatement(r) /\ UNCHANGED <<bindings, semVars>>
    BY <1>2 DEF DropIf
  <2> QED
    BY <2>1, EndBound DEF StatementKind, ListKind
<1>3. ASSUME EndMerge
      PROVE  BoundInv'
  <2>1. /\ status = "lowering" /\ Top.kind = "MERGE"
        /\ \E r : EndStatement(r) /\ UNCHANGED <<bindings, semVars>>
    BY <1>3 DEF EndMerge
  <2> QED
    BY <2>1, EndBound DEF StatementKind, ListKind
<1> QED
  BY <1>1, <1>2, <1>3, BranchIfBound, EndThenBound, EndElseBound,
     MergeNameBound DEF IfStatement

LEMMA HeaderNameBound ==
  ASSUME TypeOK, TypeOK', FlowInv, ScopeInv, BoundInv, HeaderName
  PROVE  BoundInv'
<1> DEFINE n == names[Top.k]
<1>1. /\ Top.kind = "HEADER" /\ status = "lowering" /\ NextName
      /\ UNCHANGED semVars /\ Top.k <= Top.count
  BY DEF HeaderName, Active, runVars
<1>2. n \in AllName
  BY <1>1, LoopName
<1>3. \/ UNCHANGED bindings
      \/ /\ Top.incoming[n] # Invalid
         /\ bindings' = [bindings EXCEPT ![n] = NextId]
  BY DEF HeaderName, nameVars
<1>4. NextId # Invalid
  BY StackFrames DEF NextId, Invalid
<1> HIDE DEF n
<1>5. \A m \in AllName : Bound(bindings', m) <=> Bound(bindings, m)
  BY <1>1, <1>2, <1>3, <1>4, Rebound DEF Bound
<1> QED
  BY <1>1, <1>5, NameBound

LEMMA BeginWhileBound ==
  ASSUME TypeOK, TypeOK', FlowInv, ScopeInv, BoundInv, BeginWhile
  PROVE  BoundInv'
<1>1. PICK f : Push(f) /\ f.kind = "HEADER" /\ f.incoming = bindings
  BY DEF BeginWhile
<1>2. /\ status = "lowering" /\ Top.kind \in ListKind
      /\ UNCHANGED <<bindings, semVars>>
  BY DEF BeginWhile, StartStatement, NextStatement, InList, nameVars
<1>3. f.kind \notin ListKind
  BY <1>1 DEF ListKind
<1>4. StackTurn(Len(ctrl)) /\ ScopeStep(Len(ctrl))
  BY <1>1, <1>2, <1>3, PushScopes
<1>5. LastFrame = f
  BY <1>1, PushShape, StackFrames DEF LastFrame
<1>6. KeepsBound /\ Gains(Len(ctrl))
  BY <1>2, KeepsBoundBy DEF Gains, Bound
<1>7. \A n \in AllName : Bound(Restored(f), n) <=> Bound(bindings', n)
  BY <1>1, <1>2 DEF Restored
<1>8. Begins(Len(ctrl))
  BY <1>1, <1>2, <1>5, <1>7 DEF Begins, semVars
<1> QED
  BY <1>2, <1>4, <1>6, <1>8, BoundKept DEF BoundStep

LEMMA EndLoopBound ==
  ASSUME TypeOK, TypeOK', FlowInv, ScopeInv, BoundInv, EndLoop
  PROVE  BoundInv'
<1> DEFINE k == Len(ctrl) - 1
<1>1. /\ status = "lowering" /\ Top.kind = "LOOP" /\ EndStatement(FALSE)
      /\ LeaveScope(Front(scopes)) /\ bindings' = Top.bound
  BY DEF EndLoop, ExitScope, LeaveScope, Active, Restore
<1>2. ctrl[k].kind \in ListKind /\ Top.kind # "FBODY"
  BY <1>1, StatementCaller DEF StatementKind
<1>3. Keeps(k) /\ Len(ctrl') = k
  BY <1>1, <1>2, EndShape
<1>4. StackTurn(k) /\ ScopeStep(k)
  BY <1>1, <1>3, DepartScopes DEF ListKind
<1>5. KeepsBound /\ Gains(k)
  BY <1>1, RestoreKeeps DEF RestoreKind, Restored
<1>6. k # Len(ctrl) /\ Len(ctrl') # k + 1
  BY <1>3, StackFrames
<1>7. Begins(k)
  BY <1>1, <1>6 DEF Begins, OperandKind
<1> QED
  BY <1>1, <1>4, <1>5, <1>7, BoundKept DEF BoundStep

LEMMA WhileStatementBound ==
  ASSUME TypeOK, TypeOK', FlowInv, ScopeInv, BoundInv, WhileStatement
  PROVE  BoundInv'
<1>1. ASSUME EndHeader
      PROVE  BoundInv'
  <2>1. /\ status = "lowering" /\ Top.kind = "HEADER"
        /\ UNCHANGED <<bindings, semVars>>
        /\ \E f : f.kind = "WHILECOND" /\ Replace(f)
    BY <1>1 DEF EndHeader, Active, nameVars
  <2> QED
    BY <2>1, ReplaceBound DEF ExprKind, ListKind
<1>2. ASSUME BranchWhile
      PROVE  BoundInv'
  <2>1. CASE Fail(WhileType)
    BY <2>1, FailBound DEF Error
  <2>2. CASE ~Fail(WhileType)
    <3>1. PICK f : Replace(f) /\ f.kind = "LOOP" /\ f.bound = bindings
      BY <1>2, <2>2 DEF BranchWhile
    <3>2. /\ status = "lowering" /\ Top.kind = "WHILECOND" /\ EnterScope
          /\ UNCHANGED bindings
      BY <1>2, <2>2 DEF BranchWhile, Active, nameVars
    <3>3. Restored(f) = bindings
      BY <3>1 DEF Restored
    <3> QED
      BY <3>1, <3>2, <3>3, FollowBound
      DEF ExprKind, ListKind, RestoreKind, Bound
  <2> QED
    BY <2>1, <2>2
<1> QED
  BY <1>1, <1>2, BeginWhileBound, HeaderNameBound, EndLoopBound
  DEF WhileStatement

LEMMA NextBound ==
  ASSUME TypeOK, TypeOK', FlowInv, ScopeInv, BoundInv, [Next]_vars
  PROVE  BoundInv'
<1>1. ASSUME EndFunction
      PROVE  BoundInv'
  BY <1>1, StoppedBound DEF EndFunction, NoReturn
<1>2. ASSUME Collapse
      PROVE  BoundInv'
  BY <1>2, StoppedBound DEF Collapse, VisitPhi, NextBlock, EndPass
<1>3. ASSUME UNCHANGED vars
      PROVE  BoundInv'
  BY <1>3 DEF vars, semVars, BoundInv, InitialisedIsBound, SnapshotsSuffice,
     Settled, AssignedIsLocal, Bound, Outlives, Visible, Top
<1> QED
  BY <1>1, <1>2, <1>3, ExpressionBound, SimpleStatementBound,
     IfStatementBound, WhileStatementBound DEF Next

LEMMA InitBound ==
  ASSUME Init
  PROVE  BoundInv
<1>1. /\ ctrl = << [kind |-> "FBODY", rets |-> FALSE] >>
      /\ decl = InitialDecl(fn)
      /\ bindings = [n \in AllName |-> IF n \in ParamNames(fn)
                                       THEN ParamIndex(fn, n) ELSE Invalid]
  BY DEF Init
<1>2. Len(ctrl) = 1 /\ ctrl[1].kind = "FBODY" /\ Top.kind = "FBODY"
  BY <1>1 DEF Top, Last
<1>3. SnapshotsSuffice /\ Settled /\ AssignedIsLocal
  BY <1>2 DEF SnapshotsSuffice, Settled, AssignedIsLocal, RestoreKind,
     SettledKind
<1>4. InitialisedIsBound
  <2> SUFFICES ASSUME NEW n \in Name, Visible(n),
                      \A g \in Globals : g.name # n
               PROVE  bindings[n] # Invalid
    BY DEF InitialisedIsBound
  <2>1. n \in ParamNames(fn)
    BY <1>1 DEF InitialDecl, Visible
  <2>2. ParamIndex(fn, n) \in DOMAIN fn.params
    BY <2>1 DEF ParamNames, ParamIndex
  <2>3. fn.params \in Seq(Param)
    BY HeadersAssumption DEF Init
  <2>4. ParamIndex(fn, n) # Invalid
    BY <2>2, <2>3 DEF Invalid
  <2> QED
    BY <1>1, <2>1, <2>4 DEF AllName
<1> QED
  BY <1>3, <1>4 DEF BoundInv

\* For programs of any size: an initialised local variable in sight is bound,
\* after any sequence of blocks, branches and loops and the snapshots that they
\* restore.
THEOREM LocalsAreBound == Spec => []InitialisedIsBound
<1> DEFINE Inv == /\ TypeOK /\ FlowInv /\ AtStart /\ ScopeInv /\ BoundInv
<1>1. Init => Inv
  BY InitType, InitFlow, InitScopes, InitBound
<1>2. Inv /\ [Next]_vars => Inv'
  BY NextType, NextFlow, StartKept, NextScopes, NextBound
<1>3. Inv => InitialisedIsBound
  BY DEF BoundInv, InitialisedIsBound
<1> QED
  BY <1>1, <1>2, <1>3, PTL DEF Spec

=============================================================================
