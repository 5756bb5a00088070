----------------------------- MODULE MCAnalyzer -----------------------------
(***************************************************************************)
(* Instances of Analyzer for TLC.                                          *)
(***************************************************************************)
EXTENDS AnalyzerProperties

Param(m, t) == [name |-> m, type |-> t]

G(params, ret) == [name |-> "g", params |-> params, ret |-> ret]

OneInt == << Param("a", "INT") >>

\* A function g: alone, before a function b, defined twice, with a result type
\* that is missing, and with a refused parameter, after a function b whose
\* parameter has the name of g.
SomePrograms ==
  { << G(OneInt, "INT") >>,
    << G(<< >>, "VOID"), [name |-> "b", params |-> << >>, ret |-> "VOID"] >>,
    << G(OneInt, "INT"), G(<< >>, "BOOL") >>,
    << G(<< Param("a", "INT"), Param("b", "BOOL") >>, "TYPE_ERROR") >>,
    << [name |-> "b", params |-> << Param("g", "INT") >>, ret |-> "VOID"],
       G(<< Param("a", "VOID") >>, "INT") >> }

\* Each kind of expression, right and wrong ones.
SomeExprs ==
  { Lit("INT"), Lit("BOOL"), Id("a"), Id("b"), Not(Id("b")),
    Bin("ARITH", Id("a"), Lit("INT")),
    Fcall("g", << >>),
    Fcall("g", << Fcall("g", << Id("a") >>) >>),
    Fcall("g", << Id("a"), Bin("REL", Id("a"), Id("a")) >>),
    Fcall("a", << >>) }

\* Expressions with their parts.
SomeParts == SomeExprs \cup {Fcall("g", << Id("a") >>),
                             Bin("REL", Id("a"), Id("a"))}

RECURSIVE HeightOf(_)
HeightOf(e) == 1 + Max({0} \cup { HeightOf(p) : p \in Parts(e) })

SomeHeight == [e \in SomeParts |-> HeightOf(e)]
=============================================================================
