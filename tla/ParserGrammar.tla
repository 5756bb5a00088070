--------------------------- MODULE ParserGrammar ----------------------------
(***************************************************************************)
(* What is checked of Parser: against src/grammar.txt, and against the     *)
(* order of the tokens.                                                    *)
(***************************************************************************)
EXTENDS ParserProperties

Accepted == Finished /\ ~crashed /\ parseErrors = {}

-----------------------------------------------------------------------------
(***************************************************************************)
(* The grammar: the alternatives of each rule of src/grammar.txt, with     *)
(* rules of their own for its options and repetitions.                     *)
(***************************************************************************)

More(operators, operand, self) ==
  { <<>> } \cup { <<op, operand, self>> : op \in operators }

Grammar ==
  [ Program     |-> { <<>>, <<"Definition", "Program">>,
                      <<"Type", "Variable", ";", "Program">> },
    Definition  |-> { <<"f", ":", "Name", "(", "Parameters", ")", "->",
                        "Result", "Block">> },
    Name        |-> { <<"id">>, <<"main">> },
    Parameters  |-> { <<>>, <<"Parameter", "Parameters1">> },
    Parameters1 |-> { <<>>, <<",", "Parameter", "Parameters1">> },
    Parameter   |-> { <<"Type", ":", "id">> },
    Result      |-> { <<"Type">> },
    Block       |-> { <<"{", "Statements", "}">> },
    Statements  |-> { <<>>, <<"Statement", "Statements">> },
    Statement   |-> { <<"Type", "Variable", ";">>, <<"id", "Assigned", ";">>,
                      <<"return", ";">>, <<"return", "Expression", ";">>,
                      <<"Call", ";">>, <<"If">>, <<"Block">>, <<"Block", ";">>,
                      <<"while", "(", "Expression", ")", "Block">> },
    Variable    |-> { <<":", "id">>, <<":", "id", "Assigned">> },
    Assigned    |-> { <<"=", "Expression">> },
    Call        |-> { <<"id", "(", ")">>,
                      <<"id", "(", "Expression", "Arguments", ")">> },
    Arguments   |-> { <<>>, <<",", "Expression", "Arguments">> },
    If          |-> { <<"if", "(", "Expression", ")", "Block", "Else">> },
    Else        |-> { <<>>, <<"else", "Block">>, <<"else", "If">> },
    Expression  |-> { <<"And", "Ors">> },
    Ors         |-> More({"||"}, "And", "Ors"),
    And         |-> { <<"Equality", "Ands">> },
    Ands        |-> More({"&&"}, "Equality", "Ands"),
    Equality    |-> { <<"Relation", "Equalities">> },
    Equalities  |-> More({"==", "!="}, "Relation", "Equalities"),
    Relation    |-> { <<"Sum", "Relations">> },
    Relations   |-> More({"<", "<=", ">", ">="}, "Sum", "Relations"),
    Sum         |-> { <<"Product", "Terms">> },
    Terms       |-> More({"+", "-"}, "Product", "Terms"),
    Product     |-> { <<"Primary", "Factors">> },
    Factors     |-> More({"*", "/"}, "Primary", "Factors"),
    Primary     |-> { <<"id">>, <<"Literal">>, <<"Call">>, <<"!", "Primary">>,
                      <<"(", "Expression", ")">> },
    Type        |-> { <<t>> : t \in Types \ {"f"} },
    Literal     |-> { <<l>> : l \in Literals } ]

\* Where the parser takes more than the grammar has: a comma behind the last
\* parameter, an initial value of a parameter, a function without a result
\* type, f as a type (not of a global), semicolons before a statement.
Tolerated ==
  [ Parameters1 |-> { <<",">> },
    Parameter   |-> { <<"Type", ":", "id", "Assigned">> , <<"f", "Variable">> },
    Result      |-> { <<>>, <<"f">> },
    Statement   |-> { <<";", "Statement">>, <<"f", "Variable", ";">> } ]

Language ==
  [n \in DOMAIN Grammar |->
     Grammar[n] \cup IF n \in DOMAIN Tolerated THEN Tolerated[n] ELSE {}]

\* Where a part of the tokens that begins with token i and is derived from
\* the word may end.
RECURSIVE Ends(_, _)
Ends(word, i) ==
  IF word = <<>> THEN {i}
  ELSE LET first == Head(word)
           next  == IF first \in DOMAIN Language
                      THEN UNION { Ends(alternative, i) :
                                     alternative \in Language[first] }
                      ELSE { j \in {i + 1} : /\ i <= Len(tokens)
                                             /\ tokens[i].type = first }
       IN  UNION { Ends(Tail(word), j) : j \in next }

\* The parser accepts exactly the language of the grammar, with the
\* tolerated additions; a text that crashes it is not in the language.
AcceptsLanguage ==
  Finished => (Accepted <=> Len(tokens) + 1 \in Ends(<<"Program">>, 1))

-----------------------------------------------------------------------------
(***************************************************************************)
(* The tree.                                                               *)
(***************************************************************************)

\* Tokens that leave no node.
Punctuation == {":", ";", ",", "(", ")", "{", "}", "->", "else"}

IsInfix(node) ==
  \/ node.kind = "ASSIGNMENT"
  \/ node.kind = "OPERATOR" /\ Len(node.kids) = 2

\* The tokens of a node in the order of the text, and of a chain of nodes.
RECURSIVE Yield(_)
YieldAll(chain) == FlattenSeq([i \in DOMAIN chain |-> Yield(chain[i])])
Yield(node) ==
  IF node = Null THEN <<>>
  ELSE LET own == IF node.tok = Null \/ node.tok.type \in Punctuation
                    THEN <<>> ELSE <<node.tok>>
       IN  IF IsInfix(node)
             THEN Yield(node.kids[1]) \o own \o Yield(node.kids[2])
             ELSE own \o YieldAll(node.kids)

RECURSIVE NodesOf(_)
NodesOf(chain) ==
  UNION { {n} \cup NodesOf(n.kids) : n \in Range(chain) \ {Null} }

\* The level of the operator of a node; unary operators bind tightest.
LevelOf(node) ==
  IF Len(node.kids) = 1
    THEN Len(Levels) + 1
    ELSE CHOOSE level \in DOMAIN Levels : node.tok.type \in Levels[level]

NumberOf(t) == CHOOSE i \in DOMAIN tokens : tokens[i] = t

\* Of the tokens i to j, those of a type.
Count(i, j, type) == Cardinality({ k \in i .. j : tokens[k].type = type })

\* A pair of parentheses of the text encloses the node and no more.
Enclosed(node) ==
  LET lo == NumberOf(Head(Yield(node)))
      hi == NumberOf(Last(Yield(node)))
  IN  \E i \in 1 .. lo - 1, j \in hi + 1 .. Len(tokens) :
        /\ tokens[j].type = ")"
        /\ Count(i, lo - 1, "(") = lo - i
        /\ \A k \in hi + 1 .. j : tokens[k].type \in {"(", ")"}
        /\ \A k \in i + 1 .. j - 1 :
              Count(i + 1, k, "(") >= Count(i + 1, k, ")")
        /\ Count(i + 1, j - 1, "(") = Count(i + 1, j - 1, ")")

\* An operand may stand where it does without parentheses.
Binds(node, i) ==
  LET kid == node.kids[i]
  IN  \/ kid.kind # "OPERATOR"
      \/ LevelOf(kid) > LevelOf(node)
      \/ LevelOf(kid) = LevelOf(node) /\ i = 1
      \/ Enclosed(kid)

\* The tree of an accepted text has all its tokens in their order, and groups
\* operands as precedence, association to the left and parentheses demand.
TreeMatchesText ==
  Accepted =>
    /\ YieldAll(nodes[1].kids)
         = SelectSeq(tokens, LAMBDA t : t.type \notin Punctuation)
    /\ \A n \in NodesOf(nodes[1].kids) :
          n.kind = "OPERATOR" => \A i \in DOMAIN n.kids : Binds(n, i)

\* Every text is parsed to its end, with any errors in it: each round of error
\* recovery moves on (parse_program, parse_statements, synchronize_statement).
ParsingEnds == <>Finished
=============================================================================
