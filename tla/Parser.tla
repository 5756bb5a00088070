------------------------------- MODULE Parser -------------------------------
(***************************************************************************)
(* src/parser.c: recursive descent with one token of lookahead, composed   *)
(* with the lexer that it pulls tokens from.                               *)
(*                                                                         *)
(* The C stack is a list of tasks, the first one to be done next: a call   *)
(* of a parse function is replaced by the tasks of its body.  Nodes that   *)
(* the functions hold in local variables are on a stack of values.  A      *)
(* chain of nodes linked by next is a sequence; its end is the variable    *)
(* cur of the functions that build it.                                     *)
(***************************************************************************)
EXTENDS Lexer

VARIABLES
  todo,         \* the tasks
  nodes,        \* the values
  parseErrors,  \* the positions of the tokens the parser has reported
  crashed       \* a null pointer was dereferenced

parserVars == <<todo, nodes, parseErrors, crashed>>
vars       == <<lexerVars, parserVars>>

\* A chain of nodes that is being built.
Chain(kids) == [kind |-> "chain", tok |-> Null, kids |-> kids]

\* A node with its token, Null if it has none, and its children.
Leaf(kind) == [kind |-> kind, tok |-> token, kids |-> <<>>]

Init ==
  /\ LexerInit
  /\ todo = << <<"program">> >>
  /\ nodes = << Chain(<<>>) >>
  /\ parseErrors = {}
  /\ crashed = FALSE

Expect(type)       == <<"expect", type>>
LeafOf(kind)       == <<"leaf", kind>>
Node(kind, tok, n) == <<"node", kind, tok, n>>
Parent(kind)       == <<"parent", kind>>

-----------------------------------------------------------------------------
\* The parser goes on with this task.
At(task) == wanted = 0 /\ todo # <<>> /\ Head(todo)[1] = task

\* The task is replaced by others.
Do(tasks) == todo' = tasks \o Tail(todo)

Stay == UNCHANGED todo

Sees(types) == token.type \in types

\* get_next: the lookahead becomes the token when the lexer delivers.
GetNext ==
  IF lookahead.type = "EOF"
    THEN token' = lookahead /\ UNCHANGED <<lookahead, wanted>>
    ELSE wanted' = 1 /\ UNCHANGED <<token, lookahead>>

Consume == GetNext /\ UNCHANGED <<text, place, lexErrors, tokens>>
Look    == UNCHANGED lexerVars

NoError == UNCHANGED <<parseErrors, crashed>>

ParserError ==
  parseErrors' = parseErrors \cup {token.from} /\ UNCHANGED crashed

Push(value) == nodes' = Append(nodes, value)
Pop(n)      == SubSeq(nodes, 1, Len(nodes) - n)
Kept        == UNCHANGED nodes

Types    == {"int", "f", "char", "bool", "str", "float", "void"}
Literals == {"lit int", "lit char", "lit str", "lit float", "lit bool", "true",
             "false"}

\* The lists of operators of the parse_*_expr functions, loosest first.
Levels == << {"||"}, {"&&"}, {"==", "!="}, {"<", "<=", ">", ">="},
             {"+", "-"}, {"*", "/"} >>

-----------------------------------------------------------------------------
(***************************************************************************)
(* Tokens and nodes.                                                       *)
(***************************************************************************)

ExpectToken ==
  /\ At("expect")
  /\ Do(<<>>)
  /\ Kept
  /\ \/ Sees({Head(todo)[2]}) /\ Consume /\ NoError
     \/ ~Sees({Head(todo)[2]}) /\ Look /\ ParserError

\* accept and accept_type: the tokens that are welcome.
AcceptToken ==
  /\ At("accept")
  /\ Do(<<>>)
  /\ Kept
  /\ NoError
  /\ IF Sees(Head(todo)[2]) THEN Consume ELSE Look

MakeLeaf ==
  /\ At("leaf")
  /\ Do(<<>>)
  /\ Push(Leaf(Head(todo)[2]))
  /\ Look
  /\ NoError

MakeNothing ==
  /\ At("nothing")
  /\ Do(<<>>)
  /\ Push(Null)
  /\ Look
  /\ NoError

\* init_ast with the values of the functions that were called before.
MakeNode ==
  /\ At("node")
  /\ LET n == Head(todo)[4]
     IN  nodes' = Append(Pop(n), [kind |-> Head(todo)[2], tok |-> Head(todo)[3],
                                  kids |-> SubSeq(nodes, Len(nodes) - n + 1,
                                                         Len(nodes))])
  /\ Do(<<>>)
  /\ Look
  /\ NoError

\* The node whose children are the chain built last.
MakeParent ==
  /\ At("parent")
  /\ Do(<<>>)
  /\ nodes' = Append(Pop(1), [Last(nodes) EXCEPT !.kind = Head(todo)[2]])
  /\ Look
  /\ NoError

Built == nodes[Len(nodes) - 1].kids

\* The first node of a chain, or NULL.
Begin ==
  /\ At("begin")
  /\ Do(<<>>)
  /\ nodes' = Append(Pop(1), Chain(<<Last(nodes)>>))
  /\ Look
  /\ NoError

\* cur->next = ...: cur is NULL when the node before was.
Link ==
  /\ At("link")
  /\ Look
  /\ \/ /\ Last(Built) # Null
        /\ Do(<<>>)
        /\ nodes' = Append(Pop(2), Chain(Append(Built, Last(nodes))))
        /\ NoError
     \/ /\ Last(Built) = Null
        /\ todo' = <<>>
        /\ crashed' = TRUE
        /\ UNCHANGED <<nodes, parseErrors>>

\* parse_program and parse_statements skip what is NULL.
Add ==
  /\ At("add")
  /\ Do(<<>>)
  /\ nodes' = Append(Pop(2), Chain(IF Last(nodes) = Null
                                     THEN Built ELSE Append(Built, Last(nodes))))
  /\ Look
  /\ NoError

-----------------------------------------------------------------------------
(***************************************************************************)
(* Definitions.                                                            *)
(***************************************************************************)

\* Goes on with the tasks and consumes nothing.
Call(tasks) == Do(tasks) /\ Kept /\ Look /\ NoError

\* One iteration of the loop of parse_program.
ParseProgram ==
  /\ At("program")
  /\ \/ Sees({"EOF"}) /\ Call(<<>>)
     \/ Sees({"f"}) /\ Call(<< <<"definition">>, <<"add">>, <<"program">> >>)
     \/ /\ Sees(Types \ {"f"})
        /\ Call(<< <<"declaration">>, Expect(";"), <<"add">>, <<"program">> >>)
     \/ /\ ~Sees(Types \cup {"EOF"})
        /\ Stay /\ Kept /\ Consume /\ ParserError

\* parse_func_def
ParseDefinition ==
  /\ At("definition")
  /\ Call(<<Expect("f"), Expect(":"), <<"header">>, <<"block", "FBODY">>,
            Node("FUNCTION", token, 2)>>)

\* parse_func_header with parse_type, which takes what it finds
ParseHeader ==
  /\ At("header")
  /\ Call((IF Sees({"main"}) THEN <<LeafOf("MAIN"), Expect("main")>>
                             ELSE <<LeafOf("ID"), Expect("id")>>)
          \o <<Expect("("), <<"parameters">>, Expect(")"), Expect("->"),
               LeafOf("TYPE"), <<"accept", Types>>, Node("FHEADER", Null, 3)>>)

\* parse_func_params, up to its loop
ParseParameters ==
  /\ At("parameters")
  /\ \/ /\ Sees({")"})
        /\ Call(<<Node("PARAMETERS", Null, 0)>>)
     \/ /\ ~Sees({")"})
        /\ Call(<< <<"parameter">>, <<"begin">>, <<"more", "parameter">>,
                   Parent("PARAMETERS")>>)

\* parse_func_param
ParseParameter ==
  /\ At("parameter")
  /\ Call(IF Sees(Types) THEN << <<"declaration">> >> ELSE << <<"nothing">> >>)

\* The loops of parse_func_params and parse_fcall_args.
ParseMore ==
  /\ At("more")
  /\ \/ /\ Sees({","})
        /\ Do(<< <<Head(todo)[2]>>, <<"link">>, Head(todo) >>)
        /\ Kept /\ Consume /\ NoError
     \/ ~Sees({","}) /\ Call(<<>>)

\* parse_var_decl
ParseDeclaration ==
  /\ At("declaration")
  /\ Call(<<LeafOf("TYPE"), <<"accept", Types>>, Expect(":"), LeafOf("ID"),
            Expect("id"), <<"initial">>, Node("VARIABLE", Null, 2)>>)

ParseInitial ==
  /\ At("initial")
  /\ Call(IF Sees({"="}) THEN << <<"assigned">> >> ELSE <<>>)

-----------------------------------------------------------------------------
(***************************************************************************)
(* Statements.                                                             *)
(***************************************************************************)

\* parse_block; the body of a function is another kind of node.
ParseBlock ==
  /\ At("block")
  /\ Call(<<Expect("{"), <<"statements">>, Expect("}"),
            Parent(Head(todo)[2])>>)

\* parse_statements
ParseStatements ==
  /\ At("statements")
  /\ Do(<< <<"rest">> >>) /\ Push(Chain(<<>>)) /\ Look /\ NoError

ParseRest ==
  /\ At("rest")
  /\ Call(IF Sees({"}", "EOF"}) THEN <<>>
                  ELSE << <<"statement">>, <<"add">>, <<"rest">> >>)

IsCall == Sees({"id"}) /\ lookahead.type = "("

StartsStatement == Types \cup {"id", "{", "return", "if", "while"}

\* parse_statement; it begins by skipping semicolons.
ParseStatement ==
  /\ At("statement")
  /\ \/ Sees({";"}) /\ Stay /\ Kept /\ Consume /\ NoError
     \/ Sees(Types) /\ Call(<< <<"declaration">>, Expect(";") >>)
     \/ IsCall /\ Call(<< <<"call">>, Expect(";") >>)
     \/ Sees({"id"}) /\ ~IsCall /\ Call(<< <<"assignment">>, Expect(";") >>)
     \/ Sees({"{"}) /\ Call(<< <<"block", "BLOCK">>, <<"accept", {";"}>> >>)
     \/ Sees({"return"}) /\ Call(<< <<"return">>, Expect(";") >>)
     \/ Sees({"if"}) /\ Call(<< <<"if">> >>)
     \/ Sees({"while"}) /\ Call(<< <<"while">> >>)
     \/ /\ ~Sees(StartsStatement \cup {";"})
        /\ Do(<< <<"synchronize">>, <<"nothing">> >>)
        /\ Kept /\ Look /\ ParserError

SynchronizeStopsAtParenthesis ==
  /\ At("synchronize")
  /\ Kept /\ NoError
  /\ \/ Sees({"EOF", "}", ")"}) /\ Do(<<>>) /\ Look
     \/ Sees({";"}) /\ Do(<<>>) /\ Consume
     \/ ~Sees({"EOF", "}", ")", ";"}) /\ Stay /\ Consume

\* synchronize_statement
Synchronize ==
  /\ At("synchronize")
  /\ Kept /\ NoError
  /\ \/ Sees({"EOF", "}"}) /\ Do(<<>>) /\ Look
     \/ Sees({";"}) /\ Do(<<>>) /\ Consume
     \/ ~Sees({"EOF", "}", ";"}) /\ Stay /\ Consume

\* parse_assignment, and the part that parse_var_decl shares with it
ParseAssignment ==
  /\ At("assignment")
  /\ Call(<<LeafOf("ID"), Expect("id"), <<"assigned">> >>)

ParseAssigned ==
  /\ At("assigned")
  /\ Call(<<Expect("="), <<"expression">>, Node("ASSIGNMENT", token, 2)>>)

\* parse_return
ParseReturn ==
  /\ At("return")
  /\ Call(<<Expect("return"), <<"returned", token>> >>)

ParseReturned ==
  /\ At("returned")
  /\ Call(IF Sees({";"})
            THEN <<Node("RET", Head(todo)[2], 0)>>
            ELSE << <<"expression">>, Node("RET", Head(todo)[2], 1)>>)

\* parse_if
ParseIf ==
  /\ At("if")
  /\ Call(<<Expect("if"), Expect("("), <<"expression">>, Expect(")"),
            <<"block", "BLOCK">>, <<"else", token>> >>)

ParseElse ==
  /\ At("else")
  /\ \/ /\ Sees({"else"})
        /\ Do(<< <<"branch">>, Node("IF", Head(todo)[2], 3)>>)
        /\ Kept /\ Consume /\ NoError
     \/ ~Sees({"else"}) /\ Call(<<Node("IF", Head(todo)[2], 2)>>)

ParseBranchAsBlock ==
  /\ At("branch")
  /\ Call(<< <<"block", "BLOCK">> >>)

ParseBranch ==
  /\ At("branch")
  /\ Call(<<IF Sees({"if"}) THEN <<"if">> ELSE <<"block", "BLOCK">> >>)

\* parse_while
ParseWhile ==
  /\ At("while")
  /\ Call(<<Expect("while"), Expect("("), <<"expression">>, Expect(")"),
            <<"block", "BLOCK">>, Node("WHILE", token, 2)>>)

-----------------------------------------------------------------------------
(***************************************************************************)
(* Expressions.                                                            *)
(***************************************************************************)

\* The calls down from parse_logical_or_expr to parse_primary, and what they
\* return to; an operand of one level is an expression of the next.
From(level) ==
  << <<"primary">> >>
  \o [i \in 1 .. Len(Levels) + 1 - level |->
        <<"operators", Len(Levels) + 1 - i>>]

RightOperandSameLevel(level) == From(level)

\* What a loop of a level calls for its right operand.
RightOperand(level) == From(level + 1)

\* parse_expr
ParseExpression == At("expression") /\ Call(From(1))

\* The loops of parse_binary_expr, parse_additive_expr and
\* parse_multiplicative_expr.
ParseOperators ==
  /\ At("operators")
  /\ LET level == Head(todo)[2]
     IN  \/ /\ Sees(Levels[level])
            /\ Do(RightOperand(level)
                  \o <<Node("OPERATOR", token, 2), Head(todo)>>)
            /\ Kept /\ Consume /\ NoError
         \/ ~Sees(Levels[level]) /\ Call(<<>>)

ParsePrimary ==
  /\ At("primary")
  /\ \/ /\ Sees({"!"})
        /\ Do(<< <<"primary">>, Node("OPERATOR", token, 1)>>)
        /\ Kept /\ Consume /\ NoError
     \/ IsCall /\ Call(<< <<"call">> >>)
     \/ /\ Sees({"id"} \cup Literals)
        /\ ~IsCall
        /\ Push(Leaf(IF Sees({"id"}) THEN "ID" ELSE "VALUE"))
        /\ Do(<<>>) /\ Consume /\ NoError
     \/ /\ Sees({"("})
        /\ Do(<< <<"expression">>, Expect(")")>>)
        /\ Kept /\ Consume /\ NoError
     \/ /\ ~Sees({"!", "id", "("} \cup Literals)
        /\ Do(<< <<"nothing">> >>)
        /\ Kept /\ Consume /\ ParserError

\* parse_fcall
ParseCall ==
  /\ At("call")
  /\ Call(<<LeafOf("ID"), Expect("id"), Expect("("), <<"arguments">>,
            Node("FCALL", Null, 2), Expect(")")>>)

\* parse_fcall_args, up to its loop
ParseArguments ==
  /\ At("arguments")
  /\ \/ Sees({")"}) /\ Call(<<Node("FARGUMENTS", Null, 0)>>)
     \/ /\ ~Sees({")"})
        /\ Call(<< <<"expression">>, <<"begin">>, <<"more", "expression">>,
                   Parent("FARGUMENTS")>>)

-----------------------------------------------------------------------------
ParseStep ==
  \/ ExpectToken \/ AcceptToken \/ MakeLeaf \/ MakeNothing \/ MakeNode
  \/ MakeParent \/ Begin \/ Link \/ Add
  \/ ParseProgram \/ ParseDefinition \/ ParseHeader \/ ParseParameters
  \/ ParseParameter \/ ParseMore \/ ParseDeclaration \/ ParseInitial
  \/ ParseBlock \/ ParseStatements \/ ParseRest \/ ParseStatement
  \/ Synchronize \/ ParseAssignment \/ ParseAssigned \/ ParseReturn
  \/ ParseReturned \/ ParseIf \/ ParseElse \/ ParseBranch \/ ParseWhile
  \/ ParseExpression \/ ParseOperators \/ ParsePrimary \/ ParseCall
  \/ ParseArguments

Next == (NextToken /\ UNCHANGED parserVars) \/ ParseStep

\* The compiler is one thread and nothing interrupts it.
Spec == Init /\ [][Next]_vars /\ WF_vars(Next)
=============================================================================
