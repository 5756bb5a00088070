-------------------------------- MODULE Lexer --------------------------------
(***************************************************************************)
(* src/lexer.c: next_token, one step for each iteration of its loop.  The  *)
(* parser asks for tokens with get_next; the two hold one token and one    *)
(* token of lookahead.                                                     *)
(*                                                                         *)
(* A text is a sequence of characters; position i of the C text is i + 1.  *)
(* Letters, digits and keywords are parameters: a few of each show all     *)
(* that next_token distinguishes.                                          *)
(***************************************************************************)
EXTENDS Integers, SequencesExt

CONSTANTS
  Texts,     \* the source texts considered
  Letter,    \* isalpha
  Digit,     \* isdigit
  Keywords,  \* keywords[]: the type of each spelling
  Null       \* NULL, or no token yet

ASSUME TextsAssumption == \A t \in Texts : t \in Seq(Range(t))

ASSUME KeywordsAssumption ==
  DOMAIN Keywords \subseteq Seq(Letter) /\ "EOF" \notin Range(Keywords)

VARIABLES
  text,       \* lexer->src
  pos,        \* lexer->srcPos
  line,       \* lexer->codeLoc.line
  column,     \* lexer->codeLoc.column
  token,      \* p->token
  lookahead,  \* p->lookahead
  wanted,     \* calls of next_token that are still to be made
  lexErrors,  \* the positions the lexer has reported
  tokens      \* history: what next_token has returned, without T_EOF

place     == <<pos, line, column>>
window    == <<token, lookahead, wanted, tokens>>
lexerVars == <<text, place, window, lexErrors>>

LexerInit ==
  /\ text \in Texts
  /\ pos = 1
  /\ line = 1
  /\ column = 1
  /\ token = Null
  /\ lookahead = Null
  /\ wanted = 2
  /\ lexErrors = {}
  /\ tokens = <<>>

\* The types of the tokens that one character makes, and that a character
\* and the one after it make.
Single == {":", ";", "(", ")", "{", "}", ".", ",", "+", "*", "/"}

Pair == [c \in {"=", "!", "<", ">", "&", "|", "-"} |->
           CASE c = "=" -> "==" [] c = "!" -> "!=" [] c = "<" -> "<="
             [] c = ">" -> ">=" [] c = "&" -> "&&" [] c = "|" -> "||"
             [] c = "-" -> "->"]

Second == [c \in DOMAIN Pair |->
             IF c \in {"&", "|"} THEN c ELSE IF c = "-" THEN ">" ELSE "="]

Blank   == {" ", "\t"}
Newline == "\n"
Quotes  == {"\"", "'"}

\* isalpha and isdigit hold of different characters, and of no other that
\* next_token knows.
Marks == Blank \cup Single \cup DOMAIN Pair \cup Quotes \cup {Newline, "#"}

ASSUME CharactersAssumption ==
  Letter \cap Digit = {} /\ (Letter \cup Digit) \cap Marks = {}

-----------------------------------------------------------------------------
AtEnd(i) == i > Len(text)

\* peek, with the character at position i
Is(i, class) == ~AtEnd(i) /\ text[i] \in class

\* The end of the longest run of characters of a class that begins at i.
RunEnd(i, class) ==
  CHOOSE e \in i .. Len(text) + 1 :
    /\ ~Is(e, class)
    /\ \A k \in i .. e - 1 : Is(k, class)

Other(class) == { text[i] : i \in DOMAIN text } \ class

\* The iteration begins at a character of the class.
Reads(class) == wanted > 0 /\ Is(pos, class)

\* advance, up to e
AdvanceTo(e) ==
  pos' = e /\ column' = column + (e - pos) /\ UNCHANGED <<text, line>>

Skip(e) == AdvanceTo(e) /\ UNCHANGED <<window, lexErrors>>

LexError(e) ==
  AdvanceTo(e) /\ lexErrors' = lexErrors \cup {pos} /\ UNCHANGED window

Token(type, e) ==
  [type |-> type, from |-> pos, to |-> e, line |-> line, column |-> column]

\* get_next or parse receives the token.
Deliver(t) ==
  /\ token' = lookahead
  /\ lookahead' = t
  /\ wanted' = wanted - 1
  /\ UNCHANGED lexErrors

Emit(type, e) ==
  /\ Deliver(Token(type, e))
  /\ tokens' = Append(tokens, Token(type, e))
  /\ AdvanceTo(e)

-----------------------------------------------------------------------------
SkipBlank == Reads(Blank) /\ Skip(pos + 1)

NextLineKeepsColumn ==
  /\ Reads({Newline})
  /\ pos' = pos + 1
  /\ line' = line + 1
  /\ column' = column + 1
  /\ UNCHANGED <<text, window, lexErrors>>

\* next_line
NextLine ==
  /\ Reads({Newline})
  /\ pos' = pos + 1
  /\ line' = line + 1
  /\ column' = 1
  /\ UNCHANGED <<text, window, lexErrors>>

Comment == Reads({"#"}) /\ Skip(RunEnd(pos, Other({Newline})))

OneCharacter == Reads(Single) /\ Emit(text[pos], pos + 1)

TwoCharacters ==
  /\ Reads(DOMAIN Pair)
  /\ Is(pos + 1, {Second[text[pos]]})
  /\ Emit(Pair[text[pos]], pos + 2)

\* The second character is another one; & and | need theirs.
FirstOnly ==
  /\ Reads(DOMAIN Pair)
  /\ ~Is(pos + 1, {Second[text[pos]]})
  /\ IF text[pos] \in {"&", "|"} THEN LexError(pos + 1)
                                 ELSE Emit(text[pos], pos + 1)

StringLiteral ==
  /\ Reads({"\""})
  /\ LET e == RunEnd(pos + 1, Other({"\""}))
     IN  IF AtEnd(e) THEN LexError(e) ELSE Emit("lit str", e + 1)

CharEndUnchecked == pos + 3

\* How far the three calls of advance go: to the end of the text, behind a
\* quote that comes too early, or behind the third character.
CharEnd ==
  IF AtEnd(pos + 1) \/ AtEnd(pos + 2) THEN Len(text) + 1
  ELSE IF text[pos + 1] = "'" THEN pos + 2 ELSE pos + 3

CharLiteral ==
  /\ Reads({"'"})
  /\ IF CharEnd = pos + 3 /\ Is(pos + 2, {"'"}) THEN Emit("lit char", CharEnd)
                                                ELSE LexError(CharEnd)

\* lookup_keyword; true and false become literals.
WordType(s) ==
  LET type == IF s \in DOMAIN Keywords THEN Keywords[s] ELSE "id"
  IN  IF type \in {"true", "false"} THEN "lit bool" ELSE type

Word ==
  /\ Reads(Letter)
  /\ LET e == RunEnd(pos, Letter)
     IN  Emit(WordType(SubSeq(text, pos, e - 1)), e)

NumberWithoutDot ==
  Reads(Digit) /\ Emit("lit int", RunEnd(pos, Digit))

\* Digits; a dot behind them needs more digits.
Number ==
  /\ Reads(Digit)
  /\ LET e == RunEnd(pos, Digit)
     IN  IF ~Is(e, {"."}) THEN Emit("lit int", e)
         ELSE IF Is(e + 1, Digit) THEN Emit("lit float", RunEnd(e + 1, Digit))
         ELSE LexError(e + 1)

Recognised == Marks \cup Letter \cup Digit

Unrecognised == Reads(Other(Recognised)) /\ LexError(pos + 1)

EndOfText ==
  /\ wanted > 0
  /\ AtEnd(pos)
  /\ Deliver(Token("EOF", pos))
  /\ UNCHANGED <<text, place, tokens>>

NextToken ==
  SkipBlank \/ NextLine \/ Comment \/ OneCharacter \/ TwoCharacters
  \/ FirstOnly \/ StringLiteral \/ CharLiteral \/ Word \/ Number
  \/ Unrecognised \/ EndOfText
=============================================================================
