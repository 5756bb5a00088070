---------------------------- MODULE ParserProofs ----------------------------
(***************************************************************************)
(* For all texts, letters, digits and keywords: the lexer cuts the text    *)
(* into the longest lexemes and knows where they are, and the parse        *)
(* functions leave one value each, whatever errors they meet.              *)
(***************************************************************************)
EXTENDS ParserProperties, FiniteSetTheorems, WellFoundedInduction, TLAPS

-----------------------------------------------------------------------------
(***************************************************************************)
(* Characters and runs of characters.                                      *)
(***************************************************************************)

LEMMA LeastNumber ==
  ASSUME NEW S \in SUBSET Nat, S # {}
  PROVE  \E n \in S : \A m \in S : n <= m
<1> DEFINE R == {s \in Nat \X Nat : s[1] < s[2]}
<1>1. IsWellFoundedOn(R, Nat)
  BY NatLessThanWellFounded DEF OpToRel
<1> HIDE DEF R
<1>2. PICK n \in S : \A m \in S : ~(<<m, n>> \in R)
  BY <1>1, WFMin
<1>3. \A m \in S : ~(m < n)
  BY <1>2 DEF R
<1> QED
  BY <1>3

\* The keys and values of Pair.
LEMMA PairFound ==
  /\ DOMAIN Pair = {"=", "!", "<", ">", "&", "|", "-"}
  /\ Pair["="] = "==" /\ Pair["!"] = "!=" /\ Pair["<"] = "<="
  /\ Pair[">"] = ">=" /\ Pair["&"] = "&&" /\ Pair["|"] = "||"
  /\ Pair["-"] = "->"
BY DEF Pair

LEMMA SecondFound ==
  /\ Second["="] = "=" /\ Second["!"] = "=" /\ Second["<"] = "="
  /\ Second[">"] = "=" /\ Second["&"] = "&" /\ Second["|"] = "|"
  /\ Second["-"] = ">"
BY PairFound DEF Second

\* The text is a sequence.
LEMMA TextIsSequence ==
  ASSUME text \in Texts
  PROVE  text \in Seq(Range(text)) /\ Len(text) \in Nat
         /\ DOMAIN text = 1 .. Len(text)
BY TextsAssumption

LEMMA RunFound ==
  ASSUME text \in Texts, NEW i \in 1 .. Len(text) + 1, NEW class
  PROVE  /\ RunEnd(i, class) \in i .. Len(text) + 1
         /\ ~Is(RunEnd(i, class), class)
         /\ \A k \in i .. RunEnd(i, class) - 1 : Is(k, class)
<1> DEFINE S == { k \in i .. Len(text) + 1 : ~Is(k, class) }
<1>1. Len(text) \in Nat
  BY TextIsSequence
<1>2. S \in SUBSET Nat /\ Len(text) + 1 \in S
  BY <1>1 DEF Is, AtEnd
<1>3. PICK e \in S : \A m \in S : e <= m
  <2> HIDE DEF S
  <2> QED
    BY <1>2, LeastNumber
<1>4. \A k \in i .. e - 1 : Is(k, class)
  BY <1>1, <1>3
<1> QED
  BY <1>3, <1>4 DEF RunEnd

LEMMA CharEndFound ==
  ASSUME text \in Texts, pos \in 1 .. Len(text)
  PROVE  CharEnd \in pos + 1 .. Len(text) + 1
BY TextIsSequence DEF CharEnd, AtEnd

-----------------------------------------------------------------------------
(***************************************************************************)
(* The invariant of the lexer and of the window of two tokens.             *)
(***************************************************************************)

TokenType ==
  Single \cup DOMAIN Pair \cup Range(Pair) \cup Range(Keywords)
  \cup {"id", "lit int", "lit float", "lit str", "lit char", "lit bool"}

Tokens ==
  [type : TokenType, from : Nat, to : Nat, line : Nat, column : Nat]

\* Tokens lie behind each other, before the position of the lexer.
Sorted ==
  /\ tokens \in Seq(Tokens)
  /\ \A i \in DOMAIN tokens :
       /\ 1 <= tokens[i].from
       /\ tokens[i].from < tokens[i].to
       /\ tokens[i].to <= pos
       /\ \A j \in 1 .. i - 1 : tokens[j].to <= tokens[i].from

\* A token the parser has received.
Received(t) ==
  /\ t.from \in 1 .. Len(text) + 1
  /\ t.type = "EOF" => AtEnd(pos)

Window ==
  /\ wanted < 2 => /\ Received(lookahead)
                   /\ \/ lookahead.type = "EOF"
                      \/ tokens # <<>> /\ lookahead = Last(tokens)
  /\ wanted = 0 => Received(token)

Scanned ==
  /\ text \in Texts
  /\ pos \in 1 .. Len(text) + 1
  /\ line \in Nat \ {0}
  /\ column \in Nat \ {0}
  /\ wanted \in 0 .. 2
  /\ lexErrors \subseteq 1 .. Len(text) + 1
  /\ Sorted
  /\ Window

\* The end of the text is no token of it.
LEMMA NoTypeOfEnd == "EOF" \notin TokenType
BY PairFound, KeywordsAssumption DEF TokenType, Single, Range

LEMMA TokenFields ==
  ASSUME tokens \in Seq(Tokens), NEW i \in DOMAIN tokens
  PROVE  /\ tokens[i] \in Tokens
         /\ tokens[i].from \in Nat /\ tokens[i].to \in Nat
         /\ tokens[i].line \in Nat /\ tokens[i].column \in Nat
<1>1. tokens[i] \in Tokens
  OBVIOUS
<1> QED
  BY <1>1 DEF Tokens

\* The lexer moves over characters, with or without an error.
LEMMA MovePast ==
  ASSUME Scanned, NEW e \in pos + 1 .. Len(text) + 1,
         text' = text, pos' = e, window' = window,
         line' \in Nat \ {0}, column' \in Nat \ {0},
         lexErrors' \subseteq lexErrors \cup {pos}
  PROVE  Scanned'
<1>1. Len(text) \in Nat
  BY TextIsSequence DEF Scanned
<1>2. /\ token' = token /\ lookahead' = lookahead /\ wanted' = wanted
      /\ tokens' = tokens
  BY DEF window
<1>3. pos \in Nat /\ e \in Nat /\ pos < e /\ e <= Len(text) + 1
  BY <1>1 DEF Scanned
<1>4. Sorted'
  <2>1. \A i \in DOMAIN tokens : tokens[i].to \in Nat
    BY TokenFields DEF Scanned, Sorted
  <2> QED
    BY <1>2, <1>3, <2>1 DEF Scanned, Sorted
<1>5. Window'
  BY <1>1, <1>2, <1>3 DEF Scanned, Window, Received, AtEnd
<1> QED
  BY <1>1, <1>2, <1>3, <1>4, <1>5 DEF Scanned

\* The lexer returns a token.
LEMMA EmitPast ==
  ASSUME Scanned, NEW e \in pos + 1 .. Len(text) + 1, wanted > 0,
         pos <= Len(text), NEW type \in TokenType, Emit(type, e)
  PROVE  Scanned'
<1>0. PICK t : t = Token(type, e)
  OBVIOUS
<1>1. Len(text) \in Nat
  BY TextIsSequence DEF Scanned
<1>2. /\ text' = text /\ pos' = e /\ line' = line
      /\ column' = column + (e - pos) /\ lexErrors' = lexErrors
      /\ token' = lookahead /\ lookahead' = t /\ wanted' = wanted - 1
      /\ tokens' = Append(tokens, t)
  BY <1>0 DEF Emit, Deliver, AdvanceTo
<1>3. pos \in Nat /\ e \in Nat /\ pos < e /\ e <= Len(text) + 1 /\ 1 <= pos
  BY <1>1 DEF Scanned
<1>4. /\ t \in Tokens /\ t.type = type /\ t.from = pos /\ t.to = e
  BY <1>0, <1>3 DEF Token, Tokens, Scanned
<1>5. /\ tokens \in Seq(Tokens) /\ Len(tokens) \in Nat
      /\ DOMAIN tokens = 1 .. Len(tokens)
  BY DEF Scanned, Sorted
<1>6. /\ tokens' \in Seq(Tokens)
      /\ DOMAIN tokens' = 1 .. Len(tokens) + 1
      /\ Len(tokens') = Len(tokens) + 1
      /\ tokens'[Len(tokens) + 1] = t
      /\ \A i \in 1 .. Len(tokens) : tokens'[i] = tokens[i]
  BY <1>2, <1>4, <1>5
<1>7. Sorted'
  <2>1. \A i \in 1 .. Len(tokens) :
           /\ tokens[i].to \in Nat /\ tokens[i].from \in Nat
           /\ tokens[i].to <= pos
           /\ 1 <= tokens[i].from
           /\ tokens[i].from < tokens[i].to
           /\ \A j \in 1 .. i - 1 : tokens[j].to <= tokens[i].from
    BY <1>5, TokenFields DEF Scanned, Sorted
  <2> SUFFICES ASSUME NEW i \in 1 .. Len(tokens) + 1
               PROVE  /\ 1 <= tokens'[i].from
                      /\ tokens'[i].from < tokens'[i].to
                      /\ tokens'[i].to <= e
                      /\ \A j \in 1 .. i - 1 : tokens'[j].to <= tokens'[i].from
    BY <1>2, <1>6 DEF Sorted
  <2>2. CASE i = Len(tokens) + 1
    <3>1. \A j \in 1 .. i - 1 : tokens'[j] = tokens[j] /\ tokens[j].to <= pos
      BY <1>5, <1>6, <2>1, <2>2
    <3> QED
      BY <1>3, <1>4, <1>6, <2>2, <3>1
  <2>3. CASE i \in 1 .. Len(tokens)
    <3>1. \A j \in 1 .. i - 1 : tokens'[j] = tokens[j]
      BY <1>5, <1>6, <2>3
    <3> QED
      BY <1>3, <1>6, <2>1, <2>3, <3>1
  <2> QED
    BY <1>5, <2>2, <2>3
<1>8. tokens' # <<>> /\ Last(tokens') = t
  BY <1>5, <1>6 DEF Last
<1>9. Received(lookahead)'
  <2>1. t.type # "EOF"
    BY <1>4, NoTypeOfEnd
  <2> QED
    BY <1>1, <1>2, <1>3, <1>4, <2>1 DEF Received
<1>10. wanted' = 0 => Received(token)'
  BY <1>1, <1>2, <1>3 DEF Scanned, Window, Received, AtEnd
<1>11. Window'
  BY <1>2, <1>8, <1>9, <1>10 DEF Window
<1> QED
  BY <1>1, <1>2, <1>3, <1>7, <1>11 DEF Scanned

LEMMA EndPast ==
  ASSUME Scanned, EndOfText
  PROVE  Scanned'
<1>1. PICK t : t = Token("EOF", pos)
  OBVIOUS
<1>2. Len(text) \in Nat
  BY TextIsSequence DEF Scanned
<1>3. /\ text' = text /\ pos' = pos /\ line' = line /\ column' = column
      /\ lexErrors' = lexErrors /\ tokens' = tokens
      /\ token' = lookahead /\ lookahead' = t /\ wanted' = wanted - 1
      /\ wanted > 0 /\ AtEnd(pos)
  BY <1>1 DEF EndOfText, Deliver, place
<1>4. t.type = "EOF" /\ t.from = pos
  BY <1>1 DEF Token
<1>5. Received(lookahead)'
  BY <1>2, <1>3, <1>4 DEF Received, AtEnd, Scanned
<1>6. wanted' = 0 => Received(token)'
  BY <1>2, <1>3 DEF Scanned, Window, Received, AtEnd
<1>7. Window'
  BY <1>3, <1>4, <1>5, <1>6 DEF Window
<1>8. Sorted'
  BY <1>3 DEF Scanned, Sorted
<1> QED
  BY <1>3, <1>7, <1>8 DEF Scanned

LEMMA ReadsHere ==
  ASSUME Scanned, NEW class, Reads(class)
  PROVE  /\ wanted > 0 /\ pos \in 1 .. Len(text) /\ pos + 1 <= Len(text) + 1
         /\ text[pos] \in class /\ Len(text) \in Nat /\ pos \in Nat
         /\ pos + 1 \in 1 .. Len(text) + 1 /\ pos <= Len(text)
         /\ pos + 1 \in pos + 1 .. Len(text) + 1
BY TextIsSequence DEF Scanned, Reads, Is, AtEnd

LEMMA SkipKeeps ==
  ASSUME Scanned, NEW e \in pos + 1 .. Len(text) + 1,
         Skip(e) \/ LexError(e)
  PROVE  Scanned'
<1>1. /\ text' = text /\ pos' = e /\ window' = window /\ line' = line
      /\ column' = column + (e - pos)
      /\ lexErrors' \subseteq lexErrors \cup {pos}
  BY DEF Skip, LexError, AdvanceTo
<1>2. line' \in Nat \ {0} /\ column' \in Nat \ {0}
  BY <1>1, TextIsSequence DEF Scanned
<1> QED
  BY <1>1, <1>2, MovePast

\* A run that begins with the character at hand ends behind it.
LEMMA RunPast ==
  ASSUME Scanned, NEW class, Reads(class)
  PROVE  RunEnd(pos, class) \in pos + 1 .. Len(text) + 1
<1>1. pos \in 1 .. Len(text) /\ Len(text) \in Nat /\ Is(pos, class)
  BY ReadsHere DEF Reads
<1>2. /\ RunEnd(pos, class) \in pos .. Len(text) + 1
      /\ ~Is(RunEnd(pos, class), class)
  BY <1>1, RunFound DEF Scanned
<1> QED
  BY <1>1, <1>2

LEMMA LexerStep ==
  ASSUME Scanned, NextToken
  PROVE  Scanned'
<1>1. CASE SkipBlank
  BY <1>1, ReadsHere, SkipKeeps DEF SkipBlank
<1>2. CASE NextLine
  <2>1. /\ pos + 1 \in pos + 1 .. Len(text) + 1
        /\ line \in Nat
    BY <1>2, ReadsHere DEF NextLine, Scanned
  <2>2. /\ text' = text /\ pos' = pos + 1 /\ window' = window
        /\ line' = line + 1 /\ column' = 1 /\ lexErrors' = lexErrors
    BY <1>2 DEF NextLine
  <2> QED
    BY <2>1, <2>2, MovePast
<1>3. CASE Comment
  <2> DEFINE class == Other({Newline})
  <2>1. Reads(class)
    <3>1. text[pos] = "#" /\ pos \in DOMAIN text
      BY <1>3, ReadsHere, TextIsSequence DEF Comment, Scanned
    <3>2. text[pos] \in class
      BY <3>1 DEF Other, Newline
    <3> HIDE DEF class
    <3> QED
      BY <1>3, <3>2 DEF Comment, Reads, Is
  <2> HIDE DEF class
  <2>2. RunEnd(pos, class) \in pos + 1 .. Len(text) + 1
    BY <2>1, RunPast
  <2> QED
    BY <1>3, <2>2, SkipKeeps DEF Comment, class
<1>4. CASE OneCharacter
  <2>1. /\ wanted > 0 /\ pos <= Len(text) /\ text[pos] \in TokenType
        /\ pos + 1 \in pos + 1 .. Len(text) + 1
    <3>1. Reads(Single)
      BY <1>4 DEF OneCharacter
    <3>2. text[pos] \in TokenType
      BY <3>1, ReadsHere DEF TokenType
    <3> QED
      BY <3>1, <3>2, ReadsHere
  <2> QED
    BY <1>4, <2>1, EmitPast DEF OneCharacter
<1>5. CASE TwoCharacters
  <2>1. /\ wanted > 0 /\ pos <= Len(text) /\ text[pos] \in DOMAIN Pair
        /\ Is(pos + 1, {Second[text[pos]]}) /\ Emit(Pair[text[pos]], pos + 2)
    BY <1>5, ReadsHere DEF TwoCharacters
  <2>2. pos + 2 \in pos + 1 .. Len(text) + 1
    BY <1>5, <2>1, ReadsHere DEF Is, AtEnd, TwoCharacters
  <2>3. Pair[text[pos]] \in TokenType
    BY <2>1 DEF TokenType, Range
  <2> QED
    BY <2>1, <2>2, <2>3, EmitPast
<1>6. CASE FirstOnly
  <2>1. /\ wanted > 0 /\ pos <= Len(text) /\ text[pos] \in TokenType
        /\ pos + 1 \in pos + 1 .. Len(text) + 1
    <3>1. Reads(DOMAIN Pair)
      BY <1>6 DEF FirstOnly
    <3>2. text[pos] \in TokenType
      BY <3>1, ReadsHere DEF TokenType
    <3> QED
      BY <3>1, <3>2, ReadsHere
  <2> QED
    BY <1>6, <2>1, EmitPast, SkipKeeps DEF FirstOnly
<1>7. CASE StringLiteral
  <2> DEFINE e == RunEnd(pos + 1, Other({"\""}))
  <2>1. /\ wanted > 0 /\ pos <= Len(text) /\ Len(text) \in Nat
        /\ pos + 1 \in 1 .. Len(text) + 1 /\ pos \in Nat
    <3>1. Reads({"\""})
      BY <1>7 DEF StringLiteral
    <3> QED
      BY <3>1, ReadsHere
  <2>2. e \in pos + 1 .. Len(text) + 1
    BY <2>1, RunFound DEF Scanned
  <2>3. IF AtEnd(e) THEN LexError(e) ELSE Emit("lit str", e + 1)
    BY <1>7 DEF StringLiteral
  <2> HIDE DEF e
  <2>4. CASE AtEnd(e)
    BY <2>2, <2>3, <2>4, SkipKeeps
  <2>5. CASE ~AtEnd(e)
    <3>1. e + 1 \in pos + 1 .. Len(text) + 1
      BY <2>1, <2>2, <2>5 DEF AtEnd
    <3>2. "lit str" \in TokenType
      BY DEF TokenType
    <3> QED
      BY <2>1, <2>3, <2>5, <3>1, <3>2, EmitPast
  <2> QED
    BY <2>4, <2>5
<1>8. CASE CharLiteral
  <2>1. /\ wanted > 0 /\ pos <= Len(text)
        /\ CharEnd \in pos + 1 .. Len(text) + 1
    <3>1. Reads({"'"})
      BY <1>8 DEF CharLiteral
    <3>2. wanted > 0 /\ pos \in 1 .. Len(text) /\ Len(text) \in Nat
      BY <3>1, ReadsHere
    <3> QED
      BY <3>2, CharEndFound DEF Scanned
  <2>2. "lit char" \in TokenType
    BY DEF TokenType
  <2> QED
    BY <1>8, <2>1, <2>2, EmitPast, SkipKeeps DEF CharLiteral
<1>9. CASE Word
  <2> DEFINE e == RunEnd(pos, Letter)
             s == SubSeq(text, pos, e - 1)
  <2>1. /\ wanted > 0 /\ pos <= Len(text)
        /\ e \in pos + 1 .. Len(text) + 1
    BY <1>9, ReadsHere, RunPast DEF Word
  <2>2. Emit(WordType(s), e)
    BY <1>9 DEF Word
  <2> HIDE DEF s, e
  <2>3. WordType(s) \in TokenType
    BY DEF WordType, TokenType, Range
  <2> QED
    BY <2>1, <2>2, <2>3, EmitPast
<1>10. CASE Number
  <2> DEFINE e == RunEnd(pos, Digit)
             f == RunEnd(e + 1, Digit)
  <2>1. /\ wanted > 0 /\ pos <= Len(text) /\ pos \in Nat
        /\ e \in pos + 1 .. Len(text) + 1 /\ Len(text) \in Nat
    <3>1. Reads(Digit)
      BY <1>10 DEF Number
    <3> QED
      BY <3>1, ReadsHere, RunPast
  <2>2. IF ~Is(e, {"."}) THEN Emit("lit int", e)
        ELSE IF Is(e + 1, Digit) THEN Emit("lit float", f) ELSE LexError(e + 1)
    BY <1>10 DEF Number
  <2>3. Is(e, {"."}) => e + 1 \in pos + 1 .. Len(text) + 1
    BY <2>1 DEF Is, AtEnd
  <2>4. Is(e, {"."}) => f \in pos + 1 .. Len(text) + 1
    <3> HIDE DEF e
    <3> SUFFICES ASSUME Is(e, {"."}) PROVE f \in pos + 1 .. Len(text) + 1
      OBVIOUS
    <3>1. e + 1 \in 1 .. Len(text) + 1
      BY <2>1, <2>3
    <3>2. f \in e + 1 .. Len(text) + 1
      BY <3>1, RunFound DEF Scanned
    <3> QED
      BY <2>1, <3>2
  <2>5. "lit int" \in TokenType /\ "lit float" \in TokenType
    BY DEF TokenType
  <2> HIDE DEF e, f
  <2> QED
    BY <2>1, <2>2, <2>3, <2>4, <2>5, EmitPast, SkipKeeps
<1>11. CASE Unrecognised
  BY <1>11, ReadsHere, SkipKeeps DEF Unrecognised
<1> QED
  BY <1>1, <1>2, <1>3, <1>4, <1>5, <1>6, <1>7, <1>8, <1>9, <1>10, <1>11,
     EndPast DEF NextToken

-----------------------------------------------------------------------------
(***************************************************************************)
(* The tasks of the parser: how many values each of them leaves, more than *)
(* it finds.                                                               *)
(***************************************************************************)

Makes ==
  {"leaf", "nothing", "definition", "header", "parameters", "parameter",
   "declaration", "block", "statements", "statement", "assignment", "call",
   "return", "returned", "if", "branch", "while", "expression", "primary",
   "arguments"}

Effect(t) ==
  CASE t[1] = "node" -> 1 - t[4]
    [] t[1] \in Makes -> 1
    [] t[1] \in {"link", "add", "else"} -> -1
    [] OTHER -> 0

TaskOK(t) ==
  /\ t[1] = "node" => t[4] \in Nat
  /\ t[1] = "operators" => t[2] \in 1 .. 6
  /\ t[1] = "more" => t[2] \in {"parameter", "expression"}

Fits(t, e) == TaskOK(t) /\ Effect(t) = e

Positive == Nat \ {0}

\* The tasks lead from a values to b, and always leave one.
Path(s, a, b) ==
  /\ s \in Seq(Range(s))
  /\ \A i \in 1 .. Len(s) : TaskOK(s[i])
  /\ \E h \in [1 .. Len(s) + 1 -> Positive] :
       /\ h[1] = a
       /\ h[Len(s) + 1] = b
       /\ \A i \in 1 .. Len(s) : h[i + 1] = h[i] + Effect(s[i])

LEMMA TaskFits ==
  /\ \A x : Fits(Expect(x), 0)
  /\ \A x : Fits(LeafOf(x), 1)
  /\ \A x : Fits(Parent(x), 0)
  /\ \A x : Fits(<<"accept", x>>, 0)
  /\ \A x : Fits(<<"block", x>>, 1)
  /\ \A x : Fits(<<"returned", x>>, 1)
  /\ \A x : Fits(<<"else", x>>, -1)
  /\ \A l \in 1 .. 6 : Fits(<<"operators", l>>, 0)
  /\ \A x \in {"parameter", "expression"} : Fits(<<"more", x>>, 0)
BY DEF Fits, TaskOK, Effect, Makes, Expect, LeafOf, Parent

LEMMA NodeFits ==
  \A k, x : /\ Fits(Node(k, x, 0), 1) /\ Fits(Node(k, x, 1), 0)
            /\ Fits(Node(k, x, 2), -1) /\ Fits(Node(k, x, 3), -2)
BY DEF Fits, TaskOK, Effect, Makes, Node

LEMMA PlainFits ==
  /\ \A k \in Makes : Fits(<<k>>, 1)
  /\ \A k \in {"link", "add"} : Fits(<<k>>, -1)
  /\ \A k \in {"program", "begin", "initial", "assigned", "rest",
               "synchronize"} : Fits(<<k>>, 0)
BY DEF Fits, TaskOK, Effect, Makes

LEMMA AnySequence ==
  ASSUME NEW S, NEW s \in Seq(S)
  PROVE  s \in Seq(Range(s))
BY DEF Range

LEMMA SameSequence ==
  ASSUME NEW S, NEW s \in Seq(S), NEW t \in Seq(S), Len(s) = 2, Len(t) = 2,
         s[1] = t[1], s[2] = t[2]
  PROVE  s = t
<1>1. /\ s = [i \in 1 .. 2 |-> s[i]]
      /\ t = [i \in 1 .. 2 |-> t[i]]
  OBVIOUS
<1>2. \A i \in 1 .. 2 : s[i] = t[i]
  OBVIOUS
<1> QED
  BY <1>1, <1>2

LEMMA JoinedSequence ==
  ASSUME NEW s, NEW t, s \in Seq(Range(s)), t \in Seq(Range(t))
  PROVE  /\ s \o t \in Seq(Range(s \o t))
         /\ Len(s) \in Nat /\ Len(t) \in Nat
         /\ Len(s \o t) = Len(s) + Len(t)
         /\ \A i \in 1 .. Len(s) : (s \o t)[i] = s[i]
         /\ \A i \in 1 .. Len(t) : (s \o t)[Len(s) + i] = t[i]
<1> DEFINE S == Range(s) \cup Range(t)
<1>1. s \in Seq(S) /\ t \in Seq(S)
  <2>1. \A U, V : U \subseteq V => Seq(U) \subseteq Seq(V)
    OBVIOUS
  <2>2. Range(s) \subseteq S /\ Range(t) \subseteq S
    OBVIOUS
  <2> HIDE DEF S
  <2> QED
    BY <2>1, <2>2
<1> HIDE DEF S
<1>2. s \o t \in Seq(S)
  BY <1>1
<1>3. s \o t \in Seq(Range(s \o t))
  BY <1>2, AnySequence
<1> QED
  BY <1>1, <1>3

LEMMA RestSequence ==
  ASSUME NEW s, s \in Seq(Range(s)), s # <<>>
  PROVE  /\ Tail(s) \in Seq(Range(Tail(s)))
         /\ Len(Tail(s)) = Len(s) - 1 /\ Len(s) \in Nat \ {0}
         /\ \A i \in 1 .. Len(s) - 1 : Tail(s)[i] = s[i + 1]
         /\ Head(s) = s[1]
<1>1. Tail(s) \in Seq(Range(s))
  OBVIOUS
<1>2. Tail(s) \in Seq(Range(Tail(s)))
  BY <1>1, AnySequence
<1> QED
  BY <1>2

LEMMA PathEmpty ==
  ASSUME NEW a \in Positive
  PROVE  Path(<<>>, a, a)
<1> DEFINE h == [i \in 1 .. 1 |-> a]
<1>1. /\ <<>> \in Seq(Range(<<>>)) /\ Len(<<>>) = 0
  <2>1. <<>> \in Seq({})
    OBVIOUS
  <2> QED
    BY <2>1, AnySequence
<1>2. /\ h \in [1 .. 0 + 1 -> Positive] /\ h[1] = a /\ h[0 + 1] = a
      /\ \A i \in 1 .. 0 : h[i + 1] = h[i] + Effect((<<>>)[i])
  OBVIOUS
<1> HIDE DEF h
<1> QED
  BY <1>1, <1>2 DEF Path

LEMMA PathOne ==
  ASSUME NEW a \in Positive, NEW t, NEW e \in Int, Fits(t, e),
         a + e \in Positive
  PROVE  Path(<<t>>, a, a + e)
<1> DEFINE h == [i \in 1 .. 2 |-> IF i = 1 THEN a ELSE a + e]
<1>1. <<t>> \in Seq({t}) /\ Len(<<t>>) = 1 /\ <<t>>[1] = t
  OBVIOUS
<1>2. <<t>> \in Seq(Range(<<t>>))
  BY <1>1, AnySequence
<1>3. TaskOK(t) /\ Effect(t) = e
  BY DEF Fits
<1>4. /\ h \in [1 .. 1 + 1 -> Positive] /\ h[1] = a /\ h[1 + 1] = a + e
  OBVIOUS
<1> HIDE DEF h
<1>5. \A i \in 1 .. 1 : h[i + 1] = h[i] + Effect(<<t>>[i])
  BY <1>1, <1>3, <1>4
<1> QED
  BY <1>1, <1>2, <1>3, <1>4, <1>5 DEF Path

LEMMA PathJoin ==
  ASSUME NEW a, NEW b, NEW c, NEW s, NEW t, Path(s, a, b), Path(t, b, c)
  PROVE  Path(s \o t, a, c)
<1>1. /\ s \in Seq(Range(s)) /\ t \in Seq(Range(t))
      /\ \A i \in 1 .. Len(s) : TaskOK(s[i])
      /\ \A i \in 1 .. Len(t) : TaskOK(t[i])
  BY DEF Path
<1>2. /\ s \o t \in Seq(Range(s \o t))
      /\ Len(s) \in Nat /\ Len(t) \in Nat
      /\ Len(s \o t) = Len(s) + Len(t)
      /\ \A i \in 1 .. Len(s) : (s \o t)[i] = s[i]
      /\ \A i \in 1 .. Len(t) : (s \o t)[Len(s) + i] = t[i]
  BY <1>1, JoinedSequence
<1>3. PICK h \in [1 .. Len(s) + 1 -> Positive] :
        /\ h[1] = a
        /\ h[Len(s) + 1] = b
        /\ \A i \in 1 .. Len(s) : h[i + 1] = h[i] + Effect(s[i])
  BY DEF Path
<1>4. PICK k \in [1 .. Len(t) + 1 -> Positive] :
        /\ k[1] = b
        /\ k[Len(t) + 1] = c
        /\ \A i \in 1 .. Len(t) : k[i + 1] = k[i] + Effect(t[i])
  BY DEF Path
<1> DEFINE u == s \o t
           g == [i \in 1 .. Len(s) + Len(t) + 1 |->
                   IF i <= Len(s) + 1 THEN h[i] ELSE k[i - Len(s)]]
<1>5. g \in [1 .. Len(s) + Len(t) + 1 -> Positive]
  BY <1>2, <1>3, <1>4
<1>6. g[1] = a
  BY <1>2, <1>3
<1>7. g[Len(s) + Len(t) + 1] = c
  <2>1. CASE Len(t) = 0
    BY <1>2, <1>3, <1>4, <2>1
  <2>2. CASE Len(t) # 0
    BY <1>2, <1>4, <2>2
  <2> QED
    BY <2>1, <2>2
<1>8. ASSUME NEW i \in 1 .. Len(s) + Len(t)
      PROVE  TaskOK(u[i]) /\ g[i + 1] = g[i] + Effect(u[i])
  <2>1. CASE i <= Len(s)
    BY <1>1, <1>2, <1>3, <2>1
  <2>2. CASE i > Len(s)
    <3>1. PICK j \in 1 .. Len(t) : i = Len(s) + j
      <4>1. i - Len(s) \in 1 .. Len(t) /\ i = Len(s) + (i - Len(s))
        BY <1>2, <2>2
      <4> QED
        BY <4>1
    <3>2. u[i] = t[j]
      BY <1>2, <3>1
    <3>3. g[i + 1] = k[j + 1]
      BY <1>2, <3>1
    <3>4. g[i] = k[j]
      <4>1. CASE j = 1
        BY <1>2, <1>3, <1>4, <3>1, <4>1
      <4>2. CASE j # 1
        BY <1>2, <3>1, <4>2
      <4> QED
        BY <4>1, <4>2
    <3> HIDE DEF g, u
    <3> QED
      BY <1>1, <1>4, <3>1, <3>2, <3>3, <3>4
  <2> QED
    BY <1>2, <2>1, <2>2
<1> HIDE DEF g
<1> QED
  BY <1>2, <1>5, <1>6, <1>7, <1>8 DEF Path

LEMMA PathRest ==
  ASSUME NEW a, NEW b, NEW s, Path(s, a, b), s # <<>>
  PROVE  Fits(Head(s), Effect(Head(s)))
         /\ Path(Tail(s), a + Effect(Head(s)), b)
<1>1. /\ s \in Seq(Range(s))
      /\ \A i \in 1 .. Len(s) : TaskOK(s[i])
  BY DEF Path
<1>2. PICK h \in [1 .. Len(s) + 1 -> Positive] :
        /\ h[1] = a
        /\ h[Len(s) + 1] = b
        /\ \A i \in 1 .. Len(s) : h[i + 1] = h[i] + Effect(s[i])
  BY DEF Path
<1> DEFINE t == Tail(s)
           g == [i \in 1 .. Len(s) |-> h[i + 1]]
<1>3. /\ t \in Seq(Range(t))
      /\ Len(t) = Len(s) - 1 /\ Len(s) \in Nat \ {0}
      /\ \A i \in 1 .. Len(s) - 1 : t[i] = s[i + 1]
      /\ Head(s) = s[1]
  BY <1>1, RestSequence
<1> HIDE DEF t
<1>4. /\ g \in [1 .. Len(t) + 1 -> Positive]
      /\ g[1] = a + Effect(s[1])
      /\ g[Len(t) + 1] = b
  BY <1>2, <1>3
<1>5. \A i \in 1 .. Len(t) :
         TaskOK(t[i]) /\ g[i + 1] = g[i] + Effect(t[i])
  <2> SUFFICES ASSUME NEW i \in 1 .. Len(t)
               PROVE  TaskOK(t[i]) /\ g[i + 1] = g[i] + Effect(t[i])
    OBVIOUS
  <2>1. i + 1 \in 1 .. Len(s) /\ i \in 1 .. Len(s) /\ t[i] = s[i + 1]
    BY <1>3
  <2>2. g[i] = h[i + 1] /\ g[i + 1] = h[(i + 1) + 1]
    BY <1>3, <2>1
  <2> HIDE DEF g
  <2> QED
    BY <1>1, <1>2, <2>1, <2>2
<1> HIDE DEF g
<1>6. Path(t, a + Effect(s[1]), b)
  BY <1>3, <1>4, <1>5 DEF Path
<1>7. TaskOK(s[1])
  BY <1>1, <1>3
<1> QED
  BY <1>3, <1>6, <1>7 DEF t, Fits

LEMMA EffectIsNumber ==
  ASSUME NEW t, TaskOK(t)
  PROVE  Effect(t) \in Int /\ Fits(t, Effect(t))
BY DEF TaskOK, Effect, Fits

\* Paths of one to seven tasks.
LEMMA PathOf1 ==
  ASSUME NEW a \in Positive, NEW b \in Positive, NEW t1, TaskOK(t1),
         b = a + Effect(t1)
  PROVE  Path(<<t1>>, a, b)
BY EffectIsNumber, PathOne

LEMMA PathOf2 ==
  ASSUME NEW a \in Positive, NEW b \in Positive,
         NEW t1, NEW t2,
         TaskOK(t1), TaskOK(t2),
         a + Effect(t1) \in Positive,
         b = a + Effect(t1) + Effect(t2)
  PROVE  Path(<<t1, t2>>, a, b)
<1> DEFINE c == a + Effect(t1)
<1>1. Path(<<t1>>, a, c)
  BY PathOf1
<1> HIDE DEF c
<1>2. Path(<<t2>>, c, b)
  BY PathOf1 DEF c
<1>3. <<t1, t2>> = <<t1>> \o <<t2>>
  <2> DEFINE S == {t1, t2}
  <2>1. <<t1>> \in Seq(S) /\ <<t2>> \in Seq(S) /\ <<t1, t2>> \in Seq(S)
    OBVIOUS
  <2>2. /\ Len(<<t1>> \o <<t2>>) = 2
        /\ (<<t1>> \o <<t2>>)[1] = t1
        /\ (<<t1>> \o <<t2>>)[2] = t2
        /\ <<t1>> \o <<t2>> \in Seq(S)
    BY <2>1
  <2>3. /\ Len(<<t1, t2>>) = 2
        /\ <<t1, t2>>[1] = t1
        /\ <<t1, t2>>[2] = t2
    OBVIOUS
  <2> HIDE DEF S
  <2> QED
    BY <2>1, <2>2, <2>3, SameSequence
<1> QED
  BY <1>1, <1>2, <1>3, PathJoin

LEMMA PathOf3 ==
  ASSUME NEW a \in Positive, NEW b \in Positive,
         NEW t1, NEW t2, NEW t3,
         TaskOK(t1), TaskOK(t2), TaskOK(t3),
         a + Effect(t1) \in Positive,
         a + Effect(t1) + Effect(t2) \in Positive,
         b = a + Effect(t1) + Effect(t2) + Effect(t3)
  PROVE  Path(<<t1, t2, t3>>, a, b)
<1> DEFINE c == a + Effect(t1) + Effect(t2)
<1>1. Path(<<t1, t2>>, a, c)
  BY PathOf2
<1> HIDE DEF c
<1>2. Path(<<t3>>, c, b)
  BY PathOf1 DEF c
<1>3. <<t1, t2, t3>> = <<t1, t2>> \o <<t3>>
  OBVIOUS
<1> QED
  BY <1>1, <1>2, <1>3, PathJoin

LEMMA PathOf4 ==
  ASSUME NEW a \in Positive, NEW b \in Positive,
         NEW t1, NEW t2, NEW t3, NEW t4,
         TaskOK(t1), TaskOK(t2), TaskOK(t3), TaskOK(t4),
         a + Effect(t1) \in Positive,
         a + Effect(t1) + Effect(t2) \in Positive,
         a + Effect(t1) + Effect(t2) + Effect(t3) \in Positive,
         b = a + Effect(t1) + Effect(t2) + Effect(t3) + Effect(t4)
  PROVE  Path(<<t1, t2, t3, t4>>, a, b)
<1> DEFINE c == a + Effect(t1) + Effect(t2) + Effect(t3)
<1>1. Path(<<t1, t2, t3>>, a, c)
  BY PathOf3
<1> HIDE DEF c
<1>2. Path(<<t4>>, c, b)
  BY PathOf1 DEF c
<1>3. <<t1, t2, t3, t4>> = <<t1, t2, t3>> \o <<t4>>
  OBVIOUS
<1> QED
  BY <1>1, <1>2, <1>3, PathJoin

LEMMA PathOf5 ==
  ASSUME NEW a \in Positive, NEW b \in Positive,
         NEW t1, NEW t2, NEW t3, NEW t4, NEW t5,
         TaskOK(t1), TaskOK(t2), TaskOK(t3), TaskOK(t4), TaskOK(t5),
         a + Effect(t1) \in Positive,
         a + Effect(t1) + Effect(t2) \in Positive,
         a + Effect(t1) + Effect(t2) + Effect(t3) \in Positive,
         a + Effect(t1) + Effect(t2) + Effect(t3) + Effect(t4) \in Positive,
         b = a + Effect(t1) + Effect(t2) + Effect(t3) + Effect(t4) + Effect(t5)
  PROVE  Path(<<t1, t2, t3, t4, t5>>, a, b)
<1> DEFINE c == a + Effect(t1) + Effect(t2) + Effect(t3) + Effect(t4)
<1>1. Path(<<t1, t2, t3, t4>>, a, c)
  BY PathOf4
<1> HIDE DEF c
<1>2. Path(<<t5>>, c, b)
  BY PathOf1 DEF c
<1>3. <<t1, t2, t3, t4, t5>> = <<t1, t2, t3, t4>> \o <<t5>>
  OBVIOUS
<1> QED
  BY <1>1, <1>2, <1>3, PathJoin

LEMMA PathOf6 ==
  ASSUME NEW a \in Positive, NEW b \in Positive,
         NEW t1, NEW t2, NEW t3, NEW t4, NEW t5, NEW t6,
         TaskOK(t1), TaskOK(t2), TaskOK(t3), TaskOK(t4), TaskOK(t5),
         TaskOK(t6),
         a + Effect(t1) \in Positive,
         a + Effect(t1) + Effect(t2) \in Positive,
         a + Effect(t1) + Effect(t2) + Effect(t3) \in Positive,
         a + Effect(t1) + Effect(t2) + Effect(t3) + Effect(t4) \in Positive,
         a + Effect(t1) + Effect(t2) + Effect(t3) + Effect(t4)
           + Effect(t5) \in Positive,
         b = a + Effect(t1) + Effect(t2) + Effect(t3) + Effect(t4) + Effect(t5)
               + Effect(t6)
  PROVE  Path(<<t1, t2, t3, t4, t5, t6>>, a, b)
<1> DEFINE c == a + Effect(t1) + Effect(t2) + Effect(t3) + Effect(t4)
                  + Effect(t5)
<1>1. Path(<<t1, t2, t3, t4, t5>>, a, c)
  BY PathOf5
<1> HIDE DEF c
<1>2. Path(<<t6>>, c, b)
  BY PathOf1 DEF c
<1>3. <<t1, t2, t3, t4, t5, t6>> = <<t1, t2, t3, t4, t5>> \o <<t6>>
  OBVIOUS
<1> QED
  BY <1>1, <1>2, <1>3, PathJoin

LEMMA PathOf7 ==
  ASSUME NEW a \in Positive, NEW b \in Positive,
         NEW t1, NEW t2, NEW t3, NEW t4, NEW t5, NEW t6, NEW t7,
         TaskOK(t1), TaskOK(t2), TaskOK(t3), TaskOK(t4), TaskOK(t5),
         TaskOK(t6), TaskOK(t7),
         a + Effect(t1) \in Positive,
         a + Effect(t1) + Effect(t2) \in Positive,
         a + Effect(t1) + Effect(t2) + Effect(t3) \in Positive,
         a + Effect(t1) + Effect(t2) + Effect(t3) + Effect(t4) \in Positive,
         a + Effect(t1) + Effect(t2) + Effect(t3) + Effect(t4)
           + Effect(t5) \in Positive,
         a + Effect(t1) + Effect(t2) + Effect(t3) + Effect(t4) + Effect(t5) +
           Effect(t6) \in Positive,
         b = a + Effect(t1) + Effect(t2) + Effect(t3) + Effect(t4) + Effect(t5)
               + Effect(t6) + Effect(t7)
  PROVE  Path(<<t1, t2, t3, t4, t5, t6, t7>>, a, b)
<1> DEFINE c == a + Effect(t1) + Effect(t2) + Effect(t3) + Effect(t4)
                  + Effect(t5) +
                  Effect(t6)
<1>1. Path(<<t1, t2, t3, t4, t5, t6>>, a, c)
  BY PathOf6
<1> HIDE DEF c
<1>2. Path(<<t7>>, c, b)
  BY PathOf1 DEF c
<1>3. <<t1, t2, t3, t4, t5, t6, t7>> = <<t1, t2, t3, t4, t5, t6>> \o <<t7>>
  OBVIOUS
<1> QED
  BY <1>1, <1>2, <1>3, PathJoin

LEMMA PathFlat ==
  ASSUME NEW a \in Positive, NEW s, s \in Seq(Range(s)),
         \A i \in 1 .. Len(s) : Fits(s[i], 0)
  PROVE  Path(s, a, a)
<1> DEFINE h == [i \in 1 .. Len(s) + 1 |-> a]
<1>1. Len(s) \in Nat
  OBVIOUS
<1>2. /\ h \in [1 .. Len(s) + 1 -> Positive]
      /\ h[1] = a /\ h[Len(s) + 1] = a
      /\ \A i \in 1 .. Len(s) : h[i] = a /\ h[i + 1] = a
  BY <1>1
<1> HIDE DEF h
<1>3. \A i \in 1 .. Len(s) : h[i + 1] = h[i] + Effect(s[i])
  BY <1>2 DEF Fits, Positive
<1> QED
  BY <1>2, <1>3 DEF Path, Fits

LEMMA FromPath ==
  ASSUME NEW a \in Positive, NEW level \in 1 .. 7
  PROVE  Path(From(level), a, a + 1)
<1> DEFINE s == [i \in 1 .. 7 - level |-> <<"operators", 7 - i>>]
<1>1. Len(Levels) + 1 = 7
  BY DEF Levels
<1>2. \A i \in 1 .. 7 - level :
         7 - i \in 1 .. 6 /\ s[i] = <<"operators", 7 - i>>
  OBVIOUS
<1>3. s \in Seq(Range(s)) /\ Len(s) = 7 - level
  <2> DEFINE S == Range(s)
  <2>1. s \in [1 .. 7 - level -> S] /\ 7 - level \in Nat
    BY DEF Range
  <2> HIDE DEF s, S
  <2>2. s \in Seq(S) /\ Len(s) = 7 - level
    BY <2>1
  <2> QED
    BY <2>2 DEF S
<1>4. From(level) = << <<"primary">> >> \o s
  BY <1>1 DEF From
<1> HIDE DEF s
<1>5. \A i \in 1 .. Len(s) : Fits(s[i], 0)
  BY <1>2, <1>3, TaskFits
<1>6. a + 1 \in Positive
  BY DEF Positive
<1>7. Path(<< <<"primary">> >>, a, a + 1)
  <2>1. Fits(<<"primary">>, 1)
    BY PlainFits DEF Makes
  <2> QED
    BY <2>1, <1>6, PathOne
<1>8. Path(s, a + 1, a + 1)
  BY <1>3, <1>5, <1>6, PathFlat
<1> QED
  BY <1>4, <1>7, <1>8, PathJoin

-----------------------------------------------------------------------------
(***************************************************************************)
(* The invariant of the parser: every list of tasks leads to one value.    *)
(***************************************************************************)

Stacked ==
  /\ nodes \in Seq(Range(nodes))
  /\ parseErrors \subseteq 1 .. Len(text) + 1
  /\ todo \in Seq(Range(todo))
  /\ todo # <<>> => /\ ~crashed
                    /\ Path(todo, Len(nodes), 1)
                    /\ todo[Len(todo)] = <<"program">>
  /\ todo = <<>> => /\ wanted = 0
                    /\ crashed \/ (Len(nodes) = 1 /\ token.type = "EOF")

ParserInv == Scanned /\ Stacked

LEMMA AtTask ==
  ASSUME ParserInv, NEW k, At(k)
  PROVE  /\ wanted = 0 /\ todo # <<>> /\ ~crashed
         /\ Head(todo)[1] = k
         /\ Len(nodes) \in Positive
         /\ Fits(Head(todo), Effect(Head(todo)))
         /\ Effect(Head(todo)) \in Int
         /\ Len(nodes) + Effect(Head(todo)) \in Positive
         /\ Path(Tail(todo), Len(nodes) + Effect(Head(todo)), 1)
<1>1. wanted = 0 /\ todo # <<>> /\ Head(todo)[1] = k
  BY DEF At
<1>2. ~crashed /\ Path(todo, Len(nodes), 1)
  BY <1>1 DEF ParserInv, Stacked
<1>3. /\ Fits(Head(todo), Effect(Head(todo)))
      /\ Path(Tail(todo), Len(nodes) + Effect(Head(todo)), 1)
  BY <1>1, <1>2, PathRest
<1>4. \A s, a, b : Path(s, a, b) => a \in Positive
  <2> SUFFICES ASSUME NEW s, NEW a, NEW b, Path(s, a, b)
               PROVE  a \in Positive
    OBVIOUS
  <2>1. s \in Seq(Range(s))
    BY DEF Path
  <2>2. 1 \in 1 .. Len(s) + 1
    BY <2>1
  <2> QED
    BY <2>2 DEF Path
<1>5. Effect(Head(todo)) \in Int
  BY <1>3 DEF Fits, TaskOK, Effect
<1> QED
  BY <1>1, <1>2, <1>3, <1>4, <1>5

LEMMA LookKeeps ==
  ASSUME Scanned, Look
  PROVE  Scanned' /\ text' = text /\ wanted' = wanted /\ token' = token
<1>1. /\ text' = text /\ pos' = pos /\ line' = line /\ column' = column
      /\ token' = token /\ lookahead' = lookahead /\ wanted' = wanted
      /\ tokens' = tokens /\ lexErrors' = lexErrors
  BY DEF Look, lexerVars, place, window
<1> QED
  BY <1>1 DEF Scanned, Sorted, Window, Received, AtEnd

LEMMA ConsumeKeeps ==
  ASSUME Scanned, Consume, wanted = 0
  PROVE  Scanned' /\ text' = text
<1>1. /\ text' = text /\ pos' = pos /\ line' = line /\ column' = column
      /\ tokens' = tokens /\ lexErrors' = lexErrors
      /\ lookahead' = lookahead
      /\ \/ token' = lookahead /\ wanted' = wanted
         \/ wanted' = 1 /\ token' = token
  BY DEF Consume, GetNext, place
<1> QED
  BY <1>1 DEF Scanned, Sorted, Window, Received, AtEnd

LEMMA StepKeeps ==
  ASSUME ParserInv, NEW k, At(k), k # "program", NEW tasks, Do(tasks),
         Look \/ Consume, NoError \/ ParserError,
         nodes' \in Seq(Range(nodes')),
         Path(tasks, Len(nodes'), Len(nodes) + Effect(Head(todo)))
  PROVE  ParserInv'
<1>1. /\ wanted = 0 /\ todo # <<>> /\ ~crashed
      /\ Head(todo)[1] = k
      /\ Path(Tail(todo), Len(nodes) + Effect(Head(todo)), 1)
  BY AtTask
<1>2. Scanned' /\ text' = text
  BY <1>1, LookKeeps, ConsumeKeeps DEF ParserInv
<1>3. todo' = tasks \o Tail(todo)
  BY DEF Do
<1>4. /\ todo \in Seq(Range(todo)) /\ todo[Len(todo)] = <<"program">>
  BY <1>1 DEF ParserInv, Stacked
<1>5. /\ Tail(todo) \in Seq(Range(Tail(todo)))
      /\ Len(Tail(todo)) = Len(todo) - 1 /\ Len(todo) \in Nat \ {0}
      /\ \A i \in 1 .. Len(todo) - 1 : Tail(todo)[i] = todo[i + 1]
      /\ Head(todo) = todo[1]
  BY <1>1, <1>4, RestSequence
<1>6. Len(todo) > 1
  <2> SUFFICES ASSUME Len(todo) = 1 PROVE FALSE
    BY <1>5
  <2> QED
    BY <1>1, <1>4, <1>5
<1>7. tasks \in Seq(Range(tasks))
  BY DEF Path
<1>8. /\ todo' \in Seq(Range(todo'))
      /\ Len(tasks) \in Nat
      /\ Len(todo') = Len(tasks) + Len(Tail(todo))
      /\ \A i \in 1 .. Len(Tail(todo)) : todo'[Len(tasks) + i] = Tail(todo)[i]
  <2> DEFINE r == Tail(todo)
  <2>1. todo' = tasks \o r /\ r \in Seq(Range(r))
    BY <1>3, <1>5
  <2> HIDE DEF r
  <2>2. /\ tasks \o r \in Seq(Range(tasks \o r))
        /\ Len(tasks) \in Nat
        /\ Len(tasks \o r) = Len(tasks) + Len(r)
        /\ \A i \in 1 .. Len(r) : (tasks \o r)[Len(tasks) + i] = r[i]
    BY <1>7, <2>1, JoinedSequence
  <2> QED
    BY <2>1, <2>2 DEF r
<1>9. todo' # <<>> /\ todo'[Len(todo')] = <<"program">>
  <2>1. Len(todo) - 1 \in 1 .. Len(Tail(todo))
    BY <1>5, <1>6
  <2>2. todo'[Len(tasks) + (Len(todo) - 1)] = todo[(Len(todo) - 1) + 1]
    BY <1>5, <1>8, <2>1
  <2>3. Len(todo') = Len(tasks) + (Len(todo) - 1) /\ Len(todo') > 0
    BY <1>5, <1>6, <1>8
  <2>4. (Len(todo) - 1) + 1 = Len(todo)
    BY <1>5
  <2> QED
    BY <1>4, <2>2, <2>3, <2>4
<1>10. Path(todo', Len(nodes'), 1)
  BY <1>1, <1>3, PathJoin
<1>11. crashed' = crashed /\ parseErrors' \subseteq 1 .. Len(text') + 1
  <2>1. token.from \in 1 .. Len(text) + 1
    BY <1>1 DEF ParserInv, Scanned, Window, Received
  <2> QED
    BY <1>2, <2>1 DEF NoError, ParserError, ParserInv, Stacked
<1> QED
  BY <1>1, <1>2, <1>8, <1>9, <1>10, <1>11 DEF ParserInv, Stacked

LEMMA EffectOf ==
  \A t : /\ t[1] \in Makes => Effect(t) = 1
         /\ t[1] \in {"link", "add", "else"} => Effect(t) = -1
         /\ t[1] \in {"expect", "accept", "parent", "begin", "more", "initial",
                      "assigned", "rest", "synchronize", "operators"} =>
              Effect(t) = 0
BY DEF Effect, Makes

\* The task goes on with others; no value is made or taken.
LEMMA KeptKeeps ==
  ASSUME ParserInv, NEW k, At(k), k # "program", NEW e,
         Effect(Head(todo)) = e, NEW tasks, Do(tasks), Kept,
         Look \/ Consume, NoError \/ ParserError,
         Path(tasks, Len(nodes), Len(nodes) + e)
  PROVE  ParserInv'
<1>1. nodes' = nodes /\ nodes \in Seq(Range(nodes))
  BY DEF Kept, ParserInv, Stacked
<1>2. nodes' \in Seq(Range(nodes')) /\ Len(nodes') = Len(nodes)
  BY <1>1
<1> QED
  BY <1>2, StepKeeps

\* The task is done; the values are what it leaves.
LEMMA DoneKeeps ==
  ASSUME ParserInv, NEW k, At(k), k # "program", Do(<<>>),
         Look \/ Consume, NoError \/ ParserError,
         nodes' \in Seq(Range(nodes')),
         Len(nodes') = Len(nodes) + Effect(Head(todo))
  PROVE  ParserInv'
<1>1. Len(nodes) + Effect(Head(todo)) \in Positive
  BY AtTask
<1>2. Path(<<>>, Len(nodes'), Len(nodes) + Effect(Head(todo)))
  BY <1>1, PathEmpty
<1> QED
  BY <1>2, StepKeeps

LEMMA PushValue ==
  ASSUME nodes \in Seq(Range(nodes)), NEW v
  PROVE  /\ Append(nodes, v) \in Seq(Range(Append(nodes, v)))
         /\ Len(Append(nodes, v)) = Len(nodes) + 1
<1> DEFINE S == Range(nodes) \cup {v}
<1>1. nodes \in Seq(S)
  <2>1. \A U, V : U \subseteq V => Seq(U) \subseteq Seq(V)
    OBVIOUS
  <2>2. Range(nodes) \subseteq S
    OBVIOUS
  <2> HIDE DEF S
  <2> QED
    BY <2>1, <2>2
<1>2. v \in S
  OBVIOUS
<1> HIDE DEF S
<1>3. /\ Append(nodes, v) \in Seq(S)
      /\ Len(Append(nodes, v)) = Len(nodes) + 1
  BY <1>1, <1>2
<1> QED
  BY <1>3, AnySequence

LEMMA SwapValues ==
  ASSUME nodes \in Seq(Range(nodes)), NEW n \in 0 .. Len(nodes), NEW v
  PROVE  /\ Append(Pop(n), v) \in Seq(Range(Append(Pop(n), v)))
         /\ Len(Append(Pop(n), v)) = Len(nodes) - n + 1
<1> DEFINE S == Range(nodes) \cup {v}
           s == Pop(n)
<1>1. nodes \in Seq(S)
  <2>1. \A U, V : U \subseteq V => Seq(U) \subseteq Seq(V)
    OBVIOUS
  <2>2. Range(nodes) \subseteq S
    OBVIOUS
  <2> HIDE DEF S
  <2> QED
    BY <2>1, <2>2
<1>2. v \in S
  OBVIOUS
<1> HIDE DEF S
<1>3. s \in Seq(S) /\ Len(s) = Len(nodes) - n
  BY <1>1 DEF Pop
<1> HIDE DEF s
<1>4. Append(s, v) \in Seq(S) /\ Len(Append(s, v)) = Len(nodes) - n + 1
  BY <1>2, <1>3
<1>5. Append(s, v) \in Seq(Range(Append(s, v)))
  BY <1>4, AnySequence
<1> QED
  BY <1>4, <1>5 DEF s

-----------------------------------------------------------------------------
(***************************************************************************)
(* One lemma for each task.                                                *)
(***************************************************************************)

LEMMA ExpectTokenStep ==
  ASSUME ParserInv, ExpectToken
  PROVE  ParserInv'
<1> DEFINE a == Len(nodes)
<1>1. At("expect") /\ "expect" # "program"
  BY DEF ExpectToken
<1>2. /\ a \in Positive /\ Effect(Head(todo)) = 0
      /\ a + 0 \in Positive
      /\ nodes \in Seq(Range(nodes))
  BY <1>1, AtTask, EffectOf DEF Makes, ParserInv, Stacked
<1>3. Path(<<>>, a, a + 0)
  <2> HIDE DEF a
  <2> QED
    BY <1>2, PathEmpty DEF Positive
<1> QED
  BY <1>1, <1>2, <1>3, KeptKeeps DEF ExpectToken, Call

LEMMA AcceptTokenStep ==
  ASSUME ParserInv, AcceptToken
  PROVE  ParserInv'
<1> DEFINE a == Len(nodes)
<1>1. At("accept") /\ "accept" # "program"
  BY DEF AcceptToken
<1>2. /\ a \in Positive /\ Effect(Head(todo)) = 0
      /\ a + 0 \in Positive
      /\ nodes \in Seq(Range(nodes))
  BY <1>1, AtTask, EffectOf DEF Makes, ParserInv, Stacked
<1>3. Path(<<>>, a, a + 0)
  <2> HIDE DEF a
  <2> QED
    BY <1>2, PathEmpty DEF Positive
<1> QED
  BY <1>1, <1>2, <1>3, KeptKeeps DEF AcceptToken, Call

LEMMA MakeLeafStep ==
  ASSUME ParserInv, MakeLeaf
  PROVE  ParserInv'
<1> DEFINE a == Len(nodes)
<1>1. At("leaf") /\ "leaf" # "program"
  BY DEF MakeLeaf
<1>2. /\ a \in Positive /\ Effect(Head(todo)) = 1
      /\ a + 1 \in Positive
      /\ nodes \in Seq(Range(nodes))
  BY <1>1, AtTask, EffectOf DEF Makes, ParserInv, Stacked
<1> QED
  BY <1>1, <1>2, PushValue, DoneKeeps DEF MakeLeaf, Push

LEMMA MakeNothingStep ==
  ASSUME ParserInv, MakeNothing
  PROVE  ParserInv'
<1> DEFINE a == Len(nodes)
<1>1. At("nothing") /\ "nothing" # "program"
  BY DEF MakeNothing
<1>2. /\ a \in Positive /\ Effect(Head(todo)) = 1
      /\ a + 1 \in Positive
      /\ nodes \in Seq(Range(nodes))
  BY <1>1, AtTask, EffectOf DEF Makes, ParserInv, Stacked
<1> QED
  BY <1>1, <1>2, PushValue, DoneKeeps DEF MakeNothing, Push

LEMMA MakeNodeStep ==
  ASSUME ParserInv, MakeNode
  PROVE  ParserInv'
<1> DEFINE n == Head(todo)[4]
<1>1. At("node") /\ "node" # "program"
  BY DEF MakeNode
<1>2. /\ Len(nodes) \in Positive /\ Head(todo)[1] = "node"
      /\ TaskOK(Head(todo))
      /\ Len(nodes) + Effect(Head(todo)) \in Positive
      /\ nodes \in Seq(Range(nodes))
  BY <1>1, AtTask DEF Fits, ParserInv, Stacked
<1>3. n \in Nat /\ Effect(Head(todo)) = 1 - n
  <2>1. \A t : t[1] = "node" => Effect(t) = 1 - t[4]
    BY DEF Effect, Makes
  <2> QED
    BY <1>2, <2>1 DEF TaskOK
<1>4. PICK v : nodes' = Append(Pop(n), v)
  BY DEF MakeNode
<1> HIDE DEF n
<1>5. n \in 0 .. Len(nodes)
  BY <1>2, <1>3 DEF Positive
<1>6. nodes' \in Seq(Range(nodes')) /\ Len(nodes') = Len(nodes) - n + 1
  BY <1>2, <1>4, <1>5, SwapValues
<1>7. Len(nodes') = Len(nodes) + Effect(Head(todo))
  BY <1>2, <1>3, <1>6 DEF Positive
<1> QED
  BY <1>1, <1>6, <1>7, DoneKeeps DEF MakeNode

LEMMA MakeParentStep ==
  ASSUME ParserInv, MakeParent
  PROVE  ParserInv'
<1> DEFINE a == Len(nodes)
<1>1. At("parent") /\ "parent" # "program"
  BY DEF MakeParent
<1>2. /\ a \in Positive /\ Effect(Head(todo)) = 0
      /\ a + 0 \in Positive
      /\ nodes \in Seq(Range(nodes))
  BY <1>1, AtTask, EffectOf DEF Makes, ParserInv, Stacked
<1>3. PICK v : nodes' = Append(Pop(1), v)
  BY DEF MakeParent
<1>4. 1 \in 0 .. a
  <2> HIDE DEF a
  <2> QED
    BY <1>2 DEF Positive
<1>5. nodes' \in Seq(Range(nodes')) /\ Len(nodes') = Len(nodes) - 1 + 1
  BY <1>2, <1>3, <1>4, SwapValues
<1>6. Len(nodes') = Len(nodes) + Effect(Head(todo))
  BY <1>2, <1>5 DEF Positive
<1> QED
  BY <1>1, <1>5, <1>6, DoneKeeps DEF MakeParent

LEMMA BeginStep ==
  ASSUME ParserInv, Begin
  PROVE  ParserInv'
<1> DEFINE a == Len(nodes)
<1>1. At("begin") /\ "begin" # "program"
  BY DEF Begin
<1>2. /\ a \in Positive /\ Effect(Head(todo)) = 0
      /\ a + 0 \in Positive
      /\ nodes \in Seq(Range(nodes))
  BY <1>1, AtTask, EffectOf DEF Makes, ParserInv, Stacked
<1>3. PICK v : nodes' = Append(Pop(1), v)
  BY DEF Begin
<1>4. 1 \in 0 .. a
  <2> HIDE DEF a
  <2> QED
    BY <1>2 DEF Positive
<1>5. nodes' \in Seq(Range(nodes')) /\ Len(nodes') = Len(nodes) - 1 + 1
  BY <1>2, <1>3, <1>4, SwapValues
<1>6. Len(nodes') = Len(nodes) + Effect(Head(todo))
  BY <1>2, <1>5 DEF Positive
<1> QED
  BY <1>1, <1>5, <1>6, DoneKeeps DEF Begin

LEMMA AddStep ==
  ASSUME ParserInv, Add
  PROVE  ParserInv'
<1> DEFINE a == Len(nodes)
<1>1. At("add") /\ "add" # "program"
  BY DEF Add
<1>2. /\ a \in Positive /\ Effect(Head(todo)) = -1
      /\ a + -1 \in Positive
      /\ nodes \in Seq(Range(nodes))
  BY <1>1, AtTask, EffectOf DEF Makes, ParserInv, Stacked
<1>3. PICK v : nodes' = Append(Pop(2), v)
  BY DEF Add
<1>4. 2 \in 0 .. a
  <2> HIDE DEF a
  <2> QED
    BY <1>2 DEF Positive
<1>5. nodes' \in Seq(Range(nodes')) /\ Len(nodes') = Len(nodes) - 2 + 1
  BY <1>2, <1>3, <1>4, SwapValues
<1>6. Len(nodes') = Len(nodes) + Effect(Head(todo))
  BY <1>2, <1>5 DEF Positive
<1> QED
  BY <1>1, <1>5, <1>6, DoneKeeps DEF Add

LEMMA DefinitionStep ==
  ASSUME ParserInv, ParseDefinition
  PROVE  ParserInv'
<1> DEFINE a == Len(nodes)
<1>1. At("definition") /\ "definition" # "program"
  BY DEF ParseDefinition
<1>2. /\ a \in Positive /\ Effect(Head(todo)) = 1
      /\ a + 1 \in Positive
      /\ nodes \in Seq(Range(nodes))
  BY <1>1, AtTask, EffectOf DEF Makes, ParserInv, Stacked
<1>3. Path(<<Expect("f"), Expect(":"), <<"header">>, <<"block",
            "FBODY">>, Node("FUNCTION", token, 2)>>, a, a + 1)
  <2>1. /\ Fits(Expect("f"), 0)
        /\ Fits(Expect(":"), 0)
        /\ Fits(<<"header">>, 1)
        /\ Fits(<<"block", "FBODY">>, 1)
        /\ Fits(Node("FUNCTION", token, 2), -1)
    BY TaskFits, NodeFits, PlainFits DEF Makes
  <2>2. a \in Positive /\ a + 1 \in Positive
    BY <1>2
  <2> HIDE DEF a
  <2> QED
    BY <2>1, <2>2, PathOf5 DEF Fits, Positive
<1> QED
  BY <1>1, <1>2, <1>3, KeptKeeps DEF ParseDefinition, Call

LEMMA ParametersStep ==
  ASSUME ParserInv, ParseParameters
  PROVE  ParserInv'
<1> DEFINE a == Len(nodes)
<1>1. At("parameters") /\ "parameters" # "program"
  BY DEF ParseParameters
<1>2. /\ a \in Positive /\ Effect(Head(todo)) = 1
      /\ a + 1 \in Positive
      /\ nodes \in Seq(Range(nodes))
  BY <1>1, AtTask, EffectOf DEF Makes, ParserInv, Stacked
<1>3. Path(<<Node("PARAMETERS", Null, 0)>>, a, a + 1)
  <2>1. /\ Fits(Node("PARAMETERS", Null, 0), 1)
    BY TaskFits, NodeFits, PlainFits DEF Makes
  <2>2. a \in Positive /\ a + 1 \in Positive
    BY <1>2
  <2> HIDE DEF a
  <2> QED
    BY <2>1, <2>2, PathOf1 DEF Fits, Positive
<1>4. Path(<< <<"parameter">>, <<"begin">>, <<"more", "parameter">>,
            Parent("PARAMETERS")>>, a, a + 1)
  <2>1. /\ Fits(<<"parameter">>, 1)
        /\ Fits(<<"begin">>, 0)
        /\ Fits(<<"more", "parameter">>, 0)
        /\ Fits(Parent("PARAMETERS"), 0)
    BY TaskFits, NodeFits, PlainFits DEF Makes
  <2>2. a \in Positive /\ a + 1 \in Positive
    BY <1>2
  <2> HIDE DEF a
  <2> QED
    BY <2>1, <2>2, PathOf4 DEF Fits, Positive
<1> QED
  BY <1>1, <1>2, <1>3, <1>4, KeptKeeps DEF ParseParameters, Call

LEMMA ParameterStep ==
  ASSUME ParserInv, ParseParameter
  PROVE  ParserInv'
<1> DEFINE a == Len(nodes)
<1>1. At("parameter") /\ "parameter" # "program"
  BY DEF ParseParameter
<1>2. /\ a \in Positive /\ Effect(Head(todo)) = 1
      /\ a + 1 \in Positive
      /\ nodes \in Seq(Range(nodes))
  BY <1>1, AtTask, EffectOf DEF Makes, ParserInv, Stacked
<1>3. Path(<< <<"declaration">> >>, a, a + 1)
  <2>1. /\ Fits(<<"declaration">>, 1)
    BY TaskFits, NodeFits, PlainFits DEF Makes
  <2>2. a \in Positive /\ a + 1 \in Positive
    BY <1>2
  <2> HIDE DEF a
  <2> QED
    BY <2>1, <2>2, PathOf1 DEF Fits, Positive
<1>4. Path(<< <<"nothing">> >>, a, a + 1)
  <2>1. /\ Fits(<<"nothing">>, 1)
    BY TaskFits, NodeFits, PlainFits DEF Makes
  <2>2. a \in Positive /\ a + 1 \in Positive
    BY <1>2
  <2> HIDE DEF a
  <2> QED
    BY <2>1, <2>2, PathOf1 DEF Fits, Positive
<1> QED
  BY <1>1, <1>2, <1>3, <1>4, KeptKeeps DEF ParseParameter, Call

LEMMA DeclarationStep ==
  ASSUME ParserInv, ParseDeclaration
  PROVE  ParserInv'
<1> DEFINE a == Len(nodes)
<1>1. At("declaration") /\ "declaration" # "program"
  BY DEF ParseDeclaration
<1>2. /\ a \in Positive /\ Effect(Head(todo)) = 1
      /\ a + 1 \in Positive
      /\ nodes \in Seq(Range(nodes))
  BY <1>1, AtTask, EffectOf DEF Makes, ParserInv, Stacked
<1>3. Path(<<LeafOf("TYPE"), <<"accept", Types>>, Expect(":"),
            LeafOf("ID"), Expect("id"), <<"initial">>,
            Node("VARIABLE", Null, 2)>>, a, a + 1)
  <2>1. /\ Fits(LeafOf("TYPE"), 1)
        /\ Fits(<<"accept", Types>>, 0)
        /\ Fits(Expect(":"), 0)
        /\ Fits(LeafOf("ID"), 1)
        /\ Fits(Expect("id"), 0)
        /\ Fits(<<"initial">>, 0)
        /\ Fits(Node("VARIABLE", Null, 2), -1)
    BY TaskFits, NodeFits, PlainFits DEF Makes
  <2>2. a \in Positive /\ a + 1 \in Positive
    BY <1>2
  <2> HIDE DEF a
  <2> QED
    BY <2>1, <2>2, PathOf7 DEF Fits, Positive
<1> QED
  BY <1>1, <1>2, <1>3, KeptKeeps DEF ParseDeclaration, Call

LEMMA InitialStep ==
  ASSUME ParserInv, ParseInitial
  PROVE  ParserInv'
<1> DEFINE a == Len(nodes)
<1>1. At("initial") /\ "initial" # "program"
  BY DEF ParseInitial
<1>2. /\ a \in Positive /\ Effect(Head(todo)) = 0
      /\ a + 0 \in Positive
      /\ nodes \in Seq(Range(nodes))
  BY <1>1, AtTask, EffectOf DEF Makes, ParserInv, Stacked
<1>3. Path(<< <<"assigned">> >>, a, a + 0)
  <2>1. /\ Fits(<<"assigned">>, 0)
    BY TaskFits, NodeFits, PlainFits DEF Makes
  <2>2. a \in Positive /\ a + 0 \in Positive
    BY <1>2
  <2> HIDE DEF a
  <2> QED
    BY <2>1, <2>2, PathOf1 DEF Fits, Positive
<1>4. Path(<<>>, a, a + 0)
  <2> HIDE DEF a
  <2> QED
    BY <1>2, PathEmpty DEF Positive
<1> QED
  BY <1>1, <1>2, <1>3, <1>4, KeptKeeps DEF ParseInitial, Call

LEMMA BlockStep ==
  ASSUME ParserInv, ParseBlock
  PROVE  ParserInv'
<1> DEFINE a == Len(nodes)
<1>1. At("block") /\ "block" # "program"
  BY DEF ParseBlock
<1>2. a \in Positive /\ Effect(Head(todo)) = 1 /\ a + 1 \in Positive
  BY <1>1, AtTask, EffectOf DEF Makes
<1>3. PICK open, close, parent : /\ open = Expect("{") /\ close = Expect("}")
                                 /\ parent = Parent(Head(todo)[2])
  OBVIOUS
<1>4. Path(<<open, <<"statements">>, close, parent>>, a, a + 1)
  <2>1. /\ Fits(open, 0) /\ Fits(<<"statements">>, 1) /\ Fits(close, 0)
        /\ Fits(parent, 0)
    BY <1>3, TaskFits, PlainFits DEF Makes
  <2> HIDE DEF a
  <2> QED
    BY <1>2, <2>1, PathOf4 DEF Fits, Positive
<1>5. Call(<<open, <<"statements">>, close, parent>>)
  BY <1>3 DEF ParseBlock
<1> QED
  BY <1>1, <1>2, <1>4, <1>5, KeptKeeps DEF Call

LEMMA RestStep ==
  ASSUME ParserInv, ParseRest
  PROVE  ParserInv'
<1> DEFINE a == Len(nodes)
<1>1. At("rest") /\ "rest" # "program"
  BY DEF ParseRest
<1>2. /\ a \in Positive /\ Effect(Head(todo)) = 0
      /\ a + 0 \in Positive
      /\ nodes \in Seq(Range(nodes))
  BY <1>1, AtTask, EffectOf DEF Makes, ParserInv, Stacked
<1>3. Path(<<>>, a, a + 0)
  <2> HIDE DEF a
  <2> QED
    BY <1>2, PathEmpty DEF Positive
<1>4. Path(<< <<"statement">>, <<"add">>, <<"rest">> >>, a, a + 0)
  <2>1. /\ Fits(<<"statement">>, 1)
        /\ Fits(<<"add">>, -1)
        /\ Fits(<<"rest">>, 0)
    BY TaskFits, NodeFits, PlainFits DEF Makes
  <2>2. a \in Positive /\ a + 0 \in Positive
    BY <1>2
  <2> HIDE DEF a
  <2> QED
    BY <2>1, <2>2, PathOf3 DEF Fits, Positive
<1> QED
  BY <1>1, <1>2, <1>3, <1>4, KeptKeeps DEF ParseRest, Call

LEMMA AssignmentStep ==
  ASSUME ParserInv, ParseAssignment
  PROVE  ParserInv'
<1> DEFINE a == Len(nodes)
<1>1. At("assignment") /\ "assignment" # "program"
  BY DEF ParseAssignment
<1>2. /\ a \in Positive /\ Effect(Head(todo)) = 1
      /\ a + 1 \in Positive
      /\ nodes \in Seq(Range(nodes))
  BY <1>1, AtTask, EffectOf DEF Makes, ParserInv, Stacked
<1>3. Path(<<LeafOf("ID"), Expect("id"), <<"assigned">> >>, a, a + 1)
  <2>1. /\ Fits(LeafOf("ID"), 1)
        /\ Fits(Expect("id"), 0)
        /\ Fits(<<"assigned">>, 0)
    BY TaskFits, NodeFits, PlainFits DEF Makes
  <2>2. a \in Positive /\ a + 1 \in Positive
    BY <1>2
  <2> HIDE DEF a
  <2> QED
    BY <2>1, <2>2, PathOf3 DEF Fits, Positive
<1> QED
  BY <1>1, <1>2, <1>3, KeptKeeps DEF ParseAssignment, Call

LEMMA AssignedStep ==
  ASSUME ParserInv, ParseAssigned
  PROVE  ParserInv'
<1> DEFINE a == Len(nodes)
<1>1. At("assigned") /\ "assigned" # "program"
  BY DEF ParseAssigned
<1>2. /\ a \in Positive /\ Effect(Head(todo)) = 0
      /\ a + 0 \in Positive
      /\ nodes \in Seq(Range(nodes))
  BY <1>1, AtTask, EffectOf DEF Makes, ParserInv, Stacked
<1>3. Path(<<Expect("="), <<"expression">>, Node("ASSIGNMENT", token,
            2)>>, a, a + 0)
  <2>1. /\ Fits(Expect("="), 0)
        /\ Fits(<<"expression">>, 1)
        /\ Fits(Node("ASSIGNMENT", token, 2), -1)
    BY TaskFits, NodeFits, PlainFits DEF Makes
  <2>2. a \in Positive /\ a + 0 \in Positive
    BY <1>2
  <2> HIDE DEF a
  <2> QED
    BY <2>1, <2>2, PathOf3 DEF Fits, Positive
<1> QED
  BY <1>1, <1>2, <1>3, KeptKeeps DEF ParseAssigned, Call

LEMMA ReturnStep ==
  ASSUME ParserInv, ParseReturn
  PROVE  ParserInv'
<1> DEFINE a == Len(nodes)
<1>1. At("return") /\ "return" # "program"
  BY DEF ParseReturn
<1>2. /\ a \in Positive /\ Effect(Head(todo)) = 1
      /\ a + 1 \in Positive
      /\ nodes \in Seq(Range(nodes))
  BY <1>1, AtTask, EffectOf DEF Makes, ParserInv, Stacked
<1>3. Path(<<Expect("return"), <<"returned", token>> >>, a, a + 1)
  <2>1. /\ Fits(Expect("return"), 0)
        /\ Fits(<<"returned", token>>, 1)
    BY TaskFits, NodeFits, PlainFits DEF Makes
  <2>2. a \in Positive /\ a + 1 \in Positive
    BY <1>2
  <2> HIDE DEF a
  <2> QED
    BY <2>1, <2>2, PathOf2 DEF Fits, Positive
<1> QED
  BY <1>1, <1>2, <1>3, KeptKeeps DEF ParseReturn, Call

LEMMA ReturnedStep ==
  ASSUME ParserInv, ParseReturned
  PROVE  ParserInv'
<1> DEFINE a == Len(nodes)
<1>1. At("returned") /\ "returned" # "program"
  BY DEF ParseReturned
<1>2. /\ a \in Positive /\ Effect(Head(todo)) = 1
      /\ a + 1 \in Positive
      /\ nodes \in Seq(Range(nodes))
  BY <1>1, AtTask, EffectOf DEF Makes, ParserInv, Stacked
<1>3. Path(<<Node("RET", Head(todo)[2], 0)>>, a, a + 1)
  <2>1. /\ Fits(Node("RET", Head(todo)[2], 0), 1)
    BY TaskFits, NodeFits, PlainFits DEF Makes
  <2>2. a \in Positive /\ a + 1 \in Positive
    BY <1>2
  <2> HIDE DEF a
  <2> QED
    BY <2>1, <2>2, PathOf1 DEF Fits, Positive
<1>4. Path(<< <<"expression">>, Node("RET", Head(todo)[2], 1)>>, a, a + 1)
  <2>1. /\ Fits(<<"expression">>, 1)
        /\ Fits(Node("RET", Head(todo)[2], 1), 0)
    BY TaskFits, NodeFits, PlainFits DEF Makes
  <2>2. a \in Positive /\ a + 1 \in Positive
    BY <1>2
  <2> HIDE DEF a
  <2> QED
    BY <2>1, <2>2, PathOf2 DEF Fits, Positive
<1> QED
  BY <1>1, <1>2, <1>3, <1>4, KeptKeeps DEF ParseReturned, Call

LEMMA IfStep ==
  ASSUME ParserInv, ParseIf
  PROVE  ParserInv'
<1> DEFINE a == Len(nodes)
<1>1. At("if") /\ "if" # "program"
  BY DEF ParseIf
<1>2. /\ a \in Positive /\ Effect(Head(todo)) = 1
      /\ a + 1 \in Positive
      /\ nodes \in Seq(Range(nodes))
  BY <1>1, AtTask, EffectOf DEF Makes, ParserInv, Stacked
<1>3. Path(<<Expect("if"), Expect("("), <<"expression">>,
            Expect(")"), <<"block", "BLOCK">>, <<"else", token>> >>, a, a + 1)
  <2>1. /\ Fits(Expect("if"), 0)
        /\ Fits(Expect("("), 0)
        /\ Fits(<<"expression">>, 1)
        /\ Fits(Expect(")"), 0)
        /\ Fits(<<"block", "BLOCK">>, 1)
        /\ Fits(<<"else", token>>, -1)
    BY TaskFits, NodeFits, PlainFits DEF Makes
  <2>2. a \in Positive /\ a + 1 \in Positive
    BY <1>2
  <2> HIDE DEF a
  <2> QED
    BY <2>1, <2>2, PathOf6 DEF Fits, Positive
<1> QED
  BY <1>1, <1>2, <1>3, KeptKeeps DEF ParseIf, Call

LEMMA ElseStep ==
  ASSUME ParserInv, ParseElse
  PROVE  ParserInv'
<1> DEFINE a == Len(nodes)
<1>1. At("else") /\ "else" # "program"
  BY DEF ParseElse
<1>2. /\ a \in Positive /\ Effect(Head(todo)) = -1
      /\ a + -1 \in Positive
      /\ nodes \in Seq(Range(nodes))
  BY <1>1, AtTask, EffectOf DEF Makes, ParserInv, Stacked
<1>3. Path(<< <<"branch">>, Node("IF", Head(todo)[2], 3)>>, a, a + -1)
  <2>1. /\ Fits(<<"branch">>, 1)
        /\ Fits(Node("IF", Head(todo)[2], 3), -2)
    BY TaskFits, NodeFits, PlainFits DEF Makes
  <2>2. a \in Positive /\ a + -1 \in Positive
    BY <1>2
  <2> HIDE DEF a
  <2> QED
    BY <2>1, <2>2, PathOf2 DEF Fits, Positive
<1>4. Path(<<Node("IF", Head(todo)[2], 2)>>, a, a + -1)
  <2>1. /\ Fits(Node("IF", Head(todo)[2], 2), -1)
    BY TaskFits, NodeFits, PlainFits DEF Makes
  <2>2. a \in Positive /\ a + -1 \in Positive
    BY <1>2
  <2> HIDE DEF a
  <2> QED
    BY <2>1, <2>2, PathOf1 DEF Fits, Positive
<1> QED
  BY <1>1, <1>2, <1>3, <1>4, KeptKeeps DEF ParseElse, Call

LEMMA BranchStep ==
  ASSUME ParserInv, ParseBranch
  PROVE  ParserInv'
<1> DEFINE a == Len(nodes)
<1>1. At("branch") /\ "branch" # "program"
  BY DEF ParseBranch
<1>2. /\ a \in Positive /\ Effect(Head(todo)) = 1
      /\ a + 1 \in Positive
      /\ nodes \in Seq(Range(nodes))
  BY <1>1, AtTask, EffectOf DEF Makes, ParserInv, Stacked
<1>3. Path(<< <<"if">> >>, a, a + 1)
  <2>1. /\ Fits(<<"if">>, 1)
    BY TaskFits, NodeFits, PlainFits DEF Makes
  <2>2. a \in Positive /\ a + 1 \in Positive
    BY <1>2
  <2> HIDE DEF a
  <2> QED
    BY <2>1, <2>2, PathOf1 DEF Fits, Positive
<1>4. Path(<< <<"block", "BLOCK">> >>, a, a + 1)
  <2>1. /\ Fits(<<"block", "BLOCK">>, 1)
    BY TaskFits, NodeFits, PlainFits DEF Makes
  <2>2. a \in Positive /\ a + 1 \in Positive
    BY <1>2
  <2> HIDE DEF a
  <2> QED
    BY <2>1, <2>2, PathOf1 DEF Fits, Positive
<1> QED
  BY <1>1, <1>2, <1>3, <1>4, KeptKeeps DEF ParseBranch, Call

LEMMA WhileStep ==
  ASSUME ParserInv, ParseWhile
  PROVE  ParserInv'
<1> DEFINE a == Len(nodes)
<1>1. At("while") /\ "while" # "program"
  BY DEF ParseWhile
<1>2. /\ a \in Positive /\ Effect(Head(todo)) = 1
      /\ a + 1 \in Positive
      /\ nodes \in Seq(Range(nodes))
  BY <1>1, AtTask, EffectOf DEF Makes, ParserInv, Stacked
<1>3. Path(<<Expect("while"), Expect("("), <<"expression">>,
            Expect(")"), <<"block", "BLOCK">>, Node("WHILE", token,
            2)>>, a, a + 1)
  <2>1. /\ Fits(Expect("while"), 0)
        /\ Fits(Expect("("), 0)
        /\ Fits(<<"expression">>, 1)
        /\ Fits(Expect(")"), 0)
        /\ Fits(<<"block", "BLOCK">>, 1)
        /\ Fits(Node("WHILE", token, 2), -1)
    BY TaskFits, NodeFits, PlainFits DEF Makes
  <2>2. a \in Positive /\ a + 1 \in Positive
    BY <1>2
  <2> HIDE DEF a
  <2> QED
    BY <2>1, <2>2, PathOf6 DEF Fits, Positive
<1> QED
  BY <1>1, <1>2, <1>3, KeptKeeps DEF ParseWhile, Call

LEMMA CallStep ==
  ASSUME ParserInv, ParseCall
  PROVE  ParserInv'
<1> DEFINE a == Len(nodes)
<1>1. At("call") /\ "call" # "program"
  BY DEF ParseCall
<1>2. /\ a \in Positive /\ Effect(Head(todo)) = 1
      /\ a + 1 \in Positive
      /\ nodes \in Seq(Range(nodes))
  BY <1>1, AtTask, EffectOf DEF Makes, ParserInv, Stacked
<1>3. Path(<<LeafOf("ID"), Expect("id"), Expect("("),
            <<"arguments">>, Node("FCALL", Null, 2), Expect(")")>>, a, a + 1)
  <2>1. /\ Fits(LeafOf("ID"), 1)
        /\ Fits(Expect("id"), 0)
        /\ Fits(Expect("("), 0)
        /\ Fits(<<"arguments">>, 1)
        /\ Fits(Node("FCALL", Null, 2), -1)
        /\ Fits(Expect(")"), 0)
    BY TaskFits, NodeFits, PlainFits DEF Makes
  <2>2. a \in Positive /\ a + 1 \in Positive
    BY <1>2
  <2> HIDE DEF a
  <2> QED
    BY <2>1, <2>2, PathOf6 DEF Fits, Positive
<1> QED
  BY <1>1, <1>2, <1>3, KeptKeeps DEF ParseCall, Call

LEMMA ArgumentsStep ==
  ASSUME ParserInv, ParseArguments
  PROVE  ParserInv'
<1> DEFINE a == Len(nodes)
<1>1. At("arguments") /\ "arguments" # "program"
  BY DEF ParseArguments
<1>2. /\ a \in Positive /\ Effect(Head(todo)) = 1
      /\ a + 1 \in Positive
      /\ nodes \in Seq(Range(nodes))
  BY <1>1, AtTask, EffectOf DEF Makes, ParserInv, Stacked
<1>3. Path(<<Node("FARGUMENTS", Null, 0)>>, a, a + 1)
  <2>1. /\ Fits(Node("FARGUMENTS", Null, 0), 1)
    BY TaskFits, NodeFits, PlainFits DEF Makes
  <2>2. a \in Positive /\ a + 1 \in Positive
    BY <1>2
  <2> HIDE DEF a
  <2> QED
    BY <2>1, <2>2, PathOf1 DEF Fits, Positive
<1>4. Path(<< <<"expression">>, <<"begin">>, <<"more", "expression">>,
            Parent("FARGUMENTS")>>, a, a + 1)
  <2>1. /\ Fits(<<"expression">>, 1)
        /\ Fits(<<"begin">>, 0)
        /\ Fits(<<"more", "expression">>, 0)
        /\ Fits(Parent("FARGUMENTS"), 0)
    BY TaskFits, NodeFits, PlainFits DEF Makes
  <2>2. a \in Positive /\ a + 1 \in Positive
    BY <1>2
  <2> HIDE DEF a
  <2> QED
    BY <2>1, <2>2, PathOf4 DEF Fits, Positive
<1> QED
  BY <1>1, <1>2, <1>3, <1>4, KeptKeeps DEF ParseArguments, Call

LEMMA LinkStep ==
  ASSUME ParserInv, Link
  PROVE  ParserInv'
<1>1. At("link") /\ "link" # "program" /\ Look
  BY DEF Link
<1>2. /\ Len(nodes) \in Positive /\ Effect(Head(todo)) = -1
      /\ Len(nodes) + -1 \in Positive /\ wanted = 0
      /\ nodes \in Seq(Range(nodes))
  BY <1>1, AtTask, EffectOf DEF ParserInv, Stacked
<1>3. CASE /\ Do(<<>>)
           /\ nodes' = Append(Pop(2), Chain(Append(Built, Last(nodes))))
           /\ NoError
  <2>1. PICK v : nodes' = Append(Pop(2), v)
    BY <1>3
  <2>2. 2 \in 0 .. Len(nodes)
    <3> DEFINE a == Len(nodes)
    <3>1. a \in Positive /\ a + -1 \in Positive
      BY <1>2
    <3> HIDE DEF a
    <3>2. 2 \in 0 .. a
      BY <3>1 DEF Positive
    <3> QED
      BY <3>2 DEF a
  <2>3. nodes' \in Seq(Range(nodes')) /\ Len(nodes') = Len(nodes) - 2 + 1
    BY <1>2, <2>1, <2>2, SwapValues
  <2>4. Len(nodes') = Len(nodes) + Effect(Head(todo))
    BY <1>2, <2>3 DEF Positive
  <2> QED
    BY <1>1, <1>3, <2>3, <2>4, DoneKeeps
<1>4. CASE /\ todo' = <<>>
           /\ crashed' = TRUE
           /\ UNCHANGED <<nodes, parseErrors>>
  <2>1. Scanned' /\ text' = text /\ wanted' = 0
    BY <1>1, <1>2, LookKeeps DEF ParserInv
  <2>2. todo' \in Seq(Range(todo'))
    <3>1. <<>> \in Seq({})
      OBVIOUS
    <3> QED
      BY <1>4, <3>1, AnySequence
  <2> QED
    BY <1>2, <1>4, <2>1, <2>2 DEF ParserInv, Stacked
<1> QED
  BY <1>3, <1>4 DEF Link

LEMMA HeaderStep ==
  ASSUME ParserInv, ParseHeader
  PROVE  ParserInv'
<1> DEFINE a == Len(nodes)
           name == IF Sees({"main"}) THEN <<LeafOf("MAIN"), Expect("main")>>
                                     ELSE <<LeafOf("ID"), Expect("id")>>
           rest == <<Expect("("), <<"parameters">>, Expect(")"), Expect("->"),
                     LeafOf("TYPE"), <<"accept", Types>>,
                     Node("FHEADER", Null, 3)>>
<1>1. At("header") /\ "header" # "program" /\ Call(name \o rest)
  BY DEF ParseHeader
<1>2. a \in Positive /\ Effect(Head(todo)) = 1
  BY <1>1, AtTask, EffectOf DEF Makes
<1>3. a + 1 \in Positive
  <2> HIDE DEF a
  <2> QED
    BY <1>2 DEF Positive
<1>4. Path(name, a, a + 1)
  <2>1. /\ Fits(LeafOf("MAIN"), 1) /\ Fits(Expect("main"), 0)
        /\ Fits(LeafOf("ID"), 1) /\ Fits(Expect("id"), 0)
    BY TaskFits
  <2> HIDE DEF a
  <2>2. /\ Path(<<LeafOf("MAIN"), Expect("main")>>, a, a + 1)
        /\ Path(<<LeafOf("ID"), Expect("id")>>, a, a + 1)
    BY <1>2, <1>3, <2>1, PathOf2 DEF Fits, Positive
  <2> QED
    BY <2>2
<1>5. Path(rest, a + 1, a + 1)
  <2>1. /\ Fits(Expect("("), 0) /\ Fits(<<"parameters">>, 1)
        /\ Fits(Expect(")"), 0) /\ Fits(Expect("->"), 0)
        /\ Fits(LeafOf("TYPE"), 1) /\ Fits(<<"accept", Types>>, 0)
        /\ Fits(Node("FHEADER", Null, 3), -2)
    BY TaskFits, NodeFits, PlainFits DEF Makes
  <2>2. PICK b \in Positive : b = a + 1
    BY <1>3
  <2>3. Path(rest, b, b)
    BY <2>1, PathOf7 DEF Fits, Positive
  <2> QED
    BY <2>2, <2>3
<1> HIDE DEF name, rest
<1>6. Path(name \o rest, a, a + 1)
  BY <1>4, <1>5, PathJoin
<1> QED
  BY <1>1, <1>2, <1>6, KeptKeeps DEF Call

LEMMA MoreStep ==
  ASSUME ParserInv, ParseMore
  PROVE  ParserInv'
<1> DEFINE a == Len(nodes)
<1>1. At("more") /\ "more" # "program"
  BY DEF ParseMore
<1>2. /\ a \in Positive /\ Effect(Head(todo)) = 0 /\ a + 0 \in Positive
      /\ TaskOK(Head(todo)) /\ Head(todo)[1] = "more"
  BY <1>1, AtTask, EffectOf DEF Fits
<1>3. PICK task, again : task = Head(todo)[2] /\ again = Head(todo)
  OBVIOUS
<1>4. Fits(<<task>>, 1) /\ Fits(<<"link">>, -1) /\ Fits(again, 0)
  <2>1. task \in {"parameter", "expression"}
    BY <1>2, <1>3 DEF TaskOK
  <2> QED
    BY <1>2, <1>3, <2>1, PlainFits DEF Fits, Makes
<1>5. Path(<< <<task>>, <<"link">>, again >>, a, a + 0)
  <2> HIDE DEF a
  <2> QED
    BY <1>2, <1>4, PathOf3 DEF Fits, Positive
<1>6. Path(<<>>, a, a + 0)
  <2> HIDE DEF a
  <2> QED
    BY <1>2, PathEmpty DEF Positive
<1>7. \/ Do(<< <<task>>, <<"link">>, again >>) /\ Kept /\ Consume /\ NoError
      \/ Call(<<>>)
  BY <1>3 DEF ParseMore
<1> QED
  BY <1>1, <1>2, <1>5, <1>6, <1>7, KeptKeeps DEF Call

LEMMA StatementsStep ==
  ASSUME ParserInv, ParseStatements
  PROVE  ParserInv'
<1> DEFINE a == Len(nodes)
<1>1. At("statements") /\ "statements" # "program"
  BY DEF ParseStatements
<1>2. /\ a \in Positive /\ Effect(Head(todo)) = 1 /\ a + 1 \in Positive
      /\ nodes \in Seq(Range(nodes))
  BY <1>1, AtTask, EffectOf DEF Makes, ParserInv, Stacked
<1>3. nodes' \in Seq(Range(nodes')) /\ Len(nodes') = a + 1
  BY <1>2, PushValue DEF ParseStatements, Push
<1>4. Path(<< <<"rest">> >>, a + 1, a + 1)
  <2>1. Fits(<<"rest">>, 0)
    BY PlainFits
  <2> HIDE DEF a
  <2> QED
    BY <1>2, <2>1, PathOf1 DEF Fits, Positive
<1> QED
  BY <1>1, <1>2, <1>3, <1>4, StepKeeps DEF ParseStatements

\* The task is to be done again.
LEMMA StayKeeps ==
  ASSUME ParserInv, NEW k, At(k), Stay, Kept, Look \/ Consume,
         NoError \/ ParserError
  PROVE  ParserInv'
<1>1. wanted = 0 /\ todo # <<>> /\ ~crashed
  BY AtTask
<1>2. Scanned' /\ text' = text
  BY <1>1, LookKeeps, ConsumeKeeps DEF ParserInv
<1>3. todo' = todo /\ nodes' = nodes /\ crashed' = crashed
  BY DEF Stay, Kept, NoError, ParserError
<1>4. parseErrors' \subseteq 1 .. Len(text') + 1
  <2>1. token.from \in 1 .. Len(text) + 1
    BY <1>1 DEF ParserInv, Scanned, Window, Received
  <2> QED
    BY <1>2, <2>1 DEF NoError, ParserError, ParserInv, Stacked
<1> QED
  BY <1>1, <1>2, <1>3, <1>4 DEF ParserInv, Stacked

LEMMA StatementStep ==
  ASSUME ParserInv, ParseStatement
  PROVE  ParserInv'
<1> DEFINE a == Len(nodes)
<1>1. At("statement") /\ "statement" # "program"
  BY DEF ParseStatement
<1>2. a \in Positive /\ Effect(Head(todo)) = 1 /\ a + 1 \in Positive
  BY <1>1, AtTask, EffectOf DEF Makes
<1>3. PICK block : block = <<"block", "BLOCK">>
  OBVIOUS
<1>4. PICK semicolon : semicolon = Expect(";")
  OBVIOUS
<1>5. /\ Fits(block, 1) /\ Fits(semicolon, 0)
      /\ Fits(<<"accept", {";"}>>, 0)
      /\ \A k \in {"declaration", "call", "assignment", "return", "if",
                   "while", "nothing"} : Fits(<<k>>, 1)
      /\ Fits(<<"synchronize">>, 0)
  BY <1>3, <1>4, TaskFits, PlainFits DEF Makes
<1>6. \A k \in {"declaration", "call", "assignment", "return"} :
         Path(<< <<k>>, semicolon >>, a, a + 1)
  <2> HIDE DEF a
  <2> SUFFICES ASSUME NEW k \in {"declaration", "call", "assignment", "return"}
               PROVE  Path(<< <<k>>, semicolon >>, a, a + 1)
    OBVIOUS
  <2>1. Fits(<<k>>, 1) /\ Fits(semicolon, 0)
    BY <1>5
  <2>2. a \in Positive /\ a + 1 \in Positive
    BY <1>2
  <2>3. PICK task : task = <<k>>
    OBVIOUS
  <2>4. Path(<<task, semicolon>>, a, a + 1)
    BY <2>1, <2>2, <2>3, PathOf2 DEF Fits, Positive
  <2> QED
    BY <2>3, <2>4
<1>7. \A k \in {"if", "while"} : Path(<< <<k>> >>, a, a + 1)
  <2> HIDE DEF a
  <2> SUFFICES ASSUME NEW k \in {"if", "while"}
               PROVE  Path(<< <<k>> >>, a, a + 1)
    OBVIOUS
  <2>1. Fits(<<k>>, 1)
    BY <1>5
  <2>2. a \in Positive /\ a + 1 \in Positive
    BY <1>2
  <2> QED
    BY <2>1, <2>2, PathOf1 DEF Fits, Positive
<1>8. Path(<<block, <<"accept", {";"}>> >>, a, a + 1)
  <2> HIDE DEF a
  <2>1. PICK accept : accept = <<"accept", {";"}>>
    OBVIOUS
  <2>2. Fits(block, 1) /\ Fits(accept, 0)
    BY <1>5, <2>1
  <2>3. a \in Positive /\ a + 1 \in Positive
    BY <1>2
  <2>4. Path(<<block, accept>>, a, a + 1)
    BY <2>2, <2>3, PathOf2 DEF Fits, Positive
  <2> QED
    BY <2>1, <2>4
<1>9. Path(<< <<"synchronize">>, <<"nothing">> >>, a, a + 1)
  <2> HIDE DEF a
  <2>1. Fits(<<"synchronize">>, 0) /\ Fits(<<"nothing">>, 1)
    BY <1>5
  <2>2. a \in Positive /\ a + 1 \in Positive
    BY <1>2
  <2> QED
    BY <2>1, <2>2, PathOf2 DEF Fits, Positive
<1>10. CASE Stay /\ Kept /\ Consume /\ NoError
  BY <1>1, <1>10, StayKeeps
<1>11. CASE \E k \in {"declaration", "call", "assignment", "return"} :
               Call(<< <<k>>, semicolon >>)
  BY <1>1, <1>2, <1>6, <1>11, KeptKeeps DEF Call
<1>12. CASE \E k \in {"if", "while"} : Call(<< <<k>> >>)
  BY <1>1, <1>2, <1>7, <1>12, KeptKeeps DEF Call
<1>13. CASE Call(<<block, <<"accept", {";"}>> >>)
  BY <1>1, <1>2, <1>8, <1>13, KeptKeeps DEF Call
<1>14. CASE /\ Do(<< <<"synchronize">>, <<"nothing">> >>)
            /\ Kept /\ Look /\ ParserError
  BY <1>1, <1>2, <1>9, <1>14, KeptKeeps
<1> QED
  BY <1>3, <1>4, <1>10, <1>11, <1>12, <1>13, <1>14 DEF ParseStatement

LEMMA SynchronizeStep ==
  ASSUME ParserInv, Synchronize
  PROVE  ParserInv'
<1> DEFINE a == Len(nodes)
<1>1. At("synchronize") /\ "synchronize" # "program" /\ Kept /\ NoError
  BY DEF Synchronize
<1>2. /\ a \in Positive /\ Effect(Head(todo)) = 0 /\ a + 0 \in Positive
  BY <1>1, AtTask, EffectOf
<1>3. Path(<<>>, a, a + 0)
  <2> HIDE DEF a
  <2> QED
    BY <1>2, PathEmpty DEF Positive
<1>4. \/ Do(<<>>) /\ (Look \/ Consume)
      \/ Stay /\ Consume
  BY DEF Synchronize
<1> QED
  BY <1>1, <1>2, <1>3, <1>4, KeptKeeps, StayKeeps

LEMMA ExpressionStep ==
  ASSUME ParserInv, ParseExpression
  PROVE  ParserInv'
<1>1. At("expression") /\ "expression" # "program" /\ Call(From(1))
  BY DEF ParseExpression
<1>2. Len(nodes) \in Positive /\ Effect(Head(todo)) = 1
  BY <1>1, AtTask, EffectOf DEF Makes
<1>3. Path(From(1), Len(nodes), Len(nodes) + 1)
  BY <1>2, FromPath
<1> QED
  BY <1>1, <1>2, <1>3, KeptKeeps DEF Call

LEMMA OperatorsStep ==
  ASSUME ParserInv, ParseOperators
  PROVE  ParserInv'
<1> DEFINE a == Len(nodes)
<1>1. At("operators") /\ "operators" # "program"
  BY DEF ParseOperators
<1>2. /\ a \in Positive /\ Effect(Head(todo)) = 0 /\ a + 0 \in Positive
      /\ TaskOK(Head(todo)) /\ Head(todo)[1] = "operators"
  BY <1>1, AtTask, EffectOf DEF Fits
<1>3. PICK level, node, again :
        /\ level = Head(todo)[2] /\ again = Head(todo)
        /\ node = Node("OPERATOR", token, 2)
  OBVIOUS
<1>4. level \in 1 .. 6 /\ level + 1 \in 1 .. 7
  BY <1>2, <1>3 DEF TaskOK
<1>5. Path(RightOperand(level), a, a + 1)
  <2> HIDE DEF a
  <2> QED
    BY <1>2, <1>4, FromPath DEF RightOperand
<1>6. Path(<<node, again>>, a + 1, a + 0)
  <2>1. Fits(node, -1) /\ Fits(again, 0)
    BY <1>2, <1>3, NodeFits DEF Fits
  <2> HIDE DEF a
  <2>2. PICK b \in Positive : b = a + 1
    BY <1>2 DEF Positive
  <2>3. Path(<<node, again>>, b, a + 0)
    BY <1>2, <2>1, <2>2, PathOf2 DEF Fits, Positive
  <2> QED
    BY <2>2, <2>3
<1>7. Path(RightOperand(level) \o <<node, again>>, a, a + 0)
  BY <1>5, <1>6, PathJoin
<1>8. Path(<<>>, a, a + 0)
  <2> HIDE DEF a
  <2> QED
    BY <1>2, PathEmpty DEF Positive
<1>9. \/ /\ Do(RightOperand(level) \o <<node, again>>)
         /\ Kept /\ Consume /\ NoError
      \/ Call(<<>>)
  BY <1>3 DEF ParseOperators
<1> QED
  BY <1>1, <1>2, <1>7, <1>8, <1>9, KeptKeeps DEF Call

LEMMA PrimaryStep ==
  ASSUME ParserInv, ParsePrimary
  PROVE  ParserInv'
<1> DEFINE a == Len(nodes)
<1>1. At("primary") /\ "primary" # "program"
  BY DEF ParsePrimary
<1>2. /\ a \in Positive /\ Effect(Head(todo)) = 1 /\ a + 1 \in Positive
      /\ nodes \in Seq(Range(nodes))
  BY <1>1, AtTask, EffectOf DEF Makes, ParserInv, Stacked
<1>3. PICK node, close :
        node = Node("OPERATOR", token, 1) /\ close = Expect(")")
  OBVIOUS
<1>4. /\ Fits(node, 0) /\ Fits(close, 0) /\ Fits(<<"primary">>, 1)
      /\ Fits(<<"expression">>, 1) /\ Fits(<<"call">>, 1)
      /\ Fits(<<"nothing">>, 1)
  BY <1>3, TaskFits, NodeFits, PlainFits DEF Makes
<1>5. /\ Path(<< <<"primary">>, node >>, a, a + 1)
      /\ Path(<< <<"expression">>, close >>, a, a + 1)
      /\ Path(<< <<"call">> >>, a, a + 1)
      /\ Path(<< <<"nothing">> >>, a, a + 1)
  <2> HIDE DEF a
  <2>1. a \in Positive /\ a + 1 \in Positive
    BY <1>2
  <2>2. Path(<< <<"primary">>, node >>, a, a + 1)
    BY <1>4, <2>1, PathOf2 DEF Fits, Positive
  <2>3. Path(<< <<"expression">>, close >>, a, a + 1)
    BY <1>4, <2>1, PathOf2 DEF Fits, Positive
  <2>4. Path(<< <<"call">> >>, a, a + 1)
    BY <1>4, <2>1, PathOf1 DEF Fits, Positive
  <2>5. Path(<< <<"nothing">> >>, a, a + 1)
    BY <1>4, <2>1, PathOf1 DEF Fits, Positive
  <2> QED
    BY <2>2, <2>3, <2>4, <2>5
<1>6. CASE \E tasks \in { << <<"primary">>, node >>,
                          << <<"expression">>, close >>,
                          << <<"call">> >>, << <<"nothing">> >> } :
             /\ Do(tasks) /\ Kept
             /\ Look \/ Consume
             /\ NoError \/ ParserError
  <2>1. PICK tasks : /\ Path(tasks, a, a + 1) /\ Do(tasks) /\ Kept
                     /\ Look \/ Consume
                     /\ NoError \/ ParserError
    BY <1>5, <1>6
  <2> QED
    BY <1>1, <1>2, <2>1, KeptKeeps
<1>7. CASE \E v : Push(v) /\ Do(<<>>) /\ Consume /\ NoError
  <2>1. /\ nodes' \in Seq(Range(nodes'))
        /\ Len(nodes') = Len(nodes) + Effect(Head(todo))
    BY <1>2, <1>7, PushValue DEF Push
  <2> QED
    BY <1>1, <1>7, <2>1, DoneKeeps
<1> QED
  BY <1>3, <1>6, <1>7 DEF ParsePrimary, Call

LEMMA ProgramStep ==
  ASSUME ParserInv, ParseProgram
  PROVE  ParserInv'
<1> DEFINE a == Len(nodes)
           r == Tail(todo)
<1>1. At("program")
  BY DEF ParseProgram
<1>2. /\ wanted = 0 /\ todo # <<>> /\ ~crashed
      /\ a \in Positive /\ Effect(Head(todo)) = 0 /\ a + 0 \in Positive
      /\ nodes \in Seq(Range(nodes)) /\ todo \in Seq(Range(todo))
      /\ todo[Len(todo)] = <<"program">>
      /\ Path(r, a + 0, 1)
  <2>1. Effect(Head(todo)) = 0
    <3>1. \A t : t[1] = "program" => Effect(t) = 0
      BY DEF Effect, Makes
    <3> QED
      BY <1>1, <3>1 DEF At
  <2> QED
    BY <1>1, <2>1, AtTask DEF ParserInv, Stacked
<1>3. a + 0 = a
  <2> HIDE DEF a
  <2> QED
    BY <1>2 DEF Positive
<1>4. /\ r \in Seq(Range(r))
      /\ Len(r) = Len(todo) - 1 /\ Len(todo) \in Nat \ {0}
      /\ \A i \in 1 .. Len(todo) - 1 : r[i] = todo[i + 1]
      /\ Head(todo) = todo[1]
  BY <1>2, RestSequence
<1>5. r # <<>> => r[Len(r)] = <<"program">>
  <2> SUFFICES ASSUME r # <<>> PROVE r[Len(r)] = <<"program">>
    OBVIOUS
  <2>1. Len(r) \in 1 .. Len(todo) - 1
    BY <1>4
  <2>2. r[Len(r)] = todo[Len(r) + 1] /\ Len(r) + 1 = Len(todo)
    BY <1>4, <2>1
  <2> QED
    BY <1>2, <2>2
<1> HIDE DEF r
<1>6. CASE Sees({"EOF"}) /\ Call(<<>>)
  <2>1. /\ todo' = r /\ nodes' = nodes /\ parseErrors' = parseErrors
        /\ crashed' = crashed /\ token.type = "EOF"
    <3>1. todo' = <<>> \o r
      BY <1>6 DEF Call, Do, r
    <3> QED
      BY <1>4, <1>6, <3>1 DEF Call, NoError, Kept, Sees
  <2>2. Scanned' /\ text' = text /\ wanted' = wanted /\ token' = token
    BY <1>6, LookKeeps DEF Call, ParserInv
  <2>3. r = <<>> => a = 1
    <3> SUFFICES ASSUME r = <<>> PROVE a = 1
      OBVIOUS
    <3>1. PICK h \in [1 .. 0 + 1 -> Positive] : h[1] = a + 0 /\ h[0 + 1] = 1
      <4>1. Len(r) = 0
        OBVIOUS
      <4> HIDE DEF a
      <4> QED
        BY <1>2, <4>1 DEF Path
    <3> QED
      BY <1>3, <3>1
  <2> QED
    BY <1>2, <1>3, <1>4, <1>5, <2>1, <2>2, <2>3 DEF ParserInv, Stacked
<1>7. ASSUME NEW tasks, NEW n \in Nat, tasks \in Seq(Range(tasks)),
             Len(tasks) = n + 1, tasks[n + 1] = <<"program">>,
             Path(tasks, a, a + 0), Call(tasks)
      PROVE  ParserInv'
  <2>1. /\ todo' = tasks \o r /\ nodes' = nodes /\ parseErrors' = parseErrors
        /\ crashed' = crashed
    BY <1>7 DEF Call, NoError, Kept, Do, r
  <2>2. Scanned' /\ text' = text
    BY <1>7, LookKeeps DEF Call, ParserInv
  <2>3. Path(tasks \o r, a, 1)
    BY <1>2, <1>7, PathJoin
  <2>4. /\ tasks \o r \in Seq(Range(tasks \o r))
        /\ Len(tasks \o r) = Len(tasks) + Len(r)
        /\ \A i \in 1 .. Len(tasks) : (tasks \o r)[i] = tasks[i]
        /\ \A i \in 1 .. Len(r) : (tasks \o r)[Len(tasks) + i] = r[i]
    <3>1. tasks \in Seq(Range(tasks)) /\ r \in Seq(Range(r))
      BY <1>4, <1>7
    <3> HIDE DEF a
    <3> QED
      BY <3>1, JoinedSequence
  <2>5. /\ tasks \o r # <<>>
        /\ (tasks \o r)[Len(tasks \o r)] = <<"program">>
    <3>1. CASE r = <<>>
      BY <1>4, <1>7, <2>4, <3>1
    <3>2. CASE r # <<>>
      <4>1. Len(r) \in 1 .. Len(r)
        BY <1>4, <3>2
      <4> QED
        BY <1>5, <1>7, <2>4, <3>2, <4>1
    <3> QED
      BY <3>1, <3>2
  <2> QED
    BY <1>2, <2>1, <2>2, <2>3, <2>4, <2>5 DEF ParserInv, Stacked
<1>8. CASE Call(<< <<"definition">>, <<"add">>, <<"program">> >>)
  <2> DEFINE tasks == << <<"definition">>, <<"add">>, <<"program">> >>
  <2>1. /\ Fits(<<"definition">>, 1) /\ Fits(<<"add">>, -1)
        /\ Fits(<<"program">>, 0)
    BY PlainFits DEF Makes
  <2>2. Path(tasks, a, a + 0)
    <3> HIDE DEF a
    <3>1. a \in Positive /\ a + 0 = a /\ a + 1 \in Positive
      BY <1>2, <1>3 DEF Positive
    <3>2. Path(tasks, a, a)
      BY <2>1, <3>1, PathOf3 DEF Fits, Positive
    <3> QED
      BY <3>1, <3>2
  <2>3. /\ tasks \in Seq(Range(tasks)) /\ Len(tasks) = 2 + 1
        /\ tasks[2 + 1] = <<"program">>
    BY <2>2 DEF Path
  <2>4. Call(tasks)
    BY <1>8
  <2> HIDE DEF tasks, a
  <2> QED
    BY <1>7, <2>2, <2>3, <2>4
<1>9. CASE Call(<< <<"declaration">>, Expect(";"), <<"add">>, <<"program">> >>)
  <2>1. PICK semicolon : semicolon = Expect(";")
    OBVIOUS
  <2> DEFINE tasks == << <<"declaration">>, semicolon, <<"add">>,
                         <<"program">> >>
  <2>2. /\ Fits(<<"declaration">>, 1) /\ Fits(semicolon, 0)
        /\ Fits(<<"add">>, -1) /\ Fits(<<"program">>, 0)
    BY <2>1, TaskFits, PlainFits DEF Makes
  <2>3. Path(tasks, a, a + 0)
    <3> HIDE DEF a
    <3>1. a \in Positive /\ a + 0 = a /\ a + 1 \in Positive
      BY <1>2, <1>3 DEF Positive
    <3>2. Path(tasks, a, a)
      BY <2>2, <3>1, PathOf4 DEF Fits, Positive
    <3> QED
      BY <3>1, <3>2
  <2>4. /\ tasks \in Seq(Range(tasks)) /\ Len(tasks) = 3 + 1
        /\ tasks[3 + 1] = <<"program">>
    BY <2>3 DEF Path
  <2>5. Call(tasks)
    BY <1>9, <2>1
  <2> HIDE DEF tasks, a
  <2> QED
    BY <1>7, <2>3, <2>4, <2>5
<1>10. CASE Stay /\ Kept /\ Consume /\ ParserError
  BY <1>1, <1>10, StayKeeps
<1> QED
  BY <1>6, <1>8, <1>9, <1>10 DEF ParseProgram

-----------------------------------------------------------------------------
LEMMA LexerReads ==
  ASSUME NextToken
  PROVE  wanted > 0 /\ text' = text
BY DEF NextToken, SkipBlank, NextLine, Comment, OneCharacter, TwoCharacters,
       FirstOnly, StringLiteral, CharLiteral, Word, Number, Unrecognised,
       EndOfText, Reads, Skip, LexError, Emit, AdvanceTo

LEMMA LexerKeepsStack ==
  ASSUME ParserInv, NextToken, UNCHANGED parserVars
  PROVE  ParserInv'
<1>1. wanted > 0 /\ text' = text /\ todo' = todo /\ nodes' = nodes
      /\ parseErrors' = parseErrors /\ crashed' = crashed
  BY LexerReads DEF parserVars
<1>2. todo # <<>>
  BY <1>1 DEF ParserInv, Stacked
<1>3. Scanned'
  BY LexerStep DEF ParserInv
<1> QED
  BY <1>1, <1>2, <1>3 DEF ParserInv, Stacked

LEMMA ParseStepKeeps ==
  ASSUME ParserInv, ParseStep
  PROVE  ParserInv'
BY ExpectTokenStep, AcceptTokenStep, MakeLeafStep, MakeNothingStep,
   MakeNodeStep, MakeParentStep, BeginStep, LinkStep, AddStep, ProgramStep,
   DefinitionStep, HeaderStep, ParametersStep, ParameterStep, MoreStep,
   DeclarationStep, InitialStep, BlockStep, StatementsStep, RestStep,
   StatementStep, SynchronizeStep, AssignmentStep, AssignedStep, ReturnStep,
   ReturnedStep, IfStep, ElseStep, BranchStep, WhileStep, ExpressionStep,
   OperatorsStep, PrimaryStep, CallStep, ArgumentsStep
   DEF ParseStep

LEMMA ParserInvInit ==
  ASSUME Init
  PROVE  ParserInv
<1>1. Scanned
  <2>1. /\ text \in Texts /\ pos = 1 /\ line = 1 /\ column = 1 /\ wanted = 2
        /\ lexErrors = {} /\ tokens = <<>>
    BY DEF Init, LexerInit
  <2>2. Len(text) \in Nat
    BY <2>1, TextIsSequence
  <2> QED
    BY <2>1, <2>2 DEF Scanned, Sorted, Window
<1>2. PICK task : task = <<"program">>
  OBVIOUS
<1>3. todo = <<task>> /\ todo[1] = <<"program">> /\ Len(todo) = 1
      /\ todo # <<>>
  BY <1>2 DEF Init
<1>4. Len(nodes) = 1 /\ nodes \in Seq(Range(nodes))
  <2>1. PICK chain : chain = Chain(<<>>)
    OBVIOUS
  <2>2. nodes = <<chain>>
    BY <2>1 DEF Init
  <2>3. nodes \in Seq({chain})
    BY <2>2
  <2> QED
    BY <2>2, <2>3, AnySequence
<1>5. Path(<<task>>, 1, 1)
  BY <1>2, PlainFits, PathOf1 DEF Fits, Positive
<1>6. todo \in Seq(Range(todo))
  BY <1>3, <1>5 DEF Path
<1>7. parseErrors = {} /\ ~crashed
  BY DEF Init
<1> QED
  BY <1>1, <1>3, <1>4, <1>5, <1>6, <1>7 DEF ParserInv, Stacked

LEMMA ParserInvNext ==
  ASSUME ParserInv, [Next]_vars
  PROVE  ParserInv'
<1>1. CASE UNCHANGED vars
  <2>1. /\ text' = text /\ pos' = pos /\ line' = line /\ column' = column
        /\ token' = token /\ lookahead' = lookahead /\ wanted' = wanted
        /\ tokens' = tokens /\ lexErrors' = lexErrors
        /\ todo' = todo /\ nodes' = nodes /\ parseErrors' = parseErrors
        /\ crashed' = crashed
    BY <1>1 DEF vars, lexerVars, parserVars, place, window
  <2> QED
    BY <2>1 DEF ParserInv, Stacked, Scanned, Sorted, Window, Received, AtEnd
<1> QED
  BY <1>1, LexerKeepsStack, ParseStepKeeps DEF Next

LEMMA ParserInvTypes ==
  ASSUME ParserInv
  PROVE  TypeOK
<1>1. /\ pos \in 1 .. Len(text) + 1
      /\ wanted \in 0 .. 2
      /\ lexErrors \cup parseErrors \subseteq 1 .. Len(text) + 1
      /\ wanted = 0 => lookahead.type = "EOF" \/ lookahead = Last(tokens)
  BY DEF ParserInv, Scanned, Stacked, Window
<1>2. \A t \in Range(tokens) : t.from < t.to /\ t.to <= pos
  BY DEF ParserInv, Scanned, Sorted, Range
<1>3. Finished /\ ~crashed =>
         Len(nodes) = 1 /\ token.type = "EOF" /\ AtEnd(pos)
  BY DEF Finished, ParserInv, Scanned, Stacked, Window, Received
<1> QED
  BY <1>1, <1>2, <1>3 DEF TypeOK

\* Whatever errors the lexer and the parser meet, the parse functions leave
\* one value, the program, when they have come to the end of the text.
THEOREM ParserTypes == Spec => []TypeOK
<1>1. Init => ParserInv
  BY ParserInvInit
<1>2. ParserInv /\ [Next]_vars => ParserInv'
  BY ParserInvNext
<1>3. ParserInv => TypeOK
  BY ParserInvTypes
<1> QED
  BY <1>1, <1>2, <1>3, PTL DEF Spec

-----------------------------------------------------------------------------
(***************************************************************************)
(* Lines and columns.                                                      *)
(***************************************************************************)

\* The line and the column of position i.
Placed(i, l, c) ==
  /\ l = Cardinality(Newlines(i)) + 1
  /\ c = i - Max(Newlines(i) \cup {0})

Located ==
  /\ LinesSeen(pos) => Placed(pos, line, column)
  /\ \A t \in Range(tokens) :
       LinesSeen(t.from) => Placed(t.from, t.line, t.column)

\* The parser does not read the text itself.
LEMMA ParserWaits ==
  ASSUME ParseStep
  PROVE  /\ text' = text /\ pos' = pos /\ line' = line /\ column' = column
         /\ tokens' = tokens /\ lexErrors' = lexErrors
<1>1. Look \/ Consume
  BY DEF ParseStep, ExpectToken, AcceptToken, MakeLeaf, MakeNothing, MakeNode,
         MakeParent, Begin, Link, Add, Call, ParseProgram, ParseDefinition,
         ParseHeader, ParseParameters, ParseParameter, ParseMore,
         ParseDeclaration, ParseInitial, ParseBlock, ParseStatements,
         ParseRest, ParseStatement, Synchronize, ParseAssignment,
         ParseAssigned, ParseReturn, ParseReturned, ParseIf, ParseElse,
         ParseBranch, ParseWhile, ParseExpression, ParseOperators,
         ParsePrimary, ParseCall, ParseArguments
<1> QED
  BY <1>1 DEF Look, Consume, lexerVars, place, window

\* What held of the tokens and errors before a step still does not hold of
\* less.
LEMMA LinesSeenBefore ==
  ASSUME text' = text, lexErrors \subseteq lexErrors',
         Range(tokens) \subseteq Range(tokens'), NEW i, NEW j,
         j \in Int, i \in Int, i <= j,
         \A t \in Range(tokens) : t.to \in Int,
         LinesSeen(j)'
  PROVE  LinesSeen(i)
BY DEF LinesSeen, Newlines

\* Over a newline.
LEMMA NextPlace ==
  ASSUME text \in Texts, NEW i \in 1 .. Len(text), text[i] = Newline,
         NEW l, NEW c, Placed(i, l, c)
  PROVE  Placed(i + 1, l + 1, 1)
<1>1. Len(text) \in Nat
  BY TextIsSequence
<1>2. Newlines(i + 1) = Newlines(i) \cup {i} /\ i \notin Newlines(i)
  BY <1>1 DEF Newlines
<1>3. IsFiniteSet(Newlines(i))
  <2>1. IsFiniteSet(1 .. i - 1)
    BY <1>1, FS_Interval
  <2> QED
    BY <2>1, FS_Subset DEF Newlines
<1>4. Cardinality(Newlines(i + 1)) = Cardinality(Newlines(i)) + 1
  BY <1>2, <1>3, FS_AddElement
<1>5. Max(Newlines(i + 1) \cup {0}) = i
  <2> DEFINE S == Newlines(i + 1) \cup {0}
  <2>1. i \in S /\ \A y \in S : y \in Int /\ y <= i
    BY <1>1, <1>2 DEF Newlines
  <2> HIDE DEF S
  <2>2. \A x \in S : (\A y \in S : x >= y) => x = i
    BY <1>1, <2>1
  <2>3. \A y \in S : i >= y
    BY <1>1, <2>1
  <2>4. Max(S) = i
    BY <2>1, <2>2, <2>3 DEF Max
  <2> QED
    BY <2>4 DEF S
<1> QED
  BY <1>1, <1>4, <1>5 DEF Placed

\* The line before a position ends somewhere.
LEMMA LineEnds ==
  ASSUME NEW i \in Nat \ {0}
  PROVE  Max(Newlines(i) \cup {0}) \in Nat
<1> DEFINE S == Newlines(i) \cup {0}
           R == { i - y : y \in S }
<1>1. 0 \in S /\ \A y \in S : y \in Nat /\ y < i
  BY DEF Newlines
<1>2. R \in SUBSET Nat /\ i - 0 \in R
  <2> HIDE DEF S
  <2> QED
    BY <1>1
<1>3. PICK n \in R : \A m \in R : n <= m
  <2> HIDE DEF R
  <2> QED
    BY <1>2, LeastNumber
<1>4. PICK x \in S : n = i - x
  OBVIOUS
<1>5. \A y \in S : x >= y
  <2> SUFFICES ASSUME NEW y \in S PROVE x >= y
    OBVIOUS
  <2>1. i - y \in R
    OBVIOUS
  <2>2. i - x <= i - y
    BY <1>3, <1>4, <2>1
  <2> HIDE DEF S
  <2> QED
    BY <1>1, <2>2
<1> HIDE DEF S, R
<1>6. Max(S) \in S
  BY <1>5 DEF Max
<1> QED
  BY <1>1, <1>6 DEF S

\* Over characters that are no newlines.
LEMMA SameLine ==
  ASSUME NEW i \in Nat \ {0}, NEW e \in Nat, i <= e,
         Newlines(e) = Newlines(i), NEW l, NEW c \in Nat, Placed(i, l, c)
  PROVE  Placed(e, l, c + (e - i))
<1>1. Max(Newlines(i) \cup {0}) \in Nat
  BY LineEnds
<1> QED
  BY <1>1 DEF Placed

LEMMA NoNewlines ==
  ASSUME NEW i \in Nat \ {0}, NEW e \in Nat, i <= e,
         \A k \in i .. e - 1 : text[k] # Newline
  PROVE  Newlines(e) = Newlines(i)
<1>1. \A j \in 1 .. e - 1 : j \in 1 .. i - 1 \/ j \in i .. e - 1
  OBVIOUS
<1>2. \A j \in 1 .. i - 1 : j \in 1 .. e - 1
  OBVIOUS
<1> QED
  BY <1>1, <1>2 DEF Newlines

\* The ways an iteration of next_token can end.
LEMMA LexerMoves ==
  ASSUME Scanned, NextToken
  PROVE  \/ \E e \in pos + 1 .. Len(text) + 1 :
              Skip(e) /\ \A k \in pos .. e - 1 : text[k] # Newline
         \/ NextLine
         \/ \E e : LexError(e)
         \/ \E type, e : Emit(type, e)
         \/ EndOfText
<1>1. CASE SkipBlank
  <2>1. Reads(Blank) /\ Skip(pos + 1)
    BY <1>1 DEF SkipBlank
  <2>2. /\ pos + 1 \in pos + 1 .. Len(text) + 1
        /\ text[pos] \in Blank /\ pos \in Nat
    BY <2>1, ReadsHere
  <2>3. \A k \in pos .. (pos + 1) - 1 : text[k] # Newline
    <3>1. text[pos] # Newline
      BY <2>2 DEF Blank, Newline
    <3>2. \A k \in pos .. (pos + 1) - 1 : k = pos
      BY <2>2
    <3> QED
      BY <3>1, <3>2
  <2> QED
    BY <2>1, <2>2, <2>3
<1>2. CASE Comment
  <2> DEFINE class == Other({Newline})
             e == RunEnd(pos, class)
  <2>1. /\ Reads({"#"}) /\ Skip(e)
    BY <1>2 DEF Comment
  <2>2. text[pos] \in class
    <3>1. text[pos] = "#" /\ pos \in DOMAIN text
      BY <2>1, ReadsHere, TextIsSequence DEF Scanned
    <3> QED
      BY <3>1 DEF Other, Newline
  <2>3. pos \in 1 .. Len(text) + 1
    BY DEF Scanned
  <2>4. \A c : c \in class => c # Newline
    BY DEF Other
  <2> HIDE DEF class
  <2>5. Reads(class)
    BY <2>1, <2>2 DEF Reads, Is
  <2>6. e \in pos + 1 .. Len(text) + 1
    BY <2>5, RunPast
  <2>7. \A k \in pos .. e - 1 : Is(k, class)
    BY <2>3, RunFound DEF Scanned
  <2>8. \A k \in pos .. e - 1 : text[k] # Newline
    BY <2>4, <2>7 DEF Is
  <2> QED
    BY <2>1, <2>6, <2>8
<1>3. CASE TwoCharacters
  BY <1>3 DEF TwoCharacters
<1>4. CASE OneCharacter
  BY <1>4 DEF OneCharacter
<1>5. CASE FirstOnly
  BY <1>5 DEF FirstOnly
<1>6. CASE StringLiteral
  BY <1>6 DEF StringLiteral
<1>7. CASE CharLiteral
  BY <1>7 DEF CharLiteral
<1>8. CASE Word
  BY <1>8 DEF Word
<1>9. CASE Number
  BY <1>9 DEF Number
<1>10. CASE Unrecognised
  BY <1>10 DEF Unrecognised
<1> QED
  BY <1>1, <1>2, <1>3, <1>4, <1>5, <1>6, <1>7, <1>8, <1>9, <1>10 DEF NextToken

LEMMA LocatedStep ==
  ASSUME Scanned, Located, NextToken
  PROVE  Located'
<1>1. text' = text /\ Scanned'
  BY LexerReads, LexerStep
<1>2. /\ pos \in Nat \ {0} /\ line \in Nat /\ column \in Nat /\ pos' \in Nat
      /\ text \in Texts /\ Len(text) \in Nat
  BY <1>1, TextIsSequence DEF Scanned
<1>3. \A t \in Range(tokens) : t.from \in Int /\ t.to \in Int /\ t.to <= pos
  <2>1. \A i \in DOMAIN tokens :
           tokens[i].from \in Int /\ tokens[i].to \in Int
    BY TokenFields DEF Scanned, Sorted
  <2> QED
    BY <2>1 DEF Scanned, Sorted, Range
<1>4. \A i, l, c : Placed(i, l, c)' <=> Placed(i, l, c)
  BY <1>1 DEF Placed, Newlines
<1>5. ASSUME Range(tokens') = Range(tokens), lexErrors' = lexErrors,
             pos <= pos', LinesSeen(pos) => Placed(pos', line', column')
      PROVE  Located'
  <2>1. \A i : LinesSeen(i)' <=> LinesSeen(i)
    BY <1>1, <1>5 DEF LinesSeen, Newlines
  <2>2. LinesSeen(pos') => LinesSeen(pos)
    BY <1>2, <1>3, <1>5 DEF LinesSeen
  <2> QED
    BY <1>4, <1>5, <2>1, <2>2 DEF Located
<1>6. CASE \E e \in pos + 1 .. Len(text) + 1 :
              Skip(e) /\ \A k \in pos .. e - 1 : text[k] # Newline
  <2>1. PICK e \in pos + 1 .. Len(text) + 1 :
           Skip(e) /\ \A k \in pos .. e - 1 : text[k] # Newline
    BY <1>6
  <2>2. /\ pos' = e /\ line' = line /\ column' = column + (e - pos)
        /\ tokens' = tokens /\ lexErrors' = lexErrors
    BY <2>1 DEF Skip, AdvanceTo, window
  <2>3. Newlines(e) = Newlines(pos)
    BY <1>2, <2>1, NoNewlines
  <2>4. Placed(pos, line, column) => Placed(e, line, column + (e - pos))
    BY <1>2, <2>3, SameLine
  <2> QED
    BY <1>2, <1>5, <2>2, <2>4 DEF Located
<1>7. CASE NextLine
  <2>1. /\ pos' = pos + 1 /\ line' = line + 1 /\ column' = 1
        /\ tokens' = tokens /\ lexErrors' = lexErrors /\ Reads({Newline})
    BY <1>7 DEF NextLine, window
  <2>2. pos \in 1 .. Len(text) /\ text[pos] = Newline
    BY <2>1, ReadsHere
  <2>3. Placed(pos, line, column) => Placed(pos + 1, line + 1, 1)
    BY <1>2, <2>2, NextPlace
  <2> QED
    BY <1>2, <1>5, <2>1, <2>3 DEF Located
<1>8. CASE \E e : LexError(e)
  <2>1. lexErrors' # {}
    BY <1>8 DEF LexError
  <2> QED
    BY <2>1 DEF Located, LinesSeen
<1>9. CASE \E type, e : Emit(type, e)
  <2>1. PICK type, e : Emit(type, e)
    BY <1>9
  <2>2. PICK t : t = Token(type, e)
    OBVIOUS
  <2>3. /\ pos' = e /\ line' = line /\ column' = column + (e - pos)
        /\ tokens' = Append(tokens, t) /\ lexErrors' = lexErrors
    BY <2>1, <2>2 DEF Emit, Deliver, AdvanceTo
  <2>4. /\ t.from = pos /\ t.to = e /\ t.line = line /\ t.column = column
    BY <2>2 DEF Token
  <2>5. Range(tokens') = Range(tokens) \cup {t}
    <3>1. tokens \in Seq(Tokens)
      BY DEF Scanned, Sorted
    <3> QED
      BY <2>3, <3>1 DEF Range
  <2>6. pos < e
    <3>1. \A s \in Range(tokens') : s.from < s.to
      BY <1>1 DEF Scanned, Sorted, Range
    <3> QED
      BY <2>4, <2>5, <3>1
  <2>7. \A i, j \in Int : i <= j /\ LinesSeen(j)' => LinesSeen(i)
    <3>1. \A s \in Range(tokens) : s \in Range(tokens')
      BY <2>5
    <3> QED
      BY <1>1, <1>3, <2>3, <3>1 DEF LinesSeen, Newlines
  <2>8. ASSUME LinesSeen(pos)'
        PROVE  Placed(pos', line', column')
    <3>1. LinesSeen(pos)
      BY <1>2, <2>3, <2>6, <2>7, <2>8
    <3>2. Newlines(e) = Newlines(pos)
      <4>1. t.to <= e => Newlines(t.from)' = Newlines(t.to)'
        BY <2>3, <2>5, <2>8 DEF LinesSeen
      <4> QED
        BY <1>1, <1>2, <2>3, <2>4, <4>1 DEF Newlines
    <3> QED
      BY <1>2, <2>3, <2>6, <3>1, <3>2, SameLine DEF Located
  <2>9. ASSUME NEW s \in Range(tokens'), LinesSeen(s.from)'
        PROVE  Placed(s.from, s.line, s.column)
    <3>1. s = t \/ s \in Range(tokens)
      BY <2>5
    <3>2. s.from \in Int
      BY <1>2, <1>3, <2>4, <3>1
    <3>3. LinesSeen(s.from)
      BY <2>7, <2>9, <3>2
    <3> QED
      BY <2>4, <3>1, <3>3 DEF Located
  <2>10. Placed(pos, line, column)' <=> Placed(pos', line', column')
    BY <1>4
  <2>11. \A s \in Range(tokens') :
            LinesSeen(s.from)' => Placed(s.from, s.line, s.column)'
    BY <1>1, <2>9 DEF Placed, Newlines
  <2> QED
    BY <2>8, <2>10, <2>11 DEF Located
<1>10. CASE EndOfText
  <2>1. /\ pos' = pos /\ line' = line /\ column' = column
        /\ tokens' = tokens /\ lexErrors' = lexErrors
    BY <1>10 DEF EndOfText, Deliver, place
  <2> QED
    BY <1>2, <1>5, <2>1 DEF Located
<1> QED
  BY <1>6, <1>7, <1>8, <1>9, <1>10, LexerMoves

LEMMA LocatedInit ==
  ASSUME Init
  PROVE  Located
<1>1. pos = 1 /\ line = 1 /\ column = 1 /\ tokens = <<>>
  BY DEF Init, LexerInit
<1>2. Newlines(1) = {}
  BY DEF Newlines
<1>3. Cardinality(Newlines(1)) = 0
  BY <1>2, FS_EmptySet
<1>4. Max(Newlines(1) \cup {0}) = 0
  <2>1. Max({0}) = 0
    BY DEF Max
  <2> QED
    BY <1>2, <2>1
<1>5. Placed(1, 1, 1)
  BY <1>3, <1>4 DEF Placed
<1>6. Range(tokens) = {}
  BY <1>1 DEF Range
<1> QED
  BY <1>1, <1>5, <1>6 DEF Located

\* The variables of the lexer that the parser only reads.
LEMMA LocatedNext ==
  ASSUME Scanned, Located, [Next]_vars
  PROVE  Located'
<1>1. CASE NextToken
  BY <1>1, LocatedStep
<1>2. CASE ParseStep \/ UNCHANGED vars
  <2>1. /\ text' = text /\ pos' = pos /\ line' = line /\ column' = column
        /\ tokens' = tokens /\ lexErrors' = lexErrors
    BY <1>2, ParserWaits DEF vars, lexerVars, place, window
  <2>2. /\ \A i : LinesSeen(i)' <=> LinesSeen(i)
        /\ \A i, l, c : Placed(i, l, c)' <=> Placed(i, l, c)
    BY <2>1 DEF LinesSeen, Placed, Newlines
  <2> QED
    BY <2>1, <2>2 DEF Located
<1> QED
  BY <1>1, <1>2 DEF Next

\* As long as no newline is in a literal, every token knows its line and
\* its column.
THEOREM LocationsAreTrue == Spec => []LocationsTrue
<1>1. Init => ParserInv /\ Located
  BY ParserInvInit, LocatedInit
<1>2. ParserInv /\ Located /\ [Next]_vars => (ParserInv /\ Located)'
  BY ParserInvNext, LocatedNext DEF ParserInv
<1>3. Located => LocationsTrue
  BY DEF Located, Placed, LocationsTrue
<1> QED
  BY <1>1, <1>2, <1>3, PTL DEF Spec

-----------------------------------------------------------------------------
(***************************************************************************)
(* Lexemes, by their positions in the text.                                *)
(***************************************************************************)

\* The elements of s from f to l.
IsPart(p, s, f, l) ==
  /\ p \in Seq(Range(p))
  /\ Len(p) = l + 1 - f
  /\ \A i \in 1 .. l + 1 - f : p[i] = s[f + i - 1]
  /\ \A k \in f .. l : s[k] = p[k + 1 - f]

LEMMA PartFound ==
  ASSUME NEW s, s \in Seq(Range(s)), NEW f \in Nat \ {0},
         NEW l \in f - 1 .. Len(s), NEW p, p = SubSeq(s, f, l)
  PROVE  IsPart(p, s, f, l)
<1>1. Len(s) \in Nat /\ l \in Int
  OBVIOUS
<1>2. SubSeq(s, f, l) \in Seq(Range(s))
  <2>1. \A k \in f .. l : s[k] \in Range(s)
    BY <1>1 DEF Range
  <2> QED
    BY <1>1, <2>1
<1>3. p \in Seq(Range(p))
  BY <1>2, AnySequence
<1>4. Len(p) = l + 1 - f
  BY <1>1
<1>5. \A i \in 1 .. l + 1 - f : p[i] = s[f + i - 1]
  BY <1>1
<1>6. ASSUME NEW k \in f .. l PROVE s[k] = p[k + 1 - f]
  <2>1. k + 1 - f \in 1 .. l + 1 - f /\ f + (k + 1 - f) - 1 = k
    BY <1>1
  <2>2. p[k + 1 - f] = s[f + (k + 1 - f) - 1]
    BY <1>5, <2>1
  <2> QED
    BY <2>1, <2>2
<1>7. \A k \in f .. l : s[k] = p[k + 1 - f]
  BY <1>6
<1> QED
  BY <1>3, <1>4, <1>5, <1>7 DEF IsPart

LEMMA RangeOfPart ==
  ASSUME NEW s, s \in Seq(Range(s)), NEW f \in Nat \ {0},
         NEW l \in f - 1 .. Len(s)
  PROVE  Range(SubSeq(s, f, l)) = { s[k] : k \in f .. l }
<1>0. PICK p : p = SubSeq(s, f, l)
  OBVIOUS
<1>1. /\ p \in Seq(Range(p)) /\ Len(p) = l + 1 - f
      /\ \A i \in 1 .. l + 1 - f : p[i] = s[f + i - 1]
      /\ \A k \in f .. l : s[k] = p[k + 1 - f]
  <2>1. IsPart(p, s, f, l)
    BY <1>0, PartFound
  <2> QED
    BY <2>1 DEF IsPart
<1>2. Len(s) \in Nat /\ l \in Int
  OBVIOUS
<1>3. Range(p) = { p[i] : i \in 1 .. l + 1 - f }
  <2>1. DOMAIN p = 1 .. l + 1 - f
    BY <1>1
  <2> QED
    BY <2>1 DEF Range
<1>4. \A i \in 1 .. l + 1 - f : f + i - 1 \in f .. l
  BY <1>2
<1>5. \A k \in f .. l : k + 1 - f \in 1 .. l + 1 - f
  BY <1>2
<1>6. ASSUME NEW x \in Range(p) PROVE x \in { s[k] : k \in f .. l }
  <2>1. PICK i \in 1 .. l + 1 - f : x = p[i]
    BY <1>3
  <2>2. x = s[f + i - 1] /\ f + i - 1 \in f .. l
    BY <1>1, <1>4, <2>1
  <2> QED
    BY <2>2
<1>7. \A x \in { s[k] : k \in f .. l } : x \in Range(p)
  BY <1>1, <1>3, <1>5
<1>8. Range(p) = { s[k] : k \in f .. l }
  BY <1>6, <1>7
<1> QED
  BY <1>0, <1>8

LEMMA OnlyIs ==
  ASSUME NEW s, s \in Seq(Range(s)), NEW f \in Nat \ {0},
         NEW l \in f .. Len(s), NEW class
  PROVE  Only(SubSeq(s, f, l), class) <=> \A k \in f .. l : s[k] \in class
<1>1. l \in f - 1 .. Len(s)
  OBVIOUS
<1>2. Len(SubSeq(s, f, l)) > 0
  BY <1>1
<1>3. SubSeq(s, f, l) # <<>>
  BY <1>2
<1> QED
  BY <1>1, <1>3, RangeOfPart DEF Only

LEMMA AllIs ==
  ASSUME NEW s, s \in Seq(Range(s)), Len(s) > 0, NEW class
  PROVE  Only(s, class) <=> \A k \in 1 .. Len(s) : s[k] \in class
BY DEF Only, Range

\* A number, by the positions of its characters.
NumberAt(s, f, e) ==
  \/ \A k \in f .. e - 1 : s[k] \in Digit
  \/ \E d \in f + 1 .. e - 2 : /\ s[d] = "."
                               /\ \A k \in f .. d - 1 : s[k] \in Digit
                               /\ \A k \in d + 1 .. e - 1 : s[k] \in Digit

QuotedAt(s, f, e) ==
  /\ e - f >= 2
  /\ s[f] = s[e - 1]
  /\ \A k \in f + 1 .. e - 2 : s[k] # s[f]
  /\ s[f] = "\"" \/ (s[f] = "'" /\ e - f = 3)

SymbolAt(s, f, e) ==
  \/ e - f = 1 /\ s[f] \in (Single \cup DOMAIN Pair) \ {"&", "|"}
  \/ e - f = 2 /\ s[f] \in DOMAIN Pair /\ s[f + 1] = Second[s[f]]

LexemeAt(s, f, e) ==
  \/ \A k \in f .. e - 1 : s[k] \in Letter
  \/ NumberAt(s, f, e)
  \/ QuotedAt(s, f, e)
  \/ SymbolAt(s, f, e)

LEMMA NumberIs ==
  ASSUME NEW s, s \in Seq(Range(s)), Len(s) > 0
  PROVE  IsNumber(s) <=> NumberAt(s, 1, Len(s) + 1)
<1>1. Len(s) \in Nat
  OBVIOUS
<1>2. /\ 1 .. (Len(s) + 1) - 1 = 1 .. Len(s)
      /\ 1 + 1 .. (Len(s) + 1) - 2 = 2 .. Len(s) - 1
  BY <1>1
<1>3. Only(s, Digit) <=> \A k \in 1 .. Len(s) : s[k] \in Digit
  BY AllIs
<1>4. ASSUME NEW d \in 2 .. Len(s) - 1
      PROVE  /\ Only(SubSeq(s, 1, d - 1), Digit) <=>
                  \A k \in 1 .. d - 1 : s[k] \in Digit
             /\ Only(SubSeq(s, d + 1, Len(s)), Digit) <=>
                  \A k \in d + 1 .. Len(s) : s[k] \in Digit
  <2>1. /\ 1 \in Nat \ {0} /\ d - 1 \in 1 .. Len(s)
        /\ d + 1 \in Nat \ {0} /\ Len(s) \in d + 1 .. Len(s)
    BY <1>1
  <2> QED
    BY <2>1, OnlyIs
<1> QED
  BY <1>2, <1>3, <1>4 DEF IsNumber, NumberAt

LEMMA QuotedIs ==
  ASSUME NEW s, s \in Seq(Range(s)), Len(s) > 0
  PROVE  IsQuoted(s) <=> QuotedAt(s, 1, Len(s) + 1)
<1>1. Len(s) \in Nat
  OBVIOUS
<1>2. Len(s) >= 2 => Range(Inside(s)) = { s[k] : k \in 2 .. Len(s) - 1 }
  BY <1>1, RangeOfPart DEF Inside
<1>3. /\ (Len(s) + 1) - 1 = Len(s)
      /\ 1 + 1 .. (Len(s) + 1) - 2 = 2 .. Len(s) - 1
  BY <1>1
<1> QED
  BY <1>2, <1>3 DEF IsQuoted, QuotedAt

LEMMA SymbolIs ==
  ASSUME NEW s, s \in Seq(Range(s)), Len(s) > 0
  PROVE  s \in Symbols <=> SymbolAt(s, 1, Len(s) + 1)
<1>1. Len(s) \in Nat /\ (Len(s) + 1) - 1 = Len(s)
  OBVIOUS
<1>2. \A c : s = <<c>> <=> Len(s) = 1 /\ s[1] = c
  OBVIOUS
<1>3. \A c, d : s = <<c, d>> <=> Len(s) = 2 /\ s[1] = c /\ s[2] = d
  OBVIOUS
<1> QED
  BY <1>1, <1>2, <1>3 DEF Symbols, SymbolAt

LEMMA LexemeIs ==
  ASSUME text \in Texts, NEW f \in 1 .. Len(text),
         NEW e \in f + 1 .. Len(text) + 1
  PROVE  Lexeme(SubSeq(text, f, e - 1)) <=> LexemeAt(text, f, e)
<1>1. PICK s : s = SubSeq(text, f, e - 1)
  OBVIOUS
<1>2. /\ text \in Seq(Range(text)) /\ Len(text) \in Nat
      /\ f \in Nat \ {0} /\ e - 1 \in f - 1 .. Len(text)
      /\ e \in Nat /\ f < e
  BY TextIsSequence
<1>3. /\ s \in Seq(Range(s)) /\ Len(s) = e - f
      /\ \A i \in 1 .. e - f : s[i] = text[f + i - 1]
      /\ \A k \in f .. e - 1 : text[k] = s[k + 1 - f]
  <2>1. PICK l : l = e - 1
    OBVIOUS
  <2>2. l + 1 - f = e - f
    BY <1>2, <2>1
  <2>3. l \in f - 1 .. Len(text)
    BY <1>2, <2>1
  <2>4. s = SubSeq(text, f, l)
    BY <1>1, <2>1
  <2>5. /\ s \in Seq(Range(s))
        /\ Len(s) = l + 1 - f
        /\ \A i \in 1 .. l + 1 - f : s[i] = text[f + i - 1]
        /\ \A k \in f .. l : text[k] = s[k + 1 - f]
    <3>1. IsPart(s, text, f, l)
      BY <1>2, <2>3, <2>4, PartFound
    <3> QED
      BY <3>1 DEF IsPart
  <2> QED
    BY <2>1, <2>2, <2>5
<1>4. Len(s) > 0 /\ Len(s) + 1 = e + 1 - f
  BY <1>2, <1>3
<1>5. ASSUME NEW a \in f .. e, NEW b \in f .. e, NEW class
      PROVE  (\A k \in a .. b - 1 : text[k] \in class) <=>
             (\A k \in a + 1 - f .. b - f : s[k] \in class)
  <2>1. ASSUME NEW k \in a .. b - 1
        PROVE  k + 1 - f \in a + 1 - f .. b - f /\ text[k] = s[k + 1 - f]
    BY <1>2, <1>3
  <2>2. ASSUME NEW k \in a + 1 - f .. b - f
        PROVE  f + k - 1 \in a .. b - 1 /\ s[k] = text[f + k - 1]
    BY <1>2, <1>3
  <2> QED
    BY <2>1, <2>2
<1>6. Only(s, Letter) <=> \A k \in f .. e - 1 : text[k] \in Letter
  <2>1. Only(s, Letter) <=> \A k \in 1 .. Len(s) : s[k] \in Letter
    BY <1>3, <1>4, AllIs
  <2>2. f \in f .. e /\ e \in f .. e /\ f + 1 - f = 1
    BY <1>2
  <2> QED
    BY <1>3, <1>5, <2>1, <2>2
<1>7. IsNumber(s) <=> NumberAt(text, f, e)
  <2>1. IsNumber(s) <=> NumberAt(s, 1, e + 1 - f)
    BY <1>3, <1>4, NumberIs
  <2>2. (\A k \in 1 .. (e + 1 - f) - 1 : s[k] \in Digit) <=>
        \A k \in f .. e - 1 : text[k] \in Digit
    <3>1. /\ f \in f .. e /\ e \in f .. e /\ f + 1 - f = 1
          /\ (e + 1 - f) - 1 = e - f
      BY <1>2
    <3> QED
      BY <1>5, <3>1
  <2>3. ASSUME NEW d \in f + 1 .. e - 2
        PROVE  LET c == d + 1 - f
               IN  /\ c \in 1 + 1 .. (e + 1 - f) - 2
                   /\ s[c] = text[d]
                   /\ (\A k \in 1 .. c - 1 : s[k] \in Digit) <=>
                      \A k \in f .. d - 1 : text[k] \in Digit
                   /\ (\A k \in c + 1 .. (e + 1 - f) - 1 : s[k] \in Digit) <=>
                      \A k \in d + 1 .. e - 1 : text[k] \in Digit
    <3>1. /\ f \in f .. e /\ e \in f .. e /\ d \in f .. e /\ d + 1 \in f .. e
          /\ f + 1 - f = 1 /\ (e + 1 - f) - 1 = e - f
          /\ (d + 1) + 1 - f = (d + 1 - f) + 1
          /\ (d + 1 - f) - 1 = d - f
          /\ d + 1 - f \in 1 + 1 .. (e + 1 - f) - 2
          /\ d \in f .. e - 1
      BY <1>2
    <3>2. s[d + 1 - f] = text[d]
      BY <1>3, <3>1
    <3>3. (\A k \in 1 .. d - f : s[k] \in Digit) <=>
          \A k \in f .. d - 1 : text[k] \in Digit
      BY <1>5, <3>1
    <3>4. (\A k \in (d + 1 - f) + 1 .. e - f : s[k] \in Digit) <=>
          \A k \in d + 1 .. e - 1 : text[k] \in Digit
      BY <1>5, <3>1
    <3> QED
      BY <3>1, <3>2, <3>3, <3>4
  <2>4. ASSUME NEW c \in 1 + 1 .. (e + 1 - f) - 2
        PROVE  f + c - 1 \in f + 1 .. e - 2 /\ (f + c - 1) + 1 - f = c
    BY <1>2
  <2>5. NumberAt(s, 1, e + 1 - f) => NumberAt(text, f, e)
    <3> SUFFICES ASSUME NumberAt(s, 1, e + 1 - f) PROVE NumberAt(text, f, e)
      OBVIOUS
    <3>1. CASE \A k \in 1 .. (e + 1 - f) - 1 : s[k] \in Digit
      BY <2>2, <3>1 DEF NumberAt
    <3>2. CASE \E c \in 1 + 1 .. (e + 1 - f) - 2 :
                  /\ s[c] = "."
                  /\ \A k \in 1 .. c - 1 : s[k] \in Digit
                  /\ \A k \in c + 1 .. (e + 1 - f) - 1 : s[k] \in Digit
      <4>1. PICK c \in 1 + 1 .. (e + 1 - f) - 2 :
                  /\ s[c] = "."
                  /\ \A k \in 1 .. c - 1 : s[k] \in Digit
                  /\ \A k \in c + 1 .. (e + 1 - f) - 1 : s[k] \in Digit
        BY <3>2
      <4>2. PICK d : d = f + c - 1
        OBVIOUS
      <4>3. d \in f + 1 .. e - 2 /\ d + 1 - f = c
        BY <2>4, <4>2
      <4>4. /\ text[d] = "."
            /\ \A k \in f .. d - 1 : text[k] \in Digit
            /\ \A k \in d + 1 .. e - 1 : text[k] \in Digit
        BY <2>3, <4>1, <4>3
      <4> QED
        BY <4>3, <4>4 DEF NumberAt
    <3> QED
      BY <3>1, <3>2 DEF NumberAt
  <2>6. NumberAt(text, f, e) => NumberAt(s, 1, e + 1 - f)
    <3> SUFFICES ASSUME NumberAt(text, f, e) PROVE NumberAt(s, 1, e + 1 - f)
      OBVIOUS
    <3>1. CASE \A k \in f .. e - 1 : text[k] \in Digit
      BY <2>2, <3>1 DEF NumberAt
    <3>2. CASE \E d \in f + 1 .. e - 2 :
                  /\ text[d] = "."
                  /\ \A k \in f .. d - 1 : text[k] \in Digit
                  /\ \A k \in d + 1 .. e - 1 : text[k] \in Digit
      <4>1. PICK d \in f + 1 .. e - 2 :
                  /\ text[d] = "."
                  /\ \A k \in f .. d - 1 : text[k] \in Digit
                  /\ \A k \in d + 1 .. e - 1 : text[k] \in Digit
        BY <3>2
      <4>2. PICK c : c = d + 1 - f
        OBVIOUS
      <4>3. /\ c \in 1 + 1 .. (e + 1 - f) - 2
            /\ s[c] = "."
            /\ \A k \in 1 .. c - 1 : s[k] \in Digit
            /\ \A k \in c + 1 .. (e + 1 - f) - 1 : s[k] \in Digit
        BY <2>3, <4>1, <4>2
      <4> QED
        BY <4>3 DEF NumberAt
    <3> QED
      BY <3>1, <3>2 DEF NumberAt
  <2> QED
    BY <2>1, <2>5, <2>6
<1>8. IsQuoted(s) <=> QuotedAt(text, f, e)
  <2>1. IsQuoted(s) <=> QuotedAt(s, 1, e + 1 - f)
    BY <1>3, <1>4, QuotedIs
  <2>2. s[1] = text[f] /\ s[(e + 1 - f) - 1] = text[e - 1]
    <3>1. /\ f \in f .. e - 1 /\ e - 1 \in f .. e - 1
          /\ f + 1 - f = 1 /\ (e + 1 - f) - 1 = (e - 1) + 1 - f
      BY <1>2
    <3> QED
      BY <1>3, <3>1
  <2>3. (\A k \in f + 1 .. e - 2 : text[k] # text[f]) <=>
        \A k \in 1 + 1 .. (e + 1 - f) - 2 : s[k] # text[f]
    <3>1. ASSUME NEW k \in f + 1 .. e - 2
          PROVE  /\ k + 1 - f \in 1 + 1 .. (e + 1 - f) - 2
                 /\ text[k] = s[k + 1 - f]
      BY <1>2, <1>3
    <3>2. ASSUME NEW k \in 1 + 1 .. (e + 1 - f) - 2
          PROVE  f + k - 1 \in f + 1 .. e - 2 /\ s[k] = text[f + k - 1]
      BY <1>2, <1>3
    <3> QED
      BY <3>1, <3>2
  <2>4. (e + 1 - f) - 1 = e - f
    BY <1>2
  <2> QED
    BY <2>1, <2>2, <2>3, <2>4 DEF QuotedAt
<1>9. s \in Symbols <=> SymbolAt(text, f, e)
  <2>1. s \in Symbols <=> SymbolAt(s, 1, e + 1 - f)
    BY <1>3, <1>4, SymbolIs
  <2>2. (e + 1 - f) - 1 = e - f
    BY <1>2
  <2>3. s[1] = text[f]
    BY <1>2, <1>3
  <2>4. e - f = 2 => s[1 + 1] = text[f + 1]
    BY <1>2, <1>3
  <2> QED
    BY <2>1, <2>2, <2>3, <2>4 DEF SymbolAt
<1> QED
  BY <1>1, <1>6, <1>7, <1>8, <1>9 DEF Lexeme, LexemeAt

\* The first character of a lexeme tells its kind.
Kinds(c) ==
  /\ c \in Letter => c \notin Digit \cup Quotes \cup Single \cup DOMAIN Pair
  /\ c \in Digit => c \notin Letter \cup Quotes \cup Single \cup DOMAIN Pair
  /\ c \in Quotes => c \notin Letter \cup Digit \cup Single \cup DOMAIN Pair
  /\ c \in Single => c \notin Letter \cup Digit \cup Quotes \cup DOMAIN Pair
  /\ c \in DOMAIN Pair => c \notin Letter \cup Digit \cup Quotes \cup Single

LEMMA KindsDiffer == \A c : Kinds(c)
<1> SUFFICES ASSUME NEW c PROVE Kinds(c)
  OBVIOUS
<1>1. /\ c \in Quotes => c \notin Single \cup DOMAIN Pair
      /\ c \in Single => c \notin DOMAIN Pair
  BY PairFound DEF Quotes, Single
<1>2. /\ c \in Letter => c \notin Digit
      /\ c \in Letter \cup Digit =>
           c \notin Quotes \cup Single \cup DOMAIN Pair
  BY CharactersAssumption DEF Marks
<1> QED
  BY <1>1, <1>2 DEF Kinds

LEMMA FirstTells ==
  ASSUME NEW f \in Nat, NEW e \in Nat, f < e, LexemeAt(text, f, e)
  PROVE  \/ text[f] \in Letter /\ \A k \in f .. e - 1 : text[k] \in Letter
         \/ text[f] \in Digit /\ NumberAt(text, f, e)
         \/ text[f] \in Quotes /\ QuotedAt(text, f, e)
         \/ text[f] \in Single \cup DOMAIN Pair /\ SymbolAt(text, f, e)
<1>1. f \in f .. e - 1
  OBVIOUS
<1>2. CASE \A k \in f .. e - 1 : text[k] \in Letter
  BY <1>1, <1>2
<1>3. CASE NumberAt(text, f, e)
  <2>1. \A d \in f + 1 .. e - 2 : f \in f .. d - 1
    OBVIOUS
  <2> QED
    BY <1>1, <1>3, <2>1 DEF NumberAt
<1>4. CASE QuotedAt(text, f, e)
  BY <1>4 DEF QuotedAt, Quotes
<1>5. CASE SymbolAt(text, f, e)
  BY <1>5 DEF SymbolAt
<1> QED
  BY <1>2, <1>3, <1>4, <1>5 DEF LexemeAt

\* A lexeme that is part of no longer one.
Whole(f, e) ==
  /\ LexemeAt(text, f, e)
  /\ \A l \in e + 1 .. Len(text) + 1 : ~LexemeAt(text, f, l)

LEMMA WholeCharacter ==
  ASSUME Scanned, Reads(Single)
  PROVE  Whole(pos, pos + 1)
<1>1. pos \in Nat /\ Len(text) \in Nat /\ text[pos] \in Single
  BY ReadsHere
<1>2. text[pos] \notin {"&", "|"}
  BY <1>1 DEF Single
<1>3. LexemeAt(text, pos, pos + 1)
  BY <1>1, <1>2 DEF LexemeAt, SymbolAt
<1>4. ASSUME NEW l \in (pos + 1) + 1 .. Len(text) + 1,
             LexemeAt(text, pos, l)
      PROVE  FALSE
  <2>1. l \in Nat /\ pos < l /\ l - pos >= 2
    BY <1>1
  <2>2. SymbolAt(text, pos, l)
    BY <1>1, <1>4, <2>1, FirstTells, KindsDiffer DEF Kinds
  <2> QED
    BY <1>1, <2>1, <2>2, KindsDiffer DEF SymbolAt, Kinds
<1> QED
  BY <1>3, <1>4 DEF Whole

LEMMA WholePair ==
  ASSUME Scanned, Reads(DOMAIN Pair), Is(pos + 1, {Second[text[pos]]})
  PROVE  Whole(pos, pos + 2)
<1>1. pos \in Nat /\ Len(text) \in Nat /\ text[pos] \in DOMAIN Pair
  BY ReadsHere
<1>2. text[pos + 1] = Second[text[pos]]
  BY DEF Is
<1>3. LexemeAt(text, pos, pos + 2)
  BY <1>1, <1>2 DEF LexemeAt, SymbolAt
<1>4. ASSUME NEW l \in (pos + 2) + 1 .. Len(text) + 1,
             LexemeAt(text, pos, l)
      PROVE  FALSE
  <2>1. l \in Nat /\ pos < l /\ l - pos >= 3
    BY <1>1
  <2>2. SymbolAt(text, pos, l)
    BY <1>1, <1>4, <2>1, FirstTells, KindsDiffer DEF Kinds
  <2> QED
    BY <1>1, <2>1, <2>2 DEF SymbolAt
<1> QED
  BY <1>3, <1>4 DEF Whole

LEMMA WholeFirst ==
  ASSUME Scanned, Reads(DOMAIN Pair), ~Is(pos + 1, {Second[text[pos]]}),
         text[pos] \notin {"&", "|"}
  PROVE  Whole(pos, pos + 1)
<1>1. pos \in Nat /\ Len(text) \in Nat /\ text[pos] \in DOMAIN Pair
  BY ReadsHere
<1>2. LexemeAt(text, pos, pos + 1)
  BY <1>1 DEF LexemeAt, SymbolAt
<1>3. ASSUME NEW l \in (pos + 1) + 1 .. Len(text) + 1,
             LexemeAt(text, pos, l)
      PROVE  FALSE
  <2>1. l \in Nat /\ pos < l /\ l - pos >= 2 /\ pos + 1 <= Len(text)
    BY <1>1
  <2>2. SymbolAt(text, pos, l)
    BY <1>1, <1>3, <2>1, FirstTells, KindsDiffer DEF Kinds
  <2>3. text[pos + 1] # Second[text[pos]]
    BY <1>1, <2>1 DEF Is, AtEnd
  <2> QED
    BY <1>1, <2>1, <2>2, <2>3 DEF SymbolAt
<1> QED
  BY <1>2, <1>3 DEF Whole

IsDouble(q) == q = "\""

LEMMA WholeString ==
  ASSUME Scanned, NEW q, IsDouble(q), Reads({q}),
         NEW e, e = RunEnd(pos + 1, Other({q})), ~AtEnd(e)
  PROVE  Whole(pos, e + 1)
<1>1. /\ pos \in Nat \ {0} /\ Len(text) \in Nat /\ text[pos] = q
      /\ pos + 1 \in 1 .. Len(text) + 1 /\ text \in Texts
  BY ReadsHere DEF Scanned
<1>2. PICK class : class = Other({q})
  OBVIOUS
<1>3. /\ e \in pos + 1 .. Len(text) + 1 /\ ~Is(e, class)
      /\ \A k \in pos + 1 .. e - 1 : Is(k, class)
  BY <1>1, <1>2, RunFound
<1>4. e \in Nat /\ pos < e /\ e <= Len(text)
  BY <1>1, <1>3 DEF AtEnd
<1>5. text[e] = q
  <2>1. e \in DOMAIN text
    BY <1>1, <1>4, TextIsSequence
  <2>2. text[e] \notin class
    BY <1>3 DEF Is
  <2> QED
    BY <1>2, <2>1, <2>2 DEF Other
<1>6. \A k \in pos + 1 .. e - 1 : text[k] # q
  BY <1>2, <1>3 DEF Is, Other
<1>7. LexemeAt(text, pos, e + 1)
  <2>1. /\ (e + 1) - pos >= 2 /\ (e + 1) - 1 = e /\ (e + 1) - 2 = e - 1
    BY <1>1, <1>4
  <2>2. q = "\""
    BY DEF IsDouble
  <2>3. /\ (e + 1) - pos >= 2
        /\ text[pos] = text[(e + 1) - 1]
        /\ \A k \in pos + 1 .. (e + 1) - 2 : text[k] # text[pos]
    BY <1>1, <1>5, <1>6, <2>1
  <2>4. QuotedAt(text, pos, e + 1)
    BY <1>1, <2>2, <2>3, Zenon DEF QuotedAt
  <2> QED
    BY <2>4 DEF LexemeAt
<1>8. ASSUME NEW l \in (e + 1) + 1 .. Len(text) + 1, LexemeAt(text, pos, l)
      PROVE  FALSE
  <2>1. l \in Nat /\ pos < l /\ e \in pos + 1 .. l - 2
    BY <1>1, <1>4
  <2>2. text[pos] \in Quotes
    BY <1>1 DEF Quotes, IsDouble
  <2>3. QuotedAt(text, pos, l)
    BY <1>1, <1>8, <2>1, <2>2, FirstTells, KindsDiffer DEF Kinds
  <2>4. \A k \in pos + 1 .. l - 2 : text[k] # text[pos]
    BY <2>3 DEF QuotedAt
  <2> QED
    BY <1>1, <1>5, <2>1, <2>4
<1> QED
  BY <1>7, <1>8 DEF Whole

LEMMA WholeChar ==
  ASSUME Scanned, Reads({"'"}), CharEnd = pos + 3, Is(pos + 2, {"'"})
  PROVE  Whole(pos, pos + 3)
<1>1. /\ pos \in Nat \ {0} /\ Len(text) \in Nat /\ text[pos] = "'"
  BY ReadsHere DEF Scanned
<1>2. text[pos + 2] = "'" /\ pos + 2 <= Len(text)
  BY <1>1 DEF Is, AtEnd
<1>3. text[pos + 1] # "'"
  BY <1>1, <1>2 DEF CharEnd, AtEnd
<1>4. LexemeAt(text, pos, pos + 3)
  <2>1. /\ (pos + 3) - pos = 3 /\ (pos + 3) - 1 = pos + 2
        /\ \A k \in pos + 1 .. (pos + 3) - 2 : k = pos + 1
    BY <1>1
  <2>2. QuotedAt(text, pos, pos + 3)
    BY <1>1, <1>2, <1>3, <2>1 DEF QuotedAt
  <2> QED
    BY <2>2 DEF LexemeAt
<1>5. ASSUME NEW l \in (pos + 3) + 1 .. Len(text) + 1, LexemeAt(text, pos, l)
      PROVE  FALSE
  <2>1. l \in Nat /\ pos < l /\ l - pos > 3
    BY <1>1
  <2>2. text[pos] \in Quotes /\ text[pos] # "\""
    BY <1>1 DEF Quotes
  <2>3. QuotedAt(text, pos, l)
    BY <1>1, <1>5, <2>1, <2>2, FirstTells, KindsDiffer DEF Kinds
  <2> QED
    BY <1>1, <2>1, <2>2, <2>3 DEF QuotedAt
<1> QED
  BY <1>4, <1>5 DEF Whole

LEMMA WholeWord ==
  ASSUME Scanned, Reads(Letter), NEW e, e = RunEnd(pos, Letter)
  PROVE  Whole(pos, e)
<1>1. /\ pos \in Nat \ {0} /\ Len(text) \in Nat /\ text[pos] \in Letter
      /\ pos \in 1 .. Len(text) + 1 /\ text \in Texts
  BY ReadsHere DEF Scanned
<1>2. /\ e \in pos + 1 .. Len(text) + 1 /\ ~Is(e, Letter)
      /\ \A k \in pos .. e - 1 : Is(k, Letter)
  BY <1>1, RunFound, RunPast
<1>3. LexemeAt(text, pos, e)
  BY <1>2 DEF LexemeAt, Is
<1>4. ASSUME NEW l \in e + 1 .. Len(text) + 1, LexemeAt(text, pos, l)
      PROVE  FALSE
  <2>1. l \in Nat /\ pos < l /\ e \in pos .. l - 1 /\ e <= Len(text)
    BY <1>1, <1>2
  <2>2. \A k \in pos .. l - 1 : text[k] \in Letter
    BY <1>1, <1>4, <2>1, FirstTells, KindsDiffer DEF Kinds
  <2>3. text[e] \notin Letter
    BY <1>1, <1>2, <2>1 DEF Is, AtEnd
  <2> QED
    BY <2>1, <2>2, <2>3
<1> QED
  BY <1>3, <1>4 DEF Whole

LEMMA WholeInteger ==
  ASSUME Scanned, Reads(Digit), NEW e, e = RunEnd(pos, Digit), ~Is(e, {"."})
  PROVE  Whole(pos, e)
<1>1. /\ pos \in Nat \ {0} /\ Len(text) \in Nat /\ text[pos] \in Digit
      /\ pos \in 1 .. Len(text) + 1 /\ text \in Texts
  BY ReadsHere DEF Scanned
<1>2. /\ e \in pos + 1 .. Len(text) + 1 /\ ~Is(e, Digit)
      /\ \A k \in pos .. e - 1 : Is(k, Digit)
  BY <1>1, RunFound, RunPast
<1>3. LexemeAt(text, pos, e)
  BY <1>2 DEF LexemeAt, NumberAt, Is
<1>4. ASSUME NEW l \in e + 1 .. Len(text) + 1, LexemeAt(text, pos, l)
      PROVE  FALSE
  <2>1. /\ l \in Nat /\ pos < l /\ e \in pos .. l - 1 /\ e <= Len(text)
        /\ e \in Nat /\ e <= l - 1 /\ pos < e
    BY <1>1, <1>2
  <2>2. NumberAt(text, pos, l)
    BY <1>1, <1>4, <2>1, FirstTells, KindsDiffer DEF Kinds
  <2>3. text[e] \notin Digit /\ text[e] # "."
    BY <1>1, <1>2, <2>1 DEF Is, AtEnd
  <2>4. PICK d \in pos + 1 .. l - 2 :
           /\ text[d] = "."
           /\ \A k \in pos .. d - 1 : text[k] \in Digit
    BY <2>1, <2>2, <2>3 DEF NumberAt
  <2>5. d <= e
    <3>1. e \notin pos .. d - 1
      BY <2>3, <2>4
    <3> QED
      BY <1>1, <2>1, <3>1
  <2>6. ~(d < e)
    <3> SUFFICES ASSUME d < e PROVE FALSE
      OBVIOUS
    <3>1. d \in pos .. e - 1
      BY <1>1, <2>1
    <3>2. text[d] \in Digit
      BY <1>2, <3>1 DEF Is
    <3> QED
      BY <2>4, <3>2, KindsDiffer DEF Kinds, Single
  <2>7. d = e
    BY <1>1, <2>1, <2>5, <2>6
  <2> QED
    BY <2>3, <2>4, <2>7
<1> QED
  BY <1>3, <1>4 DEF Whole

LEMMA WholeFloat ==
  ASSUME Scanned, Reads(Digit), NEW e, e = RunEnd(pos, Digit), Is(e, {"."}),
         Is(e + 1, Digit), NEW g, g = RunEnd(e + 1, Digit)
  PROVE  Whole(pos, g)
<1>1. /\ pos \in Nat \ {0} /\ Len(text) \in Nat /\ text[pos] \in Digit
      /\ pos \in 1 .. Len(text) + 1 /\ text \in Texts
  BY ReadsHere DEF Scanned
<1>2. /\ e \in pos + 1 .. Len(text) + 1 /\ ~Is(e, Digit)
      /\ \A k \in pos .. e - 1 : Is(k, Digit)
  BY <1>1, RunFound, RunPast
<1>3. /\ text[e] = "." /\ e <= Len(text) /\ e + 1 <= Len(text) /\ e \in Nat
      /\ pos < e /\ e + 1 \in 1 .. Len(text) + 1
  BY <1>1, <1>2 DEF Is, AtEnd
<1>4. /\ g \in e + 1 .. Len(text) + 1 /\ ~Is(g, Digit)
      /\ \A k \in e + 1 .. g - 1 : Is(k, Digit)
  BY <1>1, <1>3, RunFound
<1>5. g >= e + 2 /\ g \in Nat
  <2>1. g # e + 1
    BY <1>4
  <2> QED
    BY <1>3, <1>4, <2>1
<1>6. LexemeAt(text, pos, g)
  <2>1. /\ e \in pos + 1 .. g - 2
        /\ \A k \in pos .. e - 1 : text[k] \in Digit
        /\ \A k \in e + 1 .. g - 1 : text[k] \in Digit
    BY <1>1, <1>2, <1>3, <1>4, <1>5 DEF Is
  <2> QED
    BY <1>3, <2>1 DEF LexemeAt, NumberAt
<1>7. ASSUME NEW l \in g + 1 .. Len(text) + 1, LexemeAt(text, pos, l)
      PROVE  FALSE
  <2>1. /\ l \in Nat /\ pos < l /\ e \in pos .. l - 1 /\ g <= Len(text)
        /\ g <= l - 1 /\ g \in e + 1 .. l - 1
    BY <1>1, <1>3, <1>4, <1>5
  <2>2. NumberAt(text, pos, l)
    BY <1>1, <1>7, <2>1, FirstTells, KindsDiffer DEF Kinds
  <2>3. text[e] \notin Digit /\ text[g] \notin Digit
    BY <1>1, <1>2, <1>3, <1>4, <2>1 DEF Is, AtEnd
  <2>4. PICK d \in pos + 1 .. l - 2 :
           /\ text[d] = "."
           /\ \A k \in pos .. d - 1 : text[k] \in Digit
           /\ \A k \in d + 1 .. l - 1 : text[k] \in Digit
    BY <2>1, <2>2, <2>3 DEF NumberAt
  <2>5. d <= e
    <3>1. e \notin pos .. d - 1
      BY <2>3, <2>4
    <3> QED
      BY <1>1, <1>3, <2>1, <3>1
  <2>6. g \in d + 1 .. l - 1
    BY <1>1, <1>3, <1>5, <2>1, <2>5
  <2> QED
    BY <2>3, <2>4, <2>6
<1> QED
  BY <1>6, <1>7 DEF Whole

\* Blanks, and what begins a comment.
Margin == Blank \cup {Newline, "#"}

LEMMA MarginsDiffer ==
  /\ \A c \in Letter \cup Digit \cup Single \cup DOMAIN Pair : c \notin Margin
  /\ \A c \in Quotes : c \notin Margin
  /\ \A c : c \notin Recognised => c \notin Margin
<1>1. \A c \in Single \cup DOMAIN Pair : c \notin Margin
  BY PairFound DEF Margin, Blank, Newline, Single
<1>2. \A c \in Quotes : c \notin Margin
  BY DEF Margin, Blank, Newline, Quotes
<1>3. \A c \in Letter \cup Digit : c \notin Margin
  BY CharactersAssumption DEF Margin, Marks
<1>4. \A c : c \notin Recognised => c \notin Margin
  BY DEF Margin, Recognised, Marks
<1> QED
  BY <1>1, <1>2, <1>3, <1>4

\* What an iteration of next_token returns is a whole lexeme, and what it
\* reports is neither blank nor a comment.
LEMMA LexerCuts ==
  ASSUME Scanned, NextToken
  PROVE  \/ SkipBlank \/ NextLine \/ Comment \/ EndOfText
         \/ /\ \E e \in pos + 1 .. Len(text) + 1 : LexError(e)
            /\ text[pos] \notin Margin
         \/ \E type, e : Emit(type, e) /\ Whole(pos, e)
<1>1. CASE OneCharacter
  BY <1>1, WholeCharacter DEF OneCharacter
<1>2. CASE TwoCharacters
  BY <1>2, WholePair DEF TwoCharacters
<1>3. CASE FirstOnly
  <2>1. CASE text[pos] \in {"&", "|"}
    <3>1. LexError(pos + 1) /\ Reads(DOMAIN Pair)
      BY <1>3, <2>1 DEF FirstOnly
    <3> QED
      BY <3>1, ReadsHere, MarginsDiffer
  <2>2. CASE text[pos] \notin {"&", "|"}
    BY <1>3, <2>2, WholeFirst DEF FirstOnly
  <2> QED
    BY <2>1, <2>2
<1>4. CASE StringLiteral
  <2>1. PICK q : IsDouble(q)
    BY DEF IsDouble
  <2>2. PICK e : e = RunEnd(pos + 1, Other({q}))
    OBVIOUS
  <2>3. Reads({q}) /\ q \in Quotes
    BY <1>4, <2>1 DEF StringLiteral, IsDouble, Quotes
  <2>4. IF AtEnd(e) THEN LexError(e) ELSE Emit("lit str", e + 1)
    BY <1>4, <2>1, <2>2 DEF StringLiteral, IsDouble
  <2>5. CASE AtEnd(e)
    <3>1. e \in pos + 1 .. Len(text) + 1
      BY <2>2, <2>3, ReadsHere, RunFound DEF Scanned
    <3>2. text[pos] \notin Margin
      BY <2>3, ReadsHere, MarginsDiffer
    <3> QED
      BY <2>4, <2>5, <3>1, <3>2
  <2>6. CASE ~AtEnd(e)
    <3>1. Whole(pos, e + 1)
      BY <2>1, <2>2, <2>3, <2>6, WholeString
    <3> QED
      BY <2>4, <2>6, <3>1
  <2> QED
    BY <2>5, <2>6
<1>5. CASE CharLiteral
  <2>1. Reads({"'"})
    BY <1>5 DEF CharLiteral
  <2>2. text[pos] \notin Margin
    BY <2>1, ReadsHere, MarginsDiffer DEF Quotes
  <2>3. CharEnd \in pos + 1 .. Len(text) + 1
    BY <2>1, ReadsHere, CharEndFound DEF Scanned
  <2>4. CASE CharEnd = pos + 3 /\ Is(pos + 2, {"'"})
    BY <1>5, <2>1, <2>4, WholeChar DEF CharLiteral
  <2>5. CASE ~(CharEnd = pos + 3 /\ Is(pos + 2, {"'"}))
    BY <1>5, <2>2, <2>3, <2>5 DEF CharLiteral
  <2> QED
    BY <2>4, <2>5
<1>6. CASE Word
  BY <1>6, WholeWord DEF Word
<1>7. CASE Number
  <2>1. PICK e, g : e = RunEnd(pos, Digit) /\ g = RunEnd(e + 1, Digit)
    OBVIOUS
  <2>2. /\ Reads(Digit)
        /\ IF ~Is(e, {"."}) THEN Emit("lit int", e)
           ELSE IF Is(e + 1, Digit) THEN Emit("lit float", g)
           ELSE LexError(e + 1)
    BY <1>7, <2>1 DEF Number
  <2>3. CASE ~Is(e, {"."})
    BY <2>1, <2>2, <2>3, WholeInteger
  <2>4. CASE Is(e, {"."}) /\ Is(e + 1, Digit)
    BY <2>1, <2>2, <2>4, WholeFloat
  <2>5. CASE Is(e, {"."}) /\ ~Is(e + 1, Digit)
    <3>1. text[pos] \notin Margin
      BY <2>2, ReadsHere, MarginsDiffer
    <3>2. e \in pos + 1 .. Len(text) + 1
      BY <2>1, <2>2, RunPast
    <3>3. e + 1 \in pos + 1 .. Len(text) + 1
      <4>1. pos \in Nat /\ Len(text) \in Nat
        BY <2>2, ReadsHere
      <4> QED
        BY <2>5, <3>2, <4>1 DEF Is, AtEnd
    <3> QED
      BY <2>2, <2>5, <3>1, <3>3
  <2> QED
    BY <2>3, <2>4, <2>5
<1>8. CASE Unrecognised
  <2>1. Reads(Other(Recognised)) /\ LexError(pos + 1)
    BY <1>8 DEF Unrecognised
  <2>2. text[pos] \notin Recognised /\ pos + 1 \in pos + 1 .. Len(text) + 1
    BY <2>1, ReadsHere DEF Other
  <2> QED
    BY <2>1, <2>2, MarginsDiffer
<1> QED
  BY <1>1, <1>2, <1>3, <1>4, <1>5, <1>6, <1>7, <1>8 DEF NextToken

-----------------------------------------------------------------------------
(***************************************************************************)
(* What lies between two lexemes.                                          *)
(***************************************************************************)

\* Position i is blank or in a comment that begins at g or behind it.
BlankAt(g, i) ==
  \/ text[i] \in Blank \cup {Newline}
  \/ \E j \in g .. i : text[j] = "#" /\ \A k \in j .. i : text[k] # Newline

\* The positions from g to before h are blank exactly if none was reported.
Clear(g, h) ==
  (\A i \in g .. h - 1 : BlankAt(g, i)) <=> (g .. h - 1) \cap lexErrors = {}

\* No comment from g on goes on at position i.
Closed(g, i) ==
  \A j \in g .. i - 1 :
     text[j] = "#" => \/ \E k \in j .. i - 1 : text[k] = Newline
                      \/ AtEnd(i) \/ text[i] = Newline

\* Where the gap begins that ends before token k.
GapStart(k) == IF k = 1 THEN 1 ELSE tokens[k - 1].to

Separated ==
  /\ \A i \in DOMAIN tokens : Whole(tokens[i].from, tokens[i].to)
  /\ \A i \in DOMAIN tokens : Clear(GapStart(i), tokens[i].from)
  /\ \A x \in lexErrors : x < pos
  /\ LET g == GapStart(Len(tokens) + 1)
     IN  /\ Clear(g, pos)
         /\ (g .. pos - 1) \cap lexErrors = {} => Closed(g, pos)

LEMMA ClearSkip ==
  ASSUME NEW g \in Nat \ {0}, NEW h \in Nat, NEW e \in Nat, g <= h, h <= e,
         \A x \in lexErrors : x < h,
         Clear(g, h), \A i \in h .. e - 1 : BlankAt(g, i)
  PROVE  Clear(g, e)
<1>1. \A i \in g .. e - 1 : i \in g .. h - 1 \/ i \in h .. e - 1
  OBVIOUS
<1>2. g .. h - 1 \subseteq g .. e - 1
  OBVIOUS
<1>3. (g .. e - 1) \cap lexErrors = (g .. h - 1) \cap lexErrors
  <2>1. \A x \in g .. e - 1 : x < h => x \in g .. h - 1
    OBVIOUS
  <2> QED
    BY <1>2, <2>1
<1> QED
  BY <1>1, <1>2, <1>3 DEF Clear

LEMMA ClearError ==
  ASSUME NEW g \in Nat \ {0}, NEW h \in Nat, NEW e \in Nat, g <= h, h < e,
         \A x \in lexErrors : x < h, ~AtEnd(h), text[h] \notin Margin,
         Clear(g, h), (g .. h - 1) \cap lexErrors = {} => Closed(g, h),
         text' = text, lexErrors' = lexErrors \cup {h}
  PROVE  Clear(g, e)'
<1>1. h \in (g .. e - 1) \cap lexErrors'
  OBVIOUS
<1>2. \E i \in g .. e - 1 : ~BlankAt(g, i)
  <2>1. CASE (g .. h - 1) \cap lexErrors = {}
    <3>1. text[h] \notin Blank \cup {Newline} /\ text[h] # "#"
          /\ text[h] # Newline
      BY DEF Margin
    <3>2. Closed(g, h)
      BY <2>1
    <3>3. ASSUME NEW j \in g .. h, text[j] = "#",
                 \A k \in j .. h : text[k] # Newline
          PROVE  FALSE
      <4>1. j # h
        BY <3>1, <3>3
      <4>2. j \in g .. h - 1
        BY <4>1
      <4>3. PICK k \in j .. h - 1 : text[k] = Newline
        BY <3>1, <3>2, <3>3, <4>2 DEF Closed
      <4>4. k \in j .. h
        OBVIOUS
      <4> QED
        BY <3>3, <4>3, <4>4
    <3>4. ~BlankAt(g, h)
      BY <3>1, <3>3 DEF BlankAt
    <3> QED
      BY <3>4
  <2>2. CASE (g .. h - 1) \cap lexErrors # {}
    <3>1. PICK i \in g .. h - 1 : ~BlankAt(g, i)
      BY <2>2 DEF Clear
    <3>2. i \in g .. e - 1
      OBVIOUS
    <3> QED
      BY <3>1, <3>2
  <2> QED
    BY <2>1, <2>2
<1>3. \A i \in g .. e - 1 : BlankAt(g, i)' <=> BlankAt(g, i)
  BY DEF BlankAt
<1> QED
  BY <1>1, <1>2, <1>3 DEF Clear

\* What lies before an error is as clear as it was.
LEMMA ClearBefore ==
  ASSUME NEW g \in Int, NEW h \in Int, NEW x \in Int, h <= x, text' = text,
         lexErrors' = lexErrors \/ lexErrors' = lexErrors \cup {x},
         Clear(g, h)
  PROVE  Clear(g, h)'
<1>1. (g .. h - 1) \cap lexErrors' = (g .. h - 1) \cap lexErrors
  OBVIOUS
<1>2. \A i : BlankAt(g, i)' <=> BlankAt(g, i)
  BY DEF BlankAt
<1> QED
  BY <1>1, <1>2 DEF Clear

LEMMA GapStarts ==
  ASSUME Scanned
  PROVE  /\ GapStart(Len(tokens) + 1) \in Nat \ {0}
         /\ GapStart(Len(tokens) + 1) <= pos
         /\ \A i \in DOMAIN tokens :
              GapStart(i) \in Nat /\ GapStart(i) <= tokens[i].from
         /\ pos \in Nat \ {0} /\ Len(text) \in Nat /\ Len(tokens) \in Nat
         /\ DOMAIN tokens = 1 .. Len(tokens)
<1>1. /\ pos \in Nat \ {0} /\ Len(text) \in Nat /\ Len(tokens) \in Nat
      /\ DOMAIN tokens = 1 .. Len(tokens)
  BY TextIsSequence DEF Scanned, Sorted
<1>2. \A i \in 1 .. Len(tokens) :
         /\ tokens[i].from \in Nat /\ tokens[i].to \in Nat
         /\ 1 <= tokens[i].from /\ tokens[i].from < tokens[i].to
         /\ tokens[i].to <= pos
         /\ \A j \in 1 .. i - 1 : tokens[j].to <= tokens[i].from
  BY <1>1, TokenFields DEF Scanned, Sorted
<1>3. /\ GapStart(Len(tokens) + 1) \in Nat \ {0}
      /\ GapStart(Len(tokens) + 1) <= pos
  <2>1. CASE Len(tokens) = 0
    BY <1>1, <2>1 DEF GapStart
  <2>2. CASE Len(tokens) # 0
    <3>1. Len(tokens) \in 1 .. Len(tokens)
          /\ (Len(tokens) + 1) - 1 = Len(tokens) /\ Len(tokens) + 1 # 1
      BY <1>1, <2>2
    <3>2. GapStart(Len(tokens) + 1) = tokens[Len(tokens)].to
      BY <3>1 DEF GapStart
    <3> QED
      BY <1>2, <3>1, <3>2
  <2> QED
    BY <2>1, <2>2
<1>4. ASSUME NEW i \in 1 .. Len(tokens)
      PROVE  GapStart(i) \in Nat /\ GapStart(i) <= tokens[i].from
  <2>1. CASE i = 1
    BY <1>2, <2>1 DEF GapStart
  <2>2. CASE i # 1
    <3>1. i - 1 \in 1 .. Len(tokens) /\ i - 1 \in 1 .. i - 1
      BY <1>1, <2>2
    <3> QED
      BY <1>2, <2>2, <3>1 DEF GapStart
  <2> QED
    BY <2>1, <2>2
<1> QED
  BY <1>1, <1>3, <1>4

\* A blank, a newline or a comment.
LEMMA SeparatedSkip ==
  ASSUME Scanned, Separated, text' = text, tokens' = tokens,
         lexErrors' = lexErrors, NEW e \in Nat, pos < e, pos' = e,
         \A g \in 1 .. pos : \A i \in pos .. e - 1 : BlankAt(g, i),
         \A g \in 1 .. pos : Closed(g, pos) => Closed(g, e)
  PROVE  Separated'
<1>1. PICK g : g = GapStart(Len(tokens) + 1)
  OBVIOUS
<1>2. /\ g \in Nat \ {0} /\ g <= pos /\ pos \in Nat /\ g \in 1 .. pos
  BY <1>1, GapStarts
<1>3. /\ Clear(g, pos) /\ \A x \in lexErrors : x < pos
      /\ (g .. pos - 1) \cap lexErrors = {} => Closed(g, pos)
  BY <1>1 DEF Separated
<1>4. Clear(g, e)
  BY <1>2, <1>3, ClearSkip
<1>5. (g .. e - 1) \cap lexErrors = {} => Closed(g, e)
  <2>1. g .. pos - 1 \subseteq g .. e - 1
    BY <1>2
  <2> QED
    BY <1>2, <1>3, <2>1
<1>6. /\ \A a, b : Clear(a, b)' <=> Clear(a, b)
      /\ \A a, b : Whole(a, b)' <=> Whole(a, b)
      /\ \A a, b : Closed(a, b)' <=> Closed(a, b)
      /\ \A k : GapStart(k)' = GapStart(k)
  <2>1. \A a, b : BlankAt(a, b)' <=> BlankAt(a, b)
    BY DEF BlankAt
  <2>2. \A a, b : LexemeAt(text, a, b)' <=> LexemeAt(text, a, b)
    BY DEF LexemeAt, NumberAt, QuotedAt, SymbolAt
  <2> QED
    BY <2>1, <2>2 DEF Clear, Whole, Closed, AtEnd, GapStart
<1>7. \A x \in lexErrors' : x < pos'
  <2>1. \A x \in lexErrors : x \in Int
    BY GapStarts DEF Scanned
  <2> QED
    BY <1>2, <1>3, <2>1
<1>8. GapStart(Len(tokens) + 1)' = g
  BY <1>1, <1>6
<1>9. /\ Clear(g, pos)'
      /\ (g .. pos - 1)' \cap lexErrors' = {} => Closed(g, pos)'
  BY <1>4, <1>5, <1>6
<1> QED
  BY <1>6, <1>7, <1>8, <1>9 DEF Separated

LEMMA SeparatedError ==
  ASSUME Scanned, Separated, NEW e \in pos + 1 .. Len(text) + 1, LexError(e),
         text[pos] \notin Margin
  PROVE  Separated'
<1>1. /\ text' = text /\ tokens' = tokens /\ pos' = e
      /\ lexErrors' = lexErrors \cup {pos}
  BY DEF LexError, AdvanceTo, window
<1>2. PICK g : g = GapStart(Len(tokens) + 1)
  OBVIOUS
<1>3. /\ g \in Nat \ {0} /\ g <= pos /\ pos \in Nat /\ e \in Nat /\ pos < e
      /\ ~AtEnd(pos) /\ DOMAIN tokens = 1 .. Len(tokens)
  BY <1>2, GapStarts DEF AtEnd
<1>4. /\ Clear(g, pos) /\ \A x \in lexErrors : x < pos
      /\ (g .. pos - 1) \cap lexErrors = {} => Closed(g, pos)
  BY <1>2 DEF Separated
<1>5. Clear(g, e)'
  BY <1>1, <1>3, <1>4, ClearError
<1>6. (g .. e - 1) \cap lexErrors' # {}
  <2>1. pos \in g .. e - 1
    BY <1>3
  <2> QED
    BY <1>1, <2>1
<1>7. \A k : GapStart(k)' = GapStart(k)
  BY <1>1 DEF GapStart
<1>8. ASSUME NEW i \in DOMAIN tokens'
      PROVE  /\ Whole(tokens[i].from, tokens[i].to)'
             /\ Clear(GapStart(i), tokens[i].from)'
  <2>1. i \in DOMAIN tokens
    BY <1>1
  <2>2. PICK a, b, h : a = tokens[i].from /\ b = tokens[i].to
                       /\ h = GapStart(i)
    OBVIOUS
  <2>3. Whole(a, b) /\ Clear(h, a)
    BY <2>1, <2>2 DEF Separated
  <2>4. a \in Nat /\ h \in Nat /\ a <= pos
    BY <2>1, <2>2, GapStarts, TokenFields DEF Scanned, Sorted
  <2>5. Clear(h, a)'
    BY <1>1, <1>3, <2>3, <2>4, ClearBefore
  <2>6. Whole(a, b)'
    BY <1>1, <2>3 DEF Whole, LexemeAt, NumberAt, QuotedAt, SymbolAt
  <2>7. tokens'[i].from = a /\ tokens'[i].to = b /\ GapStart(i)' = h
    BY <1>1, <1>7, <2>2
  <2> QED
    BY <2>5, <2>6, <2>7
<1>9. \A x \in lexErrors' : x < pos'
  <2>1. \A x \in lexErrors : x \in Int
    BY GapStarts DEF Scanned
  <2> QED
    BY <1>1, <1>3, <1>4, <2>1
<1>10. GapStart(Len(tokens) + 1)' = g
  BY <1>1, <1>2, <1>7
<1>11. /\ Clear(g, pos)'
       /\ (g .. pos - 1)' \cap lexErrors' # {}
  BY <1>1, <1>5, <1>6
<1> QED
  BY <1>8, <1>9, <1>10, <1>11 DEF Separated

LEMMA SeparatedEmit ==
  ASSUME Scanned, Scanned', Separated, NEW type, NEW e, Emit(type, e),
         Whole(pos, e)
  PROVE  Separated'
<1>1. PICK t : t = Token(type, e)
  OBVIOUS
<1>2. /\ text' = text /\ pos' = e /\ tokens' = Append(tokens, t)
      /\ lexErrors' = lexErrors
  BY <1>1 DEF Emit, Deliver, AdvanceTo
<1>3. t.from = pos /\ t.to = e
  BY <1>1 DEF Token
<1>4. PICK n : n = Len(tokens)
  OBVIOUS
<1>5. /\ n \in Nat /\ DOMAIN tokens = 1 .. n /\ pos \in Nat /\ e \in Nat
      /\ tokens \in Seq(Tokens)
  BY <1>2, <1>4, GapStarts DEF Scanned, Sorted
<1>6. /\ Len(tokens') = n + 1 /\ DOMAIN tokens' = 1 .. n + 1
      /\ tokens'[n + 1] = t /\ \A i \in 1 .. n : tokens'[i] = tokens[i]
  BY <1>2, <1>4, <1>5
<1>7. pos < e
  <2>1. tokens'[n + 1].from < tokens'[n + 1].to
    BY <1>5, <1>6 DEF Scanned, Sorted
  <2> QED
    BY <1>3, <1>6, <2>1
<1>8. \A k \in 1 .. n + 1 : GapStart(k)' = GapStart(k)
  <2>1. \A k \in 1 .. n + 1 : k # 1 => k - 1 \in 1 .. n
    BY <1>5
  <2> QED
    BY <1>6, <2>1 DEF GapStart
<1>9. GapStart(n + 2)' = e
  <2>1. n + 2 # 1 /\ (n + 2) - 1 = n + 1
    BY <1>5
  <2> QED
    BY <1>3, <1>6, <2>1 DEF GapStart
<1>10. /\ \A a, b : Clear(a, b)' <=> Clear(a, b)
       /\ \A a, b : Whole(a, b)' <=> Whole(a, b)
  <2>1. \A a, b : BlankAt(a, b)' <=> BlankAt(a, b)
    BY <1>2 DEF BlankAt
  <2>2. \A a, b : LexemeAt(text, a, b)' <=> LexemeAt(text, a, b)
    BY <1>2 DEF LexemeAt, NumberAt, QuotedAt, SymbolAt
  <2> QED
    BY <1>2, <2>1, <2>2 DEF Clear, Whole
<1>11. ASSUME NEW i \in DOMAIN tokens'
       PROVE  /\ Whole(tokens[i].from, tokens[i].to)'
              /\ Clear(GapStart(i), tokens[i].from)'
  <2>1. CASE i = n + 1
    <3>1. tokens'[i].from = pos /\ tokens'[i].to = e
          /\ GapStart(i)' = GapStart(n + 1)
      BY <1>3, <1>5, <1>6, <1>8, <2>1
    <3>2. Clear(GapStart(n + 1), pos)
      BY <1>4 DEF Separated
    <3> QED
      BY <1>10, <3>1, <3>2
  <2>2. CASE i \in 1 .. n
    <3>1. tokens'[i] = tokens[i] /\ GapStart(i)' = GapStart(i)
      BY <1>5, <1>6, <1>8, <2>2
    <3>2. Whole(tokens[i].from, tokens[i].to)
          /\ Clear(GapStart(i), tokens[i].from)
      BY <1>5, <2>2 DEF Separated
    <3> QED
      BY <1>10, <3>1, <3>2
  <2> QED
    BY <1>5, <1>6, <2>1, <2>2
<1>12. \A x \in lexErrors' : x < pos'
  <2>1. \A x \in lexErrors : x \in Int /\ x < pos
    BY GapStarts DEF Scanned, Separated
  <2> QED
    BY <1>2, <1>5, <1>7, <2>1
<1>13. GapStart(Len(tokens) + 1)' = e
  <2>1. (n + 1) + 1 = n + 2
    BY <1>5
  <2> QED
    BY <1>6, <1>9, <2>1
<1>14. Clear(e, e) /\ Closed(e, e)
  <2>1. e .. e - 1 = {}
    BY <1>5
  <2> QED
    BY <2>1 DEF Clear, Closed
<1>15. Clear(e, pos)' /\ Closed(e, pos)'
  <2>1. Clear(e, e)'
    BY <1>10, <1>14
  <2>2. Closed(e, e)'
    BY <1>2, <1>14 DEF Closed, AtEnd
  <2> QED
    BY <1>2, <2>1, <2>2
<1> QED
  BY <1>11, <1>12, <1>13, <1>15 DEF Separated

LEMMA SeparatedStep ==
  ASSUME Scanned, Separated, NextToken
  PROVE  Separated'
<1>1. text' = text /\ Scanned'
  BY LexerReads, LexerStep
<1>2. pos \in Nat \ {0} /\ Len(text) \in Nat
  BY GapStarts
<1>3. CASE SkipBlank
  <2>1. /\ tokens' = tokens /\ lexErrors' = lexErrors /\ pos' = pos + 1
        /\ Reads(Blank)
    BY <1>3 DEF SkipBlank, Skip, AdvanceTo, window
  <2>2. text[pos] \in Blank
    BY <2>1, ReadsHere
  <2>3. text[pos] # Newline /\ text[pos] # "#" /\ ~AtEnd(pos)
    BY <2>1, <2>2 DEF Blank, Newline, Reads, Is
  <2>4. \A i \in pos .. (pos + 1) - 1 : i = pos
    BY <1>2
  <2>5. \A g \in 1 .. pos : \A i \in pos .. (pos + 1) - 1 : BlankAt(g, i)
    BY <2>2, <2>4 DEF BlankAt
  <2>6. ASSUME NEW g \in 1 .. pos, Closed(g, pos)
        PROVE  Closed(g, pos + 1)
    <3>1. ASSUME NEW j \in g .. (pos + 1) - 1, text[j] = "#"
          PROVE  \E k \in j .. (pos + 1) - 1 : text[k] = Newline
      <4>1. j \in g .. pos - 1
        BY <1>2, <2>3, <3>1
      <4>2. PICK k \in j .. pos - 1 : text[k] = Newline
        BY <2>3, <2>6, <3>1, <4>1 DEF Closed
      <4>3. k \in j .. (pos + 1) - 1
        BY <1>2, <4>1
      <4> QED
        BY <4>2, <4>3
    <3> QED
      BY <3>1 DEF Closed
  <2> QED
    BY <1>1, <1>2, <2>1, <2>5, <2>6, SeparatedSkip
<1>4. CASE NextLine
  <2>1. /\ tokens' = tokens /\ lexErrors' = lexErrors /\ pos' = pos + 1
        /\ Reads({Newline})
    BY <1>4 DEF NextLine, window
  <2>2. text[pos] = Newline
    BY <2>1, ReadsHere
  <2>3. text[pos] # "#"
    BY <2>2 DEF Newline
  <2>4. \A i \in pos .. (pos + 1) - 1 : i = pos
    BY <1>2
  <2>5. \A g \in 1 .. pos : \A i \in pos .. (pos + 1) - 1 : BlankAt(g, i)
    BY <2>2, <2>4 DEF BlankAt
  <2>6. ASSUME NEW g \in 1 .. pos
        PROVE  Closed(g, pos + 1)
    <3>1. \A j \in g .. (pos + 1) - 1 : pos \in j .. (pos + 1) - 1
      BY <1>2
    <3> QED
      BY <2>2, <3>1 DEF Closed
  <2> QED
    BY <1>1, <1>2, <2>1, <2>5, <2>6, SeparatedSkip
<1>5. CASE Comment
  <2>1. PICK class, e : class = Other({Newline}) /\ e = RunEnd(pos, class)
    OBVIOUS
  <2>2. /\ tokens' = tokens /\ lexErrors' = lexErrors /\ pos' = e
        /\ Reads({"#"})
    BY <1>5, <2>1 DEF Comment, Skip, AdvanceTo, window
  <2>3. text[pos] = "#" /\ pos \in DOMAIN text /\ pos \in 1 .. Len(text) + 1
    BY <2>2, ReadsHere, TextIsSequence DEF Scanned
  <2>4. Reads(class)
    BY <2>1, <2>2, <2>3 DEF Other, Newline, Reads, Is
  <2>5. /\ e \in pos + 1 .. Len(text) + 1 /\ ~Is(e, class)
        /\ \A k \in pos .. e - 1 : Is(k, class)
    BY <2>1, <2>3, <2>4, RunPast, RunFound DEF Scanned
  <2>6. e \in Nat /\ pos < e
    BY <1>2, <2>5
  <2>7. \A k \in pos .. e - 1 : text[k] # Newline
    BY <2>1, <2>5 DEF Is, Other
  <2>8. AtEnd(e) \/ text[e] = Newline
    <3> SUFFICES ASSUME ~AtEnd(e) PROVE text[e] = Newline
      OBVIOUS
    <3>1. e \in DOMAIN text
      BY <1>2, <2>5, <2>6, TextIsSequence DEF AtEnd, Scanned
    <3> QED
      BY <2>1, <2>5, <3>1 DEF Is, Other
  <2>9. ASSUME NEW g \in 1 .. pos, NEW i \in pos .. e - 1
        PROVE  BlankAt(g, i)
    <3>1. pos \in g .. i
      BY <1>2
    <3>2. \A k \in pos .. i : text[k] # Newline
      BY <1>2, <2>6, <2>7
    <3> QED
      BY <2>3, <3>1, <3>2 DEF BlankAt
  <2>10. \A g \in 1 .. pos : Closed(g, e)
    BY <2>8 DEF Closed
  <2> QED
    BY <1>1, <2>2, <2>6, <2>9, <2>10, SeparatedSkip
<1>6. CASE EndOfText
  <2>1. /\ tokens' = tokens /\ lexErrors' = lexErrors /\ pos' = pos
    BY <1>6 DEF EndOfText, Deliver, place
  <2>2. /\ \A a, b : Clear(a, b)' <=> Clear(a, b)
        /\ \A a, b : Whole(a, b)' <=> Whole(a, b)
        /\ \A a, b : Closed(a, b)' <=> Closed(a, b)
        /\ \A k : GapStart(k)' = GapStart(k)
    <3>1. \A a, b : BlankAt(a, b)' <=> BlankAt(a, b)
      BY <1>1 DEF BlankAt
    <3>2. \A a, b : LexemeAt(text, a, b)' <=> LexemeAt(text, a, b)
      BY <1>1 DEF LexemeAt, NumberAt, QuotedAt, SymbolAt
    <3> QED
      BY <1>1, <2>1, <3>1, <3>2 DEF Clear, Whole, Closed, AtEnd, GapStart
  <2> QED
    BY <2>1, <2>2 DEF Separated
<1> QED
  BY <1>1, <1>3, <1>4, <1>5, <1>6, LexerCuts, SeparatedError, SeparatedEmit

LEMMA SeparatedInit ==
  ASSUME Init
  PROVE  Separated
<1>1. pos = 1 /\ tokens = <<>> /\ lexErrors = {} /\ Len(tokens) = 0
  BY DEF Init, LexerInit
<1>2. GapStart(Len(tokens) + 1) = 1
  BY <1>1 DEF GapStart
<1>3. Clear(1, 1) /\ Closed(1, 1)
  <2>1. 1 .. 1 - 1 = {}
    OBVIOUS
  <2> QED
    BY <2>1 DEF Clear, Closed
<1> QED
  BY <1>1, <1>2, <1>3 DEF Separated

LEMMA SeparatedNext ==
  ASSUME Scanned, Separated, [Next]_vars
  PROVE  Separated'
<1>1. CASE NextToken
  BY <1>1, SeparatedStep
<1>2. CASE ParseStep \/ UNCHANGED vars
  <2>1. /\ text' = text /\ pos' = pos /\ tokens' = tokens
        /\ lexErrors' = lexErrors
    BY <1>2, ParserWaits DEF vars, lexerVars, place, window
  <2>2. /\ \A a, b : Clear(a, b)' <=> Clear(a, b)
        /\ \A a, b : Whole(a, b)' <=> Whole(a, b)
        /\ \A a, b : Closed(a, b)' <=> Closed(a, b)
        /\ \A k : GapStart(k)' = GapStart(k)
    <3>1. \A a, b : BlankAt(a, b)' <=> BlankAt(a, b)
      BY <2>1 DEF BlankAt
    <3>2. \A a, b : LexemeAt(text, a, b)' <=> LexemeAt(text, a, b)
      BY <2>1 DEF LexemeAt, NumberAt, QuotedAt, SymbolAt
    <3> QED
      BY <2>1, <3>1, <3>2 DEF Clear, Whole, Closed, AtEnd, GapStart
  <2> QED
    BY <2>1, <2>2 DEF Separated
<1> QED
  BY <1>1, <1>2 DEF Next

\* A part of the text is blank by its positions.
LEMMA BlankIs ==
  ASSUME text \in Texts, NEW a \in Nat \ {0}, NEW b \in Nat, a < b,
         b <= Len(text) + 1
  PROVE  IsBlank(SubSeq(text, a, b - 1)) <=>
         \A i \in a .. b - 1 : BlankAt(a, i)
<1>1. PICK s, l : s = SubSeq(text, a, l) /\ l = b - 1
  OBVIOUS
<1>2. /\ text \in Seq(Range(text)) /\ Len(text) \in Nat
      /\ l \in a - 1 .. Len(text) /\ l \in Nat
  BY <1>1, TextIsSequence
<1>3. IsPart(s, text, a, l)
  BY <1>1, <1>2, PartFound
<1>4. /\ DOMAIN s = 1 .. l + 1 - a
      /\ \A i \in 1 .. l + 1 - a : s[i] = text[a + i - 1]
      /\ \A k \in a .. l : text[k] = s[k + 1 - a]
  BY <1>2, <1>3 DEF IsPart
<1>5. ASSUME NEW j \in 1 .. l + 1 - a
      PROVE  a + j - 1 \in a .. l /\ (a + j - 1) + 1 - a = j
  BY <1>2
<1>6. ASSUME NEW k \in a .. l
      PROVE  k + 1 - a \in 1 .. l + 1 - a /\ a + (k + 1 - a) - 1 = k
  BY <1>2
<1>7. ASSUME NEW i \in a .. l, NEW j \in a .. i
      PROVE  Newline \notin { s[k] : k \in j + 1 - a .. i + 1 - a } <=>
             \A k \in j .. i : text[k] # Newline
  <2>1. ASSUME NEW k \in j .. i
        PROVE  k + 1 - a \in j + 1 - a .. i + 1 - a /\ text[k] = s[k + 1 - a]
    BY <1>2, <1>4
  <2>2. ASSUME NEW k \in j + 1 - a .. i + 1 - a
        PROVE  a + k - 1 \in j .. i /\ s[k] = text[a + k - 1]
    BY <1>2, <1>4
  <2> QED
    BY <2>1, <2>2
<1>8. ASSUME NEW i \in a .. l
      PROVE  BlankAt(a, i) <=>
               \/ s[i + 1 - a] \in Blank \cup {Newline}
               \/ \E j \in 1 .. i + 1 - a :
                    /\ s[j] = "#"
                    /\ Newline \notin { s[k] : k \in j .. i + 1 - a }
  <2>1. ASSUME NEW j \in a .. i
        PROVE  /\ j + 1 - a \in 1 .. i + 1 - a /\ s[j + 1 - a] = text[j]
    BY <1>2, <1>4
  <2>2. ASSUME NEW j \in 1 .. i + 1 - a
        PROVE  a + j - 1 \in a .. i /\ (a + j - 1) + 1 - a = j
    BY <1>2
  <2>3. (\E j \in a .. i :
            text[j] = "#" /\ \A k \in j .. i : text[k] # Newline) =>
        \E j \in 1 .. i + 1 - a :
           /\ s[j] = "#"
           /\ Newline \notin { s[k] : k \in j .. i + 1 - a }
    BY <1>7, <2>1
  <2>4. (\E j \in 1 .. i + 1 - a :
           /\ s[j] = "#"
           /\ Newline \notin { s[k] : k \in j .. i + 1 - a }) =>
        \E j \in a .. i :
           text[j] = "#" /\ \A k \in j .. i : text[k] # Newline
    <3> SUFFICES ASSUME NEW j \in 1 .. i + 1 - a, s[j] = "#",
                        Newline \notin { s[k] : k \in j .. i + 1 - a }
                 PROVE  \E m \in a .. i :
                           /\ text[m] = "#"
                           /\ \A k \in m .. i : text[k] # Newline
      OBVIOUS
    <3>1. PICK m : m = a + j - 1
      OBVIOUS
    <3>2. m \in a .. i /\ m + 1 - a = j
      BY <2>2, <3>1
    <3> QED
      BY <1>7, <2>1, <3>2
  <2>5. s[i + 1 - a] = text[i]
    BY <1>4
  <2> QED
    BY <2>3, <2>4, <2>5 DEF BlankAt
<1>9. IsBlank(s) <=> \A i \in a .. l : BlankAt(a, i)
  <2>1. IsBlank(s) => \A i \in a .. l : BlankAt(a, i)
    BY <1>4, <1>6, <1>8 DEF IsBlank
  <2>2. (\A i \in a .. l : BlankAt(a, i)) => IsBlank(s)
    <3> SUFFICES ASSUME \A i \in a .. l : BlankAt(a, i), NEW n \in DOMAIN s
                 PROVE  \/ s[n] \in Blank \cup {Newline}
                        \/ \E j \in 1 .. n :
                             /\ s[j] = "#"
                             /\ Newline \notin { s[k] : k \in j .. n }
      BY DEF IsBlank
    <3>1. PICK i : i = a + n - 1
      OBVIOUS
    <3>2. i \in a .. l /\ i + 1 - a = n
      BY <1>4, <1>5, <3>1
    <3> QED
      BY <1>8, <3>2
  <2> QED
    BY <2>1, <2>2
<1> QED
  BY <1>1, <1>9

LEMMA GapTextIs ==
  ASSUME text \in Texts, NEW a \in Nat \ {0}, NEW b \in Nat, a <= b,
         b <= Len(text) + 1, NEW k, Gap(k) = a .. b - 1
  PROVE  IsBlank(GapText(k)) <=> \A i \in a .. b - 1 : BlankAt(a, i)
<1>1. CASE a = b
  <2>1. Gap(k) = {}
    BY <1>1
  <2>2. GapText(k) = <<>>
    BY <2>1 DEF GapText
  <2>3. IsBlank(<<>>)
    BY DEF IsBlank
  <2> QED
    BY <2>1, <2>2, <2>3
<1>2. CASE a < b
  <2>1. a \in Gap(k) /\ b - 1 \in Gap(k)
    BY <1>2
  <2>2. Min(Gap(k)) = a
    <3>1. \A x \in Gap(k) : (\A y \in Gap(k) : x <= y) => x = a
      BY <2>1
    <3>2. \A y \in Gap(k) : a <= y
      OBVIOUS
    <3> QED
      BY <2>1, <3>1, <3>2 DEF Min
  <2>3. Max(Gap(k)) = b - 1
    <3>1. \A x \in Gap(k) : (\A y \in Gap(k) : x >= y) => x = b - 1
      BY <2>1
    <3>2. \A y \in Gap(k) : b - 1 >= y
      OBVIOUS
    <3> QED
      BY <2>1, <3>1, <3>2 DEF Max
  <2>4. GapText(k) = SubSeq(text, a, b - 1)
    BY <2>1, <2>2, <2>3 DEF GapText
  <2> QED
    BY <1>2, <2>4, BlankIs
<1> QED
  BY <1>1, <1>2

LEMMA SeparatedLexemes ==
  ASSUME Scanned, Separated
  PROVE  LongestLexemes
<1>1. /\ text \in Texts /\ Len(text) \in Nat
      /\ pos \in Nat \ {0} /\ pos <= Len(text) + 1
      /\ Len(tokens) \in Nat /\ DOMAIN tokens = 1 .. Len(tokens)
  BY GapStarts DEF Scanned
<1>2. ASSUME NEW t \in Range(tokens)
      PROVE  /\ Lexeme(SubSeq(text, t.from, t.to - 1))
             /\ \A e \in t.to .. Len(text) :
                  ~Lexeme(SubSeq(text, t.from, e))
  <2>1. PICK i \in DOMAIN tokens : t = tokens[i]
    BY DEF Range
  <2>2. PICK f, e : f = t.from /\ e = t.to
    OBVIOUS
  <2>3. Whole(f, e)
    BY <2>1, <2>2 DEF Separated
  <2>4. /\ f \in Nat /\ e \in Nat /\ 1 <= f /\ f < e /\ e <= pos
    BY <2>1, <2>2, TokenFields DEF Scanned, Sorted
  <2>5. f \in 1 .. Len(text) /\ e \in f + 1 .. Len(text) + 1
    BY <1>1, <2>4
  <2>6. Lexeme(SubSeq(text, f, e - 1))
    BY <1>1, <2>3, <2>5, LexemeIs DEF Whole
  <2>7. ASSUME NEW n \in e .. Len(text)
        PROVE  ~Lexeme(SubSeq(text, f, n))
    <3>1. PICK l : l = n + 1
      OBVIOUS
    <3>2. /\ l \in e + 1 .. Len(text) + 1 /\ l \in f + 1 .. Len(text) + 1
          /\ l - 1 = n
      BY <1>1, <2>4, <3>1
    <3>3. ~LexemeAt(text, f, l)
      BY <2>3, <3>2 DEF Whole
    <3>4. ~Lexeme(SubSeq(text, f, l - 1))
      BY <1>1, <2>5, <3>2, <3>3, LexemeIs
    <3> QED
      BY <3>2, <3>4
  <2> QED
    BY <2>2, <2>6, <2>7
<1>3. ASSUME NEW k \in 1 .. Len(tokens) + 1
      PROVE  IsBlank(GapText(k)) <=> Gap(k) \cap lexErrors = {}
  <2>1. PICK a, b : /\ a = GapStart(k)
                    /\ b = IF k > Len(tokens) THEN pos ELSE tokens[k].from
    OBVIOUS
  <2>2. Gap(k) = a .. b - 1
    BY <2>1 DEF Gap, GapStart
  <2>3. Clear(a, b) /\ a \in Nat \ {0} /\ b \in Nat /\ a <= b
        /\ b <= Len(text) + 1
    <3>1. CASE k = Len(tokens) + 1
      <4>1. b = pos
        BY <1>1, <2>1, <3>1
      <4> QED
        BY <1>1, <2>1, <3>1, <4>1, GapStarts DEF Separated
    <3>2. CASE k \in 1 .. Len(tokens)
      <4>1. b = tokens[k].from
        BY <1>1, <2>1, <3>2
      <4>2. /\ b \in Nat /\ b <= Len(text) + 1
            /\ \A j \in DOMAIN tokens : tokens[j].to \in Nat
                 /\ 1 <= tokens[j].from /\ tokens[j].from < tokens[j].to
                 /\ tokens[j].from \in Nat /\ tokens[j].to <= pos
        BY <1>1, <3>2, <4>1, TokenFields DEF Scanned, Sorted
      <4>3. a \in Nat \ {0}
        <5>1. k # 1 => k - 1 \in DOMAIN tokens
          BY <1>1, <3>2
        <5> QED
          BY <2>1, <4>2, <5>1 DEF GapStart
      <4>4. a <= b /\ Clear(a, b)
        BY <1>1, <2>1, <3>2, <4>1, GapStarts DEF Separated
      <4> QED
        BY <4>2, <4>3, <4>4
    <3> QED
      BY <1>1, <3>1, <3>2
  <2>4. IsBlank(GapText(k)) <=> \A i \in a .. b - 1 : BlankAt(a, i)
    BY <1>1, <2>2, <2>3, GapTextIs
  <2> QED
    BY <2>2, <2>3, <2>4 DEF Clear
<1> QED
  BY <1>2, <1>3 DEF LongestLexemes

\* The lexer cuts every text into the longest lexemes from the left, and
\* reports what is neither a lexeme nor blank nor a comment.
THEOREM LexemesAreLongest == Spec => []LongestLexemes
<1>1. Init => ParserInv /\ Separated
  BY ParserInvInit, SeparatedInit
<1>2. ParserInv /\ Separated /\ [Next]_vars => (ParserInv /\ Separated)'
  BY ParserInvNext, SeparatedNext DEF ParserInv
<1>3. ParserInv /\ Separated => LongestLexemes
  BY SeparatedLexemes DEF ParserInv
<1> QED
  BY <1>1, <1>2, <1>3, PTL DEF Spec
=============================================================================
