-------------------------- MODULE ParserProperties --------------------------
(***************************************************************************)
(* What is checked of Lexer and of what the parser leaves behind: against  *)
(* a definition of the lexemes and the positions in the text.              *)
(***************************************************************************)
EXTENDS Parser

Finished == todo = <<>> /\ wanted = 0

\* Types: at the end the window is at the end of the text and one value is
\* left, the program; the lookahead is never behind the tokens returned.
TypeOK ==
  /\ pos \in 1 .. Len(text) + 1
  /\ wanted \in 0 .. 2
  /\ lexErrors \cup parseErrors \subseteq 1 .. Len(text) + 1
  /\ wanted = 0 => lookahead.type = "EOF" \/ lookahead = Last(tokens)
  /\ \A t \in Range(tokens) : t.from < t.to /\ t.to <= pos
  /\ Finished /\ ~crashed => Len(nodes) = 1 /\ token.type = "EOF" /\ AtEnd(pos)

-----------------------------------------------------------------------------
(***************************************************************************)
(* Lexemes.                                                                *)
(***************************************************************************)

Only(s, class) == s # <<>> /\ Range(s) \subseteq class

Inside(s) == SubSeq(s, 2, Len(s) - 1)

IsNumber(s) ==
  \/ Only(s, Digit)
  \/ \E d \in 2 .. Len(s) - 1 : /\ s[d] = "."
                                /\ Only(SubSeq(s, 1, d - 1), Digit)
                                /\ Only(SubSeq(s, d + 1, Len(s)), Digit)

IsQuoted(s) ==
  /\ Len(s) >= 2
  /\ s[1] = s[Len(s)]
  /\ s[1] \notin Range(Inside(s))
  /\ s[1] = "\"" \/ (s[1] = "'" /\ Len(s) = 3)

Symbols ==
  { <<c>> : c \in (Single \cup DOMAIN Pair) \ {"&", "|"} }
  \cup { <<c, Second[c]>> : c \in DOMAIN Pair }

Lexeme(s) == Only(s, Letter) \/ IsNumber(s) \/ IsQuoted(s) \/ s \in Symbols

\* What may lie between two tokens.
IsBlank(s) ==
  \A i \in DOMAIN s :
     \/ s[i] \in Blank \cup {Newline}
     \/ \E j \in 1 .. i : s[j] = "#" /\ Newline \notin { s[k] : k \in j .. i }

\* The positions before token k; behind the last token, what has been read.
Gap(k) == (IF k = 1 THEN 1 ELSE tokens[k - 1].to)
          .. (IF k > Len(tokens) THEN pos ELSE tokens[k].from) - 1

GapText(k) ==
  IF Gap(k) = {} THEN <<>> ELSE SubSeq(text, Min(Gap(k)), Max(Gap(k)))

\* next_token cuts the text into the longest lexemes, from the left, and
\* where it skips something else than blanks and comments, it reports it.
LongestLexemes ==
  Finished =>
  /\ \A t \in Range(tokens) :
        /\ Lexeme(SubSeq(text, t.from, t.to - 1))
        /\ \A e \in t.to .. Len(text) : ~Lexeme(SubSeq(text, t.from, e))
  /\ \A k \in 1 .. Len(tokens) + 1 :
        IsBlank(GapText(k)) <=> Gap(k) \cap lexErrors = {}

\* The newlines before position i.
Newlines(i) == { j \in 1 .. i - 1 : text[j] = Newline }

\* No newline was part of a literal or of an error.
LinesSeen(i) ==
  /\ lexErrors = {}
  /\ \A t \in Range(tokens) :
        t.to <= i => Newlines(t.from) = Newlines(t.to)

\* A token carries the line and column of its first character (codeLoc).
\* After a newline inside quotes the lines are too small: next_line is not
\* called for it.
LocationsTrue ==
  Finished => \A t \in Range(tokens) :
     LinesSeen(t.from) =>
       /\ t.line = Cardinality(Newlines(t.from)) + 1
       /\ t.column = t.from - Max(Newlines(t.from) \cup {0})
=============================================================================
