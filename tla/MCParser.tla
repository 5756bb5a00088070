------------------------------ MODULE MCParser ------------------------------
(***************************************************************************)
(* Texts for TLC: short programs with one character removed, replaced or   *)
(* added, and all short sequences of the characters the lexer treats       *)
(* differently.  Keywords are shortened to one letter, or two.             *)
(***************************************************************************)
EXTENDS ParserGrammar

Chars(s) == [i \in 1 .. Len(s) |-> SubSeq(s, i, i)]

Letters == Range(Chars("ifmrcewtx"))

MCKeywords ==
  (Chars("i") :> "int") @@ (Chars("f") :> "f") @@ (Chars("fi") :> "float")
  @@ (Chars("m") :> "main") @@ (Chars("r") :> "return")
  @@ (Chars("c") :> "if") @@ (Chars("e") :> "else")
  @@ (Chars("w") :> "while") @@ (Chars("t") :> "true")

Programs ==
  { Chars("f:m()->i{r 1;}"),
    Chars("i:x=1;f:x(i:x,i:x)->fi{}"),
    Chars("f:m()->i{i:x=1*x+1<1;}"),
    Chars("f:m()->i{c(!x){x=x-(1-1);}e c(t){}e{{};}}"),
    Chars("f:m()->i{w(x||1==x&&t){x(1,x(x));x();r;}}"),
    Chars("i:x=\"1\n\";\ni:x='1';#i\n\ni:x=1.1;") }

Edits == Range(Chars("if c(){}:;,=x1*!\n'"))

Edited(s) ==
  { RemoveAt(s, i) : i \in DOMAIN s }
  \cup { ReplaceAt(s, i, c) : i \in DOMAIN s, c \in Edits }
  \cup { InsertAt(s, i, c) : i \in 1 .. Len(s) + 1, c \in Edits }

ShortAlphabet == Range(Chars("fi1.\"'\n #&=-@"))

MCTexts ==
  Programs \cup UNION { Edited(s) : s \in Programs }
  \cup SeqOf(ShortAlphabet, 3)
=============================================================================
