----------------------------- MODULE MCCompiler -----------------------------
(***************************************************************************)
(* Command lines of a command and three words, files of two declarations.  *)
(***************************************************************************)
EXTENDS CompilerProperties

A(form, option, value, text) ==
  [form |-> form, option |-> option, value |-> value, text |-> text]

\* A plain word is a command or a file; the markers; options of both
\* spellings, with and without a value, and options nobody knows.
SomeWords ==
  { A("plain", NoValue, NoValue, c) : c \in {"parse", "check", "ir"} }
    \cup
  { A("ends", NoValue, NoValue, "--"),
    A("help", NoValue, NoValue, "-h"),
    A("short", "time", NoValue, "-t"),
    A("long", "time", "1", "--time=1"),
    A("short", "output", NoValue, "-o"),
    A("long", "output", "p", "--output=p"),
    A("short", "unknown", NoValue, "-x") }
=============================================================================
