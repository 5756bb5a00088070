-------------------------- MODULE CompilerProperties --------------------------
(***************************************************************************)
(* What a command promises to the one who typed it.                        *)
(***************************************************************************)
EXTENDS Compiler

Phases ==
  {"start", "arguments", "command", "read", "parse", "analyze", "lower",
   "render", "report", "ended"}

Text == {w.text : w \in Word} \cup {w.value : w \in Word}

\* The state is what cli_run and run_command keep in their variables; the
\* loop of cli_run, which moves index at two places, stays in argv.
TypeOK ==
  /\ argv \in Seq(Word) /\ Len(argv) <= MaxWords
  /\ command \in Commands \cup {NoValue}
  /\ index \in Nat /\ index >= 2 /\ (index = 2 \/ index <= Len(argv) + 1)
  /\ endOfOptions \in BOOLEAN
  /\ positionals \in Seq(Text)
  /\ options \in [showTime : BOOLEAN, outputPath : Text \cup {NoValue}]
  /\ phase \in Phases
  /\ exit \in Exits \cup {NoValue}
  /\ said \in BOOLEAN
  /\ root \in Seq(Declaration) /\ Len(root) <= MaxDeclarations
  /\ analyzed \in 0 .. MaxDeclarations
  /\ valid \in BOOLEAN
  /\ nodes \in Seq([kind : {"function", "variable"},
                    type : ValueType \cup {VOID}, initialized : BOOLEAN])
  /\ refused \in Refusals \cup {NoValue}
  /\ stored \in Seq({"io", "parse", "semantic", "ssa"})
  /\ lost \subseteq {"io", "parse", "semantic", "ssa"}
  /\ rendered \in {"ast", "ssa", NoValue}
  /\ written \in Text \cup {NoValue}
  /\ unprinted \in BOOLEAN
  /\ success \in BOOLEAN

-----------------------------------------------------------------------------
\* The arguments

\* What the i-th word is for, told from the words before it.
RoleIn(words) ==
  LET role[i \in 2 .. Len(words)] ==
        LET ended == \E j \in 2 .. i - 1 : role[j] = "end"
        IN  IF i > 2 /\ role[i - 1] = "option" /\ TakesNext(words[i - 1])
              THEN "value"
            ELSE IF ended \/ words[i].form = "plain" THEN "file"
            ELSE IF words[i].form = "ends" THEN "end"
            ELSE IF words[i].form = "help" THEN "help"
            ELSE "option"
  IN  role

\* The value that the option at i sets.
ValueAt(words, i) ==
  IF TakesNext(words[i]) THEN words[i + 1].text ELSE words[i].value

\* The command runs with every argument used once and for one purpose: the
\* word after an option that takes a value is that value even if it looks
\* like an option, nothing after -- is an option, the last output path wins
\* and no unknown option is passed over.
ArgumentsKeepTheirRoles ==
  phase = "command" =>
    LET role == RoleIn(argv)
        Places(r) == {i \in 2 .. Len(argv) : role[i] = r}
        Outputs == {i \in Places("option") : argv[i].option = "output"}
        Last == CHOOSE i \in Outputs : \A j \in Outputs : j <= i
        IsFile(w) == w \in {argv[i] : i \in Places("file")}
    IN  /\ Places("help") = {}
        /\ \A i \in Places("option") : argv[i].option \in OptionsOf(command)
        /\ options.showTime =
             (\E i \in Places("option") : argv[i].option = "time")
        /\ options.outputPath =
             IF Outputs = {} THEN NoValue ELSE ValueAt(argv, Last)
        /\ \E place \in [1 .. Len(positionals) -> Places("file")] :
             /\ \A i, j \in DOMAIN place : i < j => place[i] < place[j]
             /\ Places("file") = {place[i] : i \in DOMAIN place}
             /\ \A i \in DOMAIN place : positionals[i] = argv[place[i]].text

-----------------------------------------------------------------------------
\* The stages

\* What print_ssair shows of a declaration.
NodeOf(d) ==
  [kind |-> d.kind, type |-> d.type, initialized |-> d.initial # "none"]

\* The module holds every declaration of the file, in order.
Complete == nodes = [i \in 1 .. Len(root) |-> NodeOf(root[i])]

\* The command went through all the stages it names.
Finished ==
  /\ LastStage(command) # "parse" => analyzed = Len(root)
  /\ LastStage(command) = "lower" => Complete

\* What the command prints.
Printout ==
  IF command = "parse" THEN "ast" ELSE IF command = "ir" THEN "ssa"
  ELSE NoValue

\* What the command prints goes to stdout.
PrintsToStdout == command \in {"parse", "ir"} /\ options.outputPath = NoValue

Earned ==
  /\ stored = <<>>
  /\ lost \subseteq {"parse", "semantic"}
  /\ Finished
  /\ written = options.outputPath
  /\ rendered = IF unprinted THEN NoValue ELSE Printout
  /\ unprinted => PrintsToStdout

\* compiler_run_to_stage and run_command: a command that exits with OK
\* reported nothing, read its file, finished its stages, and its output has
\* arrived where it was asked for.  There are two ways past an error.  A
\* parse or semantic diagnostic may find no memory (the refusals of lowering
\* and an unreadable file are remembered without their diagnostic), and
\* stdout may fail: no renderer looks at it.  An output file that the
\* command was given is complete in any case.
SuccessIsEarned ==
  exit = "OK" /\ index > Len(argv) /\ command # NoValue => Earned

\* An output file is opened, and so emptied, only for a complete module.
OutputIsComplete ==
  written # NoValue => valid /\ Complete /\ stored = <<>>

\* run_command, set_error and set_option: a program that fails without
\* crashing sends a message to stderr, unless memory ran out for a diagnostic.
FailuresAreExplained ==
  exit \in {"ERROR_COMPILER", "ERROR_CLI"} => said \/ lost # {}

\* emit_global: what the analyzer refuses never reaches lowering, so that a
\* global of type void or with a literal of another type is refused there
\* only after the diagnostic of an earlier stage was lost.
AnalysisCoversGlobals ==
  refused \in {"not a value", "incompatible"} => "semantic" \in lost

\* cli_run and run_command come to an end on every command line and file.
ProgramEnds == <>(phase = "ended")
=============================================================================
