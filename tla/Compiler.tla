------------------------------ MODULE Compiler ------------------------------
(***************************************************************************)
(* src/lep.c, src/diagnostic.c and generate_ssair: a command takes a file  *)
(* through the stages, each gated by the errors that were stored, and      *)
(* prints what it was asked for.                                           *)
(*                                                                         *)
(* A stage is what the driver sees of it: the errors it reports and what   *)
(* it leaves behind.  Memory may run out where the code looks at the       *)
(* result of malloc; where it does not, the program crashes.               *)
(***************************************************************************)
EXTENDS CommandLine

CONSTANTS
  ValueType,        \* the types of values
  MaxDeclarations,  \* bounds the declarations of a file
  MaxErrors         \* bounds the errors one step reports

VOID == "void"

\* Why lowering refuses a declaration.
Refusals == {"function", "not a value", "not a literal", "incompatible"}

ASSUME BoundsAssumption ==
  /\ MaxDeclarations \in Nat
  /\ MaxErrors \in Nat
  /\ NoValue \notin Refusals
  /\ VOID \notin ValueType

\* What lowering looks at in a top-level node.  initial is the type of a
\* literal, "expression" or "none".
Declaration ==
  [kind : {"function"}, type : {VOID}, initial : {"none"}]
    \cup [kind : {"variable"}, type : ValueType \cup {VOID},
          initial : ValueType \cup {"none", "expression"}]

VARIABLES
  root,       \* root->next ...: the declarations of the tree
  analyzed,   \* how many of them the analyzer has visited
  valid,      \* ir->valid
  nodes,      \* ir->entry ...: the lowered declarations
  refused,    \* history: why lowering refused
  stored,     \* diagnostics.items: the stage that reported each
  lost,       \* history: the stages that could not store a diagnostic
  rendered,   \* what has arrived in full: "ast", "ssa" or NoValue
  written,    \* the output file that was opened
  unprinted,  \* history: stdout did not take all that was printed
  success     \* run_command's success

lowering == <<analyzed, valid, nodes, refused>>
diagnostics == <<stored, lost>>
rendering == <<rendered, written, unprinted>>
vars == <<cli, phase, exit, said, root, lowering, diagnostics, rendering,
          success>>

Init ==
  /\ CommandLineInit
  /\ root = <<>>
  /\ analyzed = 0
  /\ valid = TRUE
  /\ nodes = <<>>
  /\ refused = NoValue
  /\ stored = <<>>
  /\ lost = {}
  /\ rendered = NoValue
  /\ written = NoValue
  /\ unprinted = FALSE
  /\ success = FALSE

\* error_count: every diagnostic the program reports is an error.
ErrorCount(items) == Len(items)

\* n calls of add_diagnosticv, of which k store their diagnostic
Report(n, where) ==
  \E k \in 0 .. n :
    /\ stored' = stored \o [i \in 1 .. k |-> where]
    /\ lost' = IF k < n THEN lost \cup {where} ELSE lost

-----------------------------------------------------------------------------
\* run_command, up to the stages

WrongFiles ==
  /\ phase = "command"
  /\ Len(positionals) # 1
  /\ Complain("ERROR_CLI")
  /\ UNCHANGED <<cli, root, lowering, diagnostics, rendering, success>>

NoCompiler ==
  /\ phase = "command"
  /\ Len(positionals) = 1
  /\ Complain("ERROR_COMPILER")
  /\ UNCHANGED <<cli, root, lowering, diagnostics, rendering, success>>

CompilerInit ==
  /\ phase = "command"
  /\ Len(positionals) = 1
  /\ phase' = "read"
  /\ Stay
  /\ UNCHANGED <<cli, root, lowering, diagnostics, rendering, success>>

ReadSource ==
  /\ phase = "read"
  /\ phase' = "parse"
  /\ Stay
  /\ UNCHANGED <<cli, root, lowering, diagnostics, rendering, success>>

Unreadable ==
  /\ phase = "read"
  /\ Report(1, "io")
  /\ phase' = "report"
  /\ Stay
  /\ UNCHANGED <<cli, root, lowering, rendering, success>>

-----------------------------------------------------------------------------
\* compiler_run_to_stage

LastStage(c) ==
  IF c = "parse" THEN "parse" ELSE IF c = "check" THEN "analyze" ELSE "lower"

After(stage) == IF stage = "parse" THEN "analyze" ELSE "lower"

\* A stage ends; ok is what its compiler_* function returns.
StageEnds(stage, ok) ==
  /\ success' = (ok /\ stage = LastStage(command))
  /\ phase' = IF ~ok THEN "report"
              ELSE IF stage = LastStage(command) THEN "render"
              ELSE After(stage)
  /\ Stay

Parse ==
  /\ phase = "parse"
  /\ \E n \in 0 .. MaxErrors : Report(n, "parse")
  /\ root' \in UNION { [1 .. n -> Declaration] : n \in 0 .. MaxDeclarations }
  /\ StageEnds("parse", ErrorCount(stored') = 0)
  /\ UNCHANGED <<cli, lowering, rendering>>

\* The analyzer reports an error for these, whatever else they hold.
IllTyped(d) ==
  /\ d.kind = "variable"
  /\ \/ d.type = VOID
     \/ d.initial \in ValueType /\ d.initial # d.type

AnalyzeDeclaration ==
  /\ phase = "analyze"
  /\ analyzed < Len(root)
  /\ \E n \in 0 .. MaxErrors :
       /\ IllTyped(root[analyzed + 1]) => n > 0
       /\ Report(n, "semantic")
  /\ analyzed' = analyzed + 1
  /\ Stay
  /\ UNCHANGED <<cli, phase, root, valid, nodes, refused, rendering, success>>

\* The bug of a mutated run: the errors of the analyzer are not looked at.
AnalyzedUngated ==
  /\ phase = "analyze"
  /\ analyzed = Len(root)
  /\ StageEnds("analyze", TRUE)
  /\ UNCHANGED <<cli, root, lowering, diagnostics, rendering>>

Analyzed ==
  /\ phase = "analyze"
  /\ analyzed = Len(root)
  /\ StageEnds("analyze", ErrorCount(stored) = 0)
  /\ UNCHANGED <<cli, root, lowering, diagnostics, rendering>>

-----------------------------------------------------------------------------
\* generate_ssair

\* The next declaration is of this kind.
Lowers(kind) ==
  /\ phase = "lower"
  /\ valid
  /\ Len(nodes) < Len(root)
  /\ root[Len(nodes) + 1].kind = kind

Declared == root[Len(nodes) + 1]

\* The declaration's node joins the module, refused or not.
AddNode(hasInitializer) ==
  nodes' = Append(nodes, [kind |-> Declared.kind, type |-> Declared.type,
                          initialized |-> hasInitializer])

\* The bug of a mutated run: a refusal without a diagnostic.
SetErrorSilently(why) ==
  /\ valid' = FALSE
  /\ refused' = why
  /\ UNCHANGED diagnostics

SetError(why) ==
  /\ valid' = FALSE
  /\ refused' = why
  /\ Report(1, "ssa")

NoError == UNCHANGED <<valid, refused, diagnostics>>

EmitFunction ==
  /\ Lowers("function")
  /\ AddNode(FALSE)
  /\ NoError \/ SetError("function")
  /\ Stay
  /\ UNCHANGED <<cli, phase, root, analyzed, rendering, success>>

\* Why emit_global refuses the declaration d.
Refusal(d) ==
  IF d.type = VOID THEN "not a value"
  ELSE IF d.initial = "expression" THEN "not a literal"
  ELSE IF d.initial \notin {"none", d.type} THEN "incompatible"
  ELSE NoValue

EmitGlobal ==
  /\ Lowers("variable")
  /\ IF Refusal(Declared) = NoValue
       THEN AddNode(Declared.initial # "none") /\ NoError
       ELSE AddNode(FALSE) /\ SetError(Refusal(Declared))
  /\ Stay
  /\ UNCHANGED <<cli, phase, root, analyzed, rendering, success>>

\* The bug of a mutated run: only the count of errors is looked at.
LoweredByCount ==
  /\ phase = "lower"
  /\ ~valid \/ Len(nodes) = Len(root)
  /\ StageEnds("lower", ErrorCount(stored) = 0)
  /\ UNCHANGED <<cli, root, lowering, diagnostics, rendering>>

Lowered ==
  /\ phase = "lower"
  /\ ~valid \/ Len(nodes) = Len(root)
  /\ StageEnds("lower", valid /\ ErrorCount(stored) = 0)
  /\ UNCHANGED <<cli, root, lowering, diagnostics, rendering>>

\* A failed assertion, a null pointer or memory that nobody asked about.
Crash ==
  /\ phase \in {"parse", "analyze", "lower"}
  /\ Return("crash")
  /\ UNCHANGED <<cli, said, root, lowering, diagnostics, rendering, success>>

-----------------------------------------------------------------------------
\* run_command, after the stages

\* build and check have no renderer.
Nothing ==
  /\ phase = "render"
  /\ command \in {"build", "check"}
  /\ phase' = "report"
  /\ Stay
  /\ UNCHANGED <<cli, root, lowering, diagnostics, rendering, success>>

\* Printing to stdout may fail, now or when it is flushed; the renderer does
\* not look (no ferror, no fflush) and returns true.
ToStdout ==
  /\ phase = "render"
  /\ \/ command = "parse"
     \/ command = "ir" /\ options.outputPath = NoValue
  /\ \/ /\ rendered' = IF command = "parse" THEN "ast" ELSE "ssa"
        /\ unprinted' = FALSE
     \/ rendered' = NoValue /\ unprinted' = TRUE
  /\ phase' = "report"
  /\ Stay
  /\ UNCHANGED <<cli, root, lowering, diagnostics, written, success>>

ToFile ==
  /\ phase = "render"
  /\ command = "ir" /\ options.outputPath # NoValue

\* The bug of a mutated run: the renderer's result is dropped.
CannotOpenUnnoticed ==
  /\ ToFile
  /\ said' = TRUE
  /\ phase' = "report"
  /\ UNCHANGED <<cli, exit, root, lowering, diagnostics, rendering, success>>

CannotOpen ==
  /\ ToFile
  /\ success' = FALSE
  /\ said' = TRUE
  /\ phase' = "report"
  /\ UNCHANGED <<cli, exit, root, lowering, diagnostics, rendering>>

\* fopen succeeds; printing or fclose may fail.
WriteFile ==
  /\ ToFile
  /\ written' = options.outputPath
  /\ \/ rendered' = "ssa" /\ success' = TRUE /\ said' = said
     \/ rendered' = NoValue /\ success' = FALSE /\ said' = TRUE
  /\ phase' = "report"
  /\ UNCHANGED <<cli, exit, root, lowering, diagnostics, unprinted>>

PrintDiagnostics ==
  /\ phase = "report"
  /\ said' = (said \/ stored # <<>>)
  /\ Return(IF success THEN "OK" ELSE "ERROR_COMPILER")
  /\ UNCHANGED <<cli, root, lowering, diagnostics, rendering, success>>

Driver ==
  \/ WrongFiles \/ NoCompiler \/ CompilerInit \/ ReadSource \/ Unreadable
  \/ Parse \/ AnalyzeDeclaration \/ Analyzed
  \/ EmitFunction \/ EmitGlobal \/ Lowered \/ Crash
  \/ Nothing \/ ToStdout \/ CannotOpen \/ WriteFile \/ PrintDiagnostics

Next ==
  \/ /\ CommandLine
     /\ UNCHANGED <<root, lowering, diagnostics, rendering, success>>
  \/ Driver

Spec == Init /\ [][Next]_vars /\ WF_vars(Next)
=============================================================================
