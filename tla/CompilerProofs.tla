---------------------------- MODULE CompilerProofs ----------------------------
(***************************************************************************)
(* For command lines, words and files of any number and kind: the exit     *)
(* code, stderr and the output file of a command tell the truth.           *)
(***************************************************************************)
EXTENDS CompilerProperties, TLAPS, WellFoundedInduction

Stages == {"io", "parse", "semantic", "ssa"}

Node == [kind : {"function", "variable"}, type : ValueType \cup {VOID},
         initialized : BOOLEAN]

-----------------------------------------------------------------------------
\* A sequence of n equal elements, appended.
LEMMA AppendedCopies ==
  ASSUME NEW S, NEW s \in Seq(S), NEW x \in S, NEW k \in Nat
  PROVE  LET t == s \o [i \in 1 .. k |-> x]
         IN  /\ t \in Seq(S)
             /\ Len(t) = Len(s) + k
<1> DEFINE copies == [i \in 1 .. k |-> x]
<1>1. copies \in Seq(S) /\ Len(copies) = k
  OBVIOUS
<1> HIDE DEF copies
<1>2. s \o copies \in Seq(S) /\ Len(s \o copies) = Len(s) + k
  BY <1>1
<1> QED
  BY <1>2 DEF copies

LEMMA ElementOfSeq ==
  ASSUME NEW S, NEW s \in Seq(S), NEW i \in 1 .. Len(s)
  PROVE  s[i] \in S
OBVIOUS

\* Reporting stores or remembers every error, and forgets none.
LEMMA ReportKeepsErrors ==
  ASSUME stored \in Seq(Stages), NEW n \in Nat, NEW where \in Stages,
         Report(n, where)
  PROVE  /\ stored' \in Seq(Stages)
         /\ lost \subseteq lost' /\ lost' \subseteq lost \cup {where}
         /\ stored # <<>> => stored' # <<>>
         /\ n > 0 => stored' # <<>> \/ where \in lost'
<1>1. PICK k \in 0 .. n :
        /\ stored' = stored \o [i \in 1 .. k |-> where]
        /\ lost' = IF k < n THEN lost \cup {where} ELSE lost
  BY DEF Report
<1>2. stored' \in Seq(Stages) /\ Len(stored') = Len(stored) + k
  BY <1>1, AppendedCopies
<1>3. Len(stored) \in Nat /\ (stored # <<>> => Len(stored) > 0)
  OBVIOUS
<1>4. stored # <<>> => stored' # <<>>
  <2>1. ASSUME stored' = <<>> PROVE Len(stored') = 0
    BY <2>1
  <2> QED
    BY <1>2, <1>3, <2>1
<1>5. n > 0 => stored' # <<>> \/ where \in lost'
  <2>1. CASE k < n
    BY <1>1, <2>1
  <2>2. CASE k = n
    <3>1. ASSUME stored' = <<>> PROVE Len(stored') = 0
      BY <3>1
    <3> QED
      BY <1>2, <1>3, <2>2, <3>1
  <2> QED
    BY <2>1, <2>2
<1> QED
  BY <1>1, <1>2, <1>4, <1>5

-----------------------------------------------------------------------------
(***************************************************************************)
(* Types                                                                   *)
(***************************************************************************)

LEMMA TypeInit == Init => TypeOK
<1> SUFFICES ASSUME Init PROVE TypeOK
  OBVIOUS
<1>1. argv \in Seq(Word) /\ Len(argv) <= MaxWords
  BY WordAssumption DEF Init, CommandLineInit
<1>2. /\ <<>> \in Seq(Text) /\ <<>> \in Seq(Declaration) /\ <<>> \in Seq(Node)
      /\ <<>> \in Seq(Stages)
  OBVIOUS
<1>3. Len(<<>>) = 0 /\ 0 \in 0 .. MaxDeclarations /\ 0 <= MaxDeclarations
  BY BoundsAssumption
<1>4. options \in [showTime : BOOLEAN, outputPath : Text \cup {NoValue}]
  BY DEF Init, CommandLineInit
<1>5. /\ command \in Commands \cup {NoValue} /\ endOfOptions \in BOOLEAN
      /\ phase \in Phases /\ exit \in Exits \cup {NoValue}
      /\ said \in BOOLEAN /\ index \in Nat /\ index = 2
  BY DEF Init, CommandLineInit, Phases
<1>6. /\ root = <<>> /\ analyzed = 0 /\ valid \in BOOLEAN /\ nodes = <<>>
      /\ refused \in Refusals \cup {NoValue} /\ stored = <<>> /\ lost = {}
      /\ rendered \in {"ast", "ssa", NoValue} /\ written = NoValue
      /\ unprinted \in BOOLEAN
      /\ success \in BOOLEAN /\ positionals = <<>>
  BY DEF Init, CommandLineInit
<1> QED
  BY ONLY <1>1, <1>2, <1>3, <1>4, <1>5, <1>6 DEF TypeOK, Node, Stages

LEMMA TypeCommandLine ==
  ASSUME TypeOK, CommandLine,
         UNCHANGED <<root, lowering, diagnostics, rendering, success>>
  PROVE  TypeOK'
<1> USE DEF TypeOK, cli, Phases, Exits, lowering, diagnostics, rendering, Stay
<1>1. CASE PrintUsage
  BY <1>1 DEF PrintUsage, Complain, Return
<1>2. CASE PrintHelp
  BY <1>2 DEF PrintHelp, Return
<1>3. CASE UnknownCommand
  BY <1>3 DEF UnknownCommand, Complain, Return
<1>4. CASE FindCommand
  BY <1>4 DEF FindCommand
<1>5. CASE EndOfOptions
  BY <1>5 DEF EndOfOptions, At
<1>6. CASE CommandHelp
  BY <1>6 DEF CommandHelp, Return
<1>7. CASE RefuseOption
  BY <1>7 DEF RefuseOption, Complain, Return
<1>8. CASE SetFlag
  <2>1. options' \in [showTime : BOOLEAN, outputPath : Text \cup {NoValue}]
    BY <1>8 DEF SetFlag
  <2> QED
    BY <1>8, <2>1 DEF SetFlag, At
<1>9. CASE SetString
  <2>1. Value \in Text
    BY <1>9 DEF SetString, At, Value, Text, TakesNext, Refused
  <2>2. Following \in Nat /\ Following >= 2 /\ Following <= Len(argv) + 1
    BY <1>9 DEF SetString, At, Following, TakesNext, Refused
  <2>3. /\ options' \in [showTime : BOOLEAN, outputPath : Text \cup {NoValue}]
        /\ index' = Following
    BY <1>9, <2>1 DEF SetString
  <2> QED
    BY <1>9, <2>2, <2>3 DEF SetString
<1>10. CASE Positional
  <2>1. argv[index].text \in Text
    BY <1>10 DEF Positional, At, Text
  <2> QED
    BY <1>10, <2>1 DEF Positional, At
<1>11. CASE RunCommand
  BY <1>11 DEF RunCommand
<1> QED
  BY <1>1, <1>2, <1>3, <1>4, <1>5, <1>6, <1>7, <1>8, <1>9, <1>10, <1>11
     DEF CommandLine

LEMMA TypeReport ==
  ASSUME TypeOK, NEW n \in Nat, NEW where \in Stages, Report(n, where)
  PROVE  /\ stored' \in Seq({"io", "parse", "semantic", "ssa"})
         /\ lost' \subseteq {"io", "parse", "semantic", "ssa"}
<1>1. stored \in Seq(Stages) /\ lost \subseteq Stages
  BY DEF TypeOK, Stages
<1> QED
  BY <1>1, ReportKeepsErrors DEF Stages

LEMMA TypeDriver ==
  ASSUME TypeOK, Driver
  PROVE  TypeOK'
<1> USE DEF TypeOK, cli, Phases, Exits, lowering, diagnostics, rendering, Stay,
            Return, Complain
<1>1. CASE WrongFiles
  BY <1>1 DEF WrongFiles
<1>2. CASE NoCompiler
  BY <1>2 DEF NoCompiler
<1>3. CASE CompilerInit
  BY <1>3 DEF CompilerInit
<1>4. CASE ReadSource
  BY <1>4 DEF ReadSource
<1>5. CASE Unreadable
  <2>1. 1 \in Nat /\ "io" \in Stages /\ Report(1, "io")
    BY <1>5 DEF Unreadable, Stages
  <2> QED
    BY ONLY <1>5, <2>1, TypeReport, TypeOK DEF Unreadable
<1>6. CASE Parse
  <2>1. PICK n \in 0 .. MaxErrors : Report(n, "parse")
    BY <1>6 DEF Parse
  <2>2. n \in Nat /\ "parse" \in Stages
    BY BoundsAssumption DEF Stages
  <2>3. root' \in Seq(Declaration) /\ Len(root') <= MaxDeclarations
    BY <1>6, BoundsAssumption DEF Parse
  <2>4. phase' \in Phases /\ success' \in BOOLEAN
    BY <1>6 DEF Parse, StageEnds, After
  <2> QED
    BY ONLY <1>6, <2>1, <2>2, <2>3, <2>4, TypeReport, TypeOK
       DEF Parse, StageEnds
<1>7. CASE AnalyzeDeclaration
  <2>1. PICK n \in 0 .. MaxErrors : Report(n, "semantic")
    BY <1>7 DEF AnalyzeDeclaration
  <2>2. n \in Nat /\ "semantic" \in Stages
    BY BoundsAssumption DEF Stages
  <2>3. analyzed' \in 0 .. MaxDeclarations
    BY <1>7, BoundsAssumption DEF AnalyzeDeclaration
  <2> QED
    BY ONLY <1>7, <2>1, <2>2, <2>3, TypeReport, TypeOK
       DEF AnalyzeDeclaration
<1>8. CASE Analyzed
  <2>1. phase' \in Phases /\ success' \in BOOLEAN
    BY <1>8 DEF Analyzed, StageEnds, After
  <2> QED
    BY <1>8, <2>1 DEF Analyzed, StageEnds
<1>9. CASE EmitFunction \/ EmitGlobal
  <2>1. PICK initialized \in BOOLEAN : AddNode(initialized)
    BY <1>9 DEF EmitFunction, EmitGlobal
  <2>2. Declared \in Declaration
    <3>1. Len(nodes) + 1 \in 1 .. Len(root)
      <4>1. Len(nodes) \in Nat /\ Len(root) \in Nat
        OBVIOUS
      <4>2. Len(nodes) < Len(root)
        BY ONLY <1>9 DEF EmitFunction, EmitGlobal, Lowers
      <4> QED
        BY ONLY <4>1, <4>2
    <3>2. root \in Seq(Declaration)
      OBVIOUS
    <3> QED
      BY ONLY <3>1, <3>2, ElementOfSeq DEF Declared
  <2>3. nodes' \in Seq(Node)
    BY <2>1, <2>2 DEF AddNode, Node, Declaration
  <2> DEFINE Typed ==
        /\ valid' \in BOOLEAN
        /\ refused' \in Refusals \cup {NoValue}
        /\ stored' \in Seq({"io", "parse", "semantic", "ssa"})
        /\ lost' \subseteq {"io", "parse", "semantic", "ssa"}
  <2>4. Typed
    <3>1. CASE NoError
      BY <3>1 DEF NoError
    <3>2. ASSUME NEW why \in Refusals, SetError(why)
          PROVE  Typed
      <4>1. Report(1, "ssa") /\ 1 \in Nat /\ "ssa" \in Stages
        BY <3>2 DEF SetError, Stages
      <4>2. valid' = FALSE /\ refused' = why
        BY <3>2 DEF SetError
      <4> QED
        BY ONLY <4>1, <4>2, why \in Refusals, TypeReport, TypeOK
    <3>3. NoError \/ \E why \in Refusals : SetError(why)
      <4>1. Refusal(Declared) \in Refusals \cup {NoValue}
        BY ONLY DEF Refusal, Refusals
      <4>2. "function" \in Refusals
        BY DEF Refusals
      <4> QED
        BY ONLY <1>9, <4>1, <4>2 DEF EmitFunction, EmitGlobal
    <3> QED
      BY ONLY <3>1, <3>2, <3>3
  <2> HIDE DEF Typed
  <2> QED
    <3>1. /\ Stay
          /\ UNCHANGED <<cli, phase, root, analyzed, rendering, success>>
      BY ONLY <1>9 DEF EmitFunction, EmitGlobal
    <3> QED
      BY ONLY <2>3, <2>4, <3>1, TypeOK DEF Typed, Node
<1>10. CASE Lowered
  <2>1. phase' \in Phases /\ success' \in BOOLEAN
    BY <1>10 DEF Lowered, StageEnds, After
  <2> QED
    BY <1>10, <2>1 DEF Lowered, StageEnds
<1>11. CASE Crash
  BY <1>11 DEF Crash
<1>12. CASE Nothing
  BY <1>12 DEF Nothing
<1>13. CASE ToStdout
  <2>1. rendered' \in {"ast", "ssa", NoValue} /\ unprinted' \in BOOLEAN
    BY <1>13 DEF ToStdout
  <2> QED
    BY <1>13, <2>1 DEF ToStdout
<1>14. CASE CannotOpen
  <2>1. success' \in BOOLEAN /\ said' \in BOOLEAN /\ phase' \in Phases
    BY <1>14 DEF CannotOpen
  <2>2. UNCHANGED <<cli, exit, root, lowering, diagnostics, rendering>>
    BY <1>14 DEF CannotOpen
  <2> QED
    BY <2>1, <2>2
<1>15. CASE WriteFile
  <2>1. /\ rendered' \in {"ast", "ssa", NoValue}
        /\ success' \in BOOLEAN /\ said' \in BOOLEAN
    BY <1>15 DEF WriteFile
  <2>2. written' \in Text \cup {NoValue} /\ phase' \in Phases
    BY <1>15 DEF WriteFile
  <2>3. UNCHANGED <<cli, exit, root, lowering, diagnostics, unprinted>>
    BY <1>15 DEF WriteFile
  <2> QED
    BY <2>1, <2>2, <2>3
<1>16. CASE PrintDiagnostics
  BY <1>16 DEF PrintDiagnostics
<1> QED
  BY <1>1, <1>2, <1>3, <1>4, <1>5, <1>6, <1>7, <1>8, <1>9, <1>10, <1>11,
     <1>12, <1>13, <1>14, <1>15, <1>16 DEF Driver

\* The types of cli_run's and run_command's variables, with the bound of the
\* argument loop: index never passes the end of argv by more than one.
THEOREM TypesCorrect == Spec => []TypeOK
<1>1. Init => TypeOK
  BY TypeInit
<1>2. TypeOK /\ [Next]_vars => TypeOK'
  <2> SUFFICES ASSUME TypeOK, [Next]_vars PROVE TypeOK'
    OBVIOUS
  <2>1. CASE UNCHANGED vars
    BY <2>1 DEF vars, cli, lowering, diagnostics, rendering, TypeOK
  <2> QED
    BY <2>1, TypeCommandLine, TypeDriver DEF Next
<1> QED
  BY <1>1, <1>2, PTL DEF Spec

-----------------------------------------------------------------------------
(***************************************************************************)
(* The invariant: what each phase knows of the errors so far.              *)
(***************************************************************************)

Early == {"start", "arguments", "command", "read", "parse"}

\* Nothing was reported before the first stage.
Fresh == phase \in Early => stored = <<>> /\ lost = {} /\ analyzed = 0

Unlowered ==
  phase \in Early \cup {"analyze"} =>
    valid /\ nodes = <<>> /\ refused = NoValue

Unrendered ==
  phase \notin {"report", "ended"} =>
    rendered = NoValue /\ written = NoValue /\ unprinted = FALSE

\* Only ir has an output path.
PathOfIr ==
  /\ phase = "start" => command = NoValue /\ options.outputPath = NoValue
  /\ phase \notin {"start", "ended"} => command \in Commands
  /\ command # "ir" => options.outputPath = NoValue

Accepted == stored = <<>> /\ lost \subseteq {"parse", "semantic"}

\* The declarations visited so far that are ill typed were reported.
InAnalysis ==
  phase = "analyze" =>
    /\ LastStage(command) # "parse"
    /\ lost \subseteq {"parse", "semantic"}
    /\ analyzed <= Len(root)
    /\ \A i \in 1 .. analyzed :
         IllTyped(root[i]) => stored # <<>> \/ "semantic" \in lost

\* The nodes so far are those of the first declarations.
Prefix ==
  /\ Len(nodes) <= Len(root)
  /\ \A i \in 1 .. Len(nodes) : nodes[i] = NodeOf(root[i])

InLowering ==
  phase = "lower" =>
    /\ LastStage(command) = "lower"
    /\ analyzed = Len(root)
    /\ \A i \in 1 .. Len(root) : IllTyped(root[i]) => "semantic" \in lost
    /\ valid => Accepted /\ Prefix
    /\ ~valid => stored # <<>> \/ lost # {}

InRender == phase = "render" => Accepted /\ Finished /\ valid /\ success

InReport ==
  phase = "report" =>
    /\ success => Earned
    /\ ~success => said \/ stored # <<>> \/ lost # {}

\* success is only set behind the last stage.
Undecided ==
  /\ phase \notin {"render", "report", "ended"} => ~success
  /\ phase # "ended" => exit = NoValue

IInv ==
  /\ Fresh /\ Unlowered /\ Unrendered /\ PathOfIr /\ InAnalysis /\ InLowering
  /\ InRender /\ InReport /\ Undecided
  /\ SuccessIsEarned /\ OutputIsComplete /\ FailuresAreExplained
  /\ AnalysisCoversGlobals

LEMMA InvInit == Init => IInv
<1> SUFFICES ASSUME Init PROVE IInv
  OBVIOUS
<1>1. /\ phase = "start" /\ exit = NoValue /\ refused = NoValue
      /\ ~success /\ written = NoValue /\ rendered = NoValue
      /\ unprinted = FALSE
      /\ stored = <<>> /\ lost = {} /\ analyzed = 0 /\ valid /\ nodes = <<>>
      /\ command = NoValue /\ options.outputPath = NoValue
  BY DEF Init, CommandLineInit
<1>2. NoValue \notin Exits /\ NoValue \notin Refusals
  BY WordAssumption, BoundsAssumption
<1> QED
  BY ONLY <1>1, <1>2
     DEF IInv, Fresh, Unlowered, Unrendered, PathOfIr, InAnalysis, InLowering,
         InRender, InReport, Undecided, SuccessIsEarned, OutputIsComplete,
         FailuresAreExplained, AnalysisCoversGlobals, Early, Refusals, Exits

\* What is known of the tree and the module stays true while they do not
\* change.
LEMMA SameModule ==
  ASSUME UNCHANGED <<command, root, analyzed, nodes>>
  PROVE  /\ Complete' = Complete
         /\ Finished' = Finished
         /\ Prefix' = Prefix
BY DEF Complete, Finished, Prefix, LastStage, NodeOf

\* The command line, before any file is read.
LEMMA InvCommandLine ==
  ASSUME TypeOK, IInv, CommandLine,
         UNCHANGED <<root, lowering, diagnostics, rendering, success>>
  PROVE  IInv'
<1>1. /\ phase \in {"start", "arguments"}
      /\ phase' \in {"arguments", "command", "ended"}
  BY DEF CommandLine, PrintUsage, PrintHelp, UnknownCommand, FindCommand,
         EndOfOptions, CommandHelp, RefuseOption, SetFlag, SetString,
         Positional, RunCommand, At, Return, Complain
<1>2. /\ stored' = <<>> /\ lost' = {} /\ analyzed' = 0
      /\ valid' /\ nodes' = <<>> /\ refused' = NoValue
      /\ rendered' = NoValue /\ written' = NoValue /\ ~success'
      /\ unprinted' = FALSE
  BY <1>1 DEF IInv, Fresh, Unlowered, Unrendered, Undecided, Early, lowering,
              diagnostics, rendering
<1>3. PathOfIr'
  <2> USE DEF PathOfIr, cli, Return, Complain
  <2>0. /\ phase = "start" => command = NoValue /\ options.outputPath = NoValue
        /\ phase = "arguments" => command \in Commands
        /\ command # "ir" => options.outputPath = NoValue
    BY <1>1 DEF IInv
  <2>1. CASE /\ UNCHANGED <<command, options>>
             /\ phase = "arguments" \/ phase' = "ended"
    BY <1>1, <2>0, <2>1
  <2>2. CASE FindCommand
    BY <2>0, <2>2, <1>1 DEF FindCommand
  <2>3. CASE SetFlag
    <3>1. options'.outputPath = options.outputPath
      BY <2>3 DEF SetFlag, TypeOK
    <3> QED
      BY <2>0, <2>3, <3>1, <1>1 DEF SetFlag, At
  <2>4. CASE SetString
    <3>1. command = "ir"
      BY <2>4 DEF SetString, Refused, OptionsOf
    <3> QED
      BY <2>0, <2>4, <3>1, <1>1 DEF SetString, At
  <2> QED
    BY <2>1, <2>2, <2>3, <2>4
       DEF CommandLine, PrintUsage, PrintHelp, UnknownCommand, EndOfOptions,
           CommandHelp, RefuseOption, Positional, RunCommand, At
<1>4. /\ phase' # "ended" => exit' = NoValue
      /\ exit' \in {"ERROR_CLI", "ERROR_COMPILER"} => said'
      /\ exit' = "OK" => index' <= Len(argv') \/ command' = NoValue
  <2>1. exit = NoValue /\ (phase = "start" => command = NoValue)
    BY <1>1 DEF IInv, Undecided, PathOfIr
  <2> QED
    BY <2>1, WordAssumption
       DEF CommandLine, PrintUsage, PrintHelp, UnknownCommand, FindCommand,
           EndOfOptions, CommandHelp, RefuseOption, SetFlag, SetString,
           Positional, RunCommand, At, Return, Complain, Stay, cli, Exits
<1>5. SuccessIsEarned' /\ FailuresAreExplained'
  <2>1. Len(argv') \in Nat /\ index' \in Nat
    BY TypeCommandLine DEF TypeOK
  <2> QED
    BY ONLY <1>4, <2>1 DEF SuccessIsEarned, FailuresAreExplained
<1> QED
  BY <1>1, <1>2, <1>3, <1>4, <1>5, BoundsAssumption
     DEF IInv, Fresh, Unlowered, Unrendered, InAnalysis, InLowering, InRender,
         InReport, Undecided, OutputIsComplete, AnalysisCoversGlobals, Early,
         Refusals

\* run_command before the stages.
LEMMA InvOpening ==
  ASSUME TypeOK, IInv,
         WrongFiles \/ NoCompiler \/ CompilerInit \/ ReadSource \/ Unreadable
  PROVE  IInv'
<1>0. 1 \in Nat /\ 1 > 0
  OBVIOUS
<1> USE WordAssumption, BoundsAssumption
    DEF IInv, Fresh, Unlowered, Unrendered, PathOfIr, InAnalysis, InLowering,
        InRender, InReport, Undecided, SuccessIsEarned, OutputIsComplete,
        FailuresAreExplained, AnalysisCoversGlobals, Early, Exits, Refusals,
        cli, lowering, diagnostics, rendering, Stay, Return, Complain
<1>1. CASE WrongFiles
  BY <1>1 DEF WrongFiles
<1>2. CASE NoCompiler
  BY <1>2 DEF NoCompiler
<1>3. CASE CompilerInit
  BY <1>3 DEF CompilerInit
<1>4. CASE ReadSource
  BY <1>4 DEF ReadSource
<1>5. CASE Unreadable
  <2>1. stored' # <<>> \/ lost' # {}
    <3>1. stored \in Seq(Stages) /\ "io" \in Stages
      BY ONLY TypeOK DEF TypeOK, Stages
    <3> QED
      BY ONLY <1>5, <3>1, <1>0, ReportKeepsErrors DEF Unreadable
  <2> QED
    BY <1>5, <2>1 DEF Unreadable
<1> QED
  BY <1>1, <1>2, <1>3, <1>4, <1>5

LEMMA InvParse ==
  ASSUME TypeOK, IInv, Parse
  PROVE  IInv'
<1>1. PICK n \in 0 .. MaxErrors : Report(n, "parse")
  BY DEF Parse
<1>2. /\ phase = "parse" /\ analyzed = 0 /\ lost = {} /\ valid
      /\ nodes = <<>> /\ refused = NoValue /\ rendered = NoValue
      /\ unprinted = FALSE
      /\ written = NoValue /\ exit = NoValue /\ command \in Commands
      /\ command # "ir" => options.outputPath = NoValue
  BY DEF Parse, IInv, Fresh, Unlowered, Unrendered, PathOfIr, Undecided, Early
<1>3. stored' \in Seq(Stages) /\ lost' \subseteq {"parse"}
  <2>1. stored \in Seq(Stages) /\ n \in Nat /\ "parse" \in Stages
    BY BoundsAssumption DEF TypeOK, Stages
  <2> QED
    BY ONLY <1>1, <1>2, <2>1, ReportKeepsErrors
<1>4. Len(stored') = 0 <=> stored' = <<>>
  BY <1>3
<1>5. LastStage(command) = "parse" <=> command = "parse"
  BY DEF LastStage
<1>6. /\ phase' = IF stored' # <<>> THEN "report"
                 ELSE IF command = "parse" THEN "render" ELSE "analyze"
      /\ success' = (stored' = <<>> /\ command = "parse")
      /\ analyzed' = 0 /\ valid' = valid /\ nodes' = <<>>
      /\ refused' = NoValue /\ rendered' = NoValue /\ written' = NoValue
      /\ unprinted' = FALSE
      /\ exit' = NoValue /\ command' = command /\ options' = options
      /\ root' \in UNION { [1 .. k -> Declaration] : k \in 0 .. MaxDeclarations }
  BY <1>2, <1>4, <1>5
     DEF Parse, StageEnds, ErrorCount, After, cli, lowering, rendering, Stay
<1>7. Finished' \/ command # "parse"
  BY <1>6 DEF Finished, LastStage
<1>8. Len(root') \in Nat
  BY TypeDriver DEF Driver, TypeOK
<1>9. NoValue \notin Exits /\ NoValue \notin Refusals
  BY WordAssumption, BoundsAssumption
<1>10. phase' \in {"report", "render", "analyze"}
  BY ONLY <1>6
<1>11. Fresh' /\ Unlowered' /\ Unrendered' /\ PathOfIr' /\ InLowering'
  BY ONLY <1>2, <1>6, <1>10
     DEF Fresh, Unlowered, Unrendered, PathOfIr, InLowering, Early
<1>12. InAnalysis'
  BY ONLY <1>3, <1>6, <1>8, <1>10 DEF InAnalysis, LastStage
<1>13. InRender' /\ InReport' /\ Undecided'
  BY ONLY <1>2, <1>3, <1>6, <1>7, <1>10
     DEF InRender, InReport, Undecided, Accepted
<1>14. /\ SuccessIsEarned' /\ OutputIsComplete' /\ FailuresAreExplained'
       /\ AnalysisCoversGlobals'
  BY ONLY <1>6, <1>9
     DEF SuccessIsEarned, OutputIsComplete, FailuresAreExplained,
         AnalysisCoversGlobals, Exits, Refusals
<1> QED
  BY ONLY <1>11, <1>12, <1>13, <1>14 DEF IInv

LEMMA InvAnalyzeDeclaration ==
  ASSUME TypeOK, IInv, AnalyzeDeclaration
  PROVE  IInv'
<1>1. PICK n \in 0 .. MaxErrors :
        /\ IllTyped(root[analyzed + 1]) => n > 0
        /\ Report(n, "semantic")
  BY DEF AnalyzeDeclaration
<1>2. /\ stored' \in Seq(Stages)
      /\ lost \subseteq lost' /\ lost' \subseteq lost \cup {"semantic"}
      /\ stored # <<>> => stored' # <<>>
      /\ n > 0 => stored' # <<>> \/ "semantic" \in lost'
  <2>1. stored \in Seq(Stages) /\ n \in Nat /\ "semantic" \in Stages
    BY BoundsAssumption DEF TypeOK, Stages
  <2> QED
    BY ONLY <1>1, <2>1, ReportKeepsErrors
<1>3. analyzed \in Nat /\ Len(root) \in Nat
  BY DEF TypeOK
<1>4. /\ phase = "analyze" /\ analyzed < Len(root) /\ analyzed' = analyzed + 1
      /\ UNCHANGED <<cli, exit, said, phase, root, valid, nodes, refused,
                     rendering, success>>
  BY DEF AnalyzeDeclaration, Stay
<1>5. InAnalysis'
  <2>1. \A i \in 1 .. analyzed :
          IllTyped(root[i]) => stored # <<>> \/ "semantic" \in lost
    BY <1>4 DEF IInv, InAnalysis
  <2>2. ASSUME NEW i \in 1 .. analyzed + 1, IllTyped(root[i])
        PROVE  stored' # <<>> \/ "semantic" \in lost'
    <3>1. CASE i = analyzed + 1
      BY ONLY <1>1, <1>2, <2>2, <3>1
    <3>2. CASE i \in 1 .. analyzed
      BY ONLY <1>2, <2>1, <2>2, <3>2
    <3> QED
      BY ONLY <1>3, <2>2, <3>1, <3>2
  <2> QED
    BY <1>2, <1>3, <1>4, <2>2
       DEF IInv, InAnalysis, LastStage, IllTyped, cli
<1>6. /\ NoValue \notin Exits /\ NoValue \notin Refusals
      /\ exit = NoValue /\ written = NoValue
  BY <1>4, WordAssumption, BoundsAssumption
     DEF IInv, Undecided, Unrendered
<1> QED
  BY <1>4, <1>5, <1>6
     DEF IInv, Fresh, Unlowered, Unrendered, PathOfIr, InLowering, InRender,
         InReport, Undecided, SuccessIsEarned, OutputIsComplete,
         FailuresAreExplained, AnalysisCoversGlobals, Early, Exits, Refusals,
         cli, rendering

LEMMA InvAnalyzed ==
  ASSUME TypeOK, IInv, Analyzed
  PROVE  IInv'
<1>1. /\ phase = "analyze" /\ LastStage(command) # "parse"
      /\ lost \subseteq {"parse", "semantic"} /\ analyzed = Len(root)
      /\ \A i \in 1 .. Len(root) :
           IllTyped(root[i]) => stored # <<>> \/ "semantic" \in lost
      /\ valid /\ nodes = <<>> /\ refused = NoValue /\ rendered = NoValue
      /\ unprinted = FALSE
      /\ written = NoValue /\ exit = NoValue /\ command \in Commands
      /\ command # "ir" => options.outputPath = NoValue
  BY DEF Analyzed, IInv, InAnalysis, Unlowered, Unrendered, PathOfIr,
         Undecided, Early
<1>2. Len(stored) = 0 <=> stored = <<>>
  BY DEF TypeOK
<1>3. LastStage(command) \in {"analyze", "lower"}
  BY <1>1 DEF LastStage
<1>4. /\ phase' = IF stored # <<>> THEN "report"
                 ELSE IF LastStage(command) = "analyze" THEN "render"
                 ELSE "lower"
      /\ success' = (stored = <<>> /\ LastStage(command) = "analyze")
      /\ UNCHANGED <<command, options, exit, root, analyzed, valid, nodes,
                     refused, stored, lost, rendered, written, unprinted>>
  BY <1>1, <1>2
     DEF Analyzed, StageEnds, ErrorCount, After, cli, lowering, diagnostics,
         rendering, Stay
<1>5. phase' \in {"report", "render", "lower"}
  BY ONLY <1>4
<1>6. Fresh' /\ Unlowered' /\ Unrendered' /\ PathOfIr' /\ InAnalysis'
  BY ONLY <1>1, <1>4, <1>5
     DEF Fresh, Unlowered, Unrendered, PathOfIr, InAnalysis, Early
<1>7. InLowering'
  <2>1. Prefix'
    BY ONLY <1>1, <1>4, TypeOK DEF Prefix, TypeOK
  <2>2. ASSUME NEW i \in 1 .. Len(root), stored = <<>>
        PROVE  IllTyped(root[i])' => "semantic" \in lost
    BY ONLY <1>1, <1>4, <2>2 DEF IllTyped
  <2> QED
    BY <1>1, <1>3, <1>4, <2>1, <2>2
       DEF InLowering, Accepted, LastStage, IllTyped
<1>8. InRender' /\ InReport' /\ Undecided'
  <2>1. LastStage(command)' = LastStage(command)
    BY ONLY <1>4 DEF LastStage
  <2>2. LastStage(command) = "analyze" => Finished'
    BY ONLY <1>1, <1>4, <2>1 DEF Finished
  <2> QED
    BY ONLY <1>1, <1>4, <1>5, <2>2 DEF InRender, InReport, Undecided, Accepted
<1>9. /\ SuccessIsEarned' /\ OutputIsComplete' /\ FailuresAreExplained'
      /\ AnalysisCoversGlobals'
  BY ONLY <1>1, <1>4, WordAssumption, BoundsAssumption
     DEF SuccessIsEarned, OutputIsComplete, FailuresAreExplained,
         AnalysisCoversGlobals, Exits, Refusals
<1> QED
  BY ONLY <1>6, <1>7, <1>8, <1>9 DEF IInv

\* A node for the next declaration makes the prefix longer.
LEMMA PrefixGrows ==
  ASSUME TypeOK, Prefix, Len(nodes) < Len(root), UNCHANGED root,
         nodes' = Append(nodes, NodeOf(Declared))
  PROVE  Prefix'
<1>1. nodes \in Seq(Node) /\ Len(nodes) \in Nat /\ Len(root) \in Nat
  BY DEF TypeOK, Node
<1>2. /\ Len(nodes') = Len(nodes) + 1
      /\ \A i \in 1 .. Len(nodes) : nodes'[i] = nodes[i]
      /\ nodes'[Len(nodes) + 1] = NodeOf(Declared)
  BY ONLY <1>1, nodes' = Append(nodes, NodeOf(Declared))
<1>3. ASSUME NEW i \in 1 .. Len(nodes')
      PROVE  nodes'[i] = NodeOf(root'[i])
  <2>1. CASE i = Len(nodes) + 1
    BY ONLY <1>2, <2>1, UNCHANGED root DEF Declared
  <2>2. CASE i \in 1 .. Len(nodes)
    BY ONLY <1>2, <2>2, UNCHANGED root, Prefix DEF Prefix
  <2> QED
    BY ONLY <1>1, <1>2, <1>3, <2>1, <2>2
<1>4. Len(nodes') <= Len(root')
  BY ONLY <1>1, <1>2, UNCHANGED root, Len(nodes) < Len(root)
<1> QED
  BY ONLY <1>3, <1>4 DEF Prefix, NodeOf

LEMMA PrefixComplete ==
  ASSUME TypeOK, Prefix, Len(nodes) = Len(root)
  PROVE  Complete
<1>1. nodes = [i \in 1 .. Len(nodes) |-> nodes[i]]
  BY DEF TypeOK
<1> QED
  BY <1>1 DEF Prefix, Complete

\* EmitFunction and EmitGlobal: either the prefix grows, or the module is
\* refused for a reason that analysis covers, and reported.
LEMMA InvEmit ==
  ASSUME TypeOK, IInv, EmitFunction \/ EmitGlobal
  PROVE  IInv'
<1>1. /\ phase = "lower" /\ valid /\ Len(nodes) < Len(root)
      /\ UNCHANGED <<cli, exit, said, phase, root, analyzed, rendering, success>>
  BY DEF EmitFunction, EmitGlobal, Lowers, Stay
<1>2. Declared \in Declaration /\ Len(nodes) + 1 \in 1 .. Len(root)
  <2>1. root \in Seq(Declaration) /\ Len(nodes) \in Nat /\ Len(root) \in Nat
    BY DEF TypeOK
  <2>2. Len(nodes) + 1 \in 1 .. Len(root)
    BY ONLY <1>1, <2>1
  <2> QED
    BY ONLY <2>1, <2>2, ElementOfSeq DEF Declared
<1>3. /\ LastStage(command) = "lower" /\ analyzed = Len(root)
      /\ \A i \in 1 .. Len(root) : IllTyped(root[i]) => "semantic" \in lost
      /\ Accepted /\ Prefix
      /\ exit = NoValue /\ written = NoValue
  BY <1>1 DEF IInv, InLowering, Undecided, Unrendered
<1>4. IllTyped(Declared) => "semantic" \in lost
  BY ONLY <1>2, <1>3 DEF Declared
<1>5. \/ NoError /\ nodes' = Append(nodes, NodeOf(Declared))
      \/ \E why \in Refusals :
            /\ SetError(why)
            /\ why \in {"not a value", "incompatible"} => IllTyped(Declared)
  <2>1. CASE EmitFunction
    <3>1. Declared.kind = "function" /\ Declared.initial = "none"
      BY <1>2, <2>1 DEF EmitFunction, Lowers, Declared, Declaration
    <3>2. CASE NoError
      BY <2>1, <3>1, <3>2 DEF EmitFunction, AddNode, NodeOf
    <3> QED
      BY <2>1, <3>2 DEF EmitFunction, Refusals
  <2>2. CASE EmitGlobal
    <3>1. /\ Declared.kind = "variable"
          /\ Declared.initial \in ValueType \cup {"none", "expression"}
      BY <1>2, <2>2 DEF EmitGlobal, Lowers, Declared, Declaration
    <3>2. CASE Refusal(Declared) = NoValue
      BY <2>2, <3>2 DEF EmitGlobal, AddNode, NodeOf
    <3>3. CASE Refusal(Declared) # NoValue
      <4>1. SetError(Refusal(Declared))
        BY <2>2, <3>3 DEF EmitGlobal
      <4>2. Refusal(Declared) \in Refusals
        BY ONLY <3>3 DEF Refusal, Refusals
      <4>3. Refusal(Declared) \in {"not a value", "incompatible"}
              => IllTyped(Declared)
        BY ONLY <3>1, <3>3 DEF Refusal, IllTyped
      <4> QED
        BY <4>1, <4>2, <4>3
    <3> QED
      BY <3>2, <3>3
  <2> QED
    BY <2>1, <2>2
<1>6. CASE NoError /\ nodes' = Append(nodes, NodeOf(Declared))
  <2>1. Prefix'
    BY <1>1, <1>3, <1>6, PrefixGrows
  <2>2. UNCHANGED <<valid, refused, stored, lost>>
    BY <1>6 DEF NoError, diagnostics
  <2>3. AnalysisCoversGlobals'
    BY ONLY <2>2, IInv DEF IInv, AnalysisCoversGlobals
  <2>4. InLowering'
    BY ONLY <1>1, <1>3, <2>1, <2>2
       DEF InLowering, Accepted, LastStage, IllTyped, cli
  <2> QED
    BY <1>1, <1>3, <2>3, <2>4, WordAssumption
       DEF IInv, Fresh, Unlowered, Unrendered, PathOfIr, InAnalysis, InRender,
           InReport, Undecided, SuccessIsEarned, OutputIsComplete,
           FailuresAreExplained, Early, Exits, cli, rendering
<1>7. ASSUME NEW why \in Refusals, SetError(why),
             why \in {"not a value", "incompatible"} => IllTyped(Declared)
      PROVE  IInv'
  <2>1. /\ valid' = FALSE /\ refused' = why /\ lost \subseteq lost'
        /\ stored' # <<>> \/ lost' # {}
    <3>1. stored \in Seq(Stages) /\ "ssa" \in Stages
      BY ONLY TypeOK DEF TypeOK, Stages
    <3>2. 1 \in Nat /\ 1 > 0
      OBVIOUS
    <3> QED
      BY ONLY <1>7, <3>1, <3>2, ReportKeepsErrors DEF SetError
  <2>2. AnalysisCoversGlobals'
    BY ONLY <1>4, <1>7, <2>1 DEF AnalysisCoversGlobals
  <2>3. InLowering'
    BY ONLY <1>1, <1>3, <2>1 DEF InLowering, LastStage, IllTyped, cli
  <2> QED
    BY <1>1, <1>3, <2>2, <2>3, WordAssumption
       DEF IInv, Fresh, Unlowered, Unrendered, PathOfIr, InAnalysis, InRender,
           InReport, Undecided, SuccessIsEarned, OutputIsComplete,
           FailuresAreExplained, Early, Exits, cli, rendering
<1> QED
  BY <1>5, <1>6, <1>7

LEMMA InvLowered ==
  ASSUME TypeOK, IInv, Lowered
  PROVE  IInv'
<1>1. /\ phase = "lower" /\ LastStage(command) = "lower"
      /\ analyzed = Len(root)
      /\ valid => Accepted /\ Prefix /\ Len(nodes) = Len(root)
      /\ ~valid => stored # <<>> \/ lost # {}
      /\ rendered = NoValue /\ written = NoValue /\ exit = NoValue
      /\ unprinted = FALSE
      /\ command \in Commands
      /\ command # "ir" => options.outputPath = NoValue
      /\ AnalysisCoversGlobals
  BY DEF Lowered, IInv, InLowering, Unrendered, PathOfIr, Undecided
<1>2. Len(stored) = 0 <=> stored = <<>>
  BY DEF TypeOK
<1>3. /\ phase' = IF valid /\ stored = <<>> THEN "render" ELSE "report"
      /\ success' = (valid /\ stored = <<>>)
      /\ UNCHANGED <<command, options, exit, root, analyzed, valid, nodes,
                     refused, stored, lost, rendered, written, unprinted>>
  BY <1>1, <1>2
     DEF Lowered, StageEnds, ErrorCount, cli, lowering, diagnostics, rendering,
         Stay
<1>4. phase' \in {"report", "render"}
  BY ONLY <1>3
<1>5. Fresh' /\ Unlowered' /\ Unrendered' /\ PathOfIr' /\ InAnalysis'
        /\ InLowering'
  BY ONLY <1>1, <1>3, <1>4
     DEF Fresh, Unlowered, Unrendered, PathOfIr, InAnalysis, InLowering, Early
<1>6. InRender' /\ InReport' /\ Undecided'
  <2>1. valid => Complete
    BY <1>1, PrefixComplete
  <2>2. valid => Finished
    BY ONLY <1>1, <2>1 DEF Finished
  <2>3. Finished' = Finished
    BY <1>3, SameModule
  <2> QED
    BY ONLY <1>1, <1>3, <1>4, <2>2, <2>3
       DEF InRender, InReport, Undecided, Accepted
<1>7. /\ SuccessIsEarned' /\ OutputIsComplete' /\ FailuresAreExplained'
      /\ AnalysisCoversGlobals'
  BY ONLY <1>1, <1>3, WordAssumption
     DEF SuccessIsEarned, OutputIsComplete, FailuresAreExplained,
         AnalysisCoversGlobals, Exits
<1> QED
  BY ONLY <1>5, <1>6, <1>7 DEF IInv

\* Rendering, printing and crashing leave the module as it is.
LEMMA InvClosing ==
  ASSUME TypeOK, IInv,
         Crash \/ Nothing \/ ToStdout \/ CannotOpen \/ WriteFile
           \/ PrintDiagnostics
  PROVE  IInv'
<1>1. UNCHANGED <<cli, root, lowering, stored, lost>>
  BY DEF Crash, Nothing, ToStdout, CannotOpen, WriteFile, PrintDiagnostics,
         diagnostics
<1>2. Complete' = Complete /\ Finished' = Finished
  BY <1>1, SameModule DEF cli, lowering
<1>3. AnalysisCoversGlobals'
  BY <1>1 DEF IInv, AnalysisCoversGlobals, lowering
<1>4. /\ Fresh' /\ Unlowered' /\ InAnalysis' /\ InLowering' /\ InRender'
      /\ phase' \in {"report", "ended"}
      /\ phase \in {"parse", "analyze", "lower", "render", "report"}
  BY DEF Crash, Nothing, ToStdout, ToFile, CannotOpen, WriteFile,
         PrintDiagnostics, Return, Fresh, Unlowered, InAnalysis, InLowering,
         InRender, Early
<1>5. PathOfIr'
  BY <1>1, <1>4 DEF PathOfIr, IInv, cli
<1>6. Unrendered'
  BY <1>4 DEF Unrendered
<1>7. CASE Crash
  <2>1. /\ phase' = "ended" /\ exit' = "crash" /\ written' = written
        /\ phase \in {"parse", "analyze", "lower"}
    BY <1>7 DEF Crash, Return, rendering
  <2>2. written = NoValue
    BY <2>1 DEF IInv, Unrendered
  <2>3. /\ InReport' /\ Undecided' /\ SuccessIsEarned' /\ OutputIsComplete'
        /\ FailuresAreExplained'
    BY ONLY <2>1, <2>2
       DEF InReport, Undecided, SuccessIsEarned, OutputIsComplete,
           FailuresAreExplained
  <2> QED
    BY <1>3, <1>4, <1>5, <1>6, <2>3 DEF IInv
<1>8. CASE phase = "render"
  <2>1. /\ Accepted /\ Finished /\ valid /\ success
        /\ rendered = NoValue /\ written = NoValue /\ exit = NoValue
        /\ unprinted = FALSE
        /\ command \in Commands
        /\ command # "ir" => options.outputPath = NoValue
    BY <1>8 DEF IInv, InRender, Unrendered, Undecided, PathOfIr
  <2>2. /\ phase' = "report" /\ exit' = exit
        /\ ~success' => said'
        /\ success' =>
             /\ written' = options.outputPath
             /\ rendered' = IF unprinted' THEN NoValue ELSE Printout
             /\ unprinted' => PrintsToStdout
        /\ written' # NoValue => command = "ir"
    <3>1. CASE Nothing
      BY <2>1, <3>1 DEF Nothing, Stay, rendering, Printout
    <3>2. CASE ToStdout
      <4>1. /\ phase' = "report" /\ UNCHANGED <<cli, exit, written, success>>
            /\ options.outputPath = NoValue
            /\ command \in {"parse", "ir"}
        BY <2>1, <3>2 DEF ToStdout, Stay
      <4>2. \/ ~unprinted' /\ rendered' = Printout
            \/ unprinted' /\ rendered' = NoValue
        BY <3>2, <4>1 DEF ToStdout, Printout
      <4> QED
        BY <2>1, <4>1, <4>2 DEF PrintsToStdout
    <3>3. CASE CannotOpen
      BY <2>1, <3>3 DEF CannotOpen, ToFile, rendering
    <3>4. CASE WriteFile
      <4>1. /\ phase' = "report" /\ exit' = exit /\ command = "ir"
            /\ written' = options.outputPath
            /\ ~unprinted'
        BY <2>1, <3>4 DEF WriteFile, ToFile
      <4>2. (success' /\ rendered' = "ssa") \/ (~success' /\ said')
        BY <3>4 DEF WriteFile
      <4> QED
        BY <4>1, <4>2 DEF Printout
    <3> QED
      BY <1>8, <3>1, <3>2, <3>3, <3>4 DEF Crash, PrintDiagnostics
  <2>3. InReport'
    BY <1>1, <1>2, <2>1, <2>2
       DEF InReport, Earned, Accepted, Printout, PrintsToStdout, cli
  <2>4. OutputIsComplete'
    <3>1. command = "ir" => Complete
      BY <2>1 DEF Finished, LastStage
    <3> QED
      BY <1>1, <1>2, <2>1, <2>2, <3>1
         DEF OutputIsComplete, Accepted, lowering
  <2>5. Undecided' /\ SuccessIsEarned' /\ FailuresAreExplained'
    BY ONLY <2>1, <2>2, WordAssumption
       DEF Undecided, SuccessIsEarned, FailuresAreExplained, Exits
  <2> QED
    BY <1>3, <1>4, <1>5, <1>6, <2>3, <2>4, <2>5 DEF IInv
<1>9. CASE PrintDiagnostics
  <2>1. /\ phase = "report" /\ phase' = "ended"
        /\ said' = (said \/ stored # <<>>)
        /\ exit' = IF success THEN "OK" ELSE "ERROR_COMPILER"
        /\ UNCHANGED <<rendered, written, unprinted>>
    BY <1>9 DEF PrintDiagnostics, Return, rendering
  <2>2. /\ success => Earned
        /\ ~success => said \/ stored # <<>> \/ lost # {}
        /\ OutputIsComplete
    BY <2>1 DEF IInv, InReport
  <2>3. success => Earned'
    BY <1>1, <1>2, <2>1, <2>2 DEF Earned, Printout, PrintsToStdout, cli
  <2>4. OutputIsComplete'
    BY <1>1, <1>2, <2>1, <2>2 DEF OutputIsComplete, lowering
  <2>5. InReport' /\ Undecided' /\ SuccessIsEarned' /\ FailuresAreExplained'
    BY <1>1, <2>1, <2>2, <2>3
       DEF InReport, Undecided, SuccessIsEarned, FailuresAreExplained
  <2> QED
    BY <1>3, <1>4, <1>5, <1>6, <2>4, <2>5 DEF IInv
<1> QED
  BY <1>7, <1>8, <1>9 DEF Nothing, ToStdout, ToFile, CannotOpen, WriteFile

LEMMA InvStep == TypeOK /\ IInv /\ [Next]_vars => IInv'
<1> SUFFICES ASSUME TypeOK, IInv, [Next]_vars PROVE IInv'
  OBVIOUS
<1>1. CASE CommandLine /\ UNCHANGED <<root, lowering, diagnostics, rendering,
                                      success>>
  BY <1>1, InvCommandLine
<1>2. CASE Driver
  BY <1>2, InvOpening, InvParse, InvAnalyzeDeclaration, InvAnalyzed, InvEmit,
     InvLowered, InvClosing DEF Driver
<1>3. CASE UNCHANGED vars
  <2>1. Complete' = Complete /\ Finished' = Finished /\ Prefix' = Prefix
    BY <1>3, SameModule DEF vars, cli, lowering
  <2> QED
    BY <1>3, <2>1
       DEF vars, cli, lowering, diagnostics, rendering, IInv, Fresh, Unlowered,
           Unrendered, PathOfIr, InAnalysis, InLowering, InRender, InReport,
           Undecided, SuccessIsEarned, OutputIsComplete, FailuresAreExplained,
           AnalysisCoversGlobals, Early, Accepted, Earned, Printout,
           PrintsToStdout, IllTyped, LastStage
<1> QED
  BY <1>1, <1>2, <1>3 DEF Next

LEMMA InvAlways == Spec => []IInv
<1>1. Init => IInv
  BY InvInit
<1>2. TypeOK /\ IInv /\ [Next]_vars => IInv'
  BY InvStep
<1> QED
  BY <1>1, <1>2, TypesCorrect, PTL DEF Spec

\* Exit code OK: whatever the words, the file, the errors and the memory, a
\* command that ends so read its file, reported nothing, lowered or analyzed
\* every declaration, and its output has arrived unless it went to stdout and
\* stdout failed.
THEOREM SuccessesAreEarned == Spec => []SuccessIsEarned
<1>1. IInv => SuccessIsEarned
  BY DEF IInv
<1> QED
  BY <1>1, InvAlways, PTL

\* The output file: it is only emptied for a complete module.
THEOREM OutputsAreComplete == Spec => []OutputIsComplete
<1>1. IInv => OutputIsComplete
  BY DEF IInv
<1> QED
  BY <1>1, InvAlways, PTL

\* Exit codes other than OK: stderr says why, or memory ran out.
THEOREM FailuresAreAlwaysExplained == Spec => []FailuresAreExplained
<1>1. IInv => FailuresAreExplained
  BY DEF IInv
<1> QED
  BY <1>1, InvAlways, PTL

\* Globals: emit_global refuses what the analyzer refuses only when a
\* diagnostic of the analyzer was lost.
THEOREM GlobalsAreCovered == Spec => []AnalysisCoversGlobals
<1>1. IInv => AnalysisCoversGlobals
  BY DEF IInv
<1> QED
  BY <1>1, InvAlways, PTL

-----------------------------------------------------------------------------
(***************************************************************************)
(* The arguments: what the loop of cli_run has done with the words before  *)
(* index, told from the role of each.                                      *)
(***************************************************************************)

\* The role of the i-th word, from the roles of the words before it.
RoleAt(words, role, i) ==
  LET ended == \E j \in 2 .. i - 1 : role[j] = "end"
  IN  IF i > 2 /\ role[i - 1] = "option" /\ TakesNext(words[i - 1])
        THEN "value"
      ELSE IF ended \/ words[i].form = "plain" THEN "file"
      ELSE IF words[i].form = "ends" THEN "end"
      ELSE IF words[i].form = "help" THEN "help"
      ELSE "option"

LEMMA NumbersFromZero ==
  ASSUME NEW S \in SUBSET Nat, 0 \in S, \A n \in S : n + 1 \in S
  PROVE  S = Nat
<1> SUFFICES ASSUME S # Nat PROVE FALSE
  OBVIOUS
<1> DEFINE R == {s \in Nat \X Nat : s[1] < s[2]}
<1>1. \E n \in Nat \ S : \A m \in Nat \ S : ~(<<m, n>> \in R)
  <2>1. IsWellFoundedOn(R, Nat)
    BY NatLessThanWellFounded DEF OpToRel
  <2> HIDE DEF R
  <2>2. Nat \ S # {} /\ Nat \ S \subseteq Nat
    OBVIOUS
  <2> QED
    BY <2>1, <2>2, WFMin
<1>2. PICK n \in Nat \ S : \A m \in Nat \ S : ~(m < n)
  BY <1>1
<1>3. n # 0
  BY <1>2
<1>4. n - 1 \in Nat /\ n - 1 < n
  BY <1>3
<1>5. n - 1 \in S
  BY <1>2, <1>4
<1>6. (n - 1) + 1 \in S
  BY <1>5
<1> QED
  BY <1>2, <1>4, <1>6

\* A role depends on the roles before it only.
LEMMA RoleAtAgrees ==
  ASSUME NEW words, NEW f, NEW g, NEW i \in Nat, i >= 2,
         \A j \in 2 .. i - 1 : f[j] = g[j]
  PROVE  RoleAt(words, f, i) = RoleAt(words, g, i)
<1>1. (\E j \in 2 .. i - 1 : f[j] = "end")
        <=> (\E j \in 2 .. i - 1 : g[j] = "end")
  OBVIOUS
<1>2. i > 2 => i - 1 \in 2 .. i - 1
  OBVIOUS
<1>3. i > 2 => f[i - 1] = g[i - 1]
  BY <1>2
<1>4. (i > 2 /\ f[i - 1] = "option" /\ TakesNext(words[i - 1]))
        <=> (i > 2 /\ g[i - 1] = "option" /\ TakesNext(words[i - 1]))
  BY <1>3
<1> QED
  BY <1>1, <1>4, Zenon DEF RoleAt

\* The roles exist, however many words there are.
LEMMA RolesExist ==
  ASSUME NEW words, NEW n \in Nat
  PROVE  \E f : f = [i \in 2 .. n |-> RoleAt(words, f, i)]
<1> DEFINE S == {m \in Nat : \E f : f = [i \in 2 .. m |-> RoleAt(words, f, i)]}
<1>1. 0 \in S
  <2>1. 2 .. 0 = {}
    OBVIOUS
  <2> DEFINE f == [i \in {} |-> RoleAt(words, << >>, i)]
  <2>2. f = [i \in 2 .. 0 |-> RoleAt(words, f, i)]
    BY <2>1
  <2> QED
    BY <2>2
<1>2. ASSUME NEW m \in S PROVE m + 1 \in S
  <2>1. m \in Nat /\ m + 1 \in Nat
    BY <1>2
  <2>2. PICK f : f = [i \in 2 .. m |-> RoleAt(words, f, i)]
    BY <1>2
  <2> DEFINE g == [i \in 2 .. m + 1 |-> RoleAt(words, f, i)]
  <2>3. \A i \in 2 .. m : f[i] = g[i]
    <3>1. 2 .. m \subseteq 2 .. m + 1
      BY <2>1
    <3>2. \A i \in 2 .. m : f[i] = RoleAt(words, f, i)
      BY <2>2
    <3> QED
      BY <3>1, <3>2
  <2>4. ASSUME NEW i \in 2 .. m + 1
        PROVE  RoleAt(words, f, i) = RoleAt(words, g, i)
    <3> HIDE DEF g
    <3>1. i \in Nat /\ i >= 2 /\ 2 .. i - 1 \subseteq 2 .. m
      BY <2>1, <2>4
    <3>2. \A j \in 2 .. i - 1 : f[j] = g[j]
      BY <2>3, <3>1
    <3> QED
      BY <3>1, <3>2, RoleAtAgrees
  <2>5. g = [i \in 2 .. m + 1 |-> RoleAt(words, g, i)]
    <3> DEFINE F(h) == [i \in 2 .. m + 1 |-> RoleAt(words, h, i)]
    <3>1. F(f) = F(g)
      <4> HIDE DEF g
      <4> QED
        BY <2>4
    <3> QED
      BY <3>1
  <2> HIDE DEF g
  <2> QED
    BY <2>1, <2>5
<1>3. S \in SUBSET Nat
  OBVIOUS
<1> HIDE DEF S
<1>4. S = Nat
  BY <1>1, <1>2, <1>3, NumbersFromZero
<1>5. n \in S
  BY <1>4
<1> QED
  BY <1>5 DEF S

LEMMA RoleEquation ==
  ASSUME NEW words \in Seq(Word), NEW i \in 2 .. Len(words)
  PROVE  RoleIn(words)[i] = RoleAt(words, RoleIn(words), i)
<1>1. Len(words) \in Nat
  OBVIOUS
<1>2. \E f : f = [k \in 2 .. Len(words) |-> RoleAt(words, f, k)]
  BY <1>1, RolesExist
<1>3. RoleIn(words)
        = CHOOSE f : f = [k \in 2 .. Len(words) |-> RoleAt(words, f, k)]
  BY DEF RoleIn, RoleAt
<1>4. RoleIn(words)
        = [k \in 2 .. Len(words) |-> RoleAt(words, RoleIn(words), k)]
  BY <1>2, <1>3
<1> QED
  BY <1>4

\* The output options below n.
OutputsBelow(words, role, n) ==
  {i \in 2 .. n - 1 : role[i] = "option" /\ words[i].option = "output"}

FilesBelow(role, n) == {i \in 2 .. n - 1 : role[i] = "file"}

\* The texts of the files below n, in order.
Gathered(words, role, n, texts) ==
  \E place \in [1 .. Len(texts) -> FilesBelow(role, n)] :
    /\ \A i, j \in DOMAIN place : i < j => place[i] < place[j]
    /\ FilesBelow(role, n) = {place[i] : i \in DOMAIN place}
    /\ \A i \in DOMAIN place : texts[i] = words[place[i]].text

\* The output path is the value of the last output option.
LastOutput(words, role, n, path) ==
  \/ path = NoValue /\ OutputsBelow(words, role, n) = {}
  \/ \E i \in OutputsBelow(words, role, n) :
       /\ path = ValueAt(words, i)
       /\ \A j \in OutputsBelow(words, role, n) : j <= i

\* No word below n asks for help, names an option the command does not have,
\* or is an option whose value is the word at n.
Clean(words, role, n, c) ==
  /\ \A i \in 2 .. n - 1 : role[i] # "help"
  /\ \A i \in 2 .. n - 1 :
       role[i] = "option" => words[i].option \in OptionsOf(c)
  /\ n > 2 => ~(role[n - 1] = "option" /\ TakesNext(words[n - 1]))

Ended(role, n) == \E j \in 2 .. n - 1 : role[j] = "end"

Timed(words, role, n) ==
  \E i \in 2 .. n - 1 : role[i] = "option" /\ words[i].option = "time"

\* The loop has looked at the words below index.
InLoop ==
  LET role == RoleIn(argv)
  IN  /\ Clean(argv, role, index, command)
      /\ endOfOptions <=> Ended(role, index)
      /\ options.showTime <=> Timed(argv, role, index)
      /\ LastOutput(argv, role, index, options.outputPath)
      /\ Gathered(argv, role, index, positionals)

Scanned ==
  /\ phase = "start" =>
       /\ index = 2 /\ positionals = <<>> /\ endOfOptions = FALSE
       /\ options = [showTime |-> FALSE, outputPath |-> NoValue]
  /\ phase = "arguments" => InLoop
  /\ phase = "command" => InLoop /\ index > Len(argv)

\* The words from 2 to n, and those before n.
LEMMA OneMore ==
  ASSUME NEW n \in Nat, n >= 2
  PROVE  /\ 2 .. (n + 1) - 1 = (2 .. n - 1) \cup {n}
         /\ n \notin 2 .. n - 1
OBVIOUS

\* What a word at n changes.
LEMMA CleanGrows ==
  ASSUME NEW words, NEW role, NEW n \in Nat, n >= 2, NEW c,
         Clean(words, role, n, c), role[n] # "help",
         role[n] = "option" =>
           words[n].option \in OptionsOf(c) /\ ~TakesNext(words[n])
  PROVE  Clean(words, role, n + 1, c)
<1>1. n + 1 > 2 /\ (n + 1) - 1 = n
  OBVIOUS
<1> QED
  BY <1>1, OneMore DEF Clean

LEMMA EndedGrows ==
  ASSUME NEW role, NEW n \in Nat, n >= 2
  PROVE  Ended(role, n + 1) <=> Ended(role, n) \/ role[n] = "end"
BY OneMore DEF Ended

LEMMA TimedGrows ==
  ASSUME NEW words, NEW role, NEW n \in Nat, n >= 2
  PROVE  Timed(words, role, n + 1)
           <=> \/ Timed(words, role, n)
               \/ role[n] = "option" /\ words[n].option = "time"
BY OneMore DEF Timed

LEMMA OutputStays ==
  ASSUME NEW words, NEW role, NEW n \in Nat, n >= 2, NEW path,
         LastOutput(words, role, n, path),
         ~(role[n] = "option" /\ words[n].option = "output")
  PROVE  LastOutput(words, role, n + 1, path)
<1>1. OutputsBelow(words, role, n + 1) = OutputsBelow(words, role, n)
  BY OneMore DEF OutputsBelow
<1> QED
  BY <1>1 DEF LastOutput

LEMMA OutputSet ==
  ASSUME NEW words, NEW role, NEW n \in Nat, n >= 2,
         role[n] = "option" /\ words[n].option = "output"
  PROVE  LastOutput(words, role, n + 1, ValueAt(words, n))
<1>1. OutputsBelow(words, role, n + 1) = OutputsBelow(words, role, n) \cup {n}
  BY OneMore DEF OutputsBelow
<1>2. \A j \in OutputsBelow(words, role, n) : j <= n
  BY DEF OutputsBelow
<1> QED
  BY <1>1, <1>2 DEF LastOutput

LEMMA FilesStay ==
  ASSUME NEW words, NEW role, NEW n \in Nat, n >= 2, NEW texts,
         Gathered(words, role, n, texts), role[n] # "file"
  PROVE  Gathered(words, role, n + 1, texts)
<1>1. FilesBelow(role, n + 1) = FilesBelow(role, n)
  BY OneMore DEF FilesBelow
<1> QED
  BY <1>1 DEF Gathered

LEMMA FileGathered ==
  ASSUME NEW words, NEW role, NEW n \in Nat, n >= 2, NEW S,
         NEW texts \in Seq(S), words[n].text \in S,
         Gathered(words, role, n, texts), role[n] = "file"
  PROVE  Gathered(words, role, n + 1, Append(texts, words[n].text))
<1>1. FilesBelow(role, n + 1) = FilesBelow(role, n) \cup {n}
  BY OneMore DEF FilesBelow
<1>2. \A i \in FilesBelow(role, n) : i \in Nat /\ i < n
  BY DEF FilesBelow
<1> DEFINE more == Append(texts, words[n].text)
<1>3. /\ Len(texts) \in Nat /\ Len(more) = Len(texts) + 1
      /\ \A i \in 1 .. Len(texts) : more[i] = texts[i]
      /\ more[Len(texts) + 1] = words[n].text
  OBVIOUS
<1>4. PICK place \in [1 .. Len(texts) -> FilesBelow(role, n)] :
        /\ \A i, j \in DOMAIN place : i < j => place[i] < place[j]
        /\ FilesBelow(role, n) = {place[i] : i \in DOMAIN place}
        /\ \A i \in DOMAIN place : texts[i] = words[place[i]].text
  BY DEF Gathered
<1> HIDE DEF more
<1> DEFINE now == [i \in 1 .. Len(more) |->
                     IF i = Len(texts) + 1 THEN n ELSE place[i]]
<1>5. DOMAIN place = 1 .. Len(texts)
  OBVIOUS
<1>6. 1 .. Len(more) = (1 .. Len(texts)) \cup {Len(texts) + 1}
  BY <1>3
<1>7. /\ now[Len(texts) + 1] = n
      /\ \A i \in 1 .. Len(texts) : now[i] = place[i] /\ now[i] < n
  <2>1. \A i \in 1 .. Len(texts) : i # Len(texts) + 1
    BY <1>3
  <2> QED
    BY <1>2, <1>6, <2>1
<1>8. now \in [1 .. Len(more) -> FilesBelow(role, n + 1)]
  BY <1>1, <1>6, <1>7
<1>9. DOMAIN now = (1 .. Len(texts)) \cup {Len(texts) + 1}
  BY <1>6
<1> HIDE DEF now
<1>10. \A i, j \in DOMAIN now : i < j => now[i] < now[j]
  <2> SUFFICES ASSUME NEW i \in DOMAIN now, NEW j \in DOMAIN now, i < j
               PROVE  now[i] < now[j]
    OBVIOUS
  <2>1. i \in 1 .. Len(texts)
    BY <1>3, <1>9
  <2>2. CASE j = Len(texts) + 1
    BY <1>7, <2>1, <2>2
  <2>3. CASE j \in 1 .. Len(texts)
    BY <1>4, <1>5, <1>7, <2>1, <2>3
  <2> QED
    BY <1>9, <2>2, <2>3
<1>11. FilesBelow(role, n + 1) = {now[i] : i \in DOMAIN now}
  BY <1>1, <1>4, <1>5, <1>7, <1>9
<1>12. \A i \in DOMAIN now : more[i] = words[now[i]].text
  BY <1>3, <1>4, <1>5, <1>7, <1>9
<1> QED
  BY <1>8, <1>10, <1>11, <1>12 DEF Gathered, more

LEMMA ScannedInit == Init => Scanned
BY DEF Init, CommandLineInit, Scanned

\* The word the loop looks at, and its role.
LEMMA RoleHere ==
  ASSUME TypeOK, InLoop, index <= Len(argv)
  PROVE  /\ index \in Nat /\ index >= 2
         /\ RoleIn(argv)[index] =
              IF endOfOptions \/ argv[index].form = "plain" THEN "file"
              ELSE IF argv[index].form = "ends" THEN "end"
              ELSE IF argv[index].form = "help" THEN "help"
              ELSE "option"
<1>1. index \in 2 .. Len(argv) /\ index \in Nat /\ index >= 2
  BY DEF TypeOK
<1>2. endOfOptions <=> Ended(RoleIn(argv), index)
  BY DEF InLoop
<1>3. index > 2 => ~(RoleIn(argv)[index - 1] = "option"
                       /\ TakesNext(argv[index - 1]))
  BY DEF InLoop, Clean
<1>4. RoleIn(argv)[index] = RoleAt(argv, RoleIn(argv), index)
  BY <1>1, RoleEquation DEF TypeOK
<1>5. RoleIn(argv)[index] =
        IF Ended(RoleIn(argv), index) \/ argv[index].form = "plain"
          THEN "file"
        ELSE IF argv[index].form = "ends" THEN "end"
        ELSE IF argv[index].form = "help" THEN "help"
        ELSE "option"
  BY <1>3, <1>4, Zenon DEF RoleAt, Ended
<1> QED
  BY <1>1, <1>2, <1>5

\* Before the first word nothing has been scanned.
LEMMA NothingScanned ==
  ASSUME NEW words, NEW role, NEW c
  PROVE  /\ Clean(words, role, 2, c) /\ ~Ended(role, 2)
         /\ ~Timed(words, role, 2) /\ LastOutput(words, role, 2, NoValue)
         /\ Gathered(words, role, 2, <<>>)
<1>1. 2 .. 2 - 1 = {} /\ ~(2 > 2)
  OBVIOUS
<1>2. Gathered(words, role, 2, <<>>)
  <2>1. FilesBelow(role, 2) = {} /\ 1 .. Len(<<>>) = {}
    BY <1>1 DEF FilesBelow
  <2> DEFINE place == [i \in {} |-> i]
  <2>2. place \in [1 .. Len(<<>>) -> FilesBelow(role, 2)]
    BY <2>1
  <2>3. DOMAIN place = {}
    OBVIOUS
  <2> HIDE DEF place
  <2> QED
    BY <2>1, <2>2, <2>3 DEF Gathered
<1> QED
  BY <1>1, <1>2 DEF Clean, Ended, Timed, LastOutput, OutputsBelow

LEMMA ScannedFlag ==
  ASSUME TypeOK, InLoop, SetFlag
  PROVE  InLoop'
<1> DEFINE role == RoleIn(argv)
<1>1. /\ index <= Len(argv) /\ argv[index].form \in {"long", "short"}
      /\ ~endOfOptions /\ argv[index].option = "time"
      /\ argv[index].option \in OptionsOf(command)
      /\ options' = [options EXCEPT !.showTime = TRUE]
      /\ index' = index + 1
      /\ UNCHANGED <<argv, command, endOfOptions, positionals>>
  BY DEF SetFlag, At, Refused
<1>2. index \in Nat /\ index >= 2 /\ role[index] = "option"
  BY <1>1, RoleHere
<1>3. ~TakesNext(argv[index]) /\ argv[index].option # "output"
  BY <1>1 DEF TakesNext
<1>4. options'.showTime = TRUE /\ options'.outputPath = options.outputPath
  BY <1>1 DEF TypeOK
<1>5. role' = role
  BY <1>1
<1> HIDE DEF role
<1>6. /\ Clean(argv, role, index, command)
      /\ endOfOptions <=> Ended(role, index)
      /\ LastOutput(argv, role, index, options.outputPath)
      /\ Gathered(argv, role, index, positionals)
  BY DEF InLoop, role
<1>7. Clean(argv, role, index + 1, command)
  BY <1>1, <1>2, <1>3, <1>6, CleanGrows
<1>8. endOfOptions <=> Ended(role, index + 1)
  BY <1>2, <1>6, EndedGrows
<1>9. Timed(argv, role, index + 1)
  BY <1>1, <1>2, TimedGrows
<1>10. LastOutput(argv, role, index + 1, options.outputPath)
  BY <1>2, <1>3, <1>6, OutputStays
<1>11. Gathered(argv, role, index + 1, positionals)
  BY <1>2, <1>6, FilesStay
<1> QED
  BY ONLY <1>1, <1>4, <1>5, <1>7, <1>8, <1>9, <1>10, <1>11 DEF InLoop, role

LEMMA ScannedEnd ==
  ASSUME TypeOK, InLoop, EndOfOptions
  PROVE  InLoop'
<1> DEFINE role == RoleIn(argv)
<1>1. /\ index <= Len(argv) /\ argv[index].form = "ends" /\ ~endOfOptions
      /\ endOfOptions' = TRUE /\ index' = index + 1
      /\ UNCHANGED <<argv, command, positionals, options>>
  BY DEF EndOfOptions, At
<1>2. index \in Nat /\ index >= 2 /\ role[index] = "end"
  BY <1>1, RoleHere
<1>3. role' = role
  BY <1>1
<1> HIDE DEF role
<1>4. /\ Clean(argv, role, index, command)
      /\ options.showTime <=> Timed(argv, role, index)
      /\ LastOutput(argv, role, index, options.outputPath)
      /\ Gathered(argv, role, index, positionals)
  BY DEF InLoop, role
<1>5. Clean(argv, role, index + 1, command)
  BY <1>2, <1>4, CleanGrows
<1>6. Ended(role, index + 1)
  BY <1>2, EndedGrows
<1>7. options.showTime <=> Timed(argv, role, index + 1)
  BY <1>2, <1>4, TimedGrows
<1>8. LastOutput(argv, role, index + 1, options.outputPath)
  BY <1>2, <1>4, OutputStays
<1>9. Gathered(argv, role, index + 1, positionals)
  BY <1>2, <1>4, FilesStay
<1> QED
  BY ONLY <1>1, <1>3, <1>5, <1>6, <1>7, <1>8, <1>9 DEF InLoop, role

LEMMA ScannedFile ==
  ASSUME TypeOK, InLoop, Positional
  PROVE  InLoop'
<1> DEFINE role == RoleIn(argv)
           text == argv[index].text
<1>1. /\ index <= Len(argv)
      /\ endOfOptions \/ argv[index].form = "plain"
      /\ positionals' = Append(positionals, text) /\ index' = index + 1
      /\ UNCHANGED <<argv, command, endOfOptions, options>>
  BY DEF Positional, At
<1>2. index \in Nat /\ index >= 2 /\ role[index] = "file"
  BY <1>1, RoleHere
<1>3. positionals \in Seq(Text) /\ text \in Text
  <2>1. argv \in Seq(Word) /\ positionals \in Seq(Text)
    BY DEF TypeOK
  <2>2. index \in 1 .. Len(argv)
    BY <1>1, <1>2
  <2>3. argv[index] \in Word
    BY <2>1, <2>2, ElementOfSeq
  <2> QED
    BY <2>1, <2>3 DEF Text
<1>4. role' = role
  BY <1>1
<1> HIDE DEF role
<1>5. /\ Clean(argv, role, index, command)
      /\ endOfOptions <=> Ended(role, index)
      /\ options.showTime <=> Timed(argv, role, index)
      /\ LastOutput(argv, role, index, options.outputPath)
      /\ Gathered(argv, role, index, positionals)
  BY DEF InLoop, role
<1>6. Clean(argv, role, index + 1, command)
  BY <1>2, <1>5, CleanGrows
<1>7. endOfOptions <=> Ended(role, index + 1)
  BY <1>2, <1>5, EndedGrows
<1>8. options.showTime <=> Timed(argv, role, index + 1)
  BY <1>2, <1>5, TimedGrows
<1>9. LastOutput(argv, role, index + 1, options.outputPath)
  BY <1>2, <1>5, OutputStays
<1>10. Gathered(argv, role, index + 1, Append(positionals, text))
  BY <1>2, <1>3, <1>5, FileGathered
<1> HIDE DEF text
<1> QED
  BY ONLY <1>1, <1>4, <1>6, <1>7, <1>8, <1>9, <1>10 DEF InLoop, role

\* The value of an output option, in the word or in the next one, is not
\* looked at again.
LEMMA ScannedOutput ==
  ASSUME TypeOK, InLoop, SetString
  PROVE  InLoop'
<1> DEFINE role == RoleIn(argv)
<1>1. /\ index <= Len(argv) /\ argv[index].form \in {"long", "short"}
      /\ ~endOfOptions /\ argv[index].option = "output"
      /\ argv[index].option \in OptionsOf(command)
      /\ ~(TakesNext(argv[index]) /\ index = Len(argv))
      /\ options' = [options EXCEPT !.outputPath = Value]
      /\ index' = Following
      /\ UNCHANGED <<argv, command, endOfOptions, positionals>>
  BY DEF SetString, At, Refused
<1>2. index \in Nat /\ index >= 2 /\ role[index] = "option"
  BY <1>1, RoleHere
<1>3. Value = ValueAt(argv, index)
  BY DEF Value, ValueAt
<1>4. /\ options'.showTime = options.showTime
      /\ options'.outputPath = ValueAt(argv, index)
  BY <1>1, <1>3 DEF TypeOK
<1>5. role' = role
  BY <1>1
<1>6. TakesNext(argv[index]) => role[index + 1] = "value"
  <2> SUFFICES ASSUME TakesNext(argv[index]) PROVE role[index + 1] = "value"
    OBVIOUS
  <2>1. index + 1 \in 2 .. Len(argv) /\ index + 1 > 2
          /\ (index + 1) - 1 = index
    BY <1>1, <1>2 DEF TypeOK
  <2>2. role[index + 1] = RoleAt(argv, role, index + 1)
    BY <2>1, RoleEquation DEF TypeOK
  <2> HIDE DEF role
  <2>3. RoleAt(argv, role, index + 1) = "value"
    BY <1>2, <2>1 DEF RoleAt
  <2> QED
    BY <2>2, <2>3
<1> HIDE DEF role
<1>7. /\ Clean(argv, role, index, command)
      /\ endOfOptions <=> Ended(role, index)
      /\ options.showTime <=> Timed(argv, role, index)
      /\ Gathered(argv, role, index, positionals)
  BY DEF InLoop, role
<1>8. endOfOptions <=> Ended(role, index + 1)
  BY <1>2, <1>7, EndedGrows
<1>9. options.showTime <=> Timed(argv, role, index + 1)
  BY <1>1, <1>2, <1>7, TimedGrows
<1>10. LastOutput(argv, role, index + 1, ValueAt(argv, index))
  BY <1>1, <1>2, OutputSet
<1>11. Gathered(argv, role, index + 1, positionals)
  BY <1>2, <1>7, FilesStay
<1>12. CASE ~TakesNext(argv[index])
  <2>1. index' = index + 1
    BY <1>1, <1>12 DEF Following
  <2>2. Clean(argv, role, index + 1, command)
    BY <1>1, <1>2, <1>7, <1>12, CleanGrows
  <2> QED
    BY ONLY <1>1, <1>4, <1>5, <2>1, <2>2, <1>8, <1>9, <1>10, <1>11
       DEF InLoop, role
<1>13. CASE TakesNext(argv[index])
  <2> DEFINE n == index + 1
  <2>1. n \in Nat /\ n >= 2 /\ n + 1 = index + 2 /\ n > 2 /\ n - 1 = index
    BY <1>2
  <2>2. index' = n + 1
    BY <1>1, <1>13, <2>1 DEF Following
  <2>3. role[n] = "value"
    BY <1>6, <1>13
  <2>4. Clean(argv, role, n + 1, command)
    <3>1. 2 .. (n + 1) - 1 = (2 .. index - 1) \cup {index, n}
      BY <1>2
    <3>2. (n + 1) - 1 = n
      BY <2>1
    <3> HIDE DEF n
    <3> QED
      BY <1>1, <1>2, <1>7, <2>3, <3>1, <3>2 DEF Clean
  <2> HIDE DEF n
  <2>5. endOfOptions <=> Ended(role, n + 1)
    BY <1>8, <2>1, <2>3, EndedGrows DEF n
  <2>6. options.showTime <=> Timed(argv, role, n + 1)
    BY <1>9, <2>1, <2>3, TimedGrows DEF n
  <2>7. LastOutput(argv, role, n + 1, ValueAt(argv, index))
    BY <1>10, <2>1, <2>3, OutputStays DEF n
  <2>8. Gathered(argv, role, n + 1, positionals)
    BY <1>11, <2>1, <2>3, FilesStay DEF n
  <2> QED
    BY ONLY <1>1, <1>4, <1>5, <2>2, <2>4, <2>5, <2>6, <2>7, <2>8
       DEF InLoop, role
<1> QED
  BY <1>12, <1>13

\* Outside the loop nothing of it changes; the words never do.
LEMMA ScannedElsewhere ==
  ASSUME Scanned, UNCHANGED cli,
         phase' \in {"start", "arguments", "command"} => phase' = phase
  PROVE  Scanned'
<1>1. InLoop => InLoop'
  BY DEF InLoop, cli
<1> QED
  BY <1>1 DEF Scanned, cli

LEMMA ScannedCommandLine ==
  ASSUME TypeOK, Scanned, CommandLine
  PROVE  Scanned'
<1>1. CASE PrintUsage \/ PrintHelp \/ UnknownCommand \/ CommandHelp
             \/ RefuseOption
  <2>1. phase' = "ended"
    BY <1>1 DEF PrintUsage, PrintHelp, UnknownCommand, CommandHelp,
                RefuseOption, Complain, Return
  <2> QED
    BY <2>1 DEF Scanned
<1>2. CASE FindCommand
  <2>1. /\ phase' = "arguments" /\ index' = 2 /\ endOfOptions' = FALSE
        /\ positionals' = <<>> /\ options'.showTime = FALSE
        /\ options'.outputPath = NoValue
    BY <1>2 DEF FindCommand, Scanned
  <2>2. InLoop'
    BY <2>1, NothingScanned DEF InLoop
  <2> QED
    BY <2>1, <2>2 DEF Scanned
<1>3. CASE EndOfOptions \/ SetFlag \/ SetString \/ Positional
  <2>1. phase = "arguments" /\ phase' = "arguments"
    BY <1>3 DEF EndOfOptions, SetFlag, SetString, Positional, At
  <2>2. InLoop'
    BY <1>3, <2>1, ScannedEnd, ScannedFlag, ScannedOutput, ScannedFile
       DEF Scanned
  <2> QED
    BY <2>1, <2>2 DEF Scanned
<1>4. CASE RunCommand
  <2>1. /\ phase = "arguments" /\ phase' = "command" /\ index > Len(argv)
        /\ UNCHANGED cli
    BY <1>4 DEF RunCommand
  <2>2. InLoop'
    BY <2>1 DEF Scanned, InLoop, cli
  <2>3. (index > Len(argv))'
    BY <2>1 DEF cli
  <2> QED
    BY <2>1, <2>2, <2>3 DEF Scanned
<1> QED
  BY <1>1, <1>2, <1>3, <1>4 DEF CommandLine

LEMMA ScannedStep == TypeOK /\ Scanned /\ [Next]_vars => Scanned'
<1> SUFFICES ASSUME TypeOK, Scanned, [Next]_vars PROVE Scanned'
  OBVIOUS
<1>1. CASE CommandLine
  BY <1>1, ScannedCommandLine
<1>2. CASE Driver
  <2>1. UNCHANGED cli /\ phase' \notin {"start", "arguments", "command"}
    BY <1>2 DEF Driver, WrongFiles, NoCompiler, CompilerInit, ReadSource,
       Unreadable, Parse, AnalyzeDeclaration, Analyzed, EmitFunction,
       EmitGlobal, Lowered, Crash, Nothing, ToStdout, CannotOpen, WriteFile,
       PrintDiagnostics, Complain, Return, StageEnds, After, Lowers, ToFile,
       cli
  <2> QED
    BY <2>1, ScannedElsewhere
<1>3. CASE UNCHANGED vars
  <2>1. UNCHANGED cli /\ phase' = phase
    BY <1>3 DEF vars
  <2> QED
    BY <2>1, ScannedElsewhere
<1> QED
  BY <1>1, <1>2, <1>3 DEF Next

\* At the end of the loop the words below index are all the words.
LEMMA ScannedRoles == TypeOK /\ Scanned => ArgumentsKeepTheirRoles
<1> SUFFICES ASSUME TypeOK, Scanned, phase = "command"
             PROVE  ArgumentsKeepTheirRoles
  BY DEF ArgumentsKeepTheirRoles
<1> DEFINE role == RoleIn(argv)
           Places(r) == {i \in 2 .. Len(argv) : role[i] = r}
           Outputs == {i \in Places("option") : argv[i].option = "output"}
           Last == CHOOSE i \in Outputs : \A j \in Outputs : j <= i
<1>1. 2 .. index - 1 = 2 .. Len(argv)
  <2>1. index \in Nat /\ (index = 2 \/ index <= Len(argv) + 1)
          /\ Len(argv) \in Nat /\ index > Len(argv) /\ index >= 2
    BY DEF TypeOK, Scanned
  <2> QED
    BY ONLY <2>1
<1>2. /\ Clean(argv, role, index, command)
      /\ options.showTime <=> Timed(argv, role, index)
      /\ LastOutput(argv, role, index, options.outputPath)
      /\ Gathered(argv, role, index, positionals)
  BY DEF Scanned, InLoop
<1> HIDE DEF role
<1>3. Places("help") = {}
  BY <1>1, <1>2 DEF Clean
<1>4. \A i \in Places("option") : argv[i].option \in OptionsOf(command)
  BY <1>1, <1>2 DEF Clean
<1>5. options.showTime =
        (\E i \in Places("option") : argv[i].option = "time")
  <2>1. options.showTime \in BOOLEAN
    BY DEF TypeOK
  <2>2. Timed(argv, role, index)
          <=> \E i \in Places("option") : argv[i].option = "time"
    BY <1>1 DEF Timed
  <2> QED
    BY <1>2, <2>1, <2>2
<1>6. options.outputPath =
        IF Outputs = {} THEN NoValue ELSE ValueAt(argv, Last)
  <2>1. OutputsBelow(argv, role, index) = Outputs
    BY <1>1 DEF OutputsBelow
  <2>2. Outputs \subseteq Int
    OBVIOUS
  <2> HIDE DEF Outputs
  <2>3. CASE options.outputPath = NoValue /\ Outputs = {}
    BY <2>3
  <2>4. ASSUME NEW i \in Outputs, options.outputPath = ValueAt(argv, i),
               \A j \in Outputs : j <= i
        PROVE  options.outputPath = ValueAt(argv, Last) /\ Outputs # {}
    <3>1. Last \in Outputs /\ \A j \in Outputs : j <= Last
      BY <2>4
    <3> HIDE DEF Last
    <3>2. Last <= i /\ i <= Last /\ Last \in Int /\ i \in Int
      BY <2>2, <2>4, <3>1
    <3>3. Last = i
      BY ONLY <3>2
    <3> QED
      BY <2>4, <3>3
  <2> QED
    BY <1>2, <2>1, <2>3, <2>4 DEF LastOutput
<1>7. \E place \in [1 .. Len(positionals) -> Places("file")] :
        /\ \A i, j \in DOMAIN place : i < j => place[i] < place[j]
        /\ Places("file") = {place[i] : i \in DOMAIN place}
        /\ \A i \in DOMAIN place : positionals[i] = argv[place[i]].text
  <2>1. FilesBelow(role, index) = Places("file")
    BY <1>1 DEF FilesBelow
  <2> QED
    BY <1>2, <2>1 DEF Gathered
<1> QED
  BY <1>3, <1>4, <1>5, <1>6, <1>7 DEF ArgumentsKeepTheirRoles, role

\* cli_run: a command starts with every argument used once and for one
\* purpose, for command lines of any length, options and values in any order.
THEOREM ArgumentsAreUsedOnce == Spec => []ArgumentsKeepTheirRoles
<1>1. Init => Scanned
  BY ScannedInit
<1>2. TypeOK /\ Scanned /\ [Next]_vars => Scanned'
  BY ScannedStep
<1>3. TypeOK /\ Scanned => ArgumentsKeepTheirRoles
  BY ScannedRoles
<1> QED
  BY <1>1, <1>2, <1>3, TypesCorrect, PTL DEF Spec

=============================================================================
