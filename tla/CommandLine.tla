----------------------------- MODULE CommandLine -----------------------------
(***************************************************************************)
(* src/cli.c with the command table of src/lep.c: from the words of the    *)
(* command line to a command, its options and its files.                   *)
(*                                                                         *)
(* A word is a record: what it looks like to the code (form), the option   *)
(* it names, the value written into it, and its text.                      *)
(***************************************************************************)
EXTENDS Naturals, Sequences

CONSTANTS
  Word,      \* the words a user may type
  NoValue,   \* NULL: no command, no attached value, no output path
  MaxWords   \* bounds the words on a command line

Forms == {"plain", "ends", "help", "long", "short"}

Commands == {"build", "parse", "check", "ir"}

Exits == {"OK", "ERROR_COMPILER", "ERROR_CLI", "crash"}

ASSUME WordAssumption ==
  /\ \A w \in Word : w.form \in Forms
  /\ MaxWords \in Nat
  /\ NoValue \notin Exits

VARIABLES
  argv,          \* argv[1 ..]
  command,       \* the command found
  index,         \* the argument the loop looks at
  endOfOptions,  \* end_of_options
  positionals,
  options,       \* command_options
  phase,         \* where the program is
  exit,          \* the exit code
  said           \* a message was sent to stderr; nobody asks if it arrived

cli == <<argv, command, index, endOfOptions, positionals, options>>

CommandLineInit ==
  /\ argv \in UNION { [1 .. n -> Word] : n \in 0 .. MaxWords }
  /\ command = NoValue
  /\ index = 2
  /\ endOfOptions = FALSE
  /\ positionals = <<>>
  /\ options = [showTime |-> FALSE, outputPath |-> NoValue]
  /\ phase = "start"
  /\ exit = NoValue
  /\ said = FALSE

\* return from main
Return(code) == phase' = "ended" /\ exit' = code

\* Exit with a complaint on stderr.
Complain(code) == Return(code) /\ said' = TRUE

Stay == UNCHANGED <<exit, said>>

-----------------------------------------------------------------------------
\* Before the loop

PrintUsage ==
  /\ phase = "start"
  /\ argv = <<>>
  /\ Complain("ERROR_CLI")
  /\ UNCHANGED cli

PrintHelp ==
  /\ phase = "start"
  /\ argv # <<>> /\ argv[1].form = "help"
  /\ Return("OK")
  /\ UNCHANGED <<cli, said>>

UnknownCommand ==
  /\ phase = "start"
  /\ argv # <<>> /\ argv[1].form # "help"
  /\ argv[1].text \notin Commands
  /\ Complain("ERROR_CLI")
  /\ UNCHANGED cli

FindCommand ==
  /\ phase = "start"
  /\ argv # <<>> /\ argv[1].form # "help"
  /\ argv[1].text \in Commands
  /\ command' = argv[1].text
  /\ phase' = "arguments"
  /\ Stay
  /\ UNCHANGED <<argv, index, endOfOptions, positionals, options>>

-----------------------------------------------------------------------------
\* One round of the loop

OptionsOf(c) == IF c = "ir" THEN {"time", "output"} ELSE {"time"}

\* The option takes the next argument, whatever it looks like.
TakesNext(w) == w.option = "output" /\ w.value = NoValue

\* find_long_option and find_short_option find nothing, or set_option fails
Refused(w) ==
  \/ w.option \notin OptionsOf(command)
  \/ w.option = "time" /\ w.value # NoValue
  \/ TakesNext(w) /\ index = Len(argv)

\* The word at index is an argument of one of these forms.
At(forms) ==
  /\ phase = "arguments"
  /\ index <= Len(argv)
  /\ argv[index].form \in forms

EndOfOptions ==
  /\ At({"ends"}) /\ ~endOfOptions
  /\ endOfOptions' = TRUE
  /\ index' = index + 1
  /\ Stay
  /\ UNCHANGED <<argv, command, positionals, options, phase>>

CommandHelp ==
  /\ At({"help"}) /\ ~endOfOptions
  /\ Return("OK")
  /\ UNCHANGED <<cli, said>>

RefuseOption ==
  /\ At({"long", "short"}) /\ ~endOfOptions
  /\ Refused(argv[index])
  /\ Complain("ERROR_CLI")
  /\ UNCHANGED cli

SetFlag ==
  /\ At({"long", "short"}) /\ ~endOfOptions
  /\ argv[index].option = "time" /\ ~Refused(argv[index])
  /\ options' = [options EXCEPT !.showTime = TRUE]
  /\ index' = index + 1
  /\ Stay
  /\ UNCHANGED <<argv, command, endOfOptions, positionals, phase>>

\* The bugs of the mutated runs: a value's word is looked at again, a word is
\* passed over after an attached value, or index moves only with a value.
FollowingNext == index + 1
FollowingTwo == index + 2
FollowingValue == IF TakesNext(argv[index]) THEN index + 2 ELSE index

\* Where the value of the option at index is, and where the loop goes on.
Value == IF TakesNext(argv[index]) THEN argv[index + 1].text
                                   ELSE argv[index].value

Following == IF TakesNext(argv[index]) THEN index + 2 ELSE index + 1

SetString ==
  /\ At({"long", "short"}) /\ ~endOfOptions
  /\ argv[index].option = "output" /\ ~Refused(argv[index])
  /\ options' = [options EXCEPT !.outputPath = Value]
  /\ index' = Following
  /\ Stay
  /\ UNCHANGED <<argv, command, endOfOptions, positionals, phase>>

Positional ==
  /\ At(Forms)
  /\ endOfOptions \/ argv[index].form = "plain"
  /\ positionals' = Append(positionals, argv[index].text)
  /\ index' = index + 1
  /\ Stay
  /\ UNCHANGED <<argv, command, endOfOptions, options, phase>>

RunCommand ==
  /\ phase = "arguments"
  /\ index > Len(argv)
  /\ phase' = "command"
  /\ Stay
  /\ UNCHANGED cli

CommandLine ==
  \/ PrintUsage \/ PrintHelp \/ UnknownCommand \/ FindCommand
  \/ EndOfOptions \/ CommandHelp \/ RefuseOption \/ SetFlag \/ SetString
  \/ Positional \/ RunCommand
=============================================================================
