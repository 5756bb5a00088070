# Verification of the lep compiler

`lep` (in `src/`) compiles a small typed language. Source text goes through a
lexer, a recursive-descent parser, a semantic analysis and a lowering to an SSA
intermediate representation, which it prints. This directory holds TLA+ models of
the compiler, the TLC runs that check them on small instances, and TLAPS proofs of
what holds for every instance.

## 1. Inventory

| Component | Files (under `src/`) | State it keeps | Operations | Model |
|---|---|---|---|---|
| Command line | `src/cli.c` | argument position, options, positionals | `cli_run` | `CommandLine` |
| Compiler driver, diagnostics | `src/lep.c`, `src/main.c`, `src/diagnostic.c` | stage reached, diagnostics, exit code, output file | `run_command`, `compiler_run_to_stage`, `add_diagnosticv` | `Compiler` |
| Lexer, tokens | `src/lexer.c`, `src/token.c`, `include/strview.h` | position, line, column | `next_token` and what it calls | `Lexer` |
| Parser, AST | `src/parser.c`, `src/ast.c`, `grammar.txt` | token, lookahead, AST under construction, errors | one function for each nonterminal, error recovery | `Parser` |
| Semantic analysis | `src/analyzer.c`, `src/symtab.c` | scope stack of symbol tables, function table | `declare_functions`, `semantic_analysis`, `typecheck_*`, `definitely_returns` | `Declarations`, `Analyzer` |
| Lowering of a module | `src/ssair.c` 966-1060 | module IR, `valid` | `generate_ssair`, `emit_global` | `Compiler` |
| Lowering of a function | `src/ssair.c` 182-300, 380-964 | `values`, `names`, `next_versions`, `bindings`, current block, the C stack | `emit_function` and every `emit_*` below it, `collapse_degenerate_phis` | `Lower`, `LowerMeaning` |
| SSA data structures | `include/ssair.h`, `src/ssair.c` 98-380, 799-905 | blocks, instructions, operands, edges | `append_instruction`, `link_blocks`, `emit_branch`, `emit_conditional_branch`, `emit_phi`, `emit_phi_entry`, `rewrite_value_uses`, unlinking of phis | `SsaIR` |
| Name index | `src/ssair.c` 160-300 | names, index slots, cells of bindings and versions, snapshots | `intern_name_view`, `rehash_names`, `new_value_view`, `bind_value_view`, `restore_bindings` | `NameBindings`, `NameIndex` |
| Hash table | `src/hashtab.c` | slots, count | insert, lookup, delete, growth | `KeyMap`, `HashTab` |
| Array list | `src/array_list.c` | items, count, capacity | init, reserve, push, get; remove, pop, swap, shrink | `ArrayList` (the first four) |
| Linked list | `src/LList.c` | head, tail | push, pop | not modelled (section 6) |
| SSA printing | `src/ssair.c` | | `print_ssair` | not modelled (section 6) |
| Stack; code generation; register allocation | `src/stack.c`, `src/codegen.c`, `src/regalloc.c` | | | not modelled: not part of the build |

How they interact: everything runs in one thread. The command line picks a command
and a file. The driver runs the stages in order and stops when `error_count` is not
0, so what the stages tell each other is the AST and the list of diagnostics. The
parser pulls tokens from the lexer and builds the AST. The analysis walks the AST with a stack of symbol
tables; `generate_ssair` walks it again with tables of its own (`names`,
`bindings`, `next_versions`) and trusts what the analysis accepted. It does not
see the analysis' scopes. Functions of the AST walk call each other recursively
and keep what they need across the calls in C locals.

What is hard here is not concurrency but *state that is read before a nested walk
and used after it*, *two stages that must agree without sharing data*, and
*rewriting while walking*:

* `emit_if` and `emit_while` save the bindings, walk statements of any shape, and
  restore, merge or complete phis with what they saved; the block in which a
  branch ends is not the one in which it began.
* `emit_assignment` creates its destination before the right-hand side is walked
  and hands it down as the place to compute into.
* bindings outlive the scopes of the analysis; `definitely_returns` and the
  control flow graph are two separate ideas of where a function can end.
* a diagnostic that finds no memory is printed nowhere and counts as no error,
  though the count is what the stages are gated by.
* output may fail on its way: the renderer of a file asks whether it did, those of stdout do
  not.
* four arrays and an index describe the names of a function; each grows at a moment
  of its own, and snapshots of one are copied back after it has grown.
* error recovery in a parser with one token of lookahead: what is skipped, and
  whether each round consumes something.
* errors in the lowering are reported (`set_error`) or swallowed
  (`return none_operand()`, early `return`).
* `collapse_degenerate_phis` rewrites uses in the whole function while it walks
  the list of phis, and repeats until nothing changes.

What makes each component correct:

* *SSA of a function*: single assignment; definitions dominate uses; phis match
  predecessors; both ends of an edge agree with the branch; every block ends;
  operands are typed; printed names are unique; no phi is left that the
  simplification calls degenerate; lowering terminates.
  Above all, the code means what the program means.
* *Analysis*: what it accepts can be lowered; `definitely_returns` is sound.
* *Parser*: it accepts the language of `grammar.txt`, ends on every text, and the tree
  has all tokens in order, grouped as precedence demands.
* *Lexer*: longest lexemes; every character is consumed once or reported; locations are
  those of the text.
* *Tables and lists*: they implement a map and the bindings of names; every probe ends.
* *Driver*: success is earned, failures are explained, an output file is opened for a
  complete module only.

The full list of hazards, each at its line and with the properties aimed at it, is
in `PROJECT.json`.

## 2. Modules

| Module | What it is |
|---|---|
| `Declarations` | what the lowering may rely on after the analysis: the declaration in sight for each name, and the names of each open scope |
| `Analyzer`, `AnalyzerProperties`, `MCAnalyzer` | the state machine of `analyze_ast` on right and wrong programs, with the stack of symbol tables; shown to implement `Declarations` |
| `AnalyzerProofs` | all the properties of the analysis and the refinement of `Declarations`, for every program and for expressions of any depth |
| `SsaIR` | pure operators on a function body: building, linking, phi simplification, and the vocabulary of the properties (definition sites, reachability with a barred block for dominance) |
| `Lower` | (extends `SsaIR` and `Declarations`) the state machine of `emit_function` and `collapse_degenerate_phis` |
| `LowerProperties` | type invariant, safety, liveness, and the promises that are not kept |
| `LowerMeaning` | (extends `LowerProperties`) a history of the program that is picked, an evaluator of the program, an executor of the blocks, and that they agree |
| `MCLower`, `MCLowerMeaning` | instances for TLC |
| `LowerProofs` | lemmas on what the operators return and what a step does to the stack; `TypeCorrect`: `Spec => []TypeOK`, one lemma per action; then the inductive invariant `FlowInv` of the control flow, what the operators of `SsaIR` and a step of the stack do to it, and what follows: the control flow agrees, phis match, blocks end, nothing is left to collapse |
| `ValueProofs` | `VersionsCorrect` and `ValuesAssignedOnce`: the values of a function have different printed names and are assigned once; `BindingsHaveTypes`, `CodeHasTypes` and `LocalsAreBound`: they have the types of the names they are bound to, and names that may be read are bound |
| `ReachProofs` | `ReturnsAreSound`: after statements that definitely return, control does not reach what is built next; `DefinitionsDominate`: a value is defined on every path to its use; induction over `Nat`, and the search for reachable blocks |
| `ArrayList` | the growing array of `array_list.c` as operators on a buffer whose cells may be garbage |
| `NameBindings` | the abstract specification of the names of a function: numbering, versions, bindings, snapshots |
| `NameIndex`, `NameIndexProperties`, `MCNameIndex` | the arrays and the open-addressing index that hold them; shown to implement `NameBindings` |
| `NameIndexProofs` | every name is found, the arrays stay together, and the safety half of the refinement, for every index |
| `KeyMap` | the abstract specification of a table: a map with one caller |
| `HashTab`, `HashTabProperties`, `MCHashTab` | open addressing, probe by probe; shown to implement `KeyMap` |
| `HashTabProofs` | unbroken chains, the exact count and the safety half of the refinement, for every table |
| `Lexer`, `Parser` | `next_token` and the parse functions, composed: the parser asks for tokens, the lexer delivers them |
| `ParserProperties` | types, lexemes, locations |
| `ParserGrammar`, `MCParser` | the grammar and the shape of trees, by recursive operators; texts for TLC |
| `ParserProofs` | types, lexemes and locations, for every text |
| `CommandLine`, `Compiler` | `cli_run`; `run_command` with the stages, `generate_ssair`, diagnostics and output |
| `CompilerProperties`, `MCCompiler` | what a command promises; command lines for TLC |
| `CompilerProofs` | what a command promises, proved for every command line and file |

### The walk, and the programs it ranges over

The AST is not a parameter of `Lower`. The walk over it is a sequence of calls of
`emit_statement` and `emit_expression`; at each point the environment picks the
node that the walk meets next. A behaviour is the lowering of one program, and the
model ranges over all programs with at most `MaxStmts` statements and `MaxExprs`
operators, calls and connectives. `ctrl` is the stack of active C calls, one frame
for each, with the locals that are used again after a nested call returns
(`incoming`, `then`, `else`, `merge`, `target`, ...). `generate_ssair` only runs on
a tree the analysis accepted, so an action that picks a node has the analysis'
conditions as guards: `decl` and `scopes` are what `semantic_analysis` knows at the
same point of the tree (which declaration of a name is visible, whether it is
initialised).

| C | Model |
|---|---|
| `function->values[i]`, `function->names`, `build->next_versions`, `build->bindings` | `values[i+1]`, `names`, `nextVersion`, `bindings` (`Invalid` = 0 also for a name that is not interned) |
| `function->blocks`, `build->block` | `blocks` (block k is printed `block.(k-1)`), `cur` |
| active call of `emit_if` | frames `IFCOND`, `THEN`, `ELSE`/`NOELSE`, `MERGE` in this order |
| active call of `emit_while` | frames `HEADER`, `WHILECOND`, `LOOP` |
| active call of `emit_expression` | `BINARY`, `NOT`, `CALL`, `LEFT`, `RIGHT`; literals and identifiers return at once |
| `emit_assignment`, `return`, `{ }`, function body | `ASSIGN`, `RETURN`, `BLOCK`, `FBODY` |
| loops over names and over phis | one step for each iteration (`MergeName`, `HeaderName`, `VisitPhi`, `NextBlock`, `EndPass`) |
| `set_error(...)` | `Fail(error)`: `status` becomes the error, the walk stops |
| a node skipped although nothing was reported | `dropped` becomes TRUE and the walk goes on |

An `else if` is an else list that holds one `if`, as in the AST. Opcodes are
classes (`ARITH`, `CMP`, ...), because nothing here depends on which addition is
meant; literals are numbers in a type, and 1 of type BOOL is `true`.

### The analysis

`Analyzer` ranges over programs the same way, with two differences. The function
headers are part of the initial state, because `declare_functions` reads them all
before anything is walked. And the environment picks nodes without regard to whether
they are right: the model counts the errors the code reports, and it goes on after an
error exactly where the code does. Expressions are trees: the statements take theirs from
`Exprs`, and these and their parts make up `Expr`, the domain of `Height`, which says of each
how deep it nests. An expression is checked in one step, since `expr_type` and the functions
below it change nothing but the error count (and, in `typecheck_assignment`, one `initialized` flag).

| C | Model |
|---|---|
| `analyzer->symbols` (a list of hash tables, global table first) | `symbols`, a sequence of functions from names to entries, `Absent` for a name that is not there |
| `stEntry.f_info` | `fun`, the index of the header it describes, 0 for NULL |
| `analyzer->context.current_function` | `current`, and `next` for its place in the list of functions |
| active calls of `semantic_analysis` on statement lists | `ctrl`; `rets` is what `definitely_returns` finds in the list so far |
| `analyzer->diagnostics->error_count` | `errors` |
| a null pointer is dereferenced | `status = "crashed"` |

`ImplementsDeclarations` ties the two stages together. `Lower` uses the actions of
`Declarations` as the guards of its environment; `Analyzer` shows that, while no error
is found, searching the stack of tables from the inside behaves like them. `TypingAgrees`
does the same for the typing rules: `Accepted` is the set of types that the rules in the
guards of `Lower` allow an expression, and `ExprType` is what the code computes, with the
errors it reports.

### The meaning of a program

`LowerMeaning` adds one history variable to `Lower`. A node is open as long as its
activation is on the stack, so `tree` grows and shrinks with `ctrl`: a pushed activation
opens a node, a leaf and a completed node become the last child of the innermost open
one. When lowering has succeeded, `tree` holds the program. `Run` evaluates it from the
outside in: environment, short-circuit connectives, loops. `Execute` runs the blocks:
on the way into a block all its phis read the old values, then its instructions run in
order. Both know a call only as an event with arguments whose answer is chosen
beforehand, and both read ARITH and CMP as operators that tell their operands apart.
`MeaningPreserved` compares the calls, the end and the value for all arguments and
answers. A program that reads a variable before it has a value is not compared.

### Tables

A step of `HashTab` or `NameIndex` is one iteration of a probe loop or of the loop that
rehashes, so a call takes many steps and its intermediate states are visible. `hash` is
chosen once from a set of functions.

`HashTab`: `size_t` wraps at `SizeMax`; `calloc` may fail. The refinement mapping reads
the map off the old slots (`Content`) also while the new ones are being filled: growth,
successful or not, must not be seen by the caller. `ht_delete` empties a slot and breaks
the chains that go on behind it; nothing in the program deletes, so `HashTab` allows a
deletion where it is `Harmless`: no other entry is probed past the slot.

| C | Model (`NameIndex`) |
|---|---|
| `function->names` (an array list) | `names`, a buffer with a count and cells that may be garbage |
| `build->names.slots`, `.count` | `slots` on 0 .. capacity - 1 (0 is free), `count` |
| `build->bindings`, `build->next_versions` | sequences of cells, each with a length of its own |
| snapshots of the callers | `saved`, copies of `bindings` that may be shorter than it when they come back |

A number in the model is the number in C plus 1, which is what a slot holds. The mapping
to `NameBindings` forgets numbers and cells: a name has been seen or not, has a next
version, and is bound or not, now and in each snapshot. That is the view `Lower` takes of
`names`, `nextVersion` and `bindings`.

### Lexer and parser

A text is a sequence of characters; a few letters, digits and keywords stand for all,
since `next_token` only asks for their class. One step of `Lexer` is one round of the loop
of `next_token` (a token, a blank, a comment, a character nobody knows). The parser waits
while `wanted` is not 0.

| C | Model |
|---|---|
| the C stack of parse functions | `todo`, the tasks that are left, the next first; a call is replaced by the tasks of its body |
| nodes held in locals | `nodes`, a stack of values; a chain linked by `next` is a sequence |
| `p->token`, `p->lookahead` | `token`, `lookahead`; `get_next` moves the lookahead and asks for another |
| reported errors | `parseErrors`, `lexErrors`: positions |
| a null pointer is dereferenced | `crashed` |

### Driver

A word of a command line is a record of what `cli_run` distinguishes: a plain word, `--`, a
help option, a short or long option with or without a value, and the text it would be if it
were taken as a value. Each iteration of the argument loop is a step. A stage is what the
driver sees of it: the errors it reports, each stored or lost (`add_diagnosticv` returns
when memory runs out), and what it leaves behind; `generate_ssair` is a step for each
declaration, with the checks of `emit_global` one by one, and `emit_function` is accepted
or refused (`Lower` says more). Where the code does not look at the result of an
allocation the model has a crash. Output may fail, on stdout as in a file: `rendered` is what
has arrived in full, and only for a file does failure reach `success`. `said` is a message
that was sent to stderr; whether it arrived, nobody asks. `lost`, `refused` and `unprinted`
(stdout failed) are history.

## 3. Runs

| Run | Instance | What it shows |
|---|---|---|
| `lower_control` | at most 4 statements, connectives and calls (2 of the latter), one bool variable, a function with a bool parameter and a void one without; 947 000 states | the code does what the program says; definitions dominate uses; phis match predecessors; every block ends; no degenerate phi remains; `definitely_returns` is sound for the control flow; lowering terminates |
| `lower_types` | 2 statements and 2 operators over an int variable, a bool global and a bool variable called `tmp`; functions that return bool, int or have no return type; 2.8 million states | `TypeOK`; printed names are unique; initialised locals are bound; with one type per name, bindings have the declared type and the generated code is typed |
| `lower_scopes` | 5 statements, 3 operators, connectives and calls, one name declared as bool and as int in different scopes; 1.5 million states | values are assigned once and edges agree with the branches, also when lowering skips code |
| `analyzer_rules` | six programs of one or two functions (redefined, clashing with a parameter, without a result type, with a refused parameter), 3 statements or globals, ten expressions right and wrong; 287 000 states | the code's assertions hold; scopes follow blocks; errors are exactly those of the typing rules; an accepted program describes every function and gives the lowering the view it is modelled with |
| `name_index` | 3 names, two hash functions, index of 4 then 8 slots, arrays of 1 cell that double, 2 values, a snapshot; 1.0 million states | every name has an initialised cell in each array; the index finds each name and is at most half full; the arrays implement `NameBindings` (safety, and every call returns) |
| `hashtab_map` | 3 keys, all hash functions into 0..3, initial sizes 1 to 3, growth up to 12 slots, harmless deletions | probe chains are unbroken, also in the table that is being filled; the count is exact; the table implements a map (safety, and every call returns) |
| `parser_texts` | six programs with every character removed, replaced or preceded by one of 18 others, and all texts of up to three characters over 13 that the lexer tells apart; 759 000 states | longest lexemes; true locations; exactly the language of the grammar and the listed additions; trees that keep order and precedence; parsing ends |
| `driver_commands` | command lines of up to 4 words out of ten, files of up to 2 declarations over two types, one error at a time; 2.5 million states | arguments keep their roles; exit codes, messages and output files tell the truth, with the exceptions of section 5; the analysis covers what `emit_global` needs; every command ends |
| `returns_refused` | violation of `AcceptedReturnsAreLowered` | section 5 |
| `declared_refused` | violation of `DeclaredIsAssignable` | section 5 |
| `stale_type_drops` | violation of `NothingDropped` | section 5 |
| `analyzer_crash` | violation of `NeverCrashes` | section 5 |

Why the bounds are enough for what is asked: four statements allow every nesting
of two control structures with an assignment in each arm, a loop whose body ends in
a return or contains an if with one returning branch, and a loop in a branch of an
if, which are the shapes in which saved bindings, branch ends and header phis meet.
Two operators give a connective in a connective, a connective as an argument, and an
operator whose operand moved the current block. One name is enough to have phis that
refer to each other; a second and third matter only for versions and types. The
three runs together take every action.

For the analysis, three statements allow a declaration in an inner block, its use and
one after it; a redefinition across two scopes; an if with an else that both return.
Programs have at most two functions because only the pair of the one that is walked and
one that is called or has the same name matters.

In `lower_control`, statements and operators share one bound (`MaxNodes`): four
statements without operators, three with a connective or a call, two with a connective in
a connective. `MaxCalls` is 3: the call after them never returns, in the program as in
the code. `MaxTests` (8) is more than a loop over one bool can take before its state
repeats, so a program that reaches it runs for ever, and the code must too. Blocks are
left to `lower_scopes`, arithmetic and comparison to `lower_types`.

For the tables, the sizes of the code (41 in the symbol tables, 1024 in `init_hashtab`,
16 slots and 4 cells in the name index) are scaled down so that three keys fill a table:
sizes 1 and 3 have the boundary cases of `n >= size / 2` (0 for size 1, rounded down for
3), and doubling twice reaches the limit. In `name_index` the arrays of one cell grow
between a snapshot and its return, and the index grows with the third name; one hash
function puts all names in a chain that wraps, the other lets chains part in the larger
index.

For the parser, each text is one edit away from a right program or is short: errors occur
at every place where a token is expected, and recovery starts in every list of statements.
For the driver, four words are a command, an option, its value and a file; the ten words
are one of each kind `cli_run` tells apart. `build` is left out of the run because it
differs from the other commands by what it says, not by what it does.

Deadlock is not checked where the program ends (`Lower`, `Parser`, `Compiler`); `Analyzer`
has an explicit final step (`Ended`) instead, so that a walk with frames left and nothing
to do is found as a deadlock; the tables can always be called again.

Fairness: in `Lower`, `Parser` and `Compiler`, `WF_vars(Next)`; in `HashTab` and `NameIndex`,
`WF_vars(Running)` (a call that has begun goes on; nobody has to call). One thread works on
a finite input; nothing can keep it from taking its next step, and weak fairness of the
whole next-state relation says no more than that.

Two models were also compared with the compiled program: `Lexer` and `Parser` on the 6 918
texts of the run (trees, errors and their locations), `CommandLine` and `Compiler` on some
25 command lines (`-o -h`, `-tX`, `--=x`, an output file that cannot be written, ...).

Each property has a mutant in `PROJECT.json`: a plausible slip in a definition of the
model (bindings not restored, a missing edge, a version counter that is not
advanced, one pass of the phi removal instead of a fixpoint...) that makes TLC find
the property violated. The mutated forms stand before the definition they replace.

## 4. Proofs

### The lowering of a function

Proved for all values of the constants (any set of names, any headers and callees, any
bounds on the program), under the assumptions named in `Lower`: `DeclTypesAssumption`,
`HeadersAssumption` (parameter names differ, which the analysis requires),
`CalleesAssumption`, `GlobalsAssumption`, `LiteralsAssumption`, `BoundsAssumption`.
What the proofs know of the analysis is the actions of `Declarations`.

* `TypeCorrect`. `TypeOK` is more than types: every operand refers to a value that
  exists, every edge and frame to a block that exists, every saved snapshot to values
  that exist, a loop header is followed by its body and exit, a name loop stays inside
  the names, and the activations nest (`Nested`: an operand's caller waits for an
  operand, a statement's caller walks a list), so that returning to the caller is always
  possible. `TypeOK` is inductive as it stands. The argument: types only grow
  (`FrameGrows`, `BlockGrows`: what is well typed with n values, m blocks and k names is
  well typed with more), each operator of `SsaIR` preserves them, each stack operator
  preserves nesting (`PushType`, `ReplaceType`, `ReturnStack`, `EndStatementStack`), and
  each action is a composition of these.
* `VersionsCorrect`. Uniqueness of (name, version) is not inductive: nothing in it keeps
  `next_versions` ahead. The invariant adds `VersionsBelow` (each version is below the
  counter of its name) and `TypeOK`. Every step changes the values by `new_value_view` or
  not at all (`NextStep`), and that operator keeps both (`NewValueVersions`).
* `FlowInvariant`, and from it `ControlFlowAgrees`, `PhisMatch`, `BlocksEnd` and
  `NothingLeftToCollapse`: the four properties of the graph and its phis.

None of the four is inductive. Whether `emit_if` may write the phi of a merge with the two
ends it remembers depends on nobody having branched to that block in the meantime, and
whether a block ends depends on somebody coming back to fill it. The code keeps both facts
in the locals of its recursive calls, so `FlowInv` is about the frames of `ctrl`:

* `Awaits(f, b)`: activation f will go on in block b. `Unstarted`: such a block is not the
  current one, has no code and no successors. `Apart`: it is awaited by one activation,
  once. `FrameFlow`: the edges into it are those the activation remembers (the decision of
  a connective, the ends of the branches that reached the merge, the block before a loop);
  the loops over names run in a block that has only phis yet, and a loop header is the
  current block or has ended.
* `Marked`: `terminated` holds exactly of the blocks that end in a branch or return.
  `OpenForCode`: only a statement list can find itself in a block that has ended; inside an
  expression or in the loops over names, code may be appended. `ExpressionsNest`: nothing
  but operands stands on the stack above an operand's caller, which is why the right block
  of a connective is still open when its operand returns.
* `Covered`: a block has ended, is awaited or is the current one, as long as no node was
  skipped. At the end nothing is awaited, so every block has ended.
* `CarriedIn` (in `FrameFlow`): every header phi is for a name that was bound before the
  loop, so that closing the loop gives each of them its second operand.
* `NoneLeft`: in a pass that has removed nothing, no phi before the cursor collapses.

The argument is one lemma for each action, over three layers: what an operator does to
the code and edges of a block (`EmitEffect`, `LinkEffect`, `BranchEffect`, ...), whether
the graph stays consistent under it (`FlowEmit`, `FlowBranch`, `FlowSplit`, `FlowNew`,
`RewrittenFlow`, `RemovedFlow`), and how activations that are kept, replaced or ended hand
their blocks on (`LoweringKept`). `FlowInv` was checked by TLC as an invariant of
the instances of `Lower` before it was proved.

* `ValuesAssignedOnce`. A new instruction must not define a value again and must use only
  values that are defined, and both are promises of code that ran much earlier. `SingleInv`
  says what each place that names a value may rely on: a binding, a snapshot and the
  operands a caller has received name parameters or defined values (`Known`); the
  destination that `emit_assignment` creates before it walks the right-hand side is
  undefined until that side, or the `ASSIGN` after it, has written it, and two pending
  assignments have different destinations (`Pending`); only the operand directly below an
  assignment has it as its target (`TargetFits`), and nobody receives more operands than it
  waits for (`ArgsFit`). A phi that is removed takes its definition with it: what is left is
  `OnceIn` because every use of it is rewritten to an operand of the phi that is known
  (`SitesDropped`), also in phis that refer to themselves.

* `BindingsHaveTypes` and `CodeHasTypes`. Both properties assume that the program gives each
  name one type (`OneTypePerName`; without it they fail, which is finding 3 of section 5). Two
  invariants carry them. `ScopeInv`: there is one scope of the analysis for each statement list
  on the stack, so that the end of a list never removes the scope of the header, and the names
  of the header are always visible; an inner scope declares none of them. `Typed`: declarations,
  bindings, snapshots, and everything an activation holds (the operands it has received, the
  target it passes down, the phi it is about to write) have the type that the program gives the
  name (`FrameTyped`), and each instruction has operands of the types it needs. The types that
  an operand's caller asks for are the ones the analysis has checked (`WantsTyped`).
* `LocalsAreBound`. Each branch and each loop ends by restoring bindings, and a restored
  snapshot might lack a name that was initialised since. `BoundInv` says why it does not:
  a name that will still be in sight when an activation ends (`Outlives`) and is bound now, or
  in a snapshot that will be restored earlier, is bound in the snapshot of that activation
  (`SnapshotsSuffice`), because a name gets its first value only in the scope that declares it
  (`AssignedIsLocal`). The argument is one lemma (`BoundKept`) about what a step may do to
  bindings and scopes while the outer activations go on, and a short one for each action.

* `ReturnsAreSound`. `Reachable` is a search of the whole graph, and a step adds edges in the
  middle of it, so the property says nothing that a single step could use. `LiveInv` replaces
  the search by a witness: some set `live` holds the entry block and every successor of a
  member (`Closed`), and each activation knows what is not in it (`FrameLive`): after a list
  that definitely returns, the current block has ended or is out, with every block that the
  activations above still wait for (`Shut`); the merge of an `if` is out until a branch that
  may fall through joins it; a loop whose header is out is shut. A step adds edges from the
  current block only, so the next witness is the old one, with the targets when the current
  block is in it (`Spread`), and one lemma (`LiveStep`) says when all activations that go on
  keep what they know. Every such set contains what the search finds (`ReachableInside`). That
  is an induction over the rounds of the search; the induction theorems of the library cannot
  be used (they have an operator as parameter), so `NatSteps` derives one for sets of numbers
  from the well-foundedness of their order.

* `DefinitionsDominate`. Dominance is about all paths from the entry block, and each step adds
  edges somewhere in them; it also has to hold of uses that nobody has written yet, such as a
  binding or an operand that a caller has received. `DomInv` keeps a relation `dom` beside the
  program: `Over(dom, b)` are the blocks whose definitions code in `b` may use.
  * `Tree`: what is over a block is over each of its predecessors, but for the block itself. It
    follows that what is over a block dominates it (`OverBars`), without any computation of
    dominators. `Uses`: every use finds its definition earlier in its block or in a block over
    it; the operand of a phi, in a block over the predecessor it comes from.
  * While lowering goes on, a block has nothing over it until the code enters it. Entering one
    adds a single entry, itself and the blocks that its waiting activation knows to be over all
    its predecessors (`Opens`), and leaves all other entries alone.
  * Each activation has a level: the blocks over whatever it goes on with when the one above it
    has ended (`lev` in `Placed`). Levels only grow from the bottom of the stack to the top.
    `FramePlaced` says which of them each local of the C functions needs: received operands,
    the bindings saved before a branch, the bindings at the two ends of an `if`, the header of a
    loop. That is what makes the phis that `emit_if` and `emit_while` write correct: the operand
    from each side is available at the end of that side.
  * While phis collapse, no activations are left, and `Uses` asks only for code that control
    reaches (`Inner`). The operand that replaces a phi is available at the end of every
    predecessor but those below the phi itself; its block need not be over that of the phi. The
    next relation is `Lifted`: the operand's block goes over the phi's block and over whatever
    that one is over, and this is still a `Tree` (`LiftedTree`). The uses of the phi then find
    the operand, unless the operand's block is the one of the use: it could be defined behind
    the use there. Such a block is below the phi's block, whose predecessors are all below one
    of the two, so no path enters it (`CycleFree`). `UsesMoved` takes the uses along.

### The analysis

Proved in `AnalyzerProofs` for any programs, names, bounds and expressions of any depth, under
`ProgramsAssumption`, `TypesAssumption`, `StmtsAssumption` (headers and types are what the
parser builds, the bound is a number), `ExprsAssumption` (expressions are of the five forms the
parser builds, over parts that are expressions) and `HeightAssumption` (a part nests less deep
than the whole: trees have no cycles):

* `AnalyzerTypes`, `ScopesFollow`, `AssertionsAlwaysHold`, `FunctionsStayDescribed`,
  `RulesAlwaysAgree`: the five invariants of `AnalyzerProperties`.
* `AnalyzerImplements`: as long as no error is found, initial states and steps of the analysis
  are initial states and steps of `Declarations`. What is proved about the lowering starts from
  the actions of `Declarations`, so this closes the gap between the two stages.

The properties are about names in sight, and a search of the stack finds whatever table
happens to have the name. The inductive invariant `IInv` says where names are:

* `NoShadow`: a name is in one table at most, because a variable is refused if any table on the
  stack has its name (`Redefined`). A search therefore finds the only entry there is, and
  closing a scope uncovers nothing.
* `Counted` and `Nested`: there is the global table and one for each statement list that is
  walked (the table of a function's body is opened with its header), and the frames nest as the
  calls do, with a function's body outermost. The count alone would not be inductive: which
  frames have a scope of their own depends on their kind.
* `Described` and `Walked`: while functions are being declared only functions are in the global
  table; without errors, each function that was declared has an entry of its own, and the entry
  of the one that is walked stays in the global table, with its parameters in the table above
  it. A variable of the body is checked against that entry (`NamesParameter`), so as long as
  no error is found it is none of the parameters (`NotParameter`).

An action is an operation on the tables and one on the stack of calls, and the argument is made
of a lemma for each: `EnterTable`, `ExitTable`, `InsertTable` and `InitTable` say what is in sight
afterwards, `PushFits`, `PopFits` and `ReturnsFit` that the stack keeps its shape; `BodyStep`
puts them together for the actions inside a function.

`RulesAlwaysAgree` compares two recursive functions on trees. Both are defined by recursion over
`Height`; that such a definition has a solution (`Recursion`) and that what holds of the whole
when it holds of the parts holds of all (`ByHeight`) are derived from the well-foundedness of
the order of numbers, since the library's theorems on recursion and induction have operators as
parameters. One lemma for each form of expression then shows that the code's result and the
rules agree when they do so for the parts.

### The driver

Proved in `CompilerProofs` for command lines of any length over any set of words, any set of
types, files of any length and any number of errors, under `WordAssumption` (the forms of
words; the marker for "no value" is no exit code) and `BoundsAssumption` (the bounds are
numbers; `void` is not a type of values, the marker is no reason to refuse):

* `TypesCorrect`: `TypeOK` is an invariant; the argument loop stays inside the words.
* `SuccessesAreEarned`, `OutputsAreComplete`, `FailuresAreAlwaysExplained`,
  `GlobalsAreCovered`: the properties of the same subject in `CompilerProperties`. A success
  may have lost a diagnostic, or what it printed to stdout (section 5); an output file is
  complete.
* `ArgumentsAreUsedOnce`: the loop of `cli_run` and the property read the same words in
  different ways, the loop from left to right with the word it stands at, the property by a
  recursive definition of the role of each word. The proof follows the roles up to the word
  that the loop has reached, and unfolds the definition by an induction over the words.

The four of the stages are not inductive. What they say at the end depends on what each stage was
gated by, so the inductive invariant `IInv` says for each phase what holds inside it: before
parsing nothing was reported (`Fresh`); of the declarations the analysis has passed, an
ill-typed one left a diagnostic, or a semantic diagnostic was lost (`InAnalysis`); lowering
follows a complete analysis and, as long as `ir->valid` holds, nothing is stored and the
nodes are those of a prefix of the declarations (`InLowering`); rendering has a complete
module (`InRender`); the end has what success was decided from (`InReport`). `lost` is in
most of them because a diagnostic that found no memory is the one thing the gates do not
see. Each step keeps the part of its phase and establishes that of the next;
`ReportKeepsErrors` is the lemma about `Report` they share.

### The hash table

Proved in `HashTabProofs` for any keys and values, any hash functions with values in Nat and
any sizes up to any `SizeMax`, under `NullAssumption`, `HashesAssumption`,
`SizeMaxAssumption` and `SizesAssumption`, and with the restriction of `Next` to harmless
deletions:

* `TypeCorrect`, `EntriesStayReachable`, `CountIsExact`: `TypeOK`, `ChainsUnbroken` and
  `CountsEntries` are invariants.
* `TableIsMap`: initial states and steps of the table are initial states and steps of
  `KeyMap`. That every call returns stays with TLC.

The inductive invariant adds to the three what a call in progress relies on. `Probing`: the
slots that the probe has passed hold other keys (so a free slot means that the key is
nowhere, and an entry put there is found again), and a deletion in progress is still
harmless. `Moved`: during `ht_expand` the new table holds exactly the entries of the slots
before `pos`; with `KeysAreUnique` no entry of it is overwritten, which is why `n` may count
up from 0, and at the end both tables have the same content. The lemmas about a single
table (`PutKeepsChains`, `RemoveKeepsChains`, `MissIsTrue`, `KeysAreUnique`) rest on one fact
about wrapped probe sequences, `PassedOrder`: of two slots one lies on the way to the other.

### The name index

Proved in `NameIndexProofs` for any names and hash functions with values in Nat and any sizes
under `HashesAssumption`, `FirstAssumption` (an index has two slots at least: with one, the
first name would fill it) and `BoundsAssumption`:

* `TypesCorrect`, `NamesAreFound`: `TypeOK` and `IndexFindsNames` are invariants.
* `IndexIsBindings`: initial states and steps of the index are initial states and steps of
  `NameBindings`, which is the view of names that the proofs about `Lower` start from. That
  every call returns stays with TLC.

`IndexFindsNames` is about the index between calls; the invariant `IInv` adds what the loops
rely on. `Looking`: the slots the lookup has passed hold other names, so that a free slot
means that the name is new. `Rehashing`: the fresh slots find the names before `pos`, and no
slot that the probe for the next one has passed is free. `Placing`: the name that has joined
the list has a free cell, version 0, and nothing free behind it. `Cells`: whichever array was
reallocated last, each has a cell for every name; `GrownCells` shows that the doubling of
`grow_array`, which is one iteration at most, suffices. The refinement is a lemma for each end of a
call about `View`, the cells of the first k names by name (`ViewSet`, `ViewMore`, `ViewSame`);
a snapshot is shorter than the bindings when names were added since, and equals them as
a `View` after `restore_bindings` because the later cells are reset.

### The lexer and the parser

Proved in `ParserProofs` for any texts of any length, right or wrong, and any letters, digits
and keywords, under `TextsAssumption` (a text is a sequence of characters),
`KeywordsAssumption` (keywords are made of letters, and none has the type `EOF`) and
`CharactersAssumption` (letters, digits and the characters `next_token` asks for by name are
different):

* `ParserTypes`: `TypeOK`. The interesting half is that no parse function takes a node that
  nobody has left, and that a text ends in one tree, on every way through an error. `Stacked`
  gives each task its `Effect` on the number of values; a `Path` is a list of tasks that
  leads from the values there are to one value and has one left after each task. A step
  replaces the first task by tasks that have the same effect together. `Scanned` is about the
  tokens: their positions grow, and `token` and `lookahead` are the last of them (`Window`); only a lexer
  at the end of its text delivers `EOF` (`Received`).
* `LocationsAreTrue`: the line and column of each token are those of the place in
  the text where it begins, as long as no newline was inside quotes and no character was
  refused (`LinesSeen`; the code does not count such newlines). `Located` says of the current
  place what the property says of tokens; whoever has `LinesSeen` for a later place has it for
  an earlier one, so each round of the loop can start from what held before.
* `LexemesAreLongest`: each token is a lexeme that no longer one begins at the same place,
  and the tokens and the reported errors account for all characters but blanks and comments.
  `Separated` says that each token is `Whole`, and each gap between tokens, including the one
  that is being skipped, `Clear`: blank exactly if no error lies in it. A comment goes to the end
  of its line, so `Closed` adds that none is open at the current place. To compare lexemes, the
  definitions by set comprehension over parts of the text are first restated by positions
  (`LexemeAt`, `LexemeIs`); its first character then tells which kind a lexeme is (`Kinds`).

### Only model-checked

Of the lexer and parser, that the language is that of the grammar (`AcceptsLanguage`), that
the tree has the tokens in order (`TreeMatchesText`) and that parsing ends; of the lowering,
translation correctness (`MeaningPreserved`). Out of the prover's reach: termination and the
liveness half of the refinements (fairness), and whatever is defined by a recursive operator
(the evaluator and executor of `LowerMeaning`, the grammar of `ParserGrammar`).
`NeverCrashes` of the analysis is no theorem because it is false (section 5).

## 5. Where code and documentation disagree

`include/ssair.h` says that `generate_ssair` "Lowers a semantically validated program."
Three kinds of validated programs are not lowered:

* A function that ends in an `if` both branches of which return is refused ("function has
  no return instruction"): the current block is then the unreachable merge block, which
  has not ended (`ssair.c` 957).
* `int:x; x = 1;` is refused ("SSA cannot assign values"): a declaration without a value
  binds nothing (`ssair.c` 579).
* `{ int:a = 1; } bool:a; a = !c; if (a) { ... }`: the binding of the first `a` outlives
  its scope and lends its type to the second; `emit_if` meets a condition that is not
  bool and returns without an error, so the `if` is missing from the output
  (`ssair.c` 613).

`lep.c` 209 describes `check` as "Parse and type-check a source file." `int:x = 1;` and
then `x();` in a function crashes it: names of variables and functions share the tables,
and `typecheck_fcall` uses the `f_info` of the variable, which is NULL (`analyzer.c` 337).

All four were reproduced with the compiled program. Errors in the value of a `return` are
reported twice, because `expr_type` and the walk after it both check its calls; the model
counts them as the code does. Statements after a `return` and reads of globals in functions
are accepted by the analysis and refused by the lowering; `InitialisedIsBound` leaves globals
out for that reason.

The parser takes more than `grammar.txt` has. `AcceptsLanguage` shows that the difference is
this list (`Tolerated`) and nothing else: a comma behind the last parameter, an initial value
of a parameter, a function without a result type, `f` as a type (not of a global), and
semicolons before a statement. Two kinds of wrong texts crash it, like `f:a(,int:b)` and
`x(;,y)`: the list of parameters or arguments begins with an error, its head is NULL, and the
loop over the commas links the next node to it.

The program can exit with OK after an error in two ways:

* `add_diagnosticv` found no memory for a parse or semantic diagnostic, which is then neither
  printed nor counted.
* stdout did not take what was printed. `render_ast` and `render_ssa` return true whatever
  happens to it (`lep.c` 127-137), while a file is checked with `ferror` and `fclose` (144-148):
  `lep ir f > /dev/full` exits with 0, `lep ir -o /dev/full f` with an error, as the compiled
  program does.

`SuccessIsEarned` shows that, in the model, there is no third way, and that the second is open
only to a command that prints to stdout. The help texts and the times of `-t` go to stdout
unchecked as well; their contents are not modelled.

A newline inside quotes does not count as a line: `next_line` is called for a newline between
tokens only (`lexer.c` 123), so each location behind it has too small a line. In a text of the
three lines `"x`, `y"` and `@`, the error is reported on line 2. `LocationsTrue` is about texts,
and places in them, before which there is no such newline.

## 6. Not modelled

* Memory management: ownership of operand copies, freeing, and failing allocations outside of
  `ht_expand`, the diagnostics and the driver.
* The texts of diagnostics, of help, of printed trees, tokens and SSA (`print_ssair` and its
  like only read); that the names they print are unique is `VersionsUnique`.
* The arithmetic that opcodes stand for, and the contents of strings.
* `LList.c`: its one use is the scope stack, a sequence in `Analyzer`. Of `array_list.c`, remove,
  pop, swap and shrink, which nothing calls. In `parser.c` and `lexer.c`, functions nothing
  calls (`accept_operator`, `parse_term`, `digits`).
* The measuring of times (`-t`).
* "unsupported top-level declaration" of `generate_ssair`: the parser only makes functions and
  variables.
* `stack.c`, `codegen.c` and `regalloc.c` are not linked into the program.

## 7. What is left

Every component with state of its own is modelled, but for the linked list. The order in
which to go on:

1. `TreeMatchesText` as a theorem: the shape of trees has to be stated without recursive
   operators first, and `Stacked` would say of each value which tokens it stands for.
2. Larger instances of `MeaningPreserved`: two variables, so that merges of several names meet.
