# Boreal in TLA+

Boreal evaluates YARA rules: rules files are compiled, the compiler becomes a
scanner, and the scanner reports the rules that match a file, a byte string or
the memory of a process. This directory holds TLA+ modules of the parser, of the
typing and compilation of conditions, of hex strings and regular expressions, of the
search of strings, of the evaluator, of the scan, of the compiler, of the memory of a
process and of the directory scan of the command line, the
configurations that check them with TLC, and proofs checked with TLAPS. Paths
below are relative to the root of the repository.

The central question of the project is the one the engine's design raises. A
scan is first attempted *without* looking for strings (`evaluate_without_matches`),
and only when that cannot decide the rules is the memory scanned and every rule
evaluated again. The two passes, the rules' references to each other by index,
and the matches handed out by position must be invisible to the user: a report
means what the text of the rules means. The second question is the same one for
strings: all of them are looked for in one pass over short atoms, and what that
pass records should be what a plain search of each string would find. The third is
asked of every translation a text goes through before it is evaluated, from characters to
a syntax tree, to an expression of bytes, to the text another regex engine is given, to
indexes and untyped code: each form must mean what the one before it does.

## Parts of the system

| part | state it keeps | operations | correct when |
|---|---|---|---|
| Selection and loop of a `for` (`boreal/src/evaluator/mod.rs`) | countdown of the selection, count of bodies without a value | add the result of a body, end of the elements | an answer given early is the answer of the whole loop |
| Evaluator (`boreal/src/evaluator/`) | selected variable, stack of bound identifiers | one case per operator, poisons `VarNeeded`, `Undefined`, `Timeout` | a result given without matches is the result with them; a timeout is never swallowed |
| Scan (`boreal/src/scanner/mod.rs`) | report, results of earlier rules, unknown globals, position in the variables, entrypoint and module values | scan, pass without matches, fallback, region, evaluation of a rule | the report is that of a full scan, in order, without duplicates, with the rule's own matches |
| Scanner object (`boreal/src/scanner/mod.rs`, `params.rs`) | rules, symbols, parameters | `define_symbol`, `set_scan_params`, `scan_mem`, `scan_file`, `scan_process` | every scan starts from the same rules |
| Compiler (`boreal/src/compiler/`) | rules, globals, variables, namespaces, modules, symbols | `add_module`, `define_symbol`, `add_rules_*`, `into_scanner` | a compiled name leads to what the text names, also after a call that failed |
| Module values (`boreal/src/module/`, `evaluator/module.rs`) | one value per imported module | scan of a region, evaluation of a field | the first region recognised gives the value |
| Timeout (`boreal/src/timeout.rs`) | deadline, counter of checks | check | a scan that times out returns only what holds |
| Directory scan (`boreal-cli/src/main.rs`) | channel, worker threads, lock of the standard output | walk, receive, scan, display, join | every file handled once, output not mixed, the process ends |
| String scanning (`boreal/src/scanner/ac_scan.rs`, `matcher/`) | automaton, matches per variable | scan of a region, confirmation of an atom, validation around its literal | matches real, complete, sorted, capped |
| Memory of a process (`boreal/src/scanner/process/`, `memory.rs`) | current region and chunk | next, fetch, reset | every byte offered once |
| Compilation of strings (`boreal/src/matcher/`, `atoms.rs`) | literals, expressions before and after them | analysis, extraction, ranking, split | the literals occur in every match, the parts accept what the whole does |
| Parser (`boreal-parser/src/`) | counters of nested calls, copied with the input | `parse`: one function per production | the tree says what the text does, and nothing of the text is lost |
| Patterns (`boreal-parser/src/regex.rs`, `hex_string.rs`, `boreal/src/regex/`) | — | parse, make the Hir, print it | each form matches the bytes of the one before |
| Typing of conditions (`boreal/src/compiler/expression.rs`, `rule.rs`, `module.rs`) | bounded identifiers, depth, used strings, warnings | `compile_expression`: one case per operator | what compiles never meets a value of another type |
| File format modules, options and display of the command line, statistics | — | pure functions | not modelled, see the end |

How they interact. The compiler numbers rules, modules, symbols and strings, and
the scanner uses nothing but these numbers: `Expression::Rule(i)` is the i-th
*non-global* rule, a `VariableIndex` is a position among the strings of one
rule, and a rule finds its strings because the scan cuts the list of all matches
into consecutive pieces, one per rule. The scan calls the evaluator once or
twice per rule and gives it the matches (or none), the results of the earlier
rules, module values and the readable memory. A file scan of the command line
owns a clone of the scanner per thread; the threads share the channel and the
standard output, nothing else.

Hard behaviours: the two passes and the fallback between them (stale report,
stale results, early answers); indexes that depend on the order in which rules
were compiled over several calls, namespaces and failures; fragmented memory,
whose regions are seen one after the other; a timeout at any step; panics of a
worker that holds a lock while the main thread is blocked on a full channel;
atoms and literals that overlap, are shared between strings, and are met in the
order of their ends where matches are wanted in the order of their starts.
`PROJECT.json` lists every hazard at its line with the properties aimed at it.

## Modules

| module | models | state and actions |
|---|---|---|
| `ForSelection` | `ForSelectionEvaluator` | operators `AddResult`, `EndSelection` (`add_result_and_check`, `end`) |
| `ForLoop` | `evaluate_for_var`, over both passes | `sel`, `nb_vars_needed`, `index` are the locals of the function; `SkipUnknown` is the `Err(VarNeeded)` arm, `AddElement` the `Ok` and `Err(Undefined)` arms with the early return, `EndLoop` the call of `end`, `SecondPass` the new evaluation of the rule |
| `Evaluator` | `evaluate_rule`, `evaluate_expr` and all they call | pure: one case of `evaluate_expr` per variant of `Expression`, a value or a poison as a record |
| `RulePasses` | one rule in the two passes | `NoScanPass`, `FullPass`; the timeout may be found expired in any sub-expression |
| `Scanner` | one scan | below |
| `Matcher` | the matcher of one string: literals, validators (the simple one and the search of an expression), raw search | pure: `new_regex`, `new_bytes`, `get_literals_details`, `add_hir_to_simple_nodes`, `validate_match` ... under the names of the code |
| `AcScan` | the search of all the strings in the regions of a memory | below |
| `ScanContract` | what a scan promises, whatever the passes (`Spec`), and what it does (`AsBuilt`) | `Complete`, `Interrupt` (timeout), `Unwind` (panic); `LeavesGlobals` is the departure of the code |
| `Compiler` | the compiler, and a file being added | below |
| `Engine` | composes `Compiler` and `Scanner` through `into_scanner` | `Compile`, `Scan`, then the steps of the scan; states the meaning of the text |
| `ThreadPool` | the directory scan | below |
| `ProcessMemory` | the regions and chunks of a process, and their readers | below |
| `Combinators` | the nom combinators the parser is written with | data: a grammar is a record of terms such as `Alt`, `Seq`, `Cut` |
| `Nom` | what nom and `nom_recipes.rs` do with them | pure: `Parse[parser, input]` is Ok, an Error (the next alternative is tried) or a Failure (none is); `Then` is what a parser has left to do when its part returns |
| `ExpressionGrammar`, `RuleGrammar` | the productions of conditions, rules and files | one definition per function of the parser, under its name |
| `SyntaxTree` | `Expression` of the parser: which trees are conditions | data: the shapes of each kind of node; `Parser` returns these trees and no other, `Typing` assumes that its conditions are among them |
| `RuleText` | what a rules file should be, without a parser | pure: how a tree is written, how deep it nests, what modifiers mean |
| `Parser` | `parse`, and the user who writes the file | below |
| `PatternGrammar` | the productions of regular expressions and hex strings | one definition per function |
| `PatternHir` | `regex/hir.rs`, the visitor and the printer | pure: `regex_ast_to_hir`, `hir_from_token`, `regex_hir_to_string` |
| `Patterns` | a pattern from its text to the text the engine is given | `WritePattern`, `EditText`; the meaning of each form |
| `TextEdits` | one change of a text | pure |
| `ModuleUse` | an identifier with operations, and its type | pure: `subfield_of`, `subscript_of`, `function_call` ... |
| `ConditionCompiler` | `compile_rule` and `compile_expression` | pure, below |
| `KindsEvaluator` | the evaluator, of which only the variant of each `Value` is looked at | pure: the kinds an expression may have |
| `Typing` | composes the two | `WriteCondition`, `DeclareString` |
| `ForLoopProofs`, `RulePassesProofs`, `ScannerProofs`, `ThreadPoolProofs`, `ProcessMemoryProofs`, `CompilerProofs` | theorems, see Proofs | invariants as conjunctions of named parts |
| `EvaluatorProofs` | what two evaluations of an expression have to do with each other | lemmas |
| `SequenceFacts` | what the proofs need of numbers, sequences and the community modules | lemmas |

`Scanner` has one action per step of the code. `StartScan` lets the modules scan
direct memory and chooses a pass (`can_use_no_scan_optimization`).
`NoScanGlobal`, `NoScanFalseGlobal`, `NoScanGlobalsKnown`/`Unknown`, `NoScanRule`,
`NoScanRuleUndecidable` and `NoScanDecided` are the statements of
`evaluate_without_matches`; `FallBack` is what `do_scan` resets when that returns
undecidable. `ScanRegion` handles one region of `do_memory_scan`, and
`EvalRule`, `EvalFalseGlobal`, `EvalDone` are the loop of `do_scan` over the
chained globals and rules. `EvaluationPanics` unwinds the scan,
`TimeoutExpires` ends it wherever a check is made. `var_index` is the position
of the iterator `collect_nb_elems` takes from, `cursor` that of the `for`
statements. The matches found in a region are an input: `found` gives them per
variable.

`AcScan` computes the matches that `Scanner` takes as an input. `variables` and
`aho` are what `AcScan::new` builds, `hits` the atoms that the automaton still
has to yield in this region, `recorded` the vector that the code names `matches`.
`FetchRegion` and `FetchFails` are the loop of `do_memory_scan`, one
`handle_possible_match` is an iteration of the loop over the literals of an atom,
`ScanRawVariables` searches the strings that have no atom, `ScanTimeout` is the
check made before each atom. `Matcher` represents an expression as a sequence of
nodes and a search as the list of the ends it may find, in the order of
preference of the engine (`Ends`): an anchored search takes the first one, and
the reverse search of the code, repeated from one byte further, visits the
starts in order (`AnchoredRev`). What is before or after a literal and has only bytes,
masked bytes and jumps of one length is compared byte after byte instead, by the simple
validator (`SimpleFwd`, `SimpleRev`): `ScanIsExact` holds it to the plain search.

`Compiler` keeps the fields of the Rust struct under their names, and the stack
`pending` of the components left in every open file: `Include` pushes the
components of a file, `EndOfFile` pops, `Import` and `AddRule` are the branches
of `add_component`, and `ComponentFails` is every error it returns, which leaves
in place what was added. `compile_rule`, `compile_identifier` and
`compile_rule_set` resolve names as their namesakes do; `accepted` is a history
variable with the text of the rules and the names visible when each was added,
and no action reads it.

`Engine` states the meaning of a rules file without any compiled index:
`Means` looks names up in the text (`accepted`), `Holds` folds it over the rules,
and `ScanMeansText` compares the report with it.

`ProcessMemory` has the object that every reader of a fragmented memory moves:
`current` is `current_region`, `maps_line` the position in the file of regions that
Linux reads. `ScanRegion` and `ScanEnds` are the loop of `do_memory_scan`;
then conditions read, any number up to `MaxReads`: `StartRead` is the part of
`get_contiguous` and `on_range` before their loop, with its `reset`, and each step
of these two actions handles one region. A byte is where it was read from, an
address of the memory or an offset of the mapped file, so that a byte of the wrong
page or offset differs from the right one. The properties say what is read in
terms of addresses, with no position: `Pieces` are the chunks, `Readable` the bytes
that can be had.

`Parser` has a user who writes a rules file one construct at a time (`WriteCondition`,
`WriteModifier`, `WriteComponent` ...) or changes one piece of its text (`EditText`);
`parse` reads each text from nothing. A text is a sequence of pieces, the smallest strings
the grammar tells apart: a word, a sign, a digit, a quoted string. The grammar is data and
`Nom` interprets it, so that what matters in a parser of combinators is all there: the
order of the alternatives, which parts are taken greedily, where a `cut` forbids another
alternative and where the code goes on after a Failure all the same, the counters of
nested calls that the input carries and backtracking restores. `RuleText` says the
same of files in the other direction, from the tree to the pieces, by precedences, and
knows no alternative, no cut and no counter.

`Patterns` does the same with characters: the pattern as written, as parsed, its Hir, the
expression printed from it and that expression parsed again. `Meaning` is the structure of an expression
with the set of bytes of each leaf, read from the bitmap of a class in the Hir, and
from its printed definition after the round trip.

`ConditionCompiler` takes the trees of `ExpressionGrammar`. The `&mut RuleCompiler`
is a state that goes through every call and is part of its result, an error is a result with
a name, and `Try` is the `?` operator. `compile_expression` is a recursive function of
the expression and of that state; the functions that call it back take it as a
parameter. `KindsEvaluator` evaluates the compiled code to the set of kinds it may have, with
the value of any module any of its type or undefined, and with `Mismatch` for the
arms of the evaluator that no typed code should reach. `IsExpression` says which compiled
expressions have the operands the evaluator takes, and only variables the rule has.

`ThreadPool` has the main thread (`Send`, `DropSender`, `Join`, `Exit`), and the
workers (`Receive`, `Scanned`, `PrintModuleLine`, `LockStdout`, `PrintRuleLine`,
`Displayed`, `End`, `Panic`), one action per call that blocks or has an effect
others see.

## Runs

Passing runs:

| run | question | instance |
|---|---|---|
| `conditions` | is a decision taken without matches final, does the second pass always decide, is a timeout rethrown? | about 1500 conditions of two levels over all operators, 6 combinations of matches, an undefined or defined module, the timeout expiring nowhere or in one kind of sub-expression; builds with and without overflow checks; 4-bit integers |
| | does an early answer of a `for` agree with the whole loop, and are the matches asked for only when needed? | four strings, `all`, `none` and 1 to 5 of them, every truth of the bodies, every set of unknown bodies |
| | does a condition that compiles evaluate to its type, does each identifier and each string find what it names, are depth and unused strings what they say? | conditions of three constructs around every kind of operand, one module with static and dynamic values, arrays, dictionaries and functions, two bounded identifiers, rules, a global, symbols; two strings or none, declared one by one; both values of `fail_on_warnings` |
| `scan` | does a scan do what `ScanContract!AsBuilt` says (refinement), with its own matches, each rule once and in order? | up to two globals of six shapes, a rule of five shapes and one of five that may read it, six memories (direct, two and three regions, one that cannot be fetched), three modes of fragmented memory, both values of `compute_full_matches`, timeout anywhere |
| | is every match recorded a match of the whole expression, and are they those of a plain search of the expression at every offset, and sorted? | nineteen texts and expressions of every kind of matcher (literals, split, greedy, raw), with nocase, wide, ascii and wide, fullword; hex strings with masks and jumps for the simple validator; three strings that share atoms; two regions; see the bounds |
| `engine` | do the compiler's indexes lead the scan to what the text names? | two calls among 23, in two namespaces, with nested includes, two modules, two symbols of which one has the name of a module and of a rule, then a scan of direct or fragmented memory |
| `process_memory` | is every byte of a process seen once by the search, are integers and ranges read by conditions those of the process, does each listing end? | pages of two bytes, three regions (a mapped file or memory, with or without changed pages, memory next to it, memory after a hole), hidden or unreadable or not; no chunks or chunks of 2, 3 and 4; at most 3 or 16 bytes fetched; Linux and the others; two reads |
| `thread_pool` | is every file handled once, is success honest, does the process end? | four files and a directory, `--threads` absent, 0, 1 and 3 with three processors, one slot per worker, no panic, one file that may panic, all of them |
| `parser` | is a file read as it was written, whatever its layout, are modifiers a set, is anything of a text lost, is what comes out of a changed text still a condition? | conditions of two constructs, each operand of every operator, every kind of `for` and `of`; up to three tags, metadata, modifiers, components; one piece deleted, doubled, swapped or inserted |
| `patterns` | does each form of a pattern match the bytes of the one before, and is the right set of patterns accepted? | regular expressions of up to three parts: characters, classes, groups, alternations, assertions, ten repetitions, greedy or lazy, with flags; hex strings of up to five tokens with nested alternatives; one character deleted, doubled, swapped or inserted |

`MCConditions` puts three modules side by side, each with its own variables, and `MCScan` two:
a behaviour is one of them, the others do not start, and `part` says which. They share no
state in the code either: `Typing` compiles, `RulePasses` evaluates what was compiled,
`ForLoop` is one loop of it; `AcScan` finds the matches that `Scanner` hands out.

Runs that show a disagreement with a comment, a doc or a test:

| run | what is violated |
|---|---|
| `misattributed` | A rule with strings compiled before a global with strings: each gets the matches of the other. |
| `false_match` | An expression split around an alternation whose branches overlap: what is before the literal and what is after it take different branches, and a match is recorded that the expression does not match. |
| `false_global` | The pass without matches ends on a false global and leaves in the result the public globals that held before it, which the pass with matches clears: `KeepsContract`. |
| `too_many_matches` | A string without literals has one match more than `string_max_nb_matches` for each region scanned after the bound was reached: `Capped`. |
| `stale_listing` | On Linux, a read that stopped half-way through the chunks of a region makes the listing of the next read start with the chunk after it, though it was reset: `ResetStartsOver`. |

`PROJECT.json` quotes the lines that say otherwise. The passing runs stay meaningful beside
them, and beside the first observations below:

- `conditions` leaves out only the lists with an undefined item.
- `scan` checks `KeepsContractAsBuilt`: the contract, with one more action, `LeavesGlobals`,
  that a pass without matches takes on a false global, and that may only leave public globals
  that hold and come before it. `ReportedOnceInOrder` and the others hold in that case too.
- The strings of `scan` have no alternation whose branches overlap in the way `false_match`
  needs, and `ScanIsExact` speaks of the strings that have one literal for each match
  (`OneLiteralPerMatch`); of those without literals, while they are below the bound.
- `IntegerIsExact` holds of the listings that do not start over: it says what they lose,
  through `resumes`, a history variable with the address from which a listing goes on.
  `RangeIsExact` is about the listings that start over (`StartsOver`).
- `ScanMeansText` and `OwnStringsWhenGlobalsFirst` assume that globals with strings
  come first (`GlobalStringsFirst`); `OnlyGlobalsPanic` says that a global reading
  a rule is the only way a scan panics.

### Bounds

- `N = 4` strings with selections up to 5: the countdown, an exact reach, one too
  many and one too few all occur. The proofs remove this bound.
- `IntBits` is the width of integers, 4 or 6 for 64: the least integer, its
  negation and overflow are reached with small constants.
- `StackDepth = 8` nested calls of `evaluate_expr`, deeper than any condition of the
  instances: `Eval` is a recursive function over that number. In the code the compiler
  bounds the depth; a condition beyond the stack of the thread would end it, which is
  the `Panic` of the model.
- `MaxCalls = 2` calls of `add_rules_*`: an error in the first and rules in the
  second, or the same names in two namespaces.
- `MaxDepth = 4` open files. The code has no such bound: a file that includes
  itself recurses until the stack overflows. The files of the model nest three
  deep, so that the bound is never what stops a behaviour.
- `SlotsPerWorker = 1` where the code has 5: the channel is full as soon as one
  path waits per worker, which makes the sender block in a walk of four files.
- `Parallelism = 3` processors.
- The memories searched in `scan` are all those of seven bytes over two letters, of five
  bytes over two letters and the null byte (wide strings), of up to four bytes
  over two letters, one in upper case, and a full stop (case and words), and two
  regions of three and four bytes. The literals have two to five bytes: an atom
  (`ATOM_SIZE = 4`, as in the code) is then shorter than its literal, the letters
  fit several times with overlap, and the literal may begin before the region or
  end after it. The bounds on the number of matches are 1, 2 and 9: below, at, and
  above what these memories hold. A repetition without an upper bound stops at 9,
  more than the length of the memories. `MAX_SPLIT_MATCH_LENGTH = 4096` is that of
  the code and is never reached.
- Regions come by increasing address (`InputOK`): the binary searches of
  `evaluator/variable.rs` assume matches in that order, and the lists of process
  memory give it.
- The regions of `process_memory` hold 14 bytes in 7 pages: two chunks or more in
  each, a chunk shorter than the others (2 after 4), a mapped file with an offset
  and one that ends inside a page, a changed page at the start, in the middle and
  at the end of the file. Two reads make the second one start where the first
  stopped, anywhere in the listing.
- In `parser`, `MaxRecursion` is 5 nested calls (the code has 20), so that a condition
  of two constructs and its parentheses reaches it, goes past it, and may exceed it only on the path of a
  discarded alternative. `MaxInteger` is 4194304 for `i64::MAX`: `5MB` is above it and
  every other number of the instance below. `Letter`, `Digit` and the like are the words
  and digits of the instance, `Budgets` how many constructs are written around each
  condition: two around a number, one around the others.
- In `patterns`, `MaxU32 = 255` and `MaxRecursion = 3` groups (10 in the code); `JumpLimit = 20` in
  alternatives (200 in the code), with jumps up to 5 and one up to 27. The alphabet has
  every character that is special somewhere, the letters of the classes and escapes, the digits
  and one letter of two bytes in UTF-8.
- In the part of `conditions` that compiles, `MaxConditionDepth = 4` (the code has 40): three constructs reach it, also
  beside one another. Two bounded identifiers, bound in one loop, in nested loops, again
  under the same name, and after a loop is over.
- `MCSpec` of `MCScanner` leaves out rules that read `entrypoint` on fragmented
  memory in the fast mode: see the observations.

`CHECK_DEADLOCK` is off where a finished scan, loop or compilation is the end of
the behaviour, or where the user writes no more. It is on for `thread_pool`, whose `Terminated` step stands for
the process that has ended.

### Fairness

`ProcessMemory` assumes weak fairness of `Step`: a listing is a loop of one thread
that calls nothing which waits (`ListingsEnd`); it does not assume that conditions
read. `FairSpec` of `ThreadPool` assumes weak fairness of the
main thread and of every worker as a whole: the operating system schedules every
thread, and a scan returns. It assumes nothing about panics, so that `Terminates`
holds whether or not they happen. It needs no strong fairness for the lock of
the standard output: between two attempts of a worker only finitely many lines
can be displayed by the others. The steps of a worker that are disabled by the lock are not
assumed to be taken. `EveryFileDone` holds when no file panics and there is a
worker.

## Proofs

| module | theorems | of what the runs check |
|---|---|---|
| `ForLoopProofs` | `Types`, `NoScanSoundness`, `FullExactness`, `NoScanPrecision` | the invariants of `conditions` on `ForLoop` |
| `RulePassesProofs` | `DecisionsAreFinal`, `TimeoutIsNeverAbsorbed`, `FullPassAlwaysDecides` | the invariants of `conditions` on `RulePasses` |
| `ScannerProofs` | `ReportInOrder`, `ResultsAligned`, `MatchesBelongToTheRule`; `FullScansKeepTheContract`, `ScansKeepTheContract`, `ScansThatPanicKeepTheContract`, `ScansWithoutPublicGlobalsKeepTheContract`; `FittingScansDoNotPanic` | the invariants of `scan` on `Scanner`, its refinement `KeepsContractAsBuilt`, and where `KeepsContract` holds; the last states more than the run |
| `ThreadPoolProofs` | `FilesHandledOnce`, `SuccessIsHonest`, `RuleLinesUninterrupted` | all invariants of `thread_pool`; its liveness is model-checked |
| `ProcessMemoryProofs` | `SearchIsComplete`, `OriginIsRight`, `IntegersAreExact`, `RangesAreExact` | all invariants of `process_memory`; `ListingsEnd` is model-checked |
| `CompilerProofs` | `WildcardsStaySealed`, `EngineStaysSealed`, `ListsOwnStrings`, `ScansOfCompiledRulesDoNotPanic`; `EngineCompiles`, `NamesResolve`, `RulesReadBackwards`, `StringsAreHandedOver` | `WildcardsAreSealed`, `OwnStringsWhenGlobalsFirst`, `OnlyGlobalsPanic`; the others state more than `engine` checks |
| `EvaluatorProofs`, `SequenceFacts` | lemmas only | |

Each `Inductive` theorem is that of the invariant `IInv` the others follow from. All these
invariants (the types of `ProcessMemory` aside, which are infinite), and what the theorems assume beyond the
modules' own assumptions, were checked by TLC on
the instances of the runs as well.

`ForLoopProofs` proves for every number `N` of elements and every set of selections. From the
properties alone nothing follows, since they speak of finished passes only. The
invariant `IInv` adds `LoopInv` for a pass that is running: with `Seen` the
elements whose body had a value and `Skipped` the others behind the index,
`nb_vars_needed` is the cardinality of `Skipped`, the countdown plus the number
of true bodies in `Seen` is the number asked for, and for `all` (`none`) every
(no) body in `Seen` is true. At the end of the loop the
elements are `Seen` and `Skipped` together, hence the bounds on what the skipped
bodies can still change. Assumptions: `NAssumption` and `SelectionsAssumption` (a
number is positive, which `evaluate_for_selection` ensures).

`RulePassesProofs` proves for every set of expressions, whatever their depth, and all
contexts and conditions. The invariant `PassesInv` only says that the result of a pass is an
evaluation of the condition; the work is about `evaluate_expr` and has a module of its own,
`EvaluatorProofs`, in two properties that sub-expressions hand on. `Typed`: an evaluation is a value or a poison, and never
`VarNeeded` when the matches are known. `Agree(E, F, v, w)` relates two evaluations of one
expression in the same scan: `v` is a poison of `E`, `w` one of `F`, or they are equal. `Modes` are the two
uses: with `E` the timeout and `F` nothing, an evaluation that meets the timeout is compared
with the one that does not; with `E` the timeout, a panic or `VarNeeded`, and `F` the timeout or a panic,
the pass without matches is compared with the other. There is a lemma for each group of
operators (`AgreeLeaves`, `AgreeVariables`, `AgreeOperators`, `AgreeConnective`,
`AgreeModule`, `AgreeFor`, `AgreeForIn`, `AgreeForRules`), and `AgreeEvaluation` joins them; the loop of a `for` has
its own invariant (`AgreeLoop`), where the countdowns of the two loops differ by the bodies
that wait for the matches, as in `ForLoopProofs`. `EvaluationsAreTyped` and `EvaluationsAgree` go
through the depth by `SetInduction`. Assumptions: `ExpressionsAssumption` (what each variant of
`Expression` holds), `ContextsAssumption` (the types of what a scan gives to the evaluation) and
`ConditionsAssumption`; TLC evaluates them in `conditions`.
A third property of evaluations is needed by the scans: `EvaluationsDoNotPanic`. `Fits` says that the
places an expression names exist: its variables and its rules are within the room it is given
(`Room`: how many of each, and the depth of the bound variables), so that its evaluation is never a panic.
It is a recursive function over the depth, as the evaluation is.
`DecisionsAreFinal` has one hypothesis, `ListsAreDefined`: the items after the first of a list are byte
strings or integers that always have a value (literals, counts, sums, differences, products). Without it
the theorem is false, and it is the first of the observations below: an undefined item ends the loop and
drops the bodies that waited. The other two theorems need no hypothesis.

`ScannerProofs` proves for every scanner, memory and parameters. `IInv` has three parts.
`CursorOK` bounds the
cursor by phase. `ResultsOK` says that no result is kept where a pass starts, and that there
is one per rule behind the cursor. `ReportOK` says that
the report is empty where a pass starts and otherwise only names rules behind
the cursor, so that the next one is larger than all. The fallback is where it
would fail if the report or the results survived. For these and the matches nothing is assumed of the
evaluator but `ScannersAssumption` (what the compiler hands over are sequences): the proof holds for any
result of any rule. `Moves` is the next-state relation without the evaluator, a step of which may judge a rule
as it likes; the lemmas are about it, so that they hold of a scan whatever it reads.
`MatchesBelongToTheRule` needs three parts more. `FoundOK` follows the matches: none before the
memory is scanned, then for each variable the concatenation of what the regions before the cursor
add (`Prefix` of `Shares`), hence `AllMatchesOf` when all have been seen, where a region that
cannot be fetched adds nothing. `HandedOutOK` says that the variables handed out are
exactly those that the rules before the cursor declare. `ModeOK` says that the pass without matches does
not run when the full matches are wanted. Its hypothesis is `StringsInOrder`: the strings of a rule,
as many as the rule says, follow those of the rules evaluated before it. Where a global with strings
is compiled after another rule with strings the compiler does not provide this
(run `misattributed`), so that it is a hypothesis of the theorem and not an
assumption of the module; `MatchesAssumption` says that a region has a list of
matches for every variable.

The contract, that a scan reports what each rule means on the whole memory, is about what is evaluated,
so that its four theorems rest on `EvaluatorProofs`. `Outcomes` is the recursive function of what the
rules mean, in the order of evaluation. `ReadOK` says that what the regions gave so far (entrypoint, values of
modules) is what the contract reads. `ContractInv` adds `EarlierOK`, the results of the rules behind the cursor
are their outcomes, as far as a pass without matches knows them; `Truthful`, what such a pass has decided is what
the other would; `DecidedOK`, the report is that of the outcomes; and `WithinChain`, no step before the
cursor has ended the scan. A pass that is decided without matches is compared with the one that would have had them by
`EvaluationsAgree`. `ContractStep` says that a step is one of the contract or `LeavesGlobals`, and `LeavingScans`
when it can be the latter: a first pass, and a public global. All four assume `StringsInOrder`; they differ in the rest.

- `FullScansKeepTheContract`: no first pass (`HasFirstPass` is false of every memory and parameters), and nothing
  else. The scan keeps the whole contract (`KeepsContract`), whatever its conditions read, and if they panic.
- `ScansKeepTheContract`: with a first pass, `KeepsContractAsBuilt`. `FirstPassesReadWhatIsKnown` says that where there
  is such a pass, lists have defined items (`ListsAreDefined`, as above) and the conditions of a fragmented memory do
  not read the entrypoint; both exclude scans for which the code does otherwise (`evaluator/mod.rs:863`,
  `scanner/mod.rs:573`, see the observations), and the instance leaves them out too.
  `ConditionsFit`: a condition names rules before its own and strings of its own.
- `ScansThatPanicKeepTheContract`: where `ConditionsFit` does not hold, one pass may panic where the other would not
  have evaluated that rule; the theorem has `[]PanicsAlike` instead (a rule that the first pass decides panics in both
  or in neither), which TLC held on all scanners of `scan`. All of them satisfy `ConditionsFit` but those whose
  global names a rule.
- `ScansWithoutPublicGlobalsKeepTheContract`: `ScansKeepTheContract` with every global private keeps the whole
  contract: the disagreement that `false_global` shows is the only one.

`FittingScansDoNotPanic` says when no scan panics: when the conditions fit and the strings that rules declare are
at most those the scanner has (`StringsCounted`, in whatever order). `CalmInv` adds `CountedOK` to `IInv`, the variables
handed out are those counted so far, hence those of the next rule are there. Assumptions of these:
`ConditionsAssumption`, `ValuesAssumption` and `MatchesAssumption`, the types of the conditions and of what is read.

`ThreadPoolProofs` proves for any number of threads, places in the channel, lines and
files. `IInv` has five parts: `Types`; `Handling`, a worker has a path
from `Receive` until the file is displayed; `Apart`, the channel, the workers and the files done share no
path; `Kept`, together they have every path sent until the main thread panics,
and a worker ends only on an empty channel after the sender is dropped; `Locked`, the lock is that of the
worker that displays rules. `HandledOnce` comes from the third part, `SuccessMeansAllDone` from the
fourth: with success all workers have ended without a panic, hence the channel is
empty and no worker has a path. Assumptions: `ThreadsAssumption`, `SlotsAssumption`, `LinesAssumption`;
`EntriesAssumption`, a walk gives each path once; `NobodyAssumption`.

`ProcessMemoryProofs` proves for any regions, pages, chunk size and reads, on each system.
A position of the listing is a line and an offset in it; `IInv` relates positions and addresses.
`Types`; `Listing`, `current` is a position of the listing, and the file of regions is where it was
read from; `Origin`, each byte read is the one the process has at its address; `Search`, the scan has
been given every readable byte of the positions passed, once and by increasing address, and nothing else; `Progress`, a read
under way has passed nothing that it wants from `read.resumes` on, or has all of it until `read.from`.
`resumes` is where the listing of a read goes on after its reset: 0, but on Linux after a read that stopped
between two chunks (`HalfWay`). `Located` is what a position tells of the pieces passed in both cases, so that
`IntegersAreExact` covers the listing of `stale_listing`. The lemmas say that
positions follow each other as the addresses do and that the next one is the next chunk
(`NextIsNext`, `NothingAfterTheEnd`), and that a byte lies in the page of the file that its offset says.
Assumptions: `ProcessesAssumption` (regions are whole pages, by increasing address, apart)
and `ReadsAssumption`. The properties keep the hypotheses they have in the runs: `ChunksArePages` in all,
`StartsOver` and pieces fetched whole in `RangeIsExact` alone.

`CompilerProofs` proves for all files, calls and namespaces. `IInv` has `Types`;
`Remembered`, a namespace forbids each wildcard of its rules; `Sealed`, no name is selected
by an earlier wildcard. `Remembered` is what an error half-way could break: the rules added
before it stay, so their wildcards must. `NamesInv` adds `Opened` (the files
open hold components that were written), `Resolved` (`NamesFindTheirRule`: the index of a name is that of the rule
of this name, so no index is given twice; `RulesReadEarlierRules`: compiled rules refer to smaller indexes only) and `Slots`
(an index of `available_modules` is that of the module's slot). `EngineCompiles` is a refinement by the
identity: every step of `Engine` is a step of `Compiler` or leaves it unchanged, so that
what is proved of the compiler holds when scans follow. Assumptions: `CallsAssumption` and
`FilesAssumption` (components come in a sequence), `RulesAssumption` (the shape of terms).
The strings are the other half of what is handed over. `LayoutInv` says that the list of variables is
that of the rules accepted, in their order, each rule counting its own; where globals with strings come
first (`GlobalStringsFirst`), the same list is in the order of evaluation, which is `HandsOverInOrder`,
the hypothesis `StringsInOrder` of `MatchesBelongToTheRule`. `EngineInv` puts both together: while a scan
runs, the invariant of `ScannerProofs` holds of it. `ScannerProofs` is instantiated (`P`) with
the variables of the engine and no scanners of its own, since its lemmas about the start and the steps
(`Moves`) take the scanner from the state; a step of the scanner in the engine is one of its
steps. `ListsOwnStrings` follows: what a rule is reported with are the matches of the strings its text
declares, from the files to the report. Assumptions: those above, a sequence of strings for
a rule in `RulesAssumption`, and `MemoriesAssumption`: a memory has, for each string that the
rules of the files may declare, a list of matches per region.

`ScansOfCompiledRulesDoNotPanic` is the same composition for `OnlyGlobalsPanic`. `Runnable` says what the compiler
hands over: a condition is a connective of operands of at most two levels (`Shaped`), its strings are those of
its rule, the strings are those that the rules count in the order of evaluation (`Counted`: this
one needs no `GlobalStringsFirst`, a rule put before others moves their counts by its own), modules and symbols are
those that may be added. With `RulesReadEarlierRules` and no global that names a rule, the hypotheses `ConditionsFit`
and `StringsCounted` of `FittingScansDoNotPanic` hold of the scanner (`HandedOverFits`), and `CalmInv` holds
while it scans. The theorem has two hypotheses of its own. `CompiledAreExpressions`: the conditions compiled belong to
`Expression`, the set over which the evaluator is defined; TLC evaluates every condition of `engine`, which it could
not do outside of this set, and held the formula itself in all of its states. `StackDepth >= 3`: the stack holds the three levels of
these conditions, where the code allows more (`condition_depth`) and `engine` eight.
Assumptions: those above, and in `MemoriesAssumption` a value, or none, for each module and symbol.

`NamesFindTheirRule`, `ModulesHaveOneSlot` and `RulesReadEarlierRules` hold in every state of the
instance of `engine`; the run does not list them, `ScanMeansText` being what a reader should look at there.

The induction theorems of the library take an operator, which the provers cannot instantiate.
`SequenceFacts` has `SetInduction`, over the numbers that belong to a set, proves it from the
existence of a least number, and uses it to say what `FlattenSeq` and `SetToSeq` of the community
modules return. The definitions that the proofs reason about are written with these and not with
`SelectSeq`, of which the prover knows nothing.

Only model-checked: liveness (fairness and `ENABLED` are beyond the prover); the property of `Engine`
that states what rules mean (`ScanMeansText`), the next step of the plan; all of `AcScan`, which rests on the recursive operators of `Matcher`; and all of `Parser`,
`Patterns` and `Typing`, which state what recursive functions over trees compute.

## Plan

Done, in this order: `ForSelection`, `ForLoop` and its proofs, `Evaluator`,
`RulePasses`, `Scanner` with `ScanContract` and its first proofs, `Compiler`,
`Engine`, `ThreadPool`, `Matcher` and `AcScan`, `ProcessMemory`, `Nom` with the grammars
and `Parser`, `Patterns`, `ConditionCompiler` with `KindsEvaluator` and `Typing`; then
`ThreadPoolProofs`, `ProcessMemoryProofs`, `CompilerProofs`, the matches in `ScannerProofs`,
`RulePassesProofs`, the strings from the compiler to the report, the contract of a scan, and the scans that do not panic.

Next:

1. `ScanMeansText`, from the theorems on the contract.
2. The other validators of strings (simple, wide, base64) against the search of
   `Matcher`.
3. `Parser` composed with `Typing`: the trees are the same, the texts of one could be
   compiled by the other.

## Observations without a run

On the evaluator, the scan and the compiler:

- A `for` over a list `(1, m)` with `m` undefined can be decided false without matches
  although it holds with them: the undefined item leaves `evaluate_for_iterator`
  (`boreal/src/evaluator/mod.rs:863`) and drops the bodies that waited. The module doc says
  (`evaluator/mod.rs:19-20`) that "the for operands may return `true` or `false` if the
  result does not depend on any poison value". `conditions` has no such list, and `ListsAreDefined` excludes
  them from `DecisionsAreFinal`.
- A global may name an earlier rule that is not global: it compiles to
  `Expression::Rule`, and the globals are evaluated first, with no previous result, so that
  the index panics (`evaluator/mod.rs:675`). `OnlyGlobalsPanic` says that nothing else does.
- Operations on an external symbol, `ext[1].a`, are not looked at
  (`compiler/expression.rs:1282-1286`): the condition means the symbol.
- `$` outside of a `for` compiles, and is undefined in every scan.
- The body made for `of .. in` and `of .. at` adds a call of the evaluator that
  `condition_depth` does not count (`compiler/expression.rs:787-831`): `DepthIsNesting` bounds the
  recursion by twice the limit for that reason.

On the parser and the patterns:

- `textual_tag` (`boreal-parser/src/nom_recipes.rs:86-111`) refuses a word when a letter or a
  digit follows, not an underscore: `not_x` is read as `not _x`, and `true_x` is refused.
- A `%` after the regular expression of `matches` is swallowed when no `of` follows
  (`expression/for_expression.rs:81-83`): this is the only thing a text may say that is
  lost, and `NothingIsLost` sets it apart.
- The evaluator says of a percentage as the selection of a `for` over identifiers that it
  "is, as it stands, not possible to generate such an expression" (`evaluator/mod.rs:616`).
  `for_selection_expr` takes a `%` there like anywhere else; what refuses
  `for 50% i in (1..3)` is that `50% i` is read as a modulo first. `ReadsWhatIsWritten` and
  `NothingIsLost` hold it to that (`SyntaxTree`: such a `for` has no percentage).
- `variable_expression` (`expression/boolean_expression.rs:282`, `295`) and the fall back on sets of rules
  (`for_expression.rs:100`) try something else after a Failure, which `cut` is there to
  prevent: it costs precision in errors and no wrong reading (`ReadsWhatIsWritten`).
- `in` after a number of matches is a plain `tag`, so that it may stick to what follows; a
  name that begins with it, as in `for #a index in (..)`, is read as `in dex`, and refused.
- `x()` counts two more nested calls than `x`, and the right operand of `*` has no `cut`
  (`expression/primary_expression.rs:157`).
- `\x+e` is accepted as a byte (`boreal-parser/src/regex.rs:606`): `from_str_radix` takes a
  sign. `PatternIsNotAltered` reads the sign as the digit 0.
- In a class, `a-\d` is a range up to the letter `d`; a `]` that comes first is kept last.
- `[1]` is a jump of one byte and becomes `??`, which is allowed where a jump is not, at the bounds
  of a hex string.
- `parse_regex` and `parse_hex_string` ignore what follows the pattern; `parse` of the
  model requires nothing to follow, as the parser of rules does in effect.

On the search, the memory of a process and the command line:

- `ThreadPool::new` computes `min(1, nb)` for `--threads nb`
  (`boreal-cli/src/main.rs:677`): at most one worker whatever is asked, and with
  0 none, so that `send` fails and its `unwrap` ends the process
  (`SendFails`). `thread_pool` includes both.
- `display_scan_results` prints module data before it locks the standard output
  (`boreal-cli/src/main.rs:566`, lock at 581): with `--module-data` the lines of two
  workers mix, which the comment at the lock says it avoids. `RuleLinesTogether` is
  about the lines of rules, printed under the lock.
- On Linux a chunk has the rounded size, and the next one starts after the size as
  given (`linux.rs:277` and `406`): with a size that is not whole pages,
  bytes are skipped, or seen twice when it is under a page, and the pages are looked
  up from the wrong one; `boreal/src/scanner/params.rs:318` says "while still scanning all of
  the bytes available" (`ChunksArePages` excludes this).
- `on_range` slices what was fetched by the length of the region
  (`boreal/src/memory.rs:221`): when `max_fetched_region_size` is less, it panics. The
  model has that outcome; `RangeIsExact` assumes pieces fetched whole.
- A `memory_chunk_size` of 0 lists the first region for ever: the next chunk is where
  the current one is (`linux.rs:406`, `windows.rs:111`).
- In the fast mode of fragmented memory the pass without matches evaluates
  `entrypoint` before any region has been scanned, finds it undefined and may
  decide; the full pass computes it (`boreal/src/scanner/mod.rs:573`).
- The negation of the least integer is a plain `-n`
  (`boreal/src/evaluator/mod.rs:347`): it wraps, or panics in a build with
  overflow checks. The other integer operators are explicit about it.
- A file that includes itself is followed without a bound.
- "Only one match per starting byte can happen" (`ac_scan.rs:233`) does not hold of
  strings made of literals only, which ignore the restart position: `/abcd|ab/`
  has two matches at one offset, and so has a string with two literals for one
  match, such as a class that holds both cases of a letter under `nocase`.
- The matches of such strings are in the order of the ends of their atoms, and
  `/abcd|bc/` records `bc` before `abcd`: the binary searches of
  `evaluator/variable.rs` then miss one. `SortedByAddress` is about the others.
- With an alternation before the literals, a start may be found after a later one
  and be dropped by the restart position: `/(a..|b).{0,1}?bb/` on `abbbb`.

## What is not modelled

- Floats, the contents of byte strings and regexes: comparisons of byte strings
  are a relation given with the expression. The percentage of a `for` is exact in the model and
  computed in floating point in the code.
- The bitwise operators, which rethrow poisons like the arithmetic ones and
  cannot overflow.
- In strings: word boundaries, the modifiers `xor` and `base64`, groups and nested
  concatenations (flattened), the data kept with a match. The DFA and the custom
  runner for wide strings are one search.
- `Scanner` takes the matches of a region as an input and is not composed with
  `AcScan`: the two meet only in the vector of matches.
- In a process: a memory that changes during the scan, the parsing of its list of
  regions, addresses near the greatest one (the code saturates or stops there). `Scanner`
  takes the regions as an input and is not composed with `ProcessMemory`.
- In the parser: the characters of words, numbers and quoted strings (a piece stands for
  them), comments in the middle of a text other than one that never ends, spans, the text of errors.
- In patterns: the flags of an expression, the spans, literals and classes outside of the
  alphabet. What the regex engine does with the expression is modelled by its result
  in `Matcher`, with expressions of its own: the two meet in the text printed by
  `regex_hir_to_string`.
- In the typing: which warning is raised, the errors of a string that does not compile, the
  bytes interner. `Compiler` and `ConditionCompiler` share the resolution of
  names and are not composed: the first follows it over calls and namespaces, the second inside one condition.
- The parsing of PE, ELF and Mach-O files: pure functions over large data, for which a
  model would repeat the code.
- Statistics; the options and the layout of the output of the command line.
- The checks of the timeout are made rarely (one in 10240 looks at the clock, and
  none while a raw string is searched): the models let it expire at every check,
  which includes those behaviours.
