------------------------------- MODULE Engine -------------------------------
(* The compiler and the scanner together: rules are compiled, the compiler    *)
(* becomes a scanner (into_scanner), and the scanner scans a memory.          *)
(*                                                                            *)
(* What a rules file means is said here of its text: a name is the rule, the  *)
(* module or the symbol it names, a string is the one declared in the rule.   *)
(* No index of the compiled form appears in that meaning.                     *)
EXTENDS Compiler

CONSTANTS
    Memories,      \* memories, their modules and symbols by name
    Params,
    Expression,
    IntBits,
    StackDepth

VARIABLES
    memory,             \* the memory scanned
    scanner, input, params, phase, cursor, var_index, matches, module_values,
    entrypoint, previous_results, has_unknown_globals, matched_rules, result

scanVars == <<scanner, input, params, phase, cursor, var_index, matches,
              module_values, entrypoint, previous_results, has_unknown_globals,
              matched_rules, result>>

S == INSTANCE Scanner WITH Scanners <- {}, Inputs <- {}

engineVars == <<compilerVars, memory, scanVars>>

\* The strings that a rule can declare.
StringsOf(n, rule) ==
    {[rule |-> <<n, rule.name>>, name |-> x.name, is_private |-> x.is_private] :
        x \in Range(rule.variables)}
Declarable ==
    UNION {StringsOf(n, c.rule) :
              n \in Namespaces, c \in {d \in Written : d.kind = "rule"}}

\* What the evaluator assumes.
ASSUME EvaluatorAssumption ==
    /\ S!IntBitsAssumption /\ S!StackDepthAssumption
    /\ \A e \in Expression : S!ExpressionOK(e)

\* A memory is an input of the scanner, with the matches of any string, and a value
\* of every symbol and of every module, if the module has one there.
ASSUME MemoriesAssumption ==
    \A m \in Memories :
        /\ S!InputOK(m) /\ m.regions # <<>>
        /\ m.direct => m.size \in Nat
        /\ \A x \in Symbols : m.symbols[x] \in S!BoundValue
        /\ \A region \in Range(m.regions) :
              /\ DOMAIN region = {"start", "fetched", "found", "modules",
                                  "entrypoint", "memory"}
              /\ region.start \in Nat
              /\ region.entrypoint \in [int : Nat] \cup {S!Undefined}
              /\ \A n \in DOMAIN region.memory : region.memory[n] \in Int
              /\ \A x \in Modules :
                    region.modules[x] \in S!ModuleValues \cup {S!Undefined}
              /\ \A x \in Declarable :
                    region.found[x] \in Seq([offset : Nat, length : Nat])

-----------------------------------------------------------------------------
\* into_scanner: the rules, and the variables as they were compiled.
IntoScanner ==
    [global_rules |-> global_rules, rules |-> rules, variables |-> variables]

\* The regions of a memory as the scanner sees them: modules and symbols by
\* index.
Seen(m) ==
    [direct |-> m.direct, size |-> m.size,
     externals |-> [k \in DOMAIN external_symbols |->
                       m.symbols[external_symbols[k]]],
     regions |-> [k \in DOMAIN m.regions |->
        [m.regions[k] EXCEPT !.modules =
            [i \in DOMAIN imported_modules |-> @[imported_modules[i]]]]]]

NoMemory == [direct |-> TRUE, size |-> 0, symbols |-> <<>>,
             regions |-> <<[modules |-> <<>>]>>]

EngineInit ==
    /\ Init
    /\ memory = NoMemory
    /\ S!InitWith(IntoScanner, Seen(NoMemory), CHOOSE p \in Params : TRUE)
    /\ phase = "compile"

Compile ==
    /\ phase = "compile"
    /\ Next
    /\ UNCHANGED <<memory, scanVars>>

\* into_scanner, and a scan: Inner::scan sets up its data.
Scan ==
    /\ phase = "compile"
    /\ status # "adding"
    /\ scanner' = IntoScanner
    /\ memory' \in Memories
    /\ input' = Seen(memory')
    /\ params' \in Params
    /\ phase' = "start"
    /\ matches' = [v \in DOMAIN variables |-> <<>>]
    /\ module_values' = [i \in DOMAIN imported_modules |-> S!Undefined]
    /\ UNCHANGED <<cursor, var_index, entrypoint, previous_results,
                   has_unknown_globals, matched_rules, result>>
    /\ UNCHANGED compilerVars

EngineNext ==
    \/ Compile
    \/ Scan
    \/ S!Next /\ UNCHANGED <<compilerVars, memory>>

EngineSpec == EngineInit /\ [][EngineNext]_engineVars

-----------------------------------------------------------------------------
(* The meaning of the text. *)

Text(i) == accepted[i].rule
Fetched == {k \in DOMAIN memory.regions : memory.regions[k].fetched}
Strings(i) ==
    {[rule |-> <<accepted[i].namespace, Text(i).name>>,
      name |-> Text(i).variables[k].name,
      is_private |-> Text(i).variables[k].is_private] :
        k \in DOMAIN Text(i).variables}
IsFound(string) == \E k \in Fetched : memory.regions[k].found[string] # <<>>

\* The value of a module, where its scan of the regions is enabled.
ModuleValue(name) ==
    LET known == {k \in Fetched : memory.regions[k].modules[name] # S!Undefined} IN
    IF known # {} /\ (memory.direct \/ params.modules_dynamic_values)
    THEN memory.regions[Min(known)].modules[name] ELSE S!Undefined

\* The earlier rules of the namespace that an element of a set stands for.
Elements(i, element) ==
    {j \in 1 .. i - 1 :
        /\ accepted[j].namespace = accepted[i].namespace
        /\ IF element.is_wildcard THEN <<Text(j).name, element.name>> \in StartsWith
           ELSE Text(j).name = element.name}

\* Whether a term of rule i holds, given the rules before it.
Means(i, t, holds) ==
    LET named == Elements(i, [name |-> t.name, is_wildcard |-> FALSE])
        selected ==
            {x \in (DOMAIN t.elements) \X (DOMAIN holds) :
                x[2] \in Elements(i, t.elements[x[1]])}
    IN  CASE t.op = "filesize_ge" -> memory.direct /\ memory.size >= t.n
          [] t.op = "string" -> \E s \in Strings(i) : s.name = t.name /\ IsFound(s)
          [] t.op = "any_of_them" -> \E s \in Strings(i) : IsFound(s)
          [] t.op = "identifier" ->
                IF t.name \in accepted[i].modules
                THEN S!IsTrue(ModuleValue(t.name))
                ELSE IF named # {} THEN \A j \in named : holds[j]
                ELSE S!IsTrue(memory.symbols[t.name])
          [] t.op = "rule_set" ->
                CASE t.kind = "any"  -> \E x \in selected : holds[x[2]]
                  [] t.kind = "all"  -> \A x \in selected : holds[x[2]]
                  [] t.kind = "none" -> \A x \in selected : ~holds[x[2]]

\* Which of the rules accepted hold, by what their text says.
Holds ==
    LET upto[i \in 0 .. Len(accepted)] ==
            IF i = 0 THEN <<>>
            ELSE LET before == upto[i - 1]
                     c == Text(i).condition
                     means(k) == Means(i, c.terms[k], before)
                 IN  Append(before, IF c.op = "and"
                                    THEN \A k \in DOMAIN c.terms : means(k)
                                    ELSE \E k \in DOMAIN c.terms : means(k))
    IN  upto[Len(accepted)]

\* What a complete scan should name.
Expected ==
    {<<accepted[i].namespace, Text(i).name>> :
        i \in {j \in DOMAIN accepted : Holds[j] /\ ~Text(j).is_private}}

GlobalsHold == \A i \in DOMAIN accepted : Text(i).is_global => Holds[i]

ReportedNames == {S!Chain[i].name : i \in S!ToSet(S!Reported)}

-----------------------------------------------------------------------------
(* Properties. *)

\* No global with strings is compiled after another rule with strings.
GlobalStringsFirst ==
    \A i, j \in DOMAIN accepted :
        i < j /\ Text(j).is_global /\ Text(j).variables # <<>> =>
            Text(i).is_global \/ Text(i).variables = <<>>

\* A complete scan names the rules that hold by their text, and none of the
\* others unless a global is false.
ScanMeansText ==
    result = "ok" /\ GlobalStringsFirst =>
        /\ GlobalsHold => ReportedNames = Expected
        /\ ~GlobalsHold =>
              \A i \in S!ToSet(S!Reported) : S!IsGlobal(i)

\* What the scan relies on to give each rule its strings: into_scanner hands over
\* the strings in the order in which the rules are evaluated.
HandsOverInOrder == GlobalStringsFirst => S!StringsInOrder(IntoScanner)

\* "List of matched strings, with details on their matches": the matches listed
\* for a rule are those of the strings the rule declares.
ReportsOwnStrings == S!MatchesAreOwn

OwnStringsWhenGlobalsFirst == GlobalStringsFirst => ReportsOwnStrings

\* "new rules can reference already existing rules" (compiler/mod.rs:524): a scan panics
\* only where a global names a rule, whose result is not there yet (evaluator/mod.rs:675).
OnlyGlobalsPanic == GlobalsReadNoRule => result # "Panic"
=============================================================================
