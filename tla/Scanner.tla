------------------------------- MODULE Scanner -------------------------------
(* One scan: Inner::scan, do_scan, evaluate_without_matches and               *)
(* do_memory_scan of boreal/src/scanner/mod.rs.                               *)
(*                                                                            *)
(* A scanner is [global_rules, rules, variables]; a rule is [name, condition, *)
(* is_private, nb_variables]; a variable is [rule, name, is_private], its     *)
(* rule being the one that declares it.  The rules know their variables only  *)
(* by number: the scan hands out the matches of `variables` in order.         *)
(*                                                                            *)
(* An input is [direct, regions].  A region is what the scan of that piece of *)
(* memory finds: whether it can be fetched, the matches of every variable     *)
(* (offsets relative to start), the entrypoint, the module values and the     *)
(* readable integers.                                                         *)
EXTENDS Evaluator, SequencesExt

CONSTANTS
    Scanners,      \* scanners that may run
    Inputs,        \* memories that may be scanned
    Params         \* scan parameters: see ParamsType

IsSeq(s) == s \in Seq(Range(s))

\* The elements of a sequence at some of its positions.
Only(s, kept) ==
    FlattenSeq([k \in DOMAIN s |-> IF k \in kept THEN <<s[k]>> ELSE <<>>])

\* What the compiler hands over.
ScannerOK(s) ==
    /\ IsSeq(s.global_rules) /\ IsSeq(s.rules) /\ IsSeq(s.variables)
    /\ \A r \in Range(s.global_rules) \cup Range(s.rules) : r.nb_variables \in Nat

ASSUME ScannersAssumption == \A s \in Scanners : ScannerOK(s)
ConditionsOK(s) ==
    \A r \in Range(s.global_rules) \cup Range(s.rules) : r.condition \in Expression

ASSUME ConditionsAssumption == \A s \in Scanners : ConditionsOK(s)

\* Direct memory is one region, always available.  Regions come by increasing
\* address, which keeps the matches of a variable sorted.
InputOK(in) ==
    /\ IsSeq(in.regions)
    /\ in.direct => Len(in.regions) = 1 /\ in.regions[1].fetched
    /\ \A j, k \in DOMAIN in.regions :
          j < k => in.regions[j].start < in.regions[k].start

ASSUME InputsAssumption == \A in \in Inputs : InputOK(in)

\* A region has a list of matches for every variable, at natural offsets.
MatchesOK(s, in) ==
    \A region \in Range(in.regions), v \in Range(s.variables) :
        region.found[v] \in Seq([offset : Nat, length : Nat])

ASSUME MatchesAssumption == \A s \in Scanners, in \in Inputs : MatchesOK(s, in)

VARIABLES
    scanner, input, params,
    phase,              \* where the scan is
    cursor,             \* rule, or region, about to be handled
    var_index,          \* variables handed out to the rules before the cursor
    matches,            \* per variable, the matches found so far
    module_values,      \* per module expression, its value
    entrypoint,         \* value kept while scanning fragmented memory
    previous_results,   \* results of the non-global rules evaluated
    has_unknown_globals,
    matched_rules,      \* [rule, matches]: rules reported, by position in Chain
    result              \* "none", "ok", "Timeout", "Panic"

config == <<scanner, input, params>>
found  == <<matches, module_values, entrypoint>>
vars == <<scanner, input, params, phase, cursor, var_index, matches,
          module_values, entrypoint, previous_results, has_unknown_globals,
          matched_rules, result>>

ParamsType ==
    [compute_full_matches : BOOLEAN,
     modules_dynamic_values : BOOLEAN,   \* fragmented_scan_mode
     can_refetch_regions : BOOLEAN,      \* fragmented_scan_mode
     timeout : BOOLEAN]                  \* timeout_duration is set

Phases == {"start", "no_scan_globals", "no_scan_rules", "memory", "eval", "done"}

\* global_rules.iter().chain(rules.iter())
Chain == scanner.global_rules \o scanner.rules
NbGlobals == Len(scanner.global_rules)
IsGlobal(i) == i <= NbGlobals

-----------------------------------------------------------------------------
(* Evaluation contexts. *)

\* A module keeps the values of the first region it recognises (pe, elf, macho).
ScanModules(values, region) ==
    [k \in DOMAIN values |->
        IF values[k] = Undefined THEN region.modules[k] ELSE values[k]]

\* Memory::get_contiguous, by what it makes readable: direct memory, or
\* fragmented memory that may be fetched again.
Readable(in, p) ==
    IF in.direct THEN in.regions[1].memory
    ELSE IF p.can_refetch_regions
    THEN LET fetched == {k \in DOMAIN in.regions : in.regions[k].fetched}
             Of(n) == {k \in fetched : n \in DOMAIN in.regions[k].memory}
             all == UNION {DOMAIN in.regions[k].memory : k \in fetched}
         IN  [n \in all |-> in.regions[Min(Of(n))].memory[n]]
    ELSE <<>>

\* What evaluate_rule reads of a scan: the matches of its variables, if they are
\* known, the results of the rules before it, and what the regions gave.
ScanContext(var_matches, previous, first_entrypoint, values) ==
    [var_matches |-> var_matches,
     previous |-> previous,
     filesize |-> IF input.direct THEN Integer(input.size) ELSE Undefined,
     entrypoint |-> first_entrypoint,
     memory |-> Readable(input, params),
     modules |-> values,
     externals |-> input.externals,
     expired |-> {},
     overflow_checks |-> FALSE]

\* The same from the data of the scan.
Context(known, own_matches) ==
    ScanContext([known |-> known, of |-> own_matches], previous_results,
                IF input.direct THEN input.regions[1].entrypoint ELSE entrypoint,
                module_values)

-----------------------------------------------------------------------------
(* Results. *)

\* build_matched_rule: the public variables that matched, with their matches.
build_matched_rule(i, variables, var_matches) ==
    LET public == {v \in DOMAIN var_matches :
                      ~variables[v].is_private /\ var_matches[v] # <<>>}
        shown == Only([v \in DOMAIN var_matches |-> v], public)
    IN  [rule |-> i,
         matches |-> [k \in DOMAIN shown |->
                         [name |-> variables[shown[k]].name,
                          rule |-> variables[shown[k]].rule,
                          matches |-> var_matches[shown[k]]]]]

\* The report after the i-th rule had result `matched`.
Report(i, matched, variables, var_matches) ==
    IF matched /\ ~Chain[i].is_private
    THEN Append(matched_rules, build_matched_rule(i, variables, var_matches))
    ELSE matched_rules

Finish(r) ==
    /\ result' = r
    /\ phase' = "done"

-----------------------------------------------------------------------------
TypeOK ==
    /\ scanner \in Scanners /\ input \in Inputs /\ params \in Params
    /\ phase \in Phases
    /\ cursor \in Nat \ {0}
    /\ var_index \in Nat
    /\ previous_results \in Seq(BOOLEAN)
    /\ has_unknown_globals \in BOOLEAN
    /\ result \in {"none", "ok", "Timeout", "Panic"}
    /\ result = "none" <=> phase # "done"
    /\ DOMAIN matches = DOMAIN scanner.variables
    /\ \A k \in DOMAIN matched_rules : matched_rules[k].rule \in DOMAIN Chain

NoModuleValues(in) == [k \in DOMAIN in.regions[1].modules |-> Undefined]

\* What the conditions read in a memory besides: integers, an entrypoint and values
\* of modules, or none, and the external symbols.
ValuesOK(in) ==
    /\ in.direct => in.size \in Nat
    /\ \A k \in DOMAIN in.externals : in.externals[k] \in BoundValue
    /\ \A region \in Range(in.regions) :
          /\ region.start \in Nat
          /\ region.entrypoint \in [int : Nat] \cup {Undefined}
          /\ \A n \in DOMAIN region.memory : region.memory[n] \in Int
          /\ \A k \in DOMAIN NoModuleValues(in) :
                region.modules[k] \in ModuleValues \cup {Undefined}

ASSUME ValuesAssumption == \A in \in Inputs : ValuesOK(in)

\* The data of a new scan.
InitWith(s, in, p) ==
    /\ scanner = s /\ input = in /\ params = p
    /\ cursor = 1
    /\ var_index = 0
    /\ matches = [v \in DOMAIN s.variables |-> <<>>]
    /\ module_values = NoModuleValues(in)
    /\ entrypoint = Undefined
    /\ previous_results = <<>>
    /\ has_unknown_globals = FALSE
    /\ matched_rules = <<>>
    /\ result = "none"

Init ==
    /\ phase = "start"
    /\ \E s \in Scanners, in \in Inputs, p \in Params : InitWith(s, in, p)

\* Mutation: the mode of fragmented memory is not looked at.
can_use_no_scan_optimizationAlways == ~params.compute_full_matches

can_use_no_scan_optimization ==
    /\ ~params.compute_full_matches
    /\ input.direct \/ (~params.modules_dynamic_values /\ ~params.can_refetch_regions)

\* The start of do_scan: the modules scan direct memory before any rule.
StartScan ==
    /\ phase = "start"
    /\ module_values' = IF input.direct
                        THEN ScanModules(module_values, input.regions[1])
                        ELSE module_values
    /\ phase' = IF can_use_no_scan_optimization THEN "no_scan_globals" ELSE "memory"
    /\ UNCHANGED <<config, cursor, var_index, matches, entrypoint,
                   previous_results, has_unknown_globals, matched_rules, result>>

-----------------------------------------------------------------------------
(* evaluate_without_matches. *)

\* Mutations: what was reported, or the results, survive the fallback.
FallBackKeepsReport ==
    /\ phase' = "memory"
    /\ cursor' = 1
    /\ previous_results' = <<>>
    /\ UNCHANGED <<config, var_index, found, has_unknown_globals, result, matched_rules>>

FallBackKeepsResults ==
    /\ matched_rules' = <<>>
    /\ phase' = "memory"
    /\ cursor' = 1
    /\ UNCHANGED <<config, var_index, found, has_unknown_globals, result, previous_results>>

\* Undecidable: what was reported is dropped and the memory is scanned.
FallBack ==
    /\ matched_rules' = <<>>
    /\ phase' = "memory"
    /\ cursor' = 1
    /\ previous_results' = <<>>
    /\ UNCHANGED <<config, var_index, found, has_unknown_globals, result>>

NoScanResult == evaluate_rule(Context(FALSE, <<>>), Chain[cursor].condition)

NoScanGlobal ==
    /\ phase = "no_scan_globals"
    /\ cursor <= NbGlobals
    /\ NoScanResult \in {"true", "Undecidable"}
    /\ matched_rules' = Report(cursor, NoScanResult = "true", <<>>, <<>>)
    /\ has_unknown_globals' =
          (has_unknown_globals \/ NoScanResult = "Undecidable")
    /\ cursor' = cursor + 1
    /\ UNCHANGED <<config, phase, var_index, found, previous_results, result>>

\* A false global ends the scan, with what is reported so far.
NoScanFalseGlobal ==
    /\ phase = "no_scan_globals"
    /\ cursor <= NbGlobals
    /\ NoScanResult = "false"
    /\ Finish("ok")
    /\ UNCHANGED <<config, cursor, var_index, found, previous_results,
                   has_unknown_globals, matched_rules>>

\* Every global has been tried: an unknown one leaves the rules undecidable.
NoScanGlobalsKnown ==
    /\ phase = "no_scan_globals"
    /\ cursor > NbGlobals
    /\ ~has_unknown_globals
    /\ phase' = "no_scan_rules"
    /\ UNCHANGED <<config, cursor, var_index, found, previous_results,
                   has_unknown_globals, matched_rules, result>>

NoScanGlobalsUnknown ==
    /\ phase = "no_scan_globals"
    /\ cursor > NbGlobals
    /\ has_unknown_globals
    /\ FallBack

NoScanRule ==
    /\ phase = "no_scan_rules"
    /\ cursor <= Len(Chain)
    /\ NoScanResult \in {"true", "false"}
    /\ matched_rules' = Report(cursor, NoScanResult = "true", <<>>, <<>>)
    /\ previous_results' = Append(previous_results, NoScanResult = "true")
    /\ cursor' = cursor + 1
    /\ UNCHANGED <<config, phase, var_index, found, has_unknown_globals, result>>

NoScanRuleUndecidable ==
    /\ phase = "no_scan_rules"
    /\ cursor <= Len(Chain)
    /\ NoScanResult = "Undecidable"
    /\ FallBack

NoScanDecided ==
    /\ phase = "no_scan_rules"
    /\ cursor > Len(Chain)
    /\ Finish("ok")
    /\ UNCHANGED <<config, cursor, var_index, found, previous_results,
                   has_unknown_globals, matched_rules>>

-----------------------------------------------------------------------------
(* do_memory_scan. *)

\* ac_scan.scan_region: the matches of the region follow those found before.
AddMatches(acc, region) ==
    [v \in DOMAIN acc |->
        LET new == region.found[scanner.variables[v]] IN
        acc[v] \o [k \in DOMAIN new |->
                      [new[k] EXCEPT !.offset = @ + region.start]]]

ScanRegion ==
    /\ phase = "memory"
    /\ cursor <= Len(input.regions)
    /\ LET region == input.regions[cursor] IN
       IF region.fetched
       THEN /\ matches' = AddMatches(matches, region)
            /\ entrypoint' = IF ~input.direct /\ entrypoint = Undefined
                             THEN region.entrypoint ELSE entrypoint
            /\ module_values' = IF ~input.direct /\ params.modules_dynamic_values
                                THEN ScanModules(module_values, region)
                                ELSE module_values
       ELSE UNCHANGED found      \* fetch returned None: the next region
    /\ cursor' = cursor + 1
    /\ UNCHANGED <<config, phase, var_index, previous_results,
                   has_unknown_globals, matched_rules, result>>

MemoryScanned ==
    /\ phase = "memory"
    /\ cursor > Len(input.regions)
    /\ phase' = "eval"
    /\ cursor' = 1
    /\ UNCHANGED <<config, var_index, found, previous_results,
                   has_unknown_globals, matched_rules, result>>

-----------------------------------------------------------------------------
(* The evaluation of every rule with the matches, globals first. *)

\* Mutation: every rule is given the first variables.
OwnFirst(s) == SubSeq(s, 1, Chain[cursor].nb_variables)

\* collect_nb_elems, and the slice of variables of the same length.
Own(s) == SubSeq(s, var_index + 1, var_index + Chain[cursor].nb_variables)

EvalResult ==
    IF var_index + Chain[cursor].nb_variables > Len(matches) THEN "Panic"
    ELSE evaluate_rule(Context(TRUE, Own(matches)), Chain[cursor].condition)

EvalRule ==
    /\ phase = "eval"
    /\ cursor <= Len(Chain)
    /\ EvalResult \in (IF IsGlobal(cursor) THEN {"true"} ELSE {"true", "false"})
    /\ matched_rules' = Report(cursor, EvalResult = "true",
                               Own(scanner.variables), Own(matches))
    /\ previous_results' = IF IsGlobal(cursor) THEN previous_results
                           ELSE Append(previous_results, EvalResult = "true")
    /\ var_index' = var_index + Chain[cursor].nb_variables
    /\ cursor' = cursor + 1
    /\ UNCHANGED <<config, phase, found, has_unknown_globals, result>>

EvalFalseGlobal ==
    /\ phase = "eval"
    /\ IsGlobal(cursor)
    /\ EvalResult = "false"
    /\ matched_rules' = <<>>
    /\ Finish("ok")
    /\ UNCHANGED <<config, cursor, var_index, found, previous_results,
                   has_unknown_globals>>

EvalDone ==
    /\ phase = "eval"
    /\ cursor > Len(Chain)
    /\ Finish("ok")
    /\ UNCHANGED <<config, cursor, var_index, found, previous_results,
                   has_unknown_globals, matched_rules>>

Evaluating ==
    \/ phase = "no_scan_globals" /\ cursor <= NbGlobals
    \/ phase \in {"no_scan_rules", "eval"} /\ cursor <= Len(Chain)

\* A panic of the evaluation unwinds the scan; Undecidable is the unreachable!()
\* of the second pass.
EvaluationPanics ==
    /\ Evaluating
    /\ IF phase = "eval" THEN EvalResult \in {"Panic", "Undecidable"}
       ELSE NoScanResult = "Panic"
    /\ Finish("Panic")
    /\ UNCHANGED <<config, cursor, var_index, found, previous_results,
                   has_unknown_globals, matched_rules>>

\* The timeout is found expired by an evaluation or by the scan of a region:
\* the scan ends with what has been reported.
TimeoutExpires ==
    /\ params.timeout
    /\ \/ Evaluating
       \/ /\ phase = "memory" /\ cursor <= Len(input.regions)
          /\ input.regions[cursor].fetched
    /\ Finish("Timeout")
    /\ UNCHANGED <<config, cursor, var_index, found, previous_results,
                   has_unknown_globals, matched_rules>>

Next ==
    \/ StartScan
    \/ NoScanGlobal \/ NoScanFalseGlobal
    \/ NoScanGlobalsKnown \/ NoScanGlobalsUnknown
    \/ NoScanRule \/ NoScanRuleUndecidable \/ NoScanDecided
    \/ ScanRegion \/ MemoryScanned
    \/ EvalRule \/ EvalFalseGlobal \/ EvalDone
    \/ EvaluationPanics \/ TimeoutExpires

Spec == Init /\ [][Next]_vars
-----------------------------------------------------------------------------
(* The reference: what every rule is worth when all the matches are known,    *)
(* each rule being given the matches of the variables it declares.            *)

FetchedRegions == {k \in DOMAIN input.regions : input.regions[k].fetched}

\* The first value of a function of positions that is not undefined.
FirstDefined(values) ==
    LET defined == {k \in DOMAIN values : values[k] # Undefined} IN
    IF defined = {} THEN Undefined ELSE values[Min(defined)]

AllMatchesOf(variable) ==
    FlattenSeq([k \in DOMAIN input.regions |->
        LET region == input.regions[k] IN
        IF ~region.fetched THEN <<>>
        ELSE [m \in DOMAIN region.found[variable] |->
                 [region.found[variable][m] EXCEPT !.offset = @ + region.start]]])

OwnVariables(i) ==
    Only(scanner.variables,
         {v \in DOMAIN scanner.variables : scanner.variables[v].rule = Chain[i].name})

OwnMatches(i) ==
    [k \in DOMAIN OwnVariables(i) |-> AllMatchesOf(OwnVariables(i)[k])]

\* The values of the first of some regions that have them.
EntrypointIn(regions) ==
    FirstDefined([k \in regions |-> input.regions[k].entrypoint])
ModulesIn(regions) ==
    [m \in DOMAIN NoModuleValues(input) |->
        FirstDefined([k \in regions |-> input.regions[k].modules[m]])]

ReferenceContext(i, previous) ==
    ScanContext([known |-> TRUE, of |-> OwnMatches(i)], previous,
                EntrypointIn(FetchedRegions),
                IF input.direct \/ params.modules_dynamic_values
                THEN ModulesIn(FetchedRegions) ELSE NoModuleValues(input))

\* The outcome of rule i, given those of the rules before it.
OutcomeAfter(before, i) ==
    LET previous == [k \in 1 .. i - 1 - NbGlobals |-> before[NbGlobals + k] = "true"]
    IN  evaluate_rule(ReferenceContext(i, previous), Chain[i].condition)

\* The outcome of every rule, in the order of Chain.
Outcomes ==
    LET upto[i \in 0 .. Len(Chain)] ==
            IF i = 0 THEN <<>>
            ELSE Append(upto[i - 1], OutcomeAfter(upto[i - 1], i))
    IN  upto[Len(Chain)]

Reported == [k \in DOMAIN matched_rules |-> matched_rules[k].rule]

-----------------------------------------------------------------------------
(* Properties. *)

\* What the caller has of the scan.
PublicRules == {i \in DOMAIN Chain : ~Chain[i].is_private}
Status == IF phase = "done" THEN result ELSE "scanning"
Returned == IF phase = "done" /\ result # "Panic" THEN Reported ELSE <<>>

Contract == INSTANCE ScanContract WITH
    outcomes <- Outcomes,
    public <- PublicRules,
    nb_globals <- NbGlobals,
    blind <- can_use_no_scan_optimization,
    status <- Status,
    report <- Returned

\* A scan returns what a full scan of the memory would, and nothing when a
\* global does not hold: the pass without matches, the fallback from it, the
\* accumulation over regions and the order of evaluation are invisible.
KeepsContract == Contract!Spec

\* What the code does keep: the same, but that the pass without matches may end
\* on a false global and leave the globals reported before it.
KeepsContractAsBuilt == Contract!AsBuilt

\* The matches listed for a reported rule are those of the public strings this
\* rule declares; with compute_full_matches, all of them.
MatchesAreOwn ==
    \A k \in DOMAIN matched_rules :
        LET i == matched_rules[k].rule
            own == build_matched_rule(i, OwnVariables(i), OwnMatches(i)).matches
        IN  matched_rules[k].matches
                \in (IF params.compute_full_matches THEN {own} ELSE {own, <<>>})

\* At any time, every rule is reported at most once and in the order of Chain,
\* also after the pass without matches has been given up.
ReportedOnceInOrder ==
    \A j, k \in DOMAIN matched_rules :
        j < k => matched_rules[j].rule < matched_rules[k].rule

\* A rule reads the result of an earlier rule by index: when a non-global rule
\* is evaluated, the results are those of the non-global rules before it.
PreviousResultsAligned ==
    phase \in {"no_scan_rules", "eval"} =>
        Len(previous_results) = IF IsGlobal(cursor) THEN 0 ELSE cursor - 1 - NbGlobals

\* The rules of a scanner, in the order of evaluation.
ChainOf(s) == s.global_rules \o s.rules

\* The strings that rule i declares, and those of the rules before it.
DeclaredBy(s, i) ==
    {v \in DOMAIN s.variables : s.variables[v].rule = ChainOf(s)[i].name}
DeclaredBefore(s, i) == UNION {DeclaredBy(s, j) : j \in 1 .. i - 1}

\* The layout the scan relies on: the strings of a rule, as many as it says,
\* follow those of the rules evaluated before it.
StringsInOrder(s) ==
    \A i \in DOMAIN ChainOf(s) : \E a \in 0 .. Len(s.variables) :
        /\ DeclaredBefore(s, i) = 1 .. a
        /\ DeclaredBy(s, i) = a + 1 .. a + ChainOf(s)[i].nb_variables
=============================================================================
