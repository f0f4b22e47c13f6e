------------------------------ MODULE Compiler ------------------------------
(* The compiler: boreal/src/compiler/mod.rs and the name resolution of        *)
(* compiler/rule.rs and compiler/expression.rs.                               *)
(*                                                                            *)
(* A component of a rules file is                                             *)
(*   [kind |-> "include", file], [kind |-> "import", module] or               *)
(*   [kind |-> "rule", rule].                                                 *)
(* A parsed rule is [name, is_global, is_private, variables, condition]; a    *)
(* variable is [name, is_private].  A condition joins its terms with "and" or *)
(* "or": the names a term uses are all that compiling it depends on.          *)
(*   [op |-> "filesize_ge", n], [op |-> "string", name], [op |-> "any_of_them"]*)
(*   [op |-> "identifier", name]                                              *)
(*   [op |-> "rule_set", kind, elements], an element [name, is_wildcard]      *)
(* An anonymous string has a name of its own.  Bound identifiers are those of *)
(* the Evaluator; types are not checked.                                      *)
EXTENDS Integers, SequencesExt

CONSTANTS
    Namespaces,      \* namespaces, the default one included
    Calls,           \* arguments of add_rules: [namespace, components]
    Files,           \* contents of the files that can be read and parsed
    StartsWith,      \* pairs <<name, prefix>>
    Modules,         \* modules that may be added
    Symbols,         \* external symbols that may be defined
    MaxCalls,        \* bound on the calls of add_rules
    MaxDepth         \* bound on nested includes: the code has none

ASSUME NamespacesAssumption == Namespaces # {}

\* The components written in the calls and in the files.
Written == UNION ({Range(call.components) : call \in Calls}
                  \cup {Range(Files[f]) : f \in DOMAIN Files})

TermOK(term) ==
    /\ term.op \in {"filesize_ge", "string", "any_of_them", "identifier", "rule_set"}
    /\ term.op = "rule_set" => /\ term.kind \in {"any", "all", "none"}
                               /\ term.elements \in Seq(Range(term.elements))

\* A namespace is created when a call names it first.  Calls and files are
\* sequences of components.
ASSUME CallsAssumption ==
    \A call \in Calls : /\ call.namespace \in Namespaces
                        /\ call.components \in Seq(Range(call.components))
ASSUME FilesAssumption == \A f \in DOMAIN Files : Files[f] \in Seq(Range(Files[f]))
ASSUME RulesAssumption ==
    \A c \in Written :
        c.kind = "rule" =>
            /\ c.rule.variables \in Seq(Range(c.rule.variables))
            /\ c.rule.condition.op \in {"and", "or"}
            /\ \A t \in Range(c.rule.condition.terms) : TermOK(t)

VARIABLES
    rules,              \* compiled rules that are not global
    global_rules,
    variables,          \* variables of all rules, in the order of compilation
    namespaces,
    available_modules,  \* index of a module once imported, 0 before
    imported_modules,
    external_symbols,
    pending,            \* components left in every open file, innermost first
    namespace,          \* namespace of the call being made
    calls,              \* calls of add_rules made
    status,             \* "idle", "adding", "error" (the last call failed)
    accepted            \* history: rules added, with what they could name

compilerVars == <<rules, global_rules, variables, namespaces, available_modules,
                  imported_modules, external_symbols, pending, namespace, calls,
                  status, accepted>>
compiled == <<rules, global_rules, variables, accepted>>
modules  == <<available_modules, imported_modules>>

EmptyNamespace ==
    [rules_indexes |-> <<>>, imported_modules |-> <<>>,
     forbidden_rule_prefixes |-> {}]

\* A function with one more argument, or a new value for it.
Insert(f, x, y) == [z \in DOMAIN f \cup {x} |-> IF z = x THEN y ELSE f[z]]

IndexOf(seq, x) == CHOOSE i \in DOMAIN seq : seq[i] = x

-----------------------------------------------------------------------------
(* compile_rule: [ok |-> FALSE], or the condition with the wildcards it used. *)

Error == [ok |-> FALSE]
Expr(e) == [ok |-> TRUE, expr |-> e, wildcards |-> {}]

Module(index) == [op |-> "module", bound |-> FALSE, iterated |-> FALSE,
                  index |-> index, args |-> <<>>]
GlobalHolds == [op |-> "boolean", bool |-> TRUE]

\* Mutation: a rule hides the module of the same name.
compile_identifierRuleFirst(ns, name) ==
    CASE name \in DOMAIN ns.rules_indexes ->
            Expr(IF ns.rules_indexes[name] = 0 THEN GlobalHolds
                 ELSE [op |-> "rule", index |-> ns.rules_indexes[name]])
      [] name \in DOMAIN ns.imported_modules \ DOMAIN ns.rules_indexes ->
            Expr(Module(ns.imported_modules[name]))
      [] /\ name \notin DOMAIN ns.imported_modules \cup DOMAIN ns.rules_indexes
         /\ name \in Range(external_symbols) ->
            Expr([op |-> "external", index |-> IndexOf(external_symbols, name)])
      [] OTHER -> Error

\* compile_identifier: a module hides a rule, which hides an external symbol.
\* A global rule holds whenever the rule that names it is evaluated.
compile_identifier(ns, name) ==
    CASE name \in DOMAIN ns.imported_modules ->
            Expr(Module(ns.imported_modules[name]))
      [] /\ name \notin DOMAIN ns.imported_modules
         /\ name \in DOMAIN ns.rules_indexes ->
            Expr(IF ns.rules_indexes[name] = 0 THEN GlobalHolds
                 ELSE [op |-> "rule", index |-> ns.rules_indexes[name]])
      [] /\ name \notin DOMAIN ns.imported_modules \cup DOMAIN ns.rules_indexes
         /\ name \in Range(external_symbols) ->
            Expr([op |-> "external", index |-> IndexOf(external_symbols, name)])
      [] OTHER -> Error

\* The names of the namespace an element of a rule set stands for.
NamesOf(ns, element) ==
    {n \in DOMAIN ns.rules_indexes :
        IF element.is_wildcard THEN <<n, element.name>> \in StartsWith
        ELSE n = element.name}

Wildcards(elements) ==
    {elements[k].name : k \in {j \in DOMAIN elements : elements[j].is_wildcard}}

compile_rule_set(ns, term) ==
    LET names(k) == NamesOf(ns, term.elements[k])
        global(k) == {n \in names(k) : ns.rules_indexes[n] = 0}
        \* in the order of the hash map
        indexes(k) == SetToSeq({ns.rules_indexes[n] : n \in names(k) \ global(k)})
        elements == DOMAIN term.elements
    IN  IF \E k \in elements : names(k) = {} THEN Error
        ELSE [ok |-> TRUE,
              expr |-> [op |-> "for_rules", selection |-> [kind |-> term.kind],
                        set |-> FlattenSeq([k \in elements |-> indexes(k)]),
                        already_matched |->
                            MapThenSumSet(LAMBDA k : Cardinality(global(k)), elements)],
              wildcards |-> Wildcards(term.elements)]

compile_term(ns, rule, term) ==
    LET strings == DOMAIN rule.variables
        named == {i \in strings : rule.variables[i].name = term.name}
    IN  CASE term.op = "filesize_ge" ->
                Expr([op |-> "cmp", l |-> [op |-> "filesize"],
                      r |-> [op |-> "integer", int |-> term.n],
                      less_than |-> FALSE, can_be_equal |-> TRUE])
          [] term.op = "string" ->
                IF named = {} THEN Error
                ELSE Expr([op |-> "variable", var |-> Min(named)])
          [] term.op = "any_of_them" ->
                IF strings = {} THEN Error
                ELSE Expr([op |-> "for", selection |-> [kind |-> "any"],
                           set |-> [i \in strings |-> i],
                           body |-> [op |-> "variable", var |-> 0]])
          [] term.op = "identifier" -> compile_identifier(ns, term.name)
          [] term.op = "rule_set"   -> compile_rule_set(ns, term)

\* The strings the condition uses: all must be, but those named `_...`.
UsedStrings(rule) ==
    LET terms == Range(rule.condition.terms)
        names == {rule.variables[i].name : i \in DOMAIN rule.variables}
    IN  IF \E t \in terms : t.op = "any_of_them" THEN names
        ELSE {t.name : t \in {u \in terms : u.op = "string"}}
             \cup {n \in names : <<n, "_">> \in StartsWith}

compile_rule(ns, rule) ==
    LET terms == rule.condition.terms
        compiled_terms == [k \in DOMAIN terms |-> compile_term(ns, rule, terms[k])]
        names == {rule.variables[i].name : i \in DOMAIN rule.variables}
    IN  IF \/ Cardinality(names) # Len(rule.variables)
           \/ \E k \in DOMAIN terms : ~compiled_terms[k].ok
           \/ names \ UsedStrings(rule) # {}
        THEN Error
        ELSE [ok |-> TRUE,
              expr |-> [op |-> rule.condition.op,
                        ops |-> [k \in DOMAIN terms |-> compiled_terms[k].expr]],
              wildcards |-> UNION {compiled_terms[k].wildcards : k \in DOMAIN terms}]

-----------------------------------------------------------------------------
Init ==
    /\ rules = <<>> /\ global_rules = <<>> /\ variables = <<>>
    /\ namespaces = [n \in Namespaces |-> EmptyNamespace]
    /\ available_modules = <<>> /\ imported_modules = <<>>
    /\ external_symbols = <<>>
    /\ pending = <<>>
    /\ namespace = CHOOSE n \in Namespaces : TRUE
    /\ calls = 0
    /\ status = "idle"
    /\ accepted = <<>>

\* Both answer false, and change nothing, for a name already there.
add_module ==
    /\ status # "adding"
    /\ \E m \in Modules \ DOMAIN available_modules :
          available_modules' = Insert(available_modules, m, 0)
    /\ UNCHANGED <<compiled, namespaces, imported_modules, external_symbols,
                   pending, namespace, calls, status>>

define_symbol ==
    /\ status # "adding"
    /\ \E s \in Symbols \ Range(external_symbols) :
          external_symbols' = Append(external_symbols, s)
    /\ UNCHANGED <<compiled, namespaces, modules, pending, namespace, calls, status>>

\* add_rules_str and add_rules_file, in a namespace.
add_rules ==
    /\ status # "adding"
    /\ calls < MaxCalls
    /\ \E call \in Calls :
          pending' = <<call.components>> /\ namespace' = call.namespace
    /\ calls' = calls + 1
    /\ status' = "adding"
    /\ UNCHANGED <<compiled, namespaces, modules, external_symbols>>

-----------------------------------------------------------------------------
(* add_component, on the next component of the innermost file. *)

Adding == status = "adding" /\ pending[1] # <<>>
Component == pending[1][1]
Rest == [pending EXCEPT ![1] = Tail(@)]
Ns == namespaces[namespace]

\* The call returns an error.  What it has added stays.
Fail ==
    /\ pending' = <<>>
    /\ status' = "error"
    /\ UNCHANGED <<compiled, namespaces, modules, external_symbols, namespace, calls>>

Include ==
    /\ Adding
    /\ Component.kind = "include"
    /\ Component.file \in DOMAIN Files
    /\ Len(pending) < MaxDepth
    /\ pending' = <<Files[Component.file]>> \o Rest
    /\ UNCHANGED <<compiled, namespaces, modules, external_symbols, namespace,
                   calls, status>>

\* A module moves to the imported ones the first time any namespace imports it.
Import ==
    /\ Adding
    /\ Component.kind = "import"
    /\ Component.module \in DOMAIN available_modules
    /\ LET m == Component.module
           index == IF available_modules[m] # 0 THEN available_modules[m]
                    ELSE Len(imported_modules) + 1
       IN  /\ imported_modules' = IF available_modules[m] # 0 THEN imported_modules
                                  ELSE Append(imported_modules, m)
           /\ available_modules' = [available_modules EXCEPT ![m] = index]
           /\ namespaces' = [namespaces EXCEPT ![namespace].imported_modules =
                                Insert(@, m, index)]
    /\ pending' = Rest
    /\ UNCHANGED <<compiled, external_symbols, namespace, calls, status>>

\* Mutation: the wildcards used are not remembered.
IsForbiddenNever(ns, name) == FALSE

\* MatchOnWildcardRuleSet
IsForbidden(ns, name) ==
    \E prefix \in ns.forbidden_rule_prefixes : <<name, prefix>> \in StartsWith

Acceptable(rule) ==
    /\ ~IsForbidden(Ns, rule.name)
    /\ compile_rule(Ns, rule).ok
    /\ rule.name \notin DOMAIN Ns.rules_indexes     \* DuplicatedRuleName

\* Mutation: private strings are not counted.
RulePublicOnly(rule) ==
    [name |-> <<namespace, rule.name>>,
     condition |-> compile_rule(Ns, rule).expr,
     is_private |-> rule.is_private,
     nb_variables |-> Cardinality({i \in DOMAIN rule.variables :
                                      ~rule.variables[i].is_private})]

Rule(rule) ==
    [name |-> <<namespace, rule.name>>,
     condition |-> compile_rule(Ns, rule).expr,
     is_private |-> rule.is_private,
     nb_variables |-> Len(rule.variables)]

CompiledVariables(rule) ==
    [i \in DOMAIN rule.variables |->
        [rule |-> <<namespace, rule.name>>, name |-> rule.variables[i].name,
         is_private |-> rule.variables[i].is_private]]

\* Mutation: the rule is taken as pushed.
RuleIndexAfterPush(rule) == IF rule.is_global THEN 0 ELSE Len(rules) + 2

\* What the namespace knows of the rule: its index, or 0 for a global.
RuleIndex(rule) == IF rule.is_global THEN 0 ELSE Len(rules) + 1

AddRule ==
    /\ Adding
    /\ Component.kind = "rule"
    /\ LET rule == Component.rule IN
       /\ Acceptable(rule)
       /\ namespaces' =
            [namespaces EXCEPT
                ![namespace].forbidden_rule_prefixes =
                    @ \cup compile_rule(Ns, rule).wildcards,
                ![namespace].rules_indexes =
                    Insert(@, rule.name, RuleIndex(rule))]
       /\ global_rules' = IF rule.is_global THEN Append(global_rules, Rule(rule))
                          ELSE global_rules
       /\ rules' = IF rule.is_global THEN rules ELSE Append(rules, Rule(rule))
       /\ variables' = variables \o CompiledVariables(rule)
       /\ accepted' = Append(accepted,
                        [namespace |-> namespace, rule |-> rule,
                         modules |-> DOMAIN Ns.imported_modules,
                         symbols |-> Range(external_symbols)])
    /\ pending' = Rest
    /\ UNCHANGED <<modules, external_symbols, namespace, calls, status>>

ComponentFails ==
    /\ Adding
    /\ \/ Component.kind = "include" /\ Component.file \notin DOMAIN Files
       \/ Component.kind = "import"
          /\ Component.module \notin DOMAIN available_modules
       \/ Component.kind = "rule" /\ ~Acceptable(Component.rule)
    /\ Fail

\* The innermost file ends, and the call with the outermost one.
EndOfFile ==
    /\ status = "adding"
    /\ pending[1] = <<>>
    /\ pending' = Tail(pending)
    /\ status' = IF Len(pending) = 1 THEN "idle" ELSE status
    /\ UNCHANGED <<compiled, namespaces, modules, external_symbols, namespace, calls>>

Next ==
    \/ add_module \/ define_symbol \/ add_rules
    \/ Include \/ Import \/ AddRule \/ ComponentFails \/ EndOfFile

Spec == Init /\ [][Next]_compilerVars

-----------------------------------------------------------------------------
(* Properties. *)

\* A set of rules given by a prefix stays complete: no rule of the namespace is
\* added that the wildcard of an earlier rule would have selected.
WildcardsAreSealed ==
    \A i, j \in DOMAIN accepted :
        i < j /\ accepted[i].namespace = accepted[j].namespace =>
            \A t \in Range(accepted[i].rule.condition.terms) :
                t.op = "rule_set" =>
                    \A prefix \in Wildcards(t.elements) :
                        <<accepted[j].rule.name, prefix>> \notin StartsWith

\* Results of rules a compiled condition reads.
References(condition) ==
    LET ops == Range(condition.ops)
        sets == {Range(e.set) : e \in {x \in ops : x.op = "for_rules"}}
    IN  {e.index : e \in {x \in ops : x.op = "rule"}} \cup UNION sets

\* Globals are evaluated before the results of any rule are there.
GlobalsReadNoRule ==
    \A g \in DOMAIN global_rules : References(global_rules[g].condition) = {}

\* Results are read by index: a rule reads those of rules compiled before it, which
\* are evaluated before it.
RulesReadEarlierRules ==
    \A k \in DOMAIN rules : References(rules[k].condition) \subseteq 1 .. k - 1

\* The index a namespace has for a name is the one of the rule of that name, and of
\* no other, for as long as the compiler lives.
NamesFindTheirRule ==
    \A n \in Namespaces :
        /\ \A name \in DOMAIN namespaces[n].rules_indexes :
              LET k == namespaces[n].rules_indexes[name] IN
              IF k = 0 THEN \E g \in DOMAIN global_rules :
                               global_rules[g].name = <<n, name>>
              ELSE k \in DOMAIN rules /\ rules[k].name = <<n, name>>
        /\ \A k \in DOMAIN rules :
              rules[k].name[1] = n =>
                  /\ rules[k].name[2] \in DOMAIN namespaces[n].rules_indexes
                  /\ namespaces[n].rules_indexes[rules[k].name[2]] = k

\* Every namespace that imports a module reads the same slot, that of the module.
ModulesHaveOneSlot ==
    \A n \in Namespaces : \A m \in DOMAIN namespaces[n].imported_modules :
        LET slot == namespaces[n].imported_modules[m] IN
        /\ slot \in DOMAIN imported_modules
        /\ \A k \in DOMAIN imported_modules : imported_modules[k] = m <=> k = slot
=============================================================================
