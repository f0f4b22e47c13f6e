-------------------------- MODULE ConditionCompiler --------------------------
(* A condition is checked and compiled: boreal/src/compiler/expression.rs and  *)
(* rule.rs.  The condition is the tree ExpressionGrammar reads; a name is the  *)
(* tree of its pieces.  A result is the state of the RuleCompiler, the         *)
(* compiled expression and its type, or the name of a CompilationError.        *)
EXTENDS ModuleUse, FiniteSetsExt, SequencesExt, TLC

CONSTANTS
    MaxConditionDepth,   \* params.max_condition_depth
    ImportedModules,     \* [name -> [name, static, dynamic]] of the namespace
    RulesIndexes,        \* [name -> index of a rule of the namespace, Global for a global one]
    Global,
    ExternalSymbols,     \* [name -> kind of its default value]
    NonAsciiRegexes      \* regular expressions that are compiled with a warning

Done(st, code, ty) == [error |-> "none", st |-> st, code |-> code, ty |-> ty]

\* The `?` of the code: the rest is done with what was compiled, or an error returned.
Try(r, Rest(_)) == IF Failed(r) THEN r ELSE Rest(r)
Require(condition, error, r) == IF condition THEN r ELSE Err(error)

-----------------------------------------------------------------------------
(* RuleCompiler: rule.rs.  `used` is the set of the indexes of the strings     *)
(* that were found, `bound` the bounded identifiers.                           *)

IsAnonymous(name) == name.args = <<>>
StartsWith(name, prefix) == IsPrefix(prefix.args, name.args)

HasDuplicates(s) == \E i, j \in DOMAIN s : i < j /\ s[i] = s[j]

NewCompiler(variables, fail_on_warnings) ==
    [variables |-> variables, fail_on_warnings |-> fail_on_warnings, used |-> {},
     bound |-> <<>>, wildcards |-> <<>>, warnings |-> 0, depth |-> 0]

find_named_variable(st, name) ==
    LET found == {i \in DOMAIN st.variables : st.variables[i] = name}
    IN  IF found = {} THEN Err("UnknownVariable")
        ELSE Done([st EXCEPT !.used = @ \cup {Min(found)}], Min(found), "none")

\* 0 is the anonymous variable, the one a for selects.
find_variable(st, name) ==
    IF IsAnonymous(name) THEN Done(st, 0, "none") ELSE find_named_variable(st, name)

\* Bind names to types, one after the other; the index of each is the number of
\* the identifiers bound before it.
add_bounded_identifiers(st, names, types) ==
    LET n == Cardinality(DOMAIN st.bound)
        new == [name \in Range(names) |->
                    LET i == CHOOSE k \in DOMAIN names : names[k] = name
                    IN  [type |-> types[i], index |-> n + i]]
    IN  IF HasDuplicates(names) \/ Range(names) \cap DOMAIN st.bound # {}
        THEN Err("DuplicatedIdentifierBinding")
        ELSE Done([st EXCEPT !.bound = @ @@ new], names, "none")

\* Mutation: the identifiers stay bound after the for.
remove_bounded_identifiersNever(st, names) == st

remove_bounded_identifiers(st, names) ==
    [st EXCEPT !.bound = [name \in DOMAIN @ \ Range(names) |-> @[name]]]

add_warning(r) ==
    IF r.st.fail_on_warnings THEN Err("Warning") ELSE [r EXCEPT !.st.warnings = @ + 1]

-----------------------------------------------------------------------------
(* The checks of expression.rs. *)

\* Mutation: the depth is not restored.
LeaveStays(st, code, ty) == Done(st, code, ty)

\* The end of compile_expression.
Leave(st, code, ty) == Done([st EXCEPT !.depth = @ - 1], code, ty)

to_bool_expr(r) == IF Failed(r) \/ r.ty # "bytes" THEN r ELSE add_warning(r)

compile_regex(st, regex) ==
    LET r == Done(st, Code("value", "regex", <<>>), "regex")
    IN  IF regex \in NonAsciiRegexes THEN add_warning(r) ELSE r

Numbers == {"integer", "float"}

\* The type compile_primary_op finds for two operands, "none" when it refuses them.
primary_type(a, b, string_allowed, bool_allowed) ==
    CASE a = "integer" /\ b = "integer" -> "integer"
      [] {a, b} \subseteq Numbers /\ "float" \in {a, b} -> "float"
      [] a = "bytes" /\ b = "bytes" /\ string_allowed -> "bytes"
      [] a = "boolean" /\ b = "boolean" /\ bool_allowed -> "boolean"
      [] OTHER -> "none"

\* The operators whose operands have one type each: [operands, type].
IntegerBinary == {"mod", "bxor", "band", "bor", "shl", "shr"}
TextBinary == {"contains", "icontains", "startswith", "istartswith", "endswith", "iendswith", "iequals"}
Signature ==
    [op \in IntegerBinary |-> [operands |-> <<"integer", "integer">>, type |-> "integer"]]
    @@ [op \in TextBinary |-> [operands |-> <<"bytes", "bytes">>, type |-> "boolean"]]
    @@ "bnot" :> [operands |-> <<"integer">>, type |-> "integer"]
    @@ "read_integer" :> [operands |-> <<"integer">>, type |-> "integer"]

Arithmetic == {"add", "sub", "mul", "div"}
Orders == {"lt", "le", "gt", "ge"}
Equalities == {"eq", "ne"}

Literals ==
    "int" :> "integer" @@ "double" :> "float" @@ "bytes" :> "bytes"
    @@ "true" :> "boolean" @@ "false" :> "boolean"

ReadIntegerType ==
    {"int8", "uint8", "int16", "uint16", "int32", "uint32",
     "int16be", "uint16be", "int32be", "uint32be"}

\* The expressions among the arguments of a node: those of a range are its bounds.
Expressions(args) ==
    FlattenSeq([i \in DOMAIN args |->
        CASE args[i].op \in {"range", "at"} -> args[i].args
          [] args[i].op \in {"name"} \cup ReadIntegerType -> <<>>
          [] OTHER -> <<args[i]>>])

StringOps == {"variable", "count", "offset", "length"}

-----------------------------------------------------------------------------
(* The sets of a for. *)

\* Mutation: the strings of a wildcard are not marked as used.
MarkWildcardNot(st, found) == st
MarkWildcard(st, found) == [st EXCEPT !.used = @ \cup found]

\* One element: a name, or the prefix of names.
compile_variable_element(st, element) ==
    LET name == element.args[1]
        found == {i \in DOMAIN st.variables : StartsWith(st.variables[i], name)}
    IN  CASE Len(element.args) = 2 /\ found = {} -> Err("UnknownVariable")
          [] Len(element.args) = 2 /\ found # {} ->
                Done(MarkWildcard(st, found), SetToSortSeq(found, <), "none")
          [] OTHER -> Try(find_named_variable(st, name), LAMBDA r : [r EXCEPT !.code = <<@>>])

Elements(set, st, Compile1(_, _)) ==
    FoldLeft(LAMBDA acc, element :
                Try(acc, LAMBDA before :
                Try(Compile1(before.st, element), LAMBDA r : [r EXCEPT !.code = before.code \o @])),
             Done(st, <<>>, "none"), set.args)

compile_variable_set(st, set) ==
    IF set.args # <<Leaf("them")>> THEN Elements(set, st, compile_variable_element)
    ELSE IF st.variables = <<>> THEN Err("UnknownVariable")
    ELSE Done([st EXCEPT !.used = DOMAIN st.variables],
              [i \in DOMAIN st.variables |-> i], "none")

\* The names of the rules of a wildcard are sealed; see module Compiler.
compile_rule_element(st, element) ==
    LET name == element.args[1]
        star == Len(element.args) = 2
        found == {n \in DOMAIN RulesIndexes : IF star THEN StartsWith(n, name) ELSE n = name}
    IN  IF found = {} THEN Err("UnknownIdentifier")
        ELSE Done(IF star THEN [st EXCEPT !.wildcards = Append(@, name)] ELSE st,
                  SetToSeq({RulesIndexes[n] : n \in found}), "none")
compile_rule_set(st, set) == Elements(set, st, compile_rule_element)

-----------------------------------------------------------------------------

\* The literal `any`, `all` or `none` of a selection.
Simple == {"any", "all", "none"}

\* Bind the names of a for to the types its iterator yields.
Bind(r, names, types, code) ==
    IF Len(names) # Len(types) THEN Err("InvalidIdentifierBinding")
    ELSE Try(add_bounded_identifiers(r.st, names, types), LAMBDA b : Done(b.st, code, "none"))

\* One operation, once its expressions are compiled.
add_operation(use, op, r) ==
    CASE op.op = "subfield" -> subfield_of(use, op.args[1])
      [] op.op = "subscript" -> subscript_of(use, r.code[1], r.ty[1])
      [] op.op = "call" -> function_call(use, r.code, r.ty)

-----------------------------------------------------------------------------
(* compile_expression is a recursive function; what it calls that calls it     *)
(* takes it as `compile`.                                                      *)

compile_bool_expression(compile, e, st) == to_bool_expr(compile[e, st])

\* The expressions in turn, each of a type that the types of those before it allow:
\* their codes and their types.
Each(Compile1(_, _), es, st, Allowed(_)) ==
    FoldLeft(LAMBDA acc, e :
                Try(acc, LAMBDA before :
                Try(Compile1(e, before.st), LAMBDA r :
                    Require(r.ty \in Allowed(before.ty), "ExpressionInvalidType",
                            Done(r.st, Append(before.code, r.code), Append(before.ty, r.ty))))),
             Done(st, <<>>, <<>>), es)
AnyType(before) == ExprKinds
TypeOfFirst(before) == IF before = <<>> THEN {"integer", "bytes"} ELSE {before[1]}
Operands(compile, es, st) == Each(LAMBDA e, in : compile[e, in], es, st, AnyType)

Integers(types) == [i \in DOMAIN types |-> "integer"]

\* The operators on numbers of any type, and the comparisons.
compile_primary_op(compile, e, st) ==
    Try(Operands(compile, e.args, st), LAMBDA r :
        LET ty == primary_type(r.ty[1], r.ty[2], e.op \notin Arithmetic, e.op \in Equalities)
        IN  Require(ty # "none", "ExpressionIncompatibleTypes",
                    Leave(r.st, Code(e.op, "none", r.code),
                          IF e.op \in Arithmetic THEN ty ELSE "boolean")))

compile_neg(compile, e, st) ==
    Try(compile[e.args[1], st], LAMBDA r :
        Require(r.ty \in Numbers, "ExpressionInvalidType",
                Leave(r.st, Code("neg", "none", <<r.code>>), r.ty)))

compile_matches(compile, e, st) ==
    Try(compile[e.args[1], st], LAMBDA r :
        Require(r.ty = "bytes", "ExpressionInvalidType",
                Try(compile_regex(r.st, e.args[2]), LAMBDA regex :
                    Leave(regex.st, Code("matches", "none", <<r.code>>), "boolean"))))

\* The string is found first, then the expressions are compiled.
compile_variable_op(compile, e, st) ==
    Try(find_variable(st, e.args[1]), LAMBDA var :
    Try(Operands(compile, Expressions(e.args), var.st), LAMBDA r :
        Require(r.ty = Integers(r.ty), "ExpressionInvalidType",
                Leave(r.st, Code(e.op, var.code, r.code),
                      IF e.op = "variable" THEN "boolean" ELSE "integer"))))

compile_for_selection(compile, selection, st) ==
    IF selection.op \in Simple THEN Done(st, Code("selection", selection.op, <<>>), "none")
    ELSE Try(compile[selection.args[1], st], LAMBDA r :
             Require(r.ty = "integer", "ExpressionInvalidType",
                     Done(r.st, Code("selection", Tail(selection.args), <<r.code>>), "none")))

\* For without a body, ForIn, ForAt: the place is compiled first, and the body is made
\* from it.
compile_of(compile, e, st) ==
    Try(Operands(compile, Expressions(SubSeq(e.args, 3, Len(e.args))), st), LAMBDA place :
    Try(compile_for_selection(compile, e.args[1], place.st), LAMBDA selection :
    Try(compile_variable_set(selection.st, e.args[2]), LAMBDA set :
        Require(place.ty = Integers(place.ty), "ExpressionInvalidType",
                Leave(set.st,
                      Code("for", set.code, <<selection.code, Code("variable", 0, place.code)>>),
                      "boolean")))))

compile_of_rules(compile, e, st) ==
    Try(compile_for_selection(compile, e.args[1], st), LAMBDA selection :
    Try(compile_rule_set(selection.st, e.args[2]), LAMBDA set :
        Leave(set.st, Code("for_rules", set.code, <<selection.code>>), "boolean")))

compile_for(compile, e, st) ==
    Try(compile_for_selection(compile, e.args[1], st), LAMBDA selection :
    Try(compile_variable_set(selection.st, e.args[2]), LAMBDA set :
    Try(compile_bool_expression(compile, e.args[3], set.st), LAMBDA body :
        Leave(body.st, Code("for", set.code, <<selection.code, body.code>>), "boolean"))))

\* A bounded identifier or a module, and its operations: the code of the result is the use.
IsUse(st, name) == name \in DOMAIN st.bound \cup DOMAIN ImportedModules
compile_use(compile, st, name, ops) ==
    LET start == IF name \in DOMAIN st.bound
                 THEN BoundedUse(st.bound[name].index, name, st.bound[name].type)
                 ELSE ModuleFieldUse(ImportedModules[name], ops)
        AddOperation(acc, op) ==
            Try(acc, LAMBDA before :
            Try(Operands(compile, IF op.op = "subfield" THEN <<>> ELSE op.args, before.st), LAMBDA r :
            Try(add_operation(before.code, op, r), LAMBDA use :
                Done(r.st, use, "none"))))
    IN  Try(start, LAMBDA use : FoldLeft(AddOperation, Done(st, use, "none"), LeftOf(use, ops)))

compile_identifier_as_iterator(compile, st, identifier, names) ==
    LET name == identifier.args[1]
    IN  IF ~IsUse(st, name)
        THEN Err(IF name \in DOMAIN RulesIndexes THEN "NonIterableIdentifier" ELSE "UnknownIdentifier")
        ELSE Try(compile_use(compile, st, name, Tail(identifier.args)), LAMBDA r :
                 LET iterated == into_iterator_expression(r.code)
                     types == IF iterated.kind = "array" THEN <<iterated.item>>
                              ELSE <<Type("bytes"), iterated.item>>
                 IN  Require(iterated # NoType, "NonIterableIdentifier",
                             Bind(r, names, types, iterated.code)))

\* The names are bound once the iterator is compiled.
compile_for_iterator(compile, iterator, names, st) ==
    CASE iterator.op = "identifier" -> compile_identifier_as_iterator(compile, st, iterator, names)
      [] iterator.op = "range" ->
            Try(Operands(compile, iterator.args, st), LAMBDA r :
            Try(Bind(r, names, <<Type("integer")>>, Code("range", "none", r.code)), LAMBDA range :
                Require(r.ty = Integers(r.ty), "ExpressionInvalidType", range)))
      [] iterator.op = "list" ->
            Try(Each(LAMBDA e, in : compile[e, in], iterator.args, st, TypeOfFirst), LAMBDA r :
                Bind(r, names, <<Type(r.ty[1])>>, Code("list", "none", r.code)))

\* The identifiers are bound in the body only.
compile_for_identifiers(compile, e, st) ==
    LET names == e.args[2].args
    IN  Try(compile_for_selection(compile, e.args[1], st), LAMBDA selection :
        Try(compile_for_iterator(compile, e.args[3], names, selection.st), LAMBDA iterator :
        Try(compile_bool_expression(compile, e.args[4], iterator.st), LAMBDA body :
            Leave(remove_bounded_identifiers(body.st, names),
                  Code("for_identifiers", names, <<selection.code, iterator.code, body.code>>),
                  "boolean"))))

\* A bounded identifier, a module, a rule, a symbol, whose operations are not looked at.
compile_identifier(compile, e, st) ==
    LET name == e.args[1]
        rule == IF RulesIndexes[name] = Global THEN Code("value", "boolean", <<>>)
                ELSE Code("rule", RulesIndexes[name], <<>>)
    IN  CASE IsUse(st, name) ->
                Try(compile_use(compile, st, name, Tail(e.args)), LAMBDA r :
                    LET value == into_expression(r.code)
                    IN  Require(value # NoType, "InvalidIdentifierUse",
                                Leave(r.st, value.code, value.kind)))
          [] ~IsUse(st, name) /\ name \in DOMAIN RulesIndexes ->
                Require(Len(e.args) = 1, "InvalidIdentifierUse", Leave(st, rule, "boolean"))
          [] ~IsUse(st, name) /\ name \in DOMAIN ExternalSymbols \ DOMAIN RulesIndexes ->
                Leave(st, Code("external", name, <<>>), ExternalSymbols[name])
          [] OTHER -> Err("UnknownIdentifier")

\* The match of compile_expression.
compile_node(compile, e, st) ==
    CASE e.op \in DOMAIN Literals -> Leave(st, Code("value", Literals[e.op], <<>>), Literals[e.op])
      [] e.op \in {"filesize", "entrypoint"} -> Leave(st, Code(e.op, "none", <<>>), "integer")
      [] e.op = "regex" -> Try(compile_regex(st, e), LAMBDA r : Leave(r.st, r.code, r.ty))
      [] e.op \in DOMAIN Signature ->
            Try(Operands(compile, Expressions(e.args), st), LAMBDA r :
                Require(r.ty = Signature[e.op].operands, "ExpressionInvalidType",
                        Leave(r.st, Code(e.op, "none", r.code), Signature[e.op].type)))
      [] e.op = "neg" -> compile_neg(compile, e, st)
      [] e.op \in Arithmetic \cup Orders \cup Equalities -> compile_primary_op(compile, e, st)
      [] e.op = "matches" -> compile_matches(compile, e, st)
      [] e.op \in {"and", "or", "not"} ->
            Try(Each(LAMBDA f, in : compile_bool_expression(compile, f, in), e.args, st, AnyType),
                LAMBDA r : Leave(r.st, Code(e.op, "none", r.code), "boolean"))
      [] e.op = "defined" ->
            Try(compile[e.args[1], st], LAMBDA r :
                Leave(r.st, Code("defined", "none", <<r.code>>), "boolean"))
      [] e.op \in StringOps -> compile_variable_op(compile, e, st)
      [] e.op = "of" /\ e.args[2].op = "set" -> compile_of(compile, e, st)
      [] e.op = "of" /\ e.args[2].op = "rules" -> compile_of_rules(compile, e, st)
      [] e.op = "for" /\ e.args[2].op = "set" -> compile_for(compile, e, st)
      [] e.op = "for" /\ e.args[2].op = "identifiers" -> compile_for_identifiers(compile, e, st)
      [] e.op = "identifier" -> compile_identifier(compile, e, st)

\* [error, st, code, ty]: how deep it is called is counted, and bounded.
compile_expression[e \in Any, st \in Any] ==
    IF st.depth + 1 >= MaxConditionDepth THEN Err("ConditionTooDeep")
    ELSE compile_node(compile_expression, e, [st EXCEPT !.depth = @ + 1])

-----------------------------------------------------------------------------
(* Expression: the number of operands of each kind of compiled expression, and *)
(* what it holds besides them, which the evaluator takes for an index without  *)
(* looking whether it is one.                                                  *)

AnyNumber == Nat
Taking(counts, kinds) == [kind \in kinds |-> counts]

NumberOperands ==
    Taking({0}, {"value", "filesize", "entrypoint"})
    @@ Taking({1}, {"read_integer", "offset", "length", "neg", "bnot"})
    @@ Taking({0, 2}, {"count"})
    @@ Taking({2}, Arithmetic \cup IntegerBinary)

BooleanOperands ==
    Taking(AnyNumber, {"and", "or"})
    @@ Taking({1}, {"not", "defined", "matches"})
    @@ Taking({2}, Orders \cup Equalities \cup TextBinary)
    @@ Taking({0, 1, 2}, {"variable"})

\* The selection, then the iterator, then the body.
LoopOperands ==
    Taking({2}, {"for"}) @@ Taking({3}, {"for_identifiers"}) @@ Taking({1}, {"for_rules"})
    @@ Taking({0, 1}, {"selection"}) @@ Taking({2}, {"range"})
    @@ Taking(AnyNumber, {"list", "module"}) @@ Taking({0}, {"rule", "external"})

OperandCounts == NumberOperands @@ BooleanOperands @@ LoopOperands

\* 0 is the string the innermost for selects.
HoldsAnIndex(c, strings) ==
    CASE c.op \in StringOps -> c.at \in 0..strings
      [] c.op = "for" -> Range(c.at) \subseteq 1..strings
      [] c.op = "rule" -> c.at \in Range(RulesIndexes) \ {Global}
      [] c.op = "for_rules" -> Range(c.at) \subseteq Range(RulesIndexes)
      [] c.op = "external" -> c.at \in DOMAIN ExternalSymbols
      [] OTHER -> TRUE

IsExpression[c \in Any, strings \in Any] ==
    /\ Len(c.args) \in OperandCounts[c.op]
    /\ HoldsAnIndex(c, strings)
    /\ \A i \in DOMAIN c.args : IsExpression[c.args[i], strings]

-----------------------------------------------------------------------------

\* compile_rule: [error, st, code, ty], the state kept when a string is not used.
compile_rule(rule, fail_on_warnings) ==
    LET named == SelectSeq(rule.variables, LAMBDA name : ~IsAnonymous(name))
        r == compile_bool_expression(compile_expression, rule.condition,
                                     NewCompiler(rule.variables, fail_on_warnings))
        underscored(name) == StartsWith(name, Tree("name", <<Leaf("_")>>))
        unused == {i \in DOMAIN rule.variables : ~underscored(rule.variables[i])} \ r.st.used
    IN  CASE HasDuplicates(rule.tags) -> Err("DuplicatedRuleTag")
          [] ~HasDuplicates(rule.tags) /\ HasDuplicates(named) -> Err("DuplicatedVariable")
          [] OTHER -> IF ~Failed(r) /\ unused # {} THEN [r EXCEPT !.error = "UnusedVariable"] ELSE r
==============================================================================
