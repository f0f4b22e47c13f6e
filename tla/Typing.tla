-------------------------------- MODULE Typing --------------------------------
(* The conditions a user writes, one construct around another, and what the    *)
(* compiler makes of them (compiler/rule.rs, compile_rule): the promises its   *)
(* checks make to the evaluator, which has no types.                           *)
EXTENDS KindsEvaluator, SyntaxTree

CONSTANTS
    Budgets,       \* [rules to begin with -> changes made from each]
    Frames(_),     \* the conditions written around a given one
    NewStrings     \* names of the strings that are declared

\* They are conditions the parser returns.
ASSUME ConditionsOfTheParser ==
    \A r \in DOMAIN Budgets :
        /\ IsCondition(r.condition)
        /\ \A c \in Frames(r.condition) : IsCondition(c)

VARIABLES
    rule,               \* [tags, variables, condition]
    fail_on_warnings,   \* params.fail_on_warnings
    budget,             \* changes left
    compiled            \* what compile_rule returns

typing_vars == <<rule, fail_on_warnings, budget, compiled>>

InitOn(r) ==
    /\ rule = r
    /\ budget = Budgets[r]
    /\ fail_on_warnings \in BOOLEAN
    /\ compiled = compile_rule(r, fail_on_warnings)
TypingInit == \E r \in DOMAIN Budgets : InitOn(r)

Write(r) ==
    /\ budget > 0
    /\ budget' = budget - 1
    /\ rule' = r
    /\ compiled' = compile_rule(r, fail_on_warnings)
    /\ UNCHANGED fail_on_warnings

WriteCondition == \E c \in Frames(rule.condition) : Write([rule EXCEPT !.condition = c])
DeclareString == \E name \in NewStrings : Write([rule EXCEPT !.variables = Append(@, name)])

TypingNext == WriteCondition \/ DeclareString
TypingSpec == TypingInit /\ [][TypingNext]_typing_vars

-----------------------------------------------------------------------------

Accepted == compiled.error = "none"

\* A condition that compiles never meets, in a scan, a value of a kind its operators have
\* no meaning for: the silent `_ => Err(Undefined)` of the evaluator (evaluator/mod.rs:83,
\* :192, :205, :899, evaluator/module.rs:123-156) are out of reach, through the operations
\* and the iterators of modules as well; and its value has the type it was given.
TypesAreSound == Accepted => EvalKinds[compiled.code, <<>>] \subseteq {compiled.ty, NoValue}

\* The names on the stack when the body of a for runs, against the indexes its
\* identifiers were compiled to.
Finds[c \in Any, names \in Any] ==
    /\ c.op = "module" /\ c.at.start.on = "stack" =>
        /\ c.at.start.at.index \in DOMAIN names
        /\ names[c.at.start.at.index] = c.at.start.at.name
    /\ \A i \in DOMAIN c.args :
        Finds[c.args[i], IF c.op = "for_identifiers" /\ i = 3 THEN names \o c.at ELSE names]

\* An identifier is compiled to an index of a stack the evaluator fills as it goes
\* (compiler/rule.rs:165, evaluator/mod.rs:770): it finds there the value bound to its
\* name, whatever the loops around it and those that are over. The index of a string or
\* of a rule, which the evaluator does not check either (evaluator/mod.rs:655, :675), is
\* that of one.
IndexesFindTheirBinding ==
    Accepted =>
        /\ Finds[compiled.code, <<>>]
        /\ IsExpression[compiled.code, Len(rule.variables)]

\* How deep compile_expression is called, and how deep evaluate_expr is.
Uncounted == {"range", "at", "list", "selection", "subscript", "call"}
NotExpressions == {"name", "set", "rules", "identifiers", "subfield", "%"} \cup Simple
Nesting[e \in Any] ==
    IF e.op \in NotExpressions THEN 0
    ELSE IF e.op \in DOMAIN Literals \cup {"regex"} THEN 1
    ELSE (IF e.op \in Uncounted THEN 0 ELSE 1)
         + Max({0} \cup {Nesting[e.args[i]] : i \in DOMAIN e.args})

\* The iterator of a for is not evaluated by evaluate_expr; its expressions are.
Recursion[c \in Any] ==
    LET operands == IF c.op # "for_identifiers" THEN c.args
                    ELSE <<c.args[1], c.args[3]>> \o c.args[2].args
        deepest == Max({0} \cup {Recursion[operands[i]] : i \in DOMAIN operands})
    IN  IF c.op = "selection" THEN deepest ELSE 1 + deepest

\* condition_depth counts the expressions around one another and none beside another: a
\* condition is refused as too deep only if it nests that deep, and one that compiles
\* bounds the recursion of the evaluator (compiler/rule.rs:72).  The body made for
\* `of .. in` and `of .. at` is not counted, so that a level may take two calls.
DepthIsNesting ==
    /\ compiled.error = "ConditionTooDeep" => Nesting[rule.condition] >= MaxConditionDepth
    /\ Accepted => Recursion[compiled.code] < 2 * MaxConditionDepth

\* The strings an expression reads.
Reads[c \in Any] ==
    CASE c.op \in StringOps -> {c.at}
      [] c.op = "for" -> Range(c.at)
      [] OTHER -> {}
ReadsAny[c \in Any] == Reads[c] \cup UNION {ReadsAny[c.args[i]] : i \in DOMAIN c.args}

\* A rule is refused for a string it does not use exactly when its condition reads it
\* nowhere, by its name, a wildcard or `them`, and its name does not say it may not be
\* (compiler/rule.rs:219).
StringsAreUsed ==
    LET expected == {i \in DOMAIN rule.variables :
                        Head(rule.variables[i].args \o <<Leaf("x")>>) # Leaf("_")}
    IN  /\ Accepted => expected \subseteq ReadsAny[compiled.code]
        /\ compiled.error = "UnusedVariable" => ~(expected \subseteq ReadsAny[compiled.code])
==============================================================================
