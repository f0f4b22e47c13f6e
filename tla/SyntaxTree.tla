------------------------------ MODULE SyntaxTree ------------------------------
(* The trees of conditions the parser returns and the compiler takes:          *)
(* boreal-parser/src/expression/mod.rs.  A kind of node has one shape or a      *)
(* few, the parts it is made of in order, or is a list of one part.            *)
EXTENDS Combinators, Naturals, TLC

Of(kinds, shapes) == [kind \in kinds |-> shapes]
Pair == {<<"expression", "expression">>}
Single == {<<"expression">>}

\* ExpressionKind, down to the shifts: what has the value of a number.
NumberShapes ==
    Of({"filesize", "entrypoint"}, {<<>>})
    @@ "read_integer" :> {<<"width", "expression">>}
    @@ "int" :> {<<"piece">>} @@ "double" :> {<<"digits", "digits">>}
    @@ "count" :> {<<"name">>, <<"name", "range">>}
    @@ Of({"offset", "length"}, {<<"name", "expression">>})
    @@ Of({"neg", "bnot"}, Single)
    @@ Of({"add", "sub", "mul", "div", "mod", "bxor", "band", "bor", "shl", "shr"}, Pair)

\* From the connectives to the values and the strings.
BooleanShapes ==
    Of({"not", "defined"}, Single)
    @@ Of({"lt", "le", "gt", "ge", "eq", "ne"}, Pair)
    @@ Of({"contains", "icontains", "startswith", "istartswith", "endswith", "iendswith",
           "iequals"}, Pair)
    @@ "matches" :> {<<"expression", "regex">>}
    @@ Of({"true", "false"}, {<<>>})
    @@ "variable" :> {<<"name">>, <<"name", "at">>, <<"name", "range">>}
    @@ Of({"bytes", "regex"}, {<<"piece">>})

\* For, ForIn, ForAt, ForRules and ForIdentifiers.  The last has no percentage:
\* the evaluator asserts it (evaluator/mod.rs:616).
ForShapes ==
    "of" :> {<<"selection", "rules">>, <<"selection", "variables">>,
             <<"selection", "variables", "range">>, <<"selection", "variables", "at">>}
    @@ "for" :> {<<"selection", "variables", "expression">>,
                 <<"count_selection", "identifiers", "iterator", "expression">>}

\* ForSelection, ForIterator, VariableSet, SetElement and RuleSet.
PartShapes ==
    "selection" :> {<<"expression">>, <<"expression", "percent">>}
    @@ Of({"any", "all", "none"}, {<<>>})
    @@ "range" :> Pair @@ "at" :> Single
    @@ "set" :> {<<"them">>}
    @@ "element" :> {<<"name">>, <<"name", "star">>}

\* IdentifierOperationType.
OperationShapes == "subscript" :> Single @@ "subfield" :> {<<"name">>}

\* The nodes with any number of parts, one at least but for a call.
Lists ==
    Of({"and", "or", "list", "call"}, "expression")
    @@ "identifiers" :> "name" @@ Of({"set", "rules"}, "element")

ReadWidths ==
    {"int8", "uint8", "int16", "int16be", "uint16", "uint16be",
     "int32", "int32be", "uint32", "uint32be"}

Shapes == NumberShapes @@ BooleanShapes @@ ForShapes @@ PartShapes @@ OperationShapes

\* The kinds of node a part may be.
PartKinds ==
    [expression |-> DOMAIN NumberShapes \cup DOMAIN BooleanShapes \cup DOMAIN ForShapes
                    \cup {"and", "or", "identifier"},
     selection |-> {"selection", "any", "all", "none"},
     count_selection |-> {"selection", "any", "all", "none"},
     iterator |-> {"identifier", "range", "list"},
     operation |-> {"subscript", "subfield", "call"},
     variables |-> {"set"}, percent |-> {"%"}, star |-> {"*"}, width |-> ReadWidths]

RECURSIVE IsPart(_, _)
Fits(node, shape) ==
    /\ Len(node.args) = Len(shape)
    /\ \A i \in DOMAIN shape : IsPart(node.args[i], shape[i])
IsList(node, part) ==
    /\ node.op = "call" \/ node.args # <<>>
    /\ \A i \in DOMAIN node.args : IsPart(node.args[i], part)
\* A name, an operator or digits are whatever they are made of.
IsPart(node, part) ==
    /\ node.op \in IF part \in DOMAIN PartKinds THEN PartKinds[part]
                   ELSE IF part = "piece" THEN {node.op} ELSE {part}
    /\ part = "count_selection" => \A i \in DOMAIN node.args : node.args[i].op # "%"
    /\ \/ node.op \notin DOMAIN Shapes \cup DOMAIN Lists \cup {"identifier"}
       \/ node.op \in DOMAIN Shapes /\ \E shape \in Shapes[node.op] : Fits(node, shape)
       \/ node.op \in DOMAIN Lists /\ IsList(node, Lists[node.op])
       \/ /\ node.op = "identifier" /\ node.args # <<>>
          /\ IsPart(Head(node.args), "name")
          /\ \A i \in 2..Len(node.args) : IsPart(node.args[i], "operation")

IsCondition(node) == IsPart(node, "expression")
===============================================================================
