---------------------------- MODULE KindsEvaluator ----------------------------
(* The kinds of the values a compiled condition can have: boreal/src/          *)
(* evaluator/mod.rs and evaluator/module.rs, where only the variant of Value   *)
(* is looked at.  The values a scan depends on, and those of the modules, are  *)
(* any of their type or undefined.                                            *)
EXTENDS ConditionCompiler

NoValue == "undefined"
\* An operand, a module value or an index of the stack is of none of the kinds its
\* operator has a branch for: the `_ => Err(PoisonKind::Undefined)` of the code.
Mismatch == "mismatch"

Outcomes == ExprKinds \cup {NoValue, Mismatch}

\* The outcomes of an operator, applied to kinds.
Applied(op, k) ==
    CASE op \in Arithmetic /\ k = <<"integer", "integer">> ->
            {"integer"} \cup IF op = "div" THEN {NoValue} ELSE {}
      [] op \in Arithmetic /\ Range(k) \subseteq Numbers /\ "float" \in Range(k) -> {"float"}
      [] op \in IntegerBinary /\ k = <<"integer", "integer">> ->
            {"integer"} \cup IF op \in {"mod", "shl", "shr"} THEN {NoValue} ELSE {}
      [] op \in Orders \cup Equalities
            /\ (Range(k) \subseteq Numbers \/ Range(k) = {"bytes"}) -> {"boolean"}
      [] op \in Equalities /\ Range(k) = {"boolean"} -> {"boolean"}
      [] op \in TextBinary \cup {"matches"} /\ Range(k) = {"bytes"} -> {"boolean"}
      [] op = "neg" /\ Range(k) \subseteq Numbers -> Range(k)
      [] op = "bnot" /\ k = <<"integer">> -> {"integer"}
      [] op \in {"read_integer", "offset", "length"} /\ k = <<"integer">> -> {"integer", NoValue}
      [] op = "count" /\ Range(k) \subseteq {"integer"} -> {"integer"}
      [] op = "variable" /\ Range(k) \subseteq {"integer"} -> {"boolean"}
      [] OTHER -> {Mismatch}

\* Operands are evaluated in order, and `?` returns the first that has no value.
StrictKinds(op, operands) ==
    UNION {IF Mismatch \in Range(k) THEN {Mismatch}
           ELSE IF NoValue \in Range(k) THEN {NoValue} ELSE Applied(op, k) :
              k \in {f \in [DOMAIN operands -> Outcomes] :
                        \A i \in DOMAIN operands : f[i] \in operands[i]}}

Mismatches(outcomes) == outcomes \cap {Mismatch}

\* evaluate_ops: the type of the value after one operation; `left` holds the outcomes of
\* the expressions not yet used.
Wrong == [type |-> NoType, left |-> <<>>]
Operate(value, op) ==
    LET type == value.type
    IN  CASE op.op = "subfield" ->
                IF type.kind = "object" /\ op.name \in DOMAIN type.fields
                THEN [value EXCEPT !.type = type.fields[op.name]] ELSE Wrong
          [] op.op = "subscript" ->
                IF /\ type.kind \in {"array", "dictionary"}
                   /\ Head(value.left) \subseteq {IndexKind(type), NoValue}
                THEN [type |-> type.item, left |-> Tail(value.left)] ELSE Wrong
          [] op.op = "call" ->
                IF /\ type.kind = "function"
                   /\ \E kinds \in IF type.arguments = {} THEN {<<>>} ELSE type.arguments :
                        /\ Len(kinds) = op.arguments
                        /\ \A i \in DOMAIN kinds : value.left[i] \subseteq {kinds[i], NoValue}
                THEN [type |-> type.returns,
                      left |-> SubSeq(value.left, op.arguments + 1, Len(value.left))]
                ELSE Wrong

\* module::evaluate_expr: the type of the value a module expression leads to.
ModuleType(at, expressions, stack) ==
    LET start == at.start
        type == CASE start.on = "stack" ->
                        IF start.at.index \in DOMAIN stack THEN stack[start.at.index] ELSE NoType
                  [] OTHER -> start.type
    IN  FoldLeft(Operate, [type |-> type, left |-> expressions], at.operations).type

\* evaluate_for_iterator: what an item binds, for each type it may have.
ItemKinds(iterator) == IF iterator.op = "range" THEN {"integer"} ELSE {"integer", "bytes"}
Pushed(iterator, operands, stack) ==
    LET module == ModuleType(iterator.at, operands, stack)
    IN  CASE iterator.op = "module" /\ module.kind = "array" -> {<<module.item>>}
          [] iterator.op = "module" /\ module.kind = "dictionary" -> {<<Type("bytes"), module.item>>}
          [] iterator.op = "module" /\ module.kind \notin {"array", "dictionary"} -> {}
          [] OTHER -> {<<Type(k)>> : k \in UNION Range(operands) \cap ItemKinds(iterator)}

\* Whether the iterator has a branch for every value its expressions and its module can have.
Iterates(iterator, operands, pushed) ==
    /\ UNION Range(operands) \subseteq
            {NoValue} \cup IF iterator.op = "module" THEN ExprKinds ELSE ItemKinds(iterator)
    /\ iterator.op = "module" => pushed # {}

\* EvalKinds[c, stack]: the outcomes of c, `stack` being the types of the bounded identifiers.
EvalKinds[c \in Any, stack \in Any] ==
    CASE c.op = "value" -> {c.at}
      [] c.op \in {"filesize", "entrypoint"} -> {"integer", NoValue}
      [] c.op = "rule" -> {"boolean"}
      [] c.op = "external" -> {ExternalSymbols[c.at]}
      [] c.op \in {"and", "or"} ->
            {"boolean"} \cup Mismatches(UNION {EvalKinds[c.args[i], stack] : i \in DOMAIN c.args})
      [] c.op = "not" ->
            LET outcomes == EvalKinds[c.args[1], stack]
            IN  {"boolean"} \cup (outcomes \cap {NoValue, Mismatch})
      [] c.op = "defined" -> {"boolean"} \cup Mismatches(EvalKinds[c.args[1], stack])
      \* The anonymous variable outside of a for is undefined.
      [] c.op \in StringOps ->
            StrictKinds(c.op, [i \in DOMAIN c.args |-> EvalKinds[c.args[i], stack]])
            \cup IF c.at = 0 THEN {NoValue} ELSE {}
      [] c.op = "selection" ->
            LET outcomes == UNION {EvalKinds[c.args[i], stack] : i \in DOMAIN c.args}
            IN  IF outcomes \subseteq {"integer", NoValue} THEN {} ELSE {Mismatch}
      [] c.op \in {"for", "for_rules"} ->
            {"boolean"} \cup Mismatches(UNION {EvalKinds[c.args[i], stack] : i \in DOMAIN c.args})
      [] c.op = "for_identifiers" ->
            LET iterator == c.args[2]
                operands == [i \in DOMAIN iterator.args |-> EvalKinds[iterator.args[i], stack]]
                pushed == Pushed(iterator, operands, stack)
            IN  {"boolean"}
                \cup (IF Iterates(iterator, operands, pushed) THEN {} ELSE {Mismatch})
                \cup Mismatches(EvalKinds[c.args[1], stack])
                \cup Mismatches(UNION {EvalKinds[c.args[3], stack \o p] : p \in pushed})
      [] c.op = "module" ->
            LET expressions == [i \in DOMAIN c.args |-> EvalKinds[c.args[i], stack]]
                kind == ModuleType(c.at, expressions, stack).kind
            IN  Mismatches(UNION Range(expressions))
                \cup IF kind \in ExprKinds THEN {kind, NoValue} ELSE {Mismatch}
      [] OTHER -> StrictKinds(c.op, [i \in DOMAIN c.args |-> EvalKinds[c.args[i], stack]])
==============================================================================
