------------------------------ MODULE Evaluator ------------------------------
(* Evaluation of the condition of a rule: boreal/src/evaluator/mod.rs.        *)
(*                                                                            *)
(* An expression is a record whose `op` names the variant of                  *)
(* compiler::expression::Expression; a value is a record with one field named *)
(* after its type, and a poison (the Err side of the evaluator's results) is  *)
(* a record with the field `poison`.  Floats and the contents of byte strings *)
(* are abstracted; a comparison of two byte strings is the relation `rel` of  *)
(* its expression.  The bitwise operators, which rethrow poisons and cannot   *)
(* overflow, are left out.                                                    *)
EXTENDS Integers, Sequences, FiniteSetsExt, ForSelection

CONSTANTS
    Expression,    \* expressions, closed under sub-expression
    IntBits,       \* width of the evaluator's integers (i64 in the code)
    StackDepth     \* nested evaluations the stack of the thread can hold

ASSUME IntBitsAssumption == IntBits \in Nat \ {0}
ASSUME StackDepthAssumption == StackDepth \in Nat

\* What each variant of Expression holds.
SelectionOK(s) ==
    /\ s.kind \in {"any", "all", "none", "expr"}
    /\ s.kind = "expr" => s.expr \in Expression

ExpressionOK(e) ==
    \/ e.op \in {"filesize", "entrypoint", "external", "rule", "variable", "count"}
    \/ e.op = "integer" /\ e.int \in Int
    \/ e.op = "bytes" /\ e.bytes \in STRING
    \/ e.op = "boolean" /\ e.bool \in BOOLEAN
    \/ e.op = "read_integer" /\ e.addr \in Expression
    \/ e.op = "variable_at" /\ e.offset \in Expression
    \/ e.op \in {"offset", "length"} /\ e.nth \in Expression
    \/ e.op \in {"count_in", "variable_in"} /\ {e.from, e.to} \subseteq Expression
    \/ e.op \in {"neg", "not", "defined"} /\ e.e \in Expression
    \/ e.op \in {"cmp", "eq", "string_op"} /\ {e.l, e.r} \subseteq Expression
    \/ /\ e.op = "arith" /\ {e.l, e.r} \subseteq Expression
       /\ e.fn \in {"add", "sub", "mul", "div", "mod", "shl", "shr"}
    \/ e.op \in {"and", "or"} /\ e.ops \in Seq(Expression)
    \/ e.op = "module" /\ e.args \in Seq(Expression)
    \/ /\ e.op = "for" /\ SelectionOK(e.selection)
       /\ e.set \in Seq(Nat) /\ e.body \in Expression
    \/ /\ e.op = "for_in" /\ SelectionOK(e.selection) /\ e.body \in Expression
       /\ \/ e.iterator = "module" /\ e.module \in Expression
          \/ e.iterator = "list" /\ e.items \in Seq(Expression)
          \/ e.iterator = "range" /\ e.items \in Seq(Expression) /\ Len(e.items) = 2
    \/ /\ e.op = "for_rules" /\ SelectionOK(e.selection)
       /\ e.set \in Seq(Nat) /\ e.already_matched \in Nat

ASSUME ExpressionsAssumption == \A e \in Expression : ExpressionOK(e)

Boolean(b) == [bool |-> b]
Integer(n) == [int |-> n]
Bytes(s)   == [bytes |-> s]
Poison(p)  == [poison |-> p]

VarNeeded == Poison("VarNeeded")     \* the pass has no variable matches
Undefined == Poison("Undefined")     \* YARA's undefined value
Timeout   == Poison("Timeout")
Panic     == Poison("Panic")         \* the Rust code panics: the scan unwinds

IsPoison(v) == "poison" \in DOMAIN v
Has(v, type) == type \in DOMAIN v

\* Value::to_bool.
to_bool(v) ==
    \/ Has(v, "bool") /\ v.bool
    \/ Has(v, "int") /\ v.int # 0
    \/ Has(v, "bytes") /\ v.bytes # ""

IsTrue(v)  == ~IsPoison(v) /\ to_bool(v)
IsFalse(v) == ~IsPoison(v) /\ ~to_bool(v)

unwrap(v, type) == IF IsPoison(v) \/ Has(v, type) THEN v ELSE Undefined

\* Two operands evaluated in order, each rethrowing its poison, then the result
\* they have when neither is one.
Strict(l, r, result) ==
    IF IsPoison(l) THEN l ELSE IF IsPoison(r) THEN r ELSE result

-----------------------------------------------------------------------------
(* Integers: wrapping two's complement of IntBits bits. *)

Half == 2 ^ (IntBits - 1)
Wrap(n) == ((n + Half) % (2 * Half)) - Half

\* Truncation toward zero of Rust's division and remainder.
Sign(n) == IF n < 0 THEN -1 ELSE 1
Abs(n)  == IF n < 0 THEN -n ELSE n
TruncDiv(n, m) == Sign(n) * Sign(m) * (Abs(n) \div Abs(m))

Arith(fn, n, m) ==
    IF \/ fn \in {"div", "mod"} /\ (m = 0 \/ (n = -Half /\ m = -1))
       \/ fn \in {"shl", "shr"} /\ m < 0
    THEN Undefined
    ELSE IF fn \in {"shl", "shr"} /\ m >= IntBits THEN Integer(0)
    ELSE CASE fn = "add" -> Integer(Wrap(n + m))
           [] fn = "sub" -> Integer(Wrap(n - m))
           [] fn = "mul" -> Integer(Wrap(n * m))
           [] fn = "div" -> Integer(TruncDiv(n, m))
           [] fn = "mod" -> Integer(n - m * TruncDiv(n, m))
           [] fn = "shl" -> Integer(Wrap(n * 2 ^ m))
           [] fn = "shr" -> Integer(n \div 2 ^ m)

\* Neg is the one operation that neither wraps nor checks in its source: it
\* overflows on the least integer, a panic in a build with overflow checks.
Negate(ctx, v) ==
    IF IsPoison(v) THEN v
    ELSE IF ~Has(v, "int") THEN Undefined
    ELSE IF v.int = -Half /\ ctx.overflow_checks THEN Panic
    ELSE Integer(Wrap(-v.int))

\* The four orders of Cmp, on integers (byte strings are ordered by e.rel).
Compare(less_than, can_be_equal, n, m) ==
    \/ n = m /\ can_be_equal
    \/ n < m /\ less_than
    \/ n > m /\ ~less_than

SameType(l, r) == DOMAIN l = DOMAIN r

\* The binary operators e, on two operands that have values.
Calculated(e, l, r) ==
    IF Has(l, "int") /\ Has(r, "int") THEN Arith(e.fn, l.int, r.int) ELSE Undefined

Related(e, l, r) == Boolean(<<l.bytes, r.bytes>> \in e.rel)

Compared(e, l, r) ==
    IF ~SameType(l, r) \/ Has(l, "bool") THEN Undefined
    ELSE IF Has(l, "int")
    THEN Boolean(Compare(e.less_than, e.can_be_equal, l.int, r.int))
    ELSE Related(e, l, r)

Equal(e, l, r) ==
    IF SameType(l, r) THEN Boolean((l = r) # e.negated) ELSE Undefined

-----------------------------------------------------------------------------
(* Matches of the variables of the rule: evaluator/variable.rs.  They are     *)
(* `unknown` during the pass that has not scanned the memory.  A match is     *)
(* [offset, length], its offset absolute; the binary searches of the code     *)
(* answer the sets below when the matches are sorted.                         *)

Matches(ctx, v) == ctx.var_matches.of[v]

\* get_var_matches(v)?, then the result computed from Matches(ctx, v): a slice,
\* whose index is checked.
get_var_matches(ctx, v, result) ==
    IF v = 0 THEN Undefined
    ELSE IF ~ctx.var_matches.known THEN VarNeeded
    ELSE IF v \notin DOMAIN ctx.var_matches.of THEN Panic
    ELSE result

\* get_variable_index: 0 stands for None, the anonymous `$` of a for.
VarIndex(e, env) == IF e.var # 0 THEN e.var ELSE env.selected

MatchesIn(m, from, to) ==
    {k \in DOMAIN m : from <= m[k].offset /\ m[k].offset <= to}

FoundAt(m, offset) == Boolean(\E k \in DOMAIN m : m[k].offset = offset)

\* Offset and Length: occurrence numbers start at 1; `field` selects the result.
Occurrence(ctx, v, nth, field) ==
    IF IsPoison(nth) THEN nth
    ELSE IF nth.int <= 0 THEN Undefined
    ELSE get_var_matches(ctx, v,
            IF nth.int \in DOMAIN Matches(ctx, v)
            THEN Integer(Matches(ctx, v)[nth.int][field])
            ELSE Undefined)

Usize(n) == IF n < 0 THEN 0 ELSE n     \* usize::try_from(n).unwrap_or(0)

CountInRange(ctx, v, from, to) ==
    LET found == MatchesIn(Matches(ctx, v), Usize(from.int), Usize(to.int))
    IN  get_var_matches(ctx, v, Integer(Cardinality(found)))

FindIn(ctx, v, from, to) ==
    IF 0 <= from.int /\ from.int <= to.int
    THEN get_var_matches(ctx, v,
            Boolean(MatchesIn(Matches(ctx, v), from.int, to.int) # {}))
    ELSE Boolean(FALSE)

FindAt(ctx, v, offset) ==
    CASE IsPoison(offset) -> offset
      [] ~IsPoison(offset) /\ offset.int < 0 -> Boolean(FALSE)
      [] OTHER -> get_var_matches(ctx, v, FoundAt(Matches(ctx, v), offset.int))

-----------------------------------------------------------------------------
(* Connectives.  `results` holds the results of the operands; those after the *)
(* one that decides are never looked at.                                      *)

\* Mutation: an expired timeout is one more operand without a result.
StopsNoTimeout(v, decider) ==
    \/ v = Panic
    \/ IF decider THEN IsTrue(v) ELSE IsFalse(v) \/ v = Undefined

Stops(v, decider) ==
    \/ v \in {Timeout, Panic}
    \/ IF decider THEN IsTrue(v) ELSE IsFalse(v) \/ v = Undefined

\* Mutation: an operand that needs the matches is taken for an undefined one.
ConnectiveForgets(results, decider) ==
    LET stops == {i \in DOMAIN results : Stops(results[i], decider)} IN
    IF stops # {}
    THEN LET first == results[Min(stops)] IN
         IF first \in {Timeout, Panic} THEN first ELSE Boolean(decider)
    ELSE Boolean(~decider)

\* And (decider FALSE) and Or (decider TRUE).
Connective(results, decider) ==
    LET stops == {i \in DOMAIN results : Stops(results[i], decider)} IN
    IF stops # {}
    THEN LET first == results[Min(stops)] IN
         IF first \in {Timeout, Panic} THEN first ELSE Boolean(decider)
    ELSE IF \E i \in DOMAIN results : results[i] = VarNeeded
    THEN VarNeeded
    ELSE Boolean(~decider)

-----------------------------------------------------------------------------
(* For loops. *)

\* evaluate_for_selection: a selector, or the value of the whole for.  The
\* percentage is exact here; the code computes it in floating point.  value is
\* that of the expression of the selection.
ForExprSelection(selection, value, nb_elements) ==
    LET ceil == -((-(value.int * nb_elements)) \div 100)
        n    == IF selection.as_percent THEN ceil ELSE value.int
    IN  CASE value = Undefined -> Boolean(FALSE)
          [] value # Undefined /\ IsPoison(value) -> value
          [] ~IsPoison(value) /\ ~selection.as_percent /\ n = 0 -> None
          [] OTHER -> IF n <= 0 THEN Boolean(TRUE) ELSE Number(n)

ForSelectionOf(selection, value, nb_elements) ==
    CASE selection.kind = "any"  -> Number(1)
      [] selection.kind = "all"  -> All
      [] selection.kind = "none" -> None
      [] selection.kind = "expr" -> ForExprSelection(selection, value, nb_elements)

\* The loop over the elements.  results[i] is the value of the body for the
\* i-th element, or [abort |-> p] when the element itself is the poison p,
\* which leaves the loop whatever was accumulated.  The loop goes on while it
\* has no answer.
Going == [going |-> TRUE]
Answer(a) == IF a = "unknown" THEN VarNeeded ELSE Boolean(a = "true")

Advance(loop, v) ==
    LET added == AddResult(loop.sel, IsTrue(v))
        Leave(value) == [loop EXCEPT !.value = value]
    IN  CASE loop.value # Going -> loop
          [] loop.value = Going ->
        (CASE Has(v, "abort") -> Leave(v.abort)
          [] v \in {Timeout, Panic} -> Leave(v)
          [] v = VarNeeded -> [loop EXCEPT !.nb_vars_needed = @ + 1]
          [] OTHER -> [loop EXCEPT
                          !.sel = added.sel,
                          !.value = IF added.answer = "open" THEN Going
                                    ELSE Answer(added.answer)])

ForLoopResult(selector, results) ==
    LET after[i \in 0 .. Len(results)] ==
            IF i = 0 THEN [sel |-> selector, nb_vars_needed |-> 0, value |-> Going]
            ELSE Advance(after[i - 1], results[i])
        end == after[Len(results)]
    IN  IF end.value = Going
        THEN Answer(EndSelection(end.sel, end.nb_vars_needed))
        ELSE end.value

\* For and ForIdentifiers rethrow or keep the value of the selection.
WithSelection(selection, results) ==
    IF "kind" \in DOMAIN selection
    THEN ForLoopResult(selection, results)
    ELSE selection
-----------------------------------------------------------------------------
(* The recursive evaluation.  ctx is what the evaluator reads of the scan:    *)
(*   var_matches       [known, of], the matches of the variables of the rule  *)
(*   previous          results of the non-global rules evaluated before       *)
(*   filesize, entrypoint   a value, or Undefined                             *)
(*   memory            the integers that can be read, by offset               *)
(*   modules, externals     values of module expressions and of symbols       *)
(*   expired           expressions whose evaluation finds the timeout expired *)
(*   overflow_checks   whether the build panics on overflow                   *)

\* What a bounded identifier can hold, and the frame of an evaluation: the
\* variable of the enclosing for (0 for none) and the stack of bounded values.
BoundValue == [int : Int] \cup [bytes : STRING] \cup [bool : BOOLEAN]
Env == [selected : Nat, stack : Seq(BoundValue)]

\* Values of the modules, and all that an evaluation can return.
ModuleValues ==
    BoundValue \cup [array : Seq(BoundValue)] \cup [dict : Seq(Seq(BoundValue))]
Poisons == {VarNeeded, Undefined, Timeout, Panic}
Outcome == ModuleValues \cup Poisons

\* What a scan gives to the evaluation.
ContextOK(ctx) ==
    /\ DOMAIN ctx = {"var_matches", "previous", "filesize", "entrypoint", "memory",
                     "modules", "externals", "expired", "overflow_checks"}
    /\ ctx.var_matches \in
          [known : BOOLEAN, of : Seq(Seq([offset : Nat, length : Nat]))]
    /\ ctx.previous \in Seq(BOOLEAN)
    /\ {ctx.filesize, ctx.entrypoint} \subseteq [int : Nat] \cup {Undefined}
    /\ \A a \in DOMAIN ctx.memory : ctx.memory[a] \in Int
    /\ \A i \in DOMAIN ctx.modules : ctx.modules[i] \in ModuleValues \cup {Undefined}
    /\ \A i \in DOMAIN ctx.externals : ctx.externals[i] \in BoundValue

\* module_value_to_expr_value: arrays, dictionaries and objects have no value.
Scalar(v) == IF Has(v, "array") \/ Has(v, "dict") THEN Undefined ELSE v

\* What a ForIdentifiers walks: the values every element binds, or the poison
\* that takes the place of the element (or of all of them) and ends the loop.
Binding(values) == [binds |-> values]
Abort(p) == [abort |-> p]

ModuleElements(value) ==
    CASE Has(value, "array") ->
            [i \in DOMAIN value.array |-> Binding(<<value.array[i]>>)]
      [] Has(value, "dict") ->                          \* key and value
            [i \in DOMAIN value.dict |-> Binding(value.dict[i])]
      [] OTHER -> <<Abort(IF IsPoison(value) THEN value ELSE Undefined)>>

RangeElements(from, to) ==
    CASE IsPoison(from) -> <<Abort(from)>>
      [] ~IsPoison(from) /\ IsPoison(to) -> <<Abort(to)>>
      [] OTHER -> IF from.int > to.int THEN <<Abort(Undefined)>>
                  ELSE [i \in 1 .. to.int - from.int + 1 |->
                           Binding(<<Integer(from.int + i - 1)>>)]

ListElement(v) ==
    CASE IsPoison(v) -> Abort(v)
      [] Has(v, "int") \/ Has(v, "bytes") -> Binding(<<v>>)
      [] OTHER -> Abort(Undefined)

ListElements(iterator, list) ==
    IF iterator = "range"
    THEN RangeElements(unwrap(list[1], "int"), unwrap(list[2], "int"))
    ELSE [i \in DOMAIN list |-> ListElement(list[i])]

UndefinedIsFalse(v) == IF v = Undefined THEN Boolean(FALSE) ELSE v

\* The value at an index, where there is one: get(index).ok_or(Undefined).
ValueAt(values, index) == IF index \in DOMAIN values THEN values[index] ELSE Undefined

\* Result of an earlier rule: an index beyond the results panics.
PreviousResult(ctx, index) ==
    IF index \in DOMAIN ctx.previous THEN Boolean(ctx.previous[index]) ELSE Panic

\* evaluate_expr: the value of e, where ev gives those of its sub-expressions.
evaluate_expr(ctx, ev, e, env) ==
    LET V(x) == ev[x][env]
        Num(x) == unwrap(ev[x][env], "int")
        Str(x) == unwrap(ev[x][env], "bytes")
        All_(xs) == [i \in DOMAIN xs |-> ev[xs[i]][env]]
        var == VarIndex(e, env)
        Selected(n) == ForSelectionOf(e.selection, Num(e.selection.expr), n)
        args == All_(e.args)
    IN
    CASE e \in ctx.expired -> Timeout
      [] e \notin ctx.expired ->
    (CASE e.op = "filesize"   -> ctx.filesize
      [] e.op = "entrypoint" -> ctx.entrypoint
      [] e.op = "integer"    -> Integer(e.int)
      [] e.op = "bytes"      -> Bytes(e.bytes)
      [] e.op = "boolean"    -> Boolean(e.bool)
      [] e.op = "external"   -> ValueAt(ctx.externals, e.index)
      [] e.op = "rule"       -> PreviousResult(ctx, e.index)
      [] e.op = "read_integer" ->
            LET addr == Num(e.addr) IN
            IF IsPoison(addr) THEN addr
            ELSE IF addr.int \in DOMAIN ctx.memory
            THEN Integer(ctx.memory[addr.int]) ELSE Undefined
      \* variables
      [] e.op = "variable"     ->
            get_var_matches(ctx, var, Boolean(Matches(ctx, var) # <<>>))
      [] e.op = "count"        ->
            get_var_matches(ctx, var, Integer(Len(Matches(ctx, var))))
      [] e.op = "variable_at"  -> FindAt(ctx, var, Num(e.offset))
      [] e.op = "offset"       -> Occurrence(ctx, var, Num(e.nth), "offset")
      [] e.op = "length"       -> Occurrence(ctx, var, Num(e.nth), "length")
      [] e.op = "count_in"     -> Strict(Num(e.from), Num(e.to),
            CountInRange(ctx, var, Num(e.from), Num(e.to)))
      [] e.op = "variable_in"  -> Strict(Num(e.from), Num(e.to),
            FindIn(ctx, var, Num(e.from), Num(e.to)))
      \* operators that rethrow every poison
      [] e.op = "neg"       -> Negate(ctx, V(e.e))
      [] e.op = "arith"     -> Strict(V(e.l), V(e.r), Calculated(e, V(e.l), V(e.r)))
      [] e.op = "cmp"       -> Strict(V(e.l), V(e.r), Compared(e, V(e.l), V(e.r)))
      [] e.op = "eq"        -> Strict(V(e.l), V(e.r), Equal(e, V(e.l), V(e.r)))
      [] e.op = "string_op" -> Strict(Str(e.l), Str(e.r), Related(e, Str(e.l), Str(e.r)))
      [] e.op = "not"       -> LET v == V(e.e) IN
                               IF IsPoison(v) THEN v ELSE Boolean(~to_bool(v))
      \* operators that absorb some
      [] e.op = "and"     -> Connective(All_(e.ops), FALSE)
      [] e.op = "or"      -> Connective(All_(e.ops), TRUE)
      [] e.op = "defined" -> LET v == V(e.e) IN
                             CASE v = Undefined -> Boolean(FALSE)
                               [] ~IsPoison(v) -> Boolean(TRUE)
                               [] OTHER -> v
      [] e.op = "module" ->
            LET poisoned == {i \in DOMAIN args : IsPoison(args[i])} IN
            IF poisoned # {} THEN args[Min(poisoned)]
            ELSE IF e.bound
            THEN ValueAt(env.stack, e.index)
            ELSE IF e.iterated THEN ValueAt(ctx.modules, e.index)
            ELSE Scalar(ValueAt(ctx.modules, e.index))
      [] e.op = "for" ->
            WithSelection(Selected(Len(e.set)),
                [i \in DOMAIN e.set |->
                    ev[e.body][[env EXCEPT !.selected = e.set[i]]]])
      \* The percentage is one of no element: the parser gives none to this for
      \* (SyntaxTree), which is what the assertion of the code says.
      [] e.op = "for_in" ->
            LET items == IF e.iterator = "module"
                         THEN ModuleElements(V(e.module))
                         ELSE ListElements(e.iterator, All_(e.items))
                body(item) ==
                    IF Has(item, "abort") THEN item
                    ELSE ev[e.body][[env EXCEPT !.stack = @ \o item.binds]]
            IN  UndefinedIsFalse(WithSelection(Selected(0),
                    [i \in DOMAIN items |-> body(items[i])]))
      [] e.op = "for_rules" ->
            WithSelection(Selected(Len(e.set) + e.already_matched),
                [i \in 1 .. e.already_matched + Len(e.set) |->
                    IF i <= e.already_matched THEN Boolean(TRUE)
                    ELSE PreviousResult(ctx, e.set[i - e.already_matched])]))

\* A deeper condition than the stack can hold ends the thread; the compiler bounds
\* the depth.
Eval(ctx, expr) ==
    LET within[n \in 0 .. StackDepth] ==
            [e \in Expression |-> [env \in Env |->
                IF n = 0 THEN Panic
                ELSE evaluate_expr(ctx, within[n - 1], e, env)]]
    IN  within[StackDepth][expr][[selected |-> 0, stack |-> <<>>]]

\* evaluate_rule: the result of a condition, "true" or "false", or the error.
evaluate_rule(ctx, condition) ==
    LET v == Eval(ctx, condition) IN
    CASE v = VarNeeded -> "Undecidable"
      [] v = Timeout   -> "Timeout"
      [] v = Panic     -> "Panic"
      [] OTHER         -> IF IsTrue(v) THEN "true" ELSE "false"
=============================================================================
