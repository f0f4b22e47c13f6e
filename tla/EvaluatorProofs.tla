--------------------------- MODULE EvaluatorProofs ---------------------------
(* What an evaluation of an expression returns, for every set of expressions, *)
(* whatever their depth: it is a value or a poison, and asks for the matches  *)
(* only when they are not known.  And a relation between two evaluations of   *)
(* one expression in the same scan, of which one may lack the matches or find *)
(* the timeout expired: the first one has no usable result, or the second one *)
(* has none, or they agree.                                                   *)
(*                                                                            *)
(* Both are shown for each operator, then for every depth.                    *)
EXTENDS Evaluator, SequenceFacts

-----------------------------------------------------------------------------
(* Values. *)

LEMMA Shapes ==
    ASSUME NEW v \in Outcome
    PROVE  /\ IsPoison(v) <=> v \in Poisons
           /\ Has(v, "int") => v \in [int : Int] /\ v.int \in Int
           /\ Has(v, "bytes") => v \in [bytes : STRING]
           /\ Has(v, "bool") => v \in [bool : BOOLEAN]
           /\ Has(v, "array") => v.array \in Seq(BoundValue)
           /\ Has(v, "dict") => v.dict \in Seq(Seq(BoundValue))
           /\ "abort" \notin DOMAIN v /\ "kind" \notin DOMAIN v /\ v # Going
  <1>1. CASE v \in Poisons
    BY <1>1 DEF Poisons, VarNeeded, Undefined, Timeout, Panic, Poison, IsPoison,
                Has, Going
  <1>2. CASE v \in BoundValue
    BY <1>2 DEF BoundValue, Poisons, VarNeeded, Undefined, Timeout, Panic,
                Poison, IsPoison, Has, Going
  <1>3. CASE v \in [array : Seq(BoundValue)]
    <2>1. DOMAIN v = {"array"} /\ v.array \in Seq(BoundValue)
      BY <1>3
    <2>2. \A p \in Poisons : DOMAIN p = {"poison"}
      BY DEF Poisons, VarNeeded, Undefined, Timeout, Panic, Poison
    <2>3. DOMAIN Going = {"going"}
      BY DEF Going
    <2> QED
      BY <2>1, <2>2, <2>3 DEF IsPoison, Has
  <1>4. CASE v \in [dict : Seq(Seq(BoundValue))]
    <2>1. DOMAIN v = {"dict"} /\ v.dict \in Seq(Seq(BoundValue))
      BY <1>4
    <2>2. \A p \in Poisons : DOMAIN p = {"poison"}
      BY DEF Poisons, VarNeeded, Undefined, Timeout, Panic, Poison
    <2>3. DOMAIN Going = {"going"}
      BY DEF Going
    <2> QED
      BY <2>1, <2>2, <2>3 DEF IsPoison, Has
  <1> QED
    BY <1>1, <1>2, <1>3, <1>4 DEF Outcome, ModuleValues

LEMMA OneShape ==
    ASSUME NEW v \in Outcome
    PROVE  /\ ~(Has(v, "array") /\ Has(v, "dict"))
           /\ IsPoison(v) => ~Has(v, "int") /\ ~Has(v, "bytes")
  <1>1. \E t : DOMAIN v = {t}
    <2>1. \A x \in Poisons : DOMAIN x = {"poison"}
      BY DEF Poisons, VarNeeded, Undefined, Timeout, Panic, Poison
    <2>2. \A x \in BoundValue : \E t : DOMAIN x = {t}
      BY DEF BoundValue
    <2>3. \A x \in [array : Seq(BoundValue)] : DOMAIN x = {"array"}
      OBVIOUS
    <2>4. \A x \in [dict : Seq(Seq(BoundValue))] : DOMAIN x = {"dict"}
      OBVIOUS
    <2> QED
      BY <2>1, <2>2, <2>3, <2>4 DEF Outcome, ModuleValues
  <1> QED
    BY <1>1 DEF Has, IsPoison

LEMMA PoisonFacts ==
    /\ \A v \in Poisons : IsPoison(v) /\ v \in Outcome
    /\ VarNeeded # Undefined /\ VarNeeded # Timeout /\ VarNeeded # Panic
    /\ Undefined # Timeout /\ Undefined # Panic /\ Timeout # Panic
    /\ {VarNeeded, Undefined, Timeout, Panic} \subseteq Poisons
    /\ \A v \in Poisons : ~Has(v, "int") /\ ~Has(v, "abort")
                          /\ ~Has(v, "kind") /\ v # Going /\ ~Has(v, "bytes")
    /\ \A n \in Int : Integer(n) \in Outcome \ Poisons
    /\ \A b \in BOOLEAN : Boolean(b) \in Outcome \ Poisons
    /\ \A s \in STRING : Bytes(s) \in Outcome \ Poisons
  BY DEF Outcome, ModuleValues, BoundValue, Poisons, VarNeeded, Undefined,
         Timeout, Panic, Poison, IsPoison, Has, Going, Integer, Boolean, Bytes

-----------------------------------------------------------------------------
(* evaluate_expr, one variant at a time. *)

\* The operand x, as a value, as an integer and as bytes; and a list of them.
Val(ev, x, env) == ev[x][env]
Num(ev, x, env) == unwrap(ev[x][env], "int")
Str(ev, x, env) == unwrap(ev[x][env], "bytes")
Vals(ev, xs, env) == [i \in DOMAIN xs |-> ev[xs[i]][env]]

LEMMA Expired ==
    ASSUME NEW ctx, NEW ev, NEW e, NEW env, e \in ctx.expired
    PROVE  evaluate_expr(ctx, ev, e, env) = Timeout
  BY Zenon DEF evaluate_expr

LEMMA LeafArms ==
    ASSUME NEW ctx, NEW ev, NEW e, NEW env, e \notin ctx.expired
    PROVE  LET r == evaluate_expr(ctx, ev, e, env) IN
           /\ e.op = "filesize" => r = ctx.filesize
           /\ e.op = "entrypoint" => r = ctx.entrypoint
           /\ e.op = "integer" => r = Integer(e.int)
           /\ e.op = "bytes" => r = Bytes(e.bytes)
           /\ e.op = "boolean" => r = Boolean(e.bool)
           /\ e.op = "external" => r = ValueAt(ctx.externals, e.index)
           /\ e.op = "rule" => r = PreviousResult(ctx, e.index)
  <1>1. e.op = "filesize" => evaluate_expr(ctx, ev, e, env) = ctx.filesize
    BY DEF evaluate_expr
  <1>2. e.op = "entrypoint" => evaluate_expr(ctx, ev, e, env) = ctx.entrypoint
    BY DEF evaluate_expr
  <1>3. e.op = "integer" => evaluate_expr(ctx, ev, e, env) = Integer(e.int)
    BY DEF evaluate_expr
  <1>4. e.op = "bytes" => evaluate_expr(ctx, ev, e, env) = Bytes(e.bytes)
    BY DEF evaluate_expr
  <1>5. e.op = "boolean" => evaluate_expr(ctx, ev, e, env) = Boolean(e.bool)
    BY DEF evaluate_expr
  <1>6. e.op = "external" =>
           evaluate_expr(ctx, ev, e, env) = ValueAt(ctx.externals, e.index)
    BY DEF evaluate_expr
  <1>7. e.op = "rule" =>
           evaluate_expr(ctx, ev, e, env) = PreviousResult(ctx, e.index)
    BY DEF evaluate_expr
  <1> QED
    BY <1>1, <1>2, <1>3, <1>4, <1>5, <1>6, <1>7

ReadInteger(ctx, addr) ==
    IF IsPoison(addr) THEN addr
    ELSE IF addr.int \in DOMAIN ctx.memory
    THEN Integer(ctx.memory[addr.int]) ELSE Undefined

LEMMA VariableArms ==
    ASSUME NEW ctx, NEW ev, NEW e, NEW env, e \notin ctx.expired
    PROVE  LET r == evaluate_expr(ctx, ev, e, env)
               var == VarIndex(e, env)
               from == Num(ev, e.from, env)
               to == Num(ev, e.to, env)
           IN
           /\ e.op = "read_integer" => r = ReadInteger(ctx, Num(ev, e.addr, env))
           /\ e.op = "variable" =>
                 r = get_var_matches(ctx, var, Boolean(Matches(ctx, var) # <<>>))
           /\ e.op = "count" =>
                 r = get_var_matches(ctx, var, Integer(Len(Matches(ctx, var))))
           /\ e.op = "variable_at" => r = FindAt(ctx, var, Num(ev, e.offset, env))
           /\ e.op = "offset" =>
                 r = Occurrence(ctx, var, Num(ev, e.nth, env), "offset")
           /\ e.op = "length" =>
                 r = Occurrence(ctx, var, Num(ev, e.nth, env), "length")
           /\ e.op = "count_in" =>
                 r = Strict(from, to, CountInRange(ctx, var, from, to))
           /\ e.op = "variable_in" =>
                 r = Strict(from, to, FindIn(ctx, var, from, to))
  <1> DEFINE r == evaluate_expr(ctx, ev, e, env)
             var == VarIndex(e, env)
  <1>1. e.op = "read_integer" => r = ReadInteger(ctx, Num(ev, e.addr, env))
    BY DEF evaluate_expr, ReadInteger, Num
  <1>2. e.op = "variable" =>
           r = get_var_matches(ctx, var, Boolean(Matches(ctx, var) # <<>>))
    BY DEF evaluate_expr
  <1>3. e.op = "count" =>
           r = get_var_matches(ctx, var, Integer(Len(Matches(ctx, var))))
    BY DEF evaluate_expr
  <1>4. e.op = "variable_at" => r = FindAt(ctx, var, Num(ev, e.offset, env))
    BY DEF evaluate_expr, Num
  <1>5. e.op = "offset" => r = Occurrence(ctx, var, Num(ev, e.nth, env), "offset")
    BY DEF evaluate_expr, Num
  <1>6. e.op = "length" => r = Occurrence(ctx, var, Num(ev, e.nth, env), "length")
    BY DEF evaluate_expr, Num
  <1>7. e.op = "count_in" =>
           r = Strict(Num(ev, e.from, env), Num(ev, e.to, env),
                      CountInRange(ctx, var, Num(ev, e.from, env), Num(ev, e.to, env)))
    BY DEF evaluate_expr, Num
  <1>8. e.op = "variable_in" =>
           r = Strict(Num(ev, e.from, env), Num(ev, e.to, env),
                      FindIn(ctx, var, Num(ev, e.from, env), Num(ev, e.to, env)))
    BY DEF evaluate_expr, Num
  <1> QED
    BY <1>1, <1>2, <1>3, <1>4, <1>5, <1>6, <1>7, <1>8, Zenon

NotOf(v) == IF IsPoison(v) THEN v ELSE Boolean(~to_bool(v))
DefinedOf(v) ==
    CASE v = Undefined -> Boolean(FALSE)
      [] ~IsPoison(v) -> Boolean(TRUE)
      [] OTHER -> v

LEMMA OperatorArms ==
    ASSUME NEW ctx, NEW ev, NEW e, NEW env, e \notin ctx.expired
    PROVE  LET r == evaluate_expr(ctx, ev, e, env)
               x == Val(ev, e.e, env)
               l == Val(ev, e.l, env)
               s == Val(ev, e.r, env)
           IN
           /\ e.op = "neg" => r = Negate(ctx, x)
           /\ e.op = "arith" => r = Strict(l, s, Calculated(e, l, s))
           /\ e.op = "cmp" => r = Strict(l, s, Compared(e, l, s))
           /\ e.op = "eq" => r = Strict(l, s, Equal(e, l, s))
           /\ e.op = "string_op" =>
                 r = Strict(Str(ev, e.l, env), Str(ev, e.r, env),
                            Related(e, Str(ev, e.l, env), Str(ev, e.r, env)))
           /\ e.op = "not" => r = NotOf(x)
           /\ e.op = "defined" => r = DefinedOf(x)
  <1> DEFINE r == evaluate_expr(ctx, ev, e, env)
             x == Val(ev, e.e, env)
             l == Val(ev, e.l, env)
             s == Val(ev, e.r, env)
  <1>1. e.op = "neg" => r = Negate(ctx, x)
    BY DEF evaluate_expr, Val
  <1>2. e.op = "arith" => r = Strict(l, s, Calculated(e, l, s))
    BY DEF evaluate_expr, Val
  <1>3. e.op = "cmp" => r = Strict(l, s, Compared(e, l, s))
    BY DEF evaluate_expr, Val
  <1>4. e.op = "eq" => r = Strict(l, s, Equal(e, l, s))
    BY DEF evaluate_expr, Val
  <1>5. e.op = "string_op" =>
           r = Strict(Str(ev, e.l, env), Str(ev, e.r, env),
                      Related(e, Str(ev, e.l, env), Str(ev, e.r, env)))
    BY DEF evaluate_expr, Str
  <1>6. e.op = "not" => r = NotOf(x)
    BY DEF evaluate_expr, Val, NotOf
  <1>7. e.op = "defined" => r = DefinedOf(x)
    BY DEF evaluate_expr, Val, DefinedOf
  <1> QED
    BY <1>1, <1>2, <1>3, <1>4, <1>5, <1>6, <1>7, Zenon

LEMMA ConnectiveArms ==
    ASSUME NEW ctx, NEW ev, NEW e, NEW env, e \notin ctx.expired,
           e.op \in {"and", "or"}
    PROVE  evaluate_expr(ctx, ev, e, env) = Connective(Vals(ev, e.ops, env), e.op = "or")
  <1>1. CASE e.op = "and"
    <2>1. evaluate_expr(ctx, ev, e, env) = Connective(Vals(ev, e.ops, env), FALSE)
      BY <1>1 DEF evaluate_expr, Vals
    <2> QED
      BY <1>1, <2>1
  <1>2. CASE e.op = "or"
    <2>1. evaluate_expr(ctx, ev, e, env) = Connective(Vals(ev, e.ops, env), TRUE)
      BY <1>2 DEF evaluate_expr, Vals
    <2> QED
      BY <1>2, <2>1
  <1> QED
    BY <1>1, <1>2

\* What a module expression gives when no argument is a poison.
ModuleResult(ctx, e, env) ==
    IF e.bound
    THEN ValueAt(env.stack, e.index)
    ELSE IF e.iterated THEN ValueAt(ctx.modules, e.index)
    ELSE Scalar(ValueAt(ctx.modules, e.index))

\* Arguments are evaluated in order: the first poison is the result.
FirstPoison(args, result) ==
    LET poisoned == {i \in DOMAIN args : IsPoison(args[i])} IN
    IF poisoned # {} THEN args[Min(poisoned)] ELSE result

\* The selection of the for e, its elements and the results of its bodies.
SelectionOf(ev, e, env, n) ==
    ForSelectionOf(e.selection, Num(ev, e.selection.expr, env), n)
ItemsOf(ev, e, env) ==
    IF e.iterator = "module" THEN ModuleElements(Val(ev, e.module, env))
    ELSE ListElements(e.iterator, Vals(ev, e.items, env))
BodyOf(ev, e, env, item) ==
    IF Has(item, "abort") THEN item
    ELSE ev[e.body][[env EXCEPT !.stack = @ \o item.binds]]
ForInBodies(ev, e, env) ==
    [i \in DOMAIN ItemsOf(ev, e, env) |->
        BodyOf(ev, e, env, ItemsOf(ev, e, env)[i])]
ForBodies(ev, e, env) ==
    [i \in DOMAIN e.set |-> ev[e.body][[env EXCEPT !.selected = e.set[i]]]]
ForRulesBodies(ctx, e) ==
    [i \in 1 .. e.already_matched + Len(e.set) |->
        IF i <= e.already_matched THEN Boolean(TRUE)
        ELSE PreviousResult(ctx, e.set[i - e.already_matched])]

LEMMA LoopArms ==
    ASSUME NEW ctx, NEW ev, NEW e, NEW env, e \notin ctx.expired
    PROVE  LET r == evaluate_expr(ctx, ev, e, env) IN
           /\ e.op = "module" =>
                 r = FirstPoison(Vals(ev, e.args, env), ModuleResult(ctx, e, env))
           /\ e.op = "for" =>
                 r = WithSelection(SelectionOf(ev, e, env, Len(e.set)),
                                   ForBodies(ev, e, env))
           /\ e.op = "for_in" =>
                 r = UndefinedIsFalse(WithSelection(SelectionOf(ev, e, env, 0),
                                                    ForInBodies(ev, e, env)))
           /\ e.op = "for_rules" =>
                 r = WithSelection(
                        SelectionOf(ev, e, env, Len(e.set) + e.already_matched),
                        ForRulesBodies(ctx, e))
  <1> DEFINE r == evaluate_expr(ctx, ev, e, env)
  <1>1. e.op = "module" =>
           r = FirstPoison(Vals(ev, e.args, env), ModuleResult(ctx, e, env))
    BY DEF evaluate_expr, FirstPoison, Vals, ModuleResult
  <1>2. e.op = "for" =>
           r = WithSelection(SelectionOf(ev, e, env, Len(e.set)),
                             ForBodies(ev, e, env))
    BY SMTT(30) DEF evaluate_expr, SelectionOf, ForBodies, Num
  <1>3. e.op = "for_in" =>
           r = UndefinedIsFalse(WithSelection(SelectionOf(ev, e, env, 0),
                                              ForInBodies(ev, e, env)))
    BY DEF evaluate_expr, SelectionOf, ForInBodies, ItemsOf, BodyOf, Num, Val, Vals
  <1>4. e.op = "for_rules" =>
           r = WithSelection(
                  SelectionOf(ev, e, env, Len(e.set) + e.already_matched),
                  ForRulesBodies(ctx, e))
    BY DEF evaluate_expr, SelectionOf, ForRulesBodies, Num
  <1> QED
    BY <1>1, <1>2, <1>3, <1>4, Zenon

-----------------------------------------------------------------------------
(* The recursive functions: the loop of a for, and the depth of evaluation. *)

LoopStart(selector) == [sel |-> selector, nb_vars_needed |-> 0, value |-> Going]
IsLoop(selector, results, m, f) ==
    f = [i \in 0 .. m |-> IF i = 0 THEN LoopStart(selector)
                          ELSE Advance(f[i - 1], results[i])]

LEMMA LoopExists ==
    ASSUME NEW selector, NEW results
    PROVE  \A m \in Nat : \E f : IsLoop(selector, results, m, f)
  <1> DEFINE S == {m \in Nat : \E f : IsLoop(selector, results, m, f)}
             Next_(f, i) == IF i = 0 THEN LoopStart(selector)
                            ELSE Advance(f[i - 1], results[i])
  <1>1. 0 \in S
    <2> DEFINE f == [i \in 0 .. 0 |-> LoopStart(selector)]
    <2>1. f = [i \in 0 .. 0 |-> Next_(f, i)]
      OBVIOUS
    <2> QED
      BY <2>1 DEF IsLoop
  <1>2. ASSUME NEW m \in Nat, m \in S
        PROVE  m + 1 \in S
    <2>1. PICK f : IsLoop(selector, results, m, f)
      BY <1>2
    <2> DEFINE g == [i \in 0 .. m + 1 |->
                        IF i = m + 1 THEN Advance(f[m], results[i]) ELSE f[i]]
    <2>2. \A i \in 0 .. m : f[i] = Next_(f, i)
      BY <2>1 DEF IsLoop
    <2>3. ASSUME NEW i \in 0 .. m + 1
          PROVE  g[i] = Next_(g, i)
      <3>1. CASE i = m + 1
        <4>1. g[i - 1] = f[m] /\ i # 0
          BY <3>1
        <4>2. g[i] = Advance(f[m], results[i])
          BY <3>1
        <4> HIDE DEF g
        <4> QED
          BY <3>1, <4>1, <4>2
      <3>2. CASE i # m + 1
        <4>1. i \in 0 .. m /\ (i # 0 => i - 1 \in 0 .. m)
          BY <3>2
        <4>2. g[i] = f[i] /\ (i # 0 => g[i - 1] = f[i - 1])
          BY <3>2, <4>1
        <4> HIDE DEF g
        <4> QED
          BY <2>2, <4>1, <4>2
      <3> QED
        BY <3>1, <3>2
    <2>4. IsLoop(selector, results, m + 1, g)
      <3>1. g = [i \in 0 .. m + 1 |-> g[i]]
        OBVIOUS
      <3> HIDE DEF g
      <3> QED
        BY <2>3, <3>1 DEF IsLoop
    <2> QED
      BY <2>4
  <1> HIDE DEF S
  <1>3. Nat \subseteq S
    BY <1>1, <1>2, SetInduction
  <1> QED
    BY <1>3 DEF S

\* The state of the loop after each element, and its result.
IsRun(selector, results, f) ==
    /\ f[0] = LoopStart(selector)
    /\ \A i \in 1 .. Len(results) : f[i] = Advance(f[i - 1], results[i])
LoopEnd(end) ==
    IF end.value = Going
    THEN Answer(EndSelection(end.sel, end.nb_vars_needed))
    ELSE end.value

LEMMA LoopSteps ==
    ASSUME NEW selector, NEW results, Len(results) \in Nat
    PROVE  \E f : /\ IsRun(selector, results, f)
                  /\ ForLoopResult(selector, results) = LoopEnd(f[Len(results)])
  <1> DEFINE n == Len(results)
             F == CHOOSE f : IsLoop(selector, results, n, f)
  <1>1. IsLoop(selector, results, n, F)
    <2>1. \E f : IsLoop(selector, results, n, f)
      BY LoopExists
    <2> HIDE DEF n
    <2> QED
      BY <2>1
  <1>2. ForLoopResult(selector, results) = LoopEnd(F[n])
    BY DEF ForLoopResult, IsLoop, LoopStart, LoopEnd
  <1> HIDE DEF F, n
  <1>3. \A i \in 0 .. n : F[i] = IF i = 0 THEN LoopStart(selector)
                                 ELSE Advance(F[i - 1], results[i])
    BY <1>1 DEF IsLoop
  <1>4. n \in Nat
    BY DEF n
  <1>5. F[0] = LoopStart(selector)
    BY <1>3, <1>4
  <1>6. \A i \in 1 .. n : F[i] = Advance(F[i - 1], results[i])
    BY <1>3, <1>4
  <1> QED
    BY <1>2, <1>5, <1>6 DEF n, IsRun

\* The evaluation of every expression, within n nested evaluations.
IsWithin(ctx, m, f) ==
    f = [n \in 0 .. m |->
            [e \in Expression |-> [env \in Env |->
                IF n = 0 THEN Panic
                ELSE evaluate_expr(ctx, f[n - 1], e, env)]]]

LEMMA WithinExists ==
    ASSUME NEW ctx
    PROVE  \A m \in Nat : \E f : IsWithin(ctx, m, f)
  <1> DEFINE S == {m \in Nat : \E f : IsWithin(ctx, m, f)}
             Deep(f, n) == [e \in Expression |-> [env \in Env |->
                              IF n = 0 THEN Panic
                              ELSE evaluate_expr(ctx, f[n - 1], e, env)]]
  <1>1. 0 \in S
    <2> DEFINE f == [n \in 0 .. 0 |-> [e \in Expression |-> [env \in Env |-> Panic]]]
    <2>1. \A n \in 0 .. 0 : f[n] = Deep(f, n)
      OBVIOUS
    <2>2. f = [n \in 0 .. 0 |-> f[n]]
      OBVIOUS
    <2> HIDE DEF f
    <2>3. f = [n \in 0 .. 0 |-> Deep(f, n)]
      <3> HIDE DEF Deep
      <3> QED
        BY <2>1, <2>2
    <2> QED
      BY <2>3 DEF IsWithin
  <1>2. ASSUME NEW m \in Nat, m \in S
        PROVE  m + 1 \in S
    <2>1. PICK f : IsWithin(ctx, m, f)
      BY <1>2
    <2> DEFINE One(h) == [e \in Expression |-> [env \in Env |->
                              evaluate_expr(ctx, h, e, env)]]
               g == [n \in 0 .. m + 1 |-> IF n = m + 1 THEN One(f[m]) ELSE f[n]]
    <2>2. \A n \in 0 .. m : f[n] = Deep(f, n)
      BY <2>1 DEF IsWithin
    <2>3. \A n \in Nat : \A h : n # 0 => Deep(h, n) = One(h[n - 1])
      OBVIOUS
    <2>4. \A h, k : Deep(h, 0) = Deep(k, 0)
      OBVIOUS
    <2> HIDE DEF Deep, One
    <2>5. ASSUME NEW n \in 0 .. m + 1
          PROVE  g[n] = Deep(g, n)
      <3>1. CASE n = m + 1
        <4>1. g[n - 1] = f[m] /\ n # 0 /\ n \in Nat
          BY <3>1
        <4>2. g[n] = One(f[m])
          BY <3>1
        <4> HIDE DEF g
        <4> QED
          BY <2>3, <4>1, <4>2
      <3>2. CASE n # m + 1
        <4>1. n \in 0 .. m /\ n \in Nat /\ (n # 0 => n - 1 \in 0 .. m)
          BY <3>2
        <4>2. g[n] = f[n] /\ (n # 0 => g[n - 1] = f[n - 1])
          BY <3>2, <4>1
        <4> HIDE DEF g
        <4>3. f[n] = Deep(f, n)
          BY <2>2, <4>1
        <4>4. CASE n = 0
          BY <2>4, <4>2, <4>3, <4>4
        <4>5. CASE n # 0
          BY <2>3, <4>1, <4>2, <4>3, <4>5
        <4> QED
          BY <4>4, <4>5
      <3> QED
        BY <3>1, <3>2
    <2>6. g = [n \in 0 .. m + 1 |-> g[n]]
      OBVIOUS
    <2> HIDE DEF g
    <2>7. g = [n \in 0 .. m + 1 |-> Deep(g, n)]
      BY <2>5, <2>6
    <2> QED
      BY <2>7 DEF IsWithin, Deep
  <1> HIDE DEF S
  <1>3. Nat \subseteq S
    BY <1>1, <1>2, SetInduction
  <1> QED
    BY <1>3 DEF S

LEMMA WithinSteps ==
    ASSUME NEW ctx
    PROVE  \E f :
              /\ \A e \in Expression : \A env \in Env : f[0][e][env] = Panic
              /\ \A n \in 0 .. StackDepth - 1 :
                    \A e \in Expression : \A env \in Env :
                       f[n + 1][e][env] = evaluate_expr(ctx, f[n], e, env)
              /\ \A e : Eval(ctx, e) =
                           f[StackDepth][e][[selected |-> 0, stack |-> <<>>]]
  <1> DEFINE F == CHOOSE f : IsWithin(ctx, StackDepth, f)
  <1>1. IsWithin(ctx, StackDepth, F)
    <2>1. \E f : IsWithin(ctx, StackDepth, f)
      BY WithinExists, StackDepthAssumption
    <2> QED
      BY <2>1
  <1>2. \A e : Eval(ctx, e) = F[StackDepth][e][[selected |-> 0, stack |-> <<>>]]
    BY DEF Eval, IsWithin
  <1> HIDE DEF F
  <1>3. \A n \in 0 .. StackDepth :
           F[n] = [e \in Expression |-> [env \in Env |->
                      IF n = 0 THEN Panic
                      ELSE evaluate_expr(ctx, F[n - 1], e, env)]]
    BY <1>1 DEF IsWithin
  <1>4. \A e \in Expression : \A env \in Env : F[0][e][env] = Panic
    <2>1. F[0] = [e \in Expression |-> [env \in Env |-> Panic]]
      BY <1>3, StackDepthAssumption
    <2> QED
      BY <2>1
  <1>5. ASSUME NEW n \in 0 .. StackDepth - 1,
               NEW e \in Expression, NEW env \in Env
        PROVE  F[n + 1][e][env] = evaluate_expr(ctx, F[n], e, env)
    <2>1. n + 1 \in 0 .. StackDepth /\ n + 1 # 0 /\ (n + 1) - 1 = n
      BY StackDepthAssumption
    <2>2. F[n + 1] = [x \in Expression |-> [v \in Env |->
                        evaluate_expr(ctx, F[n], x, v)]]
      BY <1>3, <2>1
    <2> QED
      BY <2>2
  <1> QED
    BY <1>2, <1>4, <1>5

-----------------------------------------------------------------------------
(* Two evaluations: the first one ends with a poison of E, or the second one  *)
(* with a poison of F, or they agree.  E and F are either those that leave a  *)
(* pass without a decision, the first pass being the one without matches, or  *)
(* the timeout alone, the second evaluation never meeting it.                 *)

Agree(E, F, v, w) == v \in E \/ w \in F \/ v = w

Fatal == {Timeout, Panic}
Modes(E, F) ==
    \/ E = {Timeout} /\ F = {}
    \/ E = Fatal \cup {VarNeeded} /\ F = Fatal

\* No condition reads the entrypoint.
EntrypointIsUnread == \A e \in Expression : e.op # "entrypoint"

SameScan(E, F, c, d) ==
    /\ c.previous = d.previous /\ c.filesize = d.filesize
    /\ c.entrypoint = d.entrypoint \/ EntrypointIsUnread
    /\ c.memory = d.memory /\ c.modules = d.modules /\ c.externals = d.externals
    /\ c.overflow_checks = d.overflow_checks
    /\ \/ c.var_matches = d.var_matches
       \/ ~c.var_matches.known /\ VarNeeded \in E
    /\ d.expired = {} \/ Timeout \in F

AgreeOn(E, F, g, h) ==
    \A e \in Expression : \A env \in Env : Agree(E, F, g[e][env], h[e][env])

LEMMA ModeFacts ==
    ASSUME NEW E, NEW F, Modes(E, F)
    PROVE  /\ Timeout \in E /\ F \subseteq E /\ E \subseteq Poisons
           /\ Undefined \notin E
           /\ \A p \in E \cup F : IsPoison(p) /\ p # Undefined
           /\ VarNeeded \in E => Panic \in E /\ Timeout \in F /\ Panic \in F
           /\ VarNeeded \notin F
  BY PoisonFacts DEF Modes, Fatal

LEMMA AgreeUnwrap ==
    ASSUME NEW E, NEW F, Modes(E, F), NEW v, NEW w, Agree(E, F, v, w), NEW type
    PROVE  Agree(E, F, unwrap(v, type), unwrap(w, type))
  BY ModeFacts DEF Agree, unwrap

LEMMA AgreeStrict ==
    ASSUME NEW E, NEW F, Modes(E, F), NEW l1, NEW l2, NEW r1, NEW r2,
           NEW x1, NEW x2, Agree(E, F, l1, l2), Agree(E, F, r1, r2),
           l1 = l2 /\ r1 = r2 => Agree(E, F, x1, x2)
    PROVE  Agree(E, F, Strict(l1, r1, x1), Strict(l2, r2, x2))
  BY ModeFacts DEF Agree, Strict

LEMMA AgreeMatches ==
    ASSUME NEW E, NEW F, Modes(E, F), NEW c, NEW d, SameScan(E, F, c, d),
           NEW v, NEW x1, NEW x2, c.var_matches = d.var_matches => x1 = x2
    PROVE  Agree(E, F, get_var_matches(c, v, x1), get_var_matches(d, v, x2))
  BY ModeFacts DEF Agree, SameScan, get_var_matches

LEMMA AgreeLeaves ==
    ASSUME NEW E, NEW F, Modes(E, F), NEW c, NEW d, SameScan(E, F, c, d),
           NEW g, NEW h, NEW e \in Expression, NEW env, e \notin c.expired, e \notin d.expired,
           e.op \in {"filesize", "entrypoint", "integer", "bytes", "boolean",
                     "external", "rule"}
    PROVE  Agree(E, F, evaluate_expr(c, g, e, env), evaluate_expr(d, h, e, env))
  <1>1. PreviousResult(c, e.index) = PreviousResult(d, e.index)
    BY DEF PreviousResult, SameScan
  <1>2. /\ c.filesize = d.filesize /\ c.externals = d.externals
        /\ e.op = "entrypoint" => c.entrypoint = d.entrypoint
    BY DEF SameScan, EntrypointIsUnread
  <1>3. evaluate_expr(c, g, e, env) = evaluate_expr(d, h, e, env)
    BY <1>1, <1>2, LeafArms
  <1> QED
    BY <1>3 DEF Agree

LEMMA AgreeVariables ==
    ASSUME NEW E, NEW F, Modes(E, F), NEW c, NEW d, SameScan(E, F, c, d),
           NEW g, NEW h, AgreeOn(E, F, g, h),
           NEW e \in Expression, NEW env \in Env, e \notin c.expired, e \notin d.expired,
           e.op \in {"read_integer", "variable", "count", "variable_at", "offset",
                     "length", "count_in", "variable_in"}
    PROVE  Agree(E, F, evaluate_expr(c, g, e, env), evaluate_expr(d, h, e, env))
  <1> DEFINE r == evaluate_expr(c, g, e, env)
             s == evaluate_expr(d, h, e, env)
             var == VarIndex(e, env)
  <1>0. ExpressionOK(e)
    BY ExpressionsAssumption
  <1>1. \A x \in Expression : Agree(E, F, Num(g, x, env), Num(h, x, env))
    BY AgreeUnwrap DEF AgreeOn, Num
  <1>2. c.var_matches = d.var_matches => Matches(c, var) = Matches(d, var)
    BY DEF Matches
  <1>3. CASE e.op = "read_integer"
    <2>1. e.addr \in Expression
      BY <1>0, <1>3 DEF ExpressionOK
    <2>2. r = ReadInteger(c, Num(g, e.addr, env))
          /\ s = ReadInteger(d, Num(h, e.addr, env))
      BY <1>3, VariableArms
    <2>3. c.memory = d.memory
      BY DEF SameScan
    <2> QED
      BY <1>1, <2>1, <2>2, <2>3, ModeFacts DEF ReadInteger, Agree
  <1>4. CASE e.op = "variable"
    <2>1. r = get_var_matches(c, var, Boolean(Matches(c, var) # <<>>))
          /\ s = get_var_matches(d, var, Boolean(Matches(d, var) # <<>>))
      BY <1>4, VariableArms
    <2> QED
      BY <1>2, <2>1, AgreeMatches
  <1>5. CASE e.op = "count"
    <2>1. r = get_var_matches(c, var, Integer(Len(Matches(c, var))))
          /\ s = get_var_matches(d, var, Integer(Len(Matches(d, var))))
      BY <1>5, VariableArms
    <2> QED
      BY <1>2, <2>1, AgreeMatches
  <1>6. CASE e.op = "variable_at"
    <2> DEFINE m == Num(g, e.offset, env)
               n == Num(h, e.offset, env)
    <2>1. e.offset \in Expression
      BY <1>0, <1>6 DEF ExpressionOK
    <2>2. r = FindAt(c, var, m) /\ s = FindAt(d, var, n)
      BY <1>6, VariableArms
    <2>3. Agree(E, F, m, n)
      BY <1>1, <2>1
    <2>4. Agree(E, F, get_var_matches(c, var, FoundAt(Matches(c, var), m.int)),
                      get_var_matches(d, var, FoundAt(Matches(d, var), m.int)))
      BY <1>2, AgreeMatches
    <2> HIDE DEF m, n
    <2> QED
      BY <2>2, <2>3, <2>4, ModeFacts DEF FindAt, Agree
  <1>7. ASSUME NEW field, e.op \in {"offset", "length"}
        PROVE  Agree(E, F, Occurrence(c, var, Num(g, e.nth, env), field),
                           Occurrence(d, var, Num(h, e.nth, env), field))
    <2> DEFINE m == Num(g, e.nth, env)
               n == Num(h, e.nth, env)
               Result(ctx) == IF m.int \in DOMAIN Matches(ctx, var)
                              THEN Integer(Matches(ctx, var)[m.int][field])
                              ELSE Undefined
    <2>1. Agree(E, F, m, n)
      <3>1. e.nth \in Expression
        BY <1>0, <1>7 DEF ExpressionOK
      <3> QED
        BY <1>1, <3>1
    <2>2. Agree(E, F, get_var_matches(c, var, Result(c)),
                      get_var_matches(d, var, Result(d)))
      BY <1>2, AgreeMatches
    <2> HIDE DEF m, n
    <2>3. Agree(E, F, Occurrence(c, var, m, field), Occurrence(d, var, n, field))
      BY <2>1, <2>2, ModeFacts DEF Occurrence, Agree
    <2> QED
      BY <2>3 DEF m, n
  <1>8. CASE e.op \in {"offset", "length"}
    BY <1>7, <1>8, VariableArms
  <1>9. CASE e.op \in {"count_in", "variable_in"}
    <2> DEFINE f1 == Num(g, e.from, env)
               f2 == Num(h, e.from, env)
               t1 == Num(g, e.to, env)
               t2 == Num(h, e.to, env)
    <2>1. Agree(E, F, f1, f2) /\ Agree(E, F, t1, t2)
      <3>1. e.from \in Expression /\ e.to \in Expression
        BY <1>0, <1>9 DEF ExpressionOK
      <3> QED
        BY <1>1, <3>1
    <2>2. e.op = "count_in" => r = Strict(f1, t1, CountInRange(c, var, f1, t1))
                               /\ s = Strict(f2, t2, CountInRange(d, var, f2, t2))
      BY VariableArms
    <2>3. e.op = "variable_in" => r = Strict(f1, t1, FindIn(c, var, f1, t1))
                                  /\ s = Strict(f2, t2, FindIn(d, var, f2, t2))
      BY VariableArms
    <2> HIDE DEF f1, f2, t1, t2
    <2>4. Agree(E, F, CountInRange(c, var, f1, t1), CountInRange(d, var, f1, t1))
      BY <1>2, AgreeMatches DEF CountInRange
    <2>5. Agree(E, F, FindIn(c, var, f1, t1), FindIn(d, var, f1, t1))
      <3>1. CASE 0 <= f1.int /\ f1.int <= t1.int
        BY <1>2, <3>1, AgreeMatches DEF FindIn
      <3>2. CASE ~(0 <= f1.int /\ f1.int <= t1.int)
        BY <3>2 DEF FindIn, Agree
      <3> QED
        BY <3>1, <3>2
    <2>6. CASE e.op = "count_in"
      BY <2>1, <2>2, <2>4, <2>6, AgreeStrict
    <2>7. CASE e.op = "variable_in"
      BY <2>1, <2>3, <2>5, <2>7, AgreeStrict
    <2> QED
      BY <1>9, <2>6, <2>7
  <1> QED
    BY <1>3, <1>4, <1>5, <1>6, <1>8, <1>9

\* The operators that look at one or two values.
LEMMA AgreeOperators ==
    ASSUME NEW E, NEW F, Modes(E, F), NEW c, NEW d, SameScan(E, F, c, d),
           NEW g, NEW h, AgreeOn(E, F, g, h),
           NEW e \in Expression, NEW env \in Env, e \notin c.expired, e \notin d.expired,
           e.op \in {"neg", "arith", "cmp", "eq", "string_op", "not", "defined"}
    PROVE  Agree(E, F, evaluate_expr(c, g, e, env), evaluate_expr(d, h, e, env))
  <1> DEFINE r == evaluate_expr(c, g, e, env)
             s == evaluate_expr(d, h, e, env)
  <1>0. ExpressionOK(e)
    BY ExpressionsAssumption
  <1>1. CASE e.op \in {"neg", "not", "defined"}
    <2> DEFINE x == Val(g, e.e, env)
               y == Val(h, e.e, env)
    <2>1. Agree(E, F, x, y)
      <3>1. e.e \in Expression
        BY <1>0, <1>1 DEF ExpressionOK
      <3> QED
        BY <3>1 DEF AgreeOn, Val
    <2>2. e.op = "neg" => r = Negate(c, x) /\ s = Negate(d, y)
      BY OperatorArms
    <2>6. e.op = "not" => r = NotOf(x) /\ s = NotOf(y)
      BY OperatorArms
    <2>7. e.op = "defined" => r = DefinedOf(x) /\ s = DefinedOf(y)
      BY OperatorArms
    <2> HIDE DEF x, y, r, s
    <2>3. Agree(E, F, Negate(c, x), Negate(d, y))
      <3>1. c.overflow_checks = d.overflow_checks
        BY DEF SameScan
      <3>2. Negate(c, x) = Negate(d, x)
        BY <3>1 DEF Negate
      <3>3. \A p \in E \cup F : Negate(c, p) = p /\ Negate(d, p) = p
        BY ModeFacts DEF Negate
      <3> QED
        BY <2>1, <3>2, <3>3 DEF Agree
    <2>4. Agree(E, F, NotOf(x), NotOf(y))
      BY <2>1, ModeFacts DEF NotOf, Agree
    <2>5. Agree(E, F, DefinedOf(x), DefinedOf(y))
      BY <2>1, ModeFacts DEF DefinedOf, Agree
    <2> QED
      BY <1>1, <2>2, <2>3, <2>4, <2>5, <2>6, <2>7 DEF r, s
  <1>2. CASE e.op \in {"arith", "cmp", "eq", "string_op"}
    <2> DEFINE l1 == Val(g, e.l, env)
               l2 == Val(h, e.l, env)
               r1 == Val(g, e.r, env)
               r2 == Val(h, e.r, env)
               b1 == unwrap(l1, "bytes")
               b2 == unwrap(l2, "bytes")
               c1 == unwrap(r1, "bytes")
               c2 == unwrap(r2, "bytes")
    <2>1. Agree(E, F, l1, l2) /\ Agree(E, F, r1, r2)
      <3>1. e.l \in Expression /\ e.r \in Expression
        BY <1>0, <1>2 DEF ExpressionOK
      <3> QED
        BY <3>1 DEF AgreeOn, Val
    <2>2. Agree(E, F, b1, b2) /\ Agree(E, F, c1, c2)
      <3> HIDE DEF l1, l2, r1, r2
      <3> QED
        BY <2>1, AgreeUnwrap
    <2>3. e.op = "arith" => r = Strict(l1, r1, Calculated(e, l1, r1))
                            /\ s = Strict(l2, r2, Calculated(e, l2, r2))
      BY OperatorArms
    <2>10. e.op = "cmp" => r = Strict(l1, r1, Compared(e, l1, r1))
                           /\ s = Strict(l2, r2, Compared(e, l2, r2))
      BY OperatorArms
    <2>11. e.op = "eq" => r = Strict(l1, r1, Equal(e, l1, r1))
                          /\ s = Strict(l2, r2, Equal(e, l2, r2))
      BY OperatorArms
    <2>4. e.op = "string_op" => r = Strict(b1, c1, Related(e, b1, c1))
                                /\ s = Strict(b2, c2, Related(e, b2, c2))
      BY OperatorArms DEF Str, Val
    <2> HIDE DEF l1, l2, r1, r2, b1, b2, c1, c2, r, s
    <2>5. \A x : Agree(E, F, x, x)
      BY DEF Agree
    <2>6. Agree(E, F, Strict(l1, r1, Calculated(e, l1, r1)),
                      Strict(l2, r2, Calculated(e, l2, r2)))
      BY <2>1, <2>5, AgreeStrict
    <2>7. Agree(E, F, Strict(l1, r1, Compared(e, l1, r1)),
                      Strict(l2, r2, Compared(e, l2, r2)))
      BY <2>1, <2>5, AgreeStrict
    <2>8. Agree(E, F, Strict(l1, r1, Equal(e, l1, r1)),
                      Strict(l2, r2, Equal(e, l2, r2)))
      BY <2>1, <2>5, AgreeStrict
    <2>9. Agree(E, F, Strict(b1, c1, Related(e, b1, c1)),
                      Strict(b2, c2, Related(e, b2, c2)))
      BY <2>2, <2>5, AgreeStrict
    <2> QED
      BY <1>2, <2>3, <2>4, <2>6, <2>7, <2>8, <2>9, <2>10, <2>11 DEF r, s
  <1> QED
    BY <1>1, <1>2

\* The operators that look at a list of values.
LEMMA MinIsLeast ==
    ASSUME NEW S \in SUBSET Nat, S # {}
    PROVE  Min(S) \in S /\ \A k \in S : Min(S) <= k
  BY LeastNumber DEF Min

LEMMA AgreeFirstPoison ==
    ASSUME NEW E, NEW F, Modes(E, F), NEW N \in Nat, NEW rs, NEW ss,
           DOMAIN rs = 1 .. N, DOMAIN ss = 1 .. N,
           \A i \in 1 .. N : Agree(E, F, rs[i], ss[i]), NEW result
    PROVE  Agree(E, F, FirstPoison(rs, result), FirstPoison(ss, result))
  <1> DEFINE P == {i \in DOMAIN rs : IsPoison(rs[i])}
             Q == {i \in DOMAIN ss : IsPoison(ss[i])}
  <1>0. P \in SUBSET Nat /\ Q \in SUBSET Nat
    OBVIOUS
  <1>1. /\ P # {} => FirstPoison(rs, result) = rs[Min(P)]
        /\ P = {} => FirstPoison(rs, result) = result
        /\ Q # {} => FirstPoison(ss, result) = ss[Min(Q)]
        /\ Q = {} => FirstPoison(ss, result) = result
    BY DEF FirstPoison
  <1>2. \A i \in 1 .. N : (i \in P <=> IsPoison(rs[i])) /\ (i \in Q <=> IsPoison(ss[i]))
    OBVIOUS
  <1>3. P \subseteq 1 .. N /\ Q \subseteq 1 .. N
    OBVIOUS
  <1> HIDE DEF P, Q
  <1>4. ASSUME P # {}, rs[Min(P)] \notin E
        PROVE  /\ Min(P) \in Q
               /\ \A k \in Q : k < Min(P) => ss[k] \in F
               /\ ss[Min(P)] \in F \/ ss[Min(P)] = rs[Min(P)]
    <2>1. Min(P) \in P /\ \A k \in P : Min(P) <= k
      BY <1>0, <1>4, MinIsLeast
    <2>2. ss[Min(P)] \in F \/ ss[Min(P)] = rs[Min(P)]
      BY <1>3, <1>4, <2>1 DEF Agree
    <2>3. Min(P) \in Q
      BY <1>2, <1>3, <2>1, <2>2, ModeFacts
    <2>4. ASSUME NEW k \in Q, k < Min(P)
          PROVE  ss[k] \in F
      <3>0. k \in Nat /\ Min(P) \in Nat
        BY <1>0, <2>1
      <3>1. k \notin P /\ k \in 1 .. N
        <4>1. k \in 1 .. N
          BY <1>3
        <4>2. ~ Min(P) <= k
          BY <2>4, <3>0
        <4> QED
          BY <2>1, <4>1, <4>2
      <3>2. ~IsPoison(rs[k]) /\ IsPoison(ss[k])
        BY <1>2, <2>4, <3>1
      <3> QED
        BY <3>1, <3>2, ModeFacts DEF Agree
    <2> QED
      BY <2>2, <2>3, <2>4
  <1>5. CASE P # {} /\ rs[Min(P)] \in E
    BY <1>1, <1>5 DEF Agree
  <1>6. CASE P # {} /\ rs[Min(P)] \notin E
    <2>1. Min(Q) \in Q /\ Min(Q) <= Min(P)
      BY <1>0, <1>4, <1>6, MinIsLeast
    <2>2. Min(Q) \in Nat /\ Min(P) \in Nat
      BY <1>0, <1>6, <2>1, MinIsLeast
    <2>3. CASE Min(Q) < Min(P)
      BY <1>1, <1>4, <1>6, <2>1, <2>3 DEF Agree
    <2>4. CASE Min(Q) = Min(P)
      BY <1>1, <1>4, <1>6, <2>1, <2>4 DEF Agree
    <2> QED
      BY <2>1, <2>2, <2>3, <2>4
  <1>7. CASE P = {}
    <2>1. ASSUME NEW i \in 1 .. N
          PROVE  ss[i] \in F \/ ss[i] = rs[i]
      BY <1>2, <1>7, ModeFacts DEF Agree
    <2>2. CASE Q = {}
      BY <1>1, <1>7, <2>2 DEF Agree
    <2>3. CASE Q # {}
      <3>1. Min(Q) \in Q
        BY <1>0, <2>3, MinIsLeast
      <3>2. ss[Min(Q)] \in F
        BY <1>2, <1>3, <1>7, <2>1, <3>1
      <3> QED
        BY <1>1, <2>3, <3>2 DEF Agree
    <2> QED
      BY <2>2, <2>3
  <1> QED
    BY <1>5, <1>6, <1>7

\* An operand that decides a connective.
Decides(v, decider) == IF decider THEN IsTrue(v) ELSE IsFalse(v) \/ v = Undefined

LEMMA ConnectiveCases ==
    ASSUME NEW N \in Nat, NEW rs, DOMAIN rs = 1 .. N, NEW decider \in BOOLEAN
    PROVE  \/ \E i \in 1 .. N :
                 /\ rs[i] \in Fatal
                 /\ \A j \in 1 .. i - 1 : ~Decides(rs[j], decider) /\ rs[j] \notin Fatal
                 /\ Connective(rs, decider) = rs[i]
           \/ \E i \in 1 .. N :
                 /\ Decides(rs[i], decider) /\ rs[i] \notin Fatal
                 /\ \A j \in 1 .. i - 1 : ~Decides(rs[j], decider) /\ rs[j] \notin Fatal
                 /\ Connective(rs, decider) = Boolean(decider)
           \/ /\ \A i \in 1 .. N : ~Decides(rs[i], decider) /\ rs[i] \notin Fatal
              /\ IF \E i \in 1 .. N : rs[i] = VarNeeded
                 THEN Connective(rs, decider) = VarNeeded
                 ELSE Connective(rs, decider) = Boolean(~decider)
  <1> DEFINE S == {i \in DOMAIN rs : Stops(rs[i], decider)}
  <1>1. \A i \in 1 .. N : i \in S <=> Decides(rs[i], decider) \/ rs[i] \in Fatal
    BY DEF Stops, Decides, Fatal
  <1>2. S \in SUBSET Nat /\ S \subseteq 1 .. N
    OBVIOUS
  <1>3. /\ S # {} => Connective(rs, decider) =
                        IF rs[Min(S)] \in Fatal THEN rs[Min(S)] ELSE Boolean(decider)
        /\ S = {} => Connective(rs, decider) =
                        IF \E i \in 1 .. N : rs[i] = VarNeeded
                        THEN VarNeeded ELSE Boolean(~decider)
    BY DEF Connective, Fatal
  <1> HIDE DEF S
  <1>4. CASE S = {}
    BY <1>1, <1>3, <1>4
  <1>5. CASE S # {}
    <2>1. Min(S) \in S /\ \A k \in S : Min(S) <= k
      BY <1>2, <1>5, MinIsLeast
    <2>2. Min(S) \in 1 .. N
      BY <1>2, <2>1
    <2>3. ASSUME NEW j \in 1 .. Min(S) - 1
          PROVE  ~Decides(rs[j], decider) /\ rs[j] \notin Fatal
      <3>1. j \in 1 .. N /\ ~ Min(S) <= j
        BY <2>2
      <3> QED
        BY <1>1, <2>1, <3>1
    <2> QED
      BY <1>1, <1>3, <1>5, <2>1, <2>2, <2>3
  <1> QED
    BY <1>4, <1>5

LEMMA AgreeConnective ==
    ASSUME NEW E, NEW F, Modes(E, F), NEW N \in Nat, NEW rs, NEW ss,
           DOMAIN rs = 1 .. N, DOMAIN ss = 1 .. N,
           \A i \in 1 .. N : Agree(E, F, rs[i], ss[i]), NEW decider \in BOOLEAN
    PROVE  Agree(E, F, Connective(rs, decider), Connective(ss, decider))
  <1> DEFINE D(v) == Decides(v, decider)
             Quiet(v) == ~D(v) /\ v \notin Fatal
             R == Connective(rs, decider)
             S == Connective(ss, decider)
             Fails(qs, q) == \E i \in 1 .. N : /\ qs[i] \in Fatal /\ q = qs[i]
                                               /\ \A j \in 1 .. i - 1 : Quiet(qs[j])
             DecidedBy(qs, q) == \E i \in 1 .. N : /\ D(qs[i]) /\ qs[i] \notin Fatal
                                                   /\ \A j \in 1 .. i - 1 : Quiet(qs[j])
                                                   /\ q = Boolean(decider)
             Open(qs, q) == /\ \A i \in 1 .. N : Quiet(qs[i])
                            /\ IF \E i \in 1 .. N : qs[i] = VarNeeded
                               THEN q = VarNeeded ELSE q = Boolean(~decider)
  <1>1. Fails(rs, R) \/ DecidedBy(rs, R) \/ Open(rs, R)
    BY ConnectiveCases, Zenon
  <1>2. Fails(ss, S) \/ DecidedBy(ss, S) \/ Open(ss, S)
    BY ConnectiveCases, Zenon
  <1>3. ~D(VarNeeded) /\ VarNeeded \notin Fatal
    BY PoisonFacts DEF Decides, IsTrue, IsFalse, Fatal
  <1> SUFFICES Agree(E, F, R, S)
    OBVIOUS
  <1> HIDE DEF D, R, S
  <1>4. CASE E = {Timeout} /\ F = {}
    <2>1. \A i \in 1 .. N : rs[i] = Timeout \/ rs[i] = ss[i]
      BY <1>4 DEF Agree
    <2>2. Timeout \in Fatal
      BY DEF Fatal
    <2>3. CASE R = Timeout
      BY <1>4, <2>3 DEF Agree
    <2>4. CASE R # Timeout /\ Fails(rs, R)
      <3>1. PICK i \in 1 .. N : /\ rs[i] \in Fatal /\ R = rs[i]
                                /\ \A j \in 1 .. i - 1 : Quiet(rs[j])
        BY <2>4
      <3>2. \A j \in 1 .. i - 1 : Quiet(ss[j])
        BY <2>1, <2>2, <3>1
      <3>3. ss[i] = R /\ ss[i] \in Fatal
        BY <2>1, <2>4, <3>1
      <3>4. \A k \in 1 .. N : k < i \/ k = i \/ i \in 1 .. k - 1
        OBVIOUS
      <3>5. S = R
        BY <1>2, <3>2, <3>3, <3>4
      <3> QED
        BY <3>5 DEF Agree
    <2>5. CASE R # Timeout /\ DecidedBy(rs, R)
      <3>1. PICK i \in 1 .. N : /\ D(rs[i]) /\ rs[i] \notin Fatal /\ R = Boolean(decider)
                                /\ \A j \in 1 .. i - 1 : Quiet(rs[j])
        BY <2>5
      <3>2. \A j \in 1 .. i - 1 : Quiet(ss[j])
        BY <2>1, <2>2, <3>1
      <3>3. D(ss[i]) /\ ss[i] \notin Fatal
        BY <2>1, <2>2, <3>1
      <3>4. \A k \in 1 .. N : k < i \/ k = i \/ i \in 1 .. k - 1
        OBVIOUS
      <3>5. S = R
        BY <1>2, <3>1, <3>2, <3>3, <3>4
      <3> QED
        BY <3>5 DEF Agree
    <2>6. CASE Open(rs, R)
      <3>1. \A i \in 1 .. N : ss[i] = rs[i]
        BY <2>1, <2>2, <2>6
      <3>2. \A i \in 1 .. N : Quiet(ss[i])
        BY <2>6, <3>1
      <3>3. Open(ss, S)
        BY <1>2, <3>2
      <3>4. S = R
        BY <2>6, <3>1, <3>3
      <3> QED
        BY <3>4 DEF Agree
    <2> QED
      BY <1>1, <2>3, <2>4, <2>5, <2>6
  <1>5. CASE E = Fatal \cup {VarNeeded} /\ F = Fatal
    <2>1. \A i \in 1 .. N : rs[i] \in Fatal \/ rs[i] = VarNeeded
                            \/ ss[i] \in Fatal \/ rs[i] = ss[i]
      BY <1>5 DEF Agree
    <2>2. CASE R \in Fatal \/ R = VarNeeded \/ S \in Fatal
      BY <1>5, <2>2 DEF Agree
    <2>3. CASE S \notin Fatal /\ DecidedBy(rs, R)
      <3>1. PICK i \in 1 .. N : D(rs[i]) /\ rs[i] \notin Fatal /\ R = Boolean(decider)
        BY <2>3
      <3>2. ~Quiet(ss[i])
        BY <1>3, <2>1, <3>1
      <3>3. DecidedBy(ss, S)
        BY <1>2, <2>3, <3>2
      <3> QED
        BY <3>1, <3>3 DEF Agree
    <2>4. CASE S \notin Fatal /\ R # VarNeeded /\ Open(rs, R)
      <3>1. \A i \in 1 .. N : ss[i] \in Fatal \/ ss[i] = rs[i]
        BY <2>1, <2>4
      <3>2. ~DecidedBy(ss, S)
        BY <2>4, <3>1
      <3>3. Open(ss, S)
        BY <1>2, <2>4, <3>2
      <3>4. \A i \in 1 .. N : ss[i] = rs[i]
        BY <3>1, <3>3
      <3>5. S = R
        BY <2>4, <3>3, <3>4
      <3> QED
        BY <3>5 DEF Agree
    <2> QED
      BY <1>1, <2>2, <2>3, <2>4
  <1> QED
    BY <1>4, <1>5 DEF Modes

-----------------------------------------------------------------------------
(* The loop of a for. *)

LoopState(sel, nb, value) == [sel |-> sel, nb_vars_needed |-> nb, value |-> value]

\* A number of elements left to find, after one more.
Down(sel) == IF sel.n > 0 THEN Number(sel.n - 1) ELSE sel
Yes == Boolean(TRUE)
No == Boolean(FALSE)

\* What an element does to a loop that goes on, and that it does nothing to a
\* loop that has its result.
LEMMA AdvanceStops ==
    ASSUME NEW sel \in Selector, NEW nb \in Nat, NEW value, NEW v
    PROVE  LET next == Advance(LoopState(sel, nb, value), v) IN
           /\ value # Going => next = LoopState(sel, nb, value)
           /\ value = Going /\ Has(v, "abort") => next = LoopState(sel, nb, v.abort)
           /\ value = Going /\ ~Has(v, "abort") =>
                 /\ v \in Fatal => next = LoopState(sel, nb, v)
                 /\ v = VarNeeded => next = LoopState(sel, nb + 1, Going)
  <1> DEFINE l == LoopState(sel, nb, value)
             next == Advance(l, v)
  <1>0. l.sel = sel /\ l.nb_vars_needed = nb /\ l.value = value
        /\ \A x : [l EXCEPT !.value = x] = LoopState(sel, nb, x)
    BY DEF LoopState
  <1>1. value # Going => next = l
    BY <1>0 DEF Advance
  <1>2. value = Going /\ Has(v, "abort") /\ v \notin Fatal /\ v # VarNeeded =>
           next = LoopState(sel, nb, v.abort)
    BY <1>0 DEF Advance, Fatal
  <1>3. v \in Fatal \/ v = VarNeeded => ~Has(v, "abort")
    BY PoisonFacts DEF Fatal
  <1>4. v \in Fatal => v # VarNeeded
    BY PoisonFacts DEF Fatal
  <1>5. value = Going /\ ~Has(v, "abort") /\ v \in Fatal => next = LoopState(sel, nb, v)
    BY <1>0, <1>4 DEF Advance, Fatal
  <1>6. value = Going /\ ~Has(v, "abort") /\ v = VarNeeded =>
           next = LoopState(sel, nb + 1, Going)
    <2>1. SUFFICES ASSUME value = Going, ~Has(v, "abort"), v = VarNeeded
                   PROVE  next = LoopState(sel, nb + 1, Going)
      OBVIOUS
    <2>2. next = [l EXCEPT !.nb_vars_needed = @ + 1]
      BY <1>0, <1>4, <2>1 DEF Advance, Fatal
    <2> QED
      BY <2>1, <2>2 DEF LoopState
  <1>7. value = Going /\ Has(v, "abort") => next = LoopState(sel, nb, v.abort)
    BY <1>2, <1>3
  <1> HIDE DEF next
  <1> QED
    BY <1>1, <1>5, <1>6, <1>7 DEF next

LEMMA AdvanceCounts ==
    ASSUME NEW sel \in Selector, NEW nb \in Nat, NEW v,
           ~Has(v, "abort"), v \notin Fatal, v # VarNeeded
    PROVE  LET next == Advance(LoopState(sel, nb, Going), v)
               same == LoopState(sel, nb, Going)
           IN
           /\ sel.kind = "all" =>
                 next = IF IsTrue(v) THEN same ELSE LoopState(sel, nb, No)
           /\ sel.kind = "none" =>
                 next = IF IsTrue(v) THEN LoopState(sel, nb, No) ELSE same
           /\ sel.kind = "number" /\ ~IsTrue(v) => next = same
           /\ sel.kind = "number" /\ IsTrue(v) =>
                 next = LoopState(Down(sel), nb, IF Down(sel).n = 0 THEN Yes ELSE Going)
  <1> DEFINE l == LoopState(sel, nb, Going)
             next == Advance(l, v)
             added == AddResult(sel, IsTrue(v))
             value == IF added.answer = "open" THEN Going ELSE Answer(added.answer)
  <1>0. l.sel = sel /\ l.nb_vars_needed = nb /\ l.value = Going
    BY DEF LoopState
  <1>1. next = LoopState(added.sel, nb, value)
    <2>1. next = [l EXCEPT !.sel = added.sel, !.value = value]
      BY <1>0 DEF Advance, Fatal
    <2> HIDE DEF added, value
    <2> QED
      BY <2>1 DEF LoopState
  <1>2. Answer("true") = Yes /\ Answer("false") = No
    BY DEF Answer, Yes, No
  <1>3. CASE sel.kind # "number"
    <2>1. added.sel = sel
      BY <1>3 DEF AddResult, Consume
    <2>2. sel.kind = "all" => added.answer = IF IsTrue(v) THEN "open" ELSE "false"
      BY DEF AddResult
    <2>3. sel.kind = "none" => added.answer = IF IsTrue(v) THEN "false" ELSE "open"
      BY DEF AddResult
    <2>4. sel.kind = "all" => value = IF IsTrue(v) THEN Going ELSE No
      BY <1>2, <2>2
    <2>5. sel.kind = "none" => value = IF IsTrue(v) THEN No ELSE Going
      BY <1>2, <2>3
    <2> HIDE DEF added, next, value
    <2> QED
      BY <1>1, <1>3, <2>1, <2>4, <2>5 DEF next
  <1>4. CASE sel.kind = "number" /\ ~IsTrue(v)
    <2>1. added.sel = sel /\ added.answer = "open"
      BY <1>4 DEF AddResult, Consume
    <2> HIDE DEF added, next
    <2> QED
      BY <1>1, <1>4, <2>1 DEF next
  <1>5. CASE sel.kind = "number" /\ IsTrue(v)
    <2>1. added.sel = Down(sel)
      BY <1>5 DEF AddResult, Consume, Down
    <2>2. added.answer = IF Down(sel).n = 0 THEN "true" ELSE "open"
      BY <1>5 DEF AddResult, Consume, Down
    <2>3. value = IF Down(sel).n = 0 THEN Yes ELSE Going
      BY <1>2, <2>2
    <2> HIDE DEF added, next, value
    <2> QED
      BY <1>1, <1>5, <2>1, <2>3 DEF next
  <1> QED
    BY <1>3, <1>4, <1>5

IsLoopState(l) ==
    \E sel \in Selector : \E nb \in Nat : \E value : l = LoopState(sel, nb, value)

LEMMA SelectorFacts ==
    /\ \A sel \in Selector :
          /\ sel.kind \in {"all", "none", "number"} /\ sel.n \in Nat
          /\ sel.kind # "number" => sel.n = 0
          /\ Down(sel) \in Selector /\ Down(sel).kind = sel.kind
          /\ Down(sel).n = IF sel.n > 0 THEN sel.n - 1 ELSE 0
    /\ All \in Selector /\ None \in Selector
    /\ \A k \in Nat : Number(k) \in Selector
  <1>1. ASSUME NEW sel \in Selector
        PROVE  /\ sel.kind \in {"all", "none", "number"} /\ sel.n \in Nat
               /\ sel.kind # "number" => sel.n = 0
               /\ sel.n > 0 => sel.kind = "number"
    BY DEF Selector
  <1>2. \A k \in Nat : Number(k) \in Selector /\ Number(k).n = k
                       /\ Number(k).kind = "number"
    BY DEF Number, Selector
  <1>3. ASSUME NEW sel \in Selector
        PROVE  /\ Down(sel) \in Selector /\ Down(sel).kind = sel.kind
               /\ Down(sel).n = IF sel.n > 0 THEN sel.n - 1 ELSE 0
    <2>1. CASE sel.n > 0
      <3>1. sel.n - 1 \in Nat /\ Down(sel) = Number(sel.n - 1)
        BY <1>1, <2>1 DEF Down
      <3> QED
        BY <1>1, <1>2, <2>1, <3>1
    <2>2. CASE ~(sel.n > 0)
      BY <1>1, <2>2 DEF Down
    <2> QED
      BY <2>1, <2>2
  <1>4. All \in Selector /\ None \in Selector
    BY DEF Selector, All, None
  <1> QED
    BY <1>1, <1>2, <1>3, <1>4

LEMMA AdvanceState ==
    ASSUME NEW sel \in Selector, NEW nb \in Nat, NEW value, NEW v
    PROVE  IsLoopState(Advance(LoopState(sel, nb, value), v))
  <1> DEFINE next == Advance(LoopState(sel, nb, value), v)
  <1>1. CASE value # Going
    BY <1>1, AdvanceStops DEF IsLoopState
  <1>2. CASE value = Going /\ (Has(v, "abort") \/ v \in Fatal \/ v = VarNeeded)
    <2>1. nb + 1 \in Nat
      OBVIOUS
    <2>2. \/ next = LoopState(sel, nb, v.abort)
          \/ next = LoopState(sel, nb, v)
          \/ next = LoopState(sel, nb + 1, Going)
      BY <1>2, AdvanceStops
    <2> QED
      BY <2>1, <2>2 DEF IsLoopState
  <1>3. CASE value = Going /\ ~Has(v, "abort") /\ v \notin Fatal /\ v # VarNeeded
    <2>1. \E x : next = LoopState(sel, nb, x) \/ next = LoopState(Down(sel), nb, x)
      <3>1. CASE sel.kind = "all"
        BY <1>3, <3>1, AdvanceCounts
      <3>2. CASE sel.kind = "none"
        BY <1>3, <3>2, AdvanceCounts
      <3>3. CASE sel.kind = "number" /\ ~IsTrue(v)
        BY <1>3, <3>3, AdvanceCounts
      <3>4. CASE sel.kind = "number" /\ IsTrue(v)
        BY <1>3, <3>4, AdvanceCounts
      <3> QED
        BY <3>1, <3>2, <3>3, <3>4, SelectorFacts
    <2>2. Down(sel) \in Selector
      BY SelectorFacts
    <2> HIDE DEF next
    <2> QED
      BY <2>1, <2>2 DEF IsLoopState, next
  <1> QED
    BY <1>1, <1>2, <1>3

LEMMA LoopStates ==
    ASSUME NEW N \in Nat, NEW selector \in Selector, NEW results, Len(results) = N,
           NEW f, IsRun(selector, results, f)
    PROVE  \A i \in 0 .. N : IsLoopState(f[i])
  <1> DEFINE S == {i \in Nat : i <= N => IsLoopState(f[i])}
  <1>1. 0 \in S
    <2>1. f[0] = LoopState(selector, 0, Going)
      BY DEF IsRun, LoopStart, LoopState
    <2> QED
      BY <2>1 DEF IsLoopState
  <1>2. ASSUME NEW i \in Nat, i \in S
        PROVE  i + 1 \in S
    <2> SUFFICES ASSUME i + 1 <= N
                 PROVE  IsLoopState(f[i + 1])
      OBVIOUS
    <2>1. f[i + 1] = Advance(f[i], results[i + 1])
      <3>1. i + 1 \in 1 .. Len(results) /\ (i + 1) - 1 = i
        OBVIOUS
      <3> QED
        BY <3>1 DEF IsRun
    <2>2. IsLoopState(f[i])
      BY <1>2
    <2> QED
      BY <2>1, <2>2, AdvanceState DEF IsLoopState
  <1>3. Nat \subseteq S
    <2> HIDE DEF S
    <2> QED
      BY <1>1, <1>2, SetInduction
  <1> QED
    BY <1>3

\* How an element of the second loop agrees with the one of the first: where the
\* matches are missing from one of them, an element that is a poison of neither E
\* nor F, which drops what was accumulated, can only be the first one.
ItemAgree(E, F, i, v, w) ==
    \/ \E p \in E : v = Abort(p)
    \/ (\E p \in F : w = Abort(p)) /\ (i = 1 \/ ~Has(v, "abort"))
    \/ ~Has(v, "abort") /\ ~Has(w, "abort") /\ Agree(E, F, v, w)
    \/ v = w /\ (\E p \in Poisons : v = Abort(p)) /\ (i = 1 \/ VarNeeded \notin E)

LEMMA AbortFacts ==
    \A p : Has(Abort(p), "abort") /\ Abort(p).abort = p
  BY DEF Abort, Has

\* An expired timeout in the first loop alone ends it.
LEMMA AgreeLoopTimeout ==
    ASSUME NEW N \in Nat, NEW selector \in Selector, NEW rs, NEW ss,
           Len(rs) = N, Len(ss) = N,
           \A i \in 1 .. N : ItemAgree({Timeout}, {}, i, rs[i], ss[i])
    PROVE  Agree({Timeout}, {}, ForLoopResult(selector, rs), ForLoopResult(selector, ss))
  <1>1. PICK f : IsRun(selector, rs, f) /\ ForLoopResult(selector, rs) = LoopEnd(f[N])
    BY LoopSteps
  <1>2. PICK g : IsRun(selector, ss, g) /\ ForLoopResult(selector, ss) = LoopEnd(g[N])
    BY LoopSteps
  <1>3. \A i \in 0 .. N : IsLoopState(f[i])
    BY <1>1, LoopStates
  <1> DEFINE S == {i \in Nat : i <= N => f[i] = g[i] \/ f[i].value = Timeout}
  <1>4. 0 \in S
    BY <1>1, <1>2 DEF IsRun
  <1>5. ASSUME NEW i \in Nat, i \in S
        PROVE  i + 1 \in S
    <2> SUFFICES ASSUME i + 1 <= N
                 PROVE  f[i + 1] = g[i + 1] \/ f[i + 1].value = Timeout
      OBVIOUS
    <2> DEFINE v == rs[i + 1]
               w == ss[i + 1]
    <2>1. f[i + 1] = Advance(f[i], v) /\ g[i + 1] = Advance(g[i], w)
      <3>1. i + 1 \in 1 .. Len(rs) /\ i + 1 \in 1 .. Len(ss) /\ (i + 1) - 1 = i
        OBVIOUS
      <3> QED
        BY <1>1, <1>2, <3>1 DEF IsRun
    <2>2. ItemAgree({Timeout}, {}, i + 1, v, w)
      <3>1. i + 1 \in 1 .. N
        OBVIOUS
      <3> QED
        BY <3>1
    <2>3. PICK sel, nb, value :
             sel \in Selector /\ nb \in Nat /\ f[i] = LoopState(sel, nb, value)
      BY <1>3 DEF IsLoopState
    <2>4. f[i].value = value
      BY <2>3 DEF LoopState
    <2>5. \A q \in Selector : \A n \in Nat : \A x : LoopState(q, n, x).value = x
      BY DEF LoopState
    <2> HIDE DEF v, w
    <2>6. CASE value # Going
      <3>1. f[i + 1] = f[i]
        BY <2>1, <2>3, <2>6, AdvanceStops
      <3>2. CASE f[i] = g[i]
        <4>1. g[i] = LoopState(sel, nb, value)
          BY <2>3, <3>2
        <4>2. g[i + 1] = g[i]
          BY <2>1, <2>3, <2>6, <4>1, AdvanceStops
        <4> QED
          BY <2>3, <3>1, <3>2, <4>2
      <3> QED
        BY <1>5, <3>1, <3>2
    <2>7. CASE value = Going
      <3>1. f[i] = g[i]
        BY <1>5, <2>4, <2>7, PoisonFacts
      <3>2. CASE v = w
        BY <2>1, <3>1, <3>2
      <3>3. CASE v = Abort(Timeout)
        <4>1. f[i + 1] = LoopState(sel, nb, Timeout)
          BY <2>1, <2>3, <2>7, <3>3, AdvanceStops, AbortFacts
        <4> QED
          BY <2>3, <2>5, <4>1
      <3>4. CASE v = Timeout
        <4>1. ~Has(v, "abort") /\ v \in Fatal
          BY <3>4, PoisonFacts DEF Fatal
        <4>2. f[i + 1] = LoopState(sel, nb, Timeout)
          BY <2>1, <2>3, <2>7, <3>4, <4>1, AdvanceStops
        <4> QED
          BY <2>3, <2>5, <4>2
      <3> QED
        BY <2>2, <3>2, <3>3, <3>4 DEF ItemAgree, Agree
    <2> QED
      BY <2>6, <2>7
  <1>6. Nat \subseteq S
    <2> HIDE DEF S
    <2> QED
      BY <1>4, <1>5, SetInduction
  <1>7. f[N] = g[N] \/ f[N].value = Timeout
    BY <1>6
  <1>8. f[N].value = Timeout => LoopEnd(f[N]) = Timeout
    BY PoisonFacts DEF LoopEnd
  <1> QED
    BY <1>1, <1>2, <1>7, <1>8 DEF Agree

\* The loop without the matches, with the selector a, m elements that need the
\* matches and the value x, and the loop with them: unless one of them ends with
\* a poison, they have the same result, or the first one goes on, and what it
\* left out covers what the second one counted.
LoopAgree(a, m, x, b, n, y) ==
    \/ x \in Fatal \cup {VarNeeded}
    \/ y \in Fatal
    \/ x # Going /\ y = x
    \/ /\ x = Going /\ b.kind = a.kind
       /\ \/ y = Going /\ n = 0 /\ b.n <= a.n /\ a.n <= b.n + m
          \/ y = Yes /\ a.kind = "number" /\ a.n <= m
          \/ y = No /\ a.kind # "number" /\ m > 0

LoopsAgree(l, k) ==
    \E a \in Selector, m \in Nat, b \in Selector, n \in Nat : \E x, y :
       /\ l = LoopState(a, m, x)
       /\ k = LoopState(b, n, y)
       /\ LoopAgree(a, m, x, b, n, y)

LEMMA ValueFacts ==
    /\ Yes # Going /\ No # Going /\ Yes # No
    /\ Yes \notin Fatal /\ No \notin Fatal
    /\ Going \notin Poisons /\ VarNeeded \notin Fatal /\ Fatal \subseteq Poisons
    /\ \A p \in Poisons : ~Has(p, "abort")
    /\ VarNeeded \in Poisons
  <1>1. Yes # Going /\ No # Going /\ Yes # No /\ Yes \notin Fatal /\ No \notin Fatal
    BY DEF Yes, No, Boolean, Going, Fatal, Timeout, Panic, Poison
  <1> QED
    BY <1>1, PoisonFacts DEF Fatal

LEMMA LoopAgreeStep ==
    ASSUME NEW a \in Selector, NEW m \in Nat, NEW x,
           NEW b \in Selector, NEW n \in Nat, NEW y, LoopAgree(a, m, x, b, n, y),
           NEW i \in Nat, i = 1 => x = Going /\ y = Going, NEW v, NEW w,
           w # VarNeeded, ItemAgree(Fatal \cup {VarNeeded}, Fatal, i, v, w)
    PROVE  LoopsAgree(Advance(LoopState(a, m, x), v), Advance(LoopState(b, n, y), w))
  <1> DEFINE s == Advance(LoopState(a, m, x), v)
             t == Advance(LoopState(b, n, y), w)
             Goal == \E a2 \in Selector, m2 \in Nat, b2 \in Selector, n2 \in Nat :
                        \E x2, y2 : /\ s = LoopState(a2, m2, x2)
                                    /\ t = LoopState(b2, n2, y2)
                                    /\ LoopAgree(a2, m2, x2, b2, n2, y2)
  <1> SUFFICES Goal
    BY DEF LoopsAgree
  <1>0. /\ \E a2 \in Selector : \E m2 \in Nat : \E x2 : s = LoopState(a2, m2, x2)
        /\ \E b2 \in Selector : \E n2 \in Nat : \E y2 : t = LoopState(b2, n2, y2)
    BY AdvanceState DEF IsLoopState
  <1>1. m + 1 \in Nat
    OBVIOUS
  <1>2. CASE x # Going
    <2>1. s = LoopState(a, m, x)
      BY <1>2, AdvanceStops
    <2>2. CASE x \in Fatal \cup {VarNeeded}
      <3>1. \A b2, n2, y2 : LoopAgree(a, m, x, b2, n2, y2)
        BY <2>2 DEF LoopAgree
      <3> HIDE DEF s, t
      <3> QED
        BY <1>0, <2>1, <3>1
    <2>3. CASE x \notin Fatal \cup {VarNeeded}
      <3>1. y # Going
        BY <1>2, <2>3, ValueFacts DEF LoopAgree
      <3>2. t = LoopState(b, n, y)
        BY <3>1, AdvanceStops
      <3> HIDE DEF s, t
      <3> QED
        BY <2>1, <3>2
    <2> QED
      BY <2>2, <2>3
  <1>3. CASE x = Going /\ y \in Fatal
    <2>1. t = LoopState(b, n, y)
      BY <1>3, AdvanceStops, ValueFacts
    <2>2. \A a2, m2, x2 : LoopAgree(a2, m2, x2, b, n, y)
      BY <1>3 DEF LoopAgree
    <2> HIDE DEF s, t
    <2> QED
      BY <1>0, <2>1, <2>2
  <1>4. ASSUME x = Going, NEW p \in Fatal \cup {VarNeeded}, v = Abort(p) \/ v = p,
               p # VarNeeded \/ v = Abort(p)
        PROVE  Goal
    <2>1. s = LoopState(a, m, p)
      BY <1>4, AdvanceStops, AbortFacts, ValueFacts
    <2>2. \A b2, n2, y2 : LoopAgree(a, m, p, b2, n2, y2)
      BY DEF LoopAgree
    <2> HIDE DEF s, t
    <2> QED
      BY <1>0, <2>1, <2>2
  <1>5. ASSUME x = Going, y = Going, NEW p \in Fatal, w = Abort(p) \/ w = p
        PROVE  Goal
    <2>1. t = LoopState(b, n, p)
      BY <1>5, AdvanceStops, AbortFacts, ValueFacts
    <2>2. \A a2, m2, x2 : LoopAgree(a2, m2, x2, b, n, p)
      BY DEF LoopAgree
    <2> HIDE DEF s, t
    <2> QED
      BY <1>0, <2>1, <2>2
  <1>6. CASE x = Going /\ y = Going /\ v = w /\ (\E p \in Poisons : v = Abort(p))
    <2>1. PICK p \in Poisons : v = Abort(p)
      BY <1>6
    <2>2. s = LoopState(a, m, p) /\ t = LoopState(b, n, p)
      BY <1>6, <2>1, AdvanceStops, AbortFacts
    <2>3. LoopAgree(a, m, p, b, n, p)
      BY ValueFacts DEF LoopAgree
    <2> HIDE DEF s, t
    <2> QED
      BY <2>2, <2>3
  \* The first loop goes on, with an element that has a value or waits.
  <1>7. ASSUME x = Going, y # Going, y \notin Fatal, ~Has(v, "abort"), v \notin Fatal
        PROVE  Goal
    <2>1. t = LoopState(b, n, y)
      BY <1>7, AdvanceStops
    <2>2. \/ y = Yes /\ a.kind = "number" /\ a.n <= m
          \/ y = No /\ a.kind # "number" /\ m > 0
      BY <1>7, ValueFacts DEF LoopAgree
    <2>3. b.kind = a.kind
      BY <1>7, ValueFacts DEF LoopAgree
    <2>4. CASE v = VarNeeded
      <3>1. s = LoopState(a, m + 1, Going)
        BY <1>7, <2>4, AdvanceStops
      <3>2. LoopAgree(a, m + 1, Going, b, n, y)
        BY <2>2, <2>3, SelectorFacts DEF LoopAgree
      <3> HIDE DEF s, t
      <3> QED
        BY <1>1, <2>1, <3>1, <3>2
    <2>5. CASE v # VarNeeded /\ a.kind # "number"
      <3>1. s = LoopState(a, m, Going) \/ s = LoopState(a, m, No)
        BY <1>7, <2>5, AdvanceCounts, SelectorFacts
      <3>2. LoopAgree(a, m, Going, b, n, y) /\ LoopAgree(a, m, No, b, n, y)
        BY <2>2, <2>3, <2>5, ValueFacts DEF LoopAgree
      <3> HIDE DEF s, t
      <3> QED
        BY <2>1, <3>1, <3>2
    <2>6. CASE v # VarNeeded /\ a.kind = "number"
      <3>1. \/ s = LoopState(a, m, Going)
            \/ s = LoopState(Down(a), m, IF Down(a).n = 0 THEN Yes ELSE Going)
        BY <1>7, <2>6, AdvanceCounts
      <3>2. LoopAgree(a, m, Going, b, n, y)
        BY <2>2, <2>3, <2>6 DEF LoopAgree
      <3>3. Down(a).kind = a.kind /\ Down(a).n <= m /\ Down(a) \in Selector
        BY <2>2, <2>6, SelectorFacts
      <3>4. LoopAgree(Down(a), m, IF Down(a).n = 0 THEN Yes ELSE Going, b, n, y)
        BY <2>2, <2>3, <2>6, <3>3, ValueFacts DEF LoopAgree
      <3> HIDE DEF s, t
      <3> QED
        BY <2>1, <3>1, <3>2, <3>3, <3>4
    <2> QED
      BY <2>4, <2>5, <2>6
  <1>8. ASSUME x = Going, y = Going, v = VarNeeded,
               ~Has(w, "abort"), w \notin Fatal
        PROVE  Goal
    <2>1. s = LoopState(a, m + 1, Going)
      BY <1>8, AdvanceStops, ValueFacts
    <2>2. b.kind = a.kind /\ n = 0 /\ b.n <= a.n /\ a.n <= b.n + m
      BY <1>8, ValueFacts DEF LoopAgree
    <2>3. a.n \in Nat /\ b.n \in Nat
      BY SelectorFacts
    <2>4. LoopAgree(a, m + 1, Going, b, n, Going)
      BY <2>2, <2>3 DEF LoopAgree
    <2>5. CASE a.kind # "number"
      <3>1. t = LoopState(b, n, Going) \/ t = LoopState(b, n, No)
        BY <1>8, <2>2, <2>5, AdvanceCounts, SelectorFacts
      <3>2. LoopAgree(a, m + 1, Going, b, n, No)
        BY <2>2, <2>5 DEF LoopAgree
      <3> HIDE DEF s, t
      <3> QED
        BY <1>1, <2>1, <2>4, <3>1, <3>2
    <2>6. CASE a.kind = "number"
      <3>1. \/ t = LoopState(b, n, Going)
            \/ t = LoopState(Down(b), n, IF Down(b).n = 0 THEN Yes ELSE Going)
        BY <1>8, <2>2, <2>6, AdvanceCounts
      <3>2. /\ Down(b) \in Selector /\ Down(b).kind = b.kind
            /\ Down(b).n = IF b.n > 0 THEN b.n - 1 ELSE 0
        BY SelectorFacts
      <3>3. LoopAgree(a, m + 1, Going, Down(b), n,
                      IF Down(b).n = 0 THEN Yes ELSE Going)
        BY <2>2, <2>3, <2>6, <3>2 DEF LoopAgree
      <3> HIDE DEF s, t
      <3> QED
        BY <1>1, <2>1, <2>4, <3>1, <3>2, <3>3
    <2> QED
      BY <2>5, <2>6
  <1>9. ASSUME x = Going, y = Going, v = w, v # VarNeeded,
               ~Has(w, "abort"), w \notin Fatal
        PROVE  Goal
    <2>2. b.kind = a.kind /\ n = 0 /\ b.n <= a.n /\ a.n <= b.n + m
      BY <1>9, ValueFacts DEF LoopAgree
    <2>3. a.n \in Nat /\ b.n \in Nat
      BY SelectorFacts
    <2>4. LoopAgree(a, m, Going, b, n, Going) /\ LoopAgree(a, m, No, b, n, No)
      BY <2>2, ValueFacts DEF LoopAgree
    <2>5. CASE a.kind # "number"
      <3>1. \/ s = LoopState(a, m, Going) /\ t = LoopState(b, n, Going)
            \/ s = LoopState(a, m, No) /\ t = LoopState(b, n, No)
        <4>1. a.kind \in {"all", "none"}
          BY <2>5, SelectorFacts
        <4>2. CASE IsTrue(v)
          BY <1>9, <2>2, <4>1, <4>2, AdvanceCounts
        <4>3. CASE ~IsTrue(v)
          BY <1>9, <2>2, <4>1, <4>3, AdvanceCounts
        <4> QED
          BY <4>2, <4>3
      <3> HIDE DEF s, t
      <3> QED
        BY <2>4, <3>1
    <2>6. CASE a.kind = "number" /\ ~IsTrue(v)
      <3>1. s = LoopState(a, m, Going) /\ t = LoopState(b, n, Going)
        BY <1>9, <2>2, <2>6, AdvanceCounts
      <3> HIDE DEF s, t
      <3> QED
        BY <2>4, <3>1
    <2>7. CASE a.kind = "number" /\ IsTrue(v)
      <3>1. /\ s = LoopState(Down(a), m, IF Down(a).n = 0 THEN Yes ELSE Going)
            /\ t = LoopState(Down(b), n, IF Down(b).n = 0 THEN Yes ELSE Going)
        BY <1>9, <2>2, <2>7, AdvanceCounts
      <3>2. /\ Down(b) \in Selector /\ Down(b).kind = b.kind
            /\ Down(b).n = IF b.n > 0 THEN b.n - 1 ELSE 0
        BY SelectorFacts
      <3>3. /\ Down(a) \in Selector /\ Down(a).kind = a.kind
            /\ Down(a).n = IF a.n > 0 THEN a.n - 1 ELSE 0
        BY SelectorFacts
      <3>4. LoopAgree(Down(a), m, IF Down(a).n = 0 THEN Yes ELSE Going,
                      Down(b), n, IF Down(b).n = 0 THEN Yes ELSE Going)
        <4>1. Down(b).n <= Down(a).n /\ Down(a).n <= Down(b).n + m
              /\ Down(a).n \in Nat /\ Down(b).n \in Nat
          BY <2>2, <2>3, <3>2, <3>3
        <4>2. CASE Down(a).n = 0
          BY <4>1, <4>2, ValueFacts DEF LoopAgree
        <4>3. CASE Down(a).n # 0 /\ Down(b).n = 0
          BY <2>2, <2>7, <3>2, <3>3, <4>1, <4>3 DEF LoopAgree
        <4>4. CASE Down(a).n # 0 /\ Down(b).n # 0
          BY <2>2, <2>7, <3>2, <3>3, <4>1, <4>4 DEF LoopAgree
        <4> QED
          BY <4>2, <4>3, <4>4
      <3> HIDE DEF s, t
      <3> QED
        BY <3>1, <3>2, <3>3, <3>4
    <2> QED
      BY <2>5, <2>6, <2>7
  <1> HIDE DEF Goal
  <1> QED
    <2> SUFFICES ASSUME x = Going, y \notin Fatal
                 PROVE  Goal
      BY <1>2, <1>3
    <2>1. CASE \E p \in Fatal \cup {VarNeeded} : v = Abort(p)
      BY <1>4, <2>1
    <2>2. CASE v \in Fatal
      BY <1>4, <2>2, ValueFacts
    <2>3. CASE (\E p \in Fatal : w = Abort(p)) /\ (i = 1 \/ ~Has(v, "abort"))
      <3>1. CASE y = Going
        BY <1>5, <2>3, <3>1
      <3>2. CASE y # Going
        BY <1>7, <2>2, <2>3, <3>2
      <3> QED
        BY <3>1, <3>2
    <2>4. CASE ~Has(v, "abort") /\ ~Has(w, "abort") /\ v \notin Fatal
               /\ Agree(Fatal \cup {VarNeeded}, Fatal, v, w)
      <3>1. CASE y # Going
        BY <1>7, <2>4, <3>1
      <3>2. CASE y = Going /\ w \in Fatal
        BY <1>5, <3>2
      <3>3. CASE y = Going /\ w \notin Fatal
        BY <1>8, <1>9, <2>4, <3>3 DEF Agree
      <3> QED
        BY <3>1, <3>2, <3>3
    <2>5. CASE v = w /\ (\E p \in Poisons : v = Abort(p)) /\ i = 1
      BY <1>6, <2>5
    <2> QED
      BY <2>1, <2>2, <2>3, <2>4, <2>5 DEF ItemAgree

LEMMA LoopEndIs ==
    ASSUME NEW a \in Selector, NEW m \in Nat, NEW x
    PROVE  LoopEnd(LoopState(a, m, x)) =
              IF x # Going THEN x
              ELSE IF (a.kind = "number" /\ m >= a.n) \/ (a.kind # "number" /\ m > 0)
              THEN VarNeeded
              ELSE IF a.kind = "number" THEN No ELSE Yes
  <1> DEFINE l == LoopState(a, m, x)
  <1>1. l.sel = a /\ l.nb_vars_needed = m /\ l.value = x
    BY DEF LoopState
  <1>2. EndSelection(a, m) =
           IF (a.kind = "number" /\ m >= a.n) \/ (a.kind # "number" /\ m > 0)
           THEN "unknown" ELSE IF a.kind = "number" THEN "false" ELSE "true"
    BY DEF EndSelection
  <1>3. Answer("true") = Yes /\ Answer("false") = No /\ Answer("unknown") = VarNeeded
    BY DEF Answer, Yes, No
  <1>4. LoopEnd(l) = IF x = Going THEN Answer(EndSelection(a, m)) ELSE x
    <2> HIDE DEF l
    <2> QED
      BY <1>1 DEF LoopEnd
  <1> HIDE DEF l
  <1> QED
    BY <1>2, <1>3, <1>4 DEF l

\* The loop without the matches ends with the answer of the loop with them.
LEMMA AgreeLoopMatches ==
    ASSUME NEW N \in Nat, NEW selector \in Selector, NEW rs, NEW ss,
           Len(rs) = N, Len(ss) = N,
           \A i \in 1 .. N : /\ ItemAgree(Fatal \cup {VarNeeded}, Fatal, i, rs[i], ss[i])
                             /\ ss[i] # VarNeeded
    PROVE  Agree(Fatal \cup {VarNeeded}, Fatal,
                 ForLoopResult(selector, rs), ForLoopResult(selector, ss))
  <1>1. PICK f : IsRun(selector, rs, f) /\ ForLoopResult(selector, rs) = LoopEnd(f[N])
    BY LoopSteps
  <1>2. PICK g : IsRun(selector, ss, g) /\ ForLoopResult(selector, ss) = LoopEnd(g[N])
    BY LoopSteps
  <1> DEFINE S == {i \in Nat : i <= N => LoopsAgree(f[i], g[i])}
  <1>3. f[0] = LoopState(selector, 0, Going) /\ g[0] = LoopState(selector, 0, Going)
    BY <1>1, <1>2 DEF IsRun, LoopStart, LoopState
  <1>4. 0 \in S
    <2>1. LoopAgree(selector, 0, Going, selector, 0, Going)
      BY SelectorFacts DEF LoopAgree
    <2> QED
      BY <1>3, <2>1 DEF LoopsAgree
  <1>5. ASSUME NEW i \in Nat, i \in S
        PROVE  i + 1 \in S
    <2> SUFFICES ASSUME i + 1 <= N
                 PROVE  LoopsAgree(f[i + 1], g[i + 1])
      OBVIOUS
    <2> DEFINE v == rs[i + 1]
               w == ss[i + 1]
    <2>1. f[i + 1] = Advance(f[i], v) /\ g[i + 1] = Advance(g[i], w)
      <3>1. i + 1 \in 1 .. Len(rs) /\ i + 1 \in 1 .. Len(ss) /\ (i + 1) - 1 = i
        OBVIOUS
      <3> QED
        BY <1>1, <1>2, <3>1 DEF IsRun
    <2>2. ItemAgree(Fatal \cup {VarNeeded}, Fatal, i + 1, v, w) /\ w # VarNeeded
      <3>1. i + 1 \in 1 .. N
        OBVIOUS
      <3> QED
        BY <3>1
    <2> HIDE DEF v, w
    <2>3. LoopsAgree(f[i], g[i])
      BY <1>5
    <2>4. PICK a \in Selector, m \in Nat, b \in Selector, n \in Nat :
             \E x, y : /\ f[i] = LoopState(a, m, x)
                       /\ g[i] = LoopState(b, n, y)
                       /\ LoopAgree(a, m, x, b, n, y)
      BY <2>3 DEF LoopsAgree
    <2>5. PICK x, y : /\ f[i] = LoopState(a, m, x)
                      /\ g[i] = LoopState(b, n, y)
                      /\ LoopAgree(a, m, x, b, n, y)
      BY <2>4
    <2>6. i + 1 = 1 => x = Going /\ y = Going
      <3>1. CASE i = 0
        BY <1>3, <2>5, <3>1 DEF LoopState
      <3>2. CASE i # 0
        BY <3>2
      <3> QED
        BY <3>1, <3>2
    <2>7. i + 1 \in Nat
      OBVIOUS
    <2>8. LoopsAgree(Advance(LoopState(a, m, x), v), Advance(LoopState(b, n, y), w))
      BY <2>2, <2>5, <2>6, <2>7, LoopAgreeStep
    <2> QED
      BY <2>1, <2>5, <2>8
  <1>6. Nat \subseteq S
    <2> HIDE DEF S
    <2> QED
      BY <1>4, <1>5, SetInduction
  <1>7. LoopsAgree(f[N], g[N])
    BY <1>6
  <1>8. PICK a \in Selector, m \in Nat, b \in Selector, n \in Nat :
           \E x, y : /\ f[N] = LoopState(a, m, x)
                     /\ g[N] = LoopState(b, n, y)
                     /\ LoopAgree(a, m, x, b, n, y)
    BY <1>7 DEF LoopsAgree
  <1>9. PICK x, y : /\ f[N] = LoopState(a, m, x)
                    /\ g[N] = LoopState(b, n, y)
                    /\ LoopAgree(a, m, x, b, n, y)
    BY <1>8
  <1> DEFINE r == LoopEnd(f[N])
             s == LoopEnd(g[N])
  <1>10. /\ r = IF x # Going THEN x
                ELSE IF (a.kind = "number" /\ m >= a.n) \/ (a.kind # "number" /\ m > 0)
                THEN VarNeeded ELSE IF a.kind = "number" THEN No ELSE Yes
         /\ s = IF y # Going THEN y
                ELSE IF (b.kind = "number" /\ n >= b.n) \/ (b.kind # "number" /\ n > 0)
                THEN VarNeeded ELSE IF b.kind = "number" THEN No ELSE Yes
    BY <1>9, LoopEndIs
  <1>11. a.n \in Nat /\ b.n \in Nat
    BY SelectorFacts
  <1> HIDE DEF r, s
  <1>12. r \in Fatal \cup {VarNeeded} \/ s \in Fatal \/ r = s
    <2>1. CASE x # Going
      BY <1>9, <1>10, <2>1, ValueFacts DEF LoopAgree
    <2>2. CASE y \in Fatal
      BY <1>10, <2>2, ValueFacts
    <2>3. CASE x = Going /\ y \notin Fatal
      <3>1. /\ b.kind = a.kind
            /\ \/ y = Going /\ n = 0 /\ b.n <= a.n /\ a.n <= b.n + m
               \/ y = Yes /\ a.kind = "number" /\ a.n <= m
               \/ y = No /\ a.kind # "number" /\ m > 0
        BY <1>9, <2>3, ValueFacts DEF LoopAgree
      <3>2. CASE y = Yes \/ y = No
        BY <1>10, <1>11, <2>3, <3>1, <3>2, ValueFacts
      <3>3. CASE y = Going
        BY <1>10, <1>11, <2>3, <3>1, <3>3, ValueFacts
      <3> QED
        BY <3>1, <3>2, <3>3
    <2> QED
      BY <2>1, <2>2, <2>3
  <1> QED
    BY <1>1, <1>2, <1>12 DEF Agree, r, s

LEMMA AgreeLoop ==
    ASSUME NEW E, NEW F, Modes(E, F), NEW N \in Nat, NEW selector \in Selector,
           NEW rs, NEW ss, Len(rs) = N, Len(ss) = N,
           \A i \in 1 .. N : ItemAgree(E, F, i, rs[i], ss[i]),
           VarNeeded \in E => \A i \in 1 .. N : ss[i] # VarNeeded
    PROVE  Agree(E, F, ForLoopResult(selector, rs), ForLoopResult(selector, ss))
  <1>1. CASE E = {Timeout} /\ F = {}
    BY <1>1, AgreeLoopTimeout
  <1>2. CASE E = Fatal \cup {VarNeeded} /\ F = Fatal
    BY <1>2, AgreeLoopMatches
  <1> QED
    BY <1>1, <1>2 DEF Modes

\* A loop whose only element is a poison.
LEMMA LoopAborts ==
    ASSUME NEW selector \in Selector, NEW p \in Poisons
    PROVE  ForLoopResult(selector, <<Abort(p)>>) = p
  <1> DEFINE rs == <<Abort(p)>>
  <1>1. Len(rs) = 1 /\ rs[1] = Abort(p)
    OBVIOUS
  <1> HIDE DEF rs
  <1>2. PICK f : IsRun(selector, rs, f) /\ ForLoopResult(selector, rs) = LoopEnd(f[1])
    <2>1. Len(rs) \in Nat
      BY <1>1
    <2> QED
      BY <1>1, <2>1, LoopSteps
  <1>3. f[0] = LoopState(selector, 0, Going)
    BY <1>2 DEF IsRun, LoopStart, LoopState
  <1>4. f[1] = Advance(f[0], Abort(p))
    <2>1. 1 \in 1 .. Len(rs) /\ 1 - 1 = 0
      BY <1>1
    <2> QED
      BY <1>1, <1>2, <2>1 DEF IsRun
  <1>5. f[1] = LoopState(selector, 0, p)
    BY <1>3, <1>4, AdvanceStops, AbortFacts
  <1>6. LoopEnd(f[1]) = p
    BY <1>5, LoopEndIs, ValueFacts
  <1> QED
    BY <1>2, <1>6 DEF rs

-----------------------------------------------------------------------------
(* What an evaluation returns: a value, or a poison, which is not VarNeeded   *)
(* when the matches are known, nor Timeout when nothing finds it expired.     *)

Typed(ctx, v) ==
    /\ v \in Outcome
    /\ ctx.var_matches.known => v # VarNeeded
    /\ ctx.expired = {} => v # Timeout
WellTyped(ctx, g) ==
    \A e \in Expression : \A env \in Env : Typed(ctx, g[e][env])

LEMMA PowerOfTwo ==
    ASSUME NEW n \in Nat
    PROVE  2 ^ n \in Nat \ {0}
  <1> DEFINE S == 1 .. n
  <1>1. IsFiniteSet(S) /\ Cardinality(S) = n
    BY FS_Interval
  <1>2. IsFiniteSet(SUBSET S) /\ Cardinality(SUBSET S) = 2 ^ n
    BY <1>1, FS_SUBSET
  <1>3. Cardinality(SUBSET S) \in Nat
    BY <1>2, FS_CardinalityType
  <1>4. Cardinality(SUBSET S) # 0
    BY <1>2, FS_EmptySet
  <1> QED
    BY <1>2, <1>3, <1>4

LEMMA IntegersStay ==
    /\ Half \in Nat \ {0}
    /\ \A n \in Int : Wrap(n) \in Int
    /\ \A n, m \in Int : m # 0 => TruncDiv(n, m) \in Int
    /\ \A n \in Int : \A m \in Nat : n * 2 ^ m \in Int /\ n \div 2 ^ m \in Int
  <1>1. Half \in Nat \ {0}
    <2>1. IntBits - 1 \in Nat
      BY IntBitsAssumption
    <2> QED
      BY <2>1, PowerOfTwo DEF Half
  <1>2. ASSUME NEW n \in Int
        PROVE  Wrap(n) \in Int
    <2>1. \A b \in Nat \ {0} : \A a \in Int : a % b \in Int
      OBVIOUS
    <2>2. 2 * Half \in Nat \ {0} /\ n + Half \in Int
      BY <1>1
    <2>3. (n + Half) % (2 * Half) \in Int
      BY <2>1, <2>2
    <2> QED
      BY <1>1, <2>3 DEF Wrap
  <1>3. ASSUME NEW n \in Int, NEW m \in Int, m # 0
        PROVE  TruncDiv(n, m) \in Int
    <2>1. Abs(n) \in Nat /\ Abs(m) \in Nat \ {0}
      BY <1>3 DEF Abs
    <2>2. Abs(n) \div Abs(m) \in Int
      BY <2>1, Quotient
    <2>3. Sign(n) \in {-1, 1} /\ Sign(m) \in {-1, 1}
      BY DEF Sign
    <2>4. Sign(n) * Sign(m) \in {-1, 1}
      BY <2>3
    <2> QED
      BY <2>2, <2>4 DEF TruncDiv
  <1>4. ASSUME NEW n \in Int, NEW m \in Nat
        PROVE  n * 2 ^ m \in Int /\ n \div 2 ^ m \in Int
    <2>1. 2 ^ m \in Nat \ {0}
      BY PowerOfTwo
    <2>2. \A b \in Nat \ {0} : n * b \in Int /\ n \div b \in Int
      OBVIOUS
    <2> QED
      BY <2>1, <2>2
  <1> QED
    BY <1>1, <1>2, <1>3, <1>4

LEMMA ArithIsTyped ==
    ASSUME NEW n \in Int, NEW m \in Int,
           NEW fn \in {"add", "sub", "mul", "div", "mod", "shl", "shr"}
    PROVE  Arith(fn, n, m) \in Outcome \ {VarNeeded, Timeout}
  <1>1. \A k \in Int : Integer(k) \in Outcome \ {VarNeeded, Timeout}
    BY PoisonFacts
  <1>2. Undefined \in Outcome \ {VarNeeded, Timeout}
    BY PoisonFacts
  <1>3. n + m \in Int /\ n - m \in Int /\ n * m \in Int
    OBVIOUS
  <1>4. CASE \/ fn \in {"div", "mod"} /\ (m = 0 \/ (n = -Half /\ m = -1))
             \/ fn \in {"shl", "shr"} /\ m < 0
    <2>1. Arith(fn, n, m) = Undefined
      BY <1>4 DEF Arith
    <2> QED
      BY <1>2, <2>1
  <1>5. CASE fn \in {"shl", "shr"} /\ m >= 0
    <2>1. m \in Nat
      BY <1>5
    <2>2. /\ Wrap(n * 2 ^ m) \in Int
          /\ n \div 2 ^ m \in Int /\ 0 \in Int
      BY <2>1, IntegersStay
    <2>3. \/ Arith(fn, n, m) = Integer(0)
          \/ Arith(fn, n, m) = Integer(Wrap(n * 2 ^ m))
          \/ Arith(fn, n, m) = Integer(n \div 2 ^ m)
      BY <1>5, <2>1 DEF Arith
    <2> QED
      BY <1>1, <2>2, <2>3
  <1>6. CASE fn \in {"div", "mod"} /\ ~(m = 0 \/ (n = -Half /\ m = -1))
    <2>1. TruncDiv(n, m) \in Int
      BY <1>6, IntegersStay
    <2>2. n - m * TruncDiv(n, m) \in Int
      BY <2>1
    <2>3. \/ Arith(fn, n, m) = Integer(TruncDiv(n, m))
          \/ Arith(fn, n, m) = Integer(n - m * TruncDiv(n, m))
      BY <1>6 DEF Arith
    <2> QED
      BY <1>1, <2>1, <2>2, <2>3
  <1>7. CASE fn \in {"add", "sub", "mul"}
    <2>1. Wrap(n + m) \in Int /\ Wrap(n - m) \in Int /\ Wrap(n * m) \in Int
      BY <1>3, IntegersStay
    <2>2. \/ Arith(fn, n, m) = Integer(Wrap(n + m))
          \/ Arith(fn, n, m) = Integer(Wrap(n - m))
          \/ Arith(fn, n, m) = Integer(Wrap(n * m))
      BY <1>7 DEF Arith
    <2> QED
      BY <1>1, <2>1, <2>2
  <1> QED
    BY <1>4, <1>5, <1>6, <1>7

LEMMA TypedFacts ==
    ASSUME NEW ctx
    PROVE  /\ \A n \in Int : Typed(ctx, Integer(n))
           /\ \A b \in BOOLEAN : Typed(ctx, Boolean(b))
           /\ \A s \in STRING : Typed(ctx, Bytes(s))
           /\ \A v \in BoundValue : Typed(ctx, v)
           /\ Typed(ctx, Undefined) /\ Typed(ctx, Panic)
           /\ ctx.expired # {} => Typed(ctx, Timeout)
           /\ ~ctx.var_matches.known => Typed(ctx, VarNeeded)
  <1>1. \A v \in BoundValue : v \in Outcome /\ v # VarNeeded /\ v # Timeout
    BY SMTT(30) DEF BoundValue, Outcome, ModuleValues, VarNeeded, Timeout, Poison
  <1> QED
    BY <1>1, PoisonFacts DEF Typed

LEMMA TypedUnwrap ==
    ASSUME NEW ctx, NEW v, Typed(ctx, v)
    PROVE  /\ \A type : Typed(ctx, unwrap(v, type))
           /\ unwrap(v, "int") \in Poisons \/ unwrap(v, "int").int \in Int
           /\ ~IsPoison(unwrap(v, "int")) => unwrap(v, "int").int \in Int
  <1>1. \A type : unwrap(v, type) = v \/ unwrap(v, type) = Undefined
    BY DEF unwrap
  <1>2. IsPoison(v) => v \in Poisons
    BY Shapes DEF Typed
  <1>3. IsPoison(Undefined) /\ Undefined \in Poisons
    BY PoisonFacts
  <1>4. ~IsPoison(v) /\ unwrap(v, "int") = v => v.int \in Int
    <2>1. Has(v, "int") => v.int \in Int
      BY Shapes DEF Typed
    <2> QED
      BY <1>3, <2>1 DEF unwrap
  <1> QED
    BY <1>1, <1>2, <1>3, <1>4, TypedFacts

LEMMA TypedMatches ==
    ASSUME NEW ctx, NEW v, NEW result, Typed(ctx, result)
    PROVE  Typed(ctx, get_var_matches(ctx, v, result))
  BY TypedFacts DEF get_var_matches

\* The result counts only where the list of matches exists.
LEMMA TypedMatchesOf ==
    ASSUME NEW ctx, ContextOK(ctx), NEW v, NEW result,
           v \in DOMAIN ctx.var_matches.of => Typed(ctx, result)
    PROVE  Typed(ctx, get_var_matches(ctx, v, result))
  BY TypedFacts DEF get_var_matches

LEMMA MatchesType ==
    ASSUME NEW ctx, ContextOK(ctx), NEW v \in DOMAIN ctx.var_matches.of
    PROVE  /\ Matches(ctx, v) \in Seq([offset : Nat, length : Nat])
           /\ Len(Matches(ctx, v)) \in Nat
           /\ IsFiniteSet(DOMAIN Matches(ctx, v))
           /\ \A k \in DOMAIN Matches(ctx, v) :
                 Matches(ctx, v)[k].offset \in Nat /\ Matches(ctx, v)[k].length \in Nat
  <1>1. ctx.var_matches.of \in Seq(Seq([offset : Nat, length : Nat]))
    BY DEF ContextOK
  <1>2. Matches(ctx, v) \in Seq([offset : Nat, length : Nat])
    BY <1>1, ElementOfSeq DEF Matches
  <1>3. DOMAIN Matches(ctx, v) = 1 .. Len(Matches(ctx, v)) /\ Len(Matches(ctx, v)) \in Nat
    BY <1>2
  <1>4. IsFiniteSet(DOMAIN Matches(ctx, v))
    BY <1>3, FS_Interval
  <1>5. \A k \in DOMAIN Matches(ctx, v) :
           Matches(ctx, v)[k] \in [offset : Nat, length : Nat]
    BY <1>2, <1>3, ElementOfSeq
  <1>6. \A x \in [offset : Nat, length : Nat] : x.offset \in Nat /\ x.length \in Nat
    OBVIOUS
  <1> QED
    BY <1>2, <1>3, <1>4, <1>5, <1>6

LEMMA TypedPrevious ==
    ASSUME NEW ctx, ContextOK(ctx), NEW index
    PROVE  Typed(ctx, PreviousResult(ctx, index))
  <1>1. ctx.previous \in Seq(BOOLEAN)
    BY DEF ContextOK
  <1>2. CASE index \in DOMAIN ctx.previous
    <2>1. ctx.previous[index] \in BOOLEAN
      BY <1>1, <1>2, ElementOfSeq
    <2> QED
      BY <1>2, <2>1, TypedFacts DEF PreviousResult
  <1>3. CASE index \notin DOMAIN ctx.previous
    BY <1>3, TypedFacts DEF PreviousResult
  <1> QED
    BY <1>2, <1>3

LEMMA TypedLeaves ==
    ASSUME NEW ctx, ContextOK(ctx), NEW g, NEW e \in Expression, NEW env \in Env,
           e \notin ctx.expired,
           e.op \in {"filesize", "entrypoint", "integer", "bytes", "boolean",
                     "external", "rule"}
    PROVE  Typed(ctx, evaluate_expr(ctx, g, e, env))
  <1>0. ExpressionOK(e)
    BY ExpressionsAssumption
  <1>1. \A v \in [int : Nat] \cup {Undefined} : Typed(ctx, v)
    <2>1. \A v \in [int : Nat] : v \in BoundValue
      BY DEF BoundValue
    <2> QED
      BY <2>1, TypedFacts
  <1>2. Typed(ctx, ctx.filesize) /\ Typed(ctx, ctx.entrypoint)
    BY <1>1 DEF ContextOK
  <1>3. Typed(ctx, ValueAt(ctx.externals, e.index))
    BY TypedFacts DEF ContextOK, ValueAt
  <1>4. Typed(ctx, PreviousResult(ctx, e.index))
    BY TypedPrevious
  <1>5. /\ e.op = "integer" => Typed(ctx, Integer(e.int))
        /\ e.op = "bytes" => Typed(ctx, Bytes(e.bytes))
        /\ e.op = "boolean" => Typed(ctx, Boolean(e.bool))
    BY <1>0, TypedFacts DEF ExpressionOK
  <1> QED
    BY <1>2, <1>3, <1>4, <1>5, LeafArms

LEMMA TypedVariables ==
    ASSUME NEW ctx, ContextOK(ctx), NEW g, WellTyped(ctx, g),
           NEW e \in Expression, NEW env \in Env, e \notin ctx.expired,
           e.op \in {"read_integer", "variable", "count", "variable_at", "offset",
                     "length", "count_in", "variable_in"}
    PROVE  Typed(ctx, evaluate_expr(ctx, g, e, env))
  <1> DEFINE r == evaluate_expr(ctx, g, e, env)
             var == VarIndex(e, env)
  <1>0. ExpressionOK(e)
    BY ExpressionsAssumption
  <1>1. ASSUME NEW x \in Expression
        PROVE  /\ Typed(ctx, Num(g, x, env))
               /\ ~IsPoison(Num(g, x, env)) => Num(g, x, env).int \in Int
    BY TypedUnwrap DEF WellTyped, Num
  <1>2. CASE e.op = "read_integer"
    <2>1. e.addr \in Expression
      BY <1>0, <1>2 DEF ExpressionOK
    <2>2. r = ReadInteger(ctx, Num(g, e.addr, env))
      BY <1>2, VariableArms
    <2>3. \A a \in DOMAIN ctx.memory : ctx.memory[a] \in Int
      BY DEF ContextOK
    <2> HIDE DEF r
    <2> QED
      BY <1>1, <2>1, <2>2, <2>3, TypedFacts DEF ReadInteger, r
  <1>3. CASE e.op = "variable"
    <2>1. r = get_var_matches(ctx, var, Boolean(Matches(ctx, var) # <<>>))
      BY <1>3, VariableArms
    <2>2. Typed(ctx, Boolean(Matches(ctx, var) # <<>>))
      BY TypedFacts
    <2> QED
      BY <2>1, <2>2, TypedMatches
  <1>4. CASE e.op = "count"
    <2>1. r = get_var_matches(ctx, var, Integer(Len(Matches(ctx, var))))
      BY <1>4, VariableArms
    <2>2. var \in DOMAIN ctx.var_matches.of => Typed(ctx, Integer(Len(Matches(ctx, var))))
      BY MatchesType, TypedFacts
    <2> QED
      BY <2>1, <2>2, TypedMatchesOf
  <1>5. CASE e.op = "variable_at"
    <2> DEFINE m == Num(g, e.offset, env)
    <2>1. Typed(ctx, m)
      BY <1>0, <1>1, <1>5 DEF ExpressionOK
    <2>2. r = FindAt(ctx, var, m)
      BY <1>5, VariableArms
    <2>3. Typed(ctx, FoundAt(Matches(ctx, var), m.int))
      BY TypedFacts DEF FoundAt
    <2>4. Typed(ctx, get_var_matches(ctx, var, FoundAt(Matches(ctx, var), m.int)))
      BY <2>3, TypedMatches
    <2>5. Typed(ctx, Boolean(FALSE))
      BY TypedFacts
    <2> HIDE DEF m, r
    <2> QED
      BY <2>1, <2>2, <2>4, <2>5 DEF FindAt, r
  <1>6. ASSUME NEW field \in {"offset", "length"}, e.op = field
        PROVE  Typed(ctx, r)
    <2> DEFINE m == Num(g, e.nth, env)
               x == IF m.int \in DOMAIN Matches(ctx, var)
                    THEN Integer(Matches(ctx, var)[m.int][field])
                    ELSE Undefined
    <2>1. Typed(ctx, m)
      BY <1>0, <1>1, <1>6 DEF ExpressionOK
    <2>2. r = Occurrence(ctx, var, m, field)
      BY <1>6, VariableArms
    <2>3. ASSUME var \in DOMAIN ctx.var_matches.of
          PROVE  Typed(ctx, x)
      <3>1. \A k \in DOMAIN Matches(ctx, var) : Matches(ctx, var)[k][field] \in Int
        BY <1>6, <2>3, MatchesType
      <3> QED
        BY <3>1, TypedFacts
    <2>4. Typed(ctx, get_var_matches(ctx, var, x))
      BY <2>3, TypedMatchesOf
    <2> HIDE DEF m, r
    <2> QED
      BY <2>1, <2>2, <2>4, TypedFacts DEF Occurrence, r
  <1>7. CASE e.op \in {"count_in", "variable_in"}
    <2> DEFINE from == Num(g, e.from, env)
               to == Num(g, e.to, env)
               found == MatchesIn(Matches(ctx, var), Usize(from.int), Usize(to.int))
    <2>1. Typed(ctx, from) /\ Typed(ctx, to)
      BY <1>0, <1>1, <1>7 DEF ExpressionOK
    <2>2. e.op = "count_in" => r = Strict(from, to, CountInRange(ctx, var, from, to))
      BY VariableArms
    <2>3. e.op = "variable_in" => r = Strict(from, to, FindIn(ctx, var, from, to))
      BY VariableArms
    <2>4. Typed(ctx, CountInRange(ctx, var, from, to))
      <3>1. ASSUME var \in DOMAIN ctx.var_matches.of
            PROVE  Typed(ctx, Integer(Cardinality(found)))
        <4>1. found \subseteq DOMAIN Matches(ctx, var)
          BY DEF MatchesIn
        <4>2. Cardinality(found) \in Nat
          BY <3>1, <4>1, MatchesType, FS_Subset, FS_CardinalityType
        <4> QED
          BY <4>2, TypedFacts
      <3> QED
        BY <3>1, TypedMatchesOf DEF CountInRange
    <2>5. Typed(ctx, FindIn(ctx, var, from, to))
      <3>1. Typed(ctx, Boolean(MatchesIn(Matches(ctx, var), from.int, to.int) # {}))
        BY TypedFacts
      <3>2. Typed(ctx, Boolean(FALSE))
        BY TypedFacts
      <3> QED
        BY <3>1, <3>2, TypedMatches DEF FindIn
    <2> HIDE DEF from, to, r
    <2> QED
      BY <1>7, <2>1, <2>2, <2>3, <2>4, <2>5 DEF Strict, r
  <1> QED
    BY <1>2, <1>3, <1>4, <1>5, <1>6, <1>7

LEMMA TypedStrict ==
    ASSUME NEW ctx, NEW l, NEW r, NEW result, Typed(ctx, l), Typed(ctx, r),
           l \notin Poisons /\ r \notin Poisons => Typed(ctx, result)
    PROVE  Typed(ctx, Strict(l, r, result))
  <1>1. (IsPoison(l) <=> l \in Poisons) /\ (IsPoison(r) <=> r \in Poisons)
    BY Shapes DEF Typed
  <1> QED
    BY <1>1 DEF Strict

LEMMA TypedOperators ==
    ASSUME NEW ctx, NEW g, WellTyped(ctx, g),
           NEW e \in Expression, NEW env \in Env, e \notin ctx.expired,
           e.op \in {"neg", "arith", "cmp", "eq", "string_op", "not", "defined"}
    PROVE  Typed(ctx, evaluate_expr(ctx, g, e, env))
  <1> DEFINE result == evaluate_expr(ctx, g, e, env)
  <1>0. ExpressionOK(e)
    BY ExpressionsAssumption
  <1>1. CASE e.op \in {"neg", "not", "defined"}
    <2> DEFINE x == Val(g, e.e, env)
    <2>1. Typed(ctx, x)
      <3>1. e.e \in Expression
        BY <1>0, <1>1 DEF ExpressionOK
      <3> QED
        BY <3>1 DEF WellTyped, Val
    <2>2. e.op = "neg" => result = Negate(ctx, x)
      BY OperatorArms
    <2>3. e.op = "not" => result = NotOf(x)
      BY OperatorArms
    <2>4. e.op = "defined" => result = DefinedOf(x)
      BY OperatorArms
    <2> HIDE DEF x, result
    <2>5. Typed(ctx, Negate(ctx, x))
      <3>1. CASE Has(x, "int")
        <4>1. x.int \in Int
          BY <2>1, <3>1, Shapes DEF Typed
        <4>2. -x.int \in Int
          BY <4>1
        <4>3. Typed(ctx, Integer(Wrap(-x.int)))
          BY <4>2, IntegersStay, TypedFacts
        <4> QED
          BY <2>1, <4>3, TypedFacts DEF Negate
      <3>2. CASE ~Has(x, "int")
        BY <2>1, <3>2, TypedFacts DEF Negate
      <3> QED
        BY <3>1, <3>2
    <2>6. Typed(ctx, NotOf(x))
      <3>1. Typed(ctx, Boolean(~to_bool(x)))
        BY TypedFacts
      <3> QED
        BY <2>1, <3>1 DEF NotOf
    <2>7. Typed(ctx, DefinedOf(x))
      <3>1. Typed(ctx, Boolean(TRUE)) /\ Typed(ctx, Boolean(FALSE))
        BY TypedFacts
      <3> QED
        BY <2>1, <3>1 DEF DefinedOf
    <2> QED
      BY <1>1, <2>2, <2>3, <2>4, <2>5, <2>6, <2>7 DEF result
  <1>2. CASE e.op \in {"arith", "cmp", "eq", "string_op"}
    <2> DEFINE l == Val(g, e.l, env)
               r == Val(g, e.r, env)
               b == unwrap(l, "bytes")
               c == unwrap(r, "bytes")
    <2>1. Typed(ctx, l) /\ Typed(ctx, r)
      <3>1. e.l \in Expression /\ e.r \in Expression
        BY <1>0, <1>2 DEF ExpressionOK
      <3> QED
        BY <3>1 DEF WellTyped, Val
    <2>2. Typed(ctx, b) /\ Typed(ctx, c)
      <3> HIDE DEF l, r
      <3> QED
        BY <2>1, TypedUnwrap
    <2>3. e.op = "arith" => result = Strict(l, r, Calculated(e, l, r))
      BY OperatorArms
    <2>4. e.op = "cmp" => result = Strict(l, r, Compared(e, l, r))
      BY OperatorArms
    <2>5. e.op = "eq" => result = Strict(l, r, Equal(e, l, r))
      BY OperatorArms
    <2>6. e.op = "string_op" => result = Strict(b, c, Related(e, b, c))
      BY OperatorArms DEF Str, Val
    <2> HIDE DEF l, r, b, c, result
    <2>7. ASSUME NEW x, NEW y
          PROVE  Typed(ctx, Related(e, x, y))
      <3> DEFINE related == <<x.bytes, y.bytes>> \in e.rel
      <3>1. related \in BOOLEAN
        OBVIOUS
      <3> HIDE DEF related
      <3>2. Typed(ctx, Boolean(related))
        BY <3>1, TypedFacts
      <3> QED
        BY <3>2 DEF Related, related
    <2>8. ASSUME e.op = "arith"
          PROVE  Typed(ctx, Calculated(e, l, r))
      <3>1. CASE Has(l, "int") /\ Has(r, "int")
        <4>1. l.int \in Int /\ r.int \in Int
          BY <2>1, <3>1, Shapes DEF Typed
        <4>2. e.fn \in {"add", "sub", "mul", "div", "mod", "shl", "shr"}
          BY <1>0, <2>8 DEF ExpressionOK
        <4>3. Arith(e.fn, l.int, r.int) \in Outcome \ {VarNeeded, Timeout}
          BY <4>1, <4>2, ArithIsTyped
        <4> QED
          BY <3>1, <4>3 DEF Calculated, Typed
      <3>2. CASE ~(Has(l, "int") /\ Has(r, "int"))
        BY <3>2, TypedFacts DEF Calculated
      <3> QED
        BY <3>1, <3>2
    <2>9. Typed(ctx, Compared(e, l, r))
      <3>1. Typed(ctx, Boolean(Compare(e.less_than, e.can_be_equal, l.int, r.int)))
        BY TypedFacts DEF Compare
      <3> QED
        BY <2>7, <3>1, TypedFacts DEF Compared
    <2>10. Typed(ctx, Equal(e, l, r))
      <3>1. Typed(ctx, Boolean((l = r) # e.negated))
        BY TypedFacts
      <3> QED
        BY <3>1, TypedFacts DEF Equal
    <2>11. CASE e.op = "arith"
      BY <2>1, <2>3, <2>8, <2>11, TypedStrict DEF result
    <2>12. CASE e.op = "cmp"
      BY <2>1, <2>4, <2>9, <2>12, TypedStrict DEF result
    <2>13. CASE e.op = "eq"
      BY <2>1, <2>5, <2>10, <2>13, TypedStrict DEF result
    <2>14. CASE e.op = "string_op"
      BY <2>2, <2>6, <2>7, <2>14, TypedStrict DEF result
    <2> QED
      BY <1>2, <2>11, <2>12, <2>13, <2>14
  <1> QED
    BY <1>1, <1>2

LEMMA TypedConnective ==
    ASSUME NEW ctx, NEW N \in Nat, NEW rs, DOMAIN rs = 1 .. N,
           \A i \in 1 .. N : Typed(ctx, rs[i]), NEW decider \in BOOLEAN
    PROVE  Typed(ctx, Connective(rs, decider))
  <1>1. Typed(ctx, Boolean(decider)) /\ Typed(ctx, Boolean(~decider))
    BY TypedFacts
  <1>2. (\E i \in 1 .. N : rs[i] = VarNeeded) => Typed(ctx, VarNeeded)
    OBVIOUS
  <1>3. \/ \E i \in 1 .. N : Connective(rs, decider) = rs[i]
        \/ Connective(rs, decider) = Boolean(decider)
        \/ Connective(rs, decider) = Boolean(~decider)
    BY ConnectiveCases
  <1> QED
    BY <1>1, <1>2, <1>3

LEMMA TypedFirstPoison ==
    ASSUME NEW ctx, NEW N \in Nat, NEW rs, DOMAIN rs = 1 .. N,
           \A i \in 1 .. N : Typed(ctx, rs[i]), NEW result, Typed(ctx, result)
    PROVE  Typed(ctx, FirstPoison(rs, result))
  <1> DEFINE P == {i \in DOMAIN rs : IsPoison(rs[i])}
  <1>1. P \in SUBSET Nat /\ P \subseteq 1 .. N
    OBVIOUS
  <1>2. FirstPoison(rs, result) = IF P # {} THEN rs[Min(P)] ELSE result
    BY DEF FirstPoison
  <1> HIDE DEF P
  <1>3. P # {} => Min(P) \in 1 .. N
    BY <1>1, MinIsLeast
  <1> QED
    BY <1>2, <1>3

LEMMA ModuleValuesAreTyped ==
    ASSUME NEW ctx, NEW v \in ModuleValues \cup {Undefined}
    PROVE  Typed(ctx, v) /\ Typed(ctx, Scalar(v))
  <1>1. ASSUME NEW p \in {VarNeeded, Timeout}
        PROVE  p \notin ModuleValues
    <2>1. DOMAIN p = {"poison"}
      BY DEF VarNeeded, Timeout, Poison
    <2>2. p \notin BoundValue
      BY DEF BoundValue, VarNeeded, Timeout, Poison
    <2>3. p \notin [array : Seq(BoundValue)]
      <3>1. \A x \in [array : Seq(BoundValue)] : DOMAIN x = {"array"}
        OBVIOUS
      <3> QED
        BY <2>1, <3>1
    <2>4. p \notin [dict : Seq(Seq(BoundValue))]
      <3>1. \A x \in [dict : Seq(Seq(BoundValue))] : DOMAIN x = {"dict"}
        OBVIOUS
      <3> QED
        BY <2>1, <3>1
    <2> QED
      BY <2>2, <2>3, <2>4 DEF ModuleValues
  <1>2. Typed(ctx, v)
    BY <1>1, TypedFacts DEF Outcome, Typed
  <1> QED
    BY <1>2, TypedFacts DEF Scalar

LEMMA TypedModule ==
    ASSUME NEW ctx, ContextOK(ctx), NEW g, WellTyped(ctx, g),
           NEW e \in Expression, NEW env \in Env, e \notin ctx.expired,
           e.op = "module"
    PROVE  Typed(ctx, evaluate_expr(ctx, g, e, env))
  <1>1. e.args \in Seq(Expression)
    BY ExpressionsAssumption DEF ExpressionOK
  <1> DEFINE rs == Vals(g, e.args, env)
             N == Len(e.args)
  <1>2. N \in Nat /\ DOMAIN rs = 1 .. N
    BY <1>1 DEF Vals
  <1>3. \A i \in 1 .. N : Typed(ctx, rs[i])
    <2>1. \A i \in 1 .. N : e.args[i] \in Expression
      BY <1>1, ElementOfSeq
    <2> QED
      BY <1>1, <2>1 DEF Vals, WellTyped
  <1>4. Typed(ctx, ModuleResult(ctx, e, env))
    <2>1. CASE e.bound
      <3>1. env.stack \in Seq(BoundValue)
        BY DEF Env
      <3>2. e.index \in DOMAIN env.stack => env.stack[e.index] \in BoundValue
        BY <3>1, ElementOfSeq
      <3> QED
        BY <2>1, <3>2, TypedFacts DEF ModuleResult, ValueAt
    <2>2. CASE ~e.bound
      <3>1. ValueAt(ctx.modules, e.index) \in ModuleValues \cup {Undefined}
        BY DEF ContextOK, ValueAt
      <3> QED
        BY <2>2, <3>1, ModuleValuesAreTyped DEF ModuleResult
    <2> QED
      BY <2>1, <2>2
  <1>5. evaluate_expr(ctx, g, e, env) = FirstPoison(rs, ModuleResult(ctx, e, env))
    BY LoopArms
  <1> HIDE DEF rs, N
  <1> QED
    BY <1>2, <1>3, <1>4, <1>5, TypedFirstPoison

\* A loop that knows the matches never waits for them.
Ready(sel) == sel \in Selector /\ (sel.kind = "number" => sel.n > 0)

LoopTyped(ctx, l) ==
    \E a \in Selector, m \in Nat : \E x :
       /\ l = LoopState(a, m, x)
       /\ x # Going => Typed(ctx, x)
       /\ x = Going /\ ctx.var_matches.known => m = 0 /\ Ready(a)

TypedItem(ctx, v) == Typed(ctx, v) \/ \E p \in Poisons : v = Abort(p) /\ Typed(ctx, p)

LEMMA LoopTypedStep ==
    ASSUME NEW ctx, NEW l, LoopTyped(ctx, l), NEW v, TypedItem(ctx, v)
    PROVE  LoopTyped(ctx, Advance(l, v))
  <1>1. PICK a \in Selector, m \in Nat : \E x :
           /\ l = LoopState(a, m, x)
           /\ x # Going => Typed(ctx, x)
           /\ x = Going /\ ctx.var_matches.known => m = 0 /\ Ready(a)
    BY DEF LoopTyped
  <1>2. PICK x : /\ l = LoopState(a, m, x)
                 /\ x # Going => Typed(ctx, x)
                 /\ x = Going /\ ctx.var_matches.known => m = 0 /\ Ready(a)
    BY <1>1
  <1> DEFINE next == Advance(LoopState(a, m, x), v)
  <1>3. CASE x # Going
    <2>1. next = l
      BY <1>2, <1>3, AdvanceStops
    <2> QED
      BY <1>2, <2>1
  <1>4. ASSUME NEW y, Typed(ctx, y), next = LoopState(a, m, y)
        PROVE  LoopTyped(ctx, next)
    <2>1. y # Going
      BY <1>4, Shapes DEF Typed
    <2> HIDE DEF next
    <2> QED
      BY <1>4, <2>1 DEF LoopTyped
  <1>5. ASSUME x = Going, next = LoopState(a, m, Going)
        PROVE  LoopTyped(ctx, next)
    <2> HIDE DEF next
    <2> QED
      BY <1>2, <1>5 DEF LoopTyped
  <1>6. CASE x = Going /\ (\E p \in Poisons : v = Abort(p) /\ Typed(ctx, p))
    <2>1. PICK p \in Poisons : v = Abort(p) /\ Typed(ctx, p)
      BY <1>6
    <2>2. next = LoopState(a, m, p)
      BY <1>6, <2>1, AdvanceStops, AbortFacts
    <2>3. LoopTyped(ctx, next)
      BY <1>4, <2>1, <2>2
    <2> QED
      BY <1>2, <2>3
  <1>7. CASE x = Going /\ Typed(ctx, v)
    <2>0. ~Has(v, "abort")
      BY <1>7, Shapes DEF Typed, Has
    <2>1. CASE v \in Fatal
      <3>1. next = LoopState(a, m, v)
        BY <1>7, <2>0, <2>1, AdvanceStops
      <3>2. LoopTyped(ctx, next)
        BY <1>4, <1>7, <3>1
      <3> QED
        BY <1>2, <3>2
    <2>2. CASE v = VarNeeded
      <3>1. ~ctx.var_matches.known
        BY <1>7, <2>2 DEF Typed
      <3>2. next = LoopState(a, m + 1, Going) /\ m + 1 \in Nat
        BY <1>7, <2>0, <2>2, AdvanceStops
      <3> HIDE DEF next
      <3>3. LoopTyped(ctx, next)
        BY <3>1, <3>2 DEF LoopTyped
      <3> QED
        BY <1>2, <3>3 DEF next
    <2>3. CASE v \notin Fatal /\ v # VarNeeded
      <3>0. Typed(ctx, Yes) /\ Typed(ctx, No)
        BY TypedFacts DEF Yes, No
      <3>1. CASE a.kind # "number"
        <4>1. next = LoopState(a, m, Going) \/ next = LoopState(a, m, No)
          BY <1>7, <2>0, <2>3, <3>1, AdvanceCounts, SelectorFacts
        <4> QED
          BY <1>2, <1>4, <1>5, <1>7, <3>0, <4>1
      <3>2. CASE a.kind = "number" /\ ~IsTrue(v)
        BY <1>2, <1>5, <1>7, <2>0, <2>3, <3>2, AdvanceCounts
      <3>3. CASE a.kind = "number" /\ IsTrue(v)
        <4>1. next = LoopState(Down(a), m, IF Down(a).n = 0 THEN Yes ELSE Going)
          BY <1>7, <2>0, <2>3, <3>3, AdvanceCounts
        <4>2. Down(a) \in Selector /\ Down(a).n \in Nat
          BY SelectorFacts
        <4>3. CASE Down(a).n = 0
          <5>1. next = LoopState(Down(a), m, Yes) /\ Yes # Going
            BY <4>1, <4>3, ValueFacts
          <5> HIDE DEF next
          <5>2. LoopTyped(ctx, next)
            BY <3>0, <4>2, <5>1 DEF LoopTyped
          <5> QED
            BY <1>2, <5>2 DEF next
        <4>4. CASE Down(a).n # 0
          <5>1. next = LoopState(Down(a), m, Going) /\ Ready(Down(a))
            BY <4>1, <4>2, <4>4 DEF Ready
          <5> HIDE DEF next
          <5>2. LoopTyped(ctx, next)
            BY <1>2, <1>7, <4>2, <5>1 DEF LoopTyped
          <5> QED
            BY <1>2, <5>2 DEF next
        <4> QED
          BY <4>3, <4>4
      <3> QED
        BY <3>1, <3>2, <3>3
    <2> QED
      BY <2>1, <2>2, <2>3
  <1> QED
    BY <1>2, <1>3, <1>6, <1>7 DEF TypedItem

LEMMA TypedLoop ==
    ASSUME NEW ctx, NEW N \in Nat, NEW selector, Ready(selector),
           NEW rs, Len(rs) = N, \A i \in 1 .. N : TypedItem(ctx, rs[i])
    PROVE  Typed(ctx, ForLoopResult(selector, rs))
  <1>0. selector \in Selector
    BY DEF Ready
  <1>1. PICK f : IsRun(selector, rs, f) /\ ForLoopResult(selector, rs) = LoopEnd(f[N])
    BY LoopSteps
  <1> DEFINE S == {i \in Nat : i <= N => LoopTyped(ctx, f[i])}
  <1>2. 0 \in S
    <2>1. f[0] = LoopState(selector, 0, Going)
      BY <1>1 DEF IsRun, LoopStart, LoopState
    <2> QED
      BY <1>0, <2>1 DEF LoopTyped
  <1>3. ASSUME NEW i \in Nat, i \in S
        PROVE  i + 1 \in S
    <2> SUFFICES ASSUME i + 1 <= N
                 PROVE  LoopTyped(ctx, f[i + 1])
      OBVIOUS
    <2>1. f[i + 1] = Advance(f[i], rs[i + 1])
      <3>1. i + 1 \in 1 .. Len(rs) /\ (i + 1) - 1 = i
        OBVIOUS
      <3> QED
        BY <1>1, <3>1 DEF IsRun
    <2>2. TypedItem(ctx, rs[i + 1])
      <3>1. i + 1 \in 1 .. N
        OBVIOUS
      <3> QED
        BY <3>1
    <2>3. LoopTyped(ctx, f[i])
      BY <1>3
    <2> QED
      BY <2>1, <2>2, <2>3, LoopTypedStep
  <1>4. Nat \subseteq S
    <2> HIDE DEF S
    <2> QED
      BY <1>2, <1>3, SetInduction
  <1>5. LoopTyped(ctx, f[N])
    BY <1>4
  <1>6. PICK a \in Selector, m \in Nat : \E x :
           /\ f[N] = LoopState(a, m, x)
           /\ x # Going => Typed(ctx, x)
           /\ x = Going /\ ctx.var_matches.known => m = 0 /\ Ready(a)
    BY <1>5 DEF LoopTyped
  <1>7. PICK x : /\ f[N] = LoopState(a, m, x)
                 /\ x # Going => Typed(ctx, x)
                 /\ x = Going /\ ctx.var_matches.known => m = 0 /\ Ready(a)
    BY <1>6
  <1>8. LoopEnd(f[N]) =
           IF x # Going THEN x
           ELSE IF (a.kind = "number" /\ m >= a.n) \/ (a.kind # "number" /\ m > 0)
           THEN VarNeeded ELSE IF a.kind = "number" THEN No ELSE Yes
    BY <1>7, LoopEndIs
  <1>9. Typed(ctx, Yes) /\ Typed(ctx, No)
    BY TypedFacts DEF Yes, No
  <1>10. CASE x # Going
    BY <1>1, <1>7, <1>8, <1>10
  <1>11. CASE x = Going /\ ctx.var_matches.known
    <2>1. a.n \in Nat
      BY SelectorFacts
    <2>2. LoopEnd(f[N]) = No \/ LoopEnd(f[N]) = Yes
      BY <1>7, <1>8, <1>11, <2>1 DEF Ready
    <2> QED
      BY <1>1, <1>9, <2>2
  <1>12. CASE x = Going /\ ~ctx.var_matches.known
    <2>1. LoopEnd(f[N]) = VarNeeded \/ LoopEnd(f[N]) = No \/ LoopEnd(f[N]) = Yes
      BY <1>8, <1>12
    <2> QED
      BY <1>1, <1>9, <1>12, <2>1, TypedFacts
  <1> QED
    BY <1>10, <1>11, <1>12

\* The selection of a for is a selector to reach, or the value of the whole for.
Selection(ctx, sel) == Ready(sel) \/ Typed(ctx, sel)

LEMMA SelectionFacts ==
    ASSUME NEW ctx, NEW sel
    PROVE  /\ Ready(sel) => "kind" \in DOMAIN sel
           /\ Typed(ctx, sel) => "kind" \notin DOMAIN sel
  <1>1. Ready(sel) => "kind" \in DOMAIN sel
    BY DEF Ready, Selector
  <1>2. Typed(ctx, sel) => "kind" \notin DOMAIN sel
    BY Shapes DEF Typed
  <1> QED
    BY <1>1, <1>2

LEMMA ReadySelectors ==
    /\ Ready(All) /\ Ready(None)
    /\ \A k \in Nat \ {0} : Ready(Number(k))
  <1>1. ASSUME NEW k \in Nat \ {0}
        PROVE  Ready(Number(k))
    <2>1. Number(k).n = k
      BY DEF Number
    <2> QED
      BY <2>1, SelectorFacts DEF Ready
  <1>2. Ready(All) /\ Ready(None)
    BY SelectorFacts DEF Ready, All, None
  <1> QED
    BY <1>1, <1>2

LEMMA TypedSelection ==
    ASSUME NEW ctx, NEW g, WellTyped(ctx, g), NEW e \in Expression, NEW env \in Env,
           SelectionOK(e.selection), NEW n \in Nat
    PROVE  Selection(ctx, SelectionOf(g, e, env, n))
  <1> DEFINE s == e.selection
             value == Num(g, s.expr, env)
  <1>1. SelectionOf(g, e, env, n) = ForSelectionOf(s, value, n)
    BY DEF SelectionOf
  <1>2. /\ s.kind = "any" => ForSelectionOf(s, value, n) = Number(1)
        /\ s.kind = "all" => ForSelectionOf(s, value, n) = All
        /\ s.kind = "none" => ForSelectionOf(s, value, n) = None
        /\ s.kind = "expr" =>
              ForSelectionOf(s, value, n) = ForExprSelection(s, value, n)
    BY DEF ForSelectionOf
  <1>3. CASE s.kind # "expr"
    <2>1. ForSelectionOf(s, value, n) \in {Number(1), All, None}
      BY <1>2, <1>3 DEF SelectionOK
    <2>2. 1 \in Nat \ {0}
      OBVIOUS
    <2> HIDE DEF value
    <2> QED
      BY <1>1, <2>1, <2>2, ReadySelectors DEF Selection
  <1>4. CASE s.kind = "expr"
    <2>1. /\ Typed(ctx, value)
          /\ ~IsPoison(value) => value.int \in Int
      <3>1. s.expr \in Expression
        BY <1>4 DEF SelectionOK
      <3> QED
        BY <3>1, TypedUnwrap DEF WellTyped, Num
    <2>2. Typed(ctx, Boolean(FALSE)) /\ Typed(ctx, Boolean(TRUE))
      BY TypedFacts
    <2> HIDE DEF value
    <2> DEFINE ceil == -((-(value.int * n)) \div 100)
               k == IF s.as_percent THEN ceil ELSE value.int
               result == ForExprSelection(s, value, n)
    <2>3. \/ result = Boolean(FALSE)
          \/ IsPoison(value) /\ result = value
          \/ result = None
          \/ ~IsPoison(value) /\ result = (IF k <= 0 THEN Boolean(TRUE) ELSE Number(k))
      <3> HIDE DEF k
      <3>1. CASE IsPoison(value)
        BY <3>1 DEF ForExprSelection
      <3>2. CASE ~IsPoison(value)
        <4>1. value # Undefined
          BY <3>2, PoisonFacts
        <4> QED
          BY <3>2, <4>1 DEF ForExprSelection, k
      <3> QED
        BY <3>1, <3>2
    <2>4. ~IsPoison(value) => k \in Int
      <3>1. ASSUME ~IsPoison(value)
            PROVE  ceil \in Int
        <4>1. value.int * n \in Int
          BY <2>1, <3>1
        <4>2. \A i \in Int : -((-i) \div 100) \in Int
          OBVIOUS
        <4> QED
          BY <4>1, <4>2
      <3> HIDE DEF ceil
      <3> QED
        BY <2>1, <3>1
    <2> HIDE DEF k, result
    <2>5. ~IsPoison(value) /\ ~(k <= 0) => Ready(Number(k))
      BY <2>4, ReadySelectors
    <2>6. Selection(ctx, result)
      BY <2>1, <2>2, <2>3, <2>5, ReadySelectors DEF Selection
    <2> QED
      BY <1>1, <1>2, <1>4, <2>6 DEF result
  <1> QED
    BY <1>3, <1>4

LEMMA TypedWithSelection ==
    ASSUME NEW ctx, NEW sel, Selection(ctx, sel), NEW N \in Nat, NEW rs, Len(rs) = N,
           \A i \in 1 .. N : TypedItem(ctx, rs[i])
    PROVE  Typed(ctx, WithSelection(sel, rs))
  <1>1. CASE Ready(sel)
    BY <1>1, SelectionFacts, TypedLoop DEF WithSelection
  <1>2. CASE Typed(ctx, sel)
    BY <1>2, SelectionFacts DEF WithSelection
  <1> QED
    BY <1>1, <1>2 DEF Selection

LEMMA LenOfDomain ==
    ASSUME NEW s, NEW N \in Nat, DOMAIN s = 1 .. N
    PROVE  Len(s) = N
  OBVIOUS

LEMMA TypedFor ==
    ASSUME NEW ctx, ContextOK(ctx), NEW g, WellTyped(ctx, g),
           NEW e \in Expression, NEW env \in Env, e \notin ctx.expired, e.op = "for"
    PROVE  Typed(ctx, evaluate_expr(ctx, g, e, env))
  <1>1. SelectionOK(e.selection) /\ e.set \in Seq(Nat) /\ e.body \in Expression
    BY ExpressionsAssumption DEF ExpressionOK
  <1> DEFINE rs == ForBodies(g, e, env)
             N == Len(e.set)
             sel == SelectionOf(g, e, env, N)
  <1>2. N \in Nat /\ DOMAIN rs = 1 .. N
    BY <1>1 DEF ForBodies
  <1>3. ASSUME NEW i \in 1 .. N
        PROVE  TypedItem(ctx, rs[i])
    <2>1. e.set[i] \in Nat
      BY <1>1, ElementOfSeq
    <2>2. [env EXCEPT !.selected = e.set[i]] \in Env
      BY <2>1 DEF Env
    <2>3. rs[i] = g[e.body][[env EXCEPT !.selected = e.set[i]]]
      BY <1>1 DEF ForBodies
    <2> QED
      BY <1>1, <2>2, <2>3 DEF WellTyped, TypedItem
  <1>4. Selection(ctx, sel)
    BY <1>1, <1>2, TypedSelection
  <1>5. evaluate_expr(ctx, g, e, env) = WithSelection(sel, rs)
    BY LoopArms
  <1> HIDE DEF rs, N, sel
  <1>6. Len(rs) = N
    BY <1>2, LenOfDomain
  <1> QED
    BY <1>2, <1>3, <1>4, <1>5, <1>6, TypedWithSelection

LEMMA TypedForRules ==
    ASSUME NEW ctx, ContextOK(ctx), NEW g, WellTyped(ctx, g),
           NEW e \in Expression, NEW env \in Env, e \notin ctx.expired,
           e.op = "for_rules"
    PROVE  Typed(ctx, evaluate_expr(ctx, g, e, env))
  <1>1. SelectionOK(e.selection) /\ e.set \in Seq(Nat) /\ e.already_matched \in Nat
    BY ExpressionsAssumption DEF ExpressionOK
  <1> DEFINE rs == ForRulesBodies(ctx, e)
             N == e.already_matched + Len(e.set)
             sel == SelectionOf(g, e, env, Len(e.set) + e.already_matched)
  <1>2. N \in Nat /\ DOMAIN rs = 1 .. N /\ Len(e.set) + e.already_matched \in Nat
    BY <1>1 DEF ForRulesBodies
  <1>3. ASSUME NEW i \in 1 .. N
        PROVE  TypedItem(ctx, rs[i])
    <2>1. rs[i] = Yes \/ rs[i] = PreviousResult(ctx, e.set[i - e.already_matched])
      BY DEF ForRulesBodies, Yes
    <2>2. Typed(ctx, Yes)
      BY TypedFacts DEF Yes
    <2> QED
      BY <2>1, <2>2, TypedPrevious DEF TypedItem
  <1>4. Selection(ctx, sel)
    BY <1>1, <1>2, TypedSelection
  <1>5. evaluate_expr(ctx, g, e, env) = WithSelection(sel, rs)
    BY LoopArms
  <1> HIDE DEF rs, N, sel
  <1>6. Len(rs) = N
    BY <1>2, LenOfDomain
  <1> QED
    BY <1>2, <1>3, <1>4, <1>5, <1>6, TypedWithSelection

\* What a ForIdentifiers walks: bindings of values, and poisons.
ItemOK(ctx, item) ==
    \/ \E p \in Poisons : item = Abort(p) /\ Typed(ctx, p)
    \/ \E values \in Seq(BoundValue) : item = Binding(values)

WalkOK(ctx, items) ==
    \E N \in Nat : DOMAIN items = 1 .. N /\ \A i \in 1 .. N : ItemOK(ctx, items[i])

LEMMA TypedModuleElements ==
    ASSUME NEW ctx, NEW v, Typed(ctx, v)
    PROVE  WalkOK(ctx, ModuleElements(v))
  <1> DEFINE items == ModuleElements(v)
  <1>1. CASE Has(v, "array")
    <2>1. v.array \in Seq(BoundValue)
      BY <1>1, Shapes DEF Typed
    <2>2. items = [i \in DOMAIN v.array |-> Binding(<<v.array[i]>>)]
      BY <1>1, OneShape DEF ModuleElements, Typed
    <2>3. ASSUME NEW i \in 1 .. Len(v.array)
          PROVE  ItemOK(ctx, items[i])
      <3>1. v.array[i] \in BoundValue
        BY <2>1, ElementOfSeq
      <3>2. <<v.array[i]>> \in Seq(BoundValue)
        BY <3>1
      <3>3. items[i] = Binding(<<v.array[i]>>)
        BY <2>1, <2>2
      <3> QED
        BY <3>2, <3>3 DEF ItemOK
    <2>4. Len(v.array) \in Nat /\ DOMAIN items = 1 .. Len(v.array)
      BY <2>1, <2>2
    <2> QED
      BY <2>3, <2>4 DEF WalkOK
  <1>2. CASE Has(v, "dict") /\ ~Has(v, "array")
    <2>1. v.dict \in Seq(Seq(BoundValue))
      BY <1>2, Shapes DEF Typed
    <2>2. items = [i \in DOMAIN v.dict |-> Binding(v.dict[i])]
      BY <1>2 DEF ModuleElements
    <2>3. ASSUME NEW i \in 1 .. Len(v.dict)
          PROVE  ItemOK(ctx, items[i])
      <3>1. v.dict[i] \in Seq(BoundValue)
        BY <2>1, ElementOfSeq
      <3>2. items[i] = Binding(v.dict[i])
        BY <2>1, <2>2
      <3> QED
        BY <3>1, <3>2 DEF ItemOK
    <2>4. Len(v.dict) \in Nat /\ DOMAIN items = 1 .. Len(v.dict)
      BY <2>1, <2>2
    <2> QED
      BY <2>3, <2>4 DEF WalkOK
  <1>3. CASE ~Has(v, "array") /\ ~Has(v, "dict")
    <2> DEFINE p == IF IsPoison(v) THEN v ELSE Undefined
    <2>1. items = <<Abort(p)>>
      BY <1>3 DEF ModuleElements
    <2>2. p \in Poisons /\ Typed(ctx, p)
      BY TypedFacts, PoisonFacts, Shapes DEF Typed
    <2> HIDE DEF items, p
    <2>3. DOMAIN items = 1 .. 1 /\ items[1] = Abort(p)
      BY <2>1
    <2>4. \A i \in 1 .. 1 : ItemOK(ctx, items[i])
      BY <2>2, <2>3 DEF ItemOK
    <2> QED
      BY <2>3, <2>4 DEF WalkOK, items
  <1> QED
    BY <1>1, <1>2, <1>3

LEMMA TypedRangeElements ==
    ASSUME NEW ctx, NEW from, NEW to, Typed(ctx, from), Typed(ctx, to),
           ~IsPoison(from) => from.int \in Int, ~IsPoison(to) => to.int \in Int
    PROVE  WalkOK(ctx, RangeElements(from, to))
  <1> DEFINE items == RangeElements(from, to)
  <1>1. ASSUME NEW p \in Poisons, Typed(ctx, p), items = <<Abort(p)>>
        PROVE  WalkOK(ctx, items)
    <2> HIDE DEF items
    <2>1. DOMAIN items = 1 .. 1 /\ items[1] = Abort(p)
      BY <1>1
    <2>2. \A i \in 1 .. 1 : ItemOK(ctx, items[i])
      BY <1>1, <2>1 DEF ItemOK
    <2> QED
      BY <2>1, <2>2 DEF WalkOK
  <1>2. CASE IsPoison(from)
    <2>1. items = <<Abort(from)>> /\ from \in Poisons
      BY <1>2, Shapes DEF RangeElements, Typed
    <2> QED
      BY <1>1, <2>1
  <1>3. CASE ~IsPoison(from) /\ IsPoison(to)
    <2>1. items = <<Abort(to)>> /\ to \in Poisons
      BY <1>3, Shapes DEF RangeElements, Typed
    <2> QED
      BY <1>1, <2>1
  <1>4. CASE ~IsPoison(from) /\ ~IsPoison(to) /\ from.int > to.int
    <2>1. items = <<Abort(Undefined)>>
      BY <1>4 DEF RangeElements
    <2> QED
      BY <1>1, <2>1, TypedFacts, PoisonFacts
  <1>5. CASE ~IsPoison(from) /\ ~IsPoison(to) /\ ~(from.int > to.int)
    <2> DEFINE N == to.int - from.int + 1
    <2>1. N \in Nat
      BY <1>5
    <2>2. items = [i \in 1 .. N |-> Binding(<<Integer(from.int + i - 1)>>)]
      BY <1>5 DEF RangeElements
    <2>3. ASSUME NEW i \in 1 .. N
          PROVE  ItemOK(ctx, items[i])
      <3>1. from.int + i - 1 \in Int
        BY <1>5
      <3>2. Integer(from.int + i - 1) \in BoundValue
        BY <3>1 DEF Integer, BoundValue
      <3>3. <<Integer(from.int + i - 1)>> \in Seq(BoundValue)
        BY <3>2
      <3>4. items[i] = Binding(<<Integer(from.int + i - 1)>>)
        BY <2>2
      <3> QED
        BY <3>3, <3>4 DEF ItemOK
    <2>4. DOMAIN items = 1 .. N
      BY <2>2
    <2> QED
      BY <2>1, <2>3, <2>4 DEF WalkOK
  <1> QED
    BY <1>2, <1>3, <1>4, <1>5

LEMMA TypedListElement ==
    ASSUME NEW ctx, NEW v, Typed(ctx, v)
    PROVE  ItemOK(ctx, ListElement(v))
  <1>1. CASE IsPoison(v)
    <2>1. ListElement(v) = Abort(v) /\ v \in Poisons
      BY <1>1, Shapes, OneShape DEF ListElement, Typed
    <2> QED
      BY <2>1 DEF ItemOK
  <1>2. CASE ~IsPoison(v) /\ (Has(v, "int") \/ Has(v, "bytes"))
    <2>1. v \in BoundValue
      BY <1>2, Shapes DEF Typed, BoundValue
    <2>2. <<v>> \in Seq(BoundValue)
      BY <2>1
    <2>3. ListElement(v) = Binding(<<v>>)
      BY <1>2 DEF ListElement
    <2> QED
      BY <2>2, <2>3 DEF ItemOK
  <1>3. CASE ~IsPoison(v) /\ ~(Has(v, "int") \/ Has(v, "bytes"))
    <2>1. ListElement(v) = Abort(Undefined)
      BY <1>3 DEF ListElement
    <2> QED
      BY <2>1, TypedFacts, PoisonFacts DEF ItemOK
  <1> QED
    BY <1>1, <1>2, <1>3

LEMMA TypedItems ==
    ASSUME NEW ctx, NEW g, WellTyped(ctx, g), NEW e \in Expression, NEW env \in Env,
           e.op = "for_in"
    PROVE  WalkOK(ctx, ItemsOf(g, e, env))
  <1>0. ExpressionOK(e)
    BY ExpressionsAssumption
  <1>1. CASE e.iterator = "module" /\ e.module \in Expression
    <2>1. Typed(ctx, Val(g, e.module, env))
      BY <1>1 DEF WellTyped, Val
    <2> QED
      BY <1>1, <2>1, TypedModuleElements DEF ItemsOf
  <1>2. CASE e.iterator = "list" /\ e.items \in Seq(Expression)
    <2> DEFINE vs == Vals(g, e.items, env)
    <2>1. ItemsOf(g, e, env) = [i \in DOMAIN vs |-> ListElement(vs[i])]
      BY <1>2 DEF ItemsOf, ListElements
    <2>2. DOMAIN vs = 1 .. Len(e.items) /\ Len(e.items) \in Nat
      BY <1>2 DEF Vals
    <2>3. ASSUME NEW i \in 1 .. Len(e.items)
          PROVE  ItemOK(ctx, ListElement(vs[i]))
      <3>1. e.items[i] \in Expression
        BY <1>2, ElementOfSeq
      <3>2. vs[i] = g[e.items[i]][env]
        BY <1>2 DEF Vals
      <3> QED
        BY <3>1, <3>2, TypedListElement DEF WellTyped
    <2> HIDE DEF vs
    <2> QED
      BY <2>1, <2>2, <2>3 DEF WalkOK
  <1>3. CASE e.iterator = "range" /\ e.items \in Seq(Expression) /\ Len(e.items) = 2
    <2> DEFINE from == Num(g, e.items[1], env)
               to == Num(g, e.items[2], env)
    <2>1. ItemsOf(g, e, env) = RangeElements(from, to)
      <3>1. Vals(g, e.items, env)[1] = g[e.items[1]][env]
            /\ Vals(g, e.items, env)[2] = g[e.items[2]][env]
        BY <1>3 DEF Vals
      <3> QED
        BY <1>3, <3>1 DEF ItemsOf, ListElements, Num
    <2>2. e.items[1] \in Expression /\ e.items[2] \in Expression
      BY <1>3
    <2>3. /\ Typed(ctx, from) /\ Typed(ctx, to)
          /\ ~IsPoison(from) => from.int \in Int
          /\ ~IsPoison(to) => to.int \in Int
      BY <2>2, TypedUnwrap DEF WellTyped, Num
    <2> HIDE DEF from, to
    <2> QED
      BY <2>1, <2>3, TypedRangeElements
  <1> QED
    BY <1>0, <1>1, <1>2, <1>3 DEF ExpressionOK

LEMMA ItemFacts ==
    ASSUME NEW ctx, NEW item, ItemOK(ctx, item)
    PROVE  /\ Has(item, "abort") =>
                 \E p \in Poisons : item = Abort(p) /\ Typed(ctx, p)
           /\ ~Has(item, "abort") => item.binds \in Seq(BoundValue)
  <1>1. \A values : ~Has(Binding(values), "abort") /\ Binding(values).binds = values
    BY DEF Has, Binding
  <1> QED
    BY <1>1, AbortFacts DEF ItemOK

\* The bodies of a ForIdentifiers: a poison of the walk, or the value of the body
\* in the frame that holds the element.
Inner(env, item) == [env EXCEPT !.stack = @ \o item.binds]

LEMMA BodyAborts ==
    ASSUME NEW ctx, NEW item, ItemOK(ctx, item), Has(item, "abort")
    PROVE  /\ \A g, e, env : BodyOf(g, e, env, item) = item
           /\ TypedItem(ctx, item)
  BY ItemFacts DEF BodyOf, TypedItem

LEMMA BodyBinds ==
    ASSUME NEW ctx, NEW env \in Env, NEW item, ItemOK(ctx, item), ~Has(item, "abort")
    PROVE  /\ \A g, e : BodyOf(g, e, env, item) = g[e.body][Inner(env, item)]
           /\ Inner(env, item) \in Env
  <1>1. item.binds \in Seq(BoundValue)
    BY ItemFacts
  <1>2. env.stack \o item.binds \in Seq(BoundValue)
    BY <1>1 DEF Env
  <1>3. Inner(env, item) \in Env
    BY <1>2 DEF Env, Inner
  <1> QED
    BY <1>3 DEF BodyOf, Inner

LEMMA TypedForIn ==
    ASSUME NEW ctx, NEW g, WellTyped(ctx, g),
           NEW e \in Expression, NEW env \in Env, e \notin ctx.expired,
           e.op = "for_in"
    PROVE  Typed(ctx, evaluate_expr(ctx, g, e, env))
  <1>1. SelectionOK(e.selection) /\ e.body \in Expression
    BY ExpressionsAssumption DEF ExpressionOK
  <1> DEFINE items == ItemsOf(g, e, env)
             rs == ForInBodies(g, e, env)
             sel == SelectionOf(g, e, env, 0)
  <1>2. PICK N \in Nat : DOMAIN items = 1 .. N
                         /\ \A i \in 1 .. N : ItemOK(ctx, items[i])
    BY TypedItems DEF WalkOK
  <1>3. DOMAIN rs = 1 .. N /\ \A i \in 1 .. N : rs[i] = BodyOf(g, e, env, items[i])
    BY <1>2 DEF ForInBodies
  <1> HIDE DEF items
  <1>4. ASSUME NEW i \in 1 .. N
        PROVE  TypedItem(ctx, rs[i])
    <2>1. ItemOK(ctx, items[i])
      BY <1>2
    <2>2. rs[i] = BodyOf(g, e, env, items[i])
      BY <1>3
    <2> HIDE DEF rs
    <2>3. CASE Has(items[i], "abort")
      <3>1. BodyOf(g, e, env, items[i]) = items[i] /\ TypedItem(ctx, items[i])
        BY <2>1, <2>3, BodyAborts
      <3> QED
        BY <2>2, <3>1
    <2>4. CASE ~Has(items[i], "abort")
      <3>1. /\ BodyOf(g, e, env, items[i]) = g[e.body][Inner(env, items[i])]
            /\ Inner(env, items[i]) \in Env
        BY <2>1, <2>4, BodyBinds
      <3> QED
        BY <1>1, <2>2, <3>1 DEF TypedItem, WellTyped
    <2> QED
      BY <2>3, <2>4
  <1>5. Selection(ctx, sel)
    <2>1. 0 \in Nat
      OBVIOUS
    <2> QED
      BY <1>1, <2>1, TypedSelection
  <1>6. evaluate_expr(ctx, g, e, env) = UndefinedIsFalse(WithSelection(sel, rs))
    BY LoopArms
  <1> HIDE DEF rs, sel
  <1>7. Typed(ctx, WithSelection(sel, rs))
    <2>1. Len(rs) = N
      BY <1>3, LenOfDomain
    <2> QED
      BY <1>4, <1>5, <2>1, TypedWithSelection
  <1>8. Typed(ctx, Boolean(FALSE))
    BY TypedFacts
  <1> QED
    BY <1>6, <1>7, <1>8 DEF UndefinedIsFalse

\* The whole of evaluate_expr.
LEMMA TypedEvaluation ==
    ASSUME NEW ctx, ContextOK(ctx), NEW g, WellTyped(ctx, g),
           NEW e \in Expression, NEW env \in Env
    PROVE  Typed(ctx, evaluate_expr(ctx, g, e, env))
  <1>1. CASE e \in ctx.expired
    BY <1>1, Expired, TypedFacts
  <1>2. CASE e \notin ctx.expired
    <2>0. ExpressionOK(e)
      BY ExpressionsAssumption
    <2>1. CASE e.op \in {"filesize", "entrypoint", "integer", "bytes", "boolean",
                         "external", "rule"}
      BY <1>2, <2>1, TypedLeaves
    <2>2. CASE e.op \in {"read_integer", "variable", "count", "variable_at", "offset",
                         "length", "count_in", "variable_in"}
      BY <1>2, <2>2, TypedVariables
    <2>3. CASE e.op \in {"neg", "arith", "cmp", "eq", "string_op", "not", "defined"}
      BY <1>2, <2>3, TypedOperators
    <2>4. CASE e.op \in {"and", "or"}
      <3> DEFINE rs == Vals(g, e.ops, env)
                 N == Len(e.ops)
                 decider == (e.op = "or")
      <3>1. e.ops \in Seq(Expression)
        BY <2>0, <2>4 DEF ExpressionOK
      <3>2. N \in Nat /\ DOMAIN rs = 1 .. N
        BY <3>1 DEF Vals
      <3>3. \A i \in 1 .. N : Typed(ctx, rs[i])
        <4>1. \A i \in 1 .. N : e.ops[i] \in Expression
          BY <3>1, ElementOfSeq
        <4> QED
          BY <3>1, <4>1 DEF Vals, WellTyped
      <3>4. evaluate_expr(ctx, g, e, env) = Connective(rs, decider)
        BY <1>2, <2>4, ConnectiveArms
      <3>5. decider \in BOOLEAN
        OBVIOUS
      <3> HIDE DEF rs, N, decider
      <3> QED
        BY <3>2, <3>3, <3>4, <3>5, TypedConnective
    <2>5. CASE e.op = "module"
      BY <1>2, <2>5, TypedModule
    <2>6. CASE e.op = "for"
      BY <1>2, <2>6, TypedFor
    <2>7. CASE e.op = "for_in"
      BY <1>2, <2>7, TypedForIn
    <2>8. CASE e.op = "for_rules"
      BY <1>2, <2>8, TypedForRules
    <2> QED
      BY <2>0, <2>1, <2>2, <2>3, <2>4, <2>5, <2>6, <2>7, <2>8 DEF ExpressionOK
  <1> QED
    BY <1>1, <1>2

-----------------------------------------------------------------------------
(* The two evaluations of the expressions that loop. *)

\* The integers that always have a value, once the matches are known: literals,
\* counts of a named variable, and what is computed from them without a division
\* or a shift.
IntegerSet(S) ==
    \A x \in S :
       \/ x.op = "integer"
       \/ x.op = "count" /\ x.var # 0
       \/ x.op = "neg" /\ x.e \in S
       \/ x.op = "arith" /\ x.fn \in {"add", "sub", "mul"} /\ {x.l, x.r} \subseteq S

\* In the lists that a for walks, the items after the first one are such integers,
\* those of S, or byte strings.
ListsDefinedBy(S) ==
    /\ S \subseteq Expression /\ IntegerSet(S)
    /\ \A e \in Expression :
          e.op = "for_in" /\ e.iterator = "list" =>
             \A i \in 2 .. Len(e.items) : e.items[i] \in S \/ e.items[i].op = "bytes"

ListsAreDefined == \E S : ListsDefinedBy(S)

\* Such an item has a value, or a poison of E.
HasValue(E, v) == v \in E \/ Has(v, "int") \/ Has(v, "bytes")
DefinedOn(E, S, g) ==
    /\ \A e \in S : \A env \in Env : g[e][env] \in E \/ Has(g[e][env], "int")
    /\ \A e \in Expression : e.op = "bytes" => \A env \in Env : HasValue(E, g[e][env])

LEMMA DefinedStep ==
    ASSUME NEW E, NEW F, Modes(E, F), VarNeeded \in E, NEW S, ListsDefinedBy(S),
           NEW ctx, NEW g, DefinedOn(E, S, g)
    PROVE  /\ \A e \in S : \A env \in Env :
                 \/ evaluate_expr(ctx, g, e, env) \in E
                 \/ Has(evaluate_expr(ctx, g, e, env), "int")
           /\ \A e \in Expression : e.op = "bytes" =>
                 \A env \in Env : HasValue(E, evaluate_expr(ctx, g, e, env))
  <1>0. Timeout \in E /\ Panic \in E /\ E \subseteq Poisons
    BY ModeFacts
  <1>1. \A n : Has(Integer(n), "int")
    BY DEF Has, Integer
  <1>2. ASSUME NEW e \in S, NEW env \in Env
        PROVE  \/ evaluate_expr(ctx, g, e, env) \in E
               \/ Has(evaluate_expr(ctx, g, e, env), "int")
    <2> DEFINE r == evaluate_expr(ctx, g, e, env)
    <2>1. CASE e \in ctx.expired
      BY <1>0, <2>1, Expired
    <2>2. CASE e \notin ctx.expired /\ e.op = "integer"
      BY <1>1, <2>2, LeafArms
    <2>3. CASE e \notin ctx.expired /\ e.op = "count" /\ e.var # 0
      <3> DEFINE v == VarIndex(e, env)
      <3>1. v # 0
        BY <2>3 DEF VarIndex
      <3>2. r = get_var_matches(ctx, v, Integer(Len(Matches(ctx, v))))
        BY <2>3, VariableArms
      <3> HIDE DEF r, v
      <3> QED
        BY <1>0, <1>1, <3>1, <3>2 DEF get_var_matches, r
    <2>4. CASE e \notin ctx.expired /\ e.op = "neg" /\ e.e \in S
      <3> DEFINE v == Val(g, e.e, env)
      <3>1. r = Negate(ctx, v)
        BY <2>4, OperatorArms
      <3>2. v \in E \/ Has(v, "int")
        BY <2>4 DEF DefinedOn, Val
      <3> HIDE DEF r, v
      <3>3. CASE v \in E
        BY <1>0, <3>1, <3>3, PoisonFacts DEF Negate, r
      <3>4. CASE v \notin E /\ Has(v, "int")
        BY <1>0, <1>1, <3>1, <3>4, PoisonFacts DEF Negate, r
      <3> QED
        BY <3>2, <3>3, <3>4
    <2>5. CASE e \notin ctx.expired /\ e.op = "arith"
               /\ e.fn \in {"add", "sub", "mul"} /\ {e.l, e.r} \subseteq S
      <3> DEFINE v == Val(g, e.l, env)
                 w == Val(g, e.r, env)
      <3>1. r = Strict(v, w, Calculated(e, v, w))
        BY <2>5, OperatorArms
      <3>2. (v \in E \/ Has(v, "int")) /\ (w \in E \/ Has(w, "int"))
        BY <2>5 DEF DefinedOn, Val
      <3> HIDE DEF r, v, w
      <3>3. Has(v, "int") /\ Has(w, "int") => Has(Calculated(e, v, w), "int")
        <4>1. \A n, m : Has(Arith(e.fn, n, m), "int")
          BY <1>1, <2>5 DEF Arith
        <4> QED
          BY <4>1 DEF Calculated
      <3>4. \A p \in Poisons : IsPoison(p) /\ ~Has(p, "int")
        BY PoisonFacts
      <3>5. CASE IsPoison(v)
        <4>1. r = v
          BY <3>1, <3>5 DEF Strict
        <4> QED
          BY <3>2, <4>1 DEF r
      <3>6. CASE ~IsPoison(v) /\ IsPoison(w)
        <4>1. r = w
          BY <3>1, <3>6 DEF Strict
        <4> QED
          BY <3>2, <4>1 DEF r
      <3>7. CASE ~IsPoison(v) /\ ~IsPoison(w)
        <4>1. r = Calculated(e, v, w) /\ Has(v, "int") /\ Has(w, "int")
          BY <1>0, <3>1, <3>2, <3>4, <3>7 DEF Strict
        <4> QED
          BY <3>3, <4>1 DEF r
      <3> QED
        BY <3>5, <3>6, <3>7
    <2> QED
      BY <2>1, <2>2, <2>3, <2>4, <2>5 DEF ListsDefinedBy, IntegerSet
  <1>3. ASSUME NEW e \in Expression, e.op = "bytes", NEW env \in Env
        PROVE  HasValue(E, evaluate_expr(ctx, g, e, env))
    <2>1. CASE e \in ctx.expired
      BY <1>0, <2>1, Expired DEF HasValue
    <2>2. CASE e \notin ctx.expired
      <3>1. \A s : Has(Bytes(s), "bytes")
        BY DEF Has, Bytes
      <3> QED
        BY <1>3, <2>2, <3>1, LeafArms DEF HasValue
    <2> QED
      BY <2>1, <2>2
  <1> QED
    BY <1>2, <1>3, Zenon

LEMMA AgreeModule ==
    ASSUME NEW E, NEW F, Modes(E, F), NEW c, NEW d, SameScan(E, F, c, d),
           NEW g, NEW h, AgreeOn(E, F, g, h),
           NEW e \in Expression, NEW env \in Env, e \notin c.expired, e \notin d.expired,
           e.op = "module"
    PROVE  Agree(E, F, evaluate_expr(c, g, e, env), evaluate_expr(d, h, e, env))
  <1>1. e.args \in Seq(Expression)
    BY ExpressionsAssumption DEF ExpressionOK
  <1> DEFINE rs == Vals(g, e.args, env)
             ss == Vals(h, e.args, env)
             N == Len(e.args)
  <1>2. N \in Nat /\ DOMAIN rs = 1 .. N /\ DOMAIN ss = 1 .. N
    BY <1>1 DEF Vals
  <1>3. \A i \in 1 .. N : Agree(E, F, rs[i], ss[i])
    <2>1. \A i \in 1 .. N : e.args[i] \in Expression
      BY <1>1, ElementOfSeq
    <2> QED
      BY <1>1, <2>1 DEF Vals, AgreeOn
  <1>4. ModuleResult(c, e, env) = ModuleResult(d, e, env)
    <2>1. c.modules = d.modules
      BY DEF SameScan
    <2> QED
      BY <2>1 DEF ModuleResult
  <1>5. evaluate_expr(c, g, e, env) = FirstPoison(rs, ModuleResult(c, e, env))
    BY LoopArms
  <1>6. evaluate_expr(d, h, e, env) = FirstPoison(ss, ModuleResult(c, e, env))
    BY <1>4, LoopArms
  <1> HIDE DEF rs, ss, N
  <1> QED
    BY <1>2, <1>3, <1>5, <1>6, AgreeFirstPoison

LEMMA AgreeSelection ==
    ASSUME NEW E, NEW F, Modes(E, F), NEW g, NEW h, AgreeOn(E, F, g, h),
           NEW e \in Expression, NEW env \in Env, SelectionOK(e.selection), NEW n
    PROVE  Agree(E, F, SelectionOf(g, e, env, n), SelectionOf(h, e, env, n))
  <1> DEFINE s == e.selection
             v == Num(g, s.expr, env)
             w == Num(h, s.expr, env)
  <1>1. \A x : /\ s.kind = "any" => ForSelectionOf(s, x, n) = Number(1)
               /\ s.kind = "all" => ForSelectionOf(s, x, n) = All
               /\ s.kind = "none" => ForSelectionOf(s, x, n) = None
               /\ s.kind = "expr" => ForSelectionOf(s, x, n) = ForExprSelection(s, x, n)
    BY DEF ForSelectionOf
  <1>2. /\ SelectionOf(g, e, env, n) = ForSelectionOf(s, v, n)
        /\ SelectionOf(h, e, env, n) = ForSelectionOf(s, w, n)
    BY DEF SelectionOf
  <1>3. CASE s.kind # "expr"
    <2> HIDE DEF v, w
    <2> QED
      BY <1>1, <1>2, <1>3 DEF SelectionOK, Agree
  <1>4. CASE s.kind = "expr"
    <2>1. Agree(E, F, v, w)
      <3>1. s.expr \in Expression
        BY <1>4 DEF SelectionOK
      <3> QED
        BY <3>1, AgreeUnwrap DEF AgreeOn, Num
    <2>2. \A p \in E \cup F : ForExprSelection(s, p, n) = p
      <3>1. \A p : IsPoison(p) /\ p # Undefined => ForExprSelection(s, p, n) = p
        BY DEF ForExprSelection
      <3> QED
        BY <3>1, ModeFacts
    <2> HIDE DEF v, w
    <2> QED
      BY <1>1, <1>2, <1>4, <2>1, <2>2 DEF Agree
  <1> QED
    BY <1>3, <1>4

LEMMA AgreeWithSelection ==
    ASSUME NEW E, NEW F, Modes(E, F), NEW c, NEW d,
           NEW sel1, NEW sel2, Selection(c, sel1), Agree(E, F, sel1, sel2), NEW rs, NEW ss,
           \A sel : Ready(sel) => Agree(E, F, ForLoopResult(sel, rs), ForLoopResult(sel, ss))
    PROVE  Agree(E, F, WithSelection(sel1, rs), WithSelection(sel2, ss))
  <1>1. \A p \in E \cup F : "kind" \notin DOMAIN p
    BY ModeFacts, PoisonFacts DEF Has
  <1>2. CASE sel1 \in E
    BY <1>1, <1>2 DEF WithSelection, Agree
  <1>3. CASE sel2 \in F
    BY <1>1, <1>3 DEF WithSelection, Agree
  <1>4. CASE sel1 = sel2 /\ Ready(sel1)
    BY <1>4, SelectionFacts DEF WithSelection
  <1>5. CASE sel1 = sel2 /\ Typed(c, sel1)
    BY <1>5, SelectionFacts DEF WithSelection, Agree
  <1> QED
    BY <1>2, <1>3, <1>4, <1>5 DEF Agree, Selection

\* The evaluations of the two passes, within the same number of nested ones.
Pair(E, F, S, c, d, g, h) ==
    /\ Modes(E, F) /\ SameScan(E, F, c, d)
    /\ ContextOK(c) /\ ContextOK(d)
    /\ WellTyped(c, g) /\ WellTyped(d, h) /\ AgreeOn(E, F, g, h)
    /\ VarNeeded \in E =>
          d.var_matches.known /\ ListsDefinedBy(S) /\ DefinedOn(E, S, g)

\* Two bodies that agree are elements of the loops that agree.
LEMMA BodiesAgree ==
    ASSUME NEW E, NEW F, NEW S, NEW c, NEW d, NEW g, NEW h, Pair(E, F, S, c, d, g, h),
           NEW x \in Expression, NEW env \in Env
    PROVE  /\ \A i : ItemAgree(E, F, i, g[x][env], h[x][env])
           /\ VarNeeded \in E => h[x][env] # VarNeeded
           /\ ~Has(g[x][env], "abort") /\ ~Has(h[x][env], "abort")
  <1> DEFINE v == g[x][env]
             w == h[x][env]
  <1>1. Typed(c, v) /\ Typed(d, w) /\ Agree(E, F, v, w)
    BY DEF Pair, WellTyped, AgreeOn
  <1>2. VarNeeded \in E => d.var_matches.known
    BY DEF Pair
  <1> HIDE DEF v, w
  <1>3. ~Has(v, "abort") /\ ~Has(w, "abort")
    BY <1>1, Shapes DEF Typed, Has
  <1>4. \A i : ItemAgree(E, F, i, v, w)
    BY <1>1, <1>3 DEF ItemAgree
  <1>5. VarNeeded \in E => w # VarNeeded
    BY <1>1, <1>2 DEF Typed
  <1> QED
    BY <1>3, <1>4, <1>5 DEF v, w

LEMMA AgreeFor ==
    ASSUME NEW E, NEW F, NEW S, NEW c, NEW d, NEW g, NEW h, Pair(E, F, S, c, d, g, h),
           NEW e \in Expression, NEW env \in Env, e \notin c.expired, e \notin d.expired,
           e.op = "for"
    PROVE  Agree(E, F, evaluate_expr(c, g, e, env), evaluate_expr(d, h, e, env))
  <1>1. SelectionOK(e.selection) /\ e.set \in Seq(Nat) /\ e.body \in Expression
    BY ExpressionsAssumption DEF ExpressionOK
  <1> DEFINE rs == ForBodies(g, e, env)
             ss == ForBodies(h, e, env)
             N == Len(e.set)
             sel1 == SelectionOf(g, e, env, N)
             sel2 == SelectionOf(h, e, env, N)
  <1>2. N \in Nat /\ DOMAIN rs = 1 .. N /\ DOMAIN ss = 1 .. N
    BY <1>1 DEF ForBodies
  <1>3. ASSUME NEW i \in 1 .. N
        PROVE  ItemAgree(E, F, i, rs[i], ss[i]) /\ (VarNeeded \in E => ss[i] # VarNeeded)
    <2> DEFINE inner == [env EXCEPT !.selected = e.set[i]]
    <2>1. e.set[i] \in Nat
      BY <1>1, ElementOfSeq
    <2>2. inner \in Env
      BY <2>1 DEF Env
    <2>3. rs[i] = g[e.body][inner] /\ ss[i] = h[e.body][inner]
      BY <1>1 DEF ForBodies
    <2> HIDE DEF inner, rs, ss
    <2> QED
      BY <1>1, <2>2, <2>3, BodiesAgree
  <1>4. Selection(c, sel1) /\ Agree(E, F, sel1, sel2) /\ Modes(E, F)
    BY <1>1, <1>2, TypedSelection, AgreeSelection DEF Pair
  <1>5. /\ evaluate_expr(c, g, e, env) = WithSelection(sel1, rs)
        /\ evaluate_expr(d, h, e, env) = WithSelection(sel2, ss)
    BY LoopArms
  <1> HIDE DEF rs, ss, N, sel1, sel2
  <1>6. Len(rs) = N /\ Len(ss) = N
    BY <1>2, LenOfDomain
  <1>7. ASSUME NEW sel, Ready(sel)
        PROVE  Agree(E, F, ForLoopResult(sel, rs), ForLoopResult(sel, ss))
    BY <1>2, <1>3, <1>4, <1>6, <1>7, AgreeLoop DEF Ready
  <1> QED
    BY <1>4, <1>5, <1>7, AgreeWithSelection

LEMMA AgreeForRules ==
    ASSUME NEW E, NEW F, NEW S, NEW c, NEW d, NEW g, NEW h, Pair(E, F, S, c, d, g, h),
           NEW e \in Expression, NEW env \in Env, e \notin c.expired, e \notin d.expired,
           e.op = "for_rules"
    PROVE  Agree(E, F, evaluate_expr(c, g, e, env), evaluate_expr(d, h, e, env))
  <1>1. SelectionOK(e.selection) /\ e.set \in Seq(Nat) /\ e.already_matched \in Nat
    BY ExpressionsAssumption DEF ExpressionOK
  <1> DEFINE rs == ForRulesBodies(c, e)
             n == Len(e.set) + e.already_matched
             sel1 == SelectionOf(g, e, env, n)
             sel2 == SelectionOf(h, e, env, n)
  <1>2. ForRulesBodies(c, e) = ForRulesBodies(d, e)
    <2>1. c.previous = d.previous
      BY DEF Pair, SameScan
    <2> QED
      BY <2>1 DEF ForRulesBodies, PreviousResult
  <1>3. n \in Nat
    BY <1>1
  <1>4. Selection(c, sel1) /\ Agree(E, F, sel1, sel2) /\ Modes(E, F)
    BY <1>1, <1>3, TypedSelection, AgreeSelection DEF Pair
  <1>5. /\ evaluate_expr(c, g, e, env) = WithSelection(sel1, rs)
        /\ evaluate_expr(d, h, e, env) = WithSelection(sel2, rs)
    BY <1>2, LoopArms
  <1> HIDE DEF rs, n, sel1, sel2
  <1>6. \A sel : Agree(E, F, ForLoopResult(sel, rs), ForLoopResult(sel, rs))
    BY DEF Agree
  <1> QED
    BY <1>4, <1>5, <1>6, AgreeWithSelection

\* The walks of the two passes: one of them is a poison of E or of F; or they are
\* the same walk, where a poison can only be the first element.
SameWalk(E, F, xs, ys) ==
    \/ \E p \in E : xs = <<Abort(p)>>
    \/ \E p \in F : ys = <<Abort(p)>>
    \/ xs = ys /\ \A i \in DOMAIN xs : Has(xs[i], "abort") => i = 1

LEMMA NoAbort == \A values : ~Has(Binding(values), "abort")
  BY DEF Has, Binding

LEMMA SameModuleWalk ==
    ASSUME NEW E, NEW F, Modes(E, F), NEW c, NEW v, NEW w, Typed(c, v), Agree(E, F, v, w)
    PROVE  SameWalk(E, F, ModuleElements(v), ModuleElements(w))
  <1>1. \A p \in Poisons : ModuleElements(p) = <<Abort(p)>>
    <2>1. \A p \in Poisons : IsPoison(p) /\ ~Has(p, "array") /\ ~Has(p, "dict")
      BY DEF Poisons, VarNeeded, Undefined, Timeout, Panic, Poison, IsPoison, Has
    <2> QED
      BY <2>1 DEF ModuleElements
  <1>2. E \subseteq Poisons /\ F \subseteq Poisons
    BY ModeFacts
  <1>3. CASE v \in E
    BY <1>1, <1>2, <1>3 DEF SameWalk
  <1>4. CASE w \in F
    BY <1>1, <1>2, <1>4 DEF SameWalk
  <1>5. CASE v = w
    <2> DEFINE xs == ModuleElements(v)
    <2>1. CASE Has(v, "array") \/ Has(v, "dict")
      <3>1. \A i \in DOMAIN xs : \E values : xs[i] = Binding(values)
        <4>1. CASE Has(v, "array")
          <5>1. xs = [i \in DOMAIN v.array |-> Binding(<<v.array[i]>>)]
            BY <4>1, OneShape DEF ModuleElements, Typed
          <5> QED
            BY <5>1
        <4>2. CASE Has(v, "dict") /\ ~Has(v, "array")
          <5>1. xs = [i \in DOMAIN v.dict |-> Binding(v.dict[i])]
            BY <4>2 DEF ModuleElements
          <5> QED
            BY <5>1
        <4> QED
          BY <2>1, <4>1, <4>2
      <3> HIDE DEF xs
      <3> QED
        BY <1>5, <3>1, NoAbort DEF SameWalk, xs
    <2>2. CASE ~(Has(v, "array") \/ Has(v, "dict"))
      <3>1. \E p : xs = <<Abort(p)>>
        BY <2>2 DEF ModuleElements
      <3> HIDE DEF xs
      <3>2. \A i \in DOMAIN xs : i = 1
        BY <3>1
      <3> QED
        BY <1>5, <3>2 DEF SameWalk, xs
    <2> QED
      BY <2>1, <2>2
  <1> QED
    BY <1>3, <1>4, <1>5 DEF Agree

LEMMA SameRangeWalk ==
    ASSUME NEW E, NEW F, Modes(E, F), NEW f1, NEW f2, NEW t1, NEW t2,
           Agree(E, F, f1, f2), Agree(E, F, t1, t2)
    PROVE  SameWalk(E, F, RangeElements(f1, t1), RangeElements(f2, t2))
  <1>1. \A f, t : /\ IsPoison(f) => RangeElements(f, t) = <<Abort(f)>>
                  /\ ~IsPoison(f) /\ IsPoison(t) => RangeElements(f, t) = <<Abort(t)>>
    BY DEF RangeElements
  <1>2. \A p \in E \cup F : IsPoison(p)
    BY ModeFacts
  <1>3. CASE f1 \in E
    BY <1>1, <1>2, <1>3 DEF SameWalk
  <1>4. CASE f2 \in F
    BY <1>1, <1>2, <1>4 DEF SameWalk
  <1>5. CASE f1 = f2 /\ ~IsPoison(f1) /\ t1 \in E
    BY <1>1, <1>2, <1>5 DEF SameWalk
  <1>6. CASE f1 = f2 /\ ~IsPoison(f1) /\ t2 \in F
    BY <1>1, <1>2, <1>6 DEF SameWalk
  <1>7. ASSUME NEW p, RangeElements(f1, t1) = <<Abort(p)>>,
               RangeElements(f2, t2) = <<Abort(p)>>
        PROVE  SameWalk(E, F, RangeElements(f1, t1), RangeElements(f2, t2))
    BY <1>7 DEF SameWalk
  <1>8. CASE f1 = f2 /\ IsPoison(f1)
    BY <1>1, <1>7, <1>8
  <1>9. CASE f1 = f2 /\ ~IsPoison(f1) /\ t1 = t2
    <2> DEFINE xs == RangeElements(f1, t1)
    <2>1. CASE IsPoison(t1)
      BY <1>1, <1>7, <1>9, <2>1
    <2>2. CASE ~IsPoison(t1) /\ f1.int > t1.int
      <3>1. xs = <<Abort(Undefined)>>
        BY <1>9, <2>2 DEF RangeElements
      <3> QED
        BY <1>7, <1>9, <3>1
    <2>3. CASE ~IsPoison(t1) /\ ~(f1.int > t1.int)
      <3>1. xs = [i \in 1 .. t1.int - f1.int + 1 |->
                     Binding(<<Integer(f1.int + i - 1)>>)]
        BY <1>9, <2>3 DEF RangeElements
      <3>2. \A i \in DOMAIN xs : \E values : xs[i] = Binding(values)
        BY <3>1
      <3> HIDE DEF xs
      <3> QED
        BY <1>9, <3>2, NoAbort DEF SameWalk, xs
    <2> QED
      BY <2>1, <2>2, <2>3
  <1> QED
    BY <1>3, <1>4, <1>5, <1>6, <1>8, <1>9 DEF Agree

LEMMA SingleAbort ==
    ASSUME NEW g, NEW e, NEW env, NEW p, ItemsOf(g, e, env) = <<Abort(p)>>
    PROVE  ForInBodies(g, e, env) = <<Abort(p)>>
  <1> DEFINE xs == ItemsOf(g, e, env)
  <1>1. DOMAIN xs = 1 .. 1 /\ xs[1] = Abort(p)
    OBVIOUS
  <1>2. BodyOf(g, e, env, Abort(p)) = Abort(p)
    BY AbortFacts DEF BodyOf
  <1> HIDE DEF xs
  <1>3. ForInBodies(g, e, env) = [i \in 1 .. 1 |-> Abort(p)]
    BY <1>1, <1>2 DEF ForInBodies, xs
  <1> QED
    BY <1>3

\* The bodies of two walks that are the same.
LEMMA WalkBodiesAgree ==
    ASSUME NEW E, NEW F, NEW S, NEW c, NEW d, NEW g, NEW h, Pair(E, F, S, c, d, g, h),
           NEW e \in Expression, NEW env \in Env, e.op = "for_in",
           SameWalk(E, F, ItemsOf(g, e, env), ItemsOf(h, e, env)),
           NEW sel, Ready(sel)
    PROVE  Agree(E, F, ForLoopResult(sel, ForInBodies(g, e, env)),
                       ForLoopResult(sel, ForInBodies(h, e, env)))
  <1> DEFINE xs == ItemsOf(g, e, env)
             ys == ItemsOf(h, e, env)
             rs == ForInBodies(g, e, env)
             ss == ForInBodies(h, e, env)
  <1>0. Modes(E, F) /\ E \subseteq Poisons /\ F \subseteq Poisons /\ sel \in Selector
    BY ModeFacts DEF Pair, Ready
  <1>1. ASSUME NEW p \in E, xs = <<Abort(p)>>
        PROVE  Agree(E, F, ForLoopResult(sel, rs), ForLoopResult(sel, ss))
    <2>1. rs = <<Abort(p)>>
      BY <1>1, SingleAbort
    <2> HIDE DEF rs, ss
    <2> QED
      BY <1>0, <2>1, LoopAborts DEF Agree
  <1>2. ASSUME NEW p \in F, ys = <<Abort(p)>>
        PROVE  Agree(E, F, ForLoopResult(sel, rs), ForLoopResult(sel, ss))
    <2>1. ss = <<Abort(p)>>
      BY <1>2, SingleAbort
    <2> HIDE DEF rs, ss
    <2> QED
      BY <1>0, <2>1, LoopAborts DEF Agree
  <1>3. ASSUME xs = ys, \A i \in DOMAIN xs : Has(xs[i], "abort") => i = 1
        PROVE  Agree(E, F, ForLoopResult(sel, rs), ForLoopResult(sel, ss))
    <2>0. e.body \in Expression
      BY ExpressionsAssumption DEF ExpressionOK
    <2>1. PICK N \in Nat : DOMAIN xs = 1 .. N /\ \A i \in 1 .. N : ItemOK(c, xs[i])
      BY TypedItems DEF WalkOK, Pair
    <2>2. /\ DOMAIN rs = 1 .. N /\ \A i \in 1 .. N : rs[i] = BodyOf(g, e, env, xs[i])
          /\ DOMAIN ss = 1 .. N /\ \A i \in 1 .. N : ss[i] = BodyOf(h, e, env, xs[i])
      BY <1>3, <2>1 DEF ForInBodies
    <2> HIDE DEF xs, ys, rs, ss
    <2>3. ASSUME NEW i \in 1 .. N
          PROVE  ItemAgree(E, F, i, rs[i], ss[i]) /\ (VarNeeded \in E => ss[i] # VarNeeded)
      <3>1. ItemOK(c, xs[i])
        BY <2>1
      <3>2. CASE Has(xs[i], "abort")
        <4>1. i = 1
          BY <1>3, <2>1, <3>2
        <4>2. rs[i] = xs[i] /\ ss[i] = xs[i]
          BY <2>2, <3>1, <3>2, BodyAborts
        <4>3. \E p \in Poisons : xs[i] = Abort(p)
          BY <3>1, <3>2, ItemFacts
        <4>4. ss[i] # VarNeeded
          BY <3>2, <4>2, ValueFacts
        <4> QED
          BY <4>1, <4>2, <4>3, <4>4 DEF ItemAgree
      <3>3. CASE ~Has(xs[i], "abort")
        <4> DEFINE inner == Inner(env, xs[i])
        <4>1. rs[i] = g[e.body][inner] /\ ss[i] = h[e.body][inner] /\ inner \in Env
          BY <2>2, <3>1, <3>3, BodyBinds
        <4> HIDE DEF inner
        <4> QED
          BY <2>0, <4>1, BodiesAgree
      <3> QED
        BY <3>2, <3>3
    <2>4. Len(rs) = N /\ Len(ss) = N
      BY <2>2, LenOfDomain
    <2> QED
      BY <1>0, <2>3, <2>4, AgreeLoop
  <1> QED
    BY <1>1, <1>2, <1>3 DEF SameWalk

\* The items of a list, and their bodies.
LEMMA ListItemsAgree ==
    ASSUME NEW E, NEW F, NEW S, NEW c, NEW d, NEW g, NEW h, Pair(E, F, S, c, d, g, h),
           NEW body \in Expression, NEW e, e.body = body, NEW env \in Env,
           NEW v, NEW w, Typed(c, v), Typed(d, w), Agree(E, F, v, w),
           NEW i, VarNeeded \in E => i = 1 \/ HasValue(E, v)
    PROVE  LET x == BodyOf(g, e, env, ListElement(v))
               y == BodyOf(h, e, env, ListElement(w))
           IN  ItemAgree(E, F, i, x, y) /\ (VarNeeded \in E => y # VarNeeded)
  <1> DEFINE x == BodyOf(g, e, env, ListElement(v))
             y == BodyOf(h, e, env, ListElement(w))
  <1>0. Modes(E, F) /\ E \subseteq Poisons /\ F \subseteq Poisons
    BY ModeFacts DEF Pair
  <1>1. \A p \in Poisons : ListElement(p) = Abort(p)
    BY PoisonFacts DEF ListElement
  <1>2. ItemOK(c, ListElement(v)) /\ ItemOK(d, ListElement(w))
    BY TypedListElement
  <1>3. \A u, z : ItemOK(u, z) /\ Has(z, "abort") =>
           /\ BodyOf(g, e, env, z) = z
           /\ BodyOf(h, e, env, z) = z
           /\ z # VarNeeded
    BY BodyAborts, ValueFacts
  <1>4. ASSUME NEW u, NEW z, ItemOK(u, z), ~Has(z, "abort")
        PROVE  /\ BodyOf(g, e, env, z) = g[body][Inner(env, z)]
               /\ BodyOf(h, e, env, z) = h[body][Inner(env, z)]
               /\ Inner(env, z) \in Env
    BY <1>4, BodyBinds
  <1>5. VarNeeded \in E => y # VarNeeded
    <2>1. CASE Has(ListElement(w), "abort")
      BY <1>2, <1>3, <2>1
    <2>2. CASE ~Has(ListElement(w), "abort")
      <3>1. y = h[body][Inner(env, ListElement(w))] /\ Inner(env, ListElement(w)) \in Env
        BY <1>2, <1>4, <2>2
      <3> HIDE DEF y
      <3> QED
        BY <3>1, BodiesAgree
    <2> QED
      BY <2>1, <2>2
  <1>6. CASE v \in E
    <2>1. x = Abort(v)
      BY <1>0, <1>1, <1>2, <1>3, <1>6, AbortFacts
    <2> HIDE DEF x, y
    <2> QED
      BY <1>5, <1>6, <2>1 DEF ItemAgree, x, y
  <1>7. CASE w \in F /\ v \notin E
    <2>1. y = Abort(w)
      BY <1>0, <1>1, <1>2, <1>3, <1>7, AbortFacts
    <2>2. VarNeeded \in E
      BY <1>0, <1>7 DEF Modes
    <2>3. i = 1 \/ ~Has(x, "abort")
      <3>1. CASE i = 1
        BY <3>1
      <3>2. CASE Has(v, "int") \/ Has(v, "bytes")
        <4>1. ListElement(v) = Binding(<<v>>)
          BY <3>2, OneShape DEF ListElement, Typed
        <4>2. ~Has(ListElement(v), "abort")
          BY <4>1, NoAbort
        <4>3. x = g[body][Inner(env, ListElement(v))] /\ Inner(env, ListElement(v)) \in Env
          BY <1>2, <1>4, <4>2
        <4> HIDE DEF x
        <4> QED
          BY <4>3, BodiesAgree
      <3> QED
        BY <1>7, <2>2, <3>1, <3>2 DEF HasValue
    <2> HIDE DEF x, y
    <2> QED
      BY <1>5, <1>7, <2>1, <2>3 DEF ItemAgree, x, y
  <1>8. CASE v = w /\ v \notin E
    <2>1. CASE ~Has(ListElement(v), "abort")
      <3> DEFINE inner == Inner(env, ListElement(v))
      <3>1. x = g[body][inner] /\ y = h[body][inner] /\ inner \in Env
        BY <1>2, <1>4, <1>8, <2>1
      <3> HIDE DEF x, y, inner
      <3> QED
        BY <3>1, BodiesAgree DEF x, y
    <2>2. CASE Has(ListElement(v), "abort")
      <3>1. x = ListElement(v) /\ y = ListElement(v)
        BY <1>2, <1>3, <1>8, <2>2
      <3>2. \E p \in Poisons : ListElement(v) = Abort(p)
        BY <1>2, <2>2, ItemFacts
      <3>3. i = 1 \/ VarNeeded \notin E
        <4>1. Has(v, "int") \/ Has(v, "bytes") => ListElement(v) = Binding(<<v>>)
          BY OneShape DEF ListElement, Typed
        <4> QED
          BY <1>8, <2>2, <4>1, NoAbort DEF HasValue
      <3> HIDE DEF x, y
      <3> QED
        BY <1>5, <3>1, <3>2, <3>3 DEF ItemAgree, x, y
    <2> QED
      BY <2>1, <2>2
  <1> QED
    BY <1>6, <1>7, <1>8 DEF Agree

LEMMA ListBodiesAgree ==
    ASSUME NEW E, NEW F, NEW S, NEW c, NEW d, NEW g, NEW h, Pair(E, F, S, c, d, g, h),
           NEW e \in Expression, NEW env \in Env, e.op = "for_in", e.iterator = "list",
           NEW sel, Ready(sel)
    PROVE  Agree(E, F, ForLoopResult(sel, ForInBodies(g, e, env)),
                       ForLoopResult(sel, ForInBodies(h, e, env)))
  <1>1. e.items \in Seq(Expression) /\ e.body \in Expression
    BY ExpressionsAssumption DEF ExpressionOK
  <1> DEFINE N == Len(e.items)
             rs == ForInBodies(g, e, env)
             ss == ForInBodies(h, e, env)
             v(i) == g[e.items[i]][env]
             w(i) == h[e.items[i]][env]
  <1>2. N \in Nat
    BY <1>1
  <1>3. \A k : ItemsOf(k, e, env) = [i \in 1 .. N |-> ListElement(k[e.items[i]][env])]
    BY <1>1 DEF ItemsOf, ListElements, Vals
  <1>4. /\ DOMAIN rs = 1 .. N /\ DOMAIN ss = 1 .. N
        /\ \A i \in 1 .. N : /\ rs[i] = BodyOf(g, e, env, ListElement(v(i)))
                             /\ ss[i] = BodyOf(h, e, env, ListElement(w(i)))
    BY <1>3 DEF ForInBodies
  <1> HIDE DEF rs, ss, N
  <1>5. ASSUME NEW i \in 1 .. N
        PROVE  ItemAgree(E, F, i, rs[i], ss[i]) /\ (VarNeeded \in E => ss[i] # VarNeeded)
    <2>1. e.items[i] \in Expression
      BY <1>1, ElementOfSeq DEF N
    <2>2. Typed(c, v(i)) /\ Typed(d, w(i)) /\ Agree(E, F, v(i), w(i))
      BY <2>1 DEF Pair, WellTyped, AgreeOn
    <2>3. ASSUME VarNeeded \in E, i # 1
          PROVE  HasValue(E, v(i))
      <3>1. i \in 2 .. Len(e.items)
        BY <1>2, <2>3 DEF N
      <3>2. e.items[i] \in S \/ e.items[i].op = "bytes"
        BY <2>3, <3>1 DEF Pair, ListsDefinedBy
      <3> QED
        BY <2>1, <2>3, <3>2 DEF Pair, DefinedOn, HasValue
    <2> HIDE DEF v, w
    <2>4. /\ ItemAgree(E, F, i, BodyOf(g, e, env, ListElement(v(i))),
                                BodyOf(h, e, env, ListElement(w(i))))
          /\ VarNeeded \in E => BodyOf(h, e, env, ListElement(w(i))) # VarNeeded
      BY <1>1, <2>2, <2>3, ListItemsAgree
    <2> QED
      BY <1>4, <2>4
  <1>6. Len(rs) = N /\ Len(ss) = N
    BY <1>2, <1>4, LenOfDomain
  <1>7. Modes(E, F) /\ sel \in Selector
    BY DEF Pair, Ready
  <1> QED
    BY <1>2, <1>5, <1>6, <1>7, AgreeLoop DEF rs, ss

LEMMA AgreeForIn ==
    ASSUME NEW E, NEW F, NEW S, NEW c, NEW d, NEW g, NEW h, Pair(E, F, S, c, d, g, h),
           NEW e \in Expression, NEW env \in Env, e \notin c.expired, e \notin d.expired,
           e.op = "for_in"
    PROVE  Agree(E, F, evaluate_expr(c, g, e, env), evaluate_expr(d, h, e, env))
  <1>0. ExpressionOK(e) /\ Modes(E, F) /\ AgreeOn(E, F, g, h)
        /\ WellTyped(c, g) /\ WellTyped(d, h)
    BY ExpressionsAssumption DEF Pair
  <1> DEFINE rs == ForInBodies(g, e, env)
             ss == ForInBodies(h, e, env)
             sel1 == SelectionOf(g, e, env, 0)
             sel2 == SelectionOf(h, e, env, 0)
  <1>1. Selection(c, sel1) /\ Agree(E, F, sel1, sel2)
    <2>1. SelectionOK(e.selection) /\ 0 \in Nat
      BY <1>0 DEF ExpressionOK
    <2> QED
      BY <1>0, <2>1, TypedSelection, AgreeSelection
  <1>2. /\ evaluate_expr(c, g, e, env) = UndefinedIsFalse(WithSelection(sel1, rs))
        /\ evaluate_expr(d, h, e, env) = UndefinedIsFalse(WithSelection(sel2, ss))
    BY LoopArms
  <1>3. ASSUME NEW sel, Ready(sel)
        PROVE  Agree(E, F, ForLoopResult(sel, rs), ForLoopResult(sel, ss))
    <2>1. CASE e.iterator = "list"
      BY <1>3, <2>1, ListBodiesAgree
    <2>2. CASE e.iterator = "module" /\ e.module \in Expression
      <3>1. /\ Typed(c, Val(g, e.module, env))
            /\ Agree(E, F, Val(g, e.module, env), Val(h, e.module, env))
        BY <1>0, <2>2 DEF WellTyped, AgreeOn, Val
      <3>2. SameWalk(E, F, ItemsOf(g, e, env), ItemsOf(h, e, env))
        BY <1>0, <2>2, <3>1, SameModuleWalk DEF ItemsOf
      <3> QED
        BY <1>3, <3>2, WalkBodiesAgree
    <2>3. CASE e.iterator = "range" /\ e.items \in Seq(Expression) /\ Len(e.items) = 2
      <3>1. e.items[1] \in Expression /\ e.items[2] \in Expression
        BY <2>3
      <3>2. \A k : ItemsOf(k, e, env) =
                      RangeElements(Num(k, e.items[1], env), Num(k, e.items[2], env))
        <4>1. \A k : /\ Vals(k, e.items, env)[1] = k[e.items[1]][env]
                     /\ Vals(k, e.items, env)[2] = k[e.items[2]][env]
          BY <2>3 DEF Vals
        <4> QED
          BY <2>3, <4>1 DEF ItemsOf, ListElements, Num
      <3>3. \A x \in Expression : Agree(E, F, Num(g, x, env), Num(h, x, env))
        BY <1>0, AgreeUnwrap DEF AgreeOn, Num
      <3>4. SameWalk(E, F, ItemsOf(g, e, env), ItemsOf(h, e, env))
        BY <1>0, <3>1, <3>2, <3>3, SameRangeWalk
      <3> QED
        BY <1>3, <3>4, WalkBodiesAgree
    <2> QED
      BY <1>0, <2>1, <2>2, <2>3 DEF ExpressionOK
  <1> HIDE DEF rs, ss, sel1, sel2
  <1>4. Agree(E, F, WithSelection(sel1, rs), WithSelection(sel2, ss))
    BY <1>0, <1>1, <1>3, AgreeWithSelection
  <1>5. \A x, y : Agree(E, F, x, y) => Agree(E, F, UndefinedIsFalse(x), UndefinedIsFalse(y))
    BY <1>0, ModeFacts DEF Agree, UndefinedIsFalse
  <1> QED
    BY <1>2, <1>4, <1>5

\* The whole of evaluate_expr.
LEMMA AgreeEvaluation ==
    ASSUME NEW E, NEW F, NEW S, NEW c, NEW d, NEW g, NEW h, Pair(E, F, S, c, d, g, h),
           NEW e \in Expression, NEW env \in Env
    PROVE  Agree(E, F, evaluate_expr(c, g, e, env), evaluate_expr(d, h, e, env))
  <1>0. Modes(E, F) /\ SameScan(E, F, c, d) /\ AgreeOn(E, F, g, h) /\ ExpressionOK(e)
    BY ExpressionsAssumption DEF Pair
  <1>1. CASE e \in c.expired
    BY <1>0, <1>1, Expired, ModeFacts DEF Agree
  <1>2. CASE e \in d.expired
    <2>1. Timeout \in F
      BY <1>0, <1>2 DEF SameScan
    <2> QED
      BY <1>2, <2>1, Expired DEF Agree
  <1>3. CASE e \notin c.expired /\ e \notin d.expired
    <2>1. CASE e.op \in {"filesize", "entrypoint", "integer", "bytes", "boolean",
                         "external", "rule"}
      BY <1>0, <1>3, <2>1, AgreeLeaves
    <2>2. CASE e.op \in {"read_integer", "variable", "count", "variable_at", "offset",
                         "length", "count_in", "variable_in"}
      BY <1>0, <1>3, <2>2, AgreeVariables
    <2>3. CASE e.op \in {"neg", "arith", "cmp", "eq", "string_op", "not", "defined"}
      BY <1>0, <1>3, <2>3, AgreeOperators
    <2>4. CASE e.op \in {"and", "or"}
      <3> DEFINE rs == Vals(g, e.ops, env)
                 ss == Vals(h, e.ops, env)
                 N == Len(e.ops)
                 decider == (e.op = "or")
      <3>1. e.ops \in Seq(Expression)
        BY <1>0, <2>4 DEF ExpressionOK
      <3>2. N \in Nat /\ DOMAIN rs = 1 .. N /\ DOMAIN ss = 1 .. N
        BY <3>1 DEF Vals
      <3>3. \A i \in 1 .. N : Agree(E, F, rs[i], ss[i])
        <4>1. \A i \in 1 .. N : e.ops[i] \in Expression
          BY <3>1, ElementOfSeq
        <4> QED
          BY <1>0, <3>1, <4>1 DEF Vals, AgreeOn
      <3>4. /\ evaluate_expr(c, g, e, env) = Connective(rs, decider)
            /\ evaluate_expr(d, h, e, env) = Connective(ss, decider)
        BY <1>3, <2>4, ConnectiveArms
      <3>5. decider \in BOOLEAN
        OBVIOUS
      <3> HIDE DEF rs, ss, N, decider
      <3> QED
        BY <1>0, <3>2, <3>3, <3>4, <3>5, AgreeConnective
    <2>5. CASE e.op = "module"
      BY <1>0, <1>3, <2>5, AgreeModule
    <2>6. CASE e.op = "for"
      BY <1>3, <2>6, AgreeFor
    <2>7. CASE e.op = "for_in"
      BY <1>3, <2>7, AgreeForIn
    <2>8. CASE e.op = "for_rules"
      BY <1>3, <2>8, AgreeForRules
    <2> QED
      BY <1>0, <2>1, <2>2, <2>3, <2>4, <2>5, <2>6, <2>7, <2>8 DEF ExpressionOK
  <1> QED
    BY <1>1, <1>2, <1>3

-----------------------------------------------------------------------------
(* Every depth of evaluation, and the conditions. *)

LEMMA EvaluationsAreTyped ==
    ASSUME NEW ctx, ContextOK(ctx), NEW e \in Expression
    PROVE  Typed(ctx, Eval(ctx, e))
  <1> DEFINE start == [selected |-> 0, stack |-> <<>>]
  <1>1. PICK f :
           /\ \A x \in Expression : \A env \in Env : f[0][x][env] = Panic
           /\ \A n \in 0 .. StackDepth - 1 :
                 \A x \in Expression : \A env \in Env :
                    f[n + 1][x][env] = evaluate_expr(ctx, f[n], x, env)
           /\ \A x : Eval(ctx, x) = f[StackDepth][x][start]
    BY WithinSteps
  <1> DEFINE G == {n \in Nat : n <= StackDepth => WellTyped(ctx, f[n])}
  <1>2. 0 \in G
    BY <1>1, TypedFacts DEF WellTyped
  <1>3. ASSUME NEW n \in Nat, n \in G
        PROVE  n + 1 \in G
    <2> SUFFICES ASSUME n + 1 <= StackDepth
                 PROVE  WellTyped(ctx, f[n + 1])
      OBVIOUS
    <2>1. n \in 0 .. StackDepth - 1 /\ WellTyped(ctx, f[n])
      BY <1>3, StackDepthAssumption
    <2> HIDE DEF G
    <2> QED
      BY <1>1, <2>1, TypedEvaluation DEF WellTyped
  <1>4. Nat \subseteq G
    <2> HIDE DEF G
    <2> QED
      BY <1>2, <1>3, SetInduction
  <1>5. WellTyped(ctx, f[StackDepth])
    BY <1>4, StackDepthAssumption
  <1>6. start \in Env
    BY DEF Env
  <1> QED
    BY <1>1, <1>5, <1>6 DEF WellTyped

LEMMA EvaluationsAgree ==
    ASSUME NEW E, NEW F, Modes(E, F), NEW c, NEW d, SameScan(E, F, c, d),
           ContextOK(c), ContextOK(d),
           VarNeeded \in E => d.var_matches.known /\ ListsAreDefined,
           NEW e \in Expression
    PROVE  Agree(E, F, Eval(c, e), Eval(d, e))
  <1> DEFINE start == [selected |-> 0, stack |-> <<>>]
  <1>1. PICK f :
           /\ \A x \in Expression : \A env \in Env : f[0][x][env] = Panic
           /\ \A n \in 0 .. StackDepth - 1 :
                 \A x \in Expression : \A env \in Env :
                    f[n + 1][x][env] = evaluate_expr(c, f[n], x, env)
           /\ \A x : Eval(c, x) = f[StackDepth][x][start]
    BY WithinSteps
  <1>2. PICK k :
           /\ \A x \in Expression : \A env \in Env : k[0][x][env] = Panic
           /\ \A n \in 0 .. StackDepth - 1 :
                 \A x \in Expression : \A env \in Env :
                    k[n + 1][x][env] = evaluate_expr(d, k[n], x, env)
           /\ \A x : Eval(d, x) = k[StackDepth][x][start]
    BY WithinSteps
  <1>3. PICK S : VarNeeded \in E => ListsDefinedBy(S)
    BY DEF ListsAreDefined
  <1> DEFINE G == {n \in Nat : n <= StackDepth => Pair(E, F, S, c, d, f[n], k[n])}
  <1>4. 0 \in G
    <2>1. WellTyped(c, f[0]) /\ WellTyped(d, k[0])
      BY <1>1, <1>2, TypedFacts DEF WellTyped
    <2>2. AgreeOn(E, F, f[0], k[0])
      BY <1>1, <1>2 DEF AgreeOn, Agree
    <2>3. VarNeeded \in E => DefinedOn(E, S, f[0])
      <3>1. VarNeeded \in E => Panic \in E /\ S \subseteq Expression
        BY <1>3, ModeFacts DEF ListsDefinedBy
      <3> QED
        BY <1>1, <3>1 DEF DefinedOn, HasValue
    <2> QED
      BY <1>3, <2>1, <2>2, <2>3 DEF Pair
  <1>5. ASSUME NEW n \in Nat, n \in G
        PROVE  n + 1 \in G
    <2> SUFFICES ASSUME n + 1 <= StackDepth
                 PROVE  Pair(E, F, S, c, d, f[n + 1], k[n + 1])
      OBVIOUS
    <2>1. n \in 0 .. StackDepth - 1 /\ Pair(E, F, S, c, d, f[n], k[n])
      BY <1>5, StackDepthAssumption
    <2> HIDE DEF G
    <2>2. \A x \in Expression : \A env \in Env :
             /\ f[n + 1][x][env] = evaluate_expr(c, f[n], x, env)
             /\ k[n + 1][x][env] = evaluate_expr(d, k[n], x, env)
      BY <1>1, <1>2, <2>1
    <2>3. WellTyped(c, f[n + 1]) /\ WellTyped(d, k[n + 1])
      BY <2>1, <2>2, TypedEvaluation DEF Pair, WellTyped
    <2>4. AgreeOn(E, F, f[n + 1], k[n + 1])
      BY <2>1, <2>2, AgreeEvaluation DEF AgreeOn
    <2>5. VarNeeded \in E => DefinedOn(E, S, f[n + 1])
      <3> SUFFICES ASSUME VarNeeded \in E
                   PROVE  DefinedOn(E, S, f[n + 1])
        OBVIOUS
      <3>1. ListsDefinedBy(S) /\ DefinedOn(E, S, f[n]) /\ S \subseteq Expression
        BY <1>3, <2>1 DEF Pair, ListsDefinedBy
      <3>2. \A x \in S : \A env \in Env :
               \/ evaluate_expr(c, f[n], x, env) \in E
               \/ Has(evaluate_expr(c, f[n], x, env), "int")
        BY <3>1, DefinedStep
      <3>3. \A x \in Expression : x.op = "bytes" =>
               \A env \in Env : HasValue(E, evaluate_expr(c, f[n], x, env))
        BY <3>1, DefinedStep
      <3> QED
        BY <2>2, <3>1, <3>2, <3>3 DEF DefinedOn
    <2> QED
      BY <1>3, <2>3, <2>4, <2>5 DEF Pair
  <1>6. Nat \subseteq G
    <2> HIDE DEF G
    <2> QED
      BY <1>4, <1>5, SetInduction
  <1>7. AgreeOn(E, F, f[StackDepth], k[StackDepth])
    BY <1>6, StackDepthAssumption DEF Pair
  <1>8. start \in Env
    BY DEF Env
  <1> QED
    BY <1>1, <1>2, <1>7, <1>8 DEF AgreeOn

\* evaluate_rule, from the value of the condition.
RuleResult(v) ==
    CASE v = VarNeeded -> "Undecidable"
      [] v = Timeout   -> "Timeout"
      [] v = Panic     -> "Panic"
      [] OTHER         -> IF IsTrue(v) THEN "true" ELSE "false"

LEMMA RuleResults ==
    /\ \A ctx, e : evaluate_rule(ctx, e) = RuleResult(Eval(ctx, e))
    /\ \A v : v # VarNeeded => RuleResult(v) # "Undecidable"
    /\ RuleResult(Timeout) = "Timeout"
    /\ \A v \in Fatal \cup {VarNeeded} : RuleResult(v) \notin {"true", "false"}
  BY PoisonFacts DEF evaluate_rule, RuleResult, Fatal

-----------------------------------------------------------------------------
(* What an evaluation needs in order not to panic: results of the rules that  *)
(* the condition names, strings that it names, and room on the stack.         *)

\* The sub-expressions that the evaluation of e may evaluate.
OfSelection(s) == IF s.kind = "expr" THEN {s.expr} ELSE {}
Each(xs) == {xs[i] : i \in DOMAIN xs}
Parts(e) ==
    CASE e.op = "read_integer" -> {e.addr}
      [] e.op = "variable_at" -> {e.offset}
      [] e.op \in {"offset", "length"} -> {e.nth}
      [] e.op \in {"count_in", "variable_in"} -> {e.from, e.to}
      [] e.op \in {"neg", "not", "defined"} -> {e.e}
      [] e.op \in {"arith", "cmp", "eq", "string_op"} -> {e.l, e.r}
      [] e.op \in {"and", "or"} -> Each(e.ops)
      [] e.op = "module" -> Each(e.args)
      [] e.op = "for" -> OfSelection(e.selection) \cup {e.body}
      [] e.op = "for_in" ->
            OfSelection(e.selection) \cup {e.body}
            \cup (IF e.iterator = "module" THEN {e.module} ELSE Each(e.items))
      [] e.op = "for_rules" -> OfSelection(e.selection)
      [] OTHER -> {}

\* What e names itself exists: `results` rules and `strings` strings.
InReach(e, results, strings) ==
    /\ e.op = "rule" => e.index \in 1 .. results
    /\ e.op = "for_rules" => Each(e.set) \subseteq 1 .. results
    /\ e.op \in {"variable", "count", "variable_at", "offset", "length", "count_in",
                 "variable_in"} => e.var \in 0 .. strings
    /\ e.op = "for" => Each(e.set) \subseteq 0 .. strings

\* The same of all that the evaluation of e evaluates, which the stack can hold.
Fits(e, results, strings) ==
    LET fits[n \in 0 .. StackDepth] ==
            {x \in Expression : /\ n # 0
                                /\ InReach(x, results, strings)
                                /\ Parts(x) \subseteq fits[n - 1]}
    IN  e \in fits[StackDepth]

\* The scan has those results and strings.
Room(ctx, results, strings) ==
    /\ results \in Nat /\ results <= Len(ctx.previous)
    /\ strings \in Nat
    /\ ctx.var_matches.known => strings <= Len(ctx.var_matches.of)
    /\ ~ctx.overflow_checks

\* The evaluations of the sub-expressions of e do not panic.
Calm(g, e, strings) ==
    \A x \in Parts(e) : \A env \in Env : env.selected <= strings => g[x][env] # Panic

LEMMA NotPanics ==
    /\ \A b : Boolean(b) # Panic
    /\ \A n : Integer(n) # Panic /\ Number(n) # Panic
    /\ \A s : Bytes(s) # Panic
    /\ All # Panic /\ None # Panic
    /\ Undefined # Panic /\ VarNeeded # Panic /\ Timeout # Panic /\ Going # Panic
    /\ \A v \in BoundValue : v # Panic
    /\ \A v, type : v # Panic => unwrap(v, type) # Panic
    /\ \A l, r, x : l # Panic /\ r # Panic /\ x # Panic => Strict(l, r, x) # Panic
  <1>1. DOMAIN Panic = {"poison"} /\ Panic.poison = "Panic"
    BY DEF Panic, Poison
  <1>2. /\ \A b : DOMAIN Boolean(b) = {"bool"}
        /\ \A n : DOMAIN Integer(n) = {"int"} /\ "kind" \in DOMAIN Number(n)
        /\ \A s : DOMAIN Bytes(s) = {"bytes"}
        /\ "kind" \in DOMAIN All /\ "kind" \in DOMAIN None
        /\ DOMAIN Going = {"going"}
    BY DEF Boolean, Integer, Number, Bytes, All, None, Going
  <1>3. \A v \in BoundValue : v # Panic
    BY DEF BoundValue, Panic, Poison
  <1>4. Undefined # Panic /\ VarNeeded # Panic /\ Timeout # Panic
    BY PoisonFacts
  <1>5. \A v, type : v # Panic => unwrap(v, type) # Panic
    BY <1>4 DEF unwrap
  <1>6. \A l, r, x : l # Panic /\ r # Panic /\ x # Panic => Strict(l, r, x) # Panic
    BY DEF Strict
  <1> HIDE DEF Panic, Boolean, Integer, Number, Bytes, All, None, Going
  <1>7. /\ \A b : Boolean(b) # Panic
        /\ \A n : Integer(n) # Panic /\ Number(n) # Panic
        /\ \A s : Bytes(s) # Panic
        /\ All # Panic /\ None # Panic /\ Going # Panic
    BY <1>1, <1>2
  <1> QED
    BY <1>3, <1>4, <1>5, <1>6, <1>7

LEMMA CalmMatches ==
    ASSUME NEW ctx, ContextOK(ctx), NEW results, NEW strings, Room(ctx, results, strings),
           NEW v \in 0 .. strings, NEW result, result # Panic
    PROVE  get_var_matches(ctx, v, result) # Panic
  <1>1. ctx.var_matches.of \in Seq(Seq([offset : Nat, length : Nat]))
    BY DEF ContextOK
  <1>2. ctx.var_matches.known /\ v # 0 => v \in DOMAIN ctx.var_matches.of
    BY <1>1 DEF Room
  <1> QED
    BY <1>2, NotPanics DEF get_var_matches

LEMMA CalmPrevious ==
    ASSUME NEW ctx, ContextOK(ctx), NEW results, NEW strings, Room(ctx, results, strings),
           NEW i \in 1 .. results
    PROVE  PreviousResult(ctx, i) # Panic
  <1>1. ctx.previous \in Seq(BOOLEAN)
    BY DEF ContextOK
  <1>2. i \in DOMAIN ctx.previous
    BY <1>1 DEF Room
  <1> QED
    BY <1>2, NotPanics DEF PreviousResult

\* What an evaluation of e is given.
Given_(ctx, g, e, env, results, strings) ==
    /\ ContextOK(ctx) /\ WellTyped(ctx, g)
    /\ e \in Expression /\ env \in Env /\ e \notin ctx.expired
    /\ Room(ctx, results, strings) /\ env.selected <= strings
    /\ InReach(e, results, strings) /\ Calm(g, e, strings)

LEMMA CalmLeaves ==
    ASSUME NEW ctx, NEW g, NEW e, NEW env, NEW results, NEW strings,
           Given_(ctx, g, e, env, results, strings),
           e.op \in {"filesize", "entrypoint", "integer", "bytes", "boolean",
                     "external", "rule"}
    PROVE  evaluate_expr(ctx, g, e, env) # Panic
  <1> USE DEF Given_
  <1>1. \A v \in [int : Nat] \cup {Undefined} : v # Panic
    BY NotPanics DEF BoundValue
  <1>2. ctx.filesize # Panic /\ ctx.entrypoint # Panic
    BY <1>1 DEF ContextOK
  <1>3. ValueAt(ctx.externals, e.index) # Panic
    BY NotPanics DEF ContextOK, ValueAt
  <1>4. e.op = "rule" => PreviousResult(ctx, e.index) # Panic
    BY CalmPrevious DEF InReach
  <1> QED
    BY <1>2, <1>3, <1>4, NotPanics, LeafArms

LEMMA CalmVariables ==
    ASSUME NEW ctx, NEW g, NEW e, NEW env, NEW results, NEW strings,
           Given_(ctx, g, e, env, results, strings),
           e.op \in {"read_integer", "variable", "count", "variable_at", "offset",
                     "length", "count_in", "variable_in"}
    PROVE  evaluate_expr(ctx, g, e, env) # Panic
  <1> USE DEF Given_
  <1> DEFINE r == evaluate_expr(ctx, g, e, env)
             var == VarIndex(e, env)
  <1>1. e.op # "read_integer" => var \in 0 .. strings
    <2>1. env.selected \in 0 .. strings
      BY DEF Env, Room
    <2> QED
      BY <2>1 DEF VarIndex, InReach
  <1>2. \A x \in Parts(e) : Num(g, x, env) # Panic
    BY NotPanics DEF Calm, Num
  <1>3. CASE e.op = "read_integer"
    <2>1. Parts(e) = {e.addr}
      BY <1>3 DEF Parts
    <2>2. r = ReadInteger(ctx, Num(g, e.addr, env))
      BY <1>3, VariableArms
    <2> HIDE DEF r
    <2> QED
      BY <1>2, <2>1, <2>2, NotPanics DEF ReadInteger, r
  <1>4. CASE e.op = "variable"
    <2>1. r = get_var_matches(ctx, var, Boolean(Matches(ctx, var) # <<>>))
      BY <1>4, VariableArms
    <2> HIDE DEF r, var
    <2> QED
      BY <1>1, <1>4, <2>1, CalmMatches, NotPanics DEF r
  <1>5. CASE e.op = "count"
    <2>1. r = get_var_matches(ctx, var, Integer(Len(Matches(ctx, var))))
      BY <1>5, VariableArms
    <2> HIDE DEF r, var
    <2> QED
      BY <1>1, <1>5, <2>1, CalmMatches, NotPanics DEF r
  <1>6. CASE e.op = "variable_at"
    <2> DEFINE m == Num(g, e.offset, env)
    <2>1. Parts(e) = {e.offset}
      BY <1>6 DEF Parts
    <2>2. m # Panic
      BY <1>2, <2>1
    <2>3. r = FindAt(ctx, var, m)
      BY <1>6, VariableArms
    <2>4. FoundAt(Matches(ctx, var), m.int) # Panic
      BY NotPanics DEF FoundAt
    <2> HIDE DEF r, var, m
    <2>5. get_var_matches(ctx, var, FoundAt(Matches(ctx, var), m.int)) # Panic
      BY <1>1, <1>6, <2>4, CalmMatches
    <2> QED
      BY <2>2, <2>3, <2>5, NotPanics DEF FindAt, r
  <1>7. ASSUME NEW field \in {"offset", "length"}, e.op = field
        PROVE  r # Panic
    <2> DEFINE m == Num(g, e.nth, env)
               x == IF m.int \in DOMAIN Matches(ctx, var)
                    THEN Integer(Matches(ctx, var)[m.int][field])
                    ELSE Undefined
    <2>1. Parts(e) = {e.nth}
      BY <1>7 DEF Parts
    <2>2. m # Panic
      BY <1>2, <2>1
    <2>3. r = Occurrence(ctx, var, m, field)
      BY <1>7, VariableArms
    <2>4. x # Panic
      BY NotPanics
    <2>5. get_var_matches(ctx, var, x) # Panic
      <3> HIDE DEF x, var
      <3> QED
        BY <1>1, <1>7, <2>4, CalmMatches
    <2> HIDE DEF r, m
    <2> QED
      BY <2>2, <2>3, <2>5, NotPanics DEF Occurrence, r
  <1>8. CASE e.op \in {"count_in", "variable_in"}
    <2> DEFINE from == Num(g, e.from, env)
               to == Num(g, e.to, env)
               found == MatchesIn(Matches(ctx, var), Usize(from.int), Usize(to.int))
               within == MatchesIn(Matches(ctx, var), from.int, to.int)
    <2>1. Parts(e) = {e.from, e.to}
      BY <1>8 DEF Parts
    <2>2. from # Panic /\ to # Panic
      BY <1>2, <2>1
    <2>3. e.op = "count_in" => r = Strict(from, to, CountInRange(ctx, var, from, to))
      BY VariableArms
    <2>4. e.op = "variable_in" => r = Strict(from, to, FindIn(ctx, var, from, to))
      BY VariableArms
    <2>5. var \in 0 .. strings
      BY <1>1, <1>8
    <2>6. CountInRange(ctx, var, from, to) =
             get_var_matches(ctx, var, Integer(Cardinality(found)))
      BY DEF CountInRange
    <2>7. \/ FindIn(ctx, var, from, to) =
                get_var_matches(ctx, var, Boolean(within # {}))
          \/ FindIn(ctx, var, from, to) = Boolean(FALSE)
      BY DEF FindIn
    <2> HIDE DEF r, var, from, to, found, within
    <2>8. CountInRange(ctx, var, from, to) # Panic
      BY <2>5, <2>6, CalmMatches, NotPanics
    <2>9. FindIn(ctx, var, from, to) # Panic
      BY <2>5, <2>7, CalmMatches, NotPanics
    <2> QED
      BY <1>8, <2>2, <2>3, <2>4, <2>8, <2>9, NotPanics DEF r
  <1> QED
    BY <1>3, <1>4, <1>5, <1>6, <1>7, <1>8

LEMMA CalmOperators ==
    ASSUME NEW ctx, NEW g, NEW e, NEW env, NEW results, NEW strings,
           Given_(ctx, g, e, env, results, strings),
           e.op \in {"neg", "arith", "cmp", "eq", "string_op", "not", "defined"}
    PROVE  evaluate_expr(ctx, g, e, env) # Panic
  <1> USE DEF Given_
  <1> DEFINE result == evaluate_expr(ctx, g, e, env)
  <1>1. CASE e.op \in {"neg", "not", "defined"}
    <2> DEFINE x == Val(g, e.e, env)
    <2>1. x # Panic
      <3>1. Parts(e) = {e.e}
        BY <1>1 DEF Parts
      <3> QED
        BY <3>1 DEF Calm, Val
    <2>2. e.op = "neg" => result = Negate(ctx, x)
      BY OperatorArms
    <2>3. e.op = "not" => result = NotOf(x)
      BY OperatorArms
    <2>4. e.op = "defined" => result = DefinedOf(x)
      BY OperatorArms
    <2> HIDE DEF x, result
    <2> QED
      BY <1>1, <2>1, <2>2, <2>3, <2>4, NotPanics
         DEF result, Negate, NotOf, DefinedOf, Room
  <1>2. CASE e.op \in {"arith", "cmp", "eq", "string_op"}
    <2> DEFINE l == Val(g, e.l, env)
               r == Val(g, e.r, env)
               b == unwrap(l, "bytes")
               c == unwrap(r, "bytes")
    <2>1. l # Panic /\ r # Panic
      <3>1. Parts(e) = {e.l, e.r}
        BY <1>2 DEF Parts
      <3> QED
        BY <3>1 DEF Calm, Val
    <2>2. b # Panic /\ c # Panic
      BY <2>1, NotPanics
    <2>3. e.op = "arith" => result = Strict(l, r, Calculated(e, l, r))
      BY OperatorArms
    <2>4. e.op = "cmp" => result = Strict(l, r, Compared(e, l, r))
      BY OperatorArms
    <2>5. e.op = "eq" => result = Strict(l, r, Equal(e, l, r))
      BY OperatorArms
    <2>6. e.op = "string_op" => result = Strict(b, c, Related(e, b, c))
      BY OperatorArms DEF Str, Val
    <2> HIDE DEF l, r, b, c, result
    <2>7. \A x, y : Related(e, x, y) # Panic
      BY NotPanics DEF Related
    <2>8. e.op = "arith" => Calculated(e, l, r) # Panic
      <3>1. ASSUME e.op = "arith", NEW n, NEW m
            PROVE  Arith(e.fn, n, m) # Panic
        <4>1. e.fn \in {"add", "sub", "mul", "div", "mod", "shl", "shr"}
          BY <3>1, ExpressionsAssumption DEF ExpressionOK
        <4>2. Arith(e.fn, n, m) = Undefined \/ \E k : Arith(e.fn, n, m) = Integer(k)
          BY <4>1 DEF Arith
        <4> QED
          BY <4>2, NotPanics
      <3> QED
        BY <3>1, NotPanics DEF Calculated
    <2>9. Compared(e, l, r) # Panic /\ Equal(e, l, r) # Panic
      BY <2>7, NotPanics DEF Compared, Equal
    <2> QED
      BY <1>2, <2>1, <2>2, <2>3, <2>4, <2>5, <2>6, <2>7, <2>8, <2>9, NotPanics DEF result
  <1> QED
    BY <1>1, <1>2

LEMMA CalmConnective ==
    ASSUME NEW ctx, NEW g, NEW e, NEW env, NEW results, NEW strings,
           Given_(ctx, g, e, env, results, strings), e.op \in {"and", "or"}
    PROVE  evaluate_expr(ctx, g, e, env) # Panic
  <1> USE DEF Given_
  <1> DEFINE rs == Vals(g, e.ops, env)
             N == Len(e.ops)
             decider == (e.op = "or")
  <1>1. e.ops \in Seq(Expression)
    BY ExpressionsAssumption DEF ExpressionOK
  <1>2. N \in Nat /\ DOMAIN rs = 1 .. N
    BY <1>1 DEF Vals
  <1>3. \A i \in 1 .. N : rs[i] # Panic
    <2>1. \A i \in 1 .. N : e.ops[i] \in Parts(e)
      BY <1>1 DEF Parts, Each
    <2> QED
      BY <1>1, <2>1 DEF Vals, Calm
  <1>4. evaluate_expr(ctx, g, e, env) = Connective(rs, decider)
    BY ConnectiveArms
  <1>5. decider \in BOOLEAN
    OBVIOUS
  <1> HIDE DEF rs, N, decider
  <1>6. \/ \E i \in 1 .. N : Connective(rs, decider) = rs[i]
        \/ Connective(rs, decider) = Boolean(decider)
        \/ Connective(rs, decider) = Boolean(~decider)
        \/ Connective(rs, decider) = VarNeeded
    BY <1>2, <1>5, ConnectiveCases
  <1> QED
    BY <1>3, <1>4, <1>6, NotPanics

\* No value of a module is a panic.
LEMMA ModulesDoNotPanic ==
    ASSUME NEW v \in ModuleValues \cup {Undefined}
    PROVE  v # Panic /\ Scalar(v) # Panic
  <1>1. DOMAIN Panic = {"poison"}
    BY DEF Panic, Poison
  <1>2. v \in BoundValue => v # Panic
    BY NotPanics
  <1>3. v \in [array : Seq(BoundValue)] => DOMAIN v = {"array"}
    OBVIOUS
  <1>4. v \in [dict : Seq(Seq(BoundValue))] => DOMAIN v = {"dict"}
    OBVIOUS
  <1>5. v # Panic
    <2> HIDE DEF Panic
    <2> QED
      BY <1>1, <1>2, <1>3, <1>4, NotPanics DEF ModuleValues
  <1> QED
    BY <1>5, NotPanics DEF Scalar

LEMMA CalmModule ==
    ASSUME NEW ctx, NEW g, NEW e, NEW env, NEW results, NEW strings,
           Given_(ctx, g, e, env, results, strings), e.op = "module"
    PROVE  evaluate_expr(ctx, g, e, env) # Panic
  <1> USE DEF Given_
  <1> DEFINE rs == Vals(g, e.args, env)
             N == Len(e.args)
             P == {i \in DOMAIN rs : IsPoison(rs[i])}
             result == ModuleResult(ctx, e, env)
  <1>1. e.args \in Seq(Expression)
    BY ExpressionsAssumption DEF ExpressionOK
  <1>2. N \in Nat /\ DOMAIN rs = 1 .. N
    BY <1>1 DEF Vals
  <1>3. \A i \in 1 .. N : rs[i] # Panic
    <2>1. \A i \in 1 .. N : e.args[i] \in Parts(e)
      BY <1>1 DEF Parts, Each
    <2> QED
      BY <1>1, <2>1 DEF Vals, Calm
  <1>4. result # Panic
    <2>1. CASE e.bound
      <3>1. env.stack \in Seq(BoundValue)
        BY DEF Env
      <3>2. e.index \in DOMAIN env.stack => env.stack[e.index] \in BoundValue
        BY <3>1, ElementOfSeq
      <3>3. result \in BoundValue \cup {Undefined}
        BY <2>1, <3>2 DEF ModuleResult, ValueAt
      <3> HIDE DEF result
      <3> QED
        BY <3>3, NotPanics
    <2>2. CASE ~e.bound
      <3>1. ValueAt(ctx.modules, e.index) \in ModuleValues \cup {Undefined}
        BY DEF ContextOK, ValueAt
      <3> QED
        BY <2>2, <3>1, ModulesDoNotPanic DEF ModuleResult
    <2> QED
      BY <2>1, <2>2
  <1>5. evaluate_expr(ctx, g, e, env) = FirstPoison(rs, result)
    BY LoopArms
  <1>6. P \in SUBSET Nat /\ P \subseteq 1 .. N
    BY <1>2
  <1>7. FirstPoison(rs, result) = IF P # {} THEN rs[Min(P)] ELSE result
    BY DEF FirstPoison
  <1> HIDE DEF rs, N, result, P
  <1>8. P # {} => Min(P) \in 1 .. N
    BY <1>6, MinIsLeast
  <1> QED
    BY <1>3, <1>4, <1>5, <1>7, <1>8

CalmItem(v) == v # Panic /\ (Has(v, "abort") => v.abort # Panic)
CalmState(l) ==
    \E a \in Selector, m \in Nat : \E x : l = LoopState(a, m, x) /\ x # Panic

LEMMA CalmStep ==
    ASSUME NEW l, CalmState(l), NEW v, CalmItem(v)
    PROVE  CalmState(Advance(l, v))
  <1>1. PICK a \in Selector, m \in Nat : \E x : l = LoopState(a, m, x) /\ x # Panic
    BY DEF CalmState
  <1>2. PICK x : l = LoopState(a, m, x) /\ x # Panic
    BY <1>1
  <1> DEFINE next == Advance(LoopState(a, m, x), v)
  <1>3. Yes # Panic /\ No # Panic /\ Going # Panic
    BY NotPanics DEF Yes, No
  <1>4. \E b \in Selector, n \in Nat : \E y : next = LoopState(b, n, y) /\ y # Panic
    <2>1. CASE x # Going
      <3>1. next = LoopState(a, m, x)
        BY <2>1, AdvanceStops
      <3> HIDE DEF next
      <3> QED
        BY <1>2, <3>1
    <2>2. CASE x = Going /\ Has(v, "abort")
      <3>1. next = LoopState(a, m, v.abort)
        BY <2>2, AdvanceStops
      <3> HIDE DEF next
      <3> QED
        BY <2>2, <3>1 DEF CalmItem
    <2>3. CASE x = Going /\ ~Has(v, "abort") /\ v \in Fatal
      <3>1. next = LoopState(a, m, v)
        BY <2>3, AdvanceStops
      <3> HIDE DEF next
      <3> QED
        BY <3>1 DEF CalmItem
    <2>4. CASE x = Going /\ ~Has(v, "abort") /\ v = VarNeeded
      <3>1. next = LoopState(a, m + 1, Going) /\ m + 1 \in Nat
        BY <2>4, AdvanceStops
      <3> HIDE DEF next
      <3> QED
        BY <1>3, <3>1
    <2>5. CASE x = Going /\ ~Has(v, "abort") /\ v \notin Fatal /\ v # VarNeeded
      <3>1. /\ a.kind # "number" =>
                  next = LoopState(a, m, Going) \/ next = LoopState(a, m, No)
            /\ a.kind = "number" =>
                  \/ next = LoopState(a, m, Going)
                  \/ next = LoopState(Down(a), m, Yes)
                  \/ next = LoopState(Down(a), m, Going)
        <4>1. CASE a.kind # "number"
          BY <2>5, <4>1, AdvanceCounts, SelectorFacts
        <4>2. CASE a.kind = "number" /\ ~IsTrue(v)
          BY <2>5, <4>2, AdvanceCounts
        <4>3. CASE a.kind = "number" /\ IsTrue(v)
          <5>1. next = LoopState(Down(a), m, IF Down(a).n = 0 THEN Yes ELSE Going)
            BY <2>5, <4>3, AdvanceCounts
          <5> HIDE DEF next
          <5> QED
            BY <4>3, <5>1
        <4> QED
          BY <4>1, <4>2, <4>3
      <3>2. Down(a) \in Selector
        BY SelectorFacts
      <3> HIDE DEF next
      <3> QED
        BY <1>3, <3>1, <3>2
    <2> QED
      BY <2>1, <2>2, <2>3, <2>4, <2>5
  <1> QED
    BY <1>2, <1>4 DEF CalmState

LEMMA CalmLoop ==
    ASSUME NEW N \in Nat, NEW selector \in Selector, NEW rs, Len(rs) = N,
           \A i \in 1 .. N : CalmItem(rs[i])
    PROVE  ForLoopResult(selector, rs) # Panic
  <1>1. PICK f : IsRun(selector, rs, f) /\ ForLoopResult(selector, rs) = LoopEnd(f[N])
    BY LoopSteps
  <1> DEFINE S == {i \in Nat : i <= N => CalmState(f[i])}
  <1>2. 0 \in S
    <2>1. f[0] = LoopState(selector, 0, Going)
      BY <1>1 DEF IsRun, LoopStart, LoopState
    <2> QED
      BY <2>1, NotPanics DEF CalmState
  <1>3. ASSUME NEW i \in Nat, i \in S
        PROVE  i + 1 \in S
    <2> SUFFICES ASSUME i + 1 <= N
                 PROVE  CalmState(f[i + 1])
      OBVIOUS
    <2>1. f[i + 1] = Advance(f[i], rs[i + 1])
      <3>1. i + 1 \in 1 .. Len(rs) /\ (i + 1) - 1 = i
        OBVIOUS
      <3> QED
        BY <1>1, <3>1 DEF IsRun
    <2>2. CalmItem(rs[i + 1])
      <3>1. i + 1 \in 1 .. N
        OBVIOUS
      <3> QED
        BY <3>1
    <2>3. CalmState(f[i])
      BY <1>3
    <2> QED
      BY <2>1, <2>2, <2>3, CalmStep
  <1>4. Nat \subseteq S
    <2> HIDE DEF S
    <2> QED
      BY <1>2, <1>3, SetInduction
  <1>5. CalmState(f[N])
    BY <1>4
  <1>6. PICK a \in Selector, m \in Nat : \E x : f[N] = LoopState(a, m, x) /\ x # Panic
    BY <1>5 DEF CalmState
  <1>7. PICK x : f[N] = LoopState(a, m, x) /\ x # Panic
    BY <1>6
  <1>8. LoopEnd(f[N]) \in {x, VarNeeded, No, Yes}
    BY <1>7, LoopEndIs
  <1> QED
    BY <1>1, <1>7, <1>8, NotPanics DEF Yes, No

LEMMA CalmSelection ==
    ASSUME NEW g, NEW e, NEW env, NEW n, SelectionOK(e.selection),
           e.selection.kind = "expr" => Num(g, e.selection.expr, env) # Panic
    PROVE  SelectionOf(g, e, env, n) # Panic
  <1> DEFINE s == e.selection
             value == Num(g, s.expr, env)
  <1>1. SelectionOf(g, e, env, n) = ForSelectionOf(s, value, n)
    BY DEF SelectionOf
  <1> HIDE DEF value
  <1>2. CASE s.kind = "expr"
    <2> DEFINE k == IF s.as_percent THEN -((-(value.int * n)) \div 100) ELSE value.int
               result == ForExprSelection(s, value, n)
    <2>1. ForSelectionOf(s, value, n) = result
      BY <1>2 DEF ForSelectionOf
    <2>2. \/ result = Boolean(FALSE)
          \/ result = value
          \/ result = None
          \/ result = (IF k <= 0 THEN Boolean(TRUE) ELSE Number(k))
      <3> HIDE DEF k
      <3>1. CASE IsPoison(value)
        BY <3>1 DEF ForExprSelection
      <3>2. CASE ~IsPoison(value)
        <4>1. value # Undefined
          BY <3>2, PoisonFacts
        <4> QED
          BY <3>2, <4>1 DEF ForExprSelection, k
      <3> QED
        BY <3>1, <3>2
    <2> HIDE DEF k, result
    <2>3. value # Panic
      BY <1>2 DEF value
    <2> QED
      BY <1>1, <2>1, <2>2, <2>3, NotPanics
  <1>3. CASE s.kind # "expr"
    <2>1. ForSelectionOf(s, value, n) \in {Number(1), All, None}
      BY <1>3 DEF ForSelectionOf, SelectionOK
    <2> QED
      BY <1>1, <2>1, NotPanics
  <1> QED
    BY <1>2, <1>3

LEMMA CalmWithSelection ==
    ASSUME NEW ctx, NEW sel, Selection(ctx, sel), sel # Panic,
           NEW N \in Nat, NEW rs, Len(rs) = N, \A i \in 1 .. N : CalmItem(rs[i])
    PROVE  WithSelection(sel, rs) # Panic
  <1>1. CASE Ready(sel)
    BY <1>1, SelectionFacts, CalmLoop DEF WithSelection, Ready
  <1>2. CASE Typed(ctx, sel)
    BY <1>2, SelectionFacts DEF WithSelection
  <1> QED
    BY <1>1, <1>2 DEF Selection

LEMMA CalmSelected ==
    ASSUME NEW ctx, NEW g, NEW e, NEW env, NEW results, NEW strings,
           Given_(ctx, g, e, env, results, strings),
           e.op \in {"for", "for_in", "for_rules"}, NEW n \in Nat
    PROVE  Selection(ctx, SelectionOf(g, e, env, n)) /\ SelectionOf(g, e, env, n) # Panic
  <1> USE DEF Given_
  <1>1. SelectionOK(e.selection)
    BY ExpressionsAssumption DEF ExpressionOK
  <1>2. e.selection.kind = "expr" => e.selection.expr \in Parts(e)
    BY DEF Parts, OfSelection
  <1>3. e.selection.kind = "expr" => Num(g, e.selection.expr, env) # Panic
    BY <1>2, NotPanics DEF Calm, Num
  <1> QED
    BY <1>1, <1>3, TypedSelection, CalmSelection

\* A value ends no loop by itself.
LEMMA CalmValue ==
    ASSUME NEW ctx, NEW v, Typed(ctx, v), v # Panic
    PROVE  CalmItem(v)
  <1>1. ~Has(v, "abort")
    BY Shapes DEF Typed, Has
  <1> QED
    BY <1>1 DEF CalmItem

LEMMA CalmFor ==
    ASSUME NEW ctx, NEW g, NEW e, NEW env, NEW results, NEW strings,
           Given_(ctx, g, e, env, results, strings), e.op = "for"
    PROVE  evaluate_expr(ctx, g, e, env) # Panic
  <1> USE DEF Given_
  <1>1. e.set \in Seq(Nat) /\ e.body \in Expression
    BY ExpressionsAssumption DEF ExpressionOK
  <1> DEFINE rs == ForBodies(g, e, env)
             N == Len(e.set)
             sel == SelectionOf(g, e, env, N)
  <1>2. N \in Nat /\ DOMAIN rs = 1 .. N
    BY <1>1 DEF ForBodies
  <1>3. ASSUME NEW i \in 1 .. N
        PROVE  CalmItem(rs[i])
    <2> DEFINE inner == [env EXCEPT !.selected = e.set[i]]
    <2>1. e.set[i] \in Nat /\ e.set[i] <= strings
      <3>1. e.set[i] \in Each(e.set)
        BY <1>1 DEF Each
      <3>2. Each(e.set) \subseteq 0 .. strings
        BY DEF InReach
      <3> QED
        BY <3>1, <3>2 DEF Room
    <2>2. inner \in Env /\ inner.selected = e.set[i]
      BY <2>1 DEF Env
    <2>3. rs[i] = g[e.body][inner]
      BY <1>1 DEF ForBodies
    <2>4. e.body \in Parts(e)
      BY DEF Parts
    <2> HIDE DEF inner, rs
    <2>5. rs[i] # Panic
      BY <2>1, <2>2, <2>3, <2>4 DEF Calm
    <2> QED
      BY <1>1, <2>2, <2>3, <2>5, CalmValue DEF WellTyped
  <1>4. Selection(ctx, sel) /\ sel # Panic
    BY <1>2, CalmSelected
  <1>5. evaluate_expr(ctx, g, e, env) = WithSelection(sel, rs)
    BY LoopArms
  <1> HIDE DEF rs, N, sel
  <1>6. Len(rs) = N
    BY <1>2, LenOfDomain
  <1> QED
    BY <1>2, <1>3, <1>4, <1>5, <1>6, CalmWithSelection

LEMMA CalmForRules ==
    ASSUME NEW ctx, NEW g, NEW e, NEW env, NEW results, NEW strings,
           Given_(ctx, g, e, env, results, strings), e.op = "for_rules"
    PROVE  evaluate_expr(ctx, g, e, env) # Panic
  <1> USE DEF Given_
  <1>1. e.set \in Seq(Nat) /\ e.already_matched \in Nat
    BY ExpressionsAssumption DEF ExpressionOK
  <1> DEFINE rs == ForRulesBodies(ctx, e)
             N == e.already_matched + Len(e.set)
             sel == SelectionOf(g, e, env, Len(e.set) + e.already_matched)
  <1>2. N \in Nat /\ DOMAIN rs = 1 .. N /\ Len(e.set) + e.already_matched \in Nat
    BY <1>1 DEF ForRulesBodies
  <1>3. ASSUME NEW i \in 1 .. N
        PROVE  CalmItem(rs[i])
    <2>1. Typed(ctx, Yes) /\ Yes # Panic
      BY TypedFacts, NotPanics DEF Yes
    <2>2. i <= e.already_matched => rs[i] = Yes
      BY DEF ForRulesBodies, Yes
    <2>3. ~(i <= e.already_matched) =>
             /\ rs[i] = PreviousResult(ctx, e.set[i - e.already_matched])
             /\ e.set[i - e.already_matched] \in 1 .. results
      <3> SUFFICES ASSUME ~(i <= e.already_matched)
                   PROVE  /\ rs[i] = PreviousResult(ctx, e.set[i - e.already_matched])
                          /\ e.set[i - e.already_matched] \in 1 .. results
        OBVIOUS
      <3>1. i - e.already_matched \in 1 .. Len(e.set)
        BY <1>1
      <3>2. e.set[i - e.already_matched] \in Each(e.set)
        BY <1>1, <3>1 DEF Each
      <3>3. rs[i] = PreviousResult(ctx, e.set[i - e.already_matched])
        BY DEF ForRulesBodies
      <3> QED
        BY <3>2, <3>3 DEF InReach
    <2> HIDE DEF rs
    <2>4. CASE i <= e.already_matched
      BY <2>1, <2>2, <2>4, CalmValue
    <2>5. CASE ~(i <= e.already_matched)
      <3>1. rs[i] # Panic
        BY <2>3, <2>5, CalmPrevious
      <3>2. Typed(ctx, rs[i])
        BY <2>3, <2>5, TypedPrevious
      <3> QED
        BY <3>1, <3>2, CalmValue
    <2> QED
      BY <2>4, <2>5
  <1>4. Selection(ctx, sel) /\ sel # Panic
    BY <1>2, CalmSelected
  <1>5. evaluate_expr(ctx, g, e, env) = WithSelection(sel, rs)
    BY LoopArms
  <1> HIDE DEF rs, N, sel
  <1>6. Len(rs) = N
    BY <1>2, LenOfDomain
  <1> QED
    BY <1>2, <1>3, <1>4, <1>5, <1>6, CalmWithSelection

\* A walk in which no item is a panic.
CalmWalk(items) == \A i \in DOMAIN items : Has(items[i], "abort") => items[i].abort # Panic

LEMMA CalmItems ==
    ASSUME NEW ctx, NEW g, NEW e, NEW env, NEW results, NEW strings,
           Given_(ctx, g, e, env, results, strings), e.op = "for_in"
    PROVE  CalmWalk(ItemsOf(g, e, env))
  <1> USE DEF Given_
  <1>0. ExpressionOK(e)
    BY ExpressionsAssumption
  <1>1. CASE e.iterator = "module" /\ e.module \in Expression
    <2> DEFINE v == Val(g, e.module, env)
               p == IF IsPoison(v) THEN v ELSE Undefined
    <2>1. v # Panic
      <3>1. e.module \in Parts(e)
        BY <1>1 DEF Parts
      <3> QED
        BY <3>1 DEF Calm, Val
    <2>2. p # Panic
      BY <2>1, NotPanics
    <2>3. ItemsOf(g, e, env) = ModuleElements(v)
      BY <1>1 DEF ItemsOf
    <2>4. \A i \in DOMAIN ModuleElements(v) :
             \/ \E x : ModuleElements(v)[i] = Binding(x)
             \/ ModuleElements(v)[i] = Abort(p)
      <3>1. CASE Has(v, "array")
        BY <3>1 DEF ModuleElements
      <3>2. CASE ~Has(v, "array") /\ Has(v, "dict")
        BY <3>2 DEF ModuleElements
      <3>3. CASE ~Has(v, "array") /\ ~Has(v, "dict")
        <4>1. ModuleElements(v) = <<Abort(p)>>
          BY <3>3 DEF ModuleElements
        <4> HIDE DEF p
        <4> QED
          BY <4>1
      <3> QED
        BY <3>1, <3>2, <3>3
    <2> HIDE DEF v, p
    <2> QED
      BY <2>2, <2>3, <2>4, AbortFacts, NoAbort DEF CalmWalk
  <1>2. CASE e.iterator = "list" /\ e.items \in Seq(Expression)
    <2> DEFINE vs == Vals(g, e.items, env)
    <2>1. ItemsOf(g, e, env) = [i \in DOMAIN vs |-> ListElement(vs[i])]
      BY <1>2 DEF ItemsOf, ListElements
    <2>2. \A i \in DOMAIN vs : vs[i] # Panic
      <3>1. \A i \in DOMAIN e.items : e.items[i] \in Parts(e)
        BY <1>2 DEF Parts, Each
      <3> QED
        BY <3>1 DEF Calm, Vals
    <2> HIDE DEF vs
    <2>3. \A v : v # Panic /\ Has(ListElement(v), "abort") => ListElement(v).abort # Panic
      BY AbortFacts, NoAbort, NotPanics DEF ListElement
    <2> QED
      BY <2>1, <2>2, <2>3 DEF CalmWalk
  <1>3. CASE e.iterator = "range" /\ e.items \in Seq(Expression) /\ Len(e.items) = 2
    <2> DEFINE from == Num(g, e.items[1], env)
               to == Num(g, e.items[2], env)
    <2>1. ItemsOf(g, e, env) = RangeElements(from, to)
      <3>1. Vals(g, e.items, env)[1] = g[e.items[1]][env]
            /\ Vals(g, e.items, env)[2] = g[e.items[2]][env]
        BY <1>3 DEF Vals
      <3> QED
        BY <1>3, <3>1 DEF ItemsOf, ListElements, Num
    <2>2. from # Panic /\ to # Panic
      <3>1. e.items[1] \in Parts(e) /\ e.items[2] \in Parts(e)
        BY <1>3 DEF Parts, Each
      <3> QED
        BY <3>1, NotPanics DEF Calm, Num
    <2> HIDE DEF from, to
    <2>3. \A i \in DOMAIN RangeElements(from, to) :
             \/ \E x : RangeElements(from, to)[i] = Binding(x)
             \/ RangeElements(from, to)[i] \in {Abort(from), Abort(to), Abort(Undefined)}
      <3>1. CASE IsPoison(from)
        BY <3>1 DEF RangeElements
      <3>2. CASE ~IsPoison(from) /\ IsPoison(to)
        BY <3>2 DEF RangeElements
      <3>3. CASE ~IsPoison(from) /\ ~IsPoison(to) /\ from.int > to.int
        BY <3>3 DEF RangeElements
      <3>4. CASE ~IsPoison(from) /\ ~IsPoison(to) /\ ~(from.int > to.int)
        BY <3>4 DEF RangeElements
      <3> QED
        BY <3>1, <3>2, <3>3, <3>4
    <2> QED
      BY <2>1, <2>2, <2>3, AbortFacts, NoAbort, NotPanics DEF CalmWalk
  <1> QED
    BY <1>0, <1>1, <1>2, <1>3 DEF ExpressionOK

LEMMA CalmForIn ==
    ASSUME NEW ctx, NEW g, NEW e, NEW env, NEW results, NEW strings,
           Given_(ctx, g, e, env, results, strings), e.op = "for_in"
    PROVE  evaluate_expr(ctx, g, e, env) # Panic
  <1> USE DEF Given_
  <1>1. e.body \in Expression
    BY ExpressionsAssumption DEF ExpressionOK
  <1> DEFINE items == ItemsOf(g, e, env)
             rs == ForInBodies(g, e, env)
             sel == SelectionOf(g, e, env, 0)
  <1>2. PICK N \in Nat : DOMAIN items = 1 .. N
                         /\ \A i \in 1 .. N : ItemOK(ctx, items[i])
    BY TypedItems DEF WalkOK
  <1>3. DOMAIN rs = 1 .. N /\ \A i \in 1 .. N : rs[i] = BodyOf(g, e, env, items[i])
    BY <1>2 DEF ForInBodies
  <1>4. CalmWalk(items)
    BY CalmItems
  <1> HIDE DEF items
  <1>5. ASSUME NEW i \in 1 .. N
        PROVE  CalmItem(rs[i])
    <2>1. ItemOK(ctx, items[i])
      BY <1>2
    <2>2. rs[i] = BodyOf(g, e, env, items[i])
      BY <1>3
    <2> HIDE DEF rs
    <2>3. CASE Has(items[i], "abort")
      <3>1. rs[i] = items[i]
        BY <2>1, <2>2, <2>3, BodyAborts
      <3>2. items[i].abort # Panic
        BY <1>2, <1>4, <2>3 DEF CalmWalk
      <3>3. ~Has(Panic, "abort")
        BY DEF Panic, Poison, Has
      <3> QED
        BY <2>3, <3>1, <3>2, <3>3 DEF CalmItem
    <2>4. CASE ~Has(items[i], "abort")
      <3> DEFINE inner == Inner(env, items[i])
      <3>1. rs[i] = g[e.body][inner] /\ inner \in Env
        BY <2>1, <2>2, <2>4, BodyBinds
      <3>2. inner.selected = env.selected
        BY DEF Inner, Env
      <3>3. e.body \in Parts(e)
        BY DEF Parts
      <3> HIDE DEF inner
      <3>4. rs[i] # Panic
        BY <3>1, <3>2, <3>3 DEF Calm
      <3> QED
        BY <1>1, <3>1, <3>4, CalmValue DEF WellTyped
    <2> QED
      BY <2>3, <2>4
  <1>6. Selection(ctx, sel) /\ sel # Panic
    BY CalmSelected
  <1>7. evaluate_expr(ctx, g, e, env) = UndefinedIsFalse(WithSelection(sel, rs))
    BY LoopArms
  <1> HIDE DEF rs, sel
  <1>8. WithSelection(sel, rs) # Panic
    <2>1. Len(rs) = N
      BY <1>3, LenOfDomain
    <2> QED
      BY <1>5, <1>6, <2>1, CalmWithSelection
  <1> QED
    BY <1>7, <1>8, NotPanics DEF UndefinedIsFalse

LEMMA CalmEvaluation ==
    ASSUME NEW ctx, ContextOK(ctx), NEW g, WellTyped(ctx, g),
           NEW e \in Expression, NEW env \in Env, NEW results, NEW strings,
           Room(ctx, results, strings), env.selected <= strings,
           InReach(e, results, strings), Calm(g, e, strings)
    PROVE  evaluate_expr(ctx, g, e, env) # Panic
  <1>1. CASE e \in ctx.expired
    BY <1>1, Expired, NotPanics
  <1>2. CASE e \notin ctx.expired
    <2>0. ExpressionOK(e) /\ Given_(ctx, g, e, env, results, strings)
      BY <1>2, ExpressionsAssumption DEF Given_
    <2>1. CASE e.op \in {"filesize", "entrypoint", "integer", "bytes", "boolean",
                         "external", "rule"}
      BY <2>0, <2>1, CalmLeaves
    <2>2. CASE e.op \in {"read_integer", "variable", "count", "variable_at", "offset",
                         "length", "count_in", "variable_in"}
      BY <2>0, <2>2, CalmVariables
    <2>3. CASE e.op \in {"neg", "arith", "cmp", "eq", "string_op", "not", "defined"}
      BY <2>0, <2>3, CalmOperators
    <2>4. CASE e.op \in {"and", "or"}
      BY <2>0, <2>4, CalmConnective
    <2>5. CASE e.op = "module"
      BY <2>0, <2>5, CalmModule
    <2>6. CASE e.op = "for"
      BY <2>0, <2>6, CalmFor
    <2>7. CASE e.op = "for_in"
      BY <2>0, <2>7, CalmForIn
    <2>8. CASE e.op = "for_rules"
      BY <2>0, <2>8, CalmForRules
    <2> QED
      BY <2>0, <2>1, <2>2, <2>3, <2>4, <2>5, <2>6, <2>7, <2>8 DEF ExpressionOK
  <1> QED
    BY <1>1, <1>2

\* What fits in n nested evaluations, for n up to m.
FitsIn(f, n, x, results, strings) ==
    n # 0 /\ InReach(x, results, strings) /\ Parts(x) \subseteq f[n - 1]
IsFitting(m, f, results, strings) ==
    f = [n \in 0 .. m |-> {x \in Expression : FitsIn(f, n, x, results, strings)}]

LEMMA FittingExists ==
    ASSUME NEW results, NEW strings
    PROVE  \A m \in Nat : \E f : IsFitting(m, f, results, strings)
  <1> DEFINE S == {m \in Nat : \E f : IsFitting(m, f, results, strings)}
             Deep(f, n) == {x \in Expression : FitsIn(f, n, x, results, strings)}
  <1>1. 0 \in S
    <2> DEFINE f == [n \in 0 .. 0 |-> {}]
    <2>1. \A n \in 0 .. 0 : f[n] = Deep(f, n)
      <3>1. \A x : ~FitsIn(f, 0, x, results, strings)
        BY DEF FitsIn
      <3>2. f[0] = {} /\ \A n \in 0 .. 0 : n = 0
        OBVIOUS
      <3> HIDE DEF f
      <3> QED
        BY <3>1, <3>2
    <2>2. f = [n \in 0 .. 0 |-> f[n]]
      OBVIOUS
    <2> HIDE DEF f
    <2>3. f = [n \in 0 .. 0 |-> Deep(f, n)]
      <3> HIDE DEF Deep
      <3> QED
        BY <2>1, <2>2
    <2> QED
      BY <2>3 DEF IsFitting
  <1>2. ASSUME NEW m \in Nat, m \in S
        PROVE  m + 1 \in S
    <2>1. PICK f : IsFitting(m, f, results, strings)
      BY <1>2
    <2> DEFINE One(h) == {x \in Expression : InReach(x, results, strings)
                                             /\ Parts(x) \subseteq h}
               g == [n \in 0 .. m + 1 |-> IF n = m + 1 THEN One(f[m]) ELSE f[n]]
    <2>2. \A n \in 0 .. m : f[n] = Deep(f, n)
      BY <2>1 DEF IsFitting
    <2>3. \A n \in Nat : \A h : n # 0 => Deep(h, n) = One(h[n - 1])
      BY DEF FitsIn
    <2>4. \A h, k : Deep(h, 0) = Deep(k, 0)
      BY DEF FitsIn
    <2> HIDE DEF Deep, One
    <2>5. ASSUME NEW n \in 0 .. m + 1
          PROVE  g[n] = Deep(g, n)
      <3>1. CASE n = m + 1
        <4>1. g[n - 1] = f[m] /\ n # 0 /\ n \in Nat
          BY <3>1
        <4>2. g[n] = One(f[m])
          BY <3>1
        <4> HIDE DEF g
        <4> QED
          BY <2>3, <4>1, <4>2
      <3>2. CASE n # m + 1
        <4>1. n \in 0 .. m /\ n \in Nat /\ (n # 0 => n - 1 \in 0 .. m)
          BY <3>2
        <4>2. g[n] = f[n] /\ (n # 0 => g[n - 1] = f[n - 1])
          BY <3>2, <4>1
        <4> HIDE DEF g
        <4>3. f[n] = Deep(f, n)
          BY <2>2, <4>1
        <4>4. CASE n = 0
          BY <2>4, <4>2, <4>3, <4>4
        <4>5. CASE n # 0
          BY <2>3, <4>1, <4>2, <4>3, <4>5
        <4> QED
          BY <4>4, <4>5
      <3> QED
        BY <3>1, <3>2
    <2>6. g = [n \in 0 .. m + 1 |-> g[n]]
      OBVIOUS
    <2> HIDE DEF g
    <2>7. g = [n \in 0 .. m + 1 |-> Deep(g, n)]
      BY <2>5, <2>6
    <2> QED
      BY <2>7 DEF IsFitting, Deep
  <1> HIDE DEF S
  <1>3. Nat \subseteq S
    BY <1>1, <1>2, SetInduction
  <1> QED
    BY <1>3 DEF S

LEMMA FittingSteps ==
    ASSUME NEW results, NEW strings
    PROVE  \E f :
              /\ f[0] = {}
              /\ \A n \in 0 .. StackDepth - 1 : \A x :
                    x \in f[n + 1] <=> /\ x \in Expression
                                      /\ InReach(x, results, strings)
                                      /\ Parts(x) \subseteq f[n]
              /\ \A e : Fits(e, results, strings) <=> e \in f[StackDepth]
  <1> DEFINE F == CHOOSE f : IsFitting(StackDepth, f, results, strings)
  <1>1. IsFitting(StackDepth, F, results, strings)
    <2>1. \E f : IsFitting(StackDepth, f, results, strings)
      BY FittingExists, StackDepthAssumption
    <2> QED
      BY <2>1
  <1>2. \A e : Fits(e, results, strings) <=> e \in F[StackDepth]
    BY DEF Fits, IsFitting, FitsIn
  <1> HIDE DEF F
  <1>3. \A n \in 0 .. StackDepth :
           F[n] = {x \in Expression : FitsIn(F, n, x, results, strings)}
    BY <1>1 DEF IsFitting
  <1>4. F[0] = {}
    <2>1. \A x : ~FitsIn(F, 0, x, results, strings)
      BY DEF FitsIn
    <2> QED
      BY <1>3, <2>1, StackDepthAssumption
  <1>5. ASSUME NEW n \in 0 .. StackDepth - 1, NEW x
        PROVE  x \in F[n + 1] <=> /\ x \in Expression
                                 /\ InReach(x, results, strings)
                                 /\ Parts(x) \subseteq F[n]
    <2>1. n + 1 \in 0 .. StackDepth /\ (n + 1) - 1 = n /\ n + 1 # 0
      BY StackDepthAssumption
    <2>2. x \in F[n + 1] <=> x \in Expression /\ FitsIn(F, n + 1, x, results, strings)
      BY <1>3, <2>1
    <2> QED
      BY <2>1, <2>2 DEF FitsIn
  <1> QED
    BY <1>2, <1>4, <1>5

\* An expression of three levels fits, where each of them names what exists.
Within(e, results, strings) == e \in Expression /\ InReach(e, results, strings)

LEMMA ThreeLevelsFit ==
    ASSUME StackDepth >= 3, NEW e, NEW results, NEW strings, Within(e, results, strings),
           \A x \in Parts(e) :
              /\ Within(x, results, strings)
              /\ \A y \in Parts(x) : Within(y, results, strings) /\ Parts(y) = {}
    PROVE  Fits(e, results, strings)
  <1>1. PICK f :
           /\ f[0] = {}
           /\ \A n \in 0 .. StackDepth - 1 : \A x :
                 x \in f[n + 1] <=> /\ x \in Expression
                                   /\ InReach(x, results, strings)
                                   /\ Parts(x) \subseteq f[n]
           /\ \A x : Fits(x, results, strings) <=> x \in f[StackDepth]
    BY FittingSteps
  <1> DEFINE a == StackDepth - 3
             b == StackDepth - 2
             c == StackDepth - 1
  <1>2. /\ {a, b, c} \subseteq 0 .. StackDepth - 1
        /\ a + 1 = b /\ b + 1 = c /\ c + 1 = StackDepth
    BY StackDepthAssumption
  <1> HIDE DEF a, b, c
  <1>3. \A x \in Parts(e) : \A y \in Parts(x) : y \in f[b]
    BY <1>1, <1>2 DEF Within
  <1>4. \A x \in Parts(e) : x \in f[c]
    BY <1>1, <1>2, <1>3 DEF Within
  <1> QED
    BY <1>1, <1>2, <1>4 DEF Within

\* A condition that fits its scan does not panic, whatever the scan gives it to
\* read: no index is out of the bounds of the results and of the strings, and the
\* stack is deep enough.
LEMMA EvaluationsDoNotPanic ==
    ASSUME NEW ctx, ContextOK(ctx), NEW e \in Expression, NEW results, NEW strings,
           Room(ctx, results, strings), Fits(e, results, strings)
    PROVE  Eval(ctx, e) # Panic
  <1> DEFINE start == [selected |-> 0, stack |-> <<>>]
  <1>1. PICK f :
           /\ \A x \in Expression : \A env \in Env : f[0][x][env] = Panic
           /\ \A n \in 0 .. StackDepth - 1 :
                 \A x \in Expression : \A env \in Env :
                    f[n + 1][x][env] = evaluate_expr(ctx, f[n], x, env)
           /\ \A x : Eval(ctx, x) = f[StackDepth][x][start]
    BY WithinSteps
  <1>2. PICK h :
           /\ h[0] = {}
           /\ \A n \in 0 .. StackDepth - 1 : \A x :
                 x \in h[n + 1] <=> /\ x \in Expression
                                   /\ InReach(x, results, strings)
                                   /\ Parts(x) \subseteq h[n]
           /\ \A x : Fits(x, results, strings) <=> x \in h[StackDepth]
    BY FittingSteps
  <1> DEFINE Fine(n) ==
                /\ WellTyped(ctx, f[n])
                /\ \A x \in h[n] : \A env \in Env :
                      env.selected <= strings => f[n][x][env] # Panic
             G == {n \in Nat : n <= StackDepth => Fine(n)}
  <1>3. 0 \in G
    BY <1>1, <1>2, TypedFacts DEF WellTyped
  <1>4. ASSUME NEW n \in Nat, n \in G
        PROVE  n + 1 \in G
    <2> SUFFICES ASSUME n + 1 <= StackDepth
                 PROVE  Fine(n + 1)
      OBVIOUS
    <2>1. n \in 0 .. StackDepth - 1 /\ Fine(n)
      BY <1>4, StackDepthAssumption
    <2> HIDE DEF G
    <2>2. WellTyped(ctx, f[n + 1])
      BY <1>1, <2>1, TypedEvaluation DEF WellTyped
    <2>3. ASSUME NEW x \in h[n + 1], NEW env \in Env, env.selected <= strings
          PROVE  f[n + 1][x][env] # Panic
      <3>1. /\ x \in Expression /\ InReach(x, results, strings)
            /\ Parts(x) \subseteq h[n]
        BY <1>2, <2>1
      <3>2. Calm(f[n], x, strings)
        BY <2>1, <3>1 DEF Calm
      <3>3. f[n + 1][x][env] = evaluate_expr(ctx, f[n], x, env)
        BY <1>1, <2>1, <3>1
      <3> QED
        BY <2>1, <2>3, <3>1, <3>2, <3>3, CalmEvaluation
    <2> QED
      BY <2>2, <2>3
  <1>5. Nat \subseteq G
    <2> HIDE DEF G
    <2> QED
      BY <1>3, <1>4, SetInduction
  <1>6. Fine(StackDepth)
    BY <1>5, StackDepthAssumption
  <1>7. start \in Env /\ start.selected <= strings
    BY DEF Env, Room
  <1> QED
    BY <1>1, <1>2, <1>6, <1>7

=============================================================================
