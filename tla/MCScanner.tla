----------------------------- MODULE MCScanner -----------------------------
(* Scanners of up to two globals (g1, g2) and two rules (r1, r2), where r2    *)
(* may refer to r1, with the variables laid out as Scanner evaluates them:    *)
(* those of the globals first.                                                *)
EXTENDS Scanner, TLC

B(b) == [op |-> "boolean", bool |-> b]
I(n) == [op |-> "integer", int |-> n]
Variable(v) == [op |-> "variable", var |-> v]
Count(v) == [op |-> "count", var |-> v]
At(v, n) == [op |-> "variable_at", var |-> v, offset |-> I(n)]
Size == [op |-> "filesize"]
Entry == [op |-> "entrypoint"]
Ge(x, n) == [op |-> "cmp", l |-> x, r |-> I(n), less_than |-> FALSE,
             can_be_equal |-> TRUE]
Read(n) == [op |-> "read_integer", addr |-> I(n)]
Module(k) == [op |-> "module", bound |-> FALSE, iterated |-> FALSE,
              index |-> k, args |-> <<>>]
Rule1 == [op |-> "rule", index |-> 1]
And(x, y) == [op |-> "and", ops |-> <<x, y>>]
Or(x, y)  == [op |-> "or", ops |-> <<x, y>>]
Not(x) == [op |-> "not", e |-> x]
Defined(x) == [op |-> "defined", e |-> x]

\* A rule without its name: its condition, and the number of its variables.
Shape(condition, nb_variables, is_private) ==
    [condition |-> condition, nb_variables |-> nb_variables,
     is_private |-> is_private]

GlobalShapes ==
    {Shape(B(TRUE), 0, TRUE), Shape(Ge(Size, 4), 0, FALSE),
     Shape(Variable(1), 1, FALSE), Shape(Or(Variable(1), Ge(Size, 4)), 1, FALSE),
     Shape(Defined(Module(1)), 0, FALSE), Shape(Rule1, 0, FALSE)}

GlobalShapesOf ==
    {<<>>} \cup {<<g>> : g \in GlobalShapes}
    \cup {<<g, Shape(Ge(Size, 4), 0, FALSE)>> : g \in GlobalShapes}
    \cup {<<g, Shape(Variable(1), 1, TRUE)>> : g \in GlobalShapes}

FirstShapes ==
    {Shape(B(TRUE), 0, FALSE), Shape(Ge(Module(1), 1), 0, FALSE),
     Shape(Ge(Count(1), 2), 1, FALSE),
     Shape(Or(At(1, 12), Variable(2)), 2, FALSE),
     Shape(And(Variable(1), Variable(2)), 2, TRUE)}

SecondShapes ==
    {Shape(Rule1, 0, FALSE), Shape(Or(Rule1, Variable(1)), 1, FALSE),
     Shape(And(Not(Variable(1)), Ge(Read(1), 2)), 1, FALSE),
     Shape(Ge(Entry, 1), 0, FALSE), Shape(And(Rule1, Ge(Count(1), 1)), 1, FALSE)}

Named(name, shape) ==
    [name |-> name, condition |-> shape.condition,
     nb_variables |-> shape.nb_variables, is_private |-> shape.is_private]

\* The first variable of every rule is public, the second one private.
DeclaredIn(rule) ==
    [k \in 1 .. rule.nb_variables |->
        [rule |-> rule.name, name |-> k, is_private |-> k = 2]]

ScannerOf(globals, rules) ==
    [global_rules |-> globals, rules |-> rules,
     variables |-> FlattenSeq([k \in DOMAIN (globals \o rules) |->
                                  DeclaredIn((globals \o rules)[k])])]

AllScanners ==
    {ScannerOf([k \in DOMAIN gs |-> Named(<<"g1", "g2">>[k], gs[k])],
               <<Named("r1", r1), Named("r2", r2)>>) :
        gs \in GlobalShapesOf, r1 \in FirstShapes, r2 \in SecondShapes}
MCScanners == AllScanners

RECURSIVE SubExpressions(_)
SubExpressions(e) ==
    {e} \cup
    (CASE e.op \in {"and", "or"} -> UNION {SubExpressions(x) : x \in Range(e.ops)}
       [] e.op = "cmp" -> SubExpressions(e.l) \cup SubExpressions(e.r)
       [] e.op \in {"not", "defined"} -> SubExpressions(e.e)
       [] e.op = "variable_at" -> {e.offset}
       [] e.op = "read_integer" -> {e.addr}
       [] OTHER -> {})

AllExpressions ==
    UNION {SubExpressions(s.condition) :
              s \in GlobalShapes \cup FirstShapes \cup SecondShapes
                    \cup {Shape(Variable(1), 1, TRUE)}}
MCExpression == AllExpressions

-----------------------------------------------------------------------------
AllVariables ==
    UNION {{DeclaredIn(Named(name, Shape(B(TRUE), 2, FALSE)))[k] : k \in {1, 2}} :
              name \in {"g1", "g2", "r1", "r2"}}

MatchAt(n) == [offset |-> n, length |-> 1]

\* Three contents of a region: which variables it holds, and where.
Nothing == [v \in AllVariables |-> <<>>]
Holds(at) ==
    [v \in AllVariables |->
        LET k == <<v.rule, v.name>> IN IF k \in DOMAIN at THEN at[k] ELSE <<>>]
Some_ == Holds(<<"g1", 1>> :> <<MatchAt(1)>> @@ <<"r1", 1>> :> <<MatchAt(0), MatchAt(2)>>
               @@ <<"r1", 2>> :> <<MatchAt(1)>>)
Others == Holds(<<"g2", 1>> :> <<MatchAt(0)>> @@ <<"r1", 1>> :> <<MatchAt(2)>>
                @@ <<"r2", 1>> :> <<MatchAt(1)>>)

Region(start, fetched, content, module, entry) ==
    [start |-> start, fetched |-> fetched, found |-> content,
     modules |-> <<module>>, entrypoint |-> entry,
     memory |-> [n \in start .. start + 2 |-> (n % 10) + 1]]

Direct(size, region) ==
    [direct |-> TRUE, size |-> size, externals |-> <<>>, regions |-> <<region>>]
Fragmented(regions) ==
    [direct |-> FALSE, size |-> 0, externals |-> <<>>, regions |-> regions]

AllInputs ==
    {Direct(3, Region(0, TRUE, Nothing, Integer(1), Undefined)),
     Direct(4, Region(0, TRUE, Some_, Undefined, Integer(0))),
     Direct(5, Region(0, TRUE, Others, Integer(1), Integer(2))),
     Fragmented(<<Region(0, TRUE, Some_, Undefined, Undefined),
                  Region(10, TRUE, Others, Integer(1), Integer(12))>>),
     Fragmented(<<Region(0, TRUE, Others, Undefined, Undefined),
                  Region(10, TRUE, Some_, Integer(0), Integer(11)),
                  Region(20, TRUE, Nothing, Integer(1), Integer(22))>>),
     Fragmented(<<Region(0, FALSE, Some_, Integer(1), Integer(1)),
                  Region(10, TRUE, Others, Undefined, Undefined)>>)}
MCInputs == AllInputs

Mode(modules, refetch) ==
    [modules_dynamic_values |-> modules, can_refetch_regions |-> refetch]
Legacy == Mode(TRUE, TRUE)
Fast == Mode(FALSE, FALSE)
SinglePass == Mode(TRUE, FALSE)

ParamsOf(full, mode, timeout) ==
    [compute_full_matches |-> full, timeout |-> timeout,
     modules_dynamic_values |-> mode.modules_dynamic_values,
     can_refetch_regions |-> mode.can_refetch_regions]

MCParams ==
    {ParamsOf(full, mode, TRUE) :
        full \in BOOLEAN, mode \in {Legacy, Fast, SinglePass}}

-----------------------------------------------------------------------------
\* The pass without matches of a fragmented memory finds no entrypoint, which
\* the scan of the regions may: rules that read it are left out of that case.
UsesEntrypoint == \E i \in DOMAIN Chain : Entry \in SubExpressions(Chain[i].condition)
MCInit ==
    /\ Init
    /\ ~(~input.direct /\ can_use_no_scan_optimization /\ UsesEntrypoint)
MCSpec == MCInit /\ [][Next]_vars
=============================================================================
