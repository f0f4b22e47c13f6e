------------------------------ MODULE MCEngine ------------------------------
(* Two calls that add rules, in one or two namespaces, then one scan.         *)
EXTENDS Engine, TLC

Size(n) == [op |-> "filesize_ge", n |-> n]
String(name) == [op |-> "string", name |-> name]
Them == [op |-> "any_of_them"]
Id(name) == [op |-> "identifier", name |-> name]
Set(kind, elements) == [op |-> "rule_set", kind |-> kind, elements |-> elements]
One(name) == [name |-> name, is_wildcard |-> FALSE]
All(prefix) == [name |-> prefix, is_wildcard |-> TRUE]

Public(name) == [name |-> name, is_private |-> FALSE]
Private(name) == [name |-> name, is_private |-> TRUE]

ARule(name, is_global, strings, op, terms) ==
    [kind |-> "rule",
     rule |-> [name |-> name, is_global |-> is_global, is_private |-> name = "p",
               variables |-> strings, condition |-> [op |-> op, terms |-> terms]]]
Normal(name, strings, op, terms) == ARule(name, FALSE, strings, op, terms)
Global(name, strings, op, terms) == ARule(name, TRUE, strings, op, terms)
Import_(m) == [kind |-> "import", module |-> m]
File(f) == [kind |-> "include", file |-> f]

A   == Normal("a", <<Public("s")>>, "and", <<String("s")>>)
A2  == Normal("a2", <<Private("_t"), Public("u")>>, "or", <<Size(4), String("u")>>)
P   == Normal("p", <<>>, "and", <<Size(3)>>)
G   == Global("g", <<Public("s")>>, "and", <<String("s")>>)
A3  == Global("a3", <<>>, "and", <<Size(4)>>)
\* Names: an earlier rule, a symbol, a module, one of them hiding the others.
N   == Normal("n", <<>>, "and", <<Id("a")>>)
M   == Normal("m1", <<Public("s")>>, "or", <<Them, Id("m2")>>)
O   == Normal("o", <<>>, "and", <<Id("m1"), Size(3)>>)
AnyOf == Normal("any", <<>>, "and", <<Set("any", <<All("a")>>)>>)
AllOf == Normal("all", <<>>, "and", <<Set("all", <<One("g"), One("a")>>)>>)
NoneOf == Normal("w", <<>>, "and", <<Set("none", <<All("a"), One("p")>>)>>)
\* A global that reads a rule.
K   == Global("k", <<>>, "and", <<Id("a")>>)
\* A string that is not used, and one that is not declared.
Bad1 == Normal("x1", <<Public("s")>>, "and", <<Size(1)>>)
Bad2 == Normal("x2", <<>>, "and", <<String("s")>>)

Sources ==
    {<<A>>, <<A2, A>>, <<G>>, <<A3, P>>, <<A, N>>, <<N, A>>, <<P, NoneOf>>,
     <<A, K>>, <<AnyOf, A2>>, <<G, AllOf>>, <<AllOf, A2>>,
     <<Import_("m2"), M, O>>, <<Import_("m1"), Import_("m2"), M, O>>,
     <<M, Import_("m1"), O>>,
     <<File("f"), N>>, <<A3, File("h"), O>>, <<File("missing")>>,
     <<Bad1>>, <<A, Bad2>>}

AllCalls ==
    {[namespace |-> n, components |-> c] :
        n \in {"default"}, c \in Sources}
    \cup {[namespace |-> "ns", components |-> c] :
             c \in {<<A>>, <<A3, P>>, <<G, A>>, <<Import_("m2"), M, O>>}}
MCCalls == AllCalls

MCFiles == "f" :> <<P, A>> @@ "h" :> <<File("f"), A2>>

Names == {"a", "a2", "a3", "any", "all"}
MCStartsWith == {<<n, "a">> : n \in Names} \cup {<<"_t", "_">>}

-----------------------------------------------------------------------------
Variables ==
    UNION {{[rule |-> <<n, c.rule.name>>, name |-> v.name, is_private |-> v.is_private] :
                v \in {c.rule.variables[k] : k \in DOMAIN c.rule.variables}} :
              n \in {"default", "ns"}, c \in {A, A2, G, M, Bad1}}

Match(n) == [offset |-> n, length |-> 1]
Holding(rules_held) ==
    [v \in Variables |-> IF v.rule[2] \in rules_held
                         THEN <<Match(IF v.rule[1] = "ns" THEN 1 ELSE 0)>> ELSE <<>>]

Region(start, held, m1, m2) ==
    [start |-> start, fetched |-> TRUE, found |-> Holding(held),
     modules |-> "m1" :> m1 @@ "m2" :> m2,
     entrypoint |-> [poison |-> "Undefined"], memory |-> <<>>]

Undef == [poison |-> "Undefined"]
Value(n) == [int |-> n]
MemoryOf(direct, size, regions) ==
    [direct |-> direct, size |-> size, regions |-> regions,
     symbols |-> "m1" :> Value(1) @@ "a" :> Value(0)]

AllMemories ==
    {MemoryOf(TRUE, 3, <<Region(0, {"a", "m1"}, Value(1), Undef)>>),
     MemoryOf(TRUE, 4, <<Region(0, {"g", "a2"}, Value(0), Value(1))>>),
     MemoryOf(FALSE, 0, <<Region(0, {"g"}, Undef, Value(0)),
                          Region(9, {"a", "g"}, Value(1), Undef)>>)}
MCMemories == AllMemories

MCParams ==
    {[compute_full_matches |-> FALSE, timeout |-> FALSE,
      modules_dynamic_values |-> m, can_refetch_regions |-> FALSE] : m \in BOOLEAN}

-----------------------------------------------------------------------------
SizeGe(n) == [op |-> "cmp", l |-> [op |-> "filesize"],
              r |-> [op |-> "integer", int |-> n],
              less_than |-> FALSE, can_be_equal |-> TRUE]
Terms ==
    {SizeGe(n) : n \in 1 .. 4}
    \cup {[op |-> "variable", var |-> v] : v \in 1 .. 2}
    \cup {[op |-> "for", selection |-> [kind |-> "any"], set |-> s,
           body |-> [op |-> "variable", var |-> 0]] : s \in {<<1>>, <<1, 2>>}}
    \cup {[op |-> "rule", index |-> k] : k \in 1 .. 6}
    \cup {[op |-> "external", index |-> k] : k \in 1 .. 2}
    \cup {Module(k) : k \in 1 .. 2} \cup {GlobalHolds}
    \cup {[op |-> "for_rules", selection |-> [kind |-> k], set |-> s,
           already_matched |-> n] :
            k \in {"any", "all", "none"},
            s \in UNION {[1 .. l -> 1 .. 6] : l \in 0 .. 3}, n \in 0 .. 2}
Leaves == {[op |-> "filesize"], [op |-> "variable", var |-> 0]}
          \cup {[op |-> "integer", int |-> n] : n \in 1 .. 4}
Plain == {t \in Terms : t.op # "for_rules"}
AllExpressions ==
    Terms \cup Leaves
    \cup {[op |-> c, ops |-> <<t>>] : c \in {"and", "or"}, t \in Terms}
    \cup {[op |-> c, ops |-> <<t, u>>] : c \in {"and", "or"}, t \in Plain, u \in Plain}
MCExpression == AllExpressions
=============================================================================
