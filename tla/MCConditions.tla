---------------------------- MODULE MCConditions ----------------------------
(* Conditions, from the text to their value.  A behaviour is one of            *)
(*   - a rule evaluated in its two passes, with a condition of two levels over *)
(*     two strings, $a (variable 1) and $b (variable 2), one earlier rule and  *)
(*     one value of a module (RulePasses);                                     *)
(*   - the loop of a for over four strings, step by step (ForLoop);            *)
(*   - a rule that is written construct by construct, and compiled (Typing).   *)
(* The other two do not start.                                                 *)
EXTENDS RulePasses, ForLoop, MCTyping

I(n) == [op |-> "integer", int |-> n]
B(b) == [op |-> "boolean", bool |-> b]
And(x, y) == [op |-> "and", ops |-> <<x, y>>]
Or(x, y)  == [op |-> "or", ops |-> <<x, y>>]
Negated(x) == [op |-> "not", e |-> x]
Defined(x) == [op |-> "defined", e |-> x]
Variable(v) == [op |-> "variable", var |-> v]
Count(v)    == [op |-> "count", var |-> v]
At(v, x)    == [op |-> "variable_at", var |-> v, offset |-> x]
In(v, x, y) == [op |-> "variable_in", var |-> v, from |-> x, to |-> y]
CountIn(v, x, y) == [op |-> "count_in", var |-> v, from |-> x, to |-> y]
Offset(v, x) == [op |-> "offset", var |-> v, nth |-> x]
Length(v, x) == [op |-> "length", var |-> v, nth |-> x]
Ge(x, y) == [op |-> "cmp", l |-> x, r |-> y, less_than |-> FALSE,
             can_be_equal |-> TRUE]
Eq(x, y) == [op |-> "eq", l |-> x, r |-> y, negated |-> FALSE]
Neg(x) == [op |-> "neg", e |-> x]
Calc(f, x, y) == [op |-> "arith", fn |-> f, l |-> x, r |-> y]
Read(x) == [op |-> "read_integer", addr |-> x]
Module(k) == [op |-> "module", bound |-> FALSE, iterated |-> FALSE,
              index |-> k, args |-> <<>>]
Walked(k) == [Module(k) EXCEPT !.iterated = TRUE]
Bound == [op |-> "module", bound |-> TRUE, iterated |-> FALSE, index |-> 1,
          args |-> <<>>]
Rule1 == [op |-> "rule", index |-> 1]

For(s, set, x) == [op |-> "for", selection |-> s, set |-> set, body |-> x]
ForIn(s, it, m, items, x) ==
    [op |-> "for_in", selection |-> s, iterator |-> it, module |-> m,
     items |-> items, body |-> x]
ForRules(s, set, n) ==
    [op |-> "for_rules", selection |-> s, set |-> set, already_matched |-> n]

Sel(kind) == [kind |-> kind]
SelExpr(x, percent) == [kind |-> "expr", expr |-> x, as_percent |-> percent]

\* Integers: constants, the least one, an undefined value, and three that
\* need the matches.
IntegerTerms == {I(1), I(-8), Module(1), Count(1)}
SelNumbers == {I(0), I(1), I(2), Module(1), Count(1)}
Selects == {Sel("any"), Sel("all"), Sel("none")}
           \cup {SelExpr(x, FALSE) : x \in SelNumbers}
           \cup {SelExpr(x, TRUE) : x \in {I(0), I(3)}}

Truths == {B(TRUE), B(FALSE), Module(1), Variable(1), Rule1}

\* Bodies of loops: `$` is variable 0, the bound identifier the first one.
ForBodies == {Variable(0), At(0, I(1)), Ge(Count(0), I(2)), Module(1)}
InBodies  == {Ge(Bound, I(2)), At(1, Bound), Ge(Count(1), Bound)}

NumberTerms ==
    {Offset(v, x) : v \in {1}, x \in IntegerTerms} \cup {Length(1, I(1))}
    \cup {Neg(x) : x \in IntegerTerms \cup {Neg(I(-8))}}
    \cup {Calc(f, x, y) : f \in {"add", "div"}, x \in {Count(1), I(-8)},
                          y \in {I(0), I(-1), Module(1), Count(1)}}
    \cup {CountIn(1, x, y) : x \in {I(0), Module(1)}, y \in {I(1), Count(1)}}
    \cup {Read(x) : x \in IntegerTerms}

Loops ==
    {For(s, <<1, 2>>, x) : s \in Selects, x \in ForBodies}
    \cup {ForIn(s, "range", B(TRUE), <<x, I(2)>>, y) :
             s \in Selects \ {SelExpr(x, TRUE) : x \in {I(0), I(3)}},
             x \in {I(1), I(3), Count(1), Module(1)}, y \in InBodies}
    \cup {ForIn(s, "module", Walked(2), <<>>, y) :
             s \in {Sel("any"), Sel("none")}, y \in InBodies}
    \cup {ForIn(s, "list", B(TRUE), <<x, I(1)>>, y) :
             s \in {Sel("any"), Sel("all"), Sel("none")},
             x \in {I(1), Count(1)}, y \in InBodies}
    \cup {ForRules(s, <<1>>, n) : s \in Selects, n \in {0, 1}}

Conditions1 ==
    Truths \cup Loops \cup NumberTerms
    \cup {Ge(x, I(1)) : x \in IntegerTerms \cup NumberTerms}
    \cup {Eq(x, y) : x \in {Count(1), Module(1)}, y \in IntegerTerms}
    \cup {At(1, x) : x \in IntegerTerms}
    \cup {In(1, x, y) : x \in {I(0), I(-8), Module(1)}, y \in {I(1), Count(1)}}
    \cup {And(x, y) : x \in Truths, y \in Truths}
    \cup {Or(x, y) : x \in Truths, y \in Truths}
    \cup {Negated(x) : x \in Truths} \cup {Defined(x) : x \in Truths \cup IntegerTerms}

\* The second level: an operand of every connective, and the body of a for.
Absorbed == Conditions1 \ {c \in Loops : c.op = "for_in"}
Conditions2 ==
    {And(x, y) : x \in Absorbed, y \in {Module(1), Variable(1)}}
    \cup {Or(y, x) : x \in Absorbed, y \in {B(FALSE), Variable(1)}}
    \cup {Negated(x) : x \in Conditions1} \cup {Defined(x) : x \in Conditions1}
    \cup {For(s, <<2, 1>>, Or(x, y)) :
             s \in Selects, x \in {Variable(0), Module(1)},
             y \in {Variable(1), For(Sel("all"), <<1, 2>>, Variable(0))}}

AllConditions == {c : c \in Conditions1 \cup Conditions2}
RuleConditions == AllConditions

SubExpressions ==
    IntegerTerms \cup SelNumbers
    \cup ForBodies \cup InBodies \cup NumberTerms
    \cup {I(n) : n \in -8 .. 7} \cup {Bound, Walked(2), Neg(I(-8))}
    \cup {Count(0)}
    \cup {Or(x, y) : x \in {Variable(0), Module(1)},
             y \in {Variable(1), For(Sel("all"), <<1, 2>>, Variable(0))}}

AllExpressions == {e : e \in RuleConditions \cup SubExpressions}
MCExpression == AllExpressions

Match(n) == [offset |-> n, length |-> 1]
MatchLists == {<<>>, <<Match(1)>>, <<Match(0), Match(2)>>}

AllContexts ==
    {[var_matches |-> [known |-> TRUE, of |-> <<a, b>>],
      previous |-> <<r>>,
      filesize |-> Integer(4), entrypoint |-> Undefined,
      memory |-> (0 :> 3 @@ 1 :> 5),
      modules |-> <<m, [array |-> <<Integer(1), Integer(2)>>]>>,
      externals |-> <<>>, expired |-> {}, overflow_checks |-> checks] :
        a \in MatchLists, b \in {<<>>, <<Match(1)>>},
        r \in {TRUE}, m \in {Undefined, Integer(1)}, checks \in BOOLEAN}
MCContexts == AllContexts

MCExpirations == {{}, {Variable(1)}, {Module(1)}, {Variable(0)}, {Count(1)}}

\* Every selection over four strings, and one of 5 that no set of four satisfies.
MCSelections == {All, None} \cup {Number(k) : k \in 1 .. 5}

-----------------------------------------------------------------------------
VARIABLE part      \* which of the three this behaviour is: "rule", "loop", "typing"

RuleIdle ==
    /\ condition = B(TRUE)
    /\ context = CHOOSE c \in AllContexts : TRUE
    /\ no_scan = "none" /\ full = "none"
LoopIdle ==
    LoopInit /\ selection = All /\ needs = {} /\ body = [e \in Elems |-> TRUE]
TypingIdle == InitOn(Bare(one)) /\ fail_on_warnings

MCInit ==
    \/ part = "rule"   /\ TypingIdle /\ LoopIdle /\ Init
    \/ part = "loop"   /\ TypingIdle /\ RuleIdle /\ LoopInit
    \/ part = "typing" /\ RuleIdle   /\ LoopIdle /\ TypingInit

MCNext ==
    \/ part = "rule"   /\ Next       /\ UNCHANGED <<part, loop_vars, typing_vars>>
    \/ part = "loop"   /\ LoopNext   /\ UNCHANGED <<part, vars, typing_vars>>
    \/ part = "typing" /\ TypingNext /\ UNCHANGED <<part, vars, loop_vars>>

MCSpec == MCInit /\ [][MCNext]_<<part, vars, loop_vars, typing_vars>>

=============================================================================
