------------------------------ MODULE RuleText -------------------------------
(* What the parser of rules should do, stated without any parser: how a syntax *)
(* tree is written, with the parentheses its operators need and no other, how  *)
(* deep it nests, and which modifiers a string may have.  Trees are those of   *)
(* RuleGrammar, but for the modifiers of a string, kept as the user wrote them.*)
EXTENDS RuleGrammar, FiniteSetsExt

CONSTANTS
    NumberText,     \* how the numbers that are not one digit are written
    TooLarge        \* the numbers, in NumberText, that overflow an integer

-----------------------------------------------------------------------------
(* Precedence, from the loosest operators; what is not an operator is an atom. *)

Precedence ==
    << {"or"}, {"and"}, {"not", "defined"}, {"variable", "of", "for"},
       {"eq", "ne", "contains", "icontains", "startswith", "istartswith",
        "endswith", "iendswith", "iequals", "matches"},
       {"le", "ge", "lt", "gt"},
       {"bor"}, {"bxor"}, {"band"}, {"shl", "shr"}, {"add", "sub"}, {"mul", "div", "mod"},
       {"neg", "bnot"} >>

NotLevel == 3
ItemLevel == 4
EqLevel == 5
PrimaryLevel == 7
UnaryLevel == 13
AtomLevel == 14

Atoms == {"true", "false", "filesize", "entrypoint", "read_integer", "int", "double", "bytes",
          "regex", "count", "offset", "length", "identifier"}

\* A part of an expression that is not one (a range, a set ...) takes the level
\* of the expression it is in.
LevelOf(op) ==
    CASE op \in Atoms -> AtomLevel
      [] \E i \in DOMAIN Precedence : op \in Precedence[i] ->
            CHOOSE i \in DOMAIN Precedence : op \in Precedence[i]
      [] OTHER -> ItemLevel

Spelling ==
    [eq |-> <<"=", "=">>, ne |-> <<"!", "=">>, le |-> <<"<", "=">>, ge |-> <<">", "=">>,
     lt |-> <<"<">>, gt |-> <<">">>, bor |-> <<"|">>, bxor |-> <<"^">>, band |-> <<"&">>,
     shl |-> <<"<", "<">>, shr |-> <<">", ">">>, add |-> <<"+">>, sub |-> <<"-">>,
     mul |-> <<"*">>, div |-> <<"\\">>, mod |-> <<"%">>, neg |-> <<"-">>, bnot |-> <<"~">>,
     list |-> <<"(">>, minus |-> <<"-">>]
Spelled(op) == IF op \in DOMAIN Spelling THEN Spelling[op] ELSE <<op>>

-----------------------------------------------------------------------------
(* The layout of a node: tokens, and children with the least level they may    *)
(* have without parentheses.  `calls` is the number of nested calls of         *)
(* boolean_expression and primary_expression that reading the child starts     *)
(* with; an operand is read in the call its operator is in.                    *)

Token(pieces) == [token |-> pieces]
Words(ws) == [i \in DOMAIN ws |-> Token(<<ws[i]>>)]
Child(e, min, calls) == [e |-> e, min |-> min, calls |-> calls]
Operand(e, min) == Child(e, min, 0)
Part(e) == Operand(e, 1)
Primary(e) == Child(e, PrimaryLevel, 1)
Boolean(e) == Child(e, 1, 1)
IsToken(item) == "token" \in DOMAIN item

Names(args) == [i \in DOMAIN args |-> args[i].op]
Parts(args) == [i \in DOMAIN args |-> Part(args[i])]
Name(node) == Names(node.args)
Separated(items, separator) ==
    FlattenSeq([i \in DOMAIN items |-> IF i = 1 THEN <<items[i]>> ELSE <<Token(separator), items[i]>>])
InParentheses(items) == Words(<<"(">>) \o items \o Words(<<")">>)

LayoutOfFor(e) ==
    LET a == e.args
        in_order == IF a[2].op = "identifiers"
                    THEN <<Part(a[2]), Token(<<"in">>), Part(a[3])>>
                    ELSE <<Token(<<"of">>), Part(a[2])>>
    IN  <<Token(<<"for">>), Part(a[1])>> \o in_order
        \o <<Token(<<":">>)>> \o InParentheses(<<Boolean(Last(a))>>)

\* `x of set`: the selection is an operand here, and a primary expression after
\* `for`.
LayoutOfOf(e) ==
    LET a == e.args
        selection == IF a[1].op = "selection"
                     THEN <<Operand(a[1].args[1], EqLevel)>> \o Parts(Tail(a[1].args))
                     ELSE <<Part(a[1])>>
        where == IF Len(a) = 3 /\ a[3].op = "range" THEN <<Token(<<"in">>)>> ELSE <<>>
    IN  selection \o <<Token(<<"of">>), Part(a[2])>> \o where \o Parts(SubSeq(a, 3, Len(a)))

LayoutOfExpression(e) ==
    LET a == e.args
        level == LevelOf(e.op)
        sigil(s) == <<Token(<<s>> \o Name(a[1]))>>
        where == IF Len(a) = 2 /\ a[2].op = "range" THEN <<Token(<<"in">>)>> ELSE <<>>
        nth == IF a[2] = Number(1) THEN <<>> ELSE Words(<<"[">>) \o <<Primary(a[2])>> \o Words(<<"]">>)
    IN  CASE e.op \in {"or", "and"} ->
                Separated([i \in DOMAIN a |-> Operand(a[i], level + 1)], <<e.op>>)
          [] level \in {NotLevel, UnaryLevel} -> <<Token(Spelled(e.op)), Operand(a[1], level)>>
          [] level \in EqLevel .. UnaryLevel - 1 ->
                <<Operand(a[1], level), Token(Spelled(e.op)), Operand(a[2], level + 1)>>
          [] e.op = "int" ->
                LET n == e.args[1].op
                IN  <<Token(IF n \in DOMAIN NumberText THEN NumberText[n] ELSE <<n>>)>>
          [] e.op = "double" -> <<Token(Name(a[1]) \o <<".">> \o Name(a[2]))>>
          [] e.op \in {"bytes", "regex", "hex"} -> Words(Name(e))
          [] e.op = "variable" -> sigil("$") \o where \o Parts(Tail(a))
          [] e.op = "count" -> sigil("#") \o where \o Parts(Tail(a))
          [] e.op = "offset" -> sigil("@") \o nth
          [] e.op = "length" -> sigil("!") \o nth
          [] e.op = "read_integer" -> Words(Names(<<a[1]>>)) \o InParentheses(<<Primary(a[2])>>)
          [] e.op = "identifier" -> <<Token(Name(a[1]))>> \o Parts(Tail(a))
          [] e.op = "subfield" -> <<Token(<<".">> \o Name(a[1]))>>
          [] e.op = "subscript" -> Words(<<"[">>) \o <<Primary(a[1])>> \o Words(<<"]">>)
          [] e.op = "call" -> InParentheses(Separated([i \in DOMAIN a |-> Boolean(a[i])], <<",">>))
          [] e.op = "of" -> LayoutOfOf(e)
          [] e.op = "for" -> LayoutOfFor(e)
          [] e.op = "selection" -> <<Primary(a[1])>> \o Parts(Tail(a))
          [] e.op = "at" -> <<Token(<<"at">>), Primary(a[1])>>
          [] e.op = "range" -> InParentheses(<<Primary(a[1]), Token(<<".", ".">>), Primary(a[2])>>)
          [] e.op = "list" -> InParentheses(Separated([i \in DOMAIN a |-> Primary(a[i])], <<",">>))
          [] e.op \in {"set", "rules"} ->
                IF a = <<Leaf("them")>> THEN Words(<<"them">>)
                ELSE InParentheses(Separated(
                        [i \in DOMAIN a |-> Token((IF e.op = "set" THEN <<"$">> ELSE <<>>)
                                                 \o Name(a[i].args[1]) \o Names(Tail(a[i].args)))],
                        <<",">>))
          [] e.op = "identifiers" -> Separated([i \in DOMAIN a |-> Token(Name(a[i]))], <<",">>)
          [] OTHER -> Words(<<e.op>>)

-----------------------------------------------------------------------------
(* The layout of a rule, and of a file. *)

Section(keyword, parts) ==
    IF parts = <<>> THEN <<>> ELSE <<Token(<<keyword>>), Token(<<":">>)>> \o Parts(parts)

LayoutOfModifier(m) ==
    LET a == m.args
        words == Names(a)
    IN  CASE m.op = "xor" /\ a = <<Number(0), Number(MaxXor)>> -> Words(<<"xor">>)
          [] m.op = "xor" -> Words(<<"xor", "(">>) \o <<Part(a[1]), Token(<<"-">>), Part(a[2])>>
                             \o Words(<<")">>)
          [] m.op = "base64" -> Words(<<IF words[1] = "wide" THEN "base64wide" ELSE "base64">>)
                                \o IF Len(a) = 1 THEN <<>> ELSE InParentheses(Words(Tail(words)))
          [] OTHER -> Words(<<m.op>>)

LayoutOfRule(e) ==
    LET a == e.args
    IN  Parts(a[1].args) \o <<Token(<<"rule">>), Token(Name(a[2]))>>
        \o (IF a[3].args = <<>> THEN <<>> ELSE <<Token(<<":">>)>>)
        \o [i \in DOMAIN a[3].args |-> Token(Name(a[3].args[i]))]
        \o <<Token(<<"{">>)>> \o Section("meta", a[4].args) \o Section("strings", a[5].args)
        \o <<Token(<<"condition">>), Token(<<":">>), Boolean(a[6]), Token(<<"}">>)>>

Layout(e) ==
    LET a == e.args
    IN  CASE e.op = "rule" -> LayoutOfRule(e)
          [] e.op \in {"include", "import"} -> Words(<<e.op>> \o Names(a))
          [] e.op = "meta" -> <<Token(Name(a[1])), Token(<<"=">>), Part(a[2])>>
          [] e.op = "minus" -> <<Token(<<"-">>), Part(a[1])>>
          [] e.op = "string" -> <<Token(<<"$">> \o Name(a[1])), Token(<<"=">>), Part(a[2]), Part(a[3])>>
          [] e.op = "modifiers" -> FlattenSeq([i \in DOMAIN a |-> LayoutOfModifier(a[i])])
          [] OTHER -> LayoutOfExpression(e)

\* The tokens of a tree whose level must be at least `min`.
RECURSIVE Tokens(_, _)
Tokens(e, min) ==
    LET items == Layout(e)
        tokens == FlattenSeq([i \in DOMAIN items |->
                      IF IsToken(items[i]) THEN <<items[i].token>>
                      ELSE Tokens(items[i].e, items[i].min)])
    IN  IF LevelOf(e.op) >= min THEN tokens ELSE <<<<"(">>>> \o tokens \o <<<<")">>>>

FileTokens(file) == FlattenSeq([i \in DOMAIN file |-> Tokens(file[i], 1)])

\* The number of nested calls of the two counted functions that reading `e`
\* takes, from a call of primary_expression (`inside`) or of boolean_expression.
\* A call without arguments counts the argument that is looked for in it.
RECURSIVE Nesting(_, _, _)
Nesting(e, min, inside) ==
    LET level == LevelOf(e.op)
        grouped == level < min
        enters == ~inside /\ (grouped \/ level >= PrimaryLevel)
        within == ~grouped /\ (inside \/ level >= PrimaryLevel)
        children == SelectSeq(Layout(e), LAMBDA item : ~IsToken(item))
        nested(c) == IF c.calls = 0 THEN Nesting(c.e, c.min, within)
                     ELSE 1 + Nesting(c.e, c.min, c.min = PrimaryLevel)
    IN  (IF enters THEN 1 ELSE 0) + (IF grouped THEN 1 ELSE 0)
        + (IF e = Leaf("call") THEN 2 ELSE 0)
        + Max({0} \cup {nested(children[i]) : i \in DOMAIN children})

-----------------------------------------------------------------------------
(* The modifiers a string may have. *)

Kinds(written) == {written[i].op : i \in DOMAIN written}

\* Each modifier once, base64 and base64wide being two that must agree on the
\* alphabet, and no two that exclude each other.
ModifiersAreValid(written) ==
    /\ \A i, j \in DOMAIN written :
        i # j /\ written[i].op = written[j].op =>
            /\ written[i].op = "base64"
            /\ written[i].args[1] # written[j].args[1]
            /\ Tail(written[i].args) = Tail(written[j].args)
    /\ \A pair \in {{"xor", "nocase"}, {"xor", "base64"}, {"nocase", "base64"}, {"fullword", "base64"}} :
        ~(pair \subseteq Kinds(written))
    /\ \A i \in DOMAIN written :
        LET m == written[i]
        IN  /\ m.op = "xor" => \E f, t \in 0 .. 255 : f <= t /\ m.args = <<Number(f), Number(t)>>
            /\ m.op = "base64" => \A k \in 2 .. Len(m.args) : m.args[k].op \in Alphabet

\* The modifiers written, in any order, as the set they are.
Meaning(written) ==
    {<<m.op, {m.args[k] : k \in DOMAIN m.args}>> :
        m \in {written[i] : i \in {j \in DOMAIN written : written[j].op # "base64"}}}
    \cup {<<"base64", UNION {{written[i].args[k] : k \in DOMAIN written[i].args} :
                              i \in {j \in DOMAIN written : written[j].op = "base64"}}>>}
==============================================================================
