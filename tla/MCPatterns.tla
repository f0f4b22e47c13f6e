------------------------------ MODULE MCPatterns -------------------------------
EXTENDS Patterns

MCCode ==
    "0" :> 48 @@ "1" :> 49 @@ "2" :> 50 @@ "3" :> 51 @@ "4" :> 52 @@ "5" :> 53 @@ "6" :> 54
    @@ "7" :> 55 @@ "8" :> 56 @@ "9" :> 57
    @@ "A" :> 65 @@ "B" :> 66 @@ "D" :> 68 @@ "S" :> 83 @@ "W" :> 87
    @@ "a" :> 97 @@ "b" :> 98 @@ "c" :> 99 @@ "d" :> 100 @@ "e" :> 101 @@ "f" :> 102
    @@ "i" :> 105 @@ "n" :> 110 @@ "s" :> 115 @@ "w" :> 119 @@ "x" :> 120
    @@ "\n" :> 10 @@ " " :> 32 @@ "$" :> 36 @@ "(" :> 40 @@ ")" :> 41 @@ "*" :> 42 @@ "+" :> 43
    @@ "," :> 44 @@ "-" :> 45 @@ "." :> 46 @@ "/" :> 47 @@ "?" :> 63 @@ "[" :> 91 @@ "\\" :> 92
    @@ "]" :> 93 @@ "^" :> 94 @@ "{" :> 123 @@ "|" :> 124 @@ "}" :> 125 @@ "~" :> 126
    @@ "E9" :> 233
MCChar == DOMAIN MCCode
MCBlank == {" ", "\n"}
MCInsertions == {"?", "\\", "+", " "}
MCMaxRecursion == [inner |-> 3]

num(n) == Valued("u32", n)
lit(c) == Valued("literal", MCCode[c])
range_(a, b) == Tree("range", <<a, b>>)
class(items) == Tree("bracketed", items)
perl(c) == Tree("perl", <<Leaf(c)>>)
group_(e) == Tree("group", <<e>>)
accented == Valued("char", 233)
accented2 == Valued("escaped_char", 233)
a == lit("a")

Singles ==
    {a, lit("]"), Valued("literal", 10), Valued("literal", 233), Valued("escaped", 46),
     accented, accented2, Leaf("."), perl("S"),
     class(<<range_(a, Valued("literal", 233)), lit("-")>>),
     class(<<range_(lit("b"), a)>>),
     class(<<Leaf("negated"), perl("w"), Valued("escaped", 93), lit("^"), ClosingBracket>>),
     class(<<accented, a>>)}
Kinds ==
    {Leaf("*"), Leaf("+"), Leaf("?"), Tree("exactly", <<num(2)>>), Tree("exactly", <<num(314)>>),
     Tree("at_least", <<num(0)>>), Tree("at_least", <<num(3)>>), Tree("bounded", <<num(0), num(2)>>),
     Tree("bounded", <<num(2), num(15)>>), Tree("bounded", <<num(3), num(2)>>)}
Repetitions == {<<k>> : k \in Kinds} \cup {<<k, Leaf("lazy")>> : k \in Kinds}
Next_ == {lit("b"), accented, Leaf("$"), Leaf("\\B"), perl("d")}

Single(e) == e.op \notin {"alternation", "concat", "repetition", "empty", "^", "$", "\\b", "\\B"}
Item(e) == IF Single(e) THEN e ELSE group_(e)
Parts(e) ==
    CASE e.op = "alternation" -> <<group_(e)>>
      [] e.op = "concat" -> e.args
      [] e.op = "empty" -> <<>>
      [] OTHER -> <<e>>
Branches(e) == IF e.op = "alternation" THEN e.args ELSE <<e>>
NodeOf(op, parts) == IF Len(parts) = 1 THEN parts[1] ELSE Tree(op, parts)

RegexFrames(e) ==
    {group_(e)}
    \cup {Tree("repetition", <<Item(e)>> \o r) : r \in Repetitions}
    \cup {NodeOf("concat", Parts(e) \o <<p>>) : p \in Next_}
    \cup {NodeOf("concat", <<p>> \o Parts(e)) : p \in Next_}
    \cup {Tree("alternation", Branches(e) \o <<p>>) : p \in {lit("b"), Leaf("empty")}}
    \cup {Tree("alternation", <<Leaf("empty")>> \o Branches(e))}

byte_(b) == Valued("byte", b)
jump(from, to) == Tree("jump", <<num(from), num(to)>>)
HexTokens ==
    {byte_(161), Valued("any", 0), Valued("left", 10), Valued("right", 10),
     Tree("not", <<byte_(10)>>), Tree("not", <<Valued("left", 1)>>),
     Tree("not", <<Valued("right", 15)>>), Tree("not", <<Valued("any", 0)>>),
     Tree("jump", <<num(0)>>), Tree("jump", <<num(3)>>), jump(0, 5), jump(3, 5), jump(5, 3),
     jump(1, 1), jump(0, 0), jump(5, 27), jump(5, 5), Tree("jump", <<num(314)>>)}
alternatives_(ts) == Tree("alternatives", ts)
tokens_(ts) == Tree("tokens", ts)
HexFrames(p) ==
    {tokens_(p.args \o <<t>>) : t \in HexTokens}
    \cup {tokens_(<<t>> \o p.args) : t \in HexTokens}
    \cup {tokens_(<<alternatives_(<<p>>)>>)}
    \cup {tokens_(<<byte_(10), alternatives_(<<p, tokens_(<<byte_(16)>>)>>)>>)}

regex_(e, flags) == Tree("regex", <<e>> \o flags)
MCFrames(p) ==
    IF p.op = "tokens" THEN HexFrames(p) ELSE {regex_(e, Tail(p.args)) : e \in RegexFrames(p.args[1])}

MCBudgets ==
    [p \in {regex_(e, <<>>) : e \in {a, accented}} |-> 2]
    @@ [p \in {regex_(e, <<Leaf("i")>>) : e \in Singles} |-> 1]
    @@ [p \in {regex_(group_(group_(a)), <<Leaf("s")>>),
               regex_(group_(Tree("alternation", <<a, group_(Leaf("empty"))>>)), <<Leaf("i"), Leaf("s")>>)} |-> 1]
    @@ [p \in {tokens_(<<t>>) : t \in HexTokens} |-> 1]
    @@ [p \in {tokens_(<<byte_(16), t, byte_(16)>>) : t \in HexTokens} |-> 2]
    @@ [p \in {tokens_(<<alternatives_(<<tokens_(<<alternatives_(<<tokens_(<<byte_(16)>>)>>)>>)>>)>>)} |-> 1]
==============================================================================
