------------------------------ MODULE MCParser -------------------------------
EXTENDS Parser

MCLetter ==
    {"x", "y", "a", "rule", "private", "global", "meta", "strings", "condition", "import",
     "include", "wide", "ascii", "nocase", "fullword", "xor", "base64", "base64wide", "MB", "KB",
     "or", "and", "not", "defined", "for", "of", "in", "at", "any", "all", "none", "them", "true",
     "false", "filesize", "entrypoint", "contains", "icontains", "startswith", "istartswith",
     "endswith", "iendswith", "iequals", "matches", "uint8", "uint8be", "int16be", "uint32"}
MCDigit == {"0", "1", "2", "5"}
MCAlphanumeric == MCLetter \cup MCDigit

x == Tree("identifier", <<Tree("name", <<Leaf("x")>>)>>)
one == Number(1)
name(n) == Tree("name", <<Leaf(n)>>)
text_ == Tree("bytes", <<Leaf("'s'")>>)
regex_ == Tree("regex", <<Leaf("/r/")>>)
var(rest) == Tree("variable", <<name("a")>> \o rest)
them == Tree("set", <<Leaf("them")>>)
element(star) == Tree("element", <<name("a")>> \o star)
some == Tree("set", <<element(<<>>), element(<<Leaf("*")>>)>>)
rules == Tree("rules", <<element(<<>>), element(<<Leaf("*")>>)>>)
any_of == Tree("of", <<Leaf("any"), them>>)
range_(a, b) == Tree("range", <<a, b>>)
id(op) == Tree("identifier", <<name("x"), op>>)
selection(e) == Tree("selection", e)

double_ == Tree("double", <<Tree("digits", <<Leaf("1")>>), Tree("digits", <<Leaf("5")>>)>>)
too_large == Tree("int", <<Leaf("5242880")>>)

MCBudgets ==
    one :> 2 @@ var(<<>>) :> 1 @@ any_of :> 1
    @@ [c \in {x, text_, regex_, too_large, Tree("of", <<Leaf("all"), rules>>),
               id(Tree("call", <<>>))} |-> 1]
    @@ [c \in {Number(1024), Number(17), Number(9), double_} |-> 0]
    @@ Leaf("true") :> 3

BinaryOps ==
    {"eq", "ne", "contains", "icontains", "startswith", "iendswith", "iequals", "lt", "ge",
     "bor", "bxor", "band", "shl", "shr", "add", "sub", "mul", "div", "mod"}
UnaryOps == {"not", "defined", "neg", "bnot"}

FramesOf(e) ==
    {Tree(op, <<e, one>>) : op \in BinaryOps} \cup {Tree(op, <<x, e>>) : op \in BinaryOps}
    \cup {Tree(op, <<e>>) : op \in UnaryOps}
    \cup {Tree("matches", <<e, regex_>>)}
    \cup {Tree(op, <<e, x>>) : op \in {"and", "or"}} \cup {Tree(op, <<x, e, var(<<>>)>>) : op \in {"and", "or"}}
    \cup {var(<<Tree("at", <<e>>)>>), var(<<range_(e, one)>>), var(<<range_(x, e)>>),
          Tree("count", <<name("a"), range_(one, e)>>),
          Tree("offset", <<name("a"), e>>), Tree("length", <<name("a"), e>>),
          Tree("read_integer", <<Leaf("uint8"), e>>),
          id(Tree("subscript", <<e>>)), id(Tree("call", <<e, x>>)), id(Tree("call", <<x, e>>)),
          Tree("of", <<Leaf("none"), some, range_(one, e)>>),
          Tree("of", <<Leaf("any"), them, Tree("at", <<e>>)>>),
          Tree("of", <<selection(<<e>>), them>>),
          Tree("of", <<selection(<<e, Leaf("%")>>), some>>),
          Tree("of", <<selection(<<e>>), rules>>),
          Tree("for", <<Leaf("all"), them, e>>),
          Tree("for", <<selection(<<e, Leaf("%")>>), some, x>>),
          Tree("for", <<selection(<<e>>), Tree("identifiers", <<name("x"), name("y")>>),
                        id(Tree("subfield", <<name("y")>>)), x>>),
          Tree("for", <<Leaf("any"), Tree("identifiers", <<name("x")>>), Tree("list", <<e, one>>), x>>),
          Tree("for", <<Leaf("any"), Tree("identifiers", <<name("x")>>), range_(e, one), x>>),
          Tree("for", <<Leaf("any"), Tree("identifiers", <<name("x")>>), range_(one, x), e>>)}

MCFrames(e) == IF e = Leaf("true") THEN {} ELSE FramesOf(e)

xor(from, to) == Tree("xor", <<Number(from), Number(to)>>)
base64(args) == Tree("base64", [i \in DOMAIN args |-> Leaf(args[i])])
MCModifiers ==
    {Leaf(m) : m \in {"wide", "ascii", "nocase", "fullword", "private"}}
    \cup {xor(0, 255), xor(1, 2), xor(2, 1), xor(1, 1024)}
    \cup {base64(<<w>>) : w \in {"ascii", "wide"}}
    \cup {base64(<<w, alphabet>>) : w \in {"ascii", "wide"}, alphabet \in {"'64'", "'s'"}}
MCValues == {text_, regex_, Tree("hex", <<Leaf("{AA}")>>)}
MCTags == {name("x"), name("true")}
MCMetas ==
    {Tree("meta", <<name("x"), v>>) :
        v \in {text_, Number(1024), Tree("minus", <<Number(5)>>), Leaf("true")}}
    \cup {Tree("meta", <<name("strings"), one>>)}
MCFlags == {Leaf("private"), Leaf("global")}
MCComponents == {Tree("import", <<Leaf("'s'")>>), Tree("include", <<Leaf("'64'")>>)}

MCMaxRecursion == [expr |-> 5]
MCNumberText ==
    "1024" :> <<"1", "KB">> @@ "17" :> <<"0", "x", "1", "1">> @@ "9" :> <<"0", "o", "1", "1">>
    @@ "5242880" :> <<"5", "MB">> @@ "255" :> <<"2", "5", "5">> @@ "11" :> <<"1", "1">>
    @@ "55" :> <<"5", "5">>
==============================================================================
