------------------------------- MODULE MCTyping -------------------------------
EXTENDS Typing

name(n) == Tree("name", <<Leaf(n)>>)
ab == Tree("name", <<Leaf("a"), Leaf("b")>>)
hidden == Tree("name", <<Leaf("_"), Leaf("a")>>)
anonymous == Tree("name", <<>>)

one == Tree("int", <<Leaf("1")>>)
half == Tree("double", <<Tree("digits", <<Leaf("0")>>), Tree("digits", <<Leaf("5")>>)>>)
text == Tree("bytes", <<Leaf("'s'")>>)
regex_ == Tree("regex", <<Leaf("/r/")>>)
accented == Tree("regex", <<Leaf("/e/")>>)
truth == Leaf("true")
id(n, ops) == Tree("identifier", <<name(n)>> \o ops)
field(n) == Tree("subfield", <<name(n)>>)
at_index(e) == Tree("subscript", <<e>>)
call(es) == Tree("call", es)
range_(e, f) == Tree("range", <<e, f>>)
var(rest) == Tree("variable", <<name("a")>> \o rest)
selected == Tree("variable", <<anonymous>>)
element(n, star) == Tree("element", <<n>> \o star)
star_ == <<Leaf("*")>>
them == Tree("set", <<Leaf("them")>>)
some == Tree("set", <<element(ab, <<>>), element(name("a"), star_)>>)
every == Tree("set", <<element(anonymous, star_)>>)
rules == Tree("rules", <<element(name("r"), star_), element(name("g"), <<>>)>>)
chosen(e) == Tree("selection", <<e>>)
percentage(e) == Tree("selection", <<e, Leaf("%")>>)
names(ns) == Tree("identifiers", ns)
for_in(ns, iterator, body) == Tree("for", <<Leaf("any"), names(ns), iterator, body>>)

item == Object(name("n") :> Type("integer") @@ name("t") :> Type("bytes"))
MCImportedModules ==
    name("m") :>
        [name |-> "m",
         static |-> name("k") :> Type("integer")
                    @@ name("o") :> Object(name("t") :> Type("bytes"))
                    @@ name("f") :> Function({<<"boolean">>, <<"bytes", "regex">>}, Type("integer"))
                    @@ name("g") :> Function({}, ArrayOf(item)),
         dynamic |-> name("arr") :> ArrayOf(item)
                     @@ name("dict") :> DictionaryOf(ArrayOf(Type("float")))
                     @@ name("h") :> Function({<<"integer">>}, DictionaryOf(Type("bytes")))
                     @@ name("fl") :> Type("float")]
MCRulesIndexes == name("r") :> 1 @@ Tree("name", <<Leaf("r"), Leaf("2")>>) :> 2 @@ name("g") :> 0
MCNonAsciiRegexes == {accented}
MCExternalSymbols == name("ext") :> "bytes" @@ name("num") :> "integer"

in_m(ops) == id("m", <<field(Head(ops))>> \o Tail(ops))

BinaryOps == IntegerBinary \cup {"contains", "add", "div", "lt", "eq"}
FramesOf(e) ==
    {Tree(op, <<e, p>>) : op \in BinaryOps \ (IntegerBinary \ {"mod"}), p \in {one, half, text, truth}}
    \cup {Tree(op, <<one, e>>) : op \in BinaryOps}
    \cup {Tree(op, <<e>>) : op \in {"neg", "bnot", "not", "defined"}}
    \cup {Tree("matches", <<e, r>>) : r \in {regex_, accented}}
    \cup {Tree(op, <<e, e>>) : op \in {"and", "or", "eq"}} \cup {Tree("and", <<selected, e>>)}
    \cup {Tree("read_integer", <<Leaf("uint8"), e>>), var(<<Tree("at", <<e>>)>>), var(<<range_(e, one)>>),
          Tree("count", <<ab, range_(one, e)>>), Tree("offset", <<anonymous, e>>),
          Tree("length", <<name("a"), e>>)}
    \cup {in_m(<<"f", call(<<e>>)>>), in_m(<<"f", call(<<e, regex_>>)>>), in_m(<<"f", call(<<text, e>>)>>),
          in_m(<<"g", call(<<>>), at_index(e), field("n")>>), in_m(<<"g", call(<<e>>)>>),
          in_m(<<"arr", at_index(e), field("t")>>), in_m(<<"arr", at_index(e)>>), in_m(<<"k", at_index(e)>>),
          in_m(<<"dict", at_index(e), at_index(one)>>), in_m(<<"dict", at_index(text), at_index(e)>>),
          in_m(<<"h", call(<<e>>), at_index(text)>>), in_m(<<"h", call(<<one>>), at_index(e)>>),
          id("m", <<at_index(e)>>), id("r", <<call(<<e>>)>>), id("ext", <<at_index(e)>>)}
    \cup {Tree("of", <<chosen(e), them>>), Tree("of", <<percentage(e), rules>>),
          Tree("of", <<Leaf("all"), some, range_(e, one)>>), Tree("of", <<Leaf("none"), every, Tree("at", <<e>>)>>)}
    \cup {Tree("for", <<s, set, e>>) : s \in {Leaf("any"), chosen(in_m(<<"k">>))}, set \in {some, every}}
    \cup {for_in(<<name("i")>>, range_(one, e), id("i", <<>>)),
          for_in(<<name("i")>>, Tree("list", <<one, e>>), id("i", <<>>)),
          for_in(<<name("i")>>, Tree("list", <<e, text>>), Tree("contains", <<id("i", <<>>), text>>)),
          for_in(<<name("i")>>, range_(one, one), e), for_in(<<name("j")>>, range_(one, one), e),
          for_in(<<name("i")>>, in_m(<<"arr">>), e), for_in(<<name("j"), name("i")>>, in_m(<<"dict">>), e),
          for_in(<<name("j")>>, id("i", <<>>), e), for_in(<<name("i")>>, in_m(<<"h", call(<<e>>)>>), truth),
          for_in(<<name("i"), name("j")>>, in_m(<<"h", call(<<e>>)>>), id("j", <<>>)),
          for_in(<<name("i")>>, in_m(<<"g", call(<<>>)>>), truth), for_in(<<name("i")>>, id("r", <<>>), truth),
          for_in(<<name("i"), name("i")>>, in_m(<<"dict">>), e)}
    \cup {Tree("and", <<for_in(<<name("i")>>, range_(one, one), truth), e>>)}
MCFrames(e) == FramesOf(e)

NewRule(c) == [tags |-> <<>>, variables |-> <<name("a"), ab>>, condition |-> c]
Bare(c) == [NewRule(c) EXCEPT !.variables = <<>>]
Atoms ==
    {one, half, text, regex_, accented, truth, Leaf("filesize"), var(<<>>), selected,
     id("i", <<field("t")>>), id("i", <<>>), id("j", <<at_index(one)>>), id("r", <<>>), id("g", <<>>),
     id("ext", <<>>), id("num", <<call(<<one>>)>>), id("zz", <<>>), in_m(<<"k">>), in_m(<<"o", field("t")>>),
     in_m(<<"o">>), in_m(<<"f">>), in_m(<<"fl">>), in_m(<<"fl", field("t")>>), in_m(<<"zz">>), Tree("of", <<Leaf("any"), them>>)}
Few == {one, text, selected, id("i", <<>>), id("i", <<field("t")>>), id("j", <<at_index(one)>>),
        in_m(<<"fl">>)}
MCBudgets ==
    [r \in {NewRule(c) : c \in Few} |-> 2] @@ [r \in {Bare(id("i", <<>>)), Bare(one)} |-> 2]
    @@ [r \in {NewRule(c) : c \in Atoms} |-> 1] @@ [r \in {Bare(c) : c \in Atoms} |-> 1]
    @@ [r \in {[Bare(one) EXCEPT !.tags = <<name("a"), name("a")>>]} |-> 0]
MCNewStrings == {name("a"), hidden, anonymous}
==============================================================================
