------------------------------ MODULE MCAcScan ------------------------------
(* Strings of every kind over the memories of a few bytes.                    *)
EXTENDS AcScan

Plain == [nocase |-> FALSE, wide |-> FALSE, ascii |-> TRUE, fullword |-> FALSE]
NoCase == [Plain EXCEPT !.nocase = TRUE]
Wide == [Plain EXCEPT !.wide = TRUE, !.ascii = FALSE]
WideAscii == [Plain EXCEPT !.wide = TRUE]
Full(m) == [m EXCEPT !.fullword = TRUE]

Text(s, m) == [text |-> s, modifiers |-> m]
Regex(e, m) == [expr |-> e, modifiers |-> m]

a == Literal(97)
b == Literal(98)
d == Literal(100)
x == Literal(120)
y == Literal(121)
AnyGreedy == Repetition(<<Dot>>, 0, 9, TRUE)
AnyLazy == Repetition(<<Dot>>, 0, 9, FALSE)
Gap(lo, hi) == Repetition(<<Dot>>, lo, hi, FALSE)

MCDeclared ==
    [ab       |-> Text(<<97, 98>>, Plain),
     word     |-> Text(<<97, 98>>, Full(Plain)),
     nocase   |-> Text(<<97, 65, 98>>, NoCase),
     long     |-> Text(<<97, 97, 98, 97, 98>>, Plain),
     \* a.*?bb
     lazy     |-> Regex(<<a, AnyLazy, b, b>>, Plain),
     \* aa+bb.*?a
     greedy   |-> Regex(<<a, Repetition(<<a>>, 1, 9, TRUE), b, b, AnyLazy, a>>, Plain),
     \* a.{1,2}?bb
     gap      |-> Regex(<<a, Gap(1, 2), b, b>>, Plain),
     \* bb.*a
     post     |-> Regex(<<b, b, AnyGreedy, a>>, Plain),
     \* [ab]{1,2}?[ab]ab
     class    |-> Regex(<<Repetition(<<Class({97, 98})>>, 1, 2, FALSE),
                          Class({97, 98}), a, b>>, Plain),
     \* (a..|b).??bb
     branches |-> Regex(<<Alternation(<< <<a, Dot, Dot>>, <<b>> >>), Gap(0, 1),
                          b, b>>, Plain),
     \* bb(a|b{1,2}?a), where literals cover one branch and not the other
     partial  |-> Regex(<<b, b, Alternation(<< <<a>>,
                          <<Repetition(<<b>>, 1, 2, FALSE), a>> >>)>>, Plain),
     \* ^a.*?b
     anchored |-> Regex(<<StartLine, a, AnyLazy, b>>, Plain),
     \* [ab]{2,3}
     raw      |-> Regex(<<Repetition(<<Class({97, 98})>>, 2, 3, TRUE)>>, Plain),
     wide     |-> Text(<<97, 98>>, Full(Wide)),
     \* a.{0,1}?b, wide and ascii
     both     |-> Regex(<<a, Gap(0, 1), b>>, WideAscii),
     \* a{1,2}b{1,2}, wide and ascii
     rawboth  |-> Regex(<<Repetition(<<a>>, 1, 2, TRUE),
                          Repetition(<<b>>, 1, 2, TRUE)>>, Full(WideAscii)),
     \* { 61 ?? ?? 62 62 }, { 62 62 ~?1 ?? 61 } and a.bb.a
     jumps    |-> Regex(<<a, AnyByte, AnyByte, b, b>>, Plain),
     masked   |-> Regex(<<b, b, Mask({n \in Byte : n % 16 # 1}), AnyByte, a>>, Plain),
     dots     |-> Regex(<<a, Dot, b, b, Dot, a>>, Plain),
     \* x{2,3}?(b|ab|bd)y{1,2}?
     joined   |-> Regex(<<Repetition(<<x>>, 2, 3, FALSE),
                          Alternation(<< <<b>>, <<a, b>>, <<b, d>> >>),
                          Repetition(<<y>>, 1, 2, FALSE)>>, Plain)]

Memories(bytes, n) == UNION {[1..k -> bytes] : k \in 1..n}
OneRegion(names, mem, max) ==
    [names |-> names, regions |-> <<[start |-> 0, mem |-> mem]>>,
     fragmented |-> FALSE, max |-> max]
TwoRegions(names, mem1, mem2, max) ==
    [names |-> names, fragmented |-> TRUE, max |-> max,
     regions |-> <<[start |-> 0, mem |-> mem1], [start |-> 10, mem |-> mem2]>>]

MCSearches ==
    {OneRegion(<<n>>, mem, max) :
        n \in {"long", "lazy", "greedy", "gap", "post", "class", "branches",
               "partial", "anchored", "raw", "jumps", "masked", "dots"},
        mem \in [1..7 -> {97, 98}], max \in {2, 9}}
    \cup {OneRegion(<<n>>, mem, 9) :
        n \in {"wide", "both", "rawboth"}, mem \in [1..5 -> {0, 97, 98}]}
    \cup {OneRegion(<<"ab", "nocase", "word">>, mem, 9) :
        mem \in Memories({65, 97, 98, 46}, 4)}
    \cup {TwoRegions(<<n, "ab">>, mem1, mem2, max) :
        n \in {"lazy", "gap", "raw"}, mem1 \in [1..3 -> {97, 98}],
        mem2 \in [1..4 -> {97, 98}], max \in {1, 9}}

\* "xx", then the letters of the alternation in any order, then "yy".
JoinedSearches ==
    {OneRegion(<<"joined">>, <<120, 120>> \o mem \o <<121, 121>>, 9) :
        mem \in Memories({97, 98, 100}, 4)}
=============================================================================
