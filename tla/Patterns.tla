------------------------------- MODULE Patterns --------------------------------
(* Hex strings and regular expressions, from their text to the expression the  *)
(* regex engine is given: the parser of boreal-parser, the HIR and the printer *)
(* of boreal.  The user writes a pattern one part at a time, or changes one    *)
(* character of its text.                                                      *)
EXTENDS PatternHir, TextEdits

CONSTANTS
    Blank, OpenComment, MaxRecursion,    \* see module Nom
    Budgets,       \* [patterns to begin with -> changes made from each]
    Frames(_),     \* the patterns written around a given one
    Insertions     \* characters that are inserted in a text

VARIABLES
    pattern,   \* what the user wrote: a "regex" or the "tokens" of a hex string
    text,      \* its characters
    edited,    \* the text was changed: it is not that of `pattern`
    budget,    \* changes left
    result     \* what the parser returns, Refused for an error

vars == <<pattern, text, edited, budget, result>>

INSTANCE Nom WITH Grammar <- PatternProductions, Closure <- PatternClosure, Alphanumeric <- {}

\* A pattern and nothing after it: hex_string or regex, by the first character.
parse(input) ==
    LET parser == IF input # <<>> /\ Head(input) = "{" THEN hex_string ELSE regex
        r == Parse[parser, NewInput(input)]
    IN  IF IsOk(r) /\ IsEmpty(r.in) THEN r.v ELSE Refused

hir_of(p) ==
    IF p.op = "tokens" THEN hir_from_token[p] ELSE regex_ast_to_hir[p.args[1]]

-----------------------------------------------------------------------------
(* How a pattern is written, stated without a parser. *)

CharOf(code) == CHOOSE c \in Char : Code[c] = code
HasChar(code, set) == \E c \in set : Code[c] = code

\* A character is written alone where it is not special, in a class or outside.
SpecialInClass == {"/", "\n", "]", "\\"}
Special == {"/", "\n", "(", ")", "[", "\\", "|", ".", "$", "^", "+", "*", "?"}
Escapes == [a |-> 7, t |-> 9, n |-> 10, f |-> 12, r |-> 13]
LiteralText(code, special) ==
    CASE HasChar(code, Ascii \ special) -> <<CharOf(code)>>
      [] \E e \in DOMAIN Escapes : Escapes[e] = code ->
            <<"\\", CHOOSE e \in DOMAIN Escapes : Escapes[e] = code>>
      [] OTHER -> <<"\\", "x">> \o HexText(code)

\* Zero is left out.
Lower(n) == IF n = 0 THEN <<>> ELSE DecimalText[n]
IntervalText(kind) ==
    LET n(i) == kind.args[i].n
    IN  CASE kind.op = "exactly" -> <<"{">> \o DecimalText[n(1)] \o <<"}">>
          [] kind.op = "at_least" -> <<"{">> \o Lower(n(1)) \o <<",", "}">>
          [] kind.op = "bounded" -> <<"{">> \o Lower(n(1)) \o <<",">> \o DecimalText[n(2)] \o <<"}">>
          [] OTHER -> <<kind.op>>

ClosingBracket == Valued("literal", Code["]"])
Joined(texts, separator) ==
    FlattenSeq([i \in DOMAIN texts |-> IF i = 1 THEN texts[i] ELSE <<separator>> \o texts[i]])

TextOf[node \in Any, special \in Any] ==
    LET a == node.args
        texts(nodes) == [i \in DOMAIN nodes |-> TextOf[nodes[i], special]]
        in_class(nodes) == FlattenSeq([i \in DOMAIN nodes |-> TextOf[nodes[i], SpecialInClass]])
        negated == SelectSeq(a, LAMBDA i : i.op = "negated")
        items == SelectSeq(a, LAMBDA i : i.op # "negated")
    IN  CASE node.op = "regex" -> <<"/">> \o texts(a)[1] \o <<"/">> \o FlattenSeq(texts(Tail(a)))
          [] node.op = "alternation" -> Joined(texts(a), "|")
          [] node.op = "empty" -> <<>>
          [] node.op \in {"concat", "tokens"} -> FlattenSeq(texts(a))
          [] node.op = "group" -> <<"(">> \o texts(a)[1] \o <<")">>
          [] node.op = "repetition" ->
                texts(a)[1] \o IntervalText(a[2]) \o (IF Len(a) = 3 THEN <<"?">> ELSE <<>>)
          [] node.op = "\\b" -> <<"\\", "b">>
          [] node.op = "\\B" -> <<"\\", "B">>
          [] node.op = "perl" -> <<"\\", a[1].op>>
          [] node.op = "bracketed" ->
                <<"[">> \o in_class(negated)
                \o (IF Last(a) = ClosingBracket THEN <<"]">> \o in_class(Front(items))
                    ELSE in_class(items))
                \o <<"]">>
          [] node.op = "negated" -> <<"^">>
          [] node.op = "range" -> Joined(texts(a), "-")
          [] node.op = "literal" -> LiteralText(node.n, special)
          [] node.op \in {"escaped", "escaped_char"} -> <<"\\", CharOf(node.n)>>
          [] node.op = "char" -> <<CharOf(node.n)>>
          [] node.op = "alternatives" -> <<"(">> \o Joined(texts(a), "|") \o <<")">>
          [] node.op = "byte" -> HexText(node.n)
          [] node.op = "any" -> <<"?", "?">>
          [] node.op = "left" -> <<"?", HexText(node.n)[2]>>
          [] node.op = "right" -> <<HexText(node.n)[2], "?">>
          [] node.op = "not" -> <<"~">> \o texts(a)[1]
          [] node.op = "jump" ->
                <<"[">>
                \o (CASE Len(a) = 1 -> Lower(a[1].n) \o <<"-">>
                      [] a[1] = Last(a) -> DecimalText[a[1].n]
                      [] OTHER -> Lower(a[1].n) \o <<"-">> \o DecimalText[a[2].n])
                \o <<"]">>
          [] OTHER -> <<node.op>>

FullText(p) ==
    IF p.op = "tokens" THEN <<"{">> \o TextOf[p, {}] \o <<"}">> ELSE TextOf[p, Special]

-----------------------------------------------------------------------------
(* Which patterns are valid. *)

Depth[node \in Any] ==
    (IF node.op \in {"group", "alternatives"} THEN 1 ELSE 0)
    + (LET depths == {Depth[node.args[i]] : i \in DOMAIN node.args}
       IN  IF depths = {} THEN 0 ELSE CHOOSE d \in depths : \A e \in depths : e <= d)

NodeIsValid(node) ==
    LET a == node.args
        item_is_char(i) == a[i].op \in {"char", "escaped_char"}
    IN  CASE node.op = "u32" -> node.n <= MaxU32
          [] node.op \in {"bounded", "range"} -> a[1].n <= a[2].n
          [] node.op = "bracketed" -> \A i \in DOMAIN a : ~item_is_char(i)
          [] node.op = "jump" -> Len(a) = 2 => a[1].n <= a[2].n /\ a[2].n > 0
          [] node.op = "not" -> a[1].op # "any"
          [] node.op = "tokens" ->
                a[1].op # "jump" /\ (Len(a) > 1 => a[Len(a)].op # "jump")
          [] node.op = "alternatives" ->
                \A i \in DOMAIN a : \A k \in DOMAIN a[i].args :
                    LET t == a[i].args[k]
                    IN  t.op = "jump" => Len(t.args) = 2 /\ t.args[2].n <= JumpLimit
          [] OTHER -> TRUE

AsRead[node \in Any] ==
    IF node = OneByteJump THEN Valued("any", 0)
    ELSE [node EXCEPT !.args = [i \in DOMAIN node.args |-> AsRead[node.args[i]]]]
AllValid[node \in Any] ==
    NodeIsValid(node) /\ \A i \in DOMAIN node.args : AllValid[node.args[i]]
IsValid(p) == Depth[p] < MaxRecursion.inner /\ AllValid[AsRead[p]]

-----------------------------------------------------------------------------

Init ==
    \E p \in DOMAIN Budgets :
        /\ pattern = p
        /\ text = FullText(p)
        /\ result = parse(text)
        /\ budget = Budgets[p]
        /\ edited = FALSE

\* The user adds a part to the pattern.
WritePattern ==
    /\ budget > 0 /\ ~edited
    /\ \E p \in Frames(pattern) :
        /\ pattern' = p
        /\ text' = FullText(p)
        /\ result' = parse(text')
    /\ budget' = budget - 1
    /\ UNCHANGED edited

EditText ==
    /\ budget > 0 /\ ~edited
    /\ edited' = TRUE
    /\ text' \in Edits(text, Insertions)
    /\ result' = parse(text')
    /\ UNCHANGED <<pattern, budget>>

Next == WritePattern \/ EditText
Spec == Init /\ [][Next]_vars

-----------------------------------------------------------------------------

\* A pattern is read as it was written, and exactly the valid ones are: groups
\* do not nest too deep, intervals are not reversed, a jump is neither at a bound
\* nor too long in an alternation, and a class holds bytes (regex.rs:225,
\* hex_string.rs:314).
ReadsValidPatterns ==
    ~edited => result = IF IsValid(pattern) THEN <<AsRead[pattern]>> ELSE Refused

\* A sign is a digit of `\x` (regex.rs:606), and a jump of one byte is a mask.
Unsigned(pieces) ==
    LET sign(i) == i > 2 /\ SubSeq(pieces, i - 2, i) = <<"\\", "x", "+">>
    IN  [i \in DOMAIN pieces |-> IF sign(i) THEN "0" ELSE pieces[i]]
Masked(pieces) ==
    LET jump(i) == i \in 1 .. Len(pieces) - 2 /\ SubSeq(pieces, i, i + 2) = <<"[", "1", "]">>
    IN  FlattenSeq([i \in DOMAIN pieces |->
            CASE jump(i) -> <<"?", "?">>
              [] jump(i - 1) \/ jump(i - 2) -> <<>>
              [] OTHER -> <<pieces[i]>>])
SaysTheSame(pieces, p) ==
    FullText(p) = IF p.op = "tokens" THEN Masked(SelectSeq(pieces, LAMBDA c : c \notin Blank))
                  ELSE Unsigned(pieces)

\* Whatever the text, the pattern read from it is written that way.
PatternIsNotAltered == edited /\ result # Refused => SaysTheSame(text, result[1])

\* What an expression matches: the bytes of every class, mask and literal, in
\* the structure that a text shows.
Flattened(subs) ==
    FlattenSeq([i \in DOMAIN subs |-> IF subs[i].op = "concat" THEN subs[i].args ELSE <<subs[i]>>])
NodeOrItem(op, subs) == IF Len(subs) = 1 THEN subs[1] ELSE Tree(op, subs)
Meaning[hir \in Any] ==
    LET subs == [i \in DOMAIN hir.args |-> Meaning[hir.args[i]]]
        bytes(set) == [op |-> "bytes", set |-> set]
        selected(b) == IF hir.mask = 15 THEN b % 16 ELSE b - (b % 16)
        masked == {b \in Byte : selected(b) = hir.value}
    IN  CASE hir.op = "literal" -> bytes({hir.n})
          [] hir.op = "class" -> bytes(hir.bitmap)
          [] hir.op = "mask" -> bytes(IF hir.negated THEN Byte \ masked ELSE masked)
          [] hir.op = "concat" -> NodeOrItem("concat", Flattened(subs))
          [] hir.op = "alternation" -> NodeOrItem("alternation", subs)
          [] hir.op = "repetition" -> Tree("repetition", <<subs[1]>> \o Tail(hir.args))
          [] OTHER -> Tree(hir.op, subs)

\* The regex engine reads the printed expression: it has no delimiters.
Reread(printed) ==
    parse(<<"/">> \o FlattenSeq([i \in DOMAIN printed |->
                        IF printed[i] = "/" THEN <<"\\", "/">> ELSE <<printed[i]>>]) \o <<"/">>)

\* The engine is given an expression that matches what the HIR does: the text
\* printed from the definition of a class or from a mask means the bytes of its
\* bitmap, and groups as the HIR does (hir.rs:137).
PrintingIsFaithful ==
    result # Refused =>
        LET hir == hir_of(result[1])
            again == Reread(regex_hir_to_string(hir))
        IN  again # Refused /\ Meaning[hir_of(again[1])] = Meaning[hir]

\* The text with the bytes of every character that is not ASCII.
NonAscii(c) == c \in Char \ Ascii
Provided(pieces) ==
    LET escape[i \in 0 .. Len(pieces)] == i > 0 /\ pieces[i] = "\\" /\ ~escape[i - 1]
    IN  FlattenSeq([i \in DOMAIN pieces |->
            CASE NonAscii(pieces[i]) ->
                    LET utf8 == Utf8(Code[pieces[i]])
                    IN  FlattenSeq([k \in DOMAIN utf8 |-> <<"\\", "x">> \o HexText(utf8[k])])
              [] escape[i] /\ i < Len(pieces) /\ NonAscii(pieces[i + 1]) -> <<>>
              [] OTHER -> <<pieces[i]>>])

\* A character that is not ASCII matches as if its bytes were written, also when
\* it is repeated or escaped (hir.rs:84).
CharactersAreTheirBytes ==
    result # Refused =>
        LET bytes == parse(Provided(text))
        IN  bytes # Refused /\ Meaning[hir_of(bytes[1])] = Meaning[hir_of(result[1])]
==============================================================================
