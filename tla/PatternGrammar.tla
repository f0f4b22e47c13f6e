---------------------------- MODULE PatternGrammar ----------------------------
(* The grammars of hex strings and of regular expressions:                     *)
(* boreal-parser/src/hex_string.rs and regex.rs.  A piece is a character.      *)
(* Leaves that hold a number are Valued.                                       *)
EXTENDS Combinators, Integers, FiniteSets, SequencesExt

CONSTANTS
    Char,      \* the characters
    Code,      \* [Char -> Nat], their code points
    MaxU32,    \* the greatest u32
    JumpLimit  \* JUMP_LIMIT_IN_ALTERNATIVES

Valued(op, n) == [op |-> op, args |-> <<>>, n |-> n]

Between(first, last) == {c \in Char : Code[c] \in Code[first] .. Code[last]}
DecimalDigit == {c \in Char : Code[c] \in 48 .. 57}
HexDigit == {c \in Char : Code[c] \in (48 .. 57) \cup (65 .. 70) \cup (97 .. 102)}
Ascii == {c \in Char : Code[c] < 128}

\* char::to_digit(16).
HexValue(c) ==
    Code[c] - (IF Code[c] < 58 THEN 48 ELSE IF Code[c] < 71 THEN 55 ELSE 87)

\* str::parse::<u32>: refused when it does not fit.
u32 == MapRes("u32", Seqn(<<Take(DecimalDigit), TakeWhile(DecimalDigit)>>))

-----------------------------------------------------------------------------
(* hex_string.rs *)

hex_digit == Take(HexDigit)
byte == MapRes("byte", Seqn(<<hex_digit, Rtrim(hex_digit)>>))
masked_byte ==
    MapRes("masked_byte",
        Rtrim(Alt(<<Node("any", Tag(<<"?", "?">>)),
                    Node("left", Seqn(<<Tag(<<"?">>), hex_digit>>)),
                    Node("right", Seqn(<<hex_digit, Tag(<<"?">>)>>))>>)))
not_token == MapRes("not_token", Seqn(<<Tag(<<"~">>), Cut(Alt(<<byte, masked_byte>>))>>))

\* [a-b], [-b], [a-], [-] and [a].
range ==
    LET to == Node("to", Seqn(<<Symbol(<<"-">>), Opt(Rtrim(u32)), Symbol(<<"]">>)>>))
    IN  MapRes("range",
            Seqn(<<Symbol(<<"[">>),
                   Alt(<<Seqn(<<Rtrim(u32), Alt(<<to, Symbol(<<"]">>)>>)>>), to>>)>>))

\* A jump of exactly one byte is a masked byte.
range_as_hex_token(in_alternatives) ==
    MapRes("jump", IF in_alternatives THEN MapRes("validate_jump_in_alternatives", range) ELSE range)

alternatives ==
    Node("alternatives",
        Seqn(<<Symbol(<<"(">>),
               Cut(SeparatedList1(Symbol(<<"|">>), Ref("tokens_in_alternatives"))),
               Cut(Symbol(<<")">>))>>))

hex_token(in_alternatives) ==
    Alt(<<not_token, byte, masked_byte, range_as_hex_token(in_alternatives), alternatives>>)
tokens(in_alternatives) ==
    Counted("inner", MapRes("tokens", Many1(hex_token(in_alternatives))))
hex_string == Seqn(<<Symbol(<<"{">>), Cut(tokens(FALSE)), Cut(Symbol(<<"}">>))>>)

-----------------------------------------------------------------------------
(* regex.rs *)

assertion ==
    Alt(<<Node("\\b", Tag(<<"\\", "b">>)), Node("\\B", Tag(<<"\\", "B">>)),
          Node("^", Tag(<<"^">>)), Node("$", Tag(<<"$">>))>>)

perl_class == Node("perl", Seqn(<<Tag(<<"\\">>), Take({"w", "W", "s", "S", "d", "D"})>>))

\* Two characters follow \x; a sign is taken by from_str_radix.
escaped_char_inner ==
    Alt(<<MapRes("hex_escape", Seqn(<<Tag(<<"\\", "x">>), Cut(Seqn(<<Take(Char), Take(Char)>>))>>)),
          MapRes("escape", Seqn(<<Tag(<<"\\">>), Take(Char)>>))>>)
escaped_char_only_ascii == MapRes("only_ascii", escaped_char_inner)

literal == MapRes("literal", Take(Char \ {"/", "\n", "(", ")", "[", "\\", "|", ".", "$", "^", "+", "*", "?"}))

bracketed_class_char ==
    MapRes("only_ascii", MapRes("literal", Take(Char \ {"/", "\n", "]"})))
bracketed_class_literal == Alt(<<escaped_char_only_ascii, bracketed_class_char>>)
bracketed_class_range_or_literal ==
    Alt(<<MapRes("class_range",
              Seqn(<<bracketed_class_literal, Tag(<<"-">>), bracketed_class_literal>>)),
          bracketed_class_literal>>)
bracketed_class_item == Alt(<<perl_class, bracketed_class_range_or_literal>>)

\* A closing bracket that comes first is an item, kept as the last one.
bracketed_class_inner ==
    Seqn(<<Opt(Node("negated", Tag(<<"^">>))),
           MapRes("closing_bracket",
               Seqn(<<Opt(Node("]", Tag(<<"]">>))), Many0(bracketed_class_item), Tag(<<"]">>)>>))>>)
bracketed_class == Node("bracketed", Seqn(<<Tag(<<"[">>), Cut(bracketed_class_inner)>>))

range_single == Node("exactly", Seqn(<<Tag(<<"{">>), u32, Tag(<<"}">>)>>))
range_multi ==
    MapRes("range_multi",
        Seqn(<<Tag(<<"{">>), Node("from", Opt(u32)), Tag(<<",">>), Node("to", Opt(u32)), Tag(<<"}">>)>>))
range_repetition == Alt(<<range_single, range_multi>>)

\* Mutation: the mark of a lazy repetition is read and forgotten.
repetitionGreedy ==
    Seqn(<<Alt(<<Node("*", Tag(<<"*">>)), Node("+", Tag(<<"+">>)), Node("?", Tag(<<"?">>)),
                 range_repetition>>),
           Opt(Tag(<<"?">>))>>)

repetition ==
    Seqn(<<Alt(<<Node("*", Tag(<<"*">>)), Node("+", Tag(<<"+">>)), Node("?", Tag(<<"?">>)),
                 range_repetition>>),
           Opt(Node("lazy", Tag(<<"?">>)))>>)

group == Node("group", Seqn(<<Tag(<<"(">>), Ref("alternative"), Tag(<<")">>)>>))
single ==
    Alt(<<group, Node(".", Tag(<<".">>)), perl_class, bracketed_class, escaped_char_inner, literal>>)

repeat == Alt(<<Lax(assertion), MapRes("repeat", Seqn(<<single, Opt(repetition)>>))>>)
concatenation == MapRes("concat", Many0(repeat))
alternative ==
    Counted("inner", MapRes("alternation", SeparatedList1(Tag(<<"|">>), concatenation)))

regex ==
    Node("regex",
        Seqn(<<Tag(<<"/">>), Cut(alternative), Cut(Tag(<<"/">>)),
               Rtrim(Seqn(<<Opt(Node("i", Tag(<<"i">>))), Opt(Node("s", Tag(<<"s">>)))>>))>>))

PatternProductions ==
    [tokens_in_alternatives |-> tokens(TRUE), alternative |-> alternative]

-----------------------------------------------------------------------------
(* The closures.  A node without an upper bound is <<from>>. *)

Decimal(digits) ==
    FoldLeft(LAMBDA n, d : IF n > MaxU32 THEN n ELSE 10 * n + Code[d.op] - 48, 0, digits)

\* validate_jump, and the values of the two ends.
Jump(from, to) == Tree("jump", <<Valued("u32", from)>> \o to)
\* Mutation: a jump may end at 0.
NewJumpEmpty(nodes) ==
    LET last == Last(nodes)
        from == IF nodes[1].op = "u32" THEN nodes[1].n ELSE 0
        to == IF last.op = "to" THEN last.args ELSE <<last>>
    IN  IF to # <<>> /\ from > to[1].n THEN Refused ELSE <<Jump(from, to)>>

NewJump(nodes) ==
    LET last == Last(nodes)
        from == IF nodes[1].op = "u32" THEN nodes[1].n ELSE 0
        to == IF last.op = "to" THEN last.args ELSE <<last>>
    IN  IF to # <<>> /\ (from > to[1].n \/ to[1].n = 0) THEN Refused ELSE <<Jump(from, to)>>

EndOf(jump) == jump.args[2].n
OneByteJump == Jump(1, <<Valued("u32", 1)>>)

\* A jump may not be the first token, nor the last of several.
NewTokens(nodes) ==
    IF nodes[1].op = "jump" \/ (Len(nodes) > 1 /\ Last(nodes).op = "jump") THEN Refused
    ELSE <<Tree("tokens", nodes)>>

Escape(c) ==
    CASE c = "n" -> Valued("literal", 10)
      [] c = "t" -> Valued("literal", 9)
      [] c = "r" -> Valued("literal", 13)
      [] c = "f" -> Valued("literal", 12)
      [] c = "a" -> Valued("literal", 7)
      [] OTHER -> Valued(IF c \in Ascii THEN "escaped" ELSE "escaped_char", Code[c])

\* u8::from_str_radix(.., 16), which accepts a sign.
FromHex(first, second) ==
    IF second \notin HexDigit \/ first \notin HexDigit \cup {"+"} THEN Refused
    ELSE <<Valued("literal", HexValue(second) + IF first = "+" THEN 0 ELSE 16 * HexValue(first))>>

RangeMulti(from, to) ==
    LET lo == IF from = <<>> THEN <<Valued("u32", 0)>> ELSE from
    IN  CASE to = <<>> -> <<Tree("at_least", lo)>>
          [] to[1].n < lo[1].n -> Refused
          [] OTHER -> <<Tree("bounded", lo \o to)>>

PatternClosure(f, nodes) ==
    CASE f = "u32" -> IF Decimal(nodes) > MaxU32 THEN Refused ELSE <<Valued("u32", Decimal(nodes))>>
      [] f = "byte" -> <<Valued("byte", 16 * HexValue(nodes[1].op) + HexValue(nodes[2].op))>>
      [] f = "masked_byte" ->
            <<Valued(nodes[1].op,
                     IF nodes[1].args = <<>> THEN 0 ELSE HexValue(nodes[1].args[1].op))>>
      [] f = "not_token" -> IF nodes[1].op = "any" THEN Refused ELSE <<Tree("not", nodes)>>
      [] f = "range" -> NewJump(nodes)
      [] f = "validate_jump_in_alternatives" ->
            IF Len(nodes[1].args) = 1 THEN Refused
            ELSE IF EndOf(nodes[1]) > JumpLimit THEN Refused ELSE nodes
      [] f = "jump" -> IF nodes[1] = OneByteJump THEN <<Valued("any", 0)>> ELSE nodes
      [] f = "tokens" -> NewTokens(nodes)
      [] f = "hex_escape" -> FromHex(nodes[1].op, nodes[2].op)
      [] f = "escape" -> <<Escape(nodes[1].op)>>
      [] f = "literal" ->
            <<Valued(IF nodes[1].op \in Ascii THEN "literal" ELSE "char", Code[nodes[1].op])>>
      [] f = "only_ascii" -> IF nodes[1].op \in {"char", "escaped_char"} THEN Refused ELSE nodes
      [] f = "class_range" -> IF nodes[2].n < nodes[1].n THEN Refused ELSE <<Tree("range", nodes)>>
      [] f = "closing_bracket" ->
            IF nodes[1].op = "]" THEN Append(Tail(nodes), Valued("literal", Code["]"])) ELSE nodes
      [] f = "range_multi" -> RangeMulti(nodes[1].args, nodes[2].args)
      [] f = "repeat" -> IF Len(nodes) = 1 THEN nodes ELSE <<Tree("repetition", nodes)>>
      [] f = "concat" ->
            IF nodes = <<>> THEN <<Leaf("empty")>>
            ELSE IF Len(nodes) = 1 THEN nodes ELSE <<Tree("concat", nodes)>>
      [] f = "alternation" -> IF Len(nodes) = 1 THEN nodes ELSE <<Tree("alternation", nodes)>>
==============================================================================
