------------------------------ MODULE PatternHir -------------------------------
(* The HIR of regular expressions and of hex strings (src/boreal/src/regex):   *)
(* hir.rs builds it from a syntax tree, mod.rs prints it as the expression     *)
(* given to the regex engine, with the visitor of visitor.rs.  A class holds   *)
(* its definition, which is printed, and its bitmap, which is matched.         *)
EXTENDS PatternGrammar, TLC

Byte == 0 .. 255

Class(definition, bitmap) == [op |-> "class", args |-> definition, bitmap |-> bitmap]
Mask(value, mask, negated) ==
    [op |-> "mask", args |-> <<>>, value |-> value, mask |-> mask, negated |-> negated]

-----------------------------------------------------------------------------
(* Classes *)

PerlBytes(kind) ==
    CASE kind \in {"w", "W"} -> (48 .. 57) \cup (65 .. 90) \cup {95} \cup (97 .. 122)
      [] kind \in {"s", "S"} -> {9, 10, 11, 12, 13, 32}
      [] kind \in {"d", "D"} -> 48 .. 57
perl_class_to_bitmap(kind) ==
    IF kind \in {"W", "S", "D"} THEN Byte \ PerlBytes(kind) ELSE PerlBytes(kind)

ItemBytes(item) ==
    CASE item.op = "perl" -> perl_class_to_bitmap(item.args[1].op)
      [] item.op = "range" -> item.args[1].n .. item.args[2].n
      [] item.op \in {"literal", "escaped"} -> {item.n}

Negated(class) == class.args # <<>> /\ class.args[1].op = "negated"
Items(class) == IF Negated(class) THEN Tail(class.args) ELSE class.args

class_to_bitmap(class) ==
    LET bytes == UNION {ItemBytes(Items(class)[i]) : i \in DOMAIN Items(class)}
    IN  CASE class.op = "perl" -> ItemBytes(class)
          [] Negated(class) -> Byte \ bytes
          [] OTHER -> bytes

-----------------------------------------------------------------------------
(* From a syntax tree *)

\* char::encode_utf8, for the code points of one or two bytes.
Utf8(code) == IF code < 128 THEN <<code>> ELSE <<192 + code \div 64, 128 + (code % 64)>>
Literals(bytes) == [i \in DOMAIN bytes |-> Valued("literal", bytes[i])]
IsChar(node) == node.op \in {"char", "escaped_char"}

\* Mutation: all the bytes of the character are repeated.
RepeatLastAll(bytes, kind) ==
    Tree("repetition", <<Tree("group", <<Tree("concat", Literals(bytes))>>)>> \o kind)

\* A repeated character that is not ASCII repeats its last byte.
RepeatLast(bytes, kind) ==
    Tree("concat", Append(Literals(Front(bytes)),
                          Tree("repetition", <<Valued("literal", Last(bytes))>> \o kind)))

regex_ast_to_hir[node \in Any] ==
    LET hirs(from) == [i \in DOMAIN from |-> regex_ast_to_hir[from[i]]]
    IN  CASE node.op \in {"alternation", "concat", "group"} -> Tree(node.op, hirs(node.args))
          [] node.op \in {"perl", "bracketed"} -> Class(<<node>>, class_to_bitmap(node))
          [] node.op \in {"literal", "escaped"} -> Valued("literal", node.n)
          [] IsChar(node) -> Tree("concat", Literals(Utf8(node.n)))
          [] node.op = "repetition" /\ IsChar(node.args[1]) ->
                RepeatLast(Utf8(node.args[1].n), Tail(node.args))
          [] node.op = "repetition" -> Tree("repetition", hirs(<<node.args[1]>>) \o Tail(node.args))
          [] OTHER -> node

masked_byte_to_hir(b, mask, negated) ==
    CASE mask = "left" -> Mask(b, 15, negated)
      [] mask = "right" -> Mask(16 * b, 240, negated)
      [] mask = "any" -> Leaf(".")

NotByte(b) == Tree("bracketed", <<Leaf("negated"), Valued("literal", b)>>)

\* The HIR of a token, or of a sequence of them.
hir_from_token[token \in Any] ==
    LET hirs == [i \in DOMAIN token.args |-> hir_from_token[token.args[i]]]
    IN  CASE token.op = "byte" -> Valued("literal", token.n)
          [] token.op = "not" /\ token.args[1].op = "byte" ->
                Class(<<NotByte(token.args[1].n)>>, Byte \ {token.args[1].n})
          [] token.op = "not" -> masked_byte_to_hir(token.args[1].n, token.args[1].op, TRUE)
          [] token.op \in {"left", "right", "any"} -> masked_byte_to_hir(token.n, token.op, FALSE)
          [] token.op = "jump" ->
                Tree("repetition",
                     <<Leaf("."), Tree(IF Len(token.args) = 1 THEN "at_least" ELSE "bounded", token.args),
                       Leaf("lazy")>>)
          [] token.op = "alternatives" -> Tree("group", <<Tree("alternation", hirs)>>)
          [] token.op = "tokens" -> Tree("concat", hirs)

-----------------------------------------------------------------------------
(* The visitor: a stack of the hirs left to visit under each parent. *)

Frame(hir, rest, is_alternation) ==
    [hir |-> hir, rest |-> rest, is_alternation |-> is_alternation]

build_stack_frame(hir) ==
    CASE hir.op \in {"group", "repetition"} -> <<Frame(hir.args[1], <<>>, FALSE)>>
      [] hir.op \in {"concat", "alternation"} /\ hir.args # <<>> ->
            <<Frame(hir.args[1], Tail(hir.args), hir.op = "alternation")>>
      [] OTHER -> <<>>

NextFrame(frame) == [frame EXCEPT !.hir = Head(frame.rest), !.rest = Tail(frame.rest)]

Decimals == <<"0", "1", "2", "3", "4", "5", "6", "7", "8", "9">>
DecimalText[n \in Nat] ==
    (IF n < 10 THEN <<>> ELSE DecimalText[n \div 10]) \o <<Decimals[(n % 10) + 1]>>

HexDigits == <<"0", "1", "2", "3", "4", "5", "6", "7", "8", "9", "a", "b", "c", "d", "e", "f">>
HexText(b) == <<HexDigits[(b \div 16) + 1], HexDigits[(b % 16) + 1]>>

Meta == {"\\", ".", "+", "*", "?", "(", ")", "|", "[", "]", "{", "}", "^", "$", "#", "&", "-", "~"}
push_literal(b) ==
    LET plain == {c \in Char \ Meta : Code[c] = b /\ b \in 32 .. 126}
    IN  IF plain = {} THEN <<"\\", "x">> \o HexText(b) ELSE <<CHOOSE c \in plain : TRUE>>

PushItem(item) ==
    CASE item.op = "perl" -> <<"\\", item.args[1].op>>
      [] item.op = "range" -> push_literal(item.args[1].n) \o <<"-">> \o push_literal(item.args[2].n)
      [] OTHER -> push_literal(item.n)
push_bracketed_class(class) ==
    <<"[">> \o (IF Negated(class) THEN <<"^">> ELSE <<>>)
    \o FlattenSeq([i \in DOMAIN Items(class) |-> PushItem(Items(class)[i])]) \o <<"]">>

\* Mutation: a negated mask is printed as the mask.
PushMaskPlain(hir) ==
    <<"[">>
    \o (IF hir.mask = 240 THEN push_literal(hir.value) \o <<"-">> \o push_literal(hir.value + 15)
        ELSE FlattenSeq([i \in 1 .. 16 |-> push_literal(16 * (i - 1) + hir.value)]))
    \o <<"]">>

PushMask(hir) ==
    <<"[">> \o (IF hir.negated THEN <<"^">> ELSE <<>>)
    \o (IF hir.mask = 240 THEN push_literal(hir.value) \o <<"-">> \o push_literal(hir.value + 15)
        ELSE FlattenSeq([i \in 1 .. 16 |-> push_literal(16 * (i - 1) + hir.value)]))
    \o <<"]">>

visit_pre(hir) ==
    CASE hir.op \in {"^", "$", "."} -> <<hir.op>>
      [] hir.op = "\\b" -> <<"\\", "b">>
      [] hir.op = "\\B" -> <<"\\", "B">>
      [] hir.op = "mask" -> PushMask(hir)
      [] hir.op = "class" /\ hir.args[1].op = "perl" -> PushItem(hir.args[1])
      [] hir.op = "class" -> push_bracketed_class(hir.args[1])
      [] hir.op = "literal" -> push_literal(hir.n)
      [] hir.op = "group" -> <<"(">>
      [] OTHER -> <<>>

PushKind(kind) ==
    LET n(i) == DecimalText[kind.args[i].n]
    IN  CASE kind.op = "exactly" -> <<"{">> \o n(1) \o <<"}">>
          [] kind.op = "at_least" -> <<"{">> \o n(1) \o <<",", "}">>
          [] kind.op = "bounded" -> <<"{">> \o n(1) \o <<",">> \o n(2) \o <<"}">>
          [] OTHER -> <<kind.op>>
visit_post(hir) ==
    CASE hir.op = "group" -> <<")">>
      [] hir.op = "repetition" -> PushKind(hir.args[2]) \o (IF Len(hir.args) = 3 THEN <<"?">> ELSE <<>>)
      [] OTHER -> <<>>
visit_alternation_in == <<"|">>

\* `out` is what the printer has written, `stack` the frames and their parents,
\* the last one on top.  `hir` is visited when `down`; when not, it was.
visit[hir \in Any, down \in BOOLEAN, stack \in Any, out \in Any] ==
    LET frame == build_stack_frame(hir)
        top == Last(stack)
        next == NextFrame(top.frame)
    IN  CASE down /\ frame # <<>> ->
                visit[frame[1].hir, TRUE, Append(stack, [frame |-> frame[1], parent |-> hir]),
                      out \o visit_pre(hir)]
          [] down -> visit[hir, FALSE, stack, out \o visit_pre(hir) \o visit_post(hir)]
          [] stack = <<>> -> out
          [] top.frame.rest = <<>> ->
                visit[top.parent, FALSE, Front(stack), out \o visit_post(top.parent)]
          [] OTHER ->
                visit[next.hir, TRUE, Append(Front(stack), [top EXCEPT !.frame = next]),
                      out \o IF next.is_alternation THEN visit_alternation_in ELSE <<>>]

regex_hir_to_string(hir) == visit[hir, TRUE, <<>>, <<>>]
==============================================================================
