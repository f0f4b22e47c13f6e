-------------------------- MODULE ExpressionGrammar --------------------------
(* The grammar of conditions: boreal-parser/src/expression/, with the strings  *)
(* and numbers it is made of.  Every definition is the function of that name;  *)
(* those that call each other in a cycle are reached by Ref.  A text string    *)
(* and a regular expression are one piece.                                     *)
EXTENDS Combinators, Integers, SequencesExt, TLC

CONSTANTS
    MaxInteger,    \* the greatest integer (i64::MAX in the code)
    Letter,        \* pieces made of letters and underscores
    Digit,         \* decimal digits
    HexDigit,      \* hexadecimal digits
    QuotedString,  \* text strings
    RegexLiteral   \* regular expressions

OctalDigit == Digit \ {"8", "9"}

-----------------------------------------------------------------------------
(* string.rs, number.rs *)

identifier_contents == Node("name", TakeWhile(Letter \cup Digit))
string_identifier_no_rtrim == Seqn(<<Tag(<<"$">>), Cut(identifier_contents)>>)
string_identifier == Rtrim(string_identifier_no_rtrim)
string_identifier_with_wildcard ==
    Rtrim(Seqn(<<string_identifier_no_rtrim, Opt(Node("*", Tag(<<"*">>)))>>))
prefixed(sigil) == Rtrim(Seqn(<<Tag(<<sigil>>), Cut(identifier_contents)>>))
count == prefixed("#")
offset == prefixed("@")
length == prefixed("!")
raw_identifier == Rtrim(Node("name", Seqn(<<Take(Letter), Cut(TakeWhile(Letter \cup Digit))>>)))
quoted == Rtrim(Take(QuotedString))

digit1 == Seqn(<<Take(Digit), TakeWhile(Digit)>>)

decimal_number ==
    MapRes("decimal_number",
        Rtrim(Seqn(<<Node("digits", digit1),
                     Opt(Alt(<<Node("MB", TextualTag("MB")), Node("KB", TextualTag("KB"))>>))>>)))
hexadecimal_number ==
    MapRes("hexadecimal_number",
        Seqn(<<Tag(<<"0", "x">>),
               Cut(Rtrim(Node("digits", Seqn(<<Take(HexDigit), TakeWhile(HexDigit)>>))))>>))
octal_number ==
    MapRes("octal_number",
        Seqn(<<Tag(<<"0", "o">>),
               Cut(Rtrim(Node("digits", Seqn(<<Take(OctalDigit), TakeWhile(OctalDigit)>>))))>>))
number == Alt(<<hexadecimal_number, octal_number, decimal_number>>)
double ==
    Rtrim(Node("double", Seqn(<<Node("digits", digit1), Tag(<<".">>), Node("digits", digit1)>>)))

-----------------------------------------------------------------------------
(* primary_expression.rs and what it calls *)

expression == Ref("boolean_expression")

range ==
    Node("range", Seqn(<<Symbol(<<"(">>), Ref("primary_expression"), Symbol(<<".", ".">>),
                         Cut(Ref("primary_expression")), Cut(Symbol(<<")">>))>>))

subfield ==
    Seqn(<<Rtrim(Seqn(<<Tag(<<".">>), Not(Tag(<<".">>))>>)), Node("subfield", Cut(raw_identifier))>>)
subscript ==
    Node("subscript", Seqn(<<Symbol(<<"[">>), Cut(Ref("primary_expression")), Cut(Symbol(<<"]">>))>>))
function_call ==
    Node("call", Seqn(<<Symbol(<<"(">>), Cut(SeparatedList0(Symbol(<<",">>), expression)),
                        Cut(Symbol(<<")">>))>>))
operation == Alt(<<subfield, subscript, function_call>>)
identifier == Node("identifier", Seqn(<<raw_identifier, Many0(operation)>>))

\* Mutation: no blank is skipped after the type.
read_integer_typeTight ==
    Alt([i \in 1 .. 4 |-> LET t == <<"uint32", "int16be", "uint8be", "uint8">>[i]
                          IN  Node(IF t = "uint8be" THEN "uint8" ELSE t, TextualTag(t))])

read_integer_type ==
    LET types == <<"uint32be", "uint32", "int32be", "int32", "uint16be", "uint16",
                   "int16be", "int16", "uint8be", "uint8", "int8be", "int8">>
        read_as(t) == IF t = "uint8be" THEN "uint8" ELSE IF t = "int8be" THEN "int8" ELSE t
    IN  Rtrim(Alt([i \in DOMAIN types |-> Node(read_as(types[i]), TextualTag(types[i]))]))
read_integer_expression ==
    Node("read_integer",
         Seqn(<<read_integer_type, Cut(Delimited("(", Ref("primary_expression"), ")"))>>))

string_count_expression ==
    Node("count", Seqn(<<count, Opt(Seqn(<<Symbol(<<"in">>), Cut(range)>>))>>))
occurrence ==
    MapRes("occurrence",
        Opt(Seqn(<<Symbol(<<"[">>), Cut(Ref("primary_expression")), Cut(Symbol(<<"]">>))>>)))
string_offset_expression == Node("offset", Seqn(<<offset, occurrence>>))
string_length_expression == Node("length", Seqn(<<length, occurrence>>))

primary_expression_item ==
    Alt(<<Seqn(<<Symbol(<<"(">>), Cut(expression), Cut(Symbol(<<")">>))>>),
          KeywordNode("true"), KeywordNode("false"),
          KeywordNode("filesize"), KeywordNode("entrypoint"),
          read_integer_expression, double, number,
          Node("bytes", quoted), Node("regex", Rtrim(Take(RegexLiteral))),
          string_count_expression, string_offset_expression, string_length_expression,
          identifier>>)

Operator(name, pieces) == Node(name, Symbol(pieces))

primary_expression_neg ==
    Prefix(Alt(<<Operator("bnot", <<"~">>), Operator("neg", <<"-">>)>>), primary_expression_item)

\* Mutation: `%` is an operator wherever it is.
primary_expression_mulTakesPercent ==
    Chain(primary_expression_neg,
        <<Binary(Operator("mul", <<"*">>), primary_expression_neg),
          Binary(Operator("div", <<"\\">>), primary_expression_neg),
          Binary(Operator("mod", <<"%">>), primary_expression_neg)>>)

\* The right operand is not cut.  `%` is left alone before `of`: it is then the
\* percent sign of a selection.
primary_expression_mul ==
    Chain(primary_expression_neg,
        <<Binary(Operator("mul", <<"*">>), primary_expression_neg),
          Binary(Operator("div", <<"\\">>), primary_expression_neg),
          Binary(Seqn(<<Operator("mod", <<"%">>), Not(TextualTag("of"))>>),
                 primary_expression_neg)>>)

\* The operators of one level, whose right operand is an item of this level.
Level(item, ops) ==
    Chain(item, [i \in DOMAIN ops |-> Binary(Operator(ops[i][1], ops[i][2]), Cut(item))])

primary_expression_add == Level(primary_expression_mul, <<<<"add", <<"+">>>>, <<"sub", <<"-">>>>>>)
primary_expression_shift ==
    Level(primary_expression_add, <<<<"shl", <<"<", "<">>>>, <<"shr", <<">", ">">>>>>>)
primary_expression_bitwise_and == Level(primary_expression_shift, <<<<"band", <<"&">>>>>>)
primary_expression_bitwise_xor == Level(primary_expression_bitwise_and, <<<<"bxor", <<"^">>>>>>)
primary_expression ==
    Counted("expr", Level(primary_expression_bitwise_xor, <<<<"bor", <<"|">>>>>>))

-----------------------------------------------------------------------------
(* boolean_expression.rs *)

primary_expression_cmp ==
    Level(Ref("primary_expression"),
          <<<<"le", <<"<", "=">>>>, <<"ge", <<">", "=">>>>, <<"lt", <<"<">>>>, <<"gt", <<">">>>>>>)

primary_expression_eq_all ==
    LET textual == <<"contains", "icontains", "startswith", "istartswith",
                     "endswith", "iendswith", "iequals">>
        right == Cut(primary_expression_cmp)
    IN  Chain(primary_expression_cmp,
            <<Binary(Operator("eq", <<"=", "=">>), right),
              Binary(Operator("ne", <<"!", "=">>), right)>>
            \o [i \in DOMAIN textual |-> Binary(KeywordNode(textual[i]), right)]
            \o <<Binary(KeywordNode("matches"),
                        Cut(Node("regex", Rtrim(Take(RegexLiteral)))))>>)

variable_expression ==
    Node("variable",
        Seqn(<<string_identifier,
               Alt(<<Lax(Node("at", Seqn(<<Keyword("at"), Ref("primary_expression")>>))),
                     Lax(Seqn(<<Symbol(<<"in">>), range>>)),
                     Success>>)>>))

-----------------------------------------------------------------------------
(* for_expression.rs *)

separated(p) == SeparatedList1(Symbol(<<",">>), p)

string_enum_element == Node("element", string_identifier_with_wildcard)
string_enumeration == separated(string_enum_element)
string_set ==
    Node("set", Alt(<<KeywordNode("them"),
                      Seqn(<<Symbol(<<"(">>), Cut(string_enumeration), Cut(Symbol(<<")">>))>>)>>))

rule_enum_element == Node("element", Seqn(<<raw_identifier, Opt(Node("*", Symbol(<<"*">>)))>>))
rule_set == Node("rules", Delimited("(", separated(rule_enum_element), ")"))

for_selection_simple == Alt(<<KeywordNode("any"), KeywordNode("all"), KeywordNode("none")>>)
for_selection_expr ==
    Node("selection", Seqn(<<Ref("primary_expression"), Opt(Node("%", Symbol(<<"%">>)))>>))
for_selection_full == Alt(<<for_selection_simple, for_selection_expr>>)

for_expression_kind ==
    Alt(<<Seqn(<<Keyword("in"), Cut(range)>>),
          Node("at", Seqn(<<Keyword("at"), Cut(Ref("primary_expression"))>>)),
          Success>>)

\* What follows the selection of `selection of set`.
for_expression_with_selection ==
    Seqn(<<Keyword("of"), Alt(<<Lax(rule_set), Seqn(<<Cut(string_set), for_expression_kind>>)>>)>>)

for_expression_abbrev == Node("of", Seqn(<<for_selection_simple, for_expression_with_selection>>))

\* An expression, and if `of` follows, the for expression it is the selection
\* of.  A `%` is consumed whether `of` follows or not.
for_expression_with_expr_selection ==
    MapRes("for_expression_with_expr_selection",
        Seqn(<<primary_expression_eq_all, Opt(Node("%", Symbol(<<"%">>))),
               Opt(Node("of", for_expression_with_selection))>>))

for_variables == Node("identifiers", separated(raw_identifier))
iterator_list == Node("list", Delimited("(", separated(Ref("primary_expression")), ")"))
iterator == Alt(<<identifier, iterator_list, range>>)

for_expression_full ==
    LET body == Delimited("(", expression, ")")
    IN  Node("for",
            Seqn(<<Keyword("for"), Cut(for_selection_full),
                   Alt(<<Seqn(<<Keyword("of"), Cut(string_set), Cut(Symbol(<<":">>)), Cut(body)>>),
                         Seqn(<<Cut(for_variables), Cut(Keyword("in")),
                                Cut(iterator), Cut(Symbol(<<":">>)), Cut(body)>>)>>)>>))

for_expression_non_ambiguous == Alt(<<for_expression_full, for_expression_abbrev>>)

-----------------------------------------------------------------------------
(* boolean_expression.rs, the operators above them all *)

expression_item ==
    Alt(<<for_expression_non_ambiguous, variable_expression, for_expression_with_expr_selection>>)
expression_not == Prefix(Alt(<<KeywordNode("not"), KeywordNode("defined")>>), expression_item)
expression_and == Nary("and", Keyword("and"), expression_not)
boolean_expression == Counted("expr", Nary("or", Keyword("or"), expression_and))

ExpressionProductions ==
    [boolean_expression |-> boolean_expression, primary_expression |-> primary_expression]

-----------------------------------------------------------------------------
(* The closures that compute a value or refuse it: the nodes they return, or   *)
(* Refused.                                                                   *)

Number(n) == Tree("int", <<Leaf(ToString(n))>>)

DigitValue(d) ==
    LET digits == <<"0", "1", "2", "3", "4", "5", "6", "7", "8", "9", "a", "b", "c", "d", "e", "f">>
    IN  (CHOOSE i \in DOMAIN digits : digits[i] = d) - 1

\* The value of a sequence of digits, MaxInteger + 1 for all that are too large
\* (str::parse and from_str_radix).
Value(base, digits) ==
    FoldLeft(LAMBDA n, d :
                LET m == n * base + DigitValue(d.op)
                IN  IF n > MaxInteger \/ m > MaxInteger THEN MaxInteger + 1 ELSE m,
             0, digits)

Coefficient(suffix) ==
    CASE suffix = <<>> -> 1
      [] suffix = <<Leaf("KB")>> -> 1024
      [] suffix = <<Leaf("MB")>> -> 1024 * 1024

\* checked_mul: n * coef, unless it is greater than MaxInteger.
Parsed(base, nodes) ==
    LET n == Value(base, nodes[1].args)
        coef == Coefficient(Tail(nodes))
    IN  IF n > MaxInteger \div coef THEN Refused ELSE <<Number(n * coef)>>

\* Mutation: the percent sign is parsed and forgotten.
WithExprSelectionNumber(nodes) ==
    LET of == nodes[Len(nodes)]
    IN  IF of.op # "of" \/ Len(nodes) = 1 THEN <<nodes[1]>>
        ELSE <<Tree("of", <<Tree("selection", <<nodes[1]>>)>> \o of.args)>>

WithExprSelection(nodes) ==
    LET of == nodes[Len(nodes)]
    IN  IF of.op # "of" \/ Len(nodes) = 1 THEN <<nodes[1]>>
        ELSE <<Tree("of", <<Tree("selection", Front(nodes))>> \o of.args)>>

ExpressionClosure(f, nodes) ==
    CASE f = "decimal_number" -> Parsed(10, nodes)
      [] f = "hexadecimal_number" -> Parsed(16, nodes)
      [] f = "octal_number" -> Parsed(8, nodes)
      [] f = "occurrence" -> IF nodes = <<>> THEN <<Number(1)>> ELSE nodes
      [] f = "for_expression_with_expr_selection" -> WithExprSelection(nodes)
==============================================================================
