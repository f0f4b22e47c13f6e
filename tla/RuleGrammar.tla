----------------------------- MODULE RuleGrammar -----------------------------
(* The grammar of a rules file: boreal-parser/src/file.rs and rule.rs.  The    *)
(* definitions have the names of the functions; where the grammar of           *)
(* conditions has the same name, the file is prefixed.                         *)
EXTENDS ExpressionGrammar

CONSTANTS
    HexString,      \* hex strings, as one piece
    EmptyString,    \* the text string "", which names no module and no file
    Alphabet        \* text strings of 64 bytes: the alphabets of base64

-----------------------------------------------------------------------------
(* Modifiers of a string *)

MaxXor == 255    \* u8::MAX

number_to_u8 == MapRes("number_to_u8", number)
xor_modifier ==
    MapRes("xor_modifier",
        Seqn(<<KeywordNode("xor"),
               Opt(Seqn(<<Symbol(<<"(">>), Cut(number_to_u8),
                          Alt(<<Seqn(<<Symbol(<<"-">>), Cut(number_to_u8)>>), Success>>),
                          Cut(Symbol(<<")">>))>>))>>))

base64_modifier ==
    Node("base64",
        Seqn(<<Rtrim(Alt(<<Node("ascii", TextualTag("base64")),
                           Node("wide", TextualTag("base64wide"))>>)),
               Opt(Seqn(<<Symbol(<<"(">>), Cut(MapRes("alphabet", quoted)), Cut(Symbol(<<")">>))>>))>>))

regex_modifier ==
    Alt(<<KeywordNode("wide"), KeywordNode("ascii"), KeywordNode("nocase"),
          KeywordNode("fullword"), KeywordNode("private")>>)
string_modifier == Alt(Append(regex_modifier.ps, xor_modifier) \o <<base64_modifier>>)
hex_string_modifier == KeywordNode("private")

accumulate_modifiers(parser) == MapRes("accumulate_modifiers", Many0(parser))

-----------------------------------------------------------------------------
(* Sections of a rule *)

tags == Seqn(<<Symbol(<<":">>), Cut(Many1(raw_identifier))>>)

meta_declaration ==
    Node("meta",
        Seqn(<<raw_identifier, Symbol(<<"=">>),
               Alt(<<Node("bytes", quoted), number,
                     MapRes("negate", Seqn(<<Symbol(<<"-">>), number>>)),
                     KeywordNode("true"), KeywordNode("false")>>)>>))
meta == Seqn(<<Keyword("meta"), Symbol(<<":">>), Cut(Many1(meta_declaration))>>)

string_declaration ==
    Node("string",
        Seqn(<<string_identifier, Cut(Symbol(<<"=">>)),
               Cut(Alt(<<Seqn(<<Node("bytes", quoted), accumulate_modifiers(string_modifier)>>),
                         Seqn(<<Node("regex", Rtrim(Take(RegexLiteral))),
                                accumulate_modifiers(regex_modifier)>>),
                         Seqn(<<Node("hex", Rtrim(Take(HexString))),
                                accumulate_modifiers(hex_string_modifier)>>)>>))>>))
strings == Seqn(<<Keyword("strings"), Symbol(<<":">>), Cut(Many1(string_declaration))>>)

condition == Seqn(<<Keyword("condition"), Cut(Seqn(<<Symbol(<<":">>), expression>>))>>)

\* `rule` is looked for first: the loop over the flags is a repetition that it
\* ends.
rule ==
    Node("rule",
        Seqn(<<MapRes("flags", Many0(Alt(<<KeywordNode("private"), KeywordNode("global")>>))),
               Keyword("rule"), raw_identifier, Node("tags", Opt(tags)),
               Symbol(<<"{">>), Node("metas", Opt(meta)), Node("strings", Opt(strings)), condition,
               Symbol(<<"}">>)>>))

-----------------------------------------------------------------------------
(* file.rs *)

named(keyword) ==
    Node(keyword, Rtrim(Seqn(<<Keyword(keyword), Cut(Take(QuotedString \ {EmptyString}))>>)))
include_file == named("include")
import == named("import")
parse_yara_file == Seqn(<<Rtrim(Success), UntilEnd(Alt(<<include_file, import, rule>>))>>)

RuleProductions == ExpressionProductions

-----------------------------------------------------------------------------
(* The closures.  VariableModifiers is a record, in the order of its fields;   *)
(* base64 is absent or says which encodings and alphabet.                      *)

Byte(node) == CHOOSE n \in 0 .. MaxXor : node = Number(n)

XorRange(nodes) ==
    CASE Len(nodes) = 1 -> <<Tree("xor", <<Number(0), Number(MaxXor)>>)>>
      [] Len(nodes) = 2 -> <<Tree("xor", <<nodes[2], nodes[2]>>)>>
      [] Byte(nodes[3]) < Byte(nodes[2]) -> Refused
      [] OTHER -> <<Tree("xor", Tail(nodes))>>

\* Mutation: base64 and base64wide merge whatever their alphabets.
AddModifierAnyAlphabet(acc, m) ==
    LET same == {i \in DOMAIN acc : acc[i].op = m.op}
        i == CHOOSE i \in same : TRUE
    IN  CASE acc = Refused -> Refused
          [] same = {} -> Append(acc, m)
          [] m.op # "base64" -> Refused
          [] \E j \in DOMAIN acc[i].args : acc[i].args[j] = m.args[1] -> Refused
          [] OTHER -> [acc EXCEPT ![i].args = <<m.args[1]>> \o @]

\* A second modifier of the same kind is refused, but for base64 and base64wide,
\* which merge when they have the same alphabet.
AddModifier(acc, m) ==
    LET same == {i \in DOMAIN acc : acc[i].op = m.op}
        i == CHOOSE i \in same : TRUE
    IN  CASE acc = Refused -> Refused
          [] same = {} -> Append(acc, m)
          [] m.op # "base64" -> Refused
          [] \E j \in DOMAIN acc[i].args : acc[i].args[j] = m.args[1] -> Refused
          [] SelectSeq(acc[i].args, LAMBDA a : a.op \notin {"ascii", "wide"}) # Tail(m.args) -> Refused
          [] OTHER -> [acc EXCEPT ![i].args = <<m.args[1]>> \o @]

\* validate_modifiers.
Incompatible == {{"xor", "nocase"}, {"xor", "base64"}, {"nocase", "base64"}, {"fullword", "base64"}}

InOrder(nodes, order) ==
    FlattenSeq([i \in DOMAIN order |-> SelectSeq(nodes, LAMBDA n : n.op = order[i])])

Accumulate(nodes) ==
    LET acc == FoldLeft(AddModifier, <<>>, nodes)
        names == {acc[i].op : i \in DOMAIN acc}
        base64(m) == Tree("base64", InOrder(m.args, <<"ascii", "wide">>)
                                    \o SelectSeq(m.args, LAMBDA a : a.op \notin {"ascii", "wide"}))
    IN  IF acc = Refused \/ \E pair \in Incompatible : pair \subseteq names THEN Refused
        ELSE <<Tree("modifiers",
                    [i \in DOMAIN acc |->
                        LET m == InOrder(acc, <<"wide", "ascii", "nocase", "fullword",
                                                "private", "xor", "base64">>)[i]
                        IN  IF m.op = "base64" THEN base64(m) ELSE m])>>

FlagSet(nodes) ==
    Tree("flags", SelectSeq(<<Leaf("private"), Leaf("global")>>,
                            LAMBDA f : \E i \in DOMAIN nodes : nodes[i] = f))

RuleClosure(f, nodes) ==
    CASE f = "number_to_u8" -> IF nodes[1] \in {Number(n) : n \in 0 .. MaxXor} THEN nodes ELSE Refused
      [] f = "xor_modifier" -> XorRange(nodes)
      [] f = "alphabet" -> IF nodes[1].op \in Alphabet THEN nodes ELSE Refused
      [] f = "accumulate_modifiers" -> Accumulate(nodes)
      [] f = "negate" -> IF nodes[1] = Number(0) THEN nodes ELSE <<Tree("minus", nodes)>>
      [] f = "flags" -> <<FlagSet(nodes)>>
      [] OTHER -> ExpressionClosure(f, nodes)
==============================================================================
