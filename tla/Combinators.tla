----------------------------- MODULE Combinators -----------------------------
(* The parser combinators boreal-parser is written with (the nom crate and     *)
(* boreal-parser/src/nom_recipes.rs), as data: a grammar is a record of such   *)
(* terms, and module Nom says what they accept.                                *)
(*                                                                            *)
(* A text is a sequence of pieces, the smallest strings the grammar tells      *)
(* apart.  A parser that accepts returns a sequence of nodes; a node is        *)
(* [op, args], its operator and the sequence of its children, so that any two  *)
(* syntax trees can be compared.                                               *)
EXTENDS Sequences

Tree(op, args) == [op |-> op, args |-> args]
Leaf(op) == Tree(op, <<>>)

Success == [k |-> "success"]
Tag(pieces) == [k |-> "tag", pieces |-> pieces]         \* tag, char
TextualTag(piece) == [k |-> "textual_tag", pieces |-> <<piece>>]
Take(set) == [k |-> "take", set |-> set]                \* one piece of a set
TakeWhile(set) == [k |-> "take_while", set |-> set]
Rtrim(p) == [k |-> "rtrim", p |-> p]
Seqn(ps) == [k |-> "seq", ps |-> ps, acc |-> <<>>]      \* tuple, pair, preceded, delimited
Alt(ps) == [k |-> "alt", ps |-> ps]
Opt(p) == Alt(<<p, Success>>)
Cut(p) == [k |-> "cut", p |-> p]
Not(p) == [k |-> "not", p |-> p]                        \* lookahead: p does not accept here
Many0(p) == [k |-> "many", p |-> p, acc |-> <<>>]
Many1(p) == Seqn(<<p, Many0(p)>>)
SeparatedList1(sep, p) == Seqn(<<p, Many0(Seqn(<<sep, p>>))>>)
SeparatedList0(sep, p) == Opt(SeparatedList1(sep, p))
UntilEnd(p) == [k |-> "all", p |-> p, acc |-> <<>>]           \* p until the input is empty
Ref(name) == [k |-> "ref", name |-> name]               \* a function of the parser

\* `if let Ok(..)` and `match { Ok => .., Err(_) => .. }`: the other branch is
\* taken on a Failure too.
Lax(p) == [k |-> "lax", p |-> p]

\* The results of p become the children of one node, or go through the closure
\* of a map or of a map_res, which may refuse them.
Refused == <<Leaf("refused")>>
Node(op, p) == [k |-> "node", op |-> op, p |-> p]
MapRes(f, p) == [k |-> "map_res", f |-> f, p |-> p]

\* The loops `while let Ok((i, op)) = op(input)`: left-associative operators
\* (each with the parser of its right operand), prefix operators, and the
\* operators and, or, which collect all their operands.
Binary(op, right) == [op |-> op, right |-> right]
Chain(item, ops) == [k |-> "chain", item |-> item, ops |-> ops]
Operators(ops, left, acc) == [k |-> "operators", ops |-> ops, left |-> left, acc |-> acc]
Prefix(op, item) == [k |-> "prefix", op |-> op, item |-> item, acc |-> <<>>]
Nary(name, op, item) ==
    [k |-> "nary", name |-> name, op |-> op, item |-> item, acc |-> <<>>]

\* A parser that counts the calls it is nested in, and fails at the maximum.
Counted(counter, p) == [k |-> "counted", counter |-> counter, p |-> p]

\* The forms found everywhere in the grammar.
Keyword(word) == Rtrim(TextualTag(word))
Symbol(pieces) == Rtrim(Tag(pieces))
KeywordNode(word) == Node(word, Keyword(word))
Delimited(open, p, close) == Seqn(<<Symbol(<<open>>), p, Symbol(<<close>>)>>)
==============================================================================
