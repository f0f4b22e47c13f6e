--------------------------------- MODULE Nom ---------------------------------
(* What the combinators accept, as nom 7 and boreal-parser/src/nom_recipes.rs   *)
(* define them.  A result is Ok, an Error (an alternative may be tried) or a    *)
(* Failure (none may).  The input carries the counters of nested calls: it is   *)
(* copied by the code, so that backtracking restores them.                     *)
EXTENDS Combinators, Naturals, SequencesExt, TLC

CONSTANTS
    Grammar,            \* the parser of every name used in a Ref
    Closure(_, _),      \* Closure(f, nodes): what the closure f of a map_res returns
    Blank,              \* pieces skipped by rtrim: spaces, comments
    OpenComment,        \* piece that opens a comment nothing closes
    Alphanumeric,       \* pieces whose first character is alphanumeric
    MaxRecursion        \* the limit of each counter

Ok(in, v) == [k |-> "ok", in |-> in, v |-> v]
Error == [k |-> "error"]
Failure == [k |-> "failure"]
IsOk(r) == r.k = "ok"

NewInput(text) == [text |-> text, at |-> 1, counters |-> [c \in DOMAIN MaxRecursion |-> 0]]
IsEmpty(in) == in.at > Len(in.text)
Advance(in, n) == [in EXCEPT !.at = @ + n]
NextIn(in, set) == ~IsEmpty(in) /\ in.text[in.at] \in set

\* The input after the longest run of pieces of `set`.
RECURSIVE AfterRun(_, _)
AfterRun(in, set) == IF NextIn(in, set) THEN AfterRun(Advance(in, 1), set) ELSE in

StripPrefix(in, pieces) ==
    IF /\ in.at + Len(pieces) - 1 <= Len(in.text)
       /\ \A i \in DOMAIN pieces : in.text[in.at + i - 1] = pieces[i]
    THEN Ok(Advance(in, Len(pieces)), <<>>)
    ELSE Error

\* Skip the blanks after a parser that accepted.
TrimRight(r) ==
    LET in == AfterRun(r.in, Blank)
    IN  IF NextIn(in, {OpenComment}) THEN Failure ELSE Ok(in, r.v)

textual_tag(in, pieces) ==
    LET r == StripPrefix(in, pieces)
    IN  IF IsOk(r) /\ NextIn(r.in, Alphanumeric) THEN Error ELSE r

\* The pieces from `in` to `end`, as leaves.
Recognized(in, end) == [i \in 1 .. end.at - in.at |-> Leaf(in.text[in.at + i - 1])]

Enter(in, counter) == [in EXCEPT !.counters[counter] = @ + 1]
Leave(in, counter) == [in EXCEPT !.counters[counter] = @ - 1]

Again(p, acc) == [p EXCEPT !.acc = acc]
Rest(p, acc) == [p EXCEPT !.ps = Tail(@), !.acc = acc]

\* What is left of the parser p, called on `in`, when a part it called has returned.
Then(p, in) == [k |-> "then", of |-> p, in |-> in]
\* The right operand of a binary operator, the item after prefix operators, and an
\* operand of `and` and `or`, are such parts.
Right(p, op) == [k |-> "right", ops |-> p.ops, op |-> op, acc |-> p.acc]
Prefixed(p) == [k |-> "prefixed", acc |-> p.acc]
NextOperand(p) == [k |-> "operand", nary |-> p]

\* Parsers that only return what a part of them does, or something made of that.
OfOnePart == {"rtrim", "node", "cut", "map_res", "not", "lax", "many"}

\* Parse[p, in] is what the parser p returns on the input `in`, and Parse[Then(p, in), r]
\* what it returns when its part has returned r.  The parsers that loop carry what they
\* have read so far in `acc`.
Parse[p \in Any, x \in Any] ==
    CASE p.k = "then" /\ IsOk(x) ->
          (CASE p.of.k = "seq" /\ Len(p.of.ps) = 1 -> Ok(x.in, p.of.acc \o x.v)
             [] p.of.k = "seq" /\ Len(p.of.ps) > 1 ->
                   Parse[Then(Rest(p.of, p.of.acc \o x.v), x.in), Parse[p.of.ps[2], x.in]]
             [] p.of.k = "rtrim" -> TrimRight(x)
             [] p.of.k = "node" -> Ok(x.in, <<Tree(p.of.op, x.v)>>)
             [] p.of.k \in {"alt", "cut", "lax"} -> x
             [] p.of.k = "not" -> Error
             [] p.of.k = "map_res" ->
                   LET v == Closure(p.of.f, x.v) IN IF v = Refused THEN Failure ELSE Ok(x.in, v)
             [] p.of.k = "counted" -> Ok(Leave(x.in, p.of.counter), x.v)
             [] p.of.k \in {"many", "all", "prefix"} -> Parse[Again(p.of, p.of.acc \o x.v), x.in]
             \* Prefix operators are applied from the last one.
             [] p.of.k = "prefixed" ->
                   Ok(x.in, FoldRight(LAMBDA o, e : <<Tree(o.op, e)>>, p.of.acc, x.v))
             \* `acc` is the expression parsed so far, the left operand.
             [] p.of.k = "chain" -> Parse[Operators(p.of.ops, p.of.ops, x.v), x.in]
             [] p.of.k = "operators" ->
                   Parse[Then(Right(p.of, x.v[1].op), x.in), Parse[Head(p.of.left).right, x.in]]
             [] p.of.k = "right" ->
                   Parse[Operators(p.of.ops, p.of.ops, <<Tree(p.of.op, p.of.acc \o x.v)>>), x.in]
             [] p.of.k = "nary" -> Parse[Then(NextOperand(p.of), x.in), Parse[Cut(p.of.item), x.in]]
             [] p.of.k = "operand" -> Parse[Again(p.of.nary, p.of.nary.acc \o x.v), x.in])
      \* The first alternative, and the first operator, that accepts.
      [] p.k = "then" /\ ~IsOk(x) ->
          (CASE p.of.k = "alt" /\ x = Error /\ Len(p.of.ps) > 1 ->
                   Parse[Then(Alt(Tail(p.of.ps)), p.in), Parse[p.of.ps[2], p.in]]
             [] p.of.k = "operators" /\ Len(p.of.left) > 1 ->
                   Parse[Then([p.of EXCEPT !.left = Tail(@)], p.in), Parse[p.of.left[2].op, p.in]]
             [] p.of.k = "operators" /\ Len(p.of.left) = 1 -> Ok(p.in, p.of.acc)
             [] p.of.k = "prefix" -> Parse[Then(Prefixed(p.of), p.in), Parse[p.of.item, p.in]]
             [] p.of.k = "cut" -> Failure
             [] p.of.k = "lax" -> Error
             [] p.of.k = "not" -> Ok(p.in, <<>>)
             [] p.of.k = "many" /\ x = Error -> Ok(p.in, p.of.acc)
             \* One operand is no node.
             [] p.of.k = "nary" ->
                   Ok(p.in, IF Len(p.of.acc) = 1 THEN p.of.acc ELSE <<Tree(p.of.name, p.of.acc)>>)
             [] OTHER -> x)
      [] p.k = "tag" -> StripPrefix(x, p.pieces)
      [] p.k \in OfOnePart -> Parse[Then(p, x), Parse[p.p, x]]
      [] p.k \in {"seq", "alt"} -> Parse[Then(p, x), Parse[Head(p.ps), x]]
      [] p.k = "textual_tag" -> textual_tag(x, p.pieces)
      [] p.k = "take" ->
            IF NextIn(x, p.set) THEN Ok(Advance(x, 1), <<Leaf(x.text[x.at])>>) ELSE Error
      [] p.k = "ref" -> Parse[Grammar[p.name], x]
      [] p.k = "chain" -> Parse[Then(p, x), Parse[p.item, x]]
      [] p.k = "operators" -> Parse[Then(p, x), Parse[Head(p.left).op, x]]
      [] p.k = "prefix" -> Parse[Then(p, x), Parse[p.op, x]]
      [] p.k = "success" -> Ok(x, <<>>)
      [] p.k = "take_while" -> LET end == AfterRun(x, p.set) IN Ok(end, Recognized(x, end))
      [] p.k = "counted" ->
            IF x.counters[p.counter] >= MaxRecursion[p.counter] THEN Failure
            ELSE Parse[Then(p, x), Parse[p.p, Enter(x, p.counter)]]
      [] p.k = "nary" /\ p.acc = <<>> -> Parse[Then(NextOperand(p), x), Parse[p.item, x]]
      [] p.k = "nary" /\ p.acc # <<>> -> Parse[Then(p, x), Parse[p.op, x]]
      [] p.k = "all" -> IF IsEmpty(x) THEN Ok(x, p.acc) ELSE Parse[Then(p, x), Parse[p.p, x]]
==============================================================================
