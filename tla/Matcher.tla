------------------------------ MODULE Matcher ------------------------------
(* The matcher of one string (src/boreal/src/matcher, atoms.rs): how the      *)
(* expression of a string is turned into literals that one Aho-Corasick pass  *)
(* can look for, and how a literal that is found is turned into matches of    *)
(* the string.                                                                *)
(*                                                                            *)
(* A byte is its value. An expression (the HIR with its groups and nested     *)
(* concatenations flattened) is a sequence of nodes; masks, classes and dots  *)
(* are the set of the bytes they accept. An offset i of a memory is the TLA+  *)
(* index i + 1. Word boundaries, xor and base64 are not modelled.             *)
EXTENDS Integers, Sequences, FiniteSets, SequencesExt

Byte == 0..255

Literal(b) == [kind |-> "literal", bytes |-> {b}]
Class(S)   == [kind |-> "class", bytes |-> S]
Mask(S)    == [kind |-> "mask", bytes |-> S]
Dot        == [kind |-> "dot"]
AnyByte    == [kind |-> "any"]      \* a dot of a hex string, which is dot_all
Repetition(e, lo, hi, greedy) ==
    [kind |-> "repetition", body |-> e, lo |-> lo, hi |-> hi, greedy |-> greedy]
Alternation(branches) == [kind |-> "alternation", branches |-> branches]
StartLine == [kind |-> "start_line"]
EndLine   == [kind |-> "end_line"]

OneByte(n) == n.kind \in {"literal", "class", "mask", "dot", "any"}
ByteSet(n) == CASE n.kind = "dot" -> Byte \ {10}
              [] n.kind = "any" -> Byte
              [] OTHER -> n.bytes

Lower(b) == IF b \in 65..90 THEN b + 32 ELSE b
LowerAll(s) == [i \in DOMAIN s |-> Lower(s[i])]
IsAlphanumeric(b) == b \in 48..57 \/ b \in 65..90 \/ b \in 97..122

\* The bytes of mem from offset start to offset end, excluded.
Slice(mem, start, end) == SubSeq(mem, start + 1, end)

\* The numbers of S, a subset of 0..n, in ascending order.
Ascending(S, n) == SelectSeq([k \in 1..(n + 1) |-> k - 1], LAMBDA i : i \in S)
-----------------------------------------------------------------------------
(* What an expression matches.                                                *)

RECURSIVE Ends(_, _, _, _), Iterations(_, _, _, _, _)

\* The offsets at which node n may end when it starts at i, the preferred one
\* first: the order of a leftmost-first engine.
NodeEnds(n, mem, i, to) ==
    CASE OneByte(n) ->
           IF i < to /\ mem[i + 1] \in ByteSet(n) THEN <<i + 1>> ELSE <<>>
      [] n.kind = "repetition" -> Iterations(n, n.lo, n.hi, <<mem, to>>, i)
      [] n.kind = "alternation" ->
           FlattenSeq([b \in DOMAIN n.branches |-> Ends(n.branches[b], mem, i, to)])
      [] n.kind = "start_line" -> IF i = 0 THEN <<i>> ELSE <<>>
      [] n.kind = "end_line"   -> IF i = Len(mem) THEN <<i>> ELSE <<>>

Iterations(n, lo, hi, in, i) ==
    LET bodies == SelectSeq(Ends(n.body, in[1], i, in[2]), LAMBDA j : j > i)
        more == IF hi = 0 THEN <<>>
                ELSE FlattenSeq([b \in DOMAIN bodies |->
                         Iterations(n, IF lo = 0 THEN 0 ELSE lo - 1, hi - 1, in,
                                    bodies[b])])
        stop == IF lo = 0 THEN <<i>> ELSE <<>>
    IN  IF n.greedy THEN more \o stop ELSE stop \o more

\* The ends of expression e started at i in mem[..to], the preferred one first.
Ends(e, mem, i, to) ==
    IF e = <<>> THEN <<i>>
    ELSE LET first == NodeEnds(Head(e), mem, i, to)
         IN  FlattenSeq([k \in DOMAIN first |-> Ends(Tail(e), mem, first[k], to)])

\* A search that must start at start: the end the engine picks, if any.
FirstOf(ends) == IF ends = <<>> THEN <<>> ELSE <<Head(ends)>>
find_anchored_fwd(e, mem, start, to) == FirstOf(Ends(e, mem, start, to))

\* The starts, from start on, of the matches that end at end: what the loop
\* over find_anchored_rev visits.
AnchoredRev(e, mem, start, end) ==
    Ascending({s \in start..end : Contains(Ends(e, mem, s, end), end)}, end)

\* The nocase and wide modifiers as changes of the expression.
RECURSIVE MapBytes(_, _)
MapBytes(e, modifier) ==
    FlattenSeq([k \in DOMAIN e |->
        LET n == e[k] IN
        CASE n.kind = "repetition" ->
               <<[n EXCEPT !.body = MapBytes(@, modifier)]>>
          [] n.kind = "alternation" ->
               <<[n EXCEPT !.branches =
                     [b \in DOMAIN @ |-> MapBytes(@[b], modifier)]]>>
          [] OneByte(n) /\ modifier = "wide" -> <<n, Literal(0)>>
          [] n.kind \in {"literal", "class"} /\ modifier = "nocase" ->
               <<[n EXCEPT !.bytes = @ \cup {b + 32 : b \in @ \cap 65..90}
                                      \cup {b - 32 : b \in @ \cap 97..122}]>>
          [] OTHER -> <<n>>])

widen_hir(e) == MapBytes(e, "wide")
\* The expression a search runs, given the modifiers and the type of match.
Searched(e, modifiers, wide) ==
    LET cased == IF modifiers.nocase THEN MapBytes(e, "nocase") ELSE e
    IN  IF wide THEN widen_hir(cased) ELSE cased
-----------------------------------------------------------------------------
(* Atoms and literals.                                                        *)

ATOM_SIZE == 4
MAX_SPLIT_MATCH_LENGTH == 4096
Common == {0, 32, 204, 255}

byte_rank(b) == IF b \in Common THEN 12 ELSE IF b \in 97..122 THEN 18 ELSE 20

RECURSIVE Total(_)
Total(s) == IF s = <<>> THEN 0 ELSE Head(s) + Total(Tail(s))
RECURSIVE Product(_)
Product(s) == IF s = <<>> THEN 1 ELSE Head(s) * Product(Tail(s))

\* The rank of one to four parts, each the set of the bytes it accepts: rare
\* bytes and different bytes are better.
Quality(parts) ==
    LET ranks == [k \in DOMAIN parts |-> Min({byte_rank(b) : b \in parts[k]})]
        before(k) == UNION {parts[j] : j \in 1..(k - 1)}
        fresh == {k \in DOMAIN parts : ~ parts[k] \subseteq before(k)}
    IN  Total(ranks)
        + IF Cardinality(fresh) = 1 /\ UNION Range(parts) \cap Common # {}
          THEN -10 * Len(parts) ELSE 2 * Cardinality(fresh)

atom_rank(atom) == Quality([k \in DOMAIN atom |-> {atom[k]}])
Windows(lit) == {Slice(lit, i, i + ATOM_SIZE) : i \in 0..(Len(lit) - ATOM_SIZE)}

atoms_rank(literals) ==
    Min({IF Len(l) > ATOM_SIZE THEN Max({atom_rank(w) : w \in Windows(l)})
         ELSE atom_rank(l) : l \in Range(literals)})

\* The offset of the atom in a literal: the last window of the best rank.
AtomStart(lit) ==
    LET rank(i) == atom_rank(Slice(lit, i, i + ATOM_SIZE))
        starts == 0..(Len(lit) - ATOM_SIZE)
    IN  Max({i \in starts : \A j \in starts : rank(j) <= rank(i)})
pick_atom_in_literal(lit) ==
    IF Len(lit) <= ATOM_SIZE THEN [start |-> 0, end |-> 0]
    ELSE [start |-> AtomStart(lit), end |-> Len(lit) - AtomStart(lit) - ATOM_SIZE]

Combinations(parts) ==
    Product([k \in DOMAIN parts |-> Cardinality(ByteSet(parts[k]))])

\* A slice of single-byte nodes that may be expanded into literals.
Expandable(parts) ==
    /\ Len(parts) \in 1..4 /\ \A k \in DOMAIN parts : OneByte(parts[k])
    /\ Cardinality(ByteSet(Head(parts))) < 100 /\ Cardinality(ByteSet(Last(parts))) < 100
    /\ Combinations(parts) <= 256

get_parts_rank(parts) ==
    LET quality == Quality([k \in DOMAIN parts |-> ByteSet(parts[k])])
        penalty == IF Combinations(parts) >= 100 THEN 10
                   ELSE IF Combinations(parts) > 1 THEN 4 ELSE 0
    IN  IF penalty = 0 THEN quality
        ELSE Max({0, quality - penalty * Len(parts)})

\* The literals an expression without repetition expands to, in order.
RECURSIVE generate_literals(_)
Expansions(n) ==
    IF n.kind = "alternation"
    THEN FlattenSeq([b \in DOMAIN n.branches |-> generate_literals(n.branches[b])])
    ELSE [k \in 1..Cardinality(ByteSet(n)) |-> <<Ascending(ByteSet(n), 255)[k]>>]
generate_literals(e) ==
    IF e = <<>> THEN <<<<>>>>
    ELSE LET prefixes == generate_literals(Front(e))
             suffixes == Expansions(Last(e))
         IN  FlattenSeq([p \in DOMAIN prefixes |->
                 [s \in DOMAIN suffixes |-> prefixes[p] \o suffixes[s]]])

\* Every place literals may be extracted from, [first, last] in the nodes of e:
\* a slice of a run of single-byte nodes, or an alternation of literals.
LiteralBranches(n) ==
    /\ n.kind = "alternation"
    /\ \A b \in DOMAIN n.branches :
         /\ n.branches[b] # <<>>
         /\ \A k \in DOMAIN n.branches[b] : n.branches[b][k].kind = "literal"
Places(e) ==
    {p \in (DOMAIN e) \X (DOMAIN e) :
        \/ p[1] <= p[2] /\ Expandable(SubSeq(e, p[1], p[2]))
        \/ p[1] = p[2] /\ LiteralBranches(e[p[1]])}
PlaceRank(e, p) ==
    IF e[p[1]].kind = "alternation" THEN atoms_rank(Expansions(e[p[1]]))
    ELSE get_parts_rank(SubSeq(e, p[1], p[2]))
\* The first place of the best rank.
BestPlace(e) ==
    CHOOSE p \in Places(e) : \A q \in Places(e) :
        \/ PlaceRank(e, q) < PlaceRank(e, p)
        \/ /\ PlaceRank(e, q) = PlaceRank(e, p)
           /\ p[1] < q[1] \/ (p[1] = q[1] /\ p[2] <= q[2])

\* The literals next to the place p are added to it.
Upscaled(e, p) ==
    LET literal(i, j) == \A k \in i..j : e[k].kind = "literal"
    IN  IF e[p[1]].kind = "alternation" THEN p
        ELSE <<Min({i \in 1..p[1] : literal(i, p[1] - 1)}),
               Max({j \in p[2]..Len(e) : literal(p[2] + 1, j)})>>

\* <<>> stands for an absent pre or post expression.
Details(e, p) ==
    [literals |-> generate_literals(SubSeq(e, p[1], p[2])),
     pre  |-> IF p[1] > 1 THEN SubSeq(e, 1, p[2]) ELSE <<>>,
     post |-> IF p[2] < Len(e) THEN SubSeq(e, p[1], Len(e)) ELSE <<>>]
get_literals_details(e) ==
    IF Places(e) = {} THEN [literals |-> <<>>, pre |-> <<>>, post |-> <<>>]
    ELSE Details(e, Upscaled(e, BestPlace(e)))
-----------------------------------------------------------------------------
(* The analysis of an expression, and the matcher built from it.              *)

RECURSIVE HasNode(_, _)
HasNode(e, wanted) ==
    \E k \in DOMAIN e :
        \/ e[k].kind \in wanted
        \/ "greedy" \in wanted /\ e[k].kind = "repetition" /\ e[k].greedy
        \/ e[k].kind = "repetition" /\ HasNode(e[k].body, wanted)
        \/ e[k].kind = "alternation"
           /\ \E b \in DOMAIN e[k].branches : HasNode(e[k].branches[b], wanted)

has_start_or_end_line(e)  == HasNode(e, {"start_line", "end_line"})
has_greedy_repetitions(e) == HasNode(e, {"greedy"})

\* The number of literals that cover e: 0 when literals cannot, which one branch
\* of an alternation is enough for.
RECURSIVE nb_alt_literals(_)
nb_alt_literals(e) ==
    LET branches(n) == [b \in DOMAIN n.branches |-> nb_alt_literals(n.branches[b])]
    IN  Product([k \in DOMAIN e |->
            CASE OneByte(e[k]) -> Cardinality(ByteSet(e[k]))
              [] e[k].kind = "alternation" ->
                   IF 0 \in Range(branches(e[k])) THEN 0 ELSE Total(branches(e[k]))
              [] OTHER -> 0])

widen_literal(lit) == FlattenSeq([k \in DOMAIN lit |-> <<lit[k], 0>>])
\* The ascii literals are first, the wide ones second.
apply_ascii_wide_flags_on_literals(literals, modifiers) ==
    LET wides == [k \in DOMAIN literals |-> widen_literal(literals[k])]
    IN  IF ~ modifiers.wide THEN literals
        ELSE IF modifiers.ascii THEN literals \o wides ELSE wides

RECURSIVE Deduplicated(_)
Deduplicated(s) ==
    IF s = <<>> THEN <<>>
    ELSE LET kept == Deduplicated(Front(s))
         IN  IF Contains(kept, Last(s)) THEN kept ELSE Append(kept, Last(s))

Raw(e, modifiers) == [kind |-> "raw", literals |-> <<>>, pre |-> <<>>,
                      post |-> <<>>, full |-> e, modifiers |-> modifiers]

\* The matcher of the strings whose literals do not cover them.
RawOrAtomized(e, modifiers, details, literals) ==
    IF literals = <<>> THEN Raw(e, modifiers)
    ELSE [Raw(e, modifiers) EXCEPT !.kind = "atomized", !.literals = literals,
                                   !.pre = details.pre, !.post = details.post]
LiteralsOf(details, modifiers) ==
    apply_ascii_wide_flags_on_literals(Deduplicated(details.literals), modifiers)

new_regex(e, modifiers) ==
    LET details == get_literals_details(e)
    IN  IF has_start_or_end_line(e) THEN Raw(e, modifiers)
        ELSE IF nb_alt_literals(e) \in 1..99 /\ ~ modifiers.nocase /\ ~ modifiers.wide
        THEN [Raw(e, modifiers) EXCEPT !.kind = "literals",
                                       !.literals = generate_literals(e)]
        ELSE RawOrAtomized(e, modifiers, details, LiteralsOf(details, modifiers))

new_bytes(value, modifiers) ==
    [Raw([k \in DOMAIN value |-> Literal(value[k])], modifiers)
        EXCEPT !.kind = "literals",
               !.literals = apply_ascii_wide_flags_on_literals(<<value>>, modifiers)]
-----------------------------------------------------------------------------
(* The simple validator: an expression that is checked byte by byte, without   *)
(* an engine. A node checks a byte, or jumps over some.                        *)

MAX_JUMP == 255

IsSimple(e, modifiers) ==
    /\ ~ modifiers.nocase /\ ~ modifiers.wide
    /\ ~ HasNode(e, {"start_line", "end_line", "repetition", "class", "alternation"})

\* Any bytes one after the other are one jump.
add_hir_to_simple_nodes(nodes, n) ==
    IF n.kind # "any" THEN Append(nodes, [jump |-> 0, bytes |-> ByteSet(n)])
    ELSE IF nodes # <<>> /\ Last(nodes).jump \in 1..(MAX_JUMP - 1)
    THEN [nodes EXCEPT ![Len(nodes)].jump = @ + 1]
    ELSE Append(nodes, [jump |-> 1, bytes |-> Byte])
SimpleNodes(e) == FoldLeft(add_hir_to_simple_nodes, <<>>, e)

\* How many bytes a node takes, and the first k nodes.
Taken(node) == Max({node.jump, 1})
Length(nodes, k) == Total([i \in 1..k |-> Taken(nodes[i])])

check_node(node, mem, index) == node.jump > 0 \/ mem[index + 1] \in node.bytes

SimpleFwd(e, mem, start, to) ==
    LET nodes == SimpleNodes(e)
        length == Length(nodes, Len(nodes))
    IN  IF /\ to - start >= length
           /\ \A k \in DOMAIN nodes :
                check_node(nodes[k], mem, start + Length(nodes, k - 1))
        THEN <<start + length>> ELSE <<>>

\* The nodes are met from the last one, each at the byte before those it follows:
\* one start at most.
SimpleRev(e, mem, start, end) ==
    LET nodes == SimpleNodes(Reverse(e))
        length == Length(nodes, Len(nodes))
    IN  IF /\ end - start >= length
           /\ \A k \in DOMAIN nodes :
                check_node(nodes[k], mem, end - Length(nodes, k - 1) - 1)
        THEN <<end - length>> ELSE <<>>

\* HalfValidator: the simple validator when it can be.
HalfFwd(e, modifiers, wide, mem, start, to) ==
    IF IsSimple(e, modifiers) THEN SimpleFwd(e, mem, start, to)
    ELSE find_anchored_fwd(Searched(e, modifiers, wide), mem, start, to)
HalfRev(e, modifiers, wide, mem, start, end) ==
    IF IsSimple(e, modifiers) THEN SimpleRev(e, mem, start, end)
    ELSE AnchoredRev(Searched(e, modifiers, wide), mem, start, end)
-----------------------------------------------------------------------------
(* From a literal found in a memory to matches of the string. A match is the  *)
(* range [start, end) of the memory.                                          *)

Match(start, end) == [start |-> start, end |-> end]

check_fullword(mem, m, wide) ==
    LET alphanumeric(i) == IsAlphanumeric(mem[i + 1]) IN
    IF wide
    THEN /\ ~ (m.start > 1 /\ mem[m.start] = 0 /\ alphanumeric(m.start - 2))
         /\ ~ (m.end + 1 < Len(mem) /\ alphanumeric(m.end) /\ mem[m.end + 2] = 0)
    ELSE /\ ~ (m.start > 0 /\ alphanumeric(m.start - 1))
         /\ ~ (m.end < Len(mem) /\ alphanumeric(m.end))
validate_fullword(x, mem, m, wide) ==
    x.modifiers.fullword => check_fullword(mem, m, wide)

\* Mutation: the lowercase atom is enough.
confirm_ac_literalNever(x, mem, m, l) == TRUE

\* The bytes at m are the literal, and not only its lowercase atom.
confirm_ac_literal(x, mem, m, l) ==
    LET found == Slice(mem, m.start, m.end)
    IN  IF x.modifiers.nocase THEN LowerAll(found) = LowerAll(x.literals[l])
        ELSE found = x.literals[l]
IsWide(x, l) ==
    x.modifiers.wide /\ (x.modifiers.ascii => l > Len(x.literals) \div 2)

\* The matches from every start to the end the engine picks.
StartedAt(s, ends) == [j \in DOMAIN ends |-> Match(s, ends[j])]
FullMatches(e, mem, starts, to) ==
    FlattenSeq([k \in DOMAIN starts |->
        StartedAt(starts[k], find_anchored_fwd(e, mem, starts[k], to))])
Joined(starts, ends) ==
    IF ends = <<>> THEN <<>>
    ELSE [k \in DOMAIN starts |-> Match(starts[k], Head(ends))]

\* A string whose pre expression may eat the literal is searched again in full.
validate_match(x, mem, m, start_position, wide) ==
    LET searched(e) == Searched(e, x.modifiers, wide)
        from == Max({start_position, m.end - MAX_SPLIT_MATCH_LENGTH})
        to   == Min({Len(mem), m.start + MAX_SPLIT_MATCH_LENGTH})
        starts == IF x.pre = <<>> THEN <<m.start>>
                  ELSE HalfRev(x.pre, x.modifiers, wide, mem, from, m.end)
        ends == IF x.post = <<>> THEN <<m.end>>
                ELSE HalfFwd(x.post, x.modifiers, wide, mem, m.start, to)
    IN  IF has_greedy_repetitions(x.pre)
        THEN FullMatches(searched(x.full), mem,
                         AnchoredRev(searched(x.pre), mem, from, m.end), to)
        ELSE Joined(starts, ends)

\* The matches of the string that literal l, found at m, gives.
process_ac_match(x, mem, m, start_position, l) ==
    LET wide == IsWide(x, l)
        found == IF x.kind = "literals" THEN <<m>>
                 ELSE validate_match(x, mem, m, start_position, wide)
    IN  SelectSeq(found, LAMBDA f : validate_fullword(x, mem, f, wide))

\* The types of match a string looks for, TRUE for the wide one.
MatchTypes(modifiers) ==
    (IF modifiers.wide THEN {TRUE} ELSE {})
    \cup (IF modifiers.wide /\ ~ modifiers.ascii THEN {} ELSE {FALSE})

\* The first match of a raw string from offset on: the leftmost start, the
\* ascii pattern before the wide one. <<>> when there is none.
RECURSIVE find_next_match_at(_, _, _)
find_next_match_at(x, mem, offset) ==
    LET ends(s, wide) ==
            find_anchored_fwd(Searched(x.full, x.modifiers, wide), mem, s, Len(mem))
        matching(s) == {w \in MatchTypes(x.modifiers) : ends(s, w) # <<>>}
        starts == {s \in offset..Len(mem) : matching(s) # {}}
        start == Min(starts)
        wide == FALSE \notin matching(start)
        m == Match(start, Head(ends(start, wide)))
    IN  IF offset >= Len(mem) \/ starts = {} THEN <<>>
        ELSE IF validate_fullword(x, mem, m, wide) THEN <<m>>
        ELSE find_next_match_at(x, mem, start + 1)
=============================================================================
