------------------------------- MODULE AcScan -------------------------------
(* The search of every string of a scanner in the regions of a memory         *)
(* (src/boreal/src/scanner/ac_scan.rs): one Aho-Corasick pass over the atoms  *)
(* of all the strings, then the strings that have no atom on their own.       *)
(*                                                                            *)
(* Two strings may share an atom, atoms and literals overlap, and what was    *)
(* recorded for a string decides what its later atoms may add: the properties *)
(* are about what is left in the end. The evaluator finds matches by a binary *)
(* search on their address (evaluator/variable.rs), counts them and takes     *)
(* them by rank.                                                              *)
EXTENDS Matcher

CONSTANTS
    Declared,       \* from the names of strings to their declarations
    Searches        \* [names, regions, fragmented, max]: the strings of the
                    \* scanner, the memory, string_max_nb_matches

VARIABLES
    search,         \* the member of Searches that is scanned
    recorded,       \* the vector `matches` of the code
    variables,      \* the compiled strings
    aho,            \* the automaton: what its atoms stand for, in order
    pc, region,     \* the region looked at, 0 before the first one
    hits,           \* the atoms of this region left to handle
    fetched         \* the regions that could be fetched
search_vars == <<search, variables, aho, pc, region, hits, fetched, recorded>>

\* A declared string is a text, [text, modifiers], or a regex, [expr, modifiers].
Compile(d) == IF "text" \in DOMAIN d THEN new_bytes(d.text, d.modifiers)
              ELSE new_regex(d.expr, d.modifiers)

Variables == DOMAIN variables
Mem == search.regions[region].mem
Base == search.regions[region].start
-----------------------------------------------------------------------------
(* The automaton: every literal of every string by its lowercase atom.        *)

LiteralInfosOf(v, x) ==
    [l \in DOMAIN x.literals |->
        LET lit == x.literals[l]
            offset == pick_atom_in_literal(lit)
        IN  [variable |-> v, literal |-> l, offset |-> offset,
             atom |-> LowerAll(Slice(lit, offset.start, Len(lit) - offset.end))]]
new(matchers) == FlattenSeq([v \in DOMAIN matchers |-> LiteralInfosOf(v, matchers[v])])

\* The literals whose atom, of length n, ends at end.
InfosAt(mem, end, n) ==
    SelectSeq(aho,
              LAMBDA i : /\ Len(i.atom) = n /\ n <= end
                         /\ LowerAll(Slice(mem, end - n, end)) = i.atom)
\* The overlapping atoms of a memory in the order the automaton meets them: by
\* end, the longest first; one atom stands for all the literals that have it.
find_overlapping_iter(mem) ==
    FlattenSeq([end \in 1..Len(mem) |->
        FlattenSeq([k \in 1..ATOM_SIZE |->
            LET n == ATOM_SIZE + 1 - k
                infos == InfosAt(mem, end, n)
            IN  [i \in DOMAIN infos |->
                    [info |-> infos[i], start |-> end - n, end |-> end,
                     first |-> i = 1]]])])
-----------------------------------------------------------------------------
StringMatch(m) == [base |-> Base, offset |-> m.start, length |-> m.end - m.start]
StringMatches(ms) == [k \in DOMAIN ms |-> StringMatch(ms[k])]
Address(m) == m.base + m.offset

Truncate(ms) == SubSeq(ms, 1, Min({Len(ms), search.max}))

\* The atom is upscaled to its literal, which must be inside the region.
Upscale(hit) == Match(hit.start - hit.info.offset.start,
                      hit.end + hit.info.offset.end)
InRegion(m) == m.start >= 0 /\ m.end <= Len(Mem)

\* Mutations: the last match of another region counts, or its start is searched
\* again.
StartPositionAnyRegion(ms) == IF ms # <<>> THEN Last(ms).offset + 1 ELSE 0
StartPositionSame(ms) ==
    IF ms # <<>> /\ Last(ms).base = Base THEN Last(ms).offset ELSE 0

\* Where new matches may start: after the last one, if it is in this region.
StartPosition(ms) ==
    IF ms # <<>> /\ Last(ms).base = Base THEN Last(ms).offset + 1 ELSE 0

\* The matches of a string once an atom of one of its literals was handled.
Confirmed(hit, ms) ==
    LET x == variables[hit.info.variable]
        m == Upscale(hit)
        found == process_ac_match(x, Mem, m, StartPosition(ms), hit.info.literal)
    IN  IF InRegion(m) /\ confirm_ac_literal(x, Mem, m, hit.info.literal)
        THEN Truncate(ms \o StringMatches(found)) ELSE ms

\* The search of a string without literals from offset on. The bound on the
\* number of matches is looked at after a match was pushed.
RECURSIVE scan_single_variable(_, _, _)
scan_single_variable(x, offset, ms) ==
    LET next == IF offset < Len(Mem) THEN find_next_match_at(x, Mem, offset)
                ELSE <<>>
        pushed == ms \o StringMatches(next)
    IN  IF next = <<>> THEN ms
        ELSE IF Len(pushed) >= search.max THEN pushed
        ELSE scan_single_variable(x, Head(next).start + 1, pushed)
-----------------------------------------------------------------------------
InitOn(in) ==
    /\ search = in
    /\ variables = [v \in DOMAIN in.names |-> Compile(Declared[in.names[v]])]
    /\ aho = new(variables)
    /\ pc = "next" /\ region = 0 /\ hits = <<>> /\ fetched = {}
    /\ recorded = [v \in Variables |-> <<>>]
SearchInit == \E in \in Searches : InitOn(in)

\* The next region is fetched and the automaton is run on it...
FetchRegion ==
    /\ pc = "next" /\ region < Len(search.regions)
    /\ region' = region + 1
    /\ hits' = find_overlapping_iter(search.regions[region'].mem)
    /\ fetched' = fetched \cup {region'}
    /\ pc' = "atoms"
    /\ UNCHANGED <<search, variables, aho, recorded>>

\* ... or it cannot be fetched, and is left out.
FetchFails ==
    /\ search.fragmented
    /\ pc = "next" /\ region < Len(search.regions)
    /\ region' = region + 1
    /\ UNCHANGED <<search, variables, aho, pc, hits, fetched, recorded>>

handle_possible_match ==
    /\ pc = "atoms" /\ hits # <<>>
    /\ LET v == Head(hits).info.variable
       IN  recorded' = [recorded EXCEPT ![v] = Confirmed(Head(hits), @)]
    /\ hits' = Tail(hits)
    /\ UNCHANGED <<search, variables, aho, pc, region, fetched>>

\* The timeout is only checked on an atom, before its literals: the whole scan
\* is given up.
ScanTimeout ==
    /\ pc = "atoms" /\ hits # <<>> /\ Head(hits).first
    /\ pc' = "timeout"
    /\ UNCHANGED <<search, variables, aho, region, hits, fetched, recorded>>

ScanRawVariables ==
    /\ pc = "atoms" /\ hits = <<>>
    /\ recorded' = [v \in Variables |->
                      IF variables[v].literals = <<>>
                      THEN scan_single_variable(variables[v], 0, recorded[v])
                      ELSE recorded[v]]
    /\ pc' = "next"
    /\ UNCHANGED <<search, variables, aho, region, hits, fetched>>

ScanEnds ==
    /\ pc = "next" /\ region = Len(search.regions)
    /\ pc' = "done"
    /\ UNCHANGED <<search, variables, aho, region, hits, fetched, recorded>>

SearchNext == \/ FetchRegion \/ FetchFails \/ handle_possible_match
              \/ ScanTimeout \/ ScanRawVariables \/ ScanEnds
SearchSpec == SearchInit /\ [][SearchNext]_search_vars
-----------------------------------------------------------------------------

\* The memory range of a match is one that the whole expression of the string
\* accepts, in a region that was fetched ("the match is then verified to see if
\* it matches the whole variable expression", ac_scan.rs).
EveryMatchOccurs ==
    \A v \in Variables : \A m \in Range(recorded[v]) :
        \E r \in fetched, w \in MatchTypes(variables[v].modifiers) :
            LET mem == search.regions[r].mem
                end == m.offset + m.length
                e == Searched(variables[v].full, variables[v].modifiers, w)
            IN  /\ search.regions[r].start = m.base
                /\ Contains(Ends(e, mem, m.offset, Len(mem)), end)
                /\ validate_fullword(variables[v], mem, Match(m.offset, end), w)

\* What a plain search of the expression at every offset of a region gives: one
\* match for each start, with the end a backtracking engine prefers.
Reference(v, r) ==
    LET mem == search.regions[r].mem
        mods == variables[v].modifiers
        wide == TRUE \in MatchTypes(mods)
        picked(s) == find_anchored_fwd(Searched(variables[v].full, mods, wide), mem, s,
                                       Len(mem))
    IN  FlattenSeq([k \in DOMAIN mem |->
            IF picked(k - 1) = <<>> THEN <<>>
            ELSE <<[base |-> search.regions[r].start, offset |-> k - 1,
                    length |-> Head(picked(k - 1)) - (k - 1)]>>])

\* Strings for which one literal is found per match: with an alternation, a
\* class that holds both cases of a letter under nocase, or both ascii and wide,
\* two literals may start on one byte. A fullword string may have any whole
\* word its expression accepts.
OneLiteralPerMatch(x) ==
    /\ ~ HasNode(x.full, {"alternation"})
    /\ x.modifiers.nocase => ~ HasNode(x.full, {"class"})
    /\ Cardinality(MatchTypes(x.modifiers)) = 1
    /\ ~ x.modifiers.fullword

\* Looking for atoms first, splitting the expression around its literals and
\* sharing one automaton between all the strings only make the search faster:
\* between two regions the matches are those of the plain search of each region
\* that was fetched, in order, up to the bound. (A string without literals may
\* exceed it: only its matches below the bound are compared.)
ScanIsExact ==
    pc \in {"next", "done"} => \A v \in Variables :
        LET all == FlattenSeq([r \in 1..region |->
                       IF r \in fetched THEN Reference(v, r) ELSE <<>>])
        IN  OneLiteralPerMatch(variables[v]) =>
                IF variables[v].literals # <<>> THEN recorded[v] = Truncate(all)
                ELSE Len(recorded[v]) < search.max => recorded[v] = all

\* The evaluator finds "$a at x", "$a in (x..y)" and "#a in (x..y)" by a binary
\* search: the matches of a string are in the strict order of their addresses,
\* when the regions are, whatever order its literals are met in. It holds of the
\* strings whose matches start before their literals, and of those searched on
\* their own.
SortedByAddress ==
    \A v \in Variables :
        variables[v].pre # <<>> \/ variables[v].literals = <<>> =>
            \A i, j \in DOMAIN recorded[v] :
                i < j => Address(recorded[v][i]) < Address(recorded[v][j])

\* "#a can never be greater than this value" (params.rs), on which the evaluator
\* relies when it counts in 32 bits: no string has more than
\* string_max_nb_matches matches, whatever the regions and the way it is searched.
Capped == \A v \in Variables : Len(recorded[v]) <= search.max

=============================================================================
