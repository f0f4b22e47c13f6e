------------------------------- MODULE ForLoop -------------------------------
(* One `for` over the strings of a rule, evaluated in the two passes of a     *)
(* scan: evaluate_for_var of boreal/src/evaluator/mod.rs.                     *)
(*                                                                            *)
(* In the first pass the matches of the strings are unknown and the body of   *)
(* an element may have no value (Err(VarNeeded)): the elements of `needs`.    *)
(* The loop then counts them and answers only if they cannot matter.  The     *)
(* second pass evaluates every body.  A rule whose for had an answer in the   *)
(* first pass is evaluated again when any other rule did not.                 *)
EXTENDS ForSelection, FiniteSets

CONSTANTS
    N,             \* number of elements of the set of strings
    Selections     \* selectors the loop may start with

ASSUME NAssumption == N \in Nat

\* evaluate_for_selection builds Number(v) for v > 0 only.
ASSUME SelectionsAssumption ==
    /\ Selections \subseteq Selector
    /\ \A s \in Selections : s.kind = "number" => s.n > 0

VARIABLES
    selection,         \* the selector evaluate_for_selection returned
    body,              \* truth of the body, for every element, given its matches
    needs,             \* elements whose body has no value without the matches
    pass,              \* the pass being evaluated
    index,             \* element about to be evaluated
    sel,               \* the selector as the loop has updated it
    nb_vars_needed,    \* elements the loop could not take into account
    answer             \* result of each pass: "open" until it returns

inputs == <<selection, body, needs>>
loop_vars == <<selection, body, needs, pass, index, sel, nb_vars_needed, answer>>

Elems   == 1 .. N
Pass    == {"no_scan", "full"}
Answers  == {"open", "true", "false", "unknown"}

TypeOK ==
    /\ selection \in Selections
    /\ body \in [Elems -> BOOLEAN]
    /\ needs \in SUBSET Elems
    /\ pass \in Pass
    /\ index \in 1 .. N + 1
    /\ sel \in Selector
    /\ nb_vars_needed \in Nat
    /\ answer \in [Pass -> Answers]

LoopInit ==
    /\ selection \in Selections
    /\ body \in [Elems -> BOOLEAN]
    /\ needs \in SUBSET Elems
    /\ pass = "no_scan"
    /\ index = 1
    /\ sel = selection
    /\ nb_vars_needed = 0
    /\ answer = [p \in Pass |-> "open"]

Running == answer[pass] = "open"

\* Err(PoisonKind::VarNeeded) => nb_vars_needed += 1, and the loop goes on.
SkipUnknown ==
    /\ Running
    /\ index <= N
    /\ pass = "no_scan" /\ index \in needs
    /\ nb_vars_needed' = nb_vars_needed + 1
    /\ index' = index + 1
    /\ UNCHANGED <<inputs, pass, sel, answer>>

\* The body has a value: it is added, and the loop returns if that is enough.
AddElement ==
    /\ Running
    /\ index <= N
    /\ ~(pass = "no_scan" /\ index \in needs)
    /\ LET added == AddResult(sel, body[index]) IN
       /\ sel' = added.sel
       /\ answer' = [answer EXCEPT ![pass] = added.answer]
    /\ index' = index + 1
    /\ UNCHANGED <<inputs, pass, nb_vars_needed>>

\* No element is left: selection.end(nb_vars_needed).
EndLoop ==
    /\ Running
    /\ index = N + 1
    /\ answer' = [answer EXCEPT ![pass] = EndSelection(sel, nb_vars_needed)]
    /\ UNCHANGED <<inputs, pass, index, sel, nb_vars_needed>>

\* Mutation: the countdown of the first pass goes on in the second.
SecondPassStale ==
    /\ pass = "no_scan"
    /\ ~Running
    /\ pass' = "full"
    /\ index' = 1
    /\ nb_vars_needed' = 0
    /\ UNCHANGED <<inputs, sel, answer>>

\* The memory has been scanned and the rule is evaluated from its start.
SecondPass ==
    /\ pass = "no_scan"
    /\ ~Running
    /\ pass' = "full"
    /\ index' = 1
    /\ sel' = selection
    /\ nb_vars_needed' = 0
    /\ UNCHANGED <<inputs, answer>>

LoopNext == SkipUnknown \/ AddElement \/ EndLoop \/ SecondPass

LoopSpec == LoopInit /\ [][LoopNext]_loop_vars

-----------------------------------------------------------------------------
Trues(S) == {e \in S : body[e]}

\* What the selection of a YARA `for` means over the truths of its bodies.
Holds ==
    \/ selection.kind = "all"    /\ Trues(Elems) = Elems
    \/ selection.kind = "none"   /\ Trues(Elems) = {}
    \/ selection.kind = "number" /\ Cardinality(Trues(Elems)) >= selection.n

Answered(p) == answer[p] \in {"true", "false"}

\* A for that is decided without the matches has the answer that the
\* evaluation with the matches gives: the comment of `end`, "a result should
\* only be returned if the value cannot change depending on any value those
\* evaluations can take".
NoScanIsSound == Answered("no_scan") => (answer["no_scan"] = "true") = Holds

\* With every match known the loop always has an answer (the unreachable!() of
\* the scanner relies on it), and its early exits and countdown compute what
\* the selection means.
FullIsExact ==
    /\ answer["full"] # "unknown"
    /\ Answered("full") => (answer["full"] = "true") = Holds

\* The first pass asks for a scan only when it must: the elements it could not
\* evaluate can make the for true, and can make it false.
NoScanIsPrecise ==
    answer["no_scan"] = "unknown" =>
        LET known == Trues(Elems \ needs) IN
        \/ selection.kind = "all"  /\ known = Elems \ needs /\ needs # {}
        \/ selection.kind = "none" /\ known = {} /\ needs # {}
        \/ /\ selection.kind = "number"
           /\ Cardinality(known) < selection.n
           /\ selection.n <= Cardinality(known) + Cardinality(needs)
=============================================================================
