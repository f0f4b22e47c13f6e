---------------------------- MODULE ForSelection ----------------------------
(* The selection of a `for` expression: any / all / none / a number of the   *)
(* elements.  A selector accumulates the results of the body, one element at *)
(* a time, and answers as soon as no later element can change the answer.    *)
(* The operators carry the names of boreal/src/evaluator/mod.rs.             *)
EXTENDS Integers

\* ForSelectionEvaluator.  `n` is the countdown of Number and 0 otherwise.
Selector ==
    [kind : {"all", "none"}, n : {0}] \cup [kind : {"number"}, n : Nat]

All       == [kind |-> "all", n |-> 0]
None      == [kind |-> "none", n |-> 0]
Number(k) == [kind |-> "number", n |-> k]

\* Number(v) if matched: v.saturating_sub(1).
Consume(sel, matched) ==
    IF sel.kind = "number" /\ matched /\ sel.n > 0
    THEN Number(sel.n - 1)
    ELSE sel

\* add_result_and_check: the selector after the result of one element, and the
\* answer it then has ("true", "false", or "open" for None).
AddResult(sel, matched) ==
    LET after == Consume(sel, matched) IN
    [sel |-> after,
     answer |-> CASE sel.kind = "all" /\ ~matched -> "false"
                  [] sel.kind = "none" /\ matched -> "false"
                  [] sel.kind = "number" /\ matched /\ after.n = 0 -> "true"
                  [] OTHER -> "open"]

\* Mutations of EndSelection: a number of unknown elements that could just reach
\* the selection is not enough; any unknown element asks for the matches; one
\* element too many is believed to be left.
EndSelectionStrict(sel, nb_vars_needed) ==
    IF sel.kind = "number"
    THEN IF nb_vars_needed > sel.n THEN "unknown" ELSE "false"
    ELSE IF nb_vars_needed > 0 THEN "unknown" ELSE "true"

EndSelectionEager(sel, nb_vars_needed) ==
    IF nb_vars_needed > 0 THEN "unknown"
    ELSE IF sel.kind = "number" THEN "false" ELSE "true"

EndSelectionOffByOne(sel, nb_vars_needed) ==
    IF sel.kind = "number"
    THEN IF nb_vars_needed + 1 >= sel.n THEN "unknown" ELSE "false"
    ELSE IF nb_vars_needed > 0 THEN "unknown" ELSE "true"

\* end(nb_vars_needed): no element is left; "unknown" is Err(VarNeeded).
EndSelection(sel, nb_vars_needed) ==
    IF sel.kind = "number"
    THEN IF nb_vars_needed >= sel.n THEN "unknown" ELSE "false"
    ELSE IF nb_vars_needed > 0 THEN "unknown" ELSE "true"
=============================================================================
