----------------------------- MODULE RulePasses -----------------------------
(* One rule over one memory, evaluated in the two passes of a scan:          *)
(* evaluate_rule of boreal/src/evaluator/mod.rs as the scanner calls it,     *)
(* first without the matches of its variables, then with them.               *)
(*                                                                           *)
(* The timeout is checked at the start of every evaluate_expr, so that any   *)
(* sub-expression may be the one that finds it expired.                      *)
EXTENDS Evaluator

CONSTANTS
    Conditions,    \* conditions of rules
    Contexts,      \* what the evaluation reads, its matches known
    Expirations    \* sets of expressions that may find the timeout expired

ASSUME ConditionsAssumption == Conditions \subseteq Expression
ASSUME ContextsAssumption ==
    \A c \in Contexts : ContextOK(c) /\ c.var_matches.known /\ c.expired = {}

VARIABLES
    condition,
    context,
    no_scan,       \* result of the pass without matches, or "none"
    full           \* result of the pass with them, or "none"

vars == <<condition, context, no_scan, full>>

\* The context of the first pass.
Blind(ctx) == [ctx EXCEPT !.var_matches = [known |-> FALSE, of |-> <<>>]]

Expire(ctx, expressions) == [ctx EXCEPT !.expired = expressions]

Results == {"none", "true", "false", "Undecidable", "Timeout", "Panic"}

Init ==
    /\ condition \in Conditions
    /\ context \in Contexts
    /\ no_scan = "none"
    /\ full = "none"

NoScanPass ==
    /\ no_scan = "none"
    /\ \E x \in Expirations :
          no_scan' = evaluate_rule(Expire(Blind(context), x), condition)
    /\ UNCHANGED <<condition, context, full>>

\* A rule is evaluated again when it, or another rule of the scanner, could
\* not be decided.
FullPass ==
    /\ no_scan \in {"true", "false", "Undecidable"}
    /\ full = "none"
    /\ \E x \in Expirations :
          full' = evaluate_rule(Expire(context, x), condition)
    /\ UNCHANGED <<condition, context, no_scan>>

Next == NoScanPass \/ FullPass

Spec == Init /\ [][Next]_vars

-----------------------------------------------------------------------------
Decided == {"true", "false"}

\* "without availability of the variables' matches": a rule decided then has
\* the result that the matches give, whichever operators absorbed VarNeeded.
DecisionIsFinal ==
    no_scan \in Decided /\ full \in Decided => full = no_scan

\* The scanner marks an undecidable rule of the second pass as unreachable!().
FullPassDecides == full # "Undecidable"

\* An expired timeout "should always be rethrown, no matter what": no operator
\* turns it into a result, true or false, that the evaluation would not have.
TimeoutIsRethrown ==
    /\ no_scan \in Results \ {"none", "Timeout"} =>
          no_scan = evaluate_rule(Blind(context), condition)
    /\ full \in Results \ {"none", "Timeout"} =>
          full = evaluate_rule(context, condition)
=============================================================================
