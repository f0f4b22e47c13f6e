---------------------------- MODULE ScanContract ----------------------------
(* What a scan promises to its caller, whatever its parameters, the kind of  *)
(* its memory, and whether the memory had to be scanned for strings at all.  *)
(*                                                                           *)
(* The rules are numbered globals first.  `outcomes` is what the evaluation  *)
(* of each gives when every match in the memory is known: "true", "false" or *)
(* "Panic", which a global that reads the result of a rule does.             *)
EXTENDS Integers, Sequences

VARIABLES
    outcomes,      \* outcome of each rule
    public,        \* rules that are not private
    nb_globals,    \* the first nb_globals rules are global
    blind,         \* the scan tries the rules before it has the matches
    status,        \* "scanning", then how the scan returned
    report         \* rules reported, by number

Rules   == DOMAIN outcomes
Holds(i) == outcomes[i] = "true"
Globals == {i \in Rules : i <= nb_globals}
AllGlobalsHold == \A g \in Globals : Holds(g)

\* Rules that may be reported: a rule that is not global, only when every
\* global holds.
Reportable(i) ==
    i \in public /\ Holds(i) /\ (i \notin Globals => AllGlobalsHold)

InOrder(s) == \A j, k \in DOMAIN s : j < k => s[j] < s[k]

Init ==
    /\ status = "scanning"
    /\ report = <<>>

\* Every rule that holds is reported, in order, and none when a global does not
\* hold.
Complete ==
    /\ status = "scanning"
    /\ status' = "ok"
    /\ InOrder(report')
    /\ \A k \in DOMAIN report' : report'[k] \in Rules /\ Reportable(report'[k])
    /\ AllGlobalsHold => \A i \in Rules : Reportable(i) =>
                            \E k \in DOMAIN report' : report'[k] = i
    /\ ~AllGlobalsHold => report' = <<>>

\* A timeout: what was reported before it, nothing that does not hold.
Interrupt ==
    /\ status = "scanning"
    /\ status' = "Timeout"
    /\ InOrder(report')
    /\ \A k \in DOMAIN report' : report'[k] \in Rules /\ Reportable(report'[k])

\* The caller gets no result, and only because some rule panics by itself.
Unwind ==
    /\ status = "scanning"
    /\ status' = "Panic"
    /\ report' = <<>>
    /\ \E i \in Rules : outcomes[i] = "Panic"

Next == Complete \/ Interrupt \/ Unwind

Spec == Init /\ [][Next]_<<status, report>>

\* Where the code departs from it: without the matches, a false global ends the
\* scan and the public globals found to hold before it stay in the result.
LeavesGlobals ==
    /\ status = "scanning"
    /\ status' = "ok"
    /\ blind
    /\ InOrder(report')
    /\ \E f \in Globals :
          /\ outcomes[f] = "false"
          /\ \A k \in DOMAIN report' :
                report'[k] \in public /\ Holds(report'[k]) /\ report'[k] \in 1 .. f - 1

AsBuilt == Init /\ [][Next \/ LeavesGlobals]_<<status, report>>
=============================================================================
