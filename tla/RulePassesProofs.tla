-------------------------- MODULE RulePassesProofs --------------------------
(* For every condition, context and choice of the expressions that find the   *)
(* timeout expired: the pass with the matches always decides; an expired      *)
(* timeout is never turned into a result; and, where the lists that a `for`   *)
(* walks are defined, a rule decided without the matches has the result that  *)
(* they give.                                                                 *)
(*                                                                            *)
(* The last two compare two evaluations of the condition: EvaluatorProofs.    *)
EXTENDS RulePasses, EvaluatorProofs

LEMMA ScanContexts ==
    ASSUME NEW ctx \in Contexts, NEW x
    PROVE  /\ ContextOK(ctx) /\ ContextOK(Blind(ctx))
           /\ ContextOK(Expire(ctx, x)) /\ ContextOK(Expire(Blind(ctx), x))
           /\ Expire(ctx, x).var_matches = ctx.var_matches
           /\ Expire(Blind(ctx), x).var_matches = Blind(ctx).var_matches
           /\ ctx.var_matches.known /\ ~Blind(ctx).var_matches.known
           /\ ctx.expired = {} /\ Blind(ctx).expired = {}
  <1>1. ContextOK(ctx) /\ ctx.var_matches.known /\ ctx.expired = {}
    BY ContextsAssumption
  <1>2. ASSUME NEW a, ContextOK(a)
        PROVE  ContextOK(Expire(a, x)) /\ Expire(a, x).var_matches = a.var_matches
    BY <1>2 DEF ContextOK, Expire
  <1>3. [known |-> FALSE, of |-> <<>>] \in
           [known : BOOLEAN, of : Seq(Seq([offset : Nat, length : Nat]))]
    OBVIOUS
  <1>4. Blind(ctx).var_matches = [known |-> FALSE, of |-> <<>>]
        /\ Blind(ctx).expired = ctx.expired
    BY <1>1 DEF Blind, ContextOK
  <1>5. ContextOK(Blind(ctx))
    BY <1>1, <1>3 DEF Blind, ContextOK
  <1>6. ~Blind(ctx).var_matches.known
    BY <1>4
  <1> QED
    BY <1>1, <1>2, <1>4, <1>5, <1>6

-----------------------------------------------------------------------------
(* The two passes. *)

NoScanResult(x) == evaluate_rule(Expire(Blind(context), x), condition)
FullResult(x) == evaluate_rule(Expire(context, x), condition)

\* The result of each pass is an evaluation of the condition.
PassesInv ==
    /\ condition \in Conditions /\ context \in Contexts
    /\ no_scan = "none" \/ \E x \in Expirations : no_scan = NoScanResult(x)
    /\ full = "none" \/ \E x \in Expirations : full = FullResult(x)

LEMMA PassesInit == Init => PassesInv
  BY DEF Init, PassesInv

LEMMA PassesStep == PassesInv /\ [Next]_vars => PassesInv'
  <1> SUFFICES ASSUME PassesInv, [Next]_vars
               PROVE  PassesInv'
    OBVIOUS
  <1>1. CASE NoScanPass
    BY <1>1 DEF NoScanPass, PassesInv, NoScanResult, FullResult
  <1>2. CASE FullPass
    BY <1>2 DEF FullPass, PassesInv, NoScanResult, FullResult
  <1>3. CASE UNCHANGED vars
    BY <1>3 DEF vars, PassesInv, NoScanResult, FullResult
  <1> QED
    BY <1>1, <1>2, <1>3 DEF Next

LEMMA PassesInvariant == Spec => []PassesInv
  BY PassesInit, PassesStep, PTL DEF Spec

LEMMA FullPassDecidesNow == PassesInv => FullPassDecides
  <1> SUFFICES ASSUME PassesInv
               PROVE  full # "Undecidable"
    BY DEF FullPassDecides
  <1>1. CASE full = "none"
    BY <1>1
  <1>2. ASSUME NEW x, full = FullResult(x)
        PROVE  full # "Undecidable"
    <2> DEFINE c == Expire(context, x)
    <2>1. condition \in Expression /\ context \in Contexts
      BY ConditionsAssumption DEF PassesInv
    <2>2. ContextOK(c) /\ c.var_matches.known
      BY <2>1, ScanContexts
    <2> HIDE DEF c
    <2>3. Eval(c, condition) # VarNeeded
      BY <2>1, <2>2, EvaluationsAreTyped DEF Typed
    <2>4. full = RuleResult(Eval(c, condition))
      BY <1>2, RuleResults DEF FullResult, c
    <2> QED
      BY <2>3, <2>4, RuleResults
  <1> QED
    BY <1>1, <1>2 DEF PassesInv

LEMMA TimeoutIsRethrownNow == PassesInv => TimeoutIsRethrown
  <1> DEFINE E == {Timeout}
             F == {}
  <1>1. Modes(E, F) /\ VarNeeded \notin E
    BY PoisonFacts DEF Modes
  <1>2. ASSUME NEW e \in Expression, NEW a, ContextOK(a), a.expired = {}, NEW x,
               ContextOK(Expire(a, x))
        PROVE  \/ evaluate_rule(Expire(a, x), e) = "Timeout"
               \/ evaluate_rule(Expire(a, x), e) = evaluate_rule(a, e)
    <2>1. SameScan(E, F, Expire(a, x), a)
      BY <1>2 DEF SameScan, Expire, ContextOK
    <2> HIDE DEF E, F
    <2>2. Agree(E, F, Eval(Expire(a, x), e), Eval(a, e))
      BY <1>1, <1>2, <2>1, EvaluationsAgree
    <2>3. Eval(Expire(a, x), e) = Timeout \/ Eval(Expire(a, x), e) = Eval(a, e)
      BY <2>2 DEF Agree, E, F
    <2> QED
      BY <2>3, RuleResults
  <1> SUFFICES ASSUME PassesInv
               PROVE  TimeoutIsRethrown
    OBVIOUS
  <1>3. condition \in Expression /\ context \in Contexts
    BY ConditionsAssumption DEF PassesInv
  <1>4. ASSUME NEW x, no_scan = NoScanResult(x), no_scan # "Timeout"
        PROVE  no_scan = evaluate_rule(Blind(context), condition)
    <2>1. /\ ContextOK(Blind(context)) /\ Blind(context).expired = {}
          /\ ContextOK(Expire(Blind(context), x))
      BY <1>3, ScanContexts
    <2> QED
      BY <1>2, <1>3, <1>4, <2>1 DEF NoScanResult
  <1>5. ASSUME NEW x, full = FullResult(x), full # "Timeout"
        PROVE  full = evaluate_rule(context, condition)
    <2>1. /\ ContextOK(context) /\ context.expired = {}
          /\ ContextOK(Expire(context, x))
      BY <1>3, ScanContexts
    <2> QED
      BY <1>2, <1>3, <1>5, <2>1 DEF FullResult
  <1> QED
    BY <1>4, <1>5 DEF PassesInv, TimeoutIsRethrown

LEMMA DecisionIsFinalNow ==
    ASSUME ListsAreDefined
    PROVE  PassesInv => DecisionIsFinal
  <1> DEFINE E == Fatal \cup {VarNeeded}
             F == Fatal
  <1>1. Modes(E, F) /\ VarNeeded \in E /\ Timeout \in F
    BY DEF Modes, Fatal
  <1> SUFFICES ASSUME PassesInv, no_scan \in Decided, full \in Decided
               PROVE  full = no_scan
    BY DEF DecisionIsFinal
  <1>2. condition \in Expression /\ context \in Contexts
    BY ConditionsAssumption DEF PassesInv
  <1>3. PICK x : no_scan = NoScanResult(x)
    BY DEF PassesInv, Decided
  <1>4. PICK y : full = FullResult(y)
    BY DEF PassesInv, Decided
  <1> DEFINE c == Expire(Blind(context), x)
             d == Expire(context, y)
             v == Eval(c, condition)
             w == Eval(d, condition)
  <1>5. ContextOK(c) /\ ContextOK(d) /\ d.var_matches.known /\ ~c.var_matches.known
    BY <1>2, ScanContexts
  <1>6. SameScan(E, F, c, d)
    <2>1. /\ c.previous = d.previous /\ c.filesize = d.filesize
          /\ c.entrypoint = d.entrypoint /\ c.memory = d.memory
          /\ c.modules = d.modules /\ c.externals = d.externals
          /\ c.overflow_checks = d.overflow_checks
      <3>1. ContextOK(context)
        BY <1>2, ScanContexts
      <3> QED
        BY <3>1 DEF Expire, Blind, ContextOK
    <2> HIDE DEF c, d, E, F
    <2> QED
      BY <1>1, <1>5, <2>1 DEF SameScan
  <1>7. no_scan = RuleResult(v) /\ full = RuleResult(w)
    BY <1>3, <1>4, RuleResults DEF NoScanResult, FullResult
  <1> HIDE DEF c, d
  <1>8. Agree(E, F, v, w)
    <2> HIDE DEF E, F
    <2> QED
      BY <1>1, <1>2, <1>5, <1>6, EvaluationsAgree
  <1> HIDE DEF v, w
  <1>9. v \notin E /\ w \notin F
    BY <1>7, RuleResults DEF Decided
  <1> QED
    BY <1>7, <1>8, <1>9 DEF Agree

\* The pass that knows the matches decides every rule: the branch that the scanner
\* marks as unreachable!() is not reached, whatever the condition, the matches and
\* the expressions at which the timeout is found expired.
THEOREM FullPassAlwaysDecides == Spec => []FullPassDecides
  BY PassesInvariant, FullPassDecidesNow, PTL

\* No operator turns an expired timeout into a result: the evaluation of a rule ends
\* with the timeout, or as the evaluation for which the timeout never expires.
THEOREM TimeoutIsNeverAbsorbed == Spec => []TimeoutIsRethrown
  BY PassesInvariant, TimeoutIsRethrownNow, PTL

\* A rule that the pass without the matches decides has the result that the matches
\* give, whichever operators absorbed the operands that needed them, where the lists
\* that a for walks hold defined items.
THEOREM DecisionsAreFinal ==
    ASSUME ListsAreDefined
    PROVE  Spec => []DecisionIsFinal
  BY PassesInvariant, DecisionIsFinalNow, PTL

=============================================================================
